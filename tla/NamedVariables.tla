--------------------------- MODULE NamedVariables ---------------------------
(***************************************************************************)
(* The three objects that own variables by name: ChannelAccessClient,       *)
(* PvAccessClient (with its Impl) and PvAccessServer (with its Impl).       *)
(*                                                                         *)
(* One user thread calls the owner; the maps are not protected, and the     *)
(* callbacks, which come on a thread of the library, do not touch them.     *)
(* They do use the owner's callback member, and the variable they come      *)
(* from, which both go with the owner or before.                            *)
(*                                                                         *)
(* External: the library calls back one variable at a time, from the moment *)
(* its PV is under construction until the PV is destroyed, which waits for  *)
(* a callback of that PV that is running; a PVXS server calls back for what *)
(* is open while it runs, and stop() waits.                                 *)
(***************************************************************************)
EXTENDS Naturals

CONSTANTS Names,        (* of variables, ordered like the map *)
          None          (* no variable *)

ASSUME NamesAssumption == Names \subseteq Nat /\ None \notin Names

VARIABLES owner,        (* which of the three *)
          present,      (* the names in the map *)
          subscribed,   (* clients: the PVs that may be called back *)
          calling,      (* the variable whose callback is running *)
          alive,        (* the owner's callback member exists *)
          user,         (* where the user's thread is in a call *)
          target,       (* the variable of that call *)
          todo,         (* the variables it has still to visit *)
          answer,       (* how the last call ended *)
          empty,        (* server: variables whose initial value is empty *)
          open,         (* server: the published variables *)
          running,      (* server: the PVXS server runs *)
          starts        (* server: calls of Start, up to 2 *)

callVars == <<user, target, todo, answer>>
serverVars == <<empty, open, running, starts>>
vars == <<owner, present, subscribed, calling, alive, callVars, serverVars>>

Owners == {"ChannelAccessClient", "PvAccessClient", "PvAccessServer"}

Init == /\ owner \in Owners
        /\ present = {}
        /\ subscribed = {}
        /\ calling = None
        /\ alive = TRUE
        /\ user = "idle"
        /\ target = None
        /\ todo = {}
        /\ answer = "none"
        /\ empty = {}
        /\ open = {}
        /\ running = FALSE
        /\ starts = 0

Finish(a) == /\ user' = "idle"
             /\ target' = None
             /\ todo' = {}
             /\ answer' = a

Enter(step, n, visits) == /\ user = "idle"
                          /\ user' = step
                          /\ target' = n
                          /\ todo' = visits
                          /\ answer' = "none"

------------------------------------------------------------------------------
(* The callbacks.                                                          *)

CallBack(n) == /\ calling = None
               /\ calling' = n
               /\ UNCHANGED <<owner, present, subscribed, alive, callVars, serverVars>>

(* With the name the callback was bound to when the PV was constructed. *)
OnVariableUpdated(n) == /\ owner = "ChannelAccessClient"
                        /\ n \in subscribed
                        /\ CallBack(n)

OnVariableChanged(n) == /\ owner = "PvAccessClient"
                        /\ n \in subscribed
                        /\ CallBack(n)

OnServerVariableChanged(n) == /\ owner = "PvAccessServer"
                              /\ n \in open /\ running
                              /\ CallBack(n)

CallbackReturns == /\ calling # None
                   /\ calling' = None
                   /\ UNCHANGED <<owner, present, subscribed, alive, callVars, serverVars>>

------------------------------------------------------------------------------
(* The clients.                                                            *)

(* The constructor of the PV: it is called back before it is in the map. *)
ConstructPV(n) == /\ owner # "PvAccessServer"
                  /\ n \notin present
                  /\ Enter("adding", n, {})
                  /\ subscribed' = subscribed \cup {n}
                  /\ UNCHANGED <<owner, present, calling, alive, serverVars>>

(* A name that is there is refused; so is one whose PV cannot be constructed, *)
(* by which time the library does not call it back any more.                  *)
Refusal == IF owner = "ChannelAccessClient" THEN "false" ELSE "throws"

AddExisting(n) == /\ user = "idle"
                  /\ n \in present
                  /\ Finish(Refusal)
                  /\ UNCHANGED <<owner, present, subscribed, calling, alive, serverVars>>

(* Mutant: the channel of a PV that could not be constructed stays. *)
Mut_FailSubscribed == /\ user = "adding"
                      /\ Finish(Refusal)
                      /\ UNCHANGED <<owner, present, subscribed, calling, alive, serverVars>>

ConstructionFails == /\ user = "adding"
                     /\ calling # target
                     /\ subscribed' = subscribed \ {target}
                     /\ Finish(Refusal)
                     /\ UNCHANGED <<owner, present, calling, alive, serverVars>>

Emplace == /\ user = "adding"
           /\ present' = present \cup {target}
           /\ Finish("true")
           /\ UNCHANGED <<owner, subscribed, calling, alive, serverVars>>

RemoveVariable(n) == /\ owner = "ChannelAccessClient"
                     /\ IF n \in present THEN Enter("removing", n, {})
                        ELSE user = "idle" /\ Finish("false")
                     /\ UNCHANGED <<owner, present, subscribed, calling, alive, serverVars>>

(* The destructor of a client's PV, when no callback of it is running. *)
DestroyPV(n) == /\ calling # n
                /\ subscribed' = subscribed \ {n}
                /\ present' = present \ {n}

Erase == /\ user = "removing"
         /\ DestroyPV(target)
         /\ Finish("true")
         /\ UNCHANGED <<owner, calling, alive, serverVars>>

------------------------------------------------------------------------------
(* The calls by name: IsConnected, the getters, SetValue and the waits.     *)

AskChannelAccess(n) == IF n \in present THEN {"served"} ELSE {"false"}

(* IsConnected() has an answer for any name. *)
AskPvAccess(n) == IF n \in present THEN {"served"} ELSE {"false", "throws"}

AskServer(n) == IF n \in present THEN {"served"} ELSE {"throws"}

Ask(n) == /\ user = "idle"
          /\ \E a \in IF owner = "ChannelAccessClient" THEN AskChannelAccess(n)
                      ELSE IF owner = "PvAccessClient" THEN AskPvAccess(n) ELSE AskServer(n) : Finish(a)
          /\ UNCHANGED <<owner, present, subscribed, calling, alive, serverVars>>

------------------------------------------------------------------------------
(* The server.                                                             *)

(* The initial value is a structure, empty, or a scalar, which is refused. *)
AddServerVariable(n, value) ==
  /\ owner = "PvAccessServer"
  /\ user = "idle"
  /\ n \notin present
  /\ IF value = "scalar" THEN Finish("throws") /\ UNCHANGED <<present, empty>>
     ELSE /\ Finish("true")
          /\ present' = present \cup {n}
          /\ empty' = IF value = "empty" THEN empty \cup {n} ELSE empty
  /\ UNCHANGED <<owner, subscribed, calling, alive, open, running, starts>>

Start == /\ owner = "PvAccessServer"
         /\ Enter("starting", None, present)
         /\ starts' = IF starts = 2 THEN 2 ELSE starts + 1
         /\ UNCHANGED <<owner, present, subscribed, calling, alive, empty, open, running>>

First(n) == n \in todo /\ \A other \in todo : n <= other

(* AddToServer throws for a variable that is open, and open() for one that is *)
(* empty; the others in front of it are published by then.                    *)
AddToServer(n) ==
  /\ user = "starting"
  /\ First(n)
  /\ IF n \in open \cup empty THEN Finish("not started") /\ UNCHANGED open
     ELSE /\ open' = open \cup {n}
          /\ todo' = todo \ {n}
          /\ UNCHANGED <<user, target, answer>>
  /\ UNCHANGED <<owner, present, subscribed, calling, alive, empty, running, starts>>

(* Mutant: the server is started before its variables are added. *)
Mut_StartAtOnce == /\ user = "starting"
                   /\ running' = TRUE
                   /\ Finish("started")
                   /\ UNCHANGED <<owner, present, subscribed, calling, alive, empty, open, starts>>

StartServer == /\ user = "starting"
               /\ todo = {}
               /\ running' = TRUE
               /\ Finish("started")
               /\ UNCHANGED <<owner, present, subscribed, calling, alive, empty, open, starts>>

------------------------------------------------------------------------------
(* The destructors: the server is stopped first; the variables go before    *)
(* the callback, which is declared in front of them.                        *)

Destroy == /\ Enter("destroying", None, present)
           /\ UNCHANGED <<owner, present, subscribed, calling, alive, serverVars>>

Stop == /\ user = "destroying"
        /\ running
        /\ calling = None
        /\ running' = FALSE
        /\ UNCHANGED <<owner, present, subscribed, calling, alive, callVars, empty, open, starts>>

DestroyVariable(n) == /\ user = "destroying"
                      /\ ~running
                      /\ n \in todo
                      /\ DestroyPV(n)
                      /\ todo' = todo \ {n}
                      /\ UNCHANGED <<owner, calling, alive, user, target, answer, serverVars>>

(* Mutant: the callback is declared behind the variables. *)
Mut_CallbackFirst == /\ user = "destroying"
                     /\ alive
                     /\ alive' = FALSE
                     /\ IF todo = {} THEN user' = "gone" ELSE UNCHANGED user
                     /\ UNCHANGED <<owner, present, subscribed, calling, target, todo, answer, serverVars>>

DestroyCallback == /\ user = "destroying"
                   /\ ~running
                   /\ todo = {}
                   /\ alive' = FALSE
                   /\ user' = "gone"
                   /\ UNCHANGED <<owner, present, subscribed, calling, target, todo, answer, serverVars>>

------------------------------------------------------------------------------
Library == \/ \E n \in Names : OnVariableUpdated(n) \/ OnVariableChanged(n) \/ OnServerVariableChanged(n)
           \/ CallbackReturns

User == \/ \E n \in Names : \/ ConstructPV(n) \/ AddExisting(n) \/ RemoveVariable(n) \/ Ask(n)
                            \/ \E value \in {"struct", "empty", "scalar"} : AddServerVariable(n, value)
                            \/ AddToServer(n) \/ DestroyVariable(n)
        \/ ConstructionFails \/ Emplace \/ Erase
        \/ Start \/ StartServer \/ Destroy \/ Stop \/ DestroyCallback

Next == Library \/ User

Spec == Init /\ [][Next]_vars

------------------------------------------------------------------------------
(* Every variable has its type. *)
TypeOK == /\ owner \in Owners
          /\ present \subseteq Names /\ subscribed \subseteq Names /\ todo \subseteq Names
          /\ empty \subseteq Names /\ open \subseteq Names
          /\ calling \in Names \cup {None} /\ target \in Names \cup {None}
          /\ alive \in BOOLEAN /\ running \in BOOLEAN
          /\ user \in {"idle", "adding", "removing", "starting", "destroying", "gone"}
          /\ answer \in {"none", "true", "false", "throws", "served", "started", "not started"}
          /\ starts \in 0..2

(* channel_access_client.h:148, "the callback has to outlive the PVs": while a *)
(* callback is running the owner's callback member and the variable exist; in *)
(* particular no variable is reported after RemoveVariable has returned, or    *)
(* AddVariable has refused it.                                                *)
CallbackOnLive == calling # None => /\ alive
                                    /\ calling \in present \/ (user = "adding" /\ calling = target)

(* Whatever AddVariable and RemoveVariable did, what the library may still     *)
(* call back is what is in the map.                                            *)
NothingLeftBehind == user = "idle" /\ owner # "PvAccessServer" => subscribed = present

(* pv_access_server.h:110: a Start that returns has published all variables    *)
(* and started the server; the first one does unless a variable is empty.      *)
StartTells == /\ answer = "started" => running /\ present \subseteq open
              /\ answer = "not started" => starts = 2 \/ empty \cap present # {}
==============================================================================
