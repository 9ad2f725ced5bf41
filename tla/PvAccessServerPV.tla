--------------------------- MODULE PvAccessServerPV ---------------------------
(***************************************************************************)
(* pvxs/pv_access_server_pv.cpp: one variable of a PvAccess server.  Its     *)
(* value is kept twice, as the library's AnyValue (any) and as a PVXS value  *)
(* (cache), and a third time in PVXS's SharedPV (current), which is what     *)
(* clients on the network see.  Users set it, from several threads, and PVXS *)
(* calls back, from its one worker thread, for puts from the network.        *)
(*                                                                         *)
(* A critical section of m_mutex is two steps, so that the reads the code    *)
(* makes without the mutex (post and the user's callback) can fall into it:  *)
(* such a read returns, field by field, what was there or what is coming.    *)
(*                                                                         *)
(* Values are non-empty structures of one type: a scalar or an incompatible  *)
(* value makes SetValue throw before anything is changed.                    *)
(***************************************************************************)
EXTENDS Naturals, FiniteSets

CONSTANTS Users,        (* threads that call SetValue *)
          Fields,       (* of the structure *)
          Scalars,      (* the values of a field *)
          Default,      (* the value of a field that a put leaves out *)
          Closed,       (* current, as long as the variable is not published *)
          Worker,       (* the thread of PVXS *)
          Nobody,       (* the holder of a free mutex *)
          StartFirst,   (* users set the variable only after it was published *)
          FullPuts      (* puts from the network bring every field *)

ASSUME ServerAssumption == /\ Default \in Scalars
                           /\ Closed \notin [Fields -> Scalars]
                           /\ {Worker, Nobody} \cap Users = {}
                           /\ Worker # Nobody
                           /\ {StartFirst, FullPuts} \subseteq BOOLEAN

VARIABLES any,          (* m_any_value *)
          cache,        (* m_pvxs_cache *)
          current,      (* the value inside m_shared_pv *)
          told,         (* what the callback was last called with *)
          holder,       (* who holds m_mutex *)
          upc, arg,     (* where each user is in SetValue, and with what *)
          wpc, put      (* where the worker is in OnSharedValueChanged, and with what *)

values == <<any, cache, current, told>>
userVars == <<upc, arg>>
workerVars == <<wpc, put>>
vars == <<values, holder, userVars, workerVars>>

Structs == [Fields -> Scalars]

IsOpen == current # Closed

(* A put carries the fields it marks; the others have their default value. *)
Puts == {p \in [marked : SUBSET Fields, value : Structs] :
           /\ \A f \in Fields \ p.marked : p.value[f] = Default
           /\ FullPuts => p.marked = Fields}

Init == \E v \in Structs :
          /\ any = v /\ cache = v /\ told = v
          /\ current = Closed
          /\ holder = Nobody
          /\ upc = [u \in Users |-> "idle"]
          /\ arg = [u \in Users |-> v]
          /\ wpc = "idle"
          /\ put = [marked |-> Fields, value |-> v]

Goto(u, l) == upc' = [upc EXCEPT ![u] = l]

Lock(t) == holder = Nobody /\ holder' = t
Unlock(t) == holder = t /\ holder' = Nobody

(* What a copy of the marked fields leaves: pvxs::Value::assign(). *)
Assign(value, p) == [f \in Fields |-> IF f \in p.marked THEN p.value[f] ELSE value[f]]

(* v is, field by field, what was there or what is replacing it. *)
Between(v, old, new) == \A f \in Fields : v[f] \in {old[f], new[f]}

(* What a read of m_any_value, or of m_pvxs_cache, without the mutex may return. *)
AnyReads == {v \in Structs : \/ v = any
                             \/ \E u \in Users : upc[u] = "storing" /\ Between(v, any, arg[u])
                             \/ wpc = "updating" /\ Between(v, any, put.value)}

CacheReads == {v \in Structs : \/ v = cache
                               \/ \E u \in Users : upc[u] = "refreshing" /\ Between(v, cache, any)
                               \/ wpc = "updating" /\ Between(v, cache, Assign(cache, put))}

------------------------------------------------------------------------------
(* AddToServer(): published with what is in the PVXS cache.                *)
Open == /\ ~IsOpen
        /\ current' = cache
        /\ UNCHANGED <<any, cache, told, holder, userVars, workerVars>>

------------------------------------------------------------------------------
(* SetValue().                                                             *)

BeginStore(u, v) == /\ upc[u] = "idle"
                    /\ StartFirst => IsOpen
                    /\ Lock(u)
                    /\ arg' = [arg EXCEPT ![u] = v]
                    /\ Goto(u, "storing")
                    /\ UNCHANGED <<values, workerVars>>

EndStore(u) == /\ upc[u] = "storing"
               /\ any' = arg[u]
               /\ Unlock(u)
               /\ Goto(u, "stored")
               /\ UNCHANGED <<cache, current, told, arg, workerVars>>

(* Mutant: a variable that was published is taken for one that was not. *)
Mut_NeverOpen(u) == /\ upc[u] = "stored"
                    /\ Goto(u, "tell")
                    /\ UNCHANGED <<values, holder, arg, workerVars>>

(* m_shared_pv.isOpen(). *)
CheckOpen(u) == /\ upc[u] = "stored"
                /\ Goto(u, IF IsOpen THEN "refresh" ELSE "tell")
                /\ UNCHANGED <<values, holder, arg, workerVars>>

BeginRefresh(u) == /\ upc[u] = "refresh"
                   /\ Lock(u)
                   /\ Goto(u, "refreshing")
                   /\ UNCHANGED <<values, arg, workerVars>>

(* Mutant: the PVXS cache is built from the argument of SetValue. *)
Mut_RefreshFromArgument(u) == /\ upc[u] = "refreshing"
                              /\ cache' = arg[u]
                              /\ Unlock(u)
                              /\ Goto(u, "post")
                              /\ UNCHANGED <<any, current, told, arg, workerVars>>

EndRefresh(u) == /\ upc[u] = "refreshing"
                 /\ cache' = any
                 /\ Unlock(u)
                 /\ Goto(u, "post")
                 /\ UNCHANGED <<any, current, told, arg, workerVars>>

(* m_shared_pv.post(m_pvxs_cache), without m_mutex. *)
Post(u) == /\ upc[u] = "post"
           /\ current' \in CacheReads
           /\ Goto(u, "tell")
           /\ UNCHANGED <<any, cache, told, holder, arg, workerVars>>

(* Mutant: the callback is called with the argument of SetValue. *)
Mut_TellArgument(u) == /\ upc[u] = "tell"
                       /\ told' = arg[u]
                       /\ Goto(u, "idle")
                       /\ UNCHANGED <<any, cache, current, holder, arg, workerVars>>

(* m_callback(m_any_value), without m_mutex. *)
Tell(u) == /\ upc[u] = "tell"
           /\ told' \in AnyReads
           /\ Goto(u, "idle")
           /\ UNCHANGED <<any, cache, current, holder, arg, workerVars>>

------------------------------------------------------------------------------
(* OnSharedValueChanged().                                                 *)

BeginPut(p) == /\ wpc = "idle"
               /\ IsOpen
               /\ Lock(Worker)
               /\ put' = p
               /\ wpc' = "updating"
               /\ UNCHANGED <<values, userVars>>

(* The AnyValue is built from all fields, the cache assigned from the marked *)
(* ones, and posted.                                                         *)
EndPut == /\ wpc = "updating"
          /\ any' = put.value
          /\ cache' = Assign(cache, put)
          /\ current' = cache'
          /\ Unlock(Worker)
          /\ wpc' = "tell"
          /\ UNCHANGED <<told, put, userVars>>

(* The callback, without m_mutex, and the reply to the client. *)
TellAndReply == /\ wpc = "tell"
                /\ told' \in AnyReads
                /\ wpc' = "idle"
                /\ UNCHANGED <<any, cache, current, holder, put, userVars>>

------------------------------------------------------------------------------
SetValue(u) == \/ \E v \in Structs : BeginStore(u, v)
               \/ EndStore(u) \/ CheckOpen(u) \/ BeginRefresh(u) \/ EndRefresh(u)
               \/ Post(u) \/ Tell(u)

OnSharedValueChanged == (\E p \in Puts : BeginPut(p)) \/ EndPut \/ TellAndReply

Next == Open \/ (\E u \in Users : SetValue(u)) \/ OnSharedValueChanged

Spec == Init /\ [][Next]_vars

(* Every thread goes on with what it began; a thread that waits for the mutex *)
(* gets it, however often others take it.                                     *)
Fairness == /\ WF_vars(EndPut \/ TellAndReply)
            /\ \A u \in Users : /\ WF_vars(EndStore(u) \/ CheckOpen(u) \/ EndRefresh(u)
                                              \/ Post(u) \/ Tell(u))
                                /\ SF_vars(BeginRefresh(u))

FairSpec == Spec /\ Fairness

------------------------------------------------------------------------------
(* Every variable has its type. *)
TypeOK == /\ {any, cache, told} \subseteq Structs
          /\ current \in Structs \cup {Closed}
          /\ holder \in Users \cup {Worker, Nobody}
          /\ upc \in [Users -> {"idle", "storing", "stored", "refresh", "refreshing",
                                "post", "tell"}]
          /\ arg \in [Users -> Structs]
          /\ wpc \in {"idle", "updating", "tell"}
          /\ put \in Puts

(* No call is in progress. *)
AtRest == wpc = "idle" /\ \A u \in Users : upc[u] = "idle"

(* What clients of a published variable see is what the server's users read, *)
(* once every SetValue and every put is over, although each of them updates  *)
(* the three values in several steps, partly without the mutex               *)
(* (pv_access_server.h:91-100: GetValue returns the "channel's value",       *)
(* SetValue propagates the value to the channel).                            *)
ServedIsSet == AtRest /\ IsOpen => current = any

(* The last value the user's callback was called with is the variable's,     *)
(* though callbacks are made outside the mutex, in any order.                *)
ToldTheLatest == AtRest => told = any

(* A new value reaches the clients: once a user has stored its value,        *)
(* eventually they see what users read, or somebody changes it again.        *)
Propagates == \A u \in Users :
  (upc[u] = "stored" /\ IsOpen) ~> (current = any \/ wpc = "updating"
                                    \/ \E x \in Users : upc[x] = "storing")
==============================================================================
