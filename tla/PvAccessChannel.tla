--------------------------- MODULE PvAccessChannel ---------------------------
(***************************************************************************)
(* One variable in the network: a PvAccessServerPV serves it and a           *)
(* PvAccessClientPV follows it.  In between is PVXS (external), which sends  *)
(* the client what the server publishes.                                     *)
(*                                                                         *)
(* The values that travel are told apart by when they were published: i      *)
(* stands for published[i].  They all have the type of the variable, so that *)
(* ProcessMonitor never throws.                                             *)
(***************************************************************************)
EXTENDS PvAccessServerPV, Sequences

CONSTANTS Empty, Up, Down, MaxQueue,    (* of PvAccessClientPV *)
          MaxPublished                  (* bound on the values that are published *)

ASSUME ChannelAssumption == /\ {Empty, Up, Down} \cap Nat = {}
                            /\ Up # Down
                            /\ {MaxQueue, MaxPublished} \subseteq Nat

VARIABLES published,    (* history: the values that were published, in order *)
          copy,         (* m_cache of the client *)
          reported, seen, draining, result, thrown,     (* of PvAccessClientPV *)
          due, queue, link, fresh

clientVars == <<copy, reported, seen, draining, result, thrown>>
libraryVars == <<due, queue, link, fresh>>
channelVars == <<vars, published, clientVars, libraryVars>>

Client == INSTANCE PvAccessClientPV
            WITH Values <- Nat, Foreign <- {}, cache <- copy, remote <- Len(published)

ChannelInit == Init /\ published = <<>> /\ Client!Init

------------------------------------------------------------------------------
(* The server.                                                             *)

(* open() and post(): the value is to be sent to the client. *)
Publish == /\ Open \/ EndPut \/ \E u \in Users : Post(u)
           /\ published' = Append(published, current')
           /\ fresh' = link
           /\ UNCHANGED <<clientVars, due, queue, link>>

(* How many values the calls that have begun may still publish. *)
Ahead == Cardinality({u \in Users : upc[u] \notin {"idle", "tell"}})
         + (IF wpc = "updating" THEN 1 ELSE 0) + (IF IsOpen THEN 0 ELSE 1)

Begin == /\ Len(published) + Ahead < MaxPublished
         /\ \/ \E u \in Users, v \in Structs : BeginStore(u, v)
            \/ \E p \in Puts : BeginPut(p)
         /\ UNCHANGED <<published, clientVars, libraryVars>>

Proceed == /\ \/ \E u \in Users : \/ EndStore(u) \/ CheckOpen(u) \/ BeginRefresh(u)
                                  \/ EndRefresh(u) \/ Tell(u)
              \/ TellAndReply
           /\ UNCHANGED <<published, clientVars, libraryVars>>

------------------------------------------------------------------------------
(* PVXS and the client, of which the server takes no notice.               *)

Connect == UNCHANGED <<vars, published>> /\ IsOpen /\ Client!Connect
Disconnect == UNCHANGED <<vars, published>> /\ Client!Disconnect
Send == UNCHANGED <<vars, published>> /\ Client!Send
BeginDrain == UNCHANGED <<vars, published>> /\ Client!BeginDrain
Pop == UNCHANGED <<vars, published>> /\ Client!Pop
EndDrain == UNCHANGED <<vars, published>> /\ Client!EndDrain
Read == UNCHANGED <<vars, published>> /\ Client!Read

------------------------------------------------------------------------------
ChannelNext == \/ Publish \/ Begin \/ Proceed
               \/ Connect \/ Disconnect \/ Send
               \/ BeginDrain \/ Pop \/ EndDrain \/ Read

ChannelSpec == ChannelInit /\ [][ChannelNext]_channelVars

(* The threads of the server go on; PVXS calls ProcessMonitor, which goes on, *)
(* and gets to its end if the queue is empty again and again; the server's   *)
(* value is sent.                                                            *)
ChannelFairness == /\ Fairness
                   /\ WF_channelVars(BeginDrain)
                   /\ WF_channelVars(Pop)
                   /\ SF_channelVars(EndDrain)
                   /\ SF_channelVars(Send)

FairChannelSpec == ChannelSpec /\ ChannelFairness

------------------------------------------------------------------------------
(* What the client has of the variable. *)
News(c) == [connected |-> c.connected, at |-> IF c.value = Empty THEN 0 ELSE c.value]

Shared == INSTANCE SharedVariable
            WITH Values <- Structs, set <- any, quiet <- AtRest /\ IsOpen,
                 told <- News(reported), read <- News(seen), delivered <- Client!AtRest

(* From SetValue, or a put, at the server to GetValue at the client: values   *)
(* arrive in the order in which they were published, though some are skipped, *)
(* the connection is lost and restored and they are drained in batches; when *)
(* all calls are over and everything is delivered, the client has what the   *)
(* users of the server read, and its callback was told before its threads    *)
(* could read it (pv_access_server.h:97-102: "Propagate the value to a       *)
(* specific channel").                                                      *)
ImplementsSharedVariable == Shared!Spec

(* A value that a user of the server has stored is eventually published, and, *)
(* if there is a connection, in the cache of the client; or somebody else     *)
(* changes it again.                                                         *)
Arrives == \A u \in Users :
  (upc[u] = "stored" /\ IsOpen)
    ~> \/ /\ current = any
          /\ link => copy.value # Empty /\ published[copy.value] = any
       \/ wpc = "updating"
       \/ \E x \in Users : upc[x] = "storing"
==============================================================================
