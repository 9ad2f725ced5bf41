--------------------------- MODULE PvAccessClientPV ---------------------------
(***************************************************************************)
(* pvxs/pv_access_client_pv_impl.cpp: the cached state of one PvAccess       *)
(* variable, which follows the subscription to its channel.                  *)
(*                                                                         *)
(* PVXS (external) queues the events of the subscription, connections, losses *)
(* of the connection and values, and calls ProcessMonitor when the queue     *)
(* becomes non-empty; ProcessMonitor drains it, with m_mon_mtx held, while   *)
(* more events may arrive.  A new connection is followed by the value of the *)
(* server; a full queue may replace its last value by a newer one.           *)
(*                                                                         *)
(* Values are of one of two types, which do not convert to each other; the   *)
(* server changes its type only while it is away.  SetValue and the waits are *)
(* in PVAccessClientPVWrapper.                                               *)
(***************************************************************************)
EXTENDS Naturals, Sequences

CONSTANTS Values,       (* values of the type the server starts with *)
          Foreign,      (* values of another type *)
          Empty,        (* no value *)
          Up, Down,     (* the events that are not values *)
          MaxQueue      (* bound on the queue of events *)

ASSUME ClientAssumption == /\ Values \cap Foreign = {}
                           /\ {Empty, Up, Down} \cap (Values \cup Foreign) = {}
                           /\ Up # Down
                           /\ MaxQueue \in Nat

VARIABLES cache,        (* m_cache *)
          reported,     (* what the callback was last called with *)
          seen,         (* what a user thread last read *)
          draining,     (* a thread is in ProcessMonitor, and holds m_mon_mtx *)
          result,       (* its local copy of the cache *)
          thrown,       (* history: ProcessMonitor has thrown an exception *)
          due,          (* PVXS: ProcessMonitor is to be called *)
          queue,        (* PVXS: the events of the subscription *)
          link,         (* PVXS: the channel is connected *)
          fresh,        (* server: its value was not sent over this connection *)
          remote        (* server: its value *)

clientVars == <<cache, reported, seen, draining, result, thrown>>
libraryVars == <<due, queue, link, fresh, remote>>
vars == <<clientVars, libraryVars>>

AnyValues == Values \cup Foreign
Events == AnyValues \cup {Up, Down}
Caches == [connected : BOOLEAN, value : AnyValues \cup {Empty}]

Init == /\ cache = [connected |-> FALSE, value |-> Empty]
        /\ reported = cache
        /\ seen = cache
        /\ draining = FALSE
        /\ result = cache
        /\ thrown = FALSE
        /\ due = FALSE
        /\ queue = <<>>
        /\ link = FALSE
        /\ fresh = FALSE
        /\ remote \in Values

------------------------------------------------------------------------------
(* The server and PVXS.                                                    *)

Room == Len(queue) < MaxQueue

Push(event) == /\ Room
               /\ queue' = Append(queue, event)
               /\ due' = (due \/ queue = <<>>)

Connect == /\ ~link
           /\ Push(Up)
           /\ link' = TRUE
           /\ fresh' = TRUE
           /\ UNCHANGED <<remote, clientVars>>

Disconnect == /\ link
              /\ Push(Down)
              /\ link' = FALSE
              /\ fresh' = FALSE
              /\ UNCHANGED <<remote, clientVars>>

SameType(v, w) == v \in Values <=> w \in Values

(* The server's variable is set, maybe to the same value, or the server comes *)
(* back as another one.                                                      *)
Change == \E v \in AnyValues : /\ link => SameType(v, remote)
                               /\ remote' = v
                               /\ fresh' = link
                               /\ UNCHANGED <<due, queue, link, clientVars>>

(* The server sends its value. *)
Send == /\ fresh
        /\ \/ Push(remote)
           \/ /\ queue # <<>>
              /\ queue[Len(queue)] \in AnyValues
              /\ queue' = [queue EXCEPT ![Len(queue)] = remote]
              /\ UNCHANGED due
        /\ fresh' = FALSE
        /\ UNCHANGED <<link, remote, clientVars>>

------------------------------------------------------------------------------
(* ProcessMonitor().                                                       *)

BeginDrain == /\ due
              /\ ~draining
              /\ draining' = TRUE
              /\ due' = FALSE
              /\ result' = cache
              /\ UNCHANGED <<cache, reported, seen, thrown, queue, link, fresh, remote>>

(* TryAssignIfEmptyOrConvert(). *)
Converts(from, to) == to = Empty \/ SameType(from, to)

(* sub.pop() returns a value, or throws Connected or Disconnect. *)
Pop == /\ draining
       /\ queue # <<>>
       /\ CASE Head(queue) = Up -> result' = [result EXCEPT !.connected = TRUE]
            [] Head(queue) = Down -> result' = [result EXCEPT !.connected = FALSE]
            [] OTHER -> /\ Converts(Head(queue), result.value)
                        /\ result' = [result EXCEPT !.value = Head(queue)]
       /\ queue' = Tail(queue)
       /\ UNCHANGED <<cache, reported, seen, draining, thrown, due, link, fresh, remote>>

(* An incompatible value: the exception leaves ProcessMonitor. *)
Throw == /\ draining
         /\ queue # <<>>
         /\ Head(queue) \in AnyValues
         /\ ~Converts(Head(queue), result.value)
         /\ queue' = Tail(queue)
         /\ draining' = FALSE
         /\ thrown' = TRUE
         /\ UNCHANGED <<cache, reported, seen, result, due, link, fresh, remote>>

(* Mutant: one event is processed for each call. *)
Mut_PopOnce == /\ draining
               /\ cache' = result
               /\ reported' = result
               /\ draining' = FALSE
               /\ UNCHANGED <<seen, result, thrown, libraryVars>>

(* Mutant: the callback is called for values only. *)
Mut_ReportConnected == /\ draining
                       /\ queue = <<>>
                       /\ cache' = result
                       /\ reported' = IF result.connected THEN result ELSE reported
                       /\ draining' = FALSE
                       /\ UNCHANGED <<seen, result, thrown, libraryVars>>

(* Mutant: the local copy is not assigned to the cache. *)
Mut_ForgetResult == /\ draining
                    /\ queue = <<>>
                    /\ reported' = result
                    /\ draining' = FALSE
                    /\ UNCHANGED <<cache, seen, result, thrown, libraryVars>>

(* Nothing is left: the cache is assigned and the callback called. *)
EndDrain == /\ draining
            /\ queue = <<>>
            /\ cache' = result
            /\ reported' = result
            /\ draining' = FALSE
            /\ UNCHANGED <<seen, result, thrown, libraryVars>>

(* GetExtendedValue(); IsConnected() and GetValue() read parts of it. *)
Read == /\ ~draining
        /\ seen' = cache
        /\ UNCHANGED <<cache, reported, draining, result, thrown, libraryVars>>

------------------------------------------------------------------------------
ProcessMonitor == BeginDrain \/ Pop \/ Throw \/ EndDrain

Next == Connect \/ Disconnect \/ Change \/ Send \/ ProcessMonitor \/ Read

Spec == Init /\ [][Next]_vars

------------------------------------------------------------------------------
(* Every variable has its type. *)
TypeOK == /\ {cache, reported, seen, result} \subseteq Caches
          /\ {draining, thrown, due, link, fresh} \subseteq BOOLEAN
          /\ queue \in Seq(Events)
          /\ remote \in AnyValues

(* The server has sent its value, and PVXS owes no call. *)
AtRest == ~due /\ ~draining /\ ~fresh

(* As long as ProcessMonitor did not throw: once everything is delivered the *)
(* cache, and the callback, have the value of the server and the state of    *)
(* the connection, in however many batches the events were drained; and no   *)
(* event is left behind in the queue.                                        *)
CacheFollows == AtRest /\ ~thrown => /\ queue = <<>>
                                     /\ reported = cache
                                     /\ cache.connected = link
                                     /\ link => cache.value = remote

(* No thread reads what the callback has not been told. *)
ReadsWereReported == [][seen' # seen => seen' = reported]_vars
==============================================================================
