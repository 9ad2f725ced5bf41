-------------------------- MODULE CAChannelManager --------------------------
(***************************************************************************)
(* ca/ca_channel_manager.cpp and ca/ca_channel_tasks.cpp: channels of the   *)
(* EPICS Channel Access library, on behalf of threads that add, update and  *)
(* remove them, while the library calls back from a thread of its own.      *)
(*                                                                         *)
(* The manager holds mtx during a whole operation, also while it waits for  *)
(* the CA context handle, here in its abstract form (TaskService, which     *)
(* CAContextHandle is proved to implement).  The library is external: it    *)
(* may fail to create a channel or a subscription, calls back one callback  *)
(* at a time, and ca_clear_channel() returns when no callback runs.         *)
(*                                                                         *)
(* AddChannel with an unsupported type, which returns at once, is left out.  *)
(***************************************************************************)
EXTENDS Naturals, Sequences, FiniteSets

CONSTANTS Users,            (* the threads that use the manager *)
          CallbackThread,   (* the thread of the library that calls back *)
          MaxId,            (* bound on the number of channels at a time *)
          NoId, NoThread

Threads == Users \cup {CallbackThread}
Ids == 1..MaxId

ASSUME ManagerAssumption == /\ CallbackThread \notin Users
                            /\ NoThread \notin Threads
                            /\ MaxId \in Nat
                            /\ NoId \notin Ids

VARIABLES mtx,              (* the holder of mtx *)
          entries,          (* the ids in callback_map *)
          created,          (* those whose channel_id is not null *)
          held,             (* ids that AddChannel returned, until removed *)
          pc,               (* where each thread is in its operation *)
          job,              (* the operation and the id it is about *)
          verdict,          (* what the packaged_task of each thread returned *)
          live,             (* library: channels that exist *)
          subscribed,       (* library: channels with a subscription *)
          connected,        (* library: channels that are connected *)
          callback,         (* library: the channel whose callback runs *)
          open, queue, phase, answer        (* the CA context handle *)

managerVars == <<mtx, entries, created, held>>
threadVars == <<pc, job, verdict>>
libraryVars == <<live, subscribed, connected, callback>>
handleVars == <<open, queue, phase, answer>>
vars == <<managerVars, threadVars, libraryVars, handleVars>>

Handle == INSTANCE TaskService WITH Callers <- Threads

NoJob == [op |-> "none", id |-> NoId]
Jobs == [op : {"add", "undo", "remove", "put"}, id : Ids \cup {NoId}] \cup {NoJob}

Init == /\ mtx = NoThread
        /\ entries = {} /\ created = {} /\ held = {}
        /\ pc = [t \in Threads |-> "idle"]
        /\ job = [t \in Threads |-> NoJob]
        /\ verdict = [t \in Threads |-> FALSE]
        /\ live = {} /\ subscribed = {} /\ connected = {} /\ callback = NoId
        /\ Handle!Init

(* A call of the manager, by a user thread or from inside a callback. *)
Request(t, op, id) == /\ pc[t] = "idle"
                      /\ t = CallbackThread => callback # NoId
                      /\ pc' = [pc EXCEPT ![t] = "locking"]
                      /\ job' = [job EXCEPT ![t] = [op |-> op, id |-> id]]
                      /\ UNCHANGED <<managerVars, verdict, libraryVars, handleVars>>

(* MaxId channels at a time, counting those that are being added. *)
RoomForAnother ==
  Cardinality(entries) + Cardinality({t \in Threads : job[t].op = "add"}) < MaxId

AddChannel(t) == RoomForAnother /\ Request(t, "add", NoId)
RemoveChannel(t, id) == Request(t, "remove", id)
UpdateChannel(t, id) == Request(t, "put", id)

Leave(t) == /\ pc' = [pc EXCEPT ![t] = "idle"]
            /\ job' = [job EXCEPT ![t] = NoJob]

(* The operation ends with the mutex taken and released: the id is not in    *)
(* the map, or the value cannot be converted to the type of the channel.     *)
TurnedAway(t) == /\ \/ job[t].op = "put"
                    \/ job[t].op = "remove" /\ job[t].id \notin entries
                 /\ Leave(t)
                 /\ UNCHANGED mtx

Enter(t) == /\ job[t].op = "add" \/ job[t].id \in entries
            /\ mtx' = t
            /\ pc' = [pc EXCEPT ![t] = IF job[t].op = "add" THEN "ensuring" ELSE "calling"]
            /\ UNCHANGED job

(* Mutant: the mutex is forgotten. *)
Mut_LockNothing(t) == /\ pc[t] = "locking"
                      /\ TurnedAway(t) \/ Enter(t)
                      /\ UNCHANGED <<entries, created, held, verdict, libraryVars, handleVars>>

Lock(t) == /\ pc[t] = "locking"
           /\ mtx = NoThread
           /\ TurnedAway(t) \/ Enter(t)
           /\ UNCHANGED <<entries, created, held, verdict, libraryVars, handleVars>>

(* t hands the CA context handle a task for channel id. *)
StartTask(t, op, id) == /\ job' = [job EXCEPT ![t] = [op |-> op, id |-> id]]
                        /\ pc' = [pc EXCEPT ![t] = "calling"]

Goto(t, where) == /\ pc' = [pc EXCEPT ![t] = where]
                  /\ UNCHANGED job

------------------------------------------------------------------------------
(* AddChannel.                                                             *)

(* GenerateID() counts up to the next id that is not in the map.  Its 64 bits *)
(* never wrap round; that the ids of removed channels are used again here     *)
(* keeps the instances finite and takes no behaviour away.                    *)
NewIds == Ids \ entries

(* EnsureContext(), GenerateID() and the new entry of the map. *)
AddEntry(t) == /\ pc[t] = "ensuring"
               /\ IF open THEN UNCHANGED handleVars ELSE Handle!Open
               /\ \E id \in NewIds : /\ entries' = entries \cup {id}
                                     /\ StartTask(t, "add", id)
               /\ UNCHANGED <<mtx, created, held, verdict, libraryVars>>

(* Mutant: the exception leaves the mutex locked. *)
Mut_FailLocked(t) == /\ pc[t] = "ensuring"
                     /\ ~open
                     /\ Leave(t)
                     /\ UNCHANGED <<managerVars, verdict, libraryVars, handleVars>>

(* The constructor of the handle throws. *)
ContextFails(t) == /\ pc[t] = "ensuring"
                   /\ ~open
                   /\ mtx' = NoThread
                   /\ Leave(t)
                   /\ UNCHANGED <<entries, created, held, verdict, libraryVars, handleVars>>

Erase(id) == /\ entries' = entries \ {id}
             /\ created' = created \ {id}

(* Mutant: a channel without subscription is given up, and not cleared. *)
Mut_GiveUpUncleared(t) ==
  LET id == job[t].id IN
  /\ job[t].op = "add"
  /\ IF verdict[t] THEN held' = held \cup {id} /\ UNCHANGED <<entries, created>>
                   ELSE Erase(id) /\ UNCHANGED held
  /\ Goto(t, "clearing")

(* Mutant: the channel is cleared without a look at channel_id. *)
Mut_ClearNull(t) ==
  LET id == job[t].id IN
  /\ job[t].op = "add"
  /\ IF verdict[t] THEN held' = held \cup {id} /\ Goto(t, "clearing")
                   ELSE StartTask(t, "undo", id) /\ UNCHANGED held
  /\ UNCHANGED <<entries, created>>

(* The task was run: keep the channel, or give it up, or clear it first. *)
FinishAdd(t) ==
  LET id == job[t].id IN
  /\ job[t].op = "add"
  /\ CASE verdict[t] -> /\ held' = held \cup {id}
                        /\ Goto(t, "clearing")
                        /\ UNCHANGED <<entries, created>>
       [] ~verdict[t] /\ id \in created -> /\ StartTask(t, "undo", id)
                                           /\ UNCHANGED <<entries, created, held>>
       [] OTHER -> /\ Erase(id)
                   /\ Goto(t, "clearing")
                   /\ UNCHANGED held

FinishUndo(t) == /\ job[t].op = "undo"
                 /\ Erase(job[t].id)
                 /\ Goto(t, "clearing")
                 /\ UNCHANGED held

------------------------------------------------------------------------------
(* RemoveChannel and UpdateChannel.                                        *)

FinishRemove(t) == /\ job[t].op = "remove"
                   /\ Erase(job[t].id)
                   /\ held' = held \ {job[t].id}
                   /\ Goto(t, "clearing")

FinishUpdate(t) == /\ job[t].op = "put"
                   /\ Goto(t, "unlocking")
                   /\ UNCHANGED <<entries, created, held>>

------------------------------------------------------------------------------
(* HandleTask and the end of an operation.                                 *)

CallHandle(t) == /\ pc[t] = "calling"
                 /\ Handle!Call(t)
                 /\ Goto(t, "handling")
                 /\ UNCHANGED <<managerVars, verdict, libraryVars>>

QueueTask(t) == /\ pc[t] = "handling"
                /\ Handle!Accept(t)
                /\ UNCHANGED <<managerVars, threadVars, libraryVars>>

TaskReturns(t) == /\ pc[t] = "handling"
                  /\ Handle!Return(t)
                  /\ FinishAdd(t) \/ FinishUndo(t) \/ FinishRemove(t) \/ FinishUpdate(t)
                  /\ UNCHANGED <<mtx, verdict, libraryVars>>

(* Mutant: the context is destroyed whether it is needed or not. *)
Mut_ClearAlways(t) == /\ pc[t] = "clearing"
                      /\ IF open THEN Handle!Close ELSE UNCHANGED handleVars
                      /\ Goto(t, "unlocking")
                      /\ UNCHANGED <<managerVars, verdict, libraryVars>>

(* ClearContextIfNotNeeded(). *)
ClearContext(t) == /\ pc[t] = "clearing"
                   /\ IF open /\ entries = {} THEN Handle!Close ELSE UNCHANGED handleVars
                   /\ Goto(t, "unlocking")
                   /\ UNCHANGED <<managerVars, verdict, libraryVars>>

Unlock(t) == /\ pc[t] = "unlocking"
             /\ mtx' = NoThread
             /\ Leave(t)
             /\ verdict' = [verdict EXCEPT ![t] = FALSE]
             /\ UNCHANGED <<entries, created, held, libraryVars, handleVars>>

Proceed(t) == \/ Lock(t) \/ AddEntry(t) \/ ContextFails(t) \/ CallHandle(t)
              \/ QueueTask(t) \/ TaskReturns(t) \/ ClearContext(t) \/ Unlock(t)

------------------------------------------------------------------------------
(* The tasks, run by the context thread, and the library underneath.       *)

(* The first task in the queue is an op. *)
Running(op) == queue # <<>> /\ job[Head(queue)].op = op
Current == job[Head(queue)].id

EndTask(ok) == /\ Handle!Execute
               /\ verdict' = [verdict EXCEPT ![Head(queue)] = ok]
               /\ UNCHANGED <<mtx, entries, held, pc, job, callback>>

(* AddChannelTask, first half: ca_create_channel(). *)
CreateChannel == /\ Running("add")
                 /\ Current \notin created
                 /\ created' = created \cup {Current}
                 /\ live' = live \cup {Current}
                 /\ UNCHANGED <<mtx, entries, held, threadVars, subscribed, connected,
                                callback, handleVars>>

CreateChannelFails == /\ Running("add")
                      /\ Current \notin created
                      /\ EndTask(FALSE)
                      /\ UNCHANGED <<created, live, subscribed, connected>>

(* AddChannelTask, second half: ca_create_subscription() and ca_flush_io(). *)
Subscribe == /\ Running("add")
             /\ Current \in created
             /\ subscribed' = subscribed \cup {Current}
             /\ EndTask(TRUE)
             /\ UNCHANGED <<created, live, connected>>

(* Mutant: the result of ca_create_subscription() is ignored. *)
Mut_SubscribeFailsUnseen == /\ Running("add")
                            /\ Current \in created
                            /\ EndTask(TRUE)
                            /\ UNCHANGED <<created, live, subscribed, connected>>

SubscribeFails == /\ Running("add")
                  /\ Current \in created
                  /\ EndTask(FALSE)
                  /\ UNCHANGED <<created, live, subscribed, connected>>

(* RemoveChannelTask: ca_clear_channel() waits for the end of a callback. *)
ClearChannel == /\ Running("remove") \/ Running("undo")
                /\ callback = NoId
                /\ live' = live \ {Current}
                /\ subscribed' = subscribed \ {Current}
                /\ connected' = connected \ {Current}
                /\ EndTask(TRUE)
                /\ UNCHANGED created

(* Mutant: a put waits for a running callback. *)
Mut_PutAfterCallback == /\ Running("put")
                        /\ callback = NoId
                        /\ EndTask(Current \in connected)
                        /\ UNCHANGED <<created, live, subscribed, connected>>

(* UpdateChannelTask: ca_array_put() fails on a disconnected channel, and may *)
(* fail on a connected one.                                                   *)
PutValue == /\ Running("put")
            /\ EndTask(FALSE) \/ (Current \in connected /\ EndTask(TRUE))
            /\ UNCHANGED <<created, live, subscribed, connected>>

ContextTask == \/ CreateChannel \/ CreateChannelFails \/ Subscribe \/ SubscribeFails
               \/ ClearChannel \/ PutValue

(* The library finds the server of a channel, loses it, or gets a new value *)
(* of it, and calls Connection_CB or Monitor_CB.                            *)
ConnectionUp(id) == /\ callback = NoId
                    /\ id \in live \ connected
                    /\ connected' = connected \cup {id}
                    /\ callback' = id
                    /\ UNCHANGED <<managerVars, threadVars, live, subscribed, handleVars>>

ConnectionDown(id) == /\ callback = NoId
                      /\ id \in connected
                      /\ connected' = connected \ {id}
                      /\ callback' = id
                      /\ UNCHANGED <<managerVars, threadVars, live, subscribed, handleVars>>

Monitor(id) == /\ callback = NoId
               /\ id \in connected \cap subscribed
               /\ callback' = id
               /\ UNCHANGED <<managerVars, threadVars, live, subscribed, connected, handleVars>>

(* The callback, and the user's callback it called, return. *)
EndCallback == /\ callback # NoId
               /\ pc[CallbackThread] = "idle"
               /\ callback' = NoId
               /\ UNCHANGED <<managerVars, threadVars, live, subscribed, connected, handleVars>>

------------------------------------------------------------------------------
Start(t) == \/ AddChannel(t)
            \/ \E id \in Ids : RemoveChannel(t, id) \/ UpdateChannel(t, id)

Next == \/ \E t \in Threads : Start(t) \/ Proceed(t)
        \/ ContextTask
        \/ \E id \in Ids : ConnectionUp(id) \/ ConnectionDown(id) \/ Monitor(id)
        \/ EndCallback

Spec == Init /\ [][Next]_vars

(* Threads that can run do run, library calls and user callbacks return, and *)
(* ca_clear_channel() gets the library's lock although callbacks contend.    *)
Fairness == /\ \A t \in Threads : WF_vars(Proceed(t))
            /\ WF_vars(ContextTask)
            /\ SF_vars(ClearChannel)
            /\ WF_vars(EndCallback)

FairSpec == Spec /\ Fairness

------------------------------------------------------------------------------
(* Every variable has its type. *)
TypeOK == /\ mtx \in Threads \cup {NoThread}
          /\ entries \in SUBSET Ids
          /\ created \in SUBSET entries
          /\ held \in SUBSET entries
          /\ pc \in [Threads -> {"idle", "locking", "ensuring", "calling", "handling",
                               "clearing", "unlocking"}]
          /\ job \in [Threads -> Jobs]
          /\ verdict \in [Threads -> BOOLEAN]
          /\ live \in SUBSET Ids
          /\ subscribed \in SUBSET live
          /\ connected \in SUBSET live
          /\ callback \in Ids \cup {NoId}
          /\ open \in BOOLEAN
          /\ queue \in Seq(Threads)
          /\ phase \in [Threads -> Handle!Phases]
          /\ answer \in [Threads -> Handle!Answers]

(* Connection_CB and Monitor_CB use a raw pointer into callback_map: the     *)
(* entry is there as long as a callback runs, also when an AddChannel that   *)
(* failed half way, or a RemoveChannel, is taking it away.                   *)
CallbackOnLiveEntry == callback # NoId => callback \in entries

(* Between operations the library holds exactly the channels the clients     *)
(* hold, each with its subscription: an operation that failed half way left  *)
(* nothing behind.                                                           *)
NothingLeaked ==
  mtx = NoThread => /\ entries = held /\ created = held
                    /\ live = held /\ subscribed = held

(* Between operations there is a CA context exactly when there are channels, *)
(* and it is never destroyed under a channel.                                *)
ContextIffNeeded == /\ mtx = NoThread => (open <=> entries # {})
                    /\ live # {} => open

(* The library is only asked to subscribe to, clear or put to a channel that *)
(* exists.                                                                   *)
TasksOnLiveChannels ==
  queue # <<>> => \/ Current \in live
                  \/ Running("add") /\ Current \notin created

(* The discipline CAContextHandle's theorems rely on (its MayOverlap is      *)
(* FALSE): the handle is destroyed only when nobody is inside HandleTask, so *)
(* that no call is refused and no task discarded; and one task at most is    *)
(* queued.                                                                   *)
HandleUsedExclusively ==
  /\ ~open => \A t \in Threads : phase[t] = "out"
  /\ \A t \in Threads : phase[t] # "out" => t = mtx

(* An operation that has the mutex gives it back, unless a callback calls    *)
(* the manager.                                                              *)
OperationsEnd ==
  \A t \in Threads : (mtx = t) ~> (mtx # t \/ pc[CallbackThread] # "idle")

(* What the holder of the mutex, the context thread and the callback wait for, *)
(* while the mutex is held.                                                  *)
HolderMoves(t) == \/ pc[t] = "ensuring" /\ (~open \/ NewIds # {})
                  \/ pc[t] = "calling" /\ open
                  \/ pc[t] = "handling" /\ (phase[t] = "in" \/ answer[t] # "none")
                  \/ pc[t] \in {"clearing", "unlocking"}

TaskMoves == \/ Running("add") \/ Running("put")
             \/ (Running("remove") \/ Running("undo")) /\ callback = NoId

CallbackMoves == callback # NoId /\ pc[CallbackThread] = "idle"

SomebodyMoves == TaskMoves \/ CallbackMoves \/ \E t \in Threads : HolderMoves(t)

RemovalWaits == /\ Running("remove") \/ Running("undo")
                /\ callback # NoId
                /\ pc[CallbackThread] \in {"locking", "handling"}

MovesOrRemovalWaits == mtx # NoThread => SomebodyMoves \/ RemovalWaits

(* When user callbacks call the manager, operations can stop in one way      *)
(* only: a channel is being cleared, which waits for the end of a callback   *)
(* that waits for the mutex, or is itself the one that clears a channel.     *)
(* SomebodyMoves is in terms of the state what ENABLED says.                 *)
StallsOnlyOnRemoval ==
  /\ MovesOrRemovalWaits
  /\ mtx # NoThread =>
       (SomebodyMoves <=> ENABLED (ContextTask \/ EndCallback \/ \E t \in Threads : Proceed(t)))
==============================================================================
