------------------------ MODULE CAChannelManagerProofs ------------------------
(***************************************************************************)
(* Proofs about CAChannelManager, for any number of users and channels, and *)
(* whether or not user callbacks call the manager.                          *)
(***************************************************************************)
EXTENDS CAChannelManager, TLAPS, FiniteSetTheorems

(* The types on which the rest of the invariant relies. *)
Types == /\ mtx \in Threads \cup {NoThread}
         /\ pc \in [Threads -> {"idle", "locking", "ensuring", "calling", "handling",
                                "clearing", "unlocking"}]
         /\ job \in [Threads -> Jobs]
         /\ verdict \in [Threads -> BOOLEAN]
         /\ phase \in [Threads -> {"out", "in", "waiting"}]
         /\ answer \in [Threads -> {"none", "executed"}]
         /\ held \in SUBSET Ids
         /\ open \in BOOLEAN
         /\ callback \in Ids \cup {NoId}
         /\ connected \in SUBSET live

(* The thread that is past the mutex holds it. *)
Exclusion == \A t \in Threads : mtx = t <=> pc[t] \notin {"idle", "locking"}

(* A thread that waits for the mutex has not been given an id to undo. *)
Requests == \A t \in Threads :
  /\ pc[t] = "locking" => job[t].op \in {"add", "remove", "put"}
  /\ pc[t] = "ensuring" => job[t].op = "add"

(* The handle is used by the holder of the mutex, with one task at a time. *)
Rendezvous ==
  /\ \A t \in Threads : pc[t] = "handling" <=> phase[t] # "out"
  /\ \A t \in Threads : answer[t] = "executed" => phase[t] = "waiting"
  /\ \A t \in Threads : phase[t] = "waiting" /\ answer[t] = "none" => queue = <<t>>
  /\ queue = <<>> \/ \E t \in Threads : /\ queue = <<t>>
                                        /\ phase[t] = "waiting"
                                        /\ answer[t] = "none"

(* The manager, its clients and the library know the same channels. *)
Clean == entries = held /\ created = held /\ live = held /\ subscribed = held

Done(t) == answer[t] = "executed"

(* t adds a channel: the library may have it, with or without subscription. *)
Adding(t) ==
  LET new == held \cup {job[t].id} IN
  /\ job[t].op = "add"
  /\ job[t].id \in Ids \ held
  /\ entries = new
  /\ created \in {held, new}
  /\ live = created
  /\ subscribed = IF Done(t) /\ verdict[t] THEN new ELSE held
  /\ Done(t) /\ verdict[t] => created = new

(* t gives up a channel that has no subscription. *)
Undoing(t) ==
  LET new == held \cup {job[t].id} IN
  /\ job[t].op = "undo"
  /\ job[t].id \in Ids \ held
  /\ entries = new
  /\ created = new
  /\ live = IF Done(t) THEN held ELSE new
  /\ subscribed = held

Removing(t) == /\ job[t].op = "remove"
               /\ job[t].id \in held
               /\ entries = held
               /\ created = held
               /\ live = IF Done(t) THEN held \ {job[t].id} ELSE held
               /\ subscribed = live

Putting(t) == job[t].op = "put" /\ job[t].id \in held /\ Clean

(* The channels, according to where the holder of the mutex is. *)
Channels ==
  /\ mtx = NoThread => Clean
  /\ \A t \in Threads :
       /\ pc[t] \in {"ensuring", "clearing", "unlocking"} => Clean
       /\ pc[t] \in {"calling", "handling"}
            => Adding(t) \/ Undoing(t) \/ Removing(t) \/ Putting(t)

(* The context, likewise. *)
Context ==
  /\ mtx = NoThread => (open <=> entries # {})
  /\ \A t \in Threads :
       /\ pc[t] \in {"ensuring", "unlocking"} => (open <=> entries # {})
       /\ pc[t] \in {"calling", "handling", "clearing"} => open

(* A callback runs for a channel of the library only. *)
Callbacks == callback # NoId => callback \in live

IInv == Types /\ Exclusion /\ Requests /\ Rendezvous /\ Channels /\ Context /\ Callbacks

(* A call waits for the mutex. *)
LEMMA StepRequest ==
  ASSUME IInv, NEW t \in Threads, NEW op \in {"add", "remove", "put"}, NEW id \in Ids \cup {NoId},
         Request(t, op, id)
  PROVE  IInv'
<1> USE DEF IInv, Types, Request,
          managerVars, threadVars, libraryVars, handleVars
<1>1. Types'
  BY DEF Jobs
<1>2. Exclusion'
  BY DEF Exclusion
<1>3. Requests'
  BY DEF Requests
<1>4. Rendezvous'
  BY DEF Rendezvous
<1>5. Channels'
  BY DEF Channels, Adding, Undoing, Removing, Putting, Clean, Done
<1>6. Context'
  BY DEF Context
<1>7. Callbacks'
  BY DEF Callbacks
<1> QED
  BY <1>1, <1>2, <1>3, <1>4, <1>5, <1>6, <1>7

(* The mutex is free: the manager is clean when an operation begins. *)
LEMMA StepLock ==
  ASSUME IInv, NEW t \in Threads, Lock(t)
  PROVE  IInv'
<1> USE DEF IInv, Types, Lock, TurnedAway, Enter, Leave,
          managerVars, threadVars, libraryVars, handleVars
<1>1. Types'
  BY DEF Jobs
<1>2. Exclusion'
  BY ManagerAssumption DEF Exclusion
<1>3. Requests'
  BY DEF Requests
<1>4. Rendezvous'
  BY DEF Rendezvous
<1>5. Channels'
  BY DEF Channels, Adding, Undoing, Removing, Putting, Clean, Done, Rendezvous, Requests
<1>6. Context'
  BY DEF Context
<1>7. Callbacks'
  BY DEF Callbacks
<1> QED
  BY <1>1, <1>2, <1>3, <1>4, <1>5, <1>6, <1>7

(* The new entry is the only one the clients and the library do not know. *)
LEMMA StepAddEntry ==
  ASSUME IInv, NEW t \in Threads, AddEntry(t)
  PROVE  IInv'
<1> USE DEF IInv, Types, AddEntry, StartTask, NewIds, Handle!Open,
          managerVars, threadVars, libraryVars, handleVars
<1>1. Types'
  <2>1. PICK id \in NewIds : entries' = entries \cup {id} /\ StartTask(t, "add", id)
    OBVIOUS
  <2>2. [op |-> "add", id |-> id] \in Jobs
    BY <2>1 DEF Jobs
  <2> QED
    BY <2>1, <2>2
<1>2. Exclusion'
  BY DEF Exclusion
<1>3. Requests'
  BY DEF Requests
<1>4. Rendezvous'
  BY DEF Rendezvous
<1>5. Channels'
  BY ManagerAssumption DEF Channels, Adding, Clean, Done, Exclusion, Rendezvous
<1>6. Context'
  BY DEF Context
<1>7. Callbacks'
  BY DEF Callbacks
<1> QED
  BY <1>1, <1>2, <1>3, <1>4, <1>5, <1>6, <1>7

(* A failure to create the context leaves everything as it was. *)
LEMMA StepContextFails ==
  ASSUME IInv, NEW t \in Threads, ContextFails(t)
  PROVE  IInv'
<1> USE DEF IInv, Types, ContextFails, Leave,
          managerVars, threadVars, libraryVars, handleVars
<1>1. Types'
  BY DEF Jobs
<1>2. Exclusion'
  BY ManagerAssumption DEF Exclusion
<1>3. Requests'
  BY DEF Requests
<1>4. Rendezvous'
  BY DEF Rendezvous
<1>5. Channels'
  BY DEF Channels, Clean, Exclusion
<1>6. Context'
  BY DEF Context
<1>7. Callbacks'
  BY DEF Callbacks
<1> QED
  BY <1>1, <1>2, <1>3, <1>4, <1>5, <1>6, <1>7

(* The handle is open for the holder of the mutex. *)
LEMMA StepCallHandle ==
  ASSUME IInv, NEW t \in Threads, CallHandle(t)
  PROVE  IInv'
<1> USE DEF IInv, Types, CallHandle, Goto, Handle!Call,
          managerVars, threadVars, libraryVars, handleVars
<1>1. Types'
  OBVIOUS
<1>2. Exclusion'
  BY DEF Exclusion
<1>3. Requests'
  BY DEF Requests
<1>4. Rendezvous'
  BY DEF Rendezvous
<1>5. Channels'
  BY DEF Channels, Adding, Undoing, Removing, Putting, Clean, Done
<1>6. Context'
  BY DEF Context
<1>7. Callbacks'
  BY DEF Callbacks
<1> QED
  BY <1>1, <1>2, <1>3, <1>4, <1>5, <1>6, <1>7

(* The queue is empty, since only the holder of the mutex uses the handle. *)
LEMMA StepQueueTask ==
  ASSUME IInv, NEW t \in Threads, QueueTask(t)
  PROVE  IInv'
<1> USE DEF IInv, Types, QueueTask, Handle!Accept,
          managerVars, threadVars, libraryVars, handleVars
<1>1. Types'
  OBVIOUS
<1>2. Exclusion'
  BY DEF Exclusion
<1>3. Requests'
  BY DEF Requests
<1>4. Rendezvous'
  <2>1. queue = <<>>
    BY ManagerAssumption DEF Rendezvous, Exclusion
  <2>2. queue' = <<t>>
    BY <2>1
  <2> QED
    BY <2>2, ManagerAssumption DEF Rendezvous, Exclusion
<1>5. Channels'
  BY DEF Channels, Adding, Undoing, Removing, Putting, Clean, Done
<1>6. Context'
  BY DEF Context
<1>7. Callbacks'
  BY DEF Callbacks
<1> QED
  BY <1>1, <1>2, <1>3, <1>4, <1>5, <1>6, <1>7

(* What the task has done decides what the manager does next. *)
LEMMA StepTaskReturns ==
  ASSUME IInv, NEW t \in Threads, TaskReturns(t)
  PROVE  IInv'
<1> USE DEF IInv, Types, TaskReturns, FinishAdd, FinishUndo, FinishRemove, FinishUpdate,
          Erase, StartTask, Goto, Handle!Return,
          managerVars, threadVars, libraryVars, handleVars
<1>1. Types'
  <2>1. CASE FinishAdd(t)
    <3>1. [op |-> "undo", id |-> job[t].id] \in Jobs
      BY DEF Jobs, NoJob
    <3>2. held' \in SUBSET Ids
      BY <2>1, ManagerAssumption DEF Channels, Adding, Undoing, Removing, Putting, Rendezvous
    <3> QED
      BY <2>1, <3>1, <3>2
  <2>2. CASE FinishUndo(t) \/ FinishRemove(t) \/ FinishUpdate(t)
    BY <2>2
  <2> QED
    BY <2>1, <2>2
<1>2. Exclusion'
  BY DEF Exclusion
<1>3. Requests'
  BY DEF Requests
<1>4. Rendezvous'
  BY DEF Rendezvous
<1>5. Channels'
  <2>1. mtx = t /\ mtx' = t /\ pc[t] = "handling" /\ Done(t)
    BY ManagerAssumption DEF Rendezvous, Exclusion, Done
  <2>2. /\ \A s \in Threads : s # t => pc'[s] \in {"idle", "locking"}
        /\ mtx' # NoThread
    BY <2>1, ManagerAssumption DEF Exclusion
  <2>3. Adding(t) \/ Undoing(t) \/ Removing(t) \/ Putting(t)
    BY <2>1 DEF Channels
  <2>4. CASE FinishAdd(t)
    <3>1. Adding(t)
      BY <2>3, <2>4 DEF Undoing, Removing, Putting
    <3>2. CASE verdict[t]
      <4>1. pc'[t] = "clearing" /\ Clean'
        BY <2>1, <2>4, <3>1, <3>2 DEF Adding, Clean
      <4> QED
        BY <4>1, <2>2 DEF Channels
    <3>3. CASE ~verdict[t] /\ job[t].id \in created
      <4>1. pc'[t] = "calling" /\ Undoing(t)'
        BY <2>1, <2>4, <3>1, <3>3 DEF Adding, Undoing, Done, Jobs
      <4> QED
        BY <4>1, <2>2 DEF Channels
    <3>4. CASE ~verdict[t] /\ job[t].id \notin created
      <4>1. created = held /\ live = held /\ subscribed = held
        BY <2>1, <3>1, <3>4 DEF Adding
      <4>2. Erase(job[t].id) /\ Goto(t, "clearing") /\ held' = held
        BY <2>4, <3>4
      <4>3. entries' = held /\ created' = held
        BY <3>1, <4>1, <4>2 DEF Adding
      <4>4. pc'[t] = "clearing" /\ Clean'
        BY <4>1, <4>2, <4>3 DEF Clean
      <4> QED
        BY <4>4, <2>2 DEF Channels
    <3> QED
      BY <3>2, <3>3, <3>4
  <2>5. CASE FinishUndo(t)
    <3>1. pc'[t] = "clearing" /\ Clean'
      BY <2>1, <2>3, <2>5 DEF Adding, Undoing, Removing, Putting, Clean
    <3> QED
      BY <3>1, <2>2 DEF Channels
  <2>6. CASE FinishRemove(t)
    <3>1. pc'[t] = "clearing" /\ Clean'
      BY <2>1, <2>3, <2>6 DEF Adding, Undoing, Removing, Putting, Clean
    <3> QED
      BY <3>1, <2>2 DEF Channels
  <2>7. CASE FinishUpdate(t)
    <3>1. pc'[t] = "unlocking" /\ Clean'
      BY <2>1, <2>3, <2>7 DEF Adding, Undoing, Removing, Putting, Clean
    <3> QED
      BY <3>1, <2>2 DEF Channels
  <2> QED
    BY <2>4, <2>5, <2>6, <2>7
<1>6. Context'
  BY ManagerAssumption DEF Context, Channels, Adding, Undoing, Removing, Putting, Clean,
     Exclusion
<1>7. Callbacks'
  BY DEF Callbacks
<1> QED
  BY <1>1, <1>2, <1>3, <1>4, <1>5, <1>6, <1>7

(* The context goes with the last channel. *)
LEMMA StepClearContext ==
  ASSUME IInv, NEW t \in Threads, ClearContext(t)
  PROVE  IInv'
<1> USE DEF IInv, Types, ClearContext, Goto, Handle!Close,
          managerVars, threadVars, libraryVars, handleVars
<1>1. Types'
  OBVIOUS
<1>2. Exclusion'
  BY DEF Exclusion
<1>3. Requests'
  BY DEF Requests
<1>4. Rendezvous'
  BY DEF Rendezvous
<1>5. Channels'
  BY DEF Channels, Clean, Exclusion
<1>6. Context'
  BY DEF Context, Exclusion
<1>7. Callbacks'
  BY DEF Callbacks
<1> QED
  BY <1>1, <1>2, <1>3, <1>4, <1>5, <1>6, <1>7

(* The operation has left everything clean. *)
LEMMA StepUnlock ==
  ASSUME IInv, NEW t \in Threads, Unlock(t)
  PROVE  IInv'
<1> USE DEF IInv, Types, Unlock, Leave,
          managerVars, threadVars, libraryVars, handleVars
<1>1. Types'
  BY DEF Jobs
<1>2. Exclusion'
  BY ManagerAssumption DEF Exclusion
<1>3. Requests'
  BY DEF Requests
<1>4. Rendezvous'
  BY DEF Rendezvous
<1>5. Channels'
  BY DEF Channels, Clean, Exclusion
<1>6. Context'
  BY DEF Context
<1>7. Callbacks'
  BY DEF Callbacks
<1> QED
  BY <1>1, <1>2, <1>3, <1>4, <1>5, <1>6, <1>7

(* The only task in the queue is that of the holder of the mutex. *)
LEMMA StepTask ==
  ASSUME IInv, ContextTask
  PROVE  IInv'
<1> USE DEF IInv, Types, ContextTask, CreateChannel, CreateChannelFails, Subscribe, SubscribeFails,
          ClearChannel, PutValue, Running, Current, EndTask, Handle!Execute,
          managerVars, threadVars, libraryVars, handleVars
<1> PICK t \in Threads : queue = <<t>> /\ phase[t] = "waiting" /\ answer[t] = "none"
  BY DEF Rendezvous
<1>0. /\ mtx = t /\ pc[t] = "handling" /\ Head(queue) = t /\ Tail(queue) = <<>>
      /\ \A s \in Threads : s # t => pc[s] \in {"idle", "locking"}
  BY ManagerAssumption DEF Rendezvous, Exclusion
<1>1. Types'
  OBVIOUS
<1>2. Exclusion'
  BY DEF Exclusion
<1>3. Requests'
  BY DEF Requests
<1>4. Rendezvous'
  BY <1>0, ManagerAssumption DEF Rendezvous, Exclusion
<1>5. Channels'
  <2>1. /\ \A s \in Threads : s # t => pc'[s] \in {"idle", "locking"}
        /\ mtx' = t /\ mtx' # NoThread /\ pc'[t] = "handling"
    BY <1>0, ManagerAssumption
  <2>2. Adding(t) \/ Undoing(t) \/ Removing(t) \/ Putting(t)
    BY <1>0 DEF Channels
  <2>3. CASE CreateChannel \/ CreateChannelFails \/ Subscribe \/ SubscribeFails
    <3>1. Adding(t)
      BY <1>0, <2>2, <2>3 DEF Undoing, Removing, Putting
    <3>2. CreateChannel => Adding(t)'
      BY <1>0, <3>1 DEF Adding, Done
    <3>3. CreateChannelFails \/ SubscribeFails => Adding(t)'
      BY <1>0, <3>1 DEF Adding, Done
    <3>4. Subscribe => Adding(t)'
      BY <1>0, <3>1 DEF Adding, Done
    <3>5. Adding(t)'
      BY <2>3, <3>2, <3>3, <3>4
    <3> QED
      BY <3>5, <2>1 DEF Channels
  <2>4. CASE ClearChannel
    <3>1. Undoing(t)' \/ Removing(t)'
      BY <1>0, <2>2, <2>4 DEF Adding, Undoing, Removing, Putting, Done
    <3> QED
      BY <3>1, <2>1 DEF Channels
  <2>5. CASE PutValue
    <3>1. Putting(t)'
      BY <1>0, <2>2, <2>5 DEF Adding, Undoing, Removing, Putting, Clean
    <3> QED
      BY <3>1, <2>1 DEF Channels
  <2> QED
    BY <2>3, <2>4, <2>5
<1>6. Context'
  BY DEF Context
<1>7. Callbacks'
  BY DEF Callbacks
<1> QED
  BY <1>1, <1>2, <1>3, <1>4, <1>5, <1>6, <1>7

(* The library calls back about channels it has. *)
LEMMA StepLibrary ==
  ASSUME IInv, NEW id \in Ids, ConnectionUp(id) \/ ConnectionDown(id) \/ Monitor(id)
  PROVE  IInv'
<1> USE DEF IInv, Types, ConnectionUp, ConnectionDown, Monitor,
          managerVars, threadVars, libraryVars, handleVars
<1>1. Types'
  OBVIOUS
<1>2. Exclusion'
  BY DEF Exclusion
<1>3. Requests'
  BY DEF Requests
<1>4. Rendezvous'
  BY DEF Rendezvous
<1>5. Channels'
  BY DEF Channels, Adding, Undoing, Removing, Putting, Clean, Done
<1>6. Context'
  BY DEF Context
<1>7. Callbacks'
  BY DEF Callbacks
<1> QED
  BY <1>1, <1>2, <1>3, <1>4, <1>5, <1>6, <1>7

(* A callback returns. *)
LEMMA StepEndCallback ==
  ASSUME IInv, EndCallback
  PROVE  IInv'
<1> USE DEF IInv, Types, EndCallback,
          managerVars, threadVars, libraryVars, handleVars
<1>1. Types'
  OBVIOUS
<1>2. Exclusion'
  BY DEF Exclusion
<1>3. Requests'
  BY DEF Requests
<1>4. Rendezvous'
  BY DEF Rendezvous
<1>5. Channels'
  BY DEF Channels, Adding, Undoing, Removing, Putting, Clean, Done
<1>6. Context'
  BY DEF Context
<1>7. Callbacks'
  BY DEF Callbacks
<1> QED
  BY <1>1, <1>2, <1>3, <1>4, <1>5, <1>6, <1>7

------------------------------------------------------------------------------
(* IInv is inductive. *)
LEMMA IInvStep == IInv /\ [Next]_vars => IInv'
<1> SUFFICES ASSUME IInv, [Next]_vars PROVE IInv'
  OBVIOUS
<1>1. ASSUME NEW t \in Threads, Start(t) PROVE IInv'
  <2>1. \E op \in {"add", "remove", "put"}, id \in Ids \cup {NoId} : Request(t, op, id)
    BY <1>1 DEF Start, AddChannel, RemoveChannel, UpdateChannel
  <2> QED
    BY <2>1, StepRequest
<1>2. ASSUME NEW t \in Threads, Proceed(t) PROVE IInv'
  BY <1>2, StepLock, StepAddEntry, StepContextFails, StepCallHandle, StepQueueTask,
     StepTaskReturns, StepClearContext, StepUnlock DEF Proceed
<1>3. CASE ContextTask
  BY <1>3, StepTask
<1>4. CASE \E id \in Ids : ConnectionUp(id) \/ ConnectionDown(id) \/ Monitor(id)
  BY <1>4, StepLibrary
<1>5. CASE EndCallback
  BY <1>5, StepEndCallback
<1>6. CASE UNCHANGED vars
  BY <1>6 DEF vars, managerVars, threadVars, libraryVars, handleVars, IInv, Types, Exclusion,
          Requests, Rendezvous, Channels, Adding, Undoing, Removing, Putting, Clean, Done,
          Context, Callbacks
<1> QED
  BY <1>1, <1>2, <1>3, <1>4, <1>5, <1>6 DEF Next

(* IInv holds initially. *)
LEMMA IInvInit == Init => IInv
<1> SUFFICES ASSUME Init PROVE IInv
  OBVIOUS
<1> USE ManagerAssumption DEF Init, Handle!Init, Threads
<1>1. Types
  BY DEF Types, Jobs
<1>2. Exclusion /\ Requests /\ Rendezvous
  BY DEF Exclusion, Requests, Rendezvous
<1>3. Channels /\ Context /\ Callbacks
  BY DEF Channels, Context, Callbacks, Clean
<1> QED
  BY <1>1, <1>2, <1>3 DEF IInv

(* IInv always holds. *)
LEMMA Invariance == Spec => []IInv
BY IInvInit, IInvStep, PTL DEF Spec

(* What the library knows, the manager has an entry for. *)
LEMMA LibraryInEntries == IInv => live \subseteq entries /\ created \subseteq entries
BY DEF IInv, Types, Exclusion, Channels, Adding, Undoing, Removing, Putting, Clean

(* Every variable always has its type. *)
THEOREM TypeCorrect == Spec => []TypeOK
<1>1. IInv => TypeOK
  <2> SUFFICES ASSUME IInv PROVE TypeOK
    OBVIOUS
  <2>1. queue \in Seq(Threads)
    <3>1. <<>> \in Seq(Threads) /\ \A t \in Threads : <<t>> \in Seq(Threads)
      OBVIOUS
    <3> QED
      BY <3>1 DEF IInv, Rendezvous
  <2>2. /\ entries \in SUBSET Ids /\ created \in SUBSET entries
        /\ held \in SUBSET entries /\ live \in SUBSET Ids /\ subscribed \in SUBSET live
    BY DEF IInv, Types, Exclusion, Channels, Adding, Undoing, Removing, Putting, Clean
  <2> QED
    BY <2>1, <2>2 DEF IInv, Types, TypeOK, Handle!Phases, Handle!Answers
<1> QED
  BY <1>1, Invariance, PTL

(* CallbackOnLiveEntry: Connection_CB and Monitor_CB never use an entry of   *)
(* callback_map that is gone.                                                *)
THEOREM NoDanglingCallback == Spec => []CallbackOnLiveEntry
<1>1. IInv => CallbackOnLiveEntry
  BY LibraryInEntries DEF IInv, Callbacks, CallbackOnLiveEntry
<1> QED
  BY <1>1, Invariance, PTL

(* NothingLeaked: between operations clients, manager and library agree on   *)
(* the channels.                                                             *)
THEOREM NoLeak == Spec => []NothingLeaked
<1>1. IInv => NothingLeaked
  BY DEF IInv, Channels, Clean, NothingLeaked
<1> QED
  BY <1>1, Invariance, PTL

(* ContextIffNeeded: there is a context exactly as long as it is needed. *)
THEOREM ContextFollowsChannels == Spec => []ContextIffNeeded
<1>1. IInv => ContextIffNeeded
  BY DEF IInv, Types, Exclusion, Channels, Adding, Undoing, Removing, Putting, Clean,
         Context, ContextIffNeeded
<1> QED
  BY <1>1, Invariance, PTL

(* HandleUsedExclusively: the manager keeps the discipline under which       *)
(* CAContextHandle abandons no task.                                         *)
THEOREM DisciplineIsKept == Spec => []HandleUsedExclusively
<1>1. IInv => HandleUsedExclusively
  BY DEF IInv, Types, Exclusion, Rendezvous, Context, HandleUsedExclusively
<1> QED
  BY <1>1, Invariance, PTL

(* TasksOnLiveChannels: the library is asked about channels it has. *)
THEOREM LibraryUsedProperly == Spec => []TasksOnLiveChannels
<1>1. IInv => TasksOnLiveChannels
  <2> SUFFICES ASSUME IInv, queue # <<>> PROVE TasksOnLiveChannels
    BY DEF TasksOnLiveChannels
  <2>1. PICK t \in Threads : queue = <<t>> /\ phase[t] = "waiting" /\ answer[t] = "none"
    BY DEF IInv, Rendezvous
  <2>2. pc[t] = "handling" /\ Head(queue) = t
    BY <2>1 DEF IInv, Rendezvous
  <2>3. Adding(t) \/ Undoing(t) \/ Removing(t) \/ Putting(t)
    BY <2>2 DEF IInv, Channels
  <2> QED
    BY <2>1, <2>2, <2>3 DEF TasksOnLiveChannels, Running, Current, Adding, Undoing, Removing,
       Putting, Clean, Done
<1> QED
  BY <1>1, Invariance, PTL

------------------------------------------------------------------------------
(* The threads that are adding a channel, and those that have no id yet.     *)
Adders == {t \in Threads : job[t].op = "add"}
Pending == {t \in Adders : pc[t] \in {"locking", "ensuring"}}

(* There is an id left for everybody who was let in. *)
Room == /\ IsFiniteSet(Adders)
        /\ Cardinality(entries) + Cardinality(Pending) <= MaxId

(* Sets of ids and of pending threads are finite. *)
LEMMA Sizes ==
  ASSUME Types, IsFiniteSet(Adders), entries \in SUBSET Ids
  PROVE  /\ IsFiniteSet(entries) /\ Cardinality(entries) \in Nat
         /\ IsFiniteSet(Pending) /\ Cardinality(Pending) \in Nat
         /\ Cardinality(Pending) <= Cardinality(Adders) /\ Cardinality(Adders) \in Nat
         /\ IsFiniteSet(Ids) /\ Cardinality(Ids) = MaxId
<1>1. IsFiniteSet(Ids) /\ Cardinality(Ids) = MaxId
  BY FS_Interval, ManagerAssumption DEF Ids
<1>2. IsFiniteSet(entries)
  BY <1>1, FS_Subset
<1>3. Pending \subseteq Adders
  BY DEF Pending
<1>4. IsFiniteSet(Pending) /\ Cardinality(Pending) <= Cardinality(Adders)
  BY <1>3, FS_Subset
<1> QED
  BY <1>1, <1>2, <1>4, FS_CardinalityType

(* Entries are ids. *)
LEMMA EntriesAreIds == IInv => entries \in SUBSET Ids
  BY DEF IInv, Types, Exclusion, Channels, Adding, Undoing, Removing, Putting, Clean

(* Steps that add neither an entry nor a thread without an id leave the room. *)
LEMMA RoomStays ==
  ASSUME IInv, IInv', Room, Adders' \subseteq Adders, Pending' \subseteq Pending,
         entries' \subseteq entries
  PROVE  Room'
<1>1. Types /\ entries \in SUBSET Ids /\ IsFiniteSet(Adders)
  BY EntriesAreIds DEF IInv, Room
<1>2. IsFiniteSet(Adders')
  BY <1>1, FS_Subset
<1>3. Cardinality(entries') <= Cardinality(entries) /\ Cardinality(entries') \in Nat
  BY <1>1, Sizes, FS_Subset, FS_CardinalityType
<1>4. Cardinality(Pending') <= Cardinality(Pending) /\ Cardinality(Pending') \in Nat
  BY <1>1, Sizes, FS_Subset, FS_CardinalityType
<1> QED
  BY <1>1, <1>2, <1>3, <1>4, Sizes, ManagerAssumption DEF Room

(* Only who is let in joins those without an id, and only who gets an id leaves *)
(* them with a new entry.                                                    *)
LEMMA RoomStep == IInv /\ IInv' /\ Room /\ [Next]_vars => Room'
<1> SUFFICES ASSUME IInv, IInv', Room, [Next]_vars PROVE Room'
  OBVIOUS
<1>0. Types /\ entries \in SUBSET Ids /\ IsFiniteSet(Adders) /\ MaxId \in Nat
  BY EntriesAreIds, ManagerAssumption DEF IInv, Room
<1>1. ASSUME NEW t \in Threads, Start(t) PROVE Room'
  <2>1. CASE AddChannel(t)
    <3>1. entries' = entries /\ Adders' = Adders \cup {t} /\ Pending' \subseteq Pending \cup {t}
      BY <1>0, <2>1 DEF AddChannel, Request, Types, Adders, Pending, managerVars, NoJob
    <3>2. Cardinality(entries) + Cardinality(Adders) < MaxId
      BY <2>1 DEF AddChannel, RoomForAnother, Adders
    <3>3. IsFiniteSet(Adders')
      BY <1>0, <3>1, FS_AddElement
    <3>4. IsFiniteSet(Pending \cup {t}) /\ Cardinality(Pending \cup {t}) <= Cardinality(Pending) + 1
      <4>1. IsFiniteSet(Pending) /\ Cardinality(Pending) \in Nat
        BY <1>0, Sizes
      <4> QED
        BY <4>1, FS_AddElement
    <3>5. Cardinality(Pending') <= Cardinality(Pending \cup {t}) /\ Cardinality(Pending') \in Nat
          /\ Cardinality(Pending \cup {t}) \in Nat
      BY <3>1, <3>4, FS_Subset, FS_CardinalityType
    <3> QED
      BY <1>0, <3>1, <3>2, <3>3, <3>4, <3>5, Sizes DEF Room
  <2>2. ASSUME NEW op \in {"remove", "put"}, NEW id \in Ids, Request(t, op, id) PROVE Room'
    <3>1. /\ Adders' \subseteq Adders /\ Pending' \subseteq Pending /\ entries' \subseteq entries
      BY <1>0, <2>2 DEF Request, Types, Adders, Pending, managerVars
    <3> QED
      BY <3>1, RoomStays
  <2> QED
    BY <1>1, <2>1, <2>2 DEF Start, RemoveChannel, UpdateChannel
<1>2. ASSUME NEW t \in Threads, AddEntry(t) PROVE Room'
  <2>1. PICK id \in NewIds : entries' = entries \cup {id} /\ StartTask(t, "add", id)
    BY <1>2 DEF AddEntry
  <2>2. t \in Pending /\ job[t].op = "add"
    BY <1>2 DEF AddEntry, IInv, Requests, Pending, Adders
  <2>3. Adders' = Adders /\ Pending' = Pending \ {t}
    BY <1>0, <2>1, <2>2 DEF StartTask, Types, Adders, Pending
  <2>4. Cardinality(entries') = Cardinality(entries) + 1
    BY <1>0, <2>1, Sizes, FS_AddElement DEF NewIds
  <2>5. Cardinality(Pending') = Cardinality(Pending) - 1
    BY <1>0, <2>2, <2>3, Sizes, FS_RemoveElement
  <2> QED
    BY <1>0, <2>3, <2>4, <2>5, Sizes DEF Room
<1>3. ASSUME NEW t \in Threads, Proceed(t), ~AddEntry(t) PROVE Room'
  <2>1. CASE Lock(t)
    BY <1>0, <2>1, RoomStays DEF Lock, TurnedAway, Enter, Leave, NoJob, Types, Adders, Pending
  <2>2. CASE ContextFails(t)
    BY <1>0, <2>2, RoomStays DEF ContextFails, Leave, NoJob, Types, Adders, Pending
  <2>3. CASE CallHandle(t)
    BY <1>0, <2>3, RoomStays DEF CallHandle, Goto, managerVars, Types, Adders, Pending
  <2>4. CASE QueueTask(t)
    BY <1>0, <2>4, RoomStays DEF QueueTask, managerVars, threadVars, Types, Adders, Pending
  <2>5. CASE TaskReturns(t)
    <3>1. /\ entries' \subseteq entries
          /\ \/ job' = job
             \/ \E id : job' = [job EXCEPT ![t] = [op |-> "undo", id |-> id]]
          /\ \E where \in {"clearing", "unlocking", "calling"} : pc' = [pc EXCEPT ![t] = where]
      BY <2>5 DEF TaskReturns, FinishAdd, FinishUndo, FinishRemove, FinishUpdate, Erase, Goto,
                  StartTask
    <3>2. Adders' \subseteq Adders /\ Pending' \subseteq Pending
      BY <1>0, <3>1 DEF Types, Adders, Pending
    <3> QED
      BY <3>1, <3>2, RoomStays
  <2>6. CASE ClearContext(t)
    BY <1>0, <2>6, RoomStays DEF ClearContext, Goto, managerVars, Types, Adders, Pending
  <2>7. CASE Unlock(t)
    BY <1>0, <2>7, RoomStays DEF Unlock, Leave, NoJob, Types, Adders, Pending
  <2> QED
    BY <1>3, <2>1, <2>2, <2>3, <2>4, <2>5, <2>6, <2>7 DEF Proceed
<1>4. CASE ContextTask
  <2>1. UNCHANGED <<entries, pc, job>>
    BY <1>4 DEF ContextTask, CreateChannel, CreateChannelFails, Subscribe, SubscribeFails,
                ClearChannel, PutValue, EndTask, threadVars
  <2> QED
    BY <2>1, RoomStays DEF Adders, Pending
<1>5. CASE \/ \E id \in Ids : ConnectionUp(id) \/ ConnectionDown(id) \/ Monitor(id)
           \/ EndCallback
           \/ UNCHANGED vars
  <2>1. UNCHANGED <<entries, pc, job>>
    BY <1>5 DEF ConnectionUp, ConnectionDown, Monitor, EndCallback, vars, managerVars, threadVars
  <2> QED
    BY <2>1, RoomStays DEF Adders, Pending
<1> QED
  BY <1>1, <1>2, <1>3, <1>4, <1>5 DEF Next

(* MovesOrRemovalWaits: whoever holds the mutex, somebody can move, or a channel *)
(* is being cleared during a callback that waits for the mutex or for a task.  *)
THEOREM OnlyRemovalsStall == Spec => []MovesOrRemovalWaits
<1>1. Init => Room
  <2> SUFFICES ASSUME Init PROVE Room
    OBVIOUS
  <2>1. Adders = {} /\ Pending = {} /\ entries = {}
    BY DEF Init, Adders, Pending, NoJob
  <2> QED
    BY <2>1, FS_EmptySet, ManagerAssumption DEF Room
<1>2. IInv /\ Room => MovesOrRemovalWaits
  <2> SUFFICES ASSUME IInv, Room, mtx # NoThread PROVE SomebodyMoves \/ RemovalWaits
    BY DEF MovesOrRemovalWaits
  <2>1. PICK t \in Threads : t = mtx /\ pc[t] \in {"ensuring", "calling", "handling", "clearing",
                                                  "unlocking"}
    BY DEF IInv, Types, Exclusion
  <2>2. CASE pc[t] = "ensuring"
    <3>1. t \in Pending
      BY <2>2 DEF IInv, Requests, Pending, Adders
    <3>2. Cardinality(Pending) >= 1
      BY <3>1, EntriesAreIds, Sizes, FS_EmptySet DEF IInv, Room
    <3>3. Cardinality(entries) < Cardinality(Ids)
      BY <3>2, EntriesAreIds, Sizes, ManagerAssumption DEF IInv, Room
    <3>4. NewIds # {}
      <4>1. entries \in SUBSET Ids
        BY EntriesAreIds
      <4>2. NewIds = {} => entries = Ids
        BY <4>1 DEF NewIds
      <4>3. Cardinality(entries) \in Nat
        BY <4>1, Sizes DEF IInv, Room
      <4> QED
        BY <3>3, <4>2, <4>3
    <3> QED
      BY <2>2, <3>4 DEF SomebodyMoves, HolderMoves
  <2>3. CASE pc[t] = "calling"
    BY <2>3 DEF IInv, Context, SomebodyMoves, HolderMoves
  <2>4. CASE pc[t] = "handling" /\ (phase[t] = "in" \/ answer[t] # "none")
    BY <2>4 DEF SomebodyMoves, HolderMoves
  <2>5. CASE pc[t] = "handling" /\ phase[t] = "waiting" /\ answer[t] = "none"
    <3>1. queue = <<t>> /\ Head(queue) = t
      BY <2>5 DEF IInv, Rendezvous
    <3>2. \A op : job[t].op = op => Running(op)
      BY <3>1 DEF Running
    <3>3. CASE job[t].op \in {"add", "put"}
      BY <3>2, <3>3 DEF SomebodyMoves, TaskMoves
    <3>4. CASE job[t].op \in {"remove", "undo"}
      <4>1. CASE callback = NoId
        BY <3>2, <3>4, <4>1 DEF SomebodyMoves, TaskMoves
      <4>2. CASE callback # NoId /\ pc[CallbackThread] = "idle"
        BY <4>2 DEF SomebodyMoves, CallbackMoves
      <4>3. CASE callback # NoId /\ pc[CallbackThread] \in {"locking", "handling"}
        BY <3>2, <3>4, <4>3 DEF RemovalWaits
      <4>4. pc[CallbackThread] \in {"idle", "locking", "handling"}
        BY <2>1, <2>5 DEF IInv, Types, Exclusion, Threads
      <4> QED
        BY <4>1, <4>2, <4>3, <4>4
    <3>5. job[t].op \in {"add", "put", "remove", "undo"}
      BY <2>5 DEF IInv, Channels, Adding, Undoing, Removing, Putting
    <3> QED
      BY <3>3, <3>4, <3>5
  <2>6. CASE pc[t] \in {"clearing", "unlocking"}
    BY <2>6 DEF SomebodyMoves, HolderMoves
  <2>7. phase[t] \in {"out", "in", "waiting"} /\ (pc[t] = "handling" => phase[t] # "out")
    BY DEF IInv, Types, Rendezvous
  <2> QED
    BY <2>1, <2>2, <2>3, <2>4, <2>5, <2>6, <2>7
<1> QED
  BY <1>1, <1>2, RoomStep, Invariance, PTL DEF Spec
==============================================================================
