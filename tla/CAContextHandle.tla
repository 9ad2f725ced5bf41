--------------------------- MODULE CAContextHandle ---------------------------
(***************************************************************************)
(* ca/ca_context_handle.cpp: one thread owns the EPICS Channel Access      *)
(* context and executes the tasks other threads queue for it.              *)
(*                                                                         *)
(* A critical section of task_mtx is one atomic step: nobody else can see  *)
(* its intermediate states.  The exception is the last one of the context  *)
(* thread, which holds the mutex across ca_context_destroy(): MutexFree    *)
(* guards every other critical section.                                    *)
(*                                                                         *)
(* The owner (the CAChannelManager) constructs and destroys the handle,    *)
(* any number of times.  MayOverlap says whether it may start destroying   *)
(* the handle while callers are inside HandleTask: CAChannelManager never  *)
(* does (its own mutex excludes it), but HandleTask's test of halt and the *)
(* comment at lines 104-105 provide for it.                                *)
(***************************************************************************)
EXTENDS Sequences, Functions

CONSTANTS Callers,      (* the threads that call HandleTask *)
          MayOverlap    (* the destructor may run while calls are in progress *)

ASSUME MayOverlapAssumption == MayOverlap \in BOOLEAN

VARIABLES tasks,        (* queued tasks; a task is named by its caller *)
          halt,
          haltCache,    (* halt_cache of the context thread *)
          batch,        (* task_queue of the context thread *)
          thread,       (* where the context thread is *)
          pc,           (* where each caller is in HandleTask *)
          result,       (* the shared state behind each caller's future *)
          owner         (* where the owner is in construction and destruction *)

vars == <<tasks, halt, haltCache, batch, thread, pc, result, owner>>
threadVars == <<haltCache, batch, thread>>

ThreadStates == {"none", "creating", "failed", "starting", "waiting", "woken",
                 "running", "destroying", "exited"}
CallerStates == {"idle", "checking", "pushing", "notifying", "getting"}
OwnerStates  == {"none", "launching", "open", "notifying", "joining", "destructing"}
Results      == {"none", "executed", "discarded"}

Init == /\ tasks = <<>>
        /\ halt = FALSE
        /\ haltCache = FALSE
        /\ batch = <<>>
        /\ thread = "none"
        /\ pc = [c \in Callers |-> "idle"]
        /\ result = [c \in Callers |-> "none"]
        /\ owner = "none"

MutexFree == thread # "destroying"

(* cond.notify_one(): the context thread is the only thread that waits. *)
NotifyOne == thread' = IF thread = "waiting" THEN "woken" ELSE thread

------------------------------------------------------------------------------
(* The owner.                                                              *)

(* Members are initialised and LaunchContext() starts the thread. *)
Construct == /\ owner = "none"
             /\ \A c \in Callers : pc[c] = "idle"
             /\ owner' = "launching"
             /\ thread' = "creating"
             /\ halt' = FALSE
             /\ tasks' = <<>>
             /\ haltCache' = FALSE
             /\ UNCHANGED <<batch, pc, result>>

(* The promise is set: the constructor returns, or joins the thread and throws. *)
Launched == /\ owner = "launching"
            /\ thread \notin {"creating", "failed"}
            /\ owner' = "open"
            /\ UNCHANGED <<tasks, halt, threadVars, pc, result>>

LaunchFailed == /\ owner = "launching"
                /\ thread = "failed"
                /\ owner' = "none"
                /\ thread' = "none"
                /\ UNCHANGED <<tasks, halt, haltCache, batch, pc, result>>

SetHalt == /\ owner = "open"
           /\ MutexFree
           /\ MayOverlap \/ \A c \in Callers : pc[c] = "idle"
           /\ halt' = TRUE
           /\ owner' = "notifying"
           /\ UNCHANGED <<tasks, threadVars, pc, result>>

NotifyHalt == /\ owner = "notifying"
              /\ NotifyOne
              /\ owner' = "joining"
              /\ UNCHANGED <<tasks, halt, haltCache, batch, pc, result>>

Join == /\ owner = "joining"
        /\ thread = "exited"
        /\ owner' = "destructing"
        /\ UNCHANGED <<tasks, halt, threadVars, pc, result>>

(* Destruction of the members, assumed to happen when no call uses them any *)
(* more.  A packaged_task that was never run breaks its caller's promise.   *)
DestroyMembers == /\ owner = "destructing"
                  /\ \A c \in Callers : pc[c] \in {"idle", "getting"}
                  /\ result' = [c \in Callers |->
                                  IF c \in Range(tasks) THEN "discarded" ELSE result[c]]
                  /\ tasks' = <<>>
                  /\ thread' = "none"
                  /\ owner' = "none"
                  /\ UNCHANGED <<halt, haltCache, batch, pc>>

------------------------------------------------------------------------------
(* HandleTask(task), called by c.                                          *)

Call(c) == /\ owner = "open"
           /\ pc[c] = "idle"
           /\ pc' = [pc EXCEPT ![c] = "checking"]
           /\ UNCHANGED <<tasks, halt, threadVars, result, owner>>

CheckHalt(c) == /\ pc[c] = "checking"
                /\ MutexFree
                /\ pc' = [pc EXCEPT ![c] = IF halt THEN "idle" ELSE "pushing"]
                /\ UNCHANGED <<tasks, halt, threadVars, result, owner>>

(* Mutant: the newest task is served first. *)
Mut_PushInFront(c) == /\ pc[c] = "pushing"
                      /\ MutexFree
                      /\ tasks' = <<c>> \o tasks
                      /\ pc' = [pc EXCEPT ![c] = "notifying"]
                      /\ UNCHANGED <<halt, threadVars, result, owner>>

Push(c) == /\ pc[c] = "pushing"
           /\ MutexFree
           /\ tasks' = Append(tasks, c)
           /\ pc' = [pc EXCEPT ![c] = "notifying"]
           /\ UNCHANGED <<halt, threadVars, result, owner>>

(* Mutant: a push is not followed by a notification. *)
Mut_PushSilently(c) == /\ pc[c] = "notifying"
                       /\ pc' = [pc EXCEPT ![c] = "getting"]
                       /\ UNCHANGED <<tasks, halt, threadVars, result, owner>>

Notify(c) == /\ pc[c] = "notifying"
             /\ NotifyOne
             /\ pc' = [pc EXCEPT ![c] = "getting"]
             /\ UNCHANGED <<tasks, halt, haltCache, batch, result, owner>>

(* result.get(); a broken promise reaches the caller as an exception. *)
Get(c) == /\ pc[c] = "getting"
          /\ result[c] # "none"
          /\ result' = [result EXCEPT ![c] = "none"]
          /\ pc' = [pc EXCEPT ![c] = "idle"]
          /\ UNCHANGED <<tasks, halt, threadVars, owner>>

HandleTask(c) == CheckHalt(c) \/ Push(c) \/ Notify(c) \/ Get(c)

------------------------------------------------------------------------------
(* ContextThread.                                                          *)

(* ca_context_create() and the promise of LaunchContext(). *)
CreateContext == /\ thread = "creating"
                 /\ thread' \in {"starting", "failed"}
                 /\ UNCHANGED <<tasks, halt, haltCache, batch, pc, result, owner>>

(* Mutant: halt_cache is not refreshed after a wait. *)
Mut_StaleHaltCache ==
  IF halt \/ tasks # <<>>
  THEN /\ batch' = tasks
       /\ tasks' = <<>>
       /\ thread' = "running"
       /\ UNCHANGED haltCache
  ELSE /\ thread' = "waiting"
       /\ UNCHANGED <<tasks, haltCache, batch>>

(* One evaluation, with the mutex held, of the predicate of cond.wait(), and *)
(* what follows in the same critical section when it holds.                  *)
TakeBatchOrWait ==
  IF halt \/ tasks # <<>>
  THEN /\ batch' = tasks
       /\ tasks' = <<>>
       /\ haltCache' = halt
       /\ thread' = "running"
  ELSE /\ thread' = "waiting"
       /\ UNCHANGED <<tasks, haltCache, batch>>

(* while (!halt_cache), with the mutex held. *)
LoopOrLeave(cache) ==
  IF cache
  THEN /\ thread' = "destroying"
       /\ haltCache' = TRUE
       /\ UNCHANGED <<tasks, batch>>
  ELSE TakeBatchOrWait

EnterLoop == /\ thread = "starting"
             /\ LoopOrLeave(halt)
             /\ UNCHANGED <<halt, pc, result, owner>>

SpuriousWakeup == /\ thread = "waiting"
                  /\ thread' = "woken"
                  /\ UNCHANGED <<tasks, halt, haltCache, batch, pc, result, owner>>

Resume == /\ thread = "woken"
          /\ TakeBatchOrWait
          /\ UNCHANGED <<halt, pc, result, owner>>

RunTask == /\ thread = "running"
           /\ batch # <<>>
           /\ result' = [result EXCEPT ![Head(batch)] = "executed"]
           /\ batch' = Tail(batch)
           /\ UNCHANGED <<tasks, halt, haltCache, thread, pc, owner>>

(* Mutant: the thread leaves as soon as there is nothing left to do. *)
Mut_LeaveWhenIdle == /\ thread = "running"
                     /\ batch = <<>>
                     /\ LoopOrLeave(tasks = <<>>)
                     /\ UNCHANGED <<halt, pc, result, owner>>

EndBatch == /\ thread = "running"
            /\ batch = <<>>
            /\ LoopOrLeave(haltCache)
            /\ UNCHANGED <<halt, pc, result, owner>>

(* ca_context_destroy() and the release of the mutex on return. *)
DestroyContext == /\ thread = "destroying"
                  /\ thread' = "exited"
                  /\ UNCHANGED <<tasks, halt, haltCache, batch, pc, result, owner>>

ContextThread == \/ CreateContext \/ EnterLoop \/ Resume \/ RunTask \/ EndBatch
                 \/ DestroyContext

------------------------------------------------------------------------------
Halting == SetHalt \/ NotifyHalt \/ Join \/ DestroyMembers

Next == \/ Construct \/ Launched \/ LaunchFailed \/ Halting
        \/ ContextThread \/ SpuriousWakeup
        \/ \E c \in Callers : Call(c) \/ HandleTask(c)

Spec == Init /\ [][Next]_vars

(* Threads that can run do run, and CA library calls and tasks return.      *)
(* Nobody is obliged to construct, call or start to destroy, and the system *)
(* owes no spurious wakeup.                                                 *)
Fairness == /\ WF_vars(ContextThread)
            /\ WF_vars(Launched \/ LaunchFailed)
            /\ WF_vars(NotifyHalt \/ Join \/ DestroyMembers)
            /\ \A c \in Callers : WF_vars(HandleTask(c))

FairSpec == Spec /\ Fairness

------------------------------------------------------------------------------
(* Every variable has its type. *)
TypeOK == /\ tasks \in Seq(Callers)
          /\ halt \in BOOLEAN
          /\ haltCache \in BOOLEAN
          /\ batch \in Seq(Callers)
          /\ thread \in ThreadStates
          /\ pc \in [Callers -> CallerStates]
          /\ result \in [Callers -> Results]
          /\ owner \in OwnerStates

(* HandleTask and HaltContext change the wait predicate and notify in two   *)
(* steps, without the mutex in between: whenever the context thread sleeps  *)
(* although it should not, somebody is still about to wake it up.           *)
NoLostWakeup ==
  thread = "waiting" /\ (halt \/ tasks # <<>>)
    => owner = "notifying" \/ \E c \in Callers : pc[c] = "notifying"

Pending == batch \o tasks

Unanswered == {c \in Callers : pc[c] \in {"notifying", "getting"} /\ result[c] = "none"}

(* Between the swap of the queues, the runs of a batch and concurrent       *)
(* pushes, no task is lost or run twice: the tasks that still have to be    *)
(* run are exactly those of the callers without an answer, each once.       *)
EachTaskOnce == IsInjective(Pending) /\ Range(Pending) = Unanswered

(* With the discipline of CAChannelManager (no destruction while a call is  *)
(* in progress) the halt flag never makes the thread abandon a task.        *)
NothingDiscarded == ~MayOverlap => \A c \in Callers : result[c] # "discarded"

(* With the same discipline a task is never queued in front of a context    *)
(* thread that is leaving or gone, where its caller would sleep for ever.   *)
Serving == {"starting", "waiting", "woken", "running"}
NobodyLeftBehind == ~MayOverlap /\ Pending # <<>> => thread \in Serving

(* Every call of HandleTask returns, whatever the owner does meanwhile. *)
CallsReturn == \A c \in Callers : (pc[c] # "idle") ~> (pc[c] = "idle")

(* The destructor returns: the thread it joins sees the halt flag. *)
DestructorReturns == (owner = "notifying") ~> (owner = "none")

(* The handle implements the abstract task service. *)
Service == INSTANCE TaskService WITH
  open   <- owner = "open",
  queue  <- Pending,
  phase  <- [c \in Callers |-> CASE pc[c] = "idle" -> "out"
                                 [] pc[c] \in {"checking", "pushing"} -> "in"
                                 [] OTHER -> "waiting"],
  answer <- result

ImplementsTaskService == Service!Spec
==============================================================================
