----------------------------- MODULE TaskService -----------------------------
(***************************************************************************)
(* What CAContextHandle promises to the code that hands it tasks           *)
(* (ca/ca_context_handle.h): a task that is accepted is executed once, in  *)
(* the order of acceptance, before its caller gets an answer; a caller is  *)
(* refused only when the service is closing; tasks are discarded unexecuted *)
(* only when the service is closed.  Threads, the mutex, the condition     *)
(* variable and the batches of the implementation are not visible here.    *)
(***************************************************************************)
EXTENDS Sequences, Functions

CONSTANT Callers        (* the threads that hand over tasks *)

VARIABLES open,         (* the service takes and executes tasks *)
          queue,        (* accepted and not yet executed tasks, by caller *)
          phase,        (* where each caller is in its call *)
          answer        (* what happened to each caller's task *)

vars == <<open, queue, phase, answer>>

Phases == {"out", "in", "waiting"}
Answers == {"none", "executed", "discarded"}

Init == /\ open = FALSE
        /\ queue = <<>>
        /\ phase = [c \in Callers |-> "out"]
        /\ answer = [c \in Callers |-> "none"]

Open == /\ ~open
        /\ queue = <<>>
        /\ open' = TRUE
        /\ UNCHANGED <<queue, phase, answer>>

Close == /\ open
         /\ open' = FALSE
         /\ UNCHANGED <<queue, phase, answer>>

Call(c) == /\ open
           /\ phase[c] = "out"
           /\ phase' = [phase EXCEPT ![c] = "in"]
           /\ UNCHANGED <<open, queue, answer>>

Refuse(c) == /\ ~open
             /\ phase[c] = "in"
             /\ phase' = [phase EXCEPT ![c] = "out"]
             /\ UNCHANGED <<open, queue, answer>>

Accept(c) == /\ phase[c] = "in"
             /\ phase' = [phase EXCEPT ![c] = "waiting"]
             /\ queue' = Append(queue, c)
             /\ UNCHANGED <<open, answer>>

Execute == /\ queue # <<>>
           /\ answer' = [answer EXCEPT ![Head(queue)] = "executed"]
           /\ queue' = Tail(queue)
           /\ UNCHANGED <<open, phase>>

Discard == /\ ~open
           /\ queue # <<>>
           /\ answer' = [c \in Callers |->
                           IF c \in Range(queue) THEN "discarded" ELSE answer[c]]
           /\ queue' = <<>>
           /\ UNCHANGED <<open, phase>>

Return(c) == /\ phase[c] = "waiting"
             /\ answer[c] # "none"
             /\ phase' = [phase EXCEPT ![c] = "out"]
             /\ answer' = [answer EXCEPT ![c] = "none"]
             /\ UNCHANGED <<open, queue>>

Next == \/ Open \/ Close \/ Execute \/ Discard
        \/ \E c \in Callers : Call(c) \/ Refuse(c) \/ Accept(c) \/ Return(c)

Spec == Init /\ [][Next]_vars
==============================================================================
