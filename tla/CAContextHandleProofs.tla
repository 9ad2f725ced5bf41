------------------------ MODULE CAContextHandleProofs ------------------------
(***************************************************************************)
(* Theorems about CAContextHandle, for any set of callers.                 *)
(***************************************************************************)
EXTENDS CAContextHandle, SequenceTheorems, TLAPS

------------------------------------------------------------------------------
(* Queues without duplicates.                                              *)

(* Pushing a task of a new caller keeps the tasks apart. *)
LEMMA InjectiveAppend ==
  ASSUME NEW S, NEW q \in Seq(S), NEW e \in S, IsInjective(q), e \notin Range(q)
  PROVE  /\ IsInjective(Append(q, e))
         /\ Range(Append(q, e)) = Range(q) \cup {e}
  <1>. DEFINE r == Append(q, e)
  <1>1. /\ r \in Seq(S) /\ Len(q) \in Nat /\ Len(r) = Len(q) + 1
        /\ \A i \in 1..Len(q) : r[i] = q[i]
        /\ r[Len(q) + 1] = e
        /\ DOMAIN q = 1..Len(q) /\ DOMAIN r = 1..Len(r)
    BY AppendProperties, LenProperties
  <1>2. \A i \in 1..Len(q) : q[i] # e
    BY <1>1 DEF Range
  <1>3. IsInjective(r)
    BY <1>1, <1>2 DEF IsInjective
  <1>4. Range(r) = Range(q) \cup {e}
    <2>1. ASSUME NEW x \in Range(r) PROVE x \in Range(q) \cup {e}
      BY <1>1, <2>1 DEF Range
    <2>2. ASSUME NEW x \in Range(q) PROVE x \in Range(r)
      BY <1>1, <2>2 DEF Range
    <2>3. e \in Range(r)
      <3>1. Len(q) + 1 \in DOMAIN r
        BY <1>1
      <3>. QED
        BY <1>1, <3>1 DEF Range
    <2>. QED
      BY <2>1, <2>2, <2>3
  <1>. QED
    BY <1>3, <1>4

(* Taking the first task away removes its caller, and only its caller. *)
LEMMA InjectiveTail ==
  ASSUME NEW S, NEW q \in Seq(S), q # <<>>, IsInjective(q)
  PROVE  /\ Head(q) \in Range(q)
         /\ IsInjective(Tail(q))
         /\ Range(Tail(q)) = Range(q) \ {Head(q)}
  <1>. DEFINE t == Tail(q)
  <1>1. /\ t \in Seq(S) /\ Len(q) \in Nat \ {0} /\ Len(t) = Len(q) - 1
        /\ \A i \in 1..Len(t) : t[i] = q[i + 1]
        /\ DOMAIN q = 1..Len(q) /\ DOMAIN t = 1..Len(t)
        /\ Head(q) = q[1]
    BY HeadTailProperties, LenProperties, EmptySeq
  <1>2. Head(q) \in Range(q)
    BY <1>1 DEF Range
  <1>3. IsInjective(t)
    BY <1>1 DEF IsInjective
  <1>4. Range(t) = Range(q) \ {Head(q)}
    <2>1. ASSUME NEW i \in DOMAIN t PROVE t[i] \in Range(q) /\ t[i] # Head(q)
      <3>1. i + 1 \in DOMAIN q /\ i + 1 # 1 /\ 1 \in DOMAIN q
        BY <1>1, <2>1
      <3>. QED
        BY <1>1, <3>1 DEF IsInjective, Range
    <2>2. ASSUME NEW i \in DOMAIN q, q[i] # Head(q) PROVE q[i] \in Range(t)
      <3>1. i - 1 \in DOMAIN t /\ t[i - 1] = q[i]
        BY <1>1, <2>2
      <3>. QED
        BY <3>1 DEF Range
    <2>. QED
      BY <2>1, <2>2 DEF Range
  <1>. QED
    BY <1>2, <1>3, <1>4

(* The batch goes first: a push is an append to, a run the tail of, the whole. *)
LEMMA ConcatAppend ==
  ASSUME NEW S, NEW s \in Seq(S), NEW t \in Seq(S), NEW e \in S
  PROVE  s \o Append(t, e) = Append(s \o t, e)
  <1>1. /\ Append(t, e) = t \o <<e>>
        /\ s \o t \in Seq(S) /\ <<e>> \in Seq(S)
        /\ Append(s \o t, e) = (s \o t) \o <<e>>
    BY AppendIsConcat, ConcatProperties
  <1>. QED
    BY <1>1, ConcatAssociative

LEMMA ConcatTail ==
  ASSUME NEW S, NEW s \in Seq(S), NEW t \in Seq(S), s # <<>>
  PROVE  /\ s \o t # <<>>
         /\ Head(s \o t) = Head(s)
         /\ Tail(s \o t) = Tail(s) \o t
  <1>. DEFINE st == s \o t
  <1>1. /\ st \in Seq(S) /\ Len(st) = Len(s) + Len(t)
        /\ Len(s) \in Nat \ {0} /\ Len(t) \in Nat
        /\ \A i \in 1..Len(s) + Len(t) : st[i] = IF i <= Len(s) THEN s[i] ELSE t[i - Len(s)]
    BY ConcatProperties, LenProperties, EmptySeq
  <1>2. st # <<>>
    BY <1>1, EmptySeq
  <1>3. Head(st) = Head(s)
    BY <1>1
  <1>4. Tail(st) = Tail(s) \o t
    <2>1. /\ Tail(st) \in Seq(S) /\ Len(Tail(st)) = Len(s) + Len(t) - 1
          /\ \A i \in 1..Len(s) + Len(t) - 1 : Tail(st)[i] = st[i + 1]
          /\ Tail(s) \in Seq(S) /\ Len(Tail(s)) = Len(s) - 1
          /\ \A i \in 1..Len(s) - 1 : Tail(s)[i] = s[i + 1]
      BY <1>1, <1>2, HeadTailProperties
    <2>2. /\ Tail(s) \o t \in Seq(S)
          /\ Len(Tail(s) \o t) = Len(s) - 1 + Len(t)
          /\ \A i \in 1..Len(s) - 1 + Len(t) :
               (Tail(s) \o t)[i] = IF i <= Len(s) - 1 THEN Tail(s)[i] ELSE t[i - (Len(s) - 1)]
      BY <2>1, ConcatProperties
    <2>3. \A i \in 1..Len(s) + Len(t) - 1 : Tail(st)[i] = (Tail(s) \o t)[i]
      BY <1>1, <2>1, <2>2
    <2>. QED
      BY <1>1, <2>1, <2>2, <2>3, SeqEqual
  <1>. QED
    BY <1>2, <1>3, <1>4

------------------------------------------------------------------------------
(* Every reachable state is well typed. *)
THEOREM TypeCorrect == Spec => []TypeOK
  <1> USE DEF CallerStates, ThreadStates, OwnerStates, Results
  <1>1. Init => TypeOK
    BY EmptySeq DEF Init, TypeOK
  <1>2. TypeOK /\ [Next]_vars => TypeOK'
    <2> SUFFICES ASSUME TypeOK, [Next]_vars PROVE TypeOK'
      OBVIOUS
    <2> USE DEF TypeOK
    <2>1. CASE Construct
      BY <2>1, EmptySeq DEF Construct
    <2>2. CASE Launched \/ LaunchFailed
      BY <2>2 DEF Launched, LaunchFailed, threadVars
    <2>3. CASE SetHalt \/ NotifyHalt \/ Join
      BY <2>3 DEF SetHalt, NotifyHalt, Join, NotifyOne, threadVars
    <2>4. CASE DestroyMembers
      BY <2>4, EmptySeq DEF DestroyMembers
    <2>5. ASSUME NEW c \in Callers, Call(c) \/ HandleTask(c) PROVE TypeOK'
      <3>1. CASE Push(c)
        BY <3>1, AppendProperties DEF Push, threadVars
      <3>2. CASE Call(c) \/ CheckHalt(c) \/ Notify(c) \/ Get(c)
        BY <3>2 DEF Call, CheckHalt, Notify, Get, NotifyOne, threadVars
      <3>. QED
        BY <2>5, <3>1, <3>2 DEF HandleTask
    <2>6. CASE CreateContext \/ SpuriousWakeup \/ DestroyContext
      BY <2>6 DEF CreateContext, SpuriousWakeup, DestroyContext
    <2>7. CASE EnterLoop \/ Resume \/ EndBatch
      BY <2>7, EmptySeq DEF EnterLoop, Resume, EndBatch, LoopOrLeave, TakeBatchOrWait
    <2>8. CASE RunTask
      BY <2>8, HeadTailProperties DEF RunTask
    <2>9. CASE UNCHANGED vars
      BY <2>9 DEF vars
    <2>. QED
      BY <2>1, <2>2, <2>3, <2>4, <2>5, <2>6, <2>7, <2>8, <2>9 DEF Next, Halting, ContextThread
  <1>. QED
    BY <1>1, <1>2, PTL DEF Spec

(* No wakeup is lost, although HandleTask and HaltContext notify without     *)
(* the mutex: the property is inductive, since whoever makes the predicate   *)
(* of the wait true goes on to notify, and the context thread goes to sleep  *)
(* only after it has found the predicate false.                              *)
THEOREM WakeupsAreNotLost == Spec => []NoLostWakeup
  <1>1. Init => NoLostWakeup
    BY DEF Init, NoLostWakeup
  <1>2. TypeOK /\ NoLostWakeup /\ [Next]_vars => NoLostWakeup'
    <2> SUFFICES ASSUME TypeOK, NoLostWakeup, [Next]_vars PROVE NoLostWakeup'
      OBVIOUS
    <2> USE DEF NoLostWakeup
    <2>1. CASE Construct \/ LaunchFailed \/ DestroyMembers
      BY <2>1 DEF Construct, LaunchFailed, DestroyMembers
    <2>2. CASE Launched
      BY <2>2 DEF Launched, threadVars
    <2>3. CASE SetHalt
      BY <2>3 DEF SetHalt, threadVars
    <2>4. CASE NotifyHalt
      BY <2>4 DEF NotifyHalt, NotifyOne
    <2>5. CASE Join
      BY <2>5 DEF Join, threadVars
    <2>6. ASSUME NEW c \in Callers, Call(c) \/ CheckHalt(c) \/ Get(c) PROVE NoLostWakeup'
      BY <2>6 DEF Call, CheckHalt, Get, threadVars, TypeOK
    <2>7. ASSUME NEW c \in Callers, Push(c) PROVE NoLostWakeup'
      BY <2>7 DEF Push, threadVars, TypeOK
    <2>8. ASSUME NEW c \in Callers, Notify(c) PROVE NoLostWakeup'
      BY <2>8 DEF Notify, NotifyOne
    <2>9. CASE ContextThread \/ SpuriousWakeup
      BY <2>9 DEF ContextThread, CreateContext, EnterLoop, Resume, RunTask, EndBatch,
                  DestroyContext, SpuriousWakeup, LoopOrLeave, TakeBatchOrWait
    <2>10. CASE UNCHANGED vars
      BY <2>10 DEF vars
    <2>. QED
      BY <2>1, <2>2, <2>3, <2>4, <2>5, <2>6, <2>7, <2>8, <2>9, <2>10
         DEF Next, Halting, HandleTask
  <1>. QED
    BY <1>1, <1>2, TypeCorrect, PTL DEF Spec

------------------------------------------------------------------------------
(* EachTaskOnce is not inductive: what it says of the queues depends on when *)
(* the batch is empty, on results being consumed before the next call, and   *)
(* on the thread having left when the members are destroyed.                 *)
BatchWhileRunning == batch # <<>> => thread = "running"

NoStaleResult ==
  \A c \in Callers : pc[c] \in {"idle", "checking", "pushing"} => result[c] = "none"

JoinedBeforeDestruction == owner = "destructing" => thread = "exited"

TaskInv == /\ TypeOK
           /\ EachTaskOnce
           /\ BatchWhileRunning
           /\ NoStaleResult
           /\ JoinedBeforeDestruction

(* Moving the queued tasks to the empty batch leaves the whole as it was. *)
LEMMA TakeBatchKeepsPending ==
  ASSUME TypeOK, batch = <<>>, TakeBatchOrWait
  PROVE  Pending' = Pending
  <1>1. CASE halt \/ tasks # <<>>
    BY <1>1, ConcatEmptySeq DEF TakeBatchOrWait, TypeOK, Pending
  <1>2. CASE ~(halt \/ tasks # <<>>)
    BY <1>2 DEF TakeBatchOrWait, Pending
  <1>. QED
    BY <1>1, <1>2

(* Nothing is pending when every caller is idle. *)
LEMMA QuietMeansEmpty ==
  ASSUME TypeOK, EachTaskOnce, \A c \in Callers : pc[c] = "idle"
  PROVE  Pending = <<>> /\ tasks = <<>>
  <1>1. Pending \in Seq(Callers)
    BY ConcatProperties DEF TypeOK, Pending
  <1>2. Range(Pending) = {}
    BY DEF EachTaskOnce, Unanswered
  <1>3. Pending = <<>>
    <2>. SUFFICES ASSUME Pending # <<>> PROVE FALSE
      OBVIOUS
    <2>1. Head(Pending) \in Range(Pending)
      BY <1>1, InjectiveTail DEF EachTaskOnce
    <2>. QED
      BY <2>1, <1>2
  <1>. QED
    BY <1>3, ConcatEqualIffEmpty DEF TypeOK, Pending

LEMMA TaskInvStep == TaskInv /\ [Next]_vars /\ TypeOK' => TaskInv'
  <1> SUFFICES ASSUME TaskInv, [Next]_vars, TypeOK' PROVE TaskInv'
    OBVIOUS
  <1>0. /\ TypeOK /\ TypeOK' /\ Pending \in Seq(Callers)
        /\ batch \in Seq(Callers) /\ tasks \in Seq(Callers)
    BY ConcatProperties DEF TaskInv, TypeOK, Pending
  <1> USE DEF TaskInv, EachTaskOnce, BatchWhileRunning, NoStaleResult, JoinedBeforeDestruction
  <1>1. CASE Construct
    <2>1. Pending = <<>> /\ tasks = <<>> /\ tasks' = <<>> /\ batch' = batch
      BY <1>0, <1>1, QuietMeansEmpty DEF Construct
    <2>. QED
      BY <1>0, <1>1, <2>1, ConcatEqualIffEmpty DEF Construct, Unanswered, Pending
  <1>2. CASE Launched \/ LaunchFailed \/ SetHalt \/ NotifyHalt \/ Join
    <2>1. Pending' = Pending /\ Unanswered' = Unanswered
      BY <1>2 DEF Launched, LaunchFailed, SetHalt, NotifyHalt, Join, threadVars, Pending, Unanswered
    <2>. QED
      BY <1>0, <1>2, <2>1
         DEF Launched, LaunchFailed, SetHalt, NotifyHalt, Join, NotifyOne, threadVars
  <1>3. CASE DestroyMembers
    <2>1. batch = <<>> /\ batch' = <<>> /\ tasks' = <<>> /\ Pending = tasks
      BY <1>0, <1>3, ConcatEmptySeq DEF DestroyMembers, Pending
    <2>2. Pending' = <<>>
      BY <2>1, ConcatEmptySeq, EmptySeq DEF Pending
    <2>3. Unanswered' = {}
      BY <1>0, <1>3, <2>1 DEF DestroyMembers, Unanswered, TypeOK
    <2>4. NoStaleResult'
      BY <1>0, <1>3, <2>1 DEF DestroyMembers, Unanswered, TypeOK
    <2>. QED
      BY <1>0, <1>3, <2>1, <2>2, <2>3, <2>4 DEF DestroyMembers, Range, IsInjective
  <1>4. ASSUME NEW c \in Callers, Call(c) \/ CheckHalt(c) \/ Notify(c) PROVE TaskInv'
    <2>1. Pending' = Pending /\ Unanswered' = Unanswered
      BY <1>0, <1>4 DEF Call, CheckHalt, Notify, threadVars, Pending, Unanswered, TypeOK
    <2>. QED
      BY <1>0, <1>4, <2>1 DEF Call, CheckHalt, Notify, NotifyOne, threadVars, TypeOK
  <1>5. ASSUME NEW c \in Callers, Push(c) PROVE TaskInv'
    <2>1. Pending' = Append(Pending, c)
      BY <1>0, <1>5, ConcatAppend DEF Push, threadVars, Pending
    <2>2. c \notin Unanswered /\ Unanswered' = Unanswered \cup {c}
      BY <1>0, <1>5 DEF Push, Unanswered, TypeOK
    <2>3. EachTaskOnce'
      BY <1>0, <2>1, <2>2, InjectiveAppend
    <2>. QED
      BY <1>0, <1>5, <2>3 DEF Push, threadVars, TypeOK
  <1>6. ASSUME NEW c \in Callers, Get(c) PROVE TaskInv'
    <2>1. Pending' = Pending /\ Unanswered' = Unanswered
      BY <1>0, <1>6 DEF Get, threadVars, Pending, Unanswered, TypeOK
    <2>. QED
      BY <1>0, <1>6, <2>1 DEF Get, threadVars, TypeOK
  <1>7. CASE CreateContext \/ SpuriousWakeup \/ DestroyContext
    <2>1. Pending' = Pending /\ Unanswered' = Unanswered
      BY <1>7 DEF CreateContext, SpuriousWakeup, DestroyContext, Pending, Unanswered
    <2>. QED
      BY <1>0, <1>7, <2>1 DEF CreateContext, SpuriousWakeup, DestroyContext
  <1>8. CASE EnterLoop \/ Resume \/ EndBatch
    <2>1. batch = <<>>
      BY <1>8 DEF EnterLoop, Resume, EndBatch
    <2>2. Pending' = Pending
      BY <1>0, <1>8, <2>1, TakeBatchKeepsPending
         DEF EnterLoop, Resume, EndBatch, LoopOrLeave, Pending
    <2>3. Unanswered' = Unanswered
      BY <1>8 DEF EnterLoop, Resume, EndBatch, Unanswered
    <2>. QED
      BY <1>0, <1>8, <2>1, <2>2, <2>3
         DEF EnterLoop, Resume, EndBatch, LoopOrLeave, TakeBatchOrWait
  <1>9. CASE RunTask
    <2>1. /\ Pending # <<>> /\ Head(Pending) = Head(batch)
          /\ Pending' = Tail(Pending)
      BY <1>0, <1>9, ConcatTail DEF RunTask, Pending
    <2>2. /\ Head(batch) \in Unanswered /\ IsInjective(Pending')
          /\ Range(Pending') = Unanswered \ {Head(batch)}
      BY <1>0, <2>1, InjectiveTail
    <2>3. Unanswered' = Unanswered \ {Head(batch)}
      BY <1>0, <1>9, <2>2 DEF RunTask, Unanswered, TypeOK
    <2>. QED
      BY <1>0, <1>9, <2>2, <2>3 DEF RunTask, Unanswered, TypeOK
  <1>10. CASE UNCHANGED vars
    BY <1>0, <1>10 DEF vars, Pending, Unanswered
  <1>. QED
    BY <1>1, <1>2, <1>3, <1>4, <1>5, <1>6, <1>7, <1>8, <1>9, <1>10
       DEF Next, Halting, HandleTask, ContextThread

LEMMA TaskInvariant == Spec => []TaskInv
  <1>1. Init => TaskInv
    <2>. SUFFICES ASSUME Init PROVE TaskInv
      OBVIOUS
    <2>1. TypeOK
      BY EmptySeq DEF Init, TypeOK, CallerStates, ThreadStates, OwnerStates, Results
    <2>2. Pending = <<>> /\ Unanswered = {}
      BY ConcatEmptySeq, EmptySeq DEF Init, Pending, Unanswered
    <2>3. IsInjective(<<>>) /\ Range(<<>>) = {}
      BY DEF IsInjective, Range
    <2>. QED
      BY <2>1, <2>2, <2>3 DEF Init, TaskInv, EachTaskOnce, BatchWhileRunning, NoStaleResult,
                              JoinedBeforeDestruction
  <1>. QED
    BY <1>1, TaskInvStep, TypeCorrect, PTL DEF Spec

(* Whatever the interleaving of callers, owner and context thread, the tasks *)
(* still to be run are exactly those of the callers without an answer, each  *)
(* of them once.                                                             *)
THEOREM TasksRunOnce == Spec => []EachTaskOnce
  BY TaskInvariant, PTL DEF TaskInv

------------------------------------------------------------------------------
(* What the discipline of CAChannelManager adds: outside the life of the     *)
(* handle nobody calls, and during it the thread has not been told to halt.  *)
QuietOutside ==
  owner = "launching" \/ (~MayOverlap /\ owner # "open") => \A c \in Callers : pc[c] = "idle"

ServingInside ==
  owner \in {"launching", "open"}
    => /\ ~halt
       /\ ~haltCache
       /\ thread \in Serving \/ (owner = "launching" /\ thread \in {"creating", "failed"})

LifeInv == QuietOutside /\ ServingInside

LEMMA LifeInvStep == TypeOK /\ LifeInv /\ [Next]_vars => LifeInv'
  <1> SUFFICES ASSUME TypeOK, LifeInv, [Next]_vars PROVE LifeInv'
    OBVIOUS
  <1> USE DEF LifeInv, QuietOutside, ServingInside, Serving
  <1>1. CASE Construct \/ DestroyMembers
    BY <1>1 DEF Construct, DestroyMembers
  <1>2. CASE Launched \/ LaunchFailed
    BY <1>2 DEF Launched, LaunchFailed, threadVars
  <1>3. CASE SetHalt \/ NotifyHalt \/ Join
    BY <1>3 DEF SetHalt, NotifyHalt, Join, threadVars
  <1>4. ASSUME NEW c \in Callers, Call(c) \/ HandleTask(c) PROVE LifeInv'
    BY <1>4 DEF Call, HandleTask, CheckHalt, Push, Notify, Get, NotifyOne, threadVars, TypeOK
  <1>5. CASE ContextThread \/ SpuriousWakeup
    BY <1>5 DEF ContextThread, CreateContext, EnterLoop, Resume, RunTask, EndBatch,
                DestroyContext, SpuriousWakeup, LoopOrLeave, TakeBatchOrWait
  <1>6. CASE UNCHANGED vars
    BY <1>6 DEF vars
  <1>. QED
    BY <1>1, <1>2, <1>3, <1>4, <1>5, <1>6 DEF Next, Halting

LEMMA LifeInvariant == Spec => []LifeInv
  <1>1. Init => LifeInv
    BY DEF Init, LifeInv, QuietOutside, ServingInside
  <1>. QED
    BY <1>1, LifeInvStep, TypeCorrect, PTL DEF Spec

(* As long as the owner does not destroy the handle under a caller, a caller *)
(* that waits for its task has a context thread in front of it that has not  *)
(* begun to leave.                                                           *)
THEOREM NobodyIsLeftBehind == Spec => []NobodyLeftBehind
  <1>1. TaskInv /\ LifeInv => NobodyLeftBehind
    <2>. SUFFICES ASSUME TaskInv, LifeInv, ~MayOverlap, Pending # <<>>
                  PROVE  thread \in Serving
      BY DEF NobodyLeftBehind
    <2>1. ~ \A c \in Callers : pc[c] = "idle"
      BY QuietMeansEmpty DEF TaskInv
    <2>. QED
      BY <2>1 DEF LifeInv, QuietOutside, ServingInside
  <1>. QED
    BY <1>1, TaskInvariant, LifeInvariant, PTL

(* Under the same discipline no accepted task is ever thrown away. *)
THEOREM NothingIsDiscarded == Spec => []NothingDiscarded
  <1>1. Init => NothingDiscarded
    BY DEF Init, NothingDiscarded
  <1>2. TaskInv /\ LifeInv /\ NothingDiscarded /\ [Next]_vars => NothingDiscarded'
    <2> SUFFICES ASSUME TaskInv, LifeInv, NothingDiscarded, [Next]_vars, ~MayOverlap
                 PROVE  \A c \in Callers : result'[c] # "discarded"
      BY DEF NothingDiscarded
    <2>0. TypeOK /\ \A c \in Callers : result[c] # "discarded"
      BY DEF TaskInv, NothingDiscarded
    <2>1. CASE DestroyMembers
      <3>1. tasks = <<>>
        BY <2>1, QuietMeansEmpty DEF TaskInv, LifeInv, QuietOutside, DestroyMembers
      <3>2. Range(tasks) = {}
        BY <3>1 DEF Range
      <3>. QED
        BY <2>0, <2>1, <3>2 DEF DestroyMembers
    <2>2. ASSUME NEW c \in Callers, Get(c) PROVE \A d \in Callers : result'[d] # "discarded"
      BY <2>0, <2>2 DEF Get, TypeOK
    <2>3. CASE RunTask
      BY <2>0, <2>3 DEF RunTask, TypeOK
    <2>4. CASE UNCHANGED result
      BY <2>0, <2>4
    <2>5. ASSUME NEW c \in Callers, Call(c) \/ CheckHalt(c) \/ Push(c) \/ Notify(c)
          PROVE  UNCHANGED result
      BY <2>5 DEF Call, CheckHalt, Push, Notify
    <2>6. ASSUME \/ Construct \/ Launched \/ LaunchFailed \/ SetHalt \/ NotifyHalt \/ Join
                 \/ CreateContext \/ EnterLoop \/ Resume \/ EndBatch \/ DestroyContext
                 \/ SpuriousWakeup \/ UNCHANGED vars
          PROVE  UNCHANGED result
      BY <2>6 DEF Construct, Launched, LaunchFailed, SetHalt, NotifyHalt, Join, CreateContext,
                  EnterLoop, Resume, EndBatch, DestroyContext, SpuriousWakeup, vars
    <2>. QED
      BY <2>1, <2>2, <2>3, <2>4, <2>5, <2>6 DEF Next, Halting, HandleTask, ContextThread
  <1>. QED
    BY <1>1, <1>2, TaskInvariant, LifeInvariant, PTL DEF Spec

------------------------------------------------------------------------------
(* Refinement.                                                              *)

LEMMA InitRefines == Init => Service!Init
  <1>. SUFFICES ASSUME Init PROVE Service!Init
    OBVIOUS
  <1>1. Pending = <<>>
    BY ConcatEmptySeq, EmptySeq DEF Init, Pending
  <1>. QED
    BY <1>1 DEF Init, Service!Init

LEMMA StepRefines ==
  ASSUME TaskInv, TaskInv', LifeInv, [Next]_vars
  PROVE  [Service!Next]_(Service!vars)
  <1>0. /\ TypeOK /\ TypeOK' /\ Pending \in Seq(Callers)
        /\ batch \in Seq(Callers) /\ tasks \in Seq(Callers)
    BY ConcatProperties DEF TaskInv, TypeOK, Pending
  <1>1. CASE Construct \/ LaunchFailed \/ NotifyHalt \/ Join \/ CreateContext
             \/ SpuriousWakeup \/ DestroyContext \/ UNCHANGED vars
    <2>1. Pending' = Pending
      <3>1. CASE Construct
        <4>1. tasks = <<>>
          BY <3>1, QuietMeansEmpty DEF TaskInv, Construct
        <4>. QED
          BY <3>1, <4>1 DEF Construct, Pending
      <3>. QED
        BY <1>1, <3>1 DEF LaunchFailed, NotifyHalt, Join, CreateContext, SpuriousWakeup,
                          DestroyContext, threadVars, vars, Pending
    <2>2. UNCHANGED <<pc, result, owner = "open">>
      BY <1>1 DEF Construct, LaunchFailed, NotifyHalt, Join, CreateContext, SpuriousWakeup,
                  DestroyContext, threadVars, vars
    <2>. QED
      BY <2>1, <2>2 DEF Service!vars
  <1>2. CASE Launched
    <2>1. Pending = <<>>
      BY <1>2, QuietMeansEmpty DEF TaskInv, LifeInv, QuietOutside, Launched
    <2>2. Pending' = Pending
      BY <1>2 DEF Launched, threadVars, Pending
    <2>. QED
      BY <1>2, <2>1, <2>2 DEF Launched, Service!Next, Service!Open
  <1>3. CASE SetHalt
    <2>1. Pending' = Pending
      BY <1>3 DEF SetHalt, threadVars, Pending
    <2>. QED
      BY <1>3, <2>1 DEF SetHalt, Service!Next, Service!Close
  <1>4. CASE DestroyMembers
    <2>1. batch = <<>> /\ Pending = tasks /\ Pending' = <<>>
      BY <1>0, <1>4, ConcatEmptySeq, EmptySeq
         DEF DestroyMembers, Pending, TaskInv, BatchWhileRunning, JoinedBeforeDestruction
    <2>2. CASE tasks = <<>>
      <3>1. Range(tasks) = {}
        BY <2>2 DEF Range
      <3>2. result' = result
        BY <1>0, <1>4, <3>1 DEF DestroyMembers, TypeOK
      <3>. QED
        BY <1>4, <2>1, <2>2, <3>2 DEF DestroyMembers, Service!vars
    <2>3. CASE tasks # <<>>
      <3>0. Service!Range(Pending) = Range(tasks)
        BY <2>1 DEF Range, Service!Range
      <3>1. Service!Discard
        BY <1>4, <2>1, <2>3, <3>0 DEF DestroyMembers, Service!Discard
      <3>. QED
        BY <3>1 DEF Service!Next
    <2>. QED
      BY <2>2, <2>3
  <1>5. ASSUME NEW c \in Callers, Call(c) \/ HandleTask(c)
        PROVE  [Service!Next]_(Service!vars)
    <2>1. CASE Push(c)
      <3>1. Pending' = Append(Pending, c)
        BY <1>0, <2>1, ConcatAppend DEF Push, threadVars, Pending
      <3>2. Service!Accept(c)
        BY <1>0, <2>1, <3>1 DEF Push, Service!Accept, TypeOK
      <3>. QED
        BY <3>2 DEF Service!Next
    <2>2. ASSUME Call(c) \/ CheckHalt(c) \/ Notify(c) \/ Get(c) PROVE Pending' = Pending
      BY <2>2 DEF Call, CheckHalt, Notify, Get, threadVars, Pending
    <2>3. CASE Call(c)
      <3>1. Service!Call(c)
        BY <1>0, <2>2, <2>3 DEF Call, Service!Call, TypeOK
      <3>. QED
        BY <3>1 DEF Service!Next
    <2>4. CASE CheckHalt(c)
      <3>1. CASE halt
        <4>1. owner # "open"
          BY <3>1 DEF LifeInv, ServingInside
        <4>2. Service!Refuse(c)
          BY <1>0, <2>2, <2>4, <3>1, <4>1 DEF CheckHalt, Service!Refuse, TypeOK
        <4>. QED
          BY <4>2 DEF Service!Next
      <3>2. CASE ~halt
        BY <1>0, <2>2, <2>4, <3>2 DEF CheckHalt, Service!vars, TypeOK
      <3>. QED
        BY <3>1, <3>2
    <2>5. CASE Notify(c)
      BY <1>0, <2>2, <2>5 DEF Notify, Service!vars, TypeOK
    <2>6. CASE Get(c)
      <3>1. Service!Return(c)
        BY <1>0, <2>2, <2>6 DEF Get, Service!Return, TypeOK
      <3>. QED
        BY <3>1 DEF Service!Next
    <2>. QED
      BY <1>5, <2>1, <2>3, <2>4, <2>5, <2>6 DEF HandleTask
  <1>6. CASE EnterLoop \/ Resume \/ EndBatch
    <2>1. batch = <<>>
      BY <1>6 DEF EnterLoop, Resume, EndBatch, TaskInv, BatchWhileRunning
    <2>2. Pending' = Pending
      BY <1>0, <1>6, <2>1, TakeBatchKeepsPending
         DEF EnterLoop, Resume, EndBatch, LoopOrLeave, Pending
    <2>. QED
      BY <1>6, <2>2 DEF EnterLoop, Resume, EndBatch, Service!vars
  <1>7. CASE RunTask
    <2>1. Pending # <<>> /\ Head(Pending) = Head(batch) /\ Pending' = Tail(Pending)
      BY <1>0, <1>7, ConcatTail DEF RunTask, Pending
    <2>2. Service!Execute
      BY <1>7, <2>1 DEF RunTask, Service!Execute
    <2>. QED
      BY <2>2 DEF Service!Next
  <1>. QED
    BY <1>1, <1>2, <1>3, <1>4, <1>5, <1>6, <1>7 DEF Next, Halting, ContextThread

(* The handle implements the task service: tasks are executed in the order   *)
(* in which they were accepted, each answer follows its execution, and a     *)
(* caller is refused only by a handle that is being destroyed.               *)
THEOREM ServiceIsImplemented == Spec => ImplementsTaskService
  <1>1. Init => Service!Init
    BY InitRefines
  <1>2. TaskInv /\ TaskInv' /\ LifeInv /\ [Next]_vars => [Service!Next]_(Service!vars)
    BY StepRefines
  <1>. QED
    BY <1>1, <1>2, TaskInvariant, LifeInvariant, PTL DEF Spec, ImplementsTaskService, Service!Spec
==============================================================================
