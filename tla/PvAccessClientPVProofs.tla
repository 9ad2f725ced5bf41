------------------------ MODULE PvAccessClientPVProofs ------------------------
(***************************************************************************)
(* Proofs about PvAccessClientPV and, at the end, PVAccessClientPVWrapper,   *)
(* for any sets of values, any bound on the queue of events and any number   *)
(* of puts under way.                                                       *)
(***************************************************************************)
EXTENDS PVAccessClientPVWrapper, TLAPS, SequenceTheorems

(* TypeOK is inductive. *)
LEMMA TypeStep == TypeOK /\ [Next]_vars => TypeOK'
<1> SUFFICES ASSUME TypeOK, [Next]_vars PROVE TypeOK'
  OBVIOUS
<1> USE DEF TypeOK, Events, clientVars, libraryVars
<1>1. CASE Connect \/ Disconnect
  <2>1. queue' \in Seq(Events)
    BY <1>1 DEF Connect, Disconnect, Push
  <2>2. due' \in BOOLEAN
    BY <1>1 DEF Connect, Disconnect, Push
  <2>3. link' \in BOOLEAN /\ fresh' \in BOOLEAN
    BY <1>1 DEF Connect, Disconnect
  <2> QED
    BY <1>1, <2>1, <2>2, <2>3 DEF Connect, Disconnect
<1>2. CASE Change
  BY <1>2 DEF Change
<1>3. CASE Send
  <2>1. queue' \in Seq(Events)
    BY <1>3 DEF Send, Push
  <2>2. due' \in BOOLEAN
    BY <1>3 DEF Send, Push
  <2> QED
    BY <1>3, <2>1, <2>2 DEF Send
<1>4. CASE BeginDrain
  BY <1>4 DEF BeginDrain
<1>5. CASE Pop
  <2>1. Head(queue) \in Events /\ Tail(queue) \in Seq(Events)
    BY <1>5 DEF Pop
  <2>2. result' \in Caches
    BY <1>5, <2>1, ClientAssumption DEF Pop, Caches
  <2> QED
    BY <1>5, <2>1, <2>2 DEF Pop
<1>6. CASE Throw
  <2>1. Tail(queue) \in Seq(Events)
    BY <1>6 DEF Throw
  <2> QED
    BY <1>6, <2>1 DEF Throw
<1>7. CASE EndDrain \/ Read
  BY <1>7 DEF EndDrain, Read
<1>8. CASE UNCHANGED vars
  BY <1>8 DEF vars
<1> QED
  BY <1>1, <1>2, <1>3, <1>4, <1>5, <1>6, <1>7, <1>8 DEF Next, ProcessMonitor

(* Every variable always has its type. *)
THEOREM TypeCorrect == Spec => []TypeOK
<1>1. Init => TypeOK
  <2> SUFFICES ASSUME Init PROVE TypeOK
    OBVIOUS
  <2>1. cache \in Caches /\ <<>> \in Seq(Events)
    BY DEF Init, Caches
  <2> QED
    BY <2>1 DEF Init, TypeOK, AnyValues
<1> QED
  BY <1>1, TypeStep, PTL DEF Spec

------------------------------------------------------------------------------
(* The cache and what the callback knows change in one step, without which   *)
(* ReadsWereReported would not hold.                                         *)
THEOREM CallbackBeforeReaders == Spec => ReadsWereReported
<1> DEFINE Known == reported = cache
<1>1. Init => Known
  BY DEF Init
<1>2. Known /\ [Next]_vars => Known'
  BY DEF Next, Connect, Disconnect, Change, Send, ProcessMonitor, BeginDrain, Pop, Throw,
         EndDrain, Read, vars, clientVars
<1>3. Known /\ [Next]_vars => [seen' # seen => seen' = reported]_vars
  BY DEF Next, Connect, Disconnect, Change, Send, ProcessMonitor, BeginDrain, Pop, Throw,
         EndDrain, Read, vars, clientVars
<1> QED
  BY <1>1, <1>2, <1>3, PTL DEF Spec, ReadsWereReported

------------------------------------------------------------------------------
(* What a queue of events q says in the end, of the events in S only: that   *)
(* is e, or, without any of them, what held before.                          *)
Without(q, S) == \A i \in 1..Len(q) : q[i] \notin S

LastIs(q, S, e) == \E i \in 1..Len(q) : /\ q[i] = e
                                        /\ \A j \in 1..Len(q) : j > i => q[j] \notin S

(* An event of S at the end is the last one; another one changes nothing. *)
LEMMA Appended ==
  ASSUME NEW E, NEW q \in Seq(E), NEW x \in E, NEW S
  PROVE  /\ x \in S => LastIs(Append(q, x), S, x)
         /\ x \notin S /\ Without(q, S) => Without(Append(q, x), S)
         /\ \A e : x \notin S /\ LastIs(q, S, e) => LastIs(Append(q, x), S, e)
<1> DEFINE r == Append(q, x)
<1>1. /\ Len(r) = Len(q) + 1 /\ Len(q) \in Nat /\ r[Len(r)] = x
      /\ \A i \in 1..Len(q) : r[i] = q[i]
  OBVIOUS
<1> HIDE DEF r
<1>2. x \in S => LastIs(r, S, x)
  BY <1>1 DEF LastIs
<1>3. x \notin S /\ Without(q, S) => Without(r, S)
  BY <1>1 DEF Without
<1>4. ASSUME NEW e, x \notin S, LastIs(q, S, e) PROVE LastIs(r, S, e)
  <2>1. PICK i \in 1..Len(q) : q[i] = e /\ \A j \in 1..Len(q) : j > i => q[j] \notin S
    BY <1>4 DEF LastIs
  <2>2. i \in 1..Len(r) /\ r[i] = e /\ \A j \in 1..Len(r) : j > i => r[j] \notin S
    BY <1>1, <1>4, <2>1
  <2> QED
    BY <2>2 DEF LastIs
<1> QED
  BY <1>2, <1>3, <1>4 DEF r

(* The same for an event that replaces the last one. *)
LEMMA Replaced ==
  ASSUME NEW E, NEW q \in Seq(E), q # <<>>, NEW x \in E, NEW S
  PROVE  /\ x \in S => LastIs([q EXCEPT ![Len(q)] = x], S, x)
         /\ x \notin S /\ Without(q, S) => Without([q EXCEPT ![Len(q)] = x], S)
         /\ \A e \in S : x \notin S /\ q[Len(q)] \notin S /\ LastIs(q, S, e)
              => LastIs([q EXCEPT ![Len(q)] = x], S, e)
<1> DEFINE r == [q EXCEPT ![Len(q)] = x]
<1>1. /\ Len(r) = Len(q) /\ Len(q) \in Nat \ {0} /\ r[Len(r)] = x
      /\ \A i \in 1..Len(q) : i # Len(q) => r[i] = q[i]
  OBVIOUS
<1> HIDE DEF r
<1>2. x \in S => LastIs(r, S, x)
  BY <1>1 DEF LastIs
<1>3. x \notin S /\ Without(q, S) => Without(r, S)
  BY <1>1 DEF Without
<1>4. ASSUME NEW e \in S, x \notin S, q[Len(q)] \notin S, LastIs(q, S, e) PROVE LastIs(r, S, e)
  <2>1. PICK i \in 1..Len(q) : q[i] = e /\ \A j \in 1..Len(q) : j > i => q[j] \notin S
    BY <1>4 DEF LastIs
  <2>2. i \in 1..Len(r) /\ r[i] = e /\ \A j \in 1..Len(r) : j > i => r[j] \notin S
    BY <1>1, <1>4, <2>1
  <2> QED
    BY <2>2 DEF LastIs
<1> QED
  BY <1>2, <1>3, <1>4 DEF r

(* Taking the first event away. *)
LEMMA Popped ==
  ASSUME NEW E, NEW q \in Seq(E), q # <<>>, NEW S
  PROVE  /\ Without(q, S) => Head(q) \notin S /\ Without(Tail(q), S)
         /\ \A e : LastIs(q, S, e) => LastIs(Tail(q), S, e) \/ (Head(q) = e /\ Without(Tail(q), S))
<1> DEFINE r == Tail(q)
<1>1. /\ Len(r) = Len(q) - 1 /\ Len(q) \in Nat \ {0} /\ Head(q) = q[1]
      /\ \A i \in 1..Len(r) : r[i] = q[i + 1]
  OBVIOUS
<1> HIDE DEF r
<1>2. Without(q, S) => Head(q) \notin S /\ Without(r, S)
  BY <1>1 DEF Without
<1>3. ASSUME NEW e, LastIs(q, S, e) PROVE LastIs(r, S, e) \/ (Head(q) = e /\ Without(r, S))
  <2>1. PICK i \in 1..Len(q) : q[i] = e /\ \A j \in 1..Len(q) : j > i => q[j] \notin S
    BY <1>3 DEF LastIs
  <2>2. CASE i = 1
    BY <1>1, <2>1, <2>2 DEF Without
  <2>3. CASE i # 1
    <3>1. i - 1 \in 1..Len(r) /\ r[i - 1] = e
      BY <1>1, <2>1, <2>3
    <3>2. \A j \in 1..Len(r) : j > i - 1 => r[j] \notin S
      BY <1>1, <2>1
    <3> QED
      BY <3>1, <3>2 DEF LastIs
  <2> QED
    BY <2>2, <2>3
<1> QED
  BY <1>2, <1>3 DEF r

(* A queue without events says nothing. *)
LEMMA Nothing == \A S, e : Without(<<>>, S) /\ ~LastIs(<<>>, S, e)
BY DEF Without, LastIs

------------------------------------------------------------------------------
(* What the events that are still queued will be applied to. *)
Base == IF draining THEN result ELSE cache

LinkEvents == {Up, Down}
LinkEvent == IF link THEN Up ELSE Down

(* The queue and what it will be applied to tell the state of the connection, *)
LinkInv == \/ Without(queue, LinkEvents) /\ Base.connected = link
           \/ LastIs(queue, LinkEvents, LinkEvent)

(* and the value of the server, once it was sent.                            *)
ValueInv == link /\ ~fresh => \/ Without(queue, AnyValues) /\ Base.value = remote
                              \/ LastIs(queue, AnyValues, remote)

(* Queued events are being processed, or will be. *)
ServedInv == queue # <<>> => due \/ draining

FollowInv == /\ reported = cache
             /\ ~thrown => LinkInv /\ ValueInv /\ ServedInv

(* A state of the connection is queued behind all others. *)
LEMMA LinkStep ==
  ASSUME TypeOK, FollowInv, Connect \/ Disconnect
  PROVE  FollowInv'
<1> USE DEF TypeOK, FollowInv, Connect, Disconnect, Push, clientVars
<1>1. LinkEvent' \in Events /\ LinkEvent' \in LinkEvents /\ queue' = Append(queue, LinkEvent')
  BY DEF LinkEvent, LinkEvents, Events
<1>2. LinkInv'
  BY <1>1, Appended DEF LinkInv
<1>3. ValueInv'
  BY DEF ValueInv
<1>4. ~thrown => ServedInv'
  BY DEF ServedInv
<1> QED
  BY <1>2, <1>3, <1>4

(* The value of the server is queued behind all others, or replaces the last. *)
LEMMA SendStep ==
  ASSUME TypeOK, FollowInv, Send
  PROVE  FollowInv'
<1> USE DEF TypeOK, FollowInv, Send, clientVars
<1>1. remote \in Events /\ remote \in AnyValues /\ remote \notin LinkEvents
      /\ AnyValues \cap LinkEvents = {}
  BY ClientAssumption DEF Events, LinkEvents, AnyValues
<1>2. LinkEvent \in LinkEvents /\ LinkEvent' = LinkEvent /\ Base' = Base
  BY DEF LinkEvent, LinkEvents, Base
<1>3. CASE Push(remote)
  <2>1. queue' = Append(queue, remote)
    BY <1>3 DEF Push
  <2>2. LastIs(queue', AnyValues, remote)
    BY <1>1, <2>1, Appended
  <2>3. /\ Without(queue, LinkEvents) => Without(queue', LinkEvents)
        /\ LastIs(queue, LinkEvents, LinkEvent) => LastIs(queue', LinkEvents, LinkEvent)
    BY <1>1, <2>1, Appended
  <2>4. ~thrown => LinkInv'
    BY <1>2, <2>3 DEF LinkInv
  <2>5. ~thrown => ServedInv'
    BY <1>3 DEF Push, ServedInv
  <2> QED
    BY <2>2, <2>4, <2>5 DEF ValueInv
<1>4. CASE queue # <<>> /\ queue[Len(queue)] \in AnyValues /\ due' = due
           /\ queue' = [queue EXCEPT ![Len(queue)] = remote]
  <2>2. LastIs(queue', AnyValues, remote)
    BY <1>1, <1>4, Replaced
  <2>3. /\ Without(queue, LinkEvents) => Without(queue', LinkEvents)
        /\ LastIs(queue, LinkEvents, LinkEvent) => LastIs(queue', LinkEvents, LinkEvent)
    BY <1>1, <1>2, <1>4, Replaced
  <2>4. ~thrown => LinkInv'
    BY <1>2, <2>3 DEF LinkInv
  <2>5. ~thrown => ServedInv'
    BY <1>4 DEF ServedInv
  <2> QED
    BY <2>2, <2>4, <2>5 DEF ValueInv
<1> QED
  BY <1>3, <1>4

(* An event that is popped is applied. *)
LEMMA PopStep ==
  ASSUME TypeOK, FollowInv, Pop
  PROVE  FollowInv'
<1> USE DEF TypeOK, FollowInv, Pop
<1>1. queue \in Seq(Events) /\ queue # <<>> /\ queue' = Tail(queue) /\ Head(queue) \in Events
  OBVIOUS
<1>2. Base = result /\ Base' = result' /\ LinkEvent' = LinkEvent
  BY DEF Base, LinkEvent
<1>3. ~thrown => LinkInv'
  <2> SUFFICES ASSUME LinkInv PROVE LinkInv'
    OBVIOUS
  <2>1. CASE Without(queue, LinkEvents) /\ Base.connected = link
    <3>1. Head(queue) \notin LinkEvents /\ Without(queue', LinkEvents)
      BY <1>1, <2>1, Popped
    <3>2. result'.connected = result.connected
      BY <3>1 DEF LinkEvents, Caches
    <3> QED
      BY <1>2, <2>1, <3>1, <3>2 DEF LinkInv
  <2>2. CASE LastIs(queue, LinkEvents, LinkEvent)
    <3>1. LastIs(queue', LinkEvents, LinkEvent)
          \/ (Head(queue) = LinkEvent /\ Without(queue', LinkEvents))
      BY <1>1, <2>2, Popped
    <3>2. Head(queue) = LinkEvent => result'.connected = link
      BY ClientAssumption DEF LinkEvent, Caches
    <3> QED
      BY <1>2, <3>1, <3>2 DEF LinkInv
  <2> QED
    BY <2>1, <2>2 DEF LinkInv
<1>4. ~thrown => ValueInv'
  <2> SUFFICES ASSUME ValueInv, link, ~fresh
      PROVE  \/ Without(queue', AnyValues) /\ result'.value = remote
             \/ LastIs(queue', AnyValues, remote)
    BY <1>2 DEF ValueInv
  <2>1. CASE Without(queue, AnyValues) /\ Base.value = remote
    <3>1. Head(queue) \notin AnyValues /\ Without(queue', AnyValues)
      BY <1>1, <2>1, Popped
    <3>2. result'.value = result.value
      BY <1>1, <3>1 DEF Events, Caches
    <3> QED
      BY <1>2, <2>1, <3>1, <3>2
  <2>2. CASE LastIs(queue, AnyValues, remote)
    <3>1. LastIs(queue', AnyValues, remote)
          \/ (Head(queue) = remote /\ Without(queue', AnyValues))
      BY <1>1, <2>2, Popped
    <3>2. Head(queue) = remote => result'.value = remote
      BY ClientAssumption DEF AnyValues, Caches
    <3> QED
      BY <3>1, <3>2
  <2> QED
    BY <2>1, <2>2 DEF ValueInv
<1>5. ServedInv'
  BY DEF ServedInv
<1> QED
  BY <1>3, <1>4, <1>5

(* FollowInv is inductive. *)
LEMMA FollowStep == TypeOK /\ FollowInv /\ [Next]_vars => FollowInv'
<1> SUFFICES ASSUME TypeOK, FollowInv, [Next]_vars PROVE FollowInv'
  OBVIOUS
<1> USE DEF FollowInv, LinkInv, ValueInv, ServedInv, Base, LinkEvent, clientVars, libraryVars
<1>1. CASE Connect \/ Disconnect
  BY <1>1, LinkStep
<1>2. CASE Change
  BY <1>2 DEF Change, TypeOK
<1>3. CASE Send
  BY <1>3, SendStep
<1>4. CASE BeginDrain
  BY <1>4 DEF BeginDrain
<1>5. CASE Pop
  BY <1>5, PopStep
<1>6. CASE Throw
  BY <1>6 DEF Throw
<1>7. CASE EndDrain
  BY <1>7 DEF EndDrain
<1>8. CASE Read
  BY <1>8 DEF Read
<1>9. CASE UNCHANGED vars
  BY <1>9 DEF vars
<1> QED
  BY <1>1, <1>2, <1>3, <1>4, <1>5, <1>6, <1>7, <1>8, <1>9 DEF Next, ProcessMonitor

(* CacheFollows: unless an incompatible value was thrown away, the cache is  *)
(* what the channel is once all events are processed, whatever batches they  *)
(* came in, and none stays behind.                                           *)
THEOREM CacheIsTheChannel == Spec => []CacheFollows
<1>1. Init => FollowInv
  <2> SUFFICES ASSUME Init PROVE FollowInv
    OBVIOUS
  <2>1. Without(queue, LinkEvents)
    BY Nothing DEF Init
  <2>2. Base = cache /\ Base.connected = link
    BY DEF Init, Base
  <2>3. LinkInv
    BY <2>1, <2>2 DEF LinkInv
  <2>4. ValueInv
    BY DEF Init, ValueInv
  <2>5. ServedInv
    BY DEF Init, ServedInv
  <2> QED
    BY <2>2, <2>3, <2>4, <2>5 DEF Init, FollowInv
<1>2. FollowInv => CacheFollows
  <2> SUFFICES ASSUME FollowInv, AtRest, ~thrown
      PROVE  queue = <<>> /\ reported = cache /\ cache.connected = link
             /\ (link => cache.value = remote)
    BY DEF CacheFollows
  <2>1. queue = <<>> /\ Base = cache
    BY DEF FollowInv, ServedInv, AtRest, Base
  <2>2. cache.connected = link
    BY <2>1, Nothing DEF FollowInv, LinkInv
  <2>3. link => cache.value = remote
    BY <2>1, Nothing DEF FollowInv, ValueInv, AtRest
  <2> QED
    BY <2>1, <2>2, <2>3 DEF FollowInv
<1> QED
  BY <1>1, <1>2, FollowStep, TypeCorrect, PTL DEF Spec
------------------------------------------------------------------------------
(* The wrapper.  What a put that is answered says depends on the order of the *)
(* puts: the one a thread waits for is the last, behind those it has given up *)
(* (PutInv).  What GetValue returns depends on values that are never taken    *)
(* back (HasValue).                                                          *)


(* The types of the variables that PvAccessClientPV does not have. *)
CallTypes == /\ phase \in {"idle", "valid", "set", "copied", "waiting"}
             /\ wanted \in AnyValues \cup {Scalar}
             /\ puts \in Seq(AnyValues)

(* The put that is waited for is the last one; answered with "done" it was    *)
(* the last to be executed, and none is left.  Its value has the type of the  *)
(* copy.                                                                      *)
PutInv == /\ phase \in {"set", "copied"} => reply = "none"
          /\ phase = "waiting" => wanted # Scalar /\ Converts(wanted, copy)
          /\ Waiting => puts # <<>> /\ puts[Len(puts)] = wanted
          /\ phase = "waiting" /\ reply = "done" => puts = <<>> /\ executed = wanted
          /\ answer = "true" => phase = "idle" /\ puts = <<>> /\ executed = wanted

(* A value that the cache has is not lost, neither by ProcessMonitor's copy. *)
HasValue == /\ cache.value # Empty /\ draining => result.value # Empty
            /\ phase = "valid" => cache.value # Empty
            /\ got.connected => got.value # Empty

CallInv == TypeOK /\ CallTypes /\ PutInv /\ HasValue

(* A sequence of puts: what is pushed is the last.                            *)
LEMMA PushedPut ==
  ASSUME NEW E, NEW q \in Seq(E), NEW x \in E
  PROVE  /\ Append(q, x) \in Seq(E) /\ Append(q, x) # <<>>
         /\ Append(q, x)[Len(Append(q, x))] = x
  OBVIOUS

(* Popping leaves the last one in its place.                                  *)
LEMMA PoppedPut ==
  ASSUME NEW E, NEW q \in Seq(E), q # <<>>
  PROVE  /\ Tail(q) \in Seq(E) /\ Front(q) \in Seq(E) /\ <<Last(q)>> \in Seq(E)
         /\ Head(q) \in E /\ Last(q) = q[Len(q)]
         /\ Len(q) = 1 => Head(q) = q[Len(q)] /\ Tail(q) = <<>>
         /\ Len(q) # 1 => Tail(q) # <<>> /\ Tail(q)[Len(Tail(q))] = q[Len(q)]
<1>1. /\ Len(q) \in Nat /\ Len(q) # 0
      /\ Head(q) = q[1] /\ Head(q) \in E /\ q[Len(q)] \in E
  OBVIOUS
<1>2. /\ Tail(q) \in Seq(E) /\ Len(Tail(q)) = Len(q) - 1
      /\ \A i \in 1..Len(q) - 1 : Tail(q)[i] = q[i + 1]
  OBVIOUS
<1>3. Last(q) = q[Len(q)] /\ <<Last(q)>> \in Seq(E)
  BY <1>1 DEF Last
<1>4. Front(q) \in Seq(E)
  BY DEF Front
<1>5. \A r \in Seq(E) : (r = <<>>) <=> (Len(r) = 0)
  BY EmptySeq
<1>6. ASSUME Len(q) = 1 PROVE Head(q) = q[Len(q)] /\ Tail(q) = <<>>
  <2>1. Len(Tail(q)) = 0 /\ Tail(q) \in Seq(E)
    BY <1>1, <1>2, <1>6
  <2>2. Tail(q) = <<>>
    BY <1>5, <2>1
  <2>3. Head(q) = q[Len(q)]
    BY <1>1, <1>6
  <2> QED
    BY <2>2, <2>3
<1>7. ASSUME Len(q) # 1 PROVE Tail(q) # <<>> /\ Tail(q)[Len(Tail(q))] = q[Len(q)]
  <2>1. Len(Tail(q)) \in 1..Len(q) - 1 /\ Len(Tail(q)) + 1 = Len(q) /\ Len(Tail(q)) # 0
    BY <1>1, <1>2, <1>7
  <2>2. Tail(q) # <<>>
    BY <1>2, <1>5, <2>1
  <2> QED
    BY <1>2, <2>1, <2>2
<1> QED
  BY <1>1, <1>2, <1>3, <1>4, <1>6, <1>7

------------------------------------------------------------------------------
(* The variables of PvAccessClientPV keep their types, also when the server    *)
(* executes a put.                                                           *)
LEMMA BaseTypeStep == TypeOK /\ CallTypes /\ [WrapperNext]_wrapperVars => TypeOK'
<1> SUFFICES ASSUME TypeOK, CallTypes, [WrapperNext]_wrapperVars PROVE TypeOK'
  OBVIOUS
<1>1. CASE Execute
  <2>1. Head(puts) \in AnyValues
    BY <1>1, PoppedPut DEF Execute, CallTypes
  <2> QED
    BY <1>1, <2>1 DEF Execute, TypeOK, clientVars
<1>2. CASE LoseLink
  BY <1>2, TypeStep DEF LoseLink, Next
<1>3. CASE Follow
  BY <1>3, TypeStep DEF Follow, Next
<1>4. CASE UNCHANGED vars
  BY <1>4, TypeStep
<1> QED
  BY <1>1, <1>2, <1>3, <1>4 DEF WrapperNext, GetValue, SetValue, WaitForValidValue, ReadValid,
     WaitForConnected, CopyCache, RejectScalar, RejectType, StartPut, Answered, PutTimeout,
     wrapperVars

(* The other variables keep their types. *)
LEMMA CallTypeStep == CallTypes /\ PutInv /\ [WrapperNext]_wrapperVars => CallTypes'
<1> SUFFICES ASSUME CallTypes, PutInv, [WrapperNext]_wrapperVars PROVE CallTypes'
  OBVIOUS
<1> USE DEF CallTypes, callVars, putVars
<1>1. CASE Follow /\ UNCHANGED <<callVars, putVars>>
  BY <1>1
<1>2. CASE GetValue
  BY <1>2 DEF GetValue, WaitForValidValue, ReadValid, Begin
<1>3. ASSUME NEW v \in AnyValues \cup {Scalar}, WaitForConnected(v) PROVE CallTypes'
  BY <1>3 DEF WaitForConnected, End
<1>4. CASE CopyCache \/ RejectScalar \/ RejectType \/ Answered
  BY <1>4 DEF CopyCache, RejectScalar, RejectType, Answered, End
<1>5. CASE StartPut
  <2>1. wanted \in AnyValues /\ puts' \in Seq(AnyValues)
    BY <1>5, PushedPut DEF StartPut
  <2> QED
    BY <1>5, <2>1 DEF StartPut
<1>6. CASE PutTimeout
  <2>1. CASE puts = <<>>
    BY <1>6, <2>1 DEF PutTimeout, PutInv, Waiting, End
  <2>2. CASE puts # <<>>
    BY <1>6, <2>2, PoppedPut DEF PutTimeout, End
  <2> QED
    BY <2>1, <2>2
<1>7. CASE Execute
  <2>1. puts' \in Seq(AnyValues)
    BY <1>7, PoppedPut DEF Execute
  <2> QED
    BY <1>7, <2>1 DEF Execute
<1>8. CASE LoseLink
  <2>1. CASE puts = <<>>
    BY <1>8, <2>1 DEF LoseLink, PutInv, Waiting
  <2>2. CASE puts # <<>>
    <3>1. <<Last(puts)>> \in Seq(AnyValues) /\ <<>> \in Seq(AnyValues)
      BY <2>2, PoppedPut
    <3>2. puts' = <<Last(puts)>> \/ puts' = <<>>
      BY <1>8 DEF LoseLink
    <3>3. UNCHANGED <<phase, wanted>>
      BY <1>8 DEF LoseLink
    <3> QED
      BY <3>1, <3>2, <3>3
  <2> QED
    BY <2>1, <2>2
<1>9. CASE UNCHANGED wrapperVars
  BY <1>9 DEF wrapperVars
<1> QED
  BY <1>1, <1>2, <1>3, <1>4, <1>5, <1>6, <1>7, <1>8, <1>9 DEF WrapperNext, SetValue

(* The put that is waited for stays the last one. *)
LEMMA PutStep == CallTypes /\ PutInv /\ [WrapperNext]_wrapperVars => PutInv'
<1> SUFFICES ASSUME CallTypes, PutInv, [WrapperNext]_wrapperVars PROVE PutInv'
  OBVIOUS
<1> USE DEF PutInv, callVars, putVars, Waiting
<1>1. CASE Follow /\ UNCHANGED <<callVars, putVars>>
  BY <1>1 DEF Converts
<1>2. CASE GetValue
  BY <1>2 DEF GetValue, WaitForValidValue, ReadValid, Begin
<1>3. ASSUME NEW v \in AnyValues \cup {Scalar}, WaitForConnected(v) PROVE PutInv'
  BY <1>3 DEF WaitForConnected, End
<1>4. CASE CopyCache \/ RejectScalar \/ RejectType \/ Answered
  BY <1>4 DEF CopyCache, RejectScalar, RejectType, Answered, End
<1>5. CASE StartPut
  <2>1. puts' # <<>> /\ puts'[Len(puts')] = wanted
    BY <1>5, PushedPut DEF StartPut, CallTypes
  <2> QED
    BY <1>5, <2>1 DEF StartPut, Converts
<1>6. CASE PutTimeout
  BY <1>6 DEF PutTimeout, End
<1>7. CASE Execute
  <2>1. puts # <<>> /\ puts' = Tail(puts) /\ UNCHANGED <<phase, wanted, copy, answer>>
    BY <1>7 DEF Execute
  <2>2. answer # "true" /\ ~(phase = "waiting" /\ reply = "done")
    BY <2>1
  <2>3. CASE Waiting /\ Len(puts) = 1
    <3>1. Head(puts) = wanted /\ Tail(puts) = <<>>
      BY <2>1, <2>3, PoppedPut DEF CallTypes
    <3>2. reply' = "done" => executed' = wanted
      BY <1>7, <2>3, <3>1 DEF Execute
    <3>3. reply' # "none"
      BY <1>7, <2>3 DEF Execute
    <3> QED
      BY <2>1, <2>2, <2>3, <3>1, <3>2, <3>3 DEF Converts
  <2>4. CASE ~(Waiting /\ Len(puts) = 1)
    <3>1. reply' = reply
      BY <1>7, <2>4 DEF Execute
    <3>2. Waiting => Tail(puts) # <<>> /\ Tail(puts)[Len(Tail(puts))] = wanted
      BY <2>1, <2>4, PoppedPut DEF CallTypes
    <3> QED
      BY <2>1, <2>2, <3>1, <3>2 DEF Converts
  <2> QED
    BY <2>3, <2>4
<1>8. CASE LoseLink
  <2>1. UNCHANGED <<executed, callVars>>
    BY <1>8 DEF LoseLink
  <2>2. CASE Waiting /\ puts' = <<Last(puts)>> /\ UNCHANGED reply
    <3>1. puts' # <<>> /\ puts'[Len(puts')] = wanted
      BY <2>2, PoppedPut DEF CallTypes
    <3> QED
      BY <2>1, <2>2, <3>1 DEF Converts
  <2>3. CASE /\ puts' = <<>>
             /\ reply' \in IF Waiting THEN {"lost"}
                           ELSE IF phase = "waiting" THEN {reply, "lost"} ELSE {reply}
    BY <2>1, <2>3 DEF Converts
  <2> QED
    BY <1>8, <2>2, <2>3 DEF LoseLink
<1>9. CASE UNCHANGED wrapperVars
  BY <1>9 DEF wrapperVars, Converts
<1> QED
  BY <1>1, <1>2, <1>3, <1>4, <1>5, <1>6, <1>7, <1>8, <1>9 DEF WrapperNext, SetValue

(* A value is replaced by a value only. *)
LEMMA HasValueStep == TypeOK /\ HasValue /\ [WrapperNext]_wrapperVars => HasValue'
<1> SUFFICES ASSUME TypeOK, HasValue, [WrapperNext]_wrapperVars PROVE HasValue'
  OBVIOUS
<1> USE ClientAssumption DEF HasValue, vars, clientVars, libraryVars, callVars, putVars, wrapperVars
<1>1. CASE (Connect \/ Disconnect \/ Change \/ Send) /\ UNCHANGED callVars
  BY <1>1 DEF Connect, Disconnect, Change, Send
<1>2. CASE Pop /\ UNCHANGED callVars
  <2>1. Head(queue) \in Events
    BY <1>2 DEF Pop, TypeOK
  <2>2. result \in Caches
    BY DEF TypeOK
  <2>3. result.value # Empty => result'.value # Empty
    BY <1>2, <2>1, <2>2 DEF Pop, Events, AnyValues, Caches
  <2> QED
    BY <1>2, <2>3 DEF Pop
<1>3. CASE (BeginDrain \/ Throw \/ EndDrain) /\ UNCHANGED callVars
  BY <1>3 DEF BeginDrain, Throw, EndDrain
<1>4. CASE GetValue
  BY <1>4 DEF GetValue, WaitForValidValue, ReadValid, Begin, IsValid, NotValid
<1>5. ASSUME NEW v \in AnyValues \cup {Scalar}, WaitForConnected(v) PROVE HasValue'
  BY <1>5 DEF WaitForConnected, End, NotValid
<1>6. CASE CopyCache \/ RejectScalar \/ RejectType \/ StartPut \/ Answered \/ PutTimeout
  BY <1>6 DEF CopyCache, RejectScalar, RejectType, StartPut, Answered, PutTimeout, End
<1>7. CASE Execute
  BY <1>7 DEF Execute
<1>8. CASE UNCHANGED wrapperVars
  BY <1>8
<1> QED
  BY <1>1, <1>2, <1>3, <1>4, <1>5, <1>6, <1>7, <1>8
     DEF WrapperNext, Follow, ProcessMonitor, SetValue, LoseLink

(* No put is under way at first. *)
LEMMA CallsInitially == WrapperInit => CallInv
<1> SUFFICES ASSUME WrapperInit PROVE CallInv
  OBVIOUS
<1> USE DEF WrapperInit
<1>1. TypeOK
  <2>1. cache \in Caches /\ <<>> \in Seq(Events)
    BY DEF Init, Caches
  <2> QED
    BY <2>1 DEF Init, TypeOK, AnyValues
<1>2. CallTypes
  BY DEF CallTypes
<1>3. PutInv
  BY DEF PutInv, Waiting
<1>4. HasValue
  BY DEF HasValue, NotValid, Init
<1> QED
  BY <1>1, <1>2, <1>3, <1>4 DEF CallInv

------------------------------------------------------------------------------
(* The inductive invariant. *)
THEOREM CallsInductive == WrapperSpec => []CallInv
<1>1. CallInv /\ [WrapperNext]_wrapperVars => CallInv'
  BY BaseTypeStep, CallTypeStep, PutStep, HasValueStep DEF CallInv
<1> QED
  BY <1>1, CallsInitially, PTL DEF WrapperSpec

(* SetValue returns true only when the server has executed its put. *)
THEOREM TrueIsTrue == WrapperSpec => []TrueMeansPut
<1>1. CallInv => TrueMeansPut
  BY DEF CallInv, PutInv, TrueMeansPut
<1> QED
  BY <1>1, CallsInductive, PTL

(* GetValue returns no empty value as connected. *)
THEOREM ReadIsValid == WrapperSpec => []ConnectedHasValue
<1>1. CallInv => ConnectedHasValue
  BY DEF CallInv, HasValue, ConnectedHasValue
<1> QED
  BY <1>1, CallsInductive, PTL

(* Only a put that was built on an outdated type is refused. *)
THEOREM RefusalIsStale == WrapperSpec => RefusedOnlyStale
<1> DEFINE Stale == reply # "refused" /\ reply' = "refused" => copy = Empty \/ ~SameType(copy, remote)
<1>1. CallInv /\ [WrapperNext]_wrapperVars => [Stale]_wrapperVars
  <2> SUFFICES ASSUME CallInv, WrapperNext, reply # "refused", reply' = "refused"
               PROVE  copy = Empty \/ ~SameType(copy, remote)
    OBVIOUS
  <2>1. CASE Execute
    <3>1. puts # <<>> /\ Waiting /\ Len(puts) = 1 /\ ~SameType(Head(puts), remote)
      BY <2>1 DEF Execute
    <3>2. Head(puts) = wanted /\ Converts(wanted, copy)
      BY <3>1, PoppedPut DEF CallInv, PutInv, CallTypes, Waiting
    <3> QED
      BY <3>1, <3>2 DEF Converts, SameType
  <2>2. CASE LoseLink
    BY <2>2 DEF LoseLink
  <2> QED
    BY <2>1, <2>2 DEF WrapperNext, GetValue, SetValue, WaitForValidValue, ReadValid,
       WaitForConnected, CopyCache, RejectScalar, RejectType, StartPut, Answered, PutTimeout,
       Begin, putVars
<1> QED
  BY <1>1, CallsInductive, PTL DEF WrapperSpec, RefusedOnlyStale

------------------------------------------------------------------------------
(* A put that the server executes is a change of its variable, which was      *)
(* maybe set to the value it had.                                            *)
LEMMA PutIsAChange == CallInv /\ Execute => [Change]_vars
<1> SUFFICES ASSUME CallInv, Execute PROVE [Change]_vars
  OBVIOUS
<1>1. Head(puts) \in AnyValues
  BY PoppedPut DEF Execute, CallInv, CallTypes
<1>2. CASE SameType(Head(puts), remote)
  BY <1>1, <1>2 DEF Execute, Change
<1>3. CASE ~SameType(Head(puts), remote)
  BY <1>3 DEF Execute, vars, libraryVars
<1> QED
  BY <1>2, <1>3

(* Every step with the calls of the wrapper is one of the variable, or none.  *)
LEMMA CallStepIsAStep == CallInv /\ [WrapperNext]_wrapperVars => [Next]_vars
<1> SUFFICES ASSUME CallInv, [WrapperNext]_wrapperVars PROVE [Next]_vars
  OBVIOUS
<1>1. CASE Execute
  BY <1>1, PutIsAChange DEF Next
<1>2. CASE LoseLink
  BY <1>2 DEF LoseLink, Next
<1>3. CASE Follow
  BY <1>3 DEF Follow, Next
<1>4. CASE GetValue
  BY <1>4 DEF GetValue, WaitForValidValue, ReadValid
<1>5. CASE SetValue
  BY <1>5 DEF SetValue, WaitForConnected, CopyCache, RejectScalar, RejectType, StartPut,
     Answered, PutTimeout
<1>6. CASE UNCHANGED wrapperVars
  BY <1>6 DEF wrapperVars
<1> QED
  BY <1>1, <1>2, <1>3, <1>4, <1>5, <1>6 DEF WrapperNext

(* The calls of the wrapper and the puts that the server executes, in time,   *)
(* late or after they were given up, implement the specification of the      *)
(* variable.                                                                 *)
THEOREM CallsImplement == WrapperSpec => Spec
<1>1. WrapperInit => Init
  BY DEF WrapperInit
<1> QED
  BY <1>1, CallStepIsAStep, CallsInductive, PTL DEF WrapperSpec, Spec

(* CacheFollows with puts under way: also what the wrapper has put comes back *)
(* into the cache only by the subscription.                                  *)
THEOREM CacheIsTheChannelWithPuts == WrapperSpec => []CacheFollows
BY CallsImplement, CacheIsTheChannel, PTL
==============================================================================
