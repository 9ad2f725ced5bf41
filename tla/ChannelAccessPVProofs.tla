------------------------- MODULE ChannelAccessPVProofs -------------------------
(***************************************************************************)
(* Proofs about a Channel Access variable: first ChannelAccessPV and         *)
(* ChannelAccessPVWrapper, for any set of values and, where nothing else is   *)
(* said, any number of waiters; then CAConversion, which has variables of its *)
(* own, for any types, numbers and texts.                                    *)
(***************************************************************************)
EXTENDS ChannelAccessPVWrapper, CAConversion, TLAPS, SequenceTheorems

(* TypeOK is inductive. *)
LEMMA TypeStep == TypeOK /\ [Next]_vars => TypeOK'
<1> SUFFICES ASSUME TypeOK, [Next]_vars PROVE TypeOK'
  OBVIOUS
<1> USE DEF TypeOK, Caches, eventVars, waitVars
<1>1. CASE LibraryEvent
  BY <1>1 DEF LibraryEvent, OnConnectionChanged, OnMonitorCalled
<1>2. CASE CallUser
  BY <1>2 DEF CallUser
<1>3. CASE NotifyOne
  BY <1>3 DEF NotifyOne, Sleeping
<1>4. CASE Read
  BY <1>4 DEF Read
<1>5. ASSUME NEW w \in Waiters, Wait(w) PROVE TypeOK'
  <2>1. ASSUME NEW k \in {"connected", "valid"}, StartWait(w, k) PROVE TypeOK'
    BY <2>1 DEF StartWait
  <2>2. CASE Evaluate(w)
    BY <2>2 DEF Evaluate, Return, Sleep
  <2>3. CASE SpuriousWakeup(w) \/ Expire(w)
    BY <2>3 DEF SpuriousWakeup, Expire
  <2>4. CASE LastLook(w)
    BY <2>4 DEF LastLook, Return
  <2> QED
    BY <1>5, <2>1, <2>2, <2>3, <2>4 DEF Wait
<1>6. CASE UNCHANGED vars
  BY <1>6 DEF vars
<1> QED
  BY <1>1, <1>2, <1>3, <1>4, <1>5, <1>6 DEF Next

(* Every variable always has its type. *)
THEOREM TypeCorrect == Spec => []TypeOK
<1>1. Init => TypeOK
  <2> SUFFICES ASSUME Init PROVE TypeOK
    OBVIOUS
  <2>1. cache \in Caches
    BY DEF Init, Caches
  <2> QED
    BY <2>1 DEF Init, TypeOK
<1> QED
  BY <1>1, TypeStep, PTL DEF Spec

------------------------------------------------------------------------------
(* Whenever the mutex is free the callback has been told all of the cache. *)
CallbackKnows == MutexFree => reported = cache

(* The callback is called in the critical section that changes the cache. *)
LEMMA CallbackKnowsStep == CallbackKnows /\ [Next]_vars => CallbackKnows'
<1> USE DEF CallbackKnows, MutexFree, eventVars, waitVars
<1> SUFFICES ASSUME CallbackKnows, [Next]_vars PROVE CallbackKnows'
  OBVIOUS
<1>1. CASE LibraryEvent
  BY <1>1 DEF LibraryEvent, OnConnectionChanged, OnMonitorCalled
<1>2. CASE CallUser \/ NotifyOne \/ Read
  BY <1>2 DEF CallUser, NotifyOne, Read
<1>3. ASSUME NEW w \in Waiters, Wait(w) PROVE CallbackKnows'
  BY <1>3 DEF Wait, StartWait, Evaluate, SpuriousWakeup, Expire, LastLook
<1>4. CASE UNCHANGED vars
  BY <1>4 DEF vars
<1> QED
  BY <1>1, <1>2, <1>3, <1>4 DEF Next

(* ReadsWereReported: no thread reads a value before the user's callback was *)
(* called with it.                                                           *)
THEOREM CallbackBeforeReaders == Spec => ReadsWereReported
<1>1. Init => CallbackKnows
  BY DEF Init, CallbackKnows
<1>2. CallbackKnows /\ [Next]_vars => [seen' # seen => seen' = reported]_vars
  <2> SUFFICES ASSUME CallbackKnows, Next, seen' # seen PROVE seen' = reported
    BY DEF vars
  <2>1. Read
    BY DEF Next, LibraryEvent, CallUser, NotifyOne, Wait, StartWait, Evaluate,
           SpuriousWakeup, Expire, LastLook
  <2> QED
    BY <2>1 DEF Read, CallbackKnows
<1> QED
  BY <1>1, <1>2, CallbackKnowsStep, PTL DEF Spec, ReadsWereReported

------------------------------------------------------------------------------
(* A sleeper whose condition holds is about to be notified. *)
WakeupDue == \A w \in Waiters : pc[w] = "asleep" /\ Ready(w) => library # "idle"

(* WakeupDue is inductive when only one thread waits: the one notification   *)
(* of each event cannot go to somebody else.                                 *)
LEMMA WakeupDueStep ==
  ASSUME NEW w, Waiters = {w}, TypeOK, WakeupDue, [Next]_vars
  PROVE  WakeupDue'
<1> SUFFICES ASSUME pc'[w] = "asleep", Ready(w)' PROVE library' # "idle"
  BY DEF WakeupDue
<1> USE DEF TypeOK, WakeupDue, Ready, eventVars, waitVars
<1>1. CASE LibraryEvent
  BY <1>1 DEF LibraryEvent, OnConnectionChanged, OnMonitorCalled
<1>2. CASE CallUser \/ Read
  BY <1>2 DEF CallUser, Read
<1>3. CASE NotifyOne
  BY <1>3 DEF NotifyOne, Sleeping
<1>4. CASE Wait(w)
  <2>1. CASE \E k \in {"connected", "valid"} : StartWait(w, k)
    BY <2>1 DEF StartWait
  <2>2. CASE Evaluate(w)
    BY <2>2 DEF Evaluate, Return, Sleep
  <2>3. CASE SpuriousWakeup(w) \/ Expire(w) \/ LastLook(w)
    BY <2>3 DEF SpuriousWakeup, Expire, LastLook, Return
  <2> QED
    BY <1>4, <2>1, <2>2, <2>3 DEF Wait
<1>5. CASE UNCHANGED vars
  BY <1>5 DEF vars
<1> QED
  BY <1>1, <1>2, <1>3, <1>4, <1>5 DEF Next

(* NobodyForgotten: a thread that waits alone is never left asleep when what *)
(* it waits for is there.                                                    *)
THEOREM LoneWaiterIsWoken ==
  ASSUME NEW w, Waiters = {w}
  PROVE  Spec => []NobodyForgotten
<1>1. Init => WakeupDue
  BY DEF Init, WakeupDue
<1>2. TypeOK /\ WakeupDue /\ [Next]_vars => WakeupDue'
  BY WakeupDueStep
<1>3. WakeupDue => NobodyForgotten
  BY DEF WakeupDue, NobodyForgotten, Forgotten
<1> QED
  BY <1>1, <1>2, <1>3, TypeCorrect, PTL DEF Spec
------------------------------------------------------------------------------
(* The wrapper changes nothing in the behaviour of the variable below: what   *)
(* is proved of Spec holds for it.                                           *)
THEOREM WrapperImplements == WrapperSpec => Spec
<1>1. WrapperInit => Init
  BY DEF WrapperInit
<1>2. [WrapperNext]_wrapperVars => [Next]_vars
  <2> SUFFICES ASSUME WrapperNext PROVE Next \/ UNCHANGED vars
    BY DEF wrapperVars
  <2>1. CASE InnerStep
    BY <2>1 DEF InnerStep, Next, Wait
  <2>2. CASE OnUpdate \/ EndUpdate
    BY <2>2 DEF OnUpdate, EndUpdate, Next
  <2>3. CASE \E f \in Callbacks \cup {NoCallback} : SetMonitorCallback(f)
    BY <2>3 DEF SetMonitorCallback
  <2>4. ASSUME NEW w \in Waiters, UserThread(w) PROVE Next \/ UNCHANGED vars
    <3>1. CASE \E call \in {"available", "get", "set"} : Begin(w, call)
      BY <3>1 DEF Begin, Next, Wait
    <3>2. CASE IsAvailable(w) \/ GetValue(w) \/ SetValue(w)
      BY <3>2 DEF IsAvailable, GetValue, SetValue, Next
    <3> QED
      BY <2>4, <3>1, <3>2 DEF UserThread
  <2> QED
    BY <2>1, <2>2, <2>3, <2>4 DEF WrapperNext
<1> QED
  BY <1>1, <1>2, PTL DEF WrapperSpec, Spec

(* A callback runs while the library reports, after it was told the cache; a  *)
(* callback that is not there was told nothing.                              *)
CallbackInv == /\ calling # NoCallback => library = "reporting" /\ told = {cache}
               /\ callback = NoCallback => told = {}
               /\ OldCallbackIsOver
               /\ CallbackUpToDate

(* The two mutexes keep the callback and what it was told together. *)
LEMMA CallbackStep == CallbackInv /\ [WrapperNext]_wrapperVars => CallbackInv'
<1> SUFFICES ASSUME CallbackInv, [WrapperNext]_wrapperVars PROVE CallbackInv'
  OBVIOUS
<1> USE DEF CallbackInv, OldCallbackIsOver, CallbackUpToDate, CallbackMutexFree,
            vars, eventVars, waitVars, callbackVars
<1>1. CASE LibraryEvent /\ UNCHANGED callbackVars
  BY <1>1 DEF LibraryEvent, OnConnectionChanged, OnMonitorCalled
<1>2. CASE NotifyOne /\ UNCHANGED callbackVars
  BY <1>2 DEF NotifyOne
<1>3. ASSUME NEW w \in Waiters, Evaluate(w) \/ SpuriousWakeup(w) \/ Expire(w) \/ LastLook(w),
             UNCHANGED callbackVars
      PROVE CallbackInv'
  BY <1>3 DEF Evaluate, SpuriousWakeup, Expire, LastLook
<1>4. CASE OnUpdate
  BY <1>4 DEF OnUpdate
<1>5. CASE EndUpdate
  BY <1>5 DEF EndUpdate, CallUser
<1>6. ASSUME NEW f \in Callbacks \cup {NoCallback}, SetMonitorCallback(f) PROVE CallbackInv'
  BY <1>6 DEF SetMonitorCallback
<1>7. ASSUME NEW w \in Waiters, UserThread(w) PROVE CallbackInv'
  BY <1>7 DEF UserThread, Begin, StartWait, IsAvailable, GetValue, SetValue, Finish, Read
<1>8. CASE UNCHANGED wrapperVars
  BY <1>8 DEF wrapperVars
<1> QED
  BY <1>1, <1>2, <1>3, <1>4, <1>5, <1>6, <1>7, <1>8 DEF WrapperNext, InnerStep

(* CallbackInv, for any callbacks. *)
LEMMA CallbackInductive == WrapperSpec => []CallbackInv
<1>1. WrapperInit => CallbackInv
  BY DEF WrapperInit, CallbackInv, OldCallbackIsOver, CallbackUpToDate
<1> QED
  BY <1>1, CallbackStep, PTL DEF WrapperSpec

(* A callback that SetMonitorCallback has replaced is over. *)
THEOREM ReplacedCallbackIsOver == WrapperSpec => []OldCallbackIsOver
<1>1. CallbackInv => OldCallbackIsOver
  BY DEF CallbackInv
<1> QED
  BY <1>1, CallbackInductive, PTL

(* The user's callback was told what the cache is. *)
THEOREM CallbackIsUpToDate == WrapperSpec => []CallbackUpToDate
<1>1. CallbackInv => CallbackUpToDate
  BY DEF CallbackInv
<1> QED
  BY <1>1, CallbackInductive, PTL

------------------------------------------------------------------------------
(* CAConversion. *)

(* What users give, and what a record may hold, are elements. *)
AnyElements == [kind : {"number", "decimal"}, of : Int]
          \cup [kind : {"word", "long", "list"}, of : Int \cup Words \cup {""}]
Held == {e \in AnyElements : e.kind # "long"}

ConversionTypes == /\ type \in Types
                   /\ open \in BOOLEAN
                   /\ native \in {"number", "text"}
                   /\ record \in Seq(Held)
                   /\ mine \in Seq(AnyElements)
                   /\ fresh \in BOOLEAN
                   /\ open => ChannelType(type) # "none"

(* What is put for one element of a value, and what is parsed of one that comes. *)
Encoded(e) == IF ChannelType(type) = "STRING" THEN GetStringUpdateBuffer(e)
              ELSE IF ChannelType(type) = "CHAR" THEN Number(e.of % 256) ELSE e

Parsed(w) == IF ChannelType(type) = "STRING" THEN ParseFromStringType(w)
             ELSE IF ChannelType(type) = "ENUM" THEN ParseFromUnsignedType(w)
             ELSE IF type.code = "Bool" THEN ParseBoolean(w)
             ELSE FromBytes(w)

(* An element that was converted, did not get refused and could be stored. *)
Accepted(e) == /\ Convertible(type.code, e)
               /\ type.code = "Bool" => 0 <= e.of /\ e.of <= 1
               /\ ChannelType(type) = "ENUM" => Fits("UInt16", e.of)
               /\ Storable(Encoded(e))

(* The record still holds what this client put. *)
MineInv == mine # <<>> =>
             /\ ChannelType(type) # "none"
             /\ Len(mine) = type.size
             /\ Len(record) = type.size
             /\ \A i \in 1..type.size : Accepted(mine[i]) /\ record[i] = Stored(Encoded(mine[i]))


------------------------------------------------------------------------------
(* n is between two numbers.                                                 *)
Between(a, n, b) == n \in Int /\ a <= n /\ n <= b

(* The signed value of the low bits of a number that has a sign is the number. *)
LEMMA LowBits ==
  ASSUME NEW n \in Int
  PROVE  /\ Between(0, n % 256, 255)
         /\ (n % 256) % 256 = n % 256
         /\ Between(-128, Wrapped(n, 128), 127)
         /\ Between(0, n % 65536, 65535)
         /\ Between(-32768, Wrapped(n, 32768), 32767)
         /\ Between(-128, n, 127) => Wrapped(n % 256, 128) = n
         /\ Between(-32768, n, 32767) => Wrapped(n, 32768) = n
         /\ Between(0, n, 255) => n % 256 = n
         /\ Between(0, n, 65535) => n % 65536 = n
<1> USE DEF Between
<1>1. Between(0, n % 256, 255) /\ Between(0, n % 65536, 65535)
  BY Z3
<1>2. (n % 256) % 256 = n % 256
  BY Z3
<1>3. Wrapped(n, 128) = ((n + 128) % 256) - 128 /\ Wrapped(n, 32768) = ((n + 32768) % 65536) - 32768
  BY Z3 DEF Wrapped
<1>4. Between(0, (n + 128) % 256, 255) /\ Between(0, (n + 32768) % 65536, 65535)
  BY Z3
<1>5. Between(-128, Wrapped(n, 128), 127) /\ Between(-32768, Wrapped(n, 32768), 32767)
  BY <1>3, <1>4, Z3
<1>6. ASSUME Between(-128, n, 127) PROVE Wrapped(n % 256, 128) = n
  <2>1. ((n % 256) + 128) % 256 = n + 128
    BY <1>6, Z3
  <2> QED
    BY <2>1, Z3 DEF Wrapped
<1>7. ASSUME Between(-32768, n, 32767) PROVE Wrapped(n, 32768) = n
  BY <1>3, <1>7, Z3
<1>8. (Between(0, n, 255) => n % 256 = n) /\ (Between(0, n, 65535) => n % 65536 = n)
  BY Z3
<1> HIDE DEF Between
<1> QED
  BY <1>1, <1>2, <1>5, <1>6, <1>7, <1>8

(* The two tables, by what they make of each type. *)
LEMMA ChannelTypes ==
  ASSUME NEW t \in Types
  PROVE  /\ t.code \in Codes /\ t.array \in BOOLEAN /\ t.size \in Nat \ {0} /\ (~t.array => t.size = 1)
         /\ ChannelType(t) = "STRING" => t.code \in {"String", "Int64", "UInt32", "UInt64"}
         /\ ChannelType(t) = "ENUM" => t.code \in {"UInt8", "UInt16", "UInt32", "UInt64"}
         /\ ChannelType(t) = "CHAR" <=> t.code \in {"Bool", "Char8", "Int8"}
         /\ ChannelType(t) = "SHORT" <=> t.code = "Int16"
         /\ ChannelType(t) \in {"LONG", "FLOAT", "DOUBLE"} => t.code \in {"Int32", "Float32", "Float64"}
         /\ t.code = "String" => ChannelType(t) = "STRING"
         /\ ChannelType(t) \in {"none", "STRING", "ENUM", "CHAR", "SHORT", "LONG", "FLOAT", "DOUBLE"}
<1>1. /\ t.code \in Codes /\ t.array \in BOOLEAN /\ t.size \in Nat \ {0} /\ (~t.array => t.size = 1)
  BY ConversionAssumption
<1> QED
  BY <1>1 DEF ChannelType, ArrayTypeCodeToChannelType, ScalarTypeCodeToChannelType, Codes

(* A function on 1..m is a sequence of m elements. *)
LEMMA FunctionIsSeq ==
  ASSUME NEW E, NEW m \in Nat, NEW f \in [1..m -> E]
  PROVE  f \in Seq(E) /\ Len(f) = m /\ DOMAIN f = 1..m /\ (f = <<>> <=> m = 0)
<1>1. f \in Seq(E)
  BY SeqDef
<1>2. DOMAIN f = 1..m
  OBVIOUS
<1>3. Len(f) = m
  BY <1>1, <1>2
<1> QED
  BY <1>1, <1>2, <1>3, EmptySeq

(* The fields of what the operators make. *)
LEMMA Fields ==
  /\ \A x : Number(x).kind = "number" /\ Number(x).of = x /\ ~IsText(Number(x))
  /\ \A x : Decimal(x).kind = "decimal" /\ Decimal(x).of = x /\ IsText(Decimal(x))
  /\ \A x : Word(x).kind = "word" /\ Word(x).of = x /\ IsText(Word(x))
  /\ \A x : Listed(x).kind = "list" /\ Listed(x).of = x.of /\ IsText(Listed(x))
  /\ Nothing.kind = "nothing"
  /\ \A x \in Int : Number(x) \in AnyElements /\ Decimal(x) \in AnyElements
  /\ \A x \in Words \cup {""} : Word(x) \in AnyElements
  /\ \A e \in AnyElements : /\ e.kind = "number" => e = Number(e.of) /\ e.of \in Int
                            /\ e.kind = "decimal" => e = Decimal(e.of) /\ e.of \in Int
                            /\ e.kind \in {"number", "decimal", "word", "long", "list"}
                            /\ ~IsText(e) <=> e.kind = "number"
<1> USE DEF Number, Decimal, Word, Listed, IsText, Nothing
<1>1. /\ \A x : Number(x).kind = "number" /\ Number(x).of = x /\ ~IsText(Number(x))
      /\ \A x : Decimal(x).kind = "decimal" /\ Decimal(x).of = x /\ IsText(Decimal(x))
      /\ \A x : Word(x).kind = "word" /\ Word(x).of = x /\ IsText(Word(x))
      /\ \A x : Listed(x).kind = "list" /\ Listed(x).of = x.of /\ IsText(Listed(x))
      /\ Nothing.kind = "nothing"
  OBVIOUS
<1>2. \A x \in Int : Number(x) \in AnyElements /\ Decimal(x) \in AnyElements
  BY DEF AnyElements
<1>3. \A x \in Words \cup {""} : Word(x) \in AnyElements
  BY DEF AnyElements
<1>4. ASSUME NEW e \in AnyElements
      PROVE  /\ e.kind = "number" => e = Number(e.of) /\ e.of \in Int
             /\ e.kind = "decimal" => e = Decimal(e.of) /\ e.of \in Int
             /\ e.kind \in {"number", "decimal", "word", "long", "list"}
             /\ ~IsText(e) <=> e.kind = "number"
  <2>1. CASE e \in [kind : {"number", "decimal"}, of : Int]
    BY <2>1
  <2>2. CASE e \in [kind : {"word", "long", "list"}, of : Int \cup Words \cup {""}]
    BY <2>2
  <2> QED
    BY <2>1, <2>2 DEF AnyElements
<1> QED
  BY <1>1, <1>2, <1>3, <1>4

(* Cutting a text leaves a text that is not long, and of which nothing is cut. *)
LEMMA CutText ==
  ASSUME NEW e \in AnyElements
  PROVE  /\ Cut(e) \in Held
         /\ Cut(Cut(e)) = Cut(e)
         /\ e.kind # "long" => Cut(e) = e
         /\ IsText(Cut(e)) <=> IsText(e)
         /\ e.kind = "decimal" <=> Cut(e).kind = "decimal"
<1>1. CASE e.kind = "long"
  <2>1. Cut(e) = Word(e.of) /\ IsText(e)
    BY <1>1 DEF Cut, IsText
  <2>2. Word(e.of) \in AnyElements
    BY <1>1 DEF AnyElements, Word
  <2> QED
    BY <1>1, <2>1, <2>2, Fields DEF Held, Cut
<1>2. CASE e.kind # "long"
  BY <1>2 DEF Cut, Held
<1> QED
  BY <1>1, <1>2

------------------------------------------------------------------------------
(* An element that this client put comes back as it was given, but for the      *)
(* characters of a text behind the 40th.                                      *)
LEMMA ComesBack ==
  ASSUME type \in Types, native \in {"number", "text"}, ChannelType(type) # "none",
         NEW e \in AnyElements, Accepted(e)
  PROVE  /\ Stored(Encoded(e)) \in Held
         /\ Parsed(Presented(Stored(Encoded(e)))) = Cut(e)
         /\ Cut(e) # Nothing
<1> DEFINE ct == ChannelType(type)
           stored == Stored(Encoded(e))
<1>1. CASE type.code = "String"
  <2>1. ct = "STRING" /\ IsText(e)
    BY <1>1, ChannelTypes DEF Accepted, Convertible
  <2>2. Encoded(e) = Cut(e) /\ Cut(e) \in Held /\ IsText(Cut(e)) /\ Cut(Cut(e)) = Cut(e)
    BY <2>1, CutText DEF Encoded, GetStringUpdateBuffer
  <2>3. Parsed(Cut(e)) = Cut(e) /\ Cut(e) # Nothing
    <3>1. Cut(e).kind # "nothing"
      BY <2>2, Fields DEF Held
    <3> QED
      BY <1>1, <2>1, <2>2, <3>1 DEF Parsed, ParseFromStringType, GetEPICSString, Nothing
  <2>4. CASE native = "text"
    <3>1. stored = Cut(e) /\ Presented(stored) = Cut(e)
      BY <2>1, <2>2, <2>4 DEF Stored, Presented
    <3> QED
      BY <2>2, <2>3, <3>1
  <2>5. CASE native = "number"
    <3>1. Cut(e).kind = "decimal"
      BY <2>2, <2>5, Fields DEF Accepted, Storable, IsText
    <3>2. Cut(e) = Decimal(Cut(e).of) /\ Cut(e).of \in Int
      BY <2>2, <3>1, Fields DEF Held
    <3>3. stored = Number(Cut(e).of) /\ stored \in Held
      BY <2>2, <2>5, <3>2, Fields DEF Stored, Held
    <3>4. Presented(stored) = Decimal(Cut(e).of)
      BY <2>1, <3>3 DEF Presented, Number, IsText
    <3> QED
      BY <2>3, <3>2, <3>3, <3>4
  <2> QED
    BY <2>4, <2>5
<1>2. CASE type.code # "String"
  <2>1. PICK n \in Int : e = Number(n) /\ (type.code # "Bool" => Fits(type.code, n))
    BY <1>2, Fields DEF Accepted, Convertible
  <2>2. e.of = n /\ ~IsText(e) /\ Cut(e) = e /\ e # Nothing
    BY <2>1, Fields DEF Cut
  <2>3. ASSUME NEW x \in Int, NEW s \in {Number(x), Decimal(x)}
        PROVE  Stored(s) \in Held /\ Stored(s) \in {Number(x), Decimal(x)} /\ Stored(s).of = x
    <3>1. Number(x) \in Held /\ Decimal(x) \in Held
      BY Fields DEF Held
    <3>2. Stored(s) \in {Number(x), Decimal(x)}
      BY DEF Stored, Number, Decimal, IsText
    <3> QED
      BY <3>1, <3>2 DEF Number, Decimal
  <2>4. CASE ct = "STRING"
    <3>1. Encoded(e) = Decimal(n)
      BY <2>2, <2>4 DEF Encoded, GetStringUpdateBuffer
    <3>2. stored \in Held /\ stored \in {Number(n), Decimal(n)} /\ stored.of = n
      BY <2>3, <3>1
    <3>3. Presented(stored) = Decimal(n)
      BY <2>4, <3>2 DEF Presented, Number, Decimal, IsText
    <3>4. type.code # "Bool"
      BY <2>4, ChannelTypes
    <3>5. Parsed(Decimal(n)) = Number(n)
      <4>1. Decimal(n).kind = "decimal" /\ Decimal(n).of = n /\ Fits(type.code, n)
        BY <2>1, <3>4 DEF Decimal
      <4> QED
        BY <1>2, <2>4, <4>1 DEF Parsed, ParseFromStringType, ParseNumericFromString
    <3> QED
      BY <2>1, <2>2, <3>2, <3>3, <3>5
  <2>5. CASE ct = "ENUM"
    <3>1. Encoded(e) = Number(n)
      BY <2>1, <2>5 DEF Encoded
    <3>2. stored \in Held /\ stored.of = n
      BY <2>3, <3>1
    <3>3. Between(0, n, 65535)
      BY <2>2, <2>5 DEF Accepted, Fits, Between
    <3>4. n % 65536 = n
      BY <3>3, LowBits
    <3>5. Presented(stored) = Number(n)
      BY <2>5, <3>2, <3>4 DEF Presented
    <3>6. type.code # "Bool"
      BY <2>5, ChannelTypes
    <3>7. Parsed(Number(n)) = Number(n)
      BY <2>1, <2>2, <2>5, <3>6 DEF Parsed, ParseFromUnsignedType
    <3> QED
      BY <2>1, <2>2, <3>2, <3>5, <3>7
  <2>6. CASE ct = "CHAR"
    <3>1. Encoded(e) = Number(n % 256)
      BY <2>2, <2>6 DEF Encoded
    <3>2. n % 256 \in Int /\ (n % 256) % 256 = n % 256
      BY LowBits DEF Between
    <3>3. stored \in Held /\ stored.of = n % 256
      BY <2>3, <3>1, <3>2
    <3>4. Presented(stored) = Number(n % 256)
      BY <2>6, <3>2, <3>3 DEF Presented
    <3>5. CASE type.code = "Bool"
      <4>1. Between(0, n, 1)
        BY <2>1, <2>2, <3>5 DEF Accepted, Between
      <4>2. n % 256 = n
        <5>1. Between(0, n, 255)
          BY <4>1 DEF Between
        <5> QED
          BY <5>1, LowBits
      <4>3. Parsed(Number(n)) = Number(n)
        BY <2>6, <3>5, <4>1 DEF Parsed, ParseBoolean, Number, Between
      <4> QED
        BY <2>1, <2>2, <3>3, <3>4, <4>2, <4>3
    <3>6. CASE type.code \in {"Char8", "Int8"}
      <4>1. Between(-128, n, 127)
        BY <2>1, <3>6 DEF Fits, Between
      <4>2. Wrapped(n % 256, 128) = n
        BY <4>1, LowBits
      <4>3. Parsed(Number(n % 256)) = Number(n)
        BY <2>6, <3>6, <4>2 DEF Parsed, FromBytes, Number
      <4> QED
        BY <2>1, <2>2, <3>3, <3>4, <4>3
    <3> QED
      BY <2>6, <3>5, <3>6, ChannelTypes
  <2>7. CASE ct \in {"SHORT", "LONG", "FLOAT", "DOUBLE"}
    <3>1. Encoded(e) = Number(n) /\ type.code # "Bool"
      BY <2>1, <2>7, ChannelTypes DEF Encoded
    <3>2. stored \in Held /\ stored.of = n
      BY <2>3, <3>1
    <3>3. ct = "SHORT" => Wrapped(n, 32768) = n
      <4>1. ct = "SHORT" => Between(-32768, n, 32767)
        BY <2>1, ChannelTypes DEF Fits, Between
      <4> QED
        BY <4>1, LowBits
    <3>4. Presented(stored) = Number(n)
      BY <2>7, <3>2, <3>3 DEF Presented
    <3>5. Parsed(Number(n)) = Number(n)
      BY <2>7, <3>1 DEF Parsed, FromBytes
    <3> QED
      BY <2>1, <2>2, <3>2, <3>4, <3>5
  <2> QED
    BY <2>4, <2>5, <2>6, <2>7, ChannelTypes
<1> QED
  BY <1>1, <1>2

(* What an element of an event becomes, if nothing can be parsed of it.        *)
Shown(r) == IF Parsed(Presented(r)) = Nothing THEN Default(type.code) ELSE Parsed(Presented(r))

(* A default element is one of the type.                                     *)
LEMMA DefaultIsOfType == ASSUME NEW c \in Codes PROVE Convertible(c, Default(c))
<1>1. CASE c = "String"
  BY <1>1 DEF Convertible, Default, Word, IsText
<1>2. CASE c # "String"
  <2>1. Default(c) = Number(0)
    BY <1>2 DEF Default
  <2> QED
    BY <1>2, <2>1 DEF Convertible, Number, IsText, Fits
<1> QED
  BY <1>1, <1>2

(* An element that comes is shown as one of the requested type, and unchanged if  *)
(* the type can hold it.                                                       *)
LEMMA IsShown ==
  ASSUME type \in Types, ChannelType(type) # "none", NEW r \in Held, Presentable(r)
  PROVE  /\ Convertible(type.code, Shown(r))
         /\ Exact(r, type.code) => Shown(r) = r
<1> DEFINE ct == ChannelType(type)
           of == r.of
<1>0. type.code \in Codes
  BY ChannelTypes
<1>1. CASE type.code = "String"
  <2>1. ct = "STRING"
    BY <1>1, ChannelTypes
  <2>2. Presented(r) \in Held /\ IsText(Presented(r)) /\ (IsText(r) => Presented(r) = r)
    <3>1. CASE IsText(r)
      BY <2>1, <3>1 DEF Presented
    <3>2. CASE ~IsText(r)
      <4>1. of \in Int /\ Presented(r) = Decimal(of)
        <5>1. r \in AnyElements
          BY DEF Held
        <5>2. of \in Int
          BY <3>2, <5>1, Fields
        <5> QED
          BY <2>1, <3>2, <5>2 DEF Presented
      <4> QED
        BY <3>2, <4>1, Fields DEF Held
    <3> QED
      BY <3>1, <3>2
  <2>3. Cut(Presented(r)) = Presented(r)
    BY <2>2, CutText DEF Held
  <2>4. Parsed(Presented(r)) = Presented(r)
    BY <1>1, <2>1, <2>3 DEF Parsed, ParseFromStringType, GetEPICSString
  <2>5. Presented(r) # Nothing
    BY <2>2, Fields DEF Held
  <2>6. Shown(r) = Presented(r)
    BY <2>4, <2>5 DEF Shown
  <2> QED
    BY <1>1, <2>2, <2>6 DEF Convertible, Exact
<1>2. CASE type.code # "String"
  <2>1. \A x : Number(x) # Nothing /\ Number(x).of = x /\ ~IsText(Number(x))
    BY Fields
  <2>2. ASSUME Exact(r, type.code)
        PROVE  /\ r = Number(of) /\ of \in Int /\ ~IsText(r) /\ Fits(type.code, of)
               /\ ct = "ENUM" => Fits("UInt16", of)
    BY <1>2, <2>2, Fields DEF Exact, Held
  <2>3. ASSUME NEW x, Shown(r) = Number(x), type.code = "Bool" \/ Fits(type.code, x),
               Exact(r, type.code) => x = of
        PROVE  Convertible(type.code, Shown(r)) /\ (Exact(r, type.code) => Shown(r) = r)
    BY <1>2, <2>1, <2>2, <2>3 DEF Convertible
  <2>4. CASE ct = "STRING"
    <3>1. type.code # "Bool"
      BY <2>4, ChannelTypes
    <3>2. Parsed(Presented(r)) = ParseNumericFromString(Presented(r))
      BY <1>2, <2>4 DEF Parsed, ParseFromStringType
    <3>3. CASE Presented(r).kind = "decimal" /\ Fits(type.code, Presented(r).of)
      <4>1. Presented(r).of = of
        BY <2>4 DEF Presented, Decimal
      <4>2. Shown(r) = Number(of)
        BY <2>1, <3>2, <3>3, <4>1 DEF Shown, ParseNumericFromString
      <4> QED
        BY <2>3, <3>3, <4>1, <4>2
    <3>4. CASE ~(Presented(r).kind = "decimal" /\ Fits(type.code, Presented(r).of))
      <4>1. Shown(r) = Default(type.code)
        BY <3>2, <3>4 DEF Shown, ParseNumericFromString
      <4>2. ~Exact(r, type.code)
        <5>1. SUFFICES ASSUME Exact(r, type.code) PROVE FALSE
          OBVIOUS
        <5>2. Presented(r) = Decimal(of) /\ Fits(type.code, of)
          BY <2>2, <2>4, <5>1 DEF Presented
        <5>3. Decimal(of).kind = "decimal" /\ Decimal(of).of = of
          BY DEF Decimal
        <5> QED
          BY <3>4, <5>2, <5>3
      <4> QED
        BY <1>0, <4>1, <4>2, DefaultIsOfType
    <3> QED
      BY <3>3, <3>4
  <2>5. ct # "STRING" => of \in Int
    BY Fields DEF Presentable, Held
  <2>6. CASE ct = "ENUM"
    <3>1. Presented(r) = Number(of % 65536)
      BY <2>6 DEF Presented
    <3>2. Parsed(Presented(r)) = IF Fits(type.code, of % 65536) THEN Number(of % 65536) ELSE Nothing
      BY <2>1, <2>6, <3>1 DEF Parsed, ParseFromUnsignedType
    <3>3. ASSUME Exact(r, type.code) PROVE of % 65536 = of /\ Fits(type.code, of)
      <4>1. Fits(type.code, of) /\ Between(0, of, 65535)
        BY <2>2, <2>6, <3>3 DEF Fits, Between
      <4> QED
        BY <2>5, <2>6, <4>1, LowBits
    <3>4. CASE Fits(type.code, of % 65536)
      <4>1. Shown(r) = Number(of % 65536)
        BY <2>1, <3>2, <3>4 DEF Shown
      <4> QED
        BY <2>3, <3>3, <3>4, <4>1
    <3>5. CASE ~Fits(type.code, of % 65536)
      <4>1. Shown(r) = Default(type.code)
        BY <3>2, <3>5 DEF Shown
      <4> QED
        BY <1>0, <3>3, <3>5, <4>1, DefaultIsOfType
    <3> QED
      BY <3>4, <3>5
  <2>7. CASE ct = "CHAR"
    <3>1. Presented(r) = Number(of % 256)
      BY <2>7 DEF Presented
    <3>2. CASE type.code = "Bool"
      <4>1. Parsed(Presented(r)) = Number(IF of % 256 = 0 THEN 0 ELSE 1)
        BY <2>1, <2>7, <3>1, <3>2 DEF Parsed, ParseBoolean
      <4>2. Shown(r) = Number(IF of % 256 = 0 THEN 0 ELSE 1)
        BY <2>1, <4>1 DEF Shown
      <4>3. ASSUME Exact(r, type.code) PROVE (IF of % 256 = 0 THEN 0 ELSE 1) = of
        <5>1. of \in Int /\ 0 <= of /\ of <= 1
          BY <2>2, <3>2, <4>3 DEF Fits
        <5>2. Between(0, of, 255)
          BY <5>1 DEF Between
        <5>3. of % 256 = of
          BY <5>1, <5>2, LowBits
        <5> QED
          BY <5>1, <5>3
      <4> QED
        BY <2>3, <3>2, <4>2, <4>3
    <3>3. CASE type.code \in {"Char8", "Int8"}
      <4>1. of % 256 \in Int
        BY <2>5, <2>7, LowBits DEF Between
      <4>2. Shown(r) = Number(Wrapped(of % 256, 128))
        BY <2>1, <2>7, <3>1, <3>3 DEF Parsed, FromBytes, Shown
      <4>3. Between(-128, Wrapped(of % 256, 128), 127)
        BY <4>1, LowBits
      <4>4. Fits(type.code, Wrapped(of % 256, 128))
        BY <3>3, <4>3 DEF Fits, Between
      <4>5. ASSUME Exact(r, type.code) PROVE Wrapped(of % 256, 128) = of
        <5>1. Between(-128, of, 127)
          BY <2>2, <3>3, <4>5 DEF Fits, Between
        <5> QED
          BY <2>5, <2>7, <5>1, LowBits
      <4> QED
        BY <2>3, <4>2, <4>4, <4>5
    <3> QED
      BY <2>7, <3>2, <3>3, ChannelTypes
  <2>8. CASE ct = "SHORT"
    <3>1. type.code = "Int16"
      BY <2>8, ChannelTypes
    <3>2. Shown(r) = Number(Wrapped(of, 32768))
      BY <2>1, <2>8, <3>1 DEF Presented, Parsed, FromBytes, Shown
    <3>3. Between(-32768, Wrapped(of, 32768), 32767)
      BY <2>5, <2>8, LowBits
    <3>4. Fits(type.code, Wrapped(of, 32768))
      BY <3>1, <3>3 DEF Fits, Between
    <3>5. ASSUME Exact(r, type.code) PROVE Wrapped(of, 32768) = of
      <4>1. Between(-32768, of, 32767)
        BY <2>2, <3>1, <3>5 DEF Fits, Between
      <4> QED
        BY <2>5, <2>8, <4>1, LowBits
    <3> QED
      BY <2>3, <3>2, <3>4, <3>5
  <2>9. CASE ct \in {"LONG", "FLOAT", "DOUBLE"}
    <3>1. type.code \in {"Int32", "Float32", "Float64"}
      BY <2>9, ChannelTypes
    <3>2. Shown(r) = Number(of)
      BY <2>1, <2>9, <3>1 DEF Presented, Parsed, FromBytes, Shown
    <3>3. Fits(type.code, of)
      BY <3>1 DEF Fits
    <3> QED
      BY <2>3, <3>2, <3>3
  <2> QED
    BY <2>4, <2>6, <2>7, <2>8, <2>9, ChannelTypes
<1> QED
  BY <1>1, <1>2
------------------------------------------------------------------------------
(* What users and others give are sequences of elements.                      *)
LEMMA GivenAreElements ==
  ASSUME type \in Types
  PROVE  Given \subseteq Seq(AnyElements) /\ Contents \subseteq Seq(Held)
<1>0. Numbers \subseteq Int
  BY NumbersAssumption, SMT
<1>1. Elements \subseteq AnyElements
  <2>1. ASSUME NEW n \in Numbers PROVE Number(n) \in AnyElements /\ Decimal(n) \in AnyElements
    BY <1>0 DEF AnyElements, Number, Decimal
  <2>2. ASSUME NEW w \in Words PROVE Word(w) \in AnyElements /\ Long(w) \in AnyElements
    BY DEF AnyElements, Word, Long
  <2> QED
    BY <2>1, <2>2 DEF Elements
<1>2. type.size + 1 \in Nat /\ \A m \in 0..type.size + 1 - 1 : m \in Nat
  BY ChannelTypes
<1>3. ASSUME NEW S, NEW E, S \subseteq E PROVE UpTo(type.size + 1, S) \subseteq Seq(E)
  <2>1. ASSUME NEW m \in Nat, NEW f \in [1..m -> S] PROVE f \in Seq(E)
    <3>1. f \in [1..m -> E]
      BY <1>3, <2>1
    <3> QED
      BY <3>1, FunctionIsSeq
  <2>2. ASSUME NEW e \in S PROVE [i \in 1..type.size + 1 |-> e] \in [1..type.size + 1 -> S]
    OBVIOUS
  <2> QED
    BY <1>2, <2>1, <2>2 DEF UpTo
<1>4. {e \in Elements : IF native = "number" THEN ~IsText(e) ELSE e.kind \in {"word", "decimal"}}
      \subseteq Held
  BY <1>1 DEF Held, IsText
<1> QED
  BY <1>1, <1>3, <1>4 DEF Given, Contents

(* A converted value has the type, element by element.                        *)
LEMMA ConvertedValue ==
  ASSUME type \in Types, NEW v \in Seq(AnyElements), TryConvert(type, v)
  PROVE  /\ DestValue(type, v) \in Seq(AnyElements)
         /\ Len(DestValue(type, v)) = type.size /\ Len(v) = type.size
         /\ \A i \in 1..type.size :
              /\ DestValue(type, v)[i] \in AnyElements
              /\ Convertible(type.code, DestValue(type, v)[i])
              /\ type.code = "Bool" => 0 <= DestValue(type, v)[i].of /\ DestValue(type, v)[i].of <= 1
              /\ type.code # "Bool" => DestValue(type, v)[i] = v[i]
<1> DEFINE d == DestValue(type, v)
<1>1. Len(v) = type.size /\ type.size \in Nat /\ \A i \in 1..type.size : Convertible(type.code, v[i])
  BY ChannelTypes DEF TryConvert
<1>2. d = [i \in 1..type.size |-> Converted(type.code, v[i])]
  BY <1>1 DEF DestValue
<1>3. ASSUME NEW i \in 1..type.size
      PROVE  /\ Converted(type.code, v[i]) \in AnyElements
             /\ Convertible(type.code, Converted(type.code, v[i]))
             /\ type.code = "Bool" => 0 <= Converted(type.code, v[i]).of /\ Converted(type.code, v[i]).of <= 1
             /\ type.code # "Bool" => Converted(type.code, v[i]) = v[i]
  <2>1. v[i] \in AnyElements /\ Convertible(type.code, v[i])
    BY <1>1
  <2>2. CASE type.code = "Bool"
    <3>1. Converted(type.code, v[i]) \in {Number(0), Number(1)}
      BY <2>2 DEF Converted
    <3>2. ASSUME NEW n \in {0, 1}
          PROVE  Number(n) \in AnyElements /\ ~IsText(Number(n)) /\ 0 <= Number(n).of /\ Number(n).of <= 1
      <4>1. n \in Int /\ 0 <= n /\ n <= 1
        OBVIOUS
      <4>2. Number(n) \in AnyElements /\ ~IsText(Number(n)) /\ Number(n).of = n
        BY <4>1, Fields
      <4> QED
        BY <4>1, <4>2
    <3> QED
      BY <2>2, <3>1, <3>2 DEF Convertible
  <2>3. CASE type.code # "Bool"
    BY <2>1, <2>3 DEF Converted
  <2> QED
    BY <2>2, <2>3
<1>4. d \in [1..type.size -> AnyElements]
  BY <1>2, <1>3
<1>5. \A i \in 1..type.size : d[i] = Converted(type.code, v[i])
  BY <1>2
<1> HIDE DEF d
<1>6. d \in Seq(AnyElements) /\ Len(d) = type.size
  BY <1>1, <1>4, FunctionIsSeq
<1>7. QED
  BY <1>1, <1>3, <1>5, <1>6 DEF d

(* The element that is put for one of the type may be in a record.             *)
LEMMA EncodedIsHeld ==
  ASSUME type \in Types, NEW e \in AnyElements, Convertible(type.code, e)
  PROVE  Encoded(e) \in Held
<1>1. CASE ChannelType(type) = "STRING"
  BY <1>1, CutText, Fields DEF Encoded, GetStringUpdateBuffer, Held
<1>2. CASE ChannelType(type) # "STRING"
  <2>1. e.of \in Int /\ e.kind = "number"
    BY <1>2, ChannelTypes, Fields DEF Convertible
  <2>2. e.of % 256 \in Int
    BY <2>1, LowBits DEF Between
  <2> QED
    BY <1>2, <2>1, <2>2, Fields DEF Encoded, Held
<1> QED
  BY <1>1, <1>2

(* What is stored of an element may be in a record.                           *)
LEMMA StoredIsHeld ==
  ASSUME native \in {"number", "text"}, NEW e \in Held, Storable(e) PROVE Stored(e) \in Held
<1>1. e \in AnyElements
  BY DEF Held
<1>2. CASE native = "number"
  BY <1>1, <1>2, Fields DEF Storable, Stored, Held
<1>3. CASE native = "text"
  BY <1>1, <1>3, Fields DEF Stored, Held
<1> QED
  BY <1>2, <1>3

(* The arrays of one element that the code hands over as arrays.               *)
HandedOver(t) == t.array /\ t.size = 1 /\ ChannelType(t) \in {"STRING", "ENUM"}

(* An update buffer has what may be in a record.  For any other type it has every *)
(* element encoded, and it is empty only for what does not fit.                  *)
LEMMA BufferIsEncoded ==
  ASSUME type \in Types, ChannelType(type) # "none", NEW v \in Seq(AnyElements)
  PROVE  LET d == DestValue(type, v)
             buffer == GetUpdateBuffer(type, v)
             fits == /\ TryConvert(type, v)
                     /\ ChannelType(type) = "ENUM" => \A i \in 1..Len(v) : Fits("UInt16", v[i].of)
         IN /\ buffer \in Seq(Held)
            /\ ~HandedOver(type) =>
                 /\ buffer # <<>> <=> fits
                 /\ buffer # <<>> =>
                      /\ Len(buffer) = type.size
                      /\ \A i \in 1..type.size :
                           /\ buffer[i] = Encoded(d[i])
                           /\ ChannelType(type) = "ENUM" => Fits("UInt16", d[i].of)
<1> DEFINE d == DestValue(type, v)
           buffer == GetUpdateBuffer(type, v)
           ct == ChannelType(type)
           fits == TryConvert(type, v) /\ (ct = "ENUM" => \A i \in 1..Len(v) : Fits("UInt16", v[i].of))
           Good == /\ buffer \in Seq(Held)
                   /\ ~HandedOver(type) =>
                        /\ buffer # <<>> <=> fits
                        /\ buffer # <<>> =>
                             /\ Len(buffer) = type.size
                             /\ \A i \in 1..type.size :
                                  /\ buffer[i] = Encoded(d[i])
                                  /\ ct = "ENUM" => Fits("UInt16", d[i].of)
<1> SUFFICES Good
  OBVIOUS
<1> HIDE DEF d, buffer, fits
<1>1. CASE ~TryConvert(type, v)
  <2>1. buffer = <<>> /\ <<>> \in Seq(Held)
    BY <1>1 DEF GetUpdateBuffer, buffer
  <2> QED
    BY <1>1, <2>1 DEF fits
<1>2. CASE TryConvert(type, v)
  <2>1. /\ d \in Seq(AnyElements) /\ Len(d) = type.size /\ Len(v) = type.size
        /\ \A i \in 1..type.size : /\ d[i] \in AnyElements
                                   /\ Convertible(type.code, d[i])
                                   /\ type.code # "Bool" => d[i] = v[i]
    BY <1>2, ConvertedValue DEF d
  <2>2. \A i \in 1..type.size : Encoded(d[i]) \in Held
    BY <2>1, EncodedIsHeld
  <2>3. type.size \in Nat \ {0} /\ 1 \in 1..type.size /\ (~type.array => type.size = 1)
    BY ChannelTypes
  <2>4. ASSUME NEW f, f = [i \in 1..type.size |-> Encoded(d[i])]
        PROVE  /\ f \in Seq(Held) /\ Len(f) = type.size /\ f # <<>>
               /\ \A i \in 1..type.size : f[i] = Encoded(d[i])
    <3>1. f \in [1..type.size -> Held]
      BY <2>2, <2>4
    <3>2. f \in Seq(Held) /\ Len(f) = type.size /\ f # <<>>
      BY <2>3, <3>1, FunctionIsSeq
    <3> QED
      BY <2>4, <3>2
  <2>5. CASE ct = "STRING"
    <3>1. buffer = GetStringsUpdateBuffer(type, d)
      BY <1>2, <2>5 DEF GetUpdateBuffer, d, buffer
    <3>2. \A i \in 1..type.size : Encoded(d[i]) = GetStringUpdateBuffer(d[i])
      BY <2>5 DEF Encoded
    <3>3. fits
      BY <1>2, <2>5 DEF fits
    <3>4. CASE type.size > 1
      <4>1. buffer = [i \in 1..type.size |-> Encoded(d[i])]
        BY <2>1, <3>1, <3>2, <3>4 DEF GetStringsUpdateBuffer, ChannelMultiplicity
      <4> QED
        BY <2>4, <2>5, <3>3, <4>1
    <3>5. CASE type.size = 1 /\ ~type.array
      <4>1. buffer = <<Encoded(d[1])>>
        BY <2>3, <3>1, <3>2, <3>5 DEF GetStringsUpdateBuffer, ChannelMultiplicity
      <4>2. Encoded(d[1]) \in Held
        BY <2>2, <2>3
      <4>3. buffer \in Seq(Held) /\ Len(buffer) = 1 /\ buffer[1] = Encoded(d[1]) /\ buffer # <<>>
        BY <4>1, <4>2
      <4> QED
        BY <2>5, <3>3, <3>5, <4>3
    <3>6. CASE type.size = 1 /\ type.array
      <4>1. buffer = <<Listed(d[1])>>
        BY <3>1, <3>6 DEF GetStringsUpdateBuffer, ChannelMultiplicity
      <4>2. Listed(d[1]) \in Held
        <5>1. d[1] \in AnyElements
          BY <2>1, <2>3
        <5>2. d[1].of \in Int \cup Words \cup {""}
          BY <5>1 DEF AnyElements
        <5> QED
          BY <5>2 DEF Listed, Held, AnyElements
      <4>3. HandedOver(type)
        BY <2>5, <3>6 DEF HandedOver
      <4> QED
        BY <4>1, <4>2, <4>3
    <3> QED
      BY <2>3, <3>4, <3>5, <3>6
  <2>6. CASE ct = "ENUM"
    <3>1. buffer = GetUnsignedEnumsUpdateBuffer(type, d)
      BY <1>2, <2>6 DEF GetUpdateBuffer, d, buffer
    <3>2. \A i \in 1..type.size : Encoded(d[i]) = d[i] /\ d[i] = v[i]
      BY <2>1, <2>6, ChannelTypes DEF Encoded
    <3>3. \A i \in 1..Len(d) : GetUnsignedEnumUpdateBuffer(d[i]) # <<>> <=> Fits("UInt16", d[i].of)
      BY DEF GetUnsignedEnumUpdateBuffer
    <3>4. type.size > 1 \/ ~type.array <=> ~HandedOver(type)
      BY <2>3, <2>6 DEF HandedOver
    <3>5. fits <=> \A i \in 1..type.size : Fits("UInt16", d[i].of)
      BY <1>2, <2>1, <2>6, <3>2 DEF fits
    <3>6. d \in Seq(Held) /\ d # <<>>
      <4>1. d \in [1..type.size -> Held]
        BY <2>1, <2>2, <3>2
      <4> QED
        BY <2>3, <4>1, FunctionIsSeq
    <3>7. CASE fits /\ ~HandedOver(type)
      <4>1. buffer = d
        BY <2>1, <3>1, <3>3, <3>4, <3>5, <3>7 DEF GetUnsignedEnumsUpdateBuffer, ChannelMultiplicity
      <4> QED
        BY <2>1, <3>2, <3>5, <3>6, <3>7, <4>1
    <3>8. CASE ~(fits /\ ~HandedOver(type))
      <4>1. buffer = <<>>
        BY <2>1, <3>1, <3>3, <3>4, <3>5, <3>8 DEF GetUnsignedEnumsUpdateBuffer, ChannelMultiplicity
      <4>2. <<>> \in Seq(Held)
        OBVIOUS
      <4> QED
        BY <3>8, <4>1, <4>2
    <3> QED
      BY <3>7, <3>8
  <2>7. CASE ct \notin {"STRING", "ENUM"}
    <3>1. buffer = ToBytes(type, d)
      BY <1>2, <2>7 DEF GetUpdateBuffer, d, buffer
    <3>2. buffer = [i \in 1..type.size |-> Encoded(d[i])]
      BY <2>1, <2>7, <3>1 DEF ToBytes, Encoded
    <3>3. fits
      BY <1>2, <2>7 DEF fits
    <3> QED
      BY <2>4, <2>7, <3>2, <3>3
  <2> QED
    BY <2>5, <2>6, <2>7
<1> QED
  BY <1>1, <1>2

------------------------------------------------------------------------------
(* A successful event shows every element of the record, and default ones for    *)
(* those the record has not got.                                               *)
LEMMA EventShows ==
  ASSUME ConversionTypes, NEW failed \in BOOLEAN, MonitorEvent(failed), fresh'
  PROVE  /\ open
         /\ \A i \in 1..Len(record) : Presentable(record[i])
         /\ event' = [i \in 1..type.size |-> IF i <= Len(record) THEN Shown(record[i])
                                             ELSE Default(type.code)]
<1> DEFINE n == Len(record)
           wire == Wire
           parsed == ParseAnyValue(wire)
           Element(i) == IF i <= n THEN Parsed(Presented(record[i])) ELSE Default(type.code)
<1>1. open /\ Comes(failed) /\ event' = Kept(parsed)
  BY DEF MonitorEvent
<1>2. n \in Nat /\ type.size \in Nat
  BY ChannelTypes DEF ConversionTypes
<1>3. Len(wire) = n /\ \A i \in 1..n : wire[i] = Presented(record[i])
  <2>1. wire = [i \in 1..n |-> Presented(record[i])]
    BY DEF Wire
  <2>2. wire \in [1..n -> {Presented(record[i]) : i \in 1..n}]
    BY <2>1
  <2> HIDE DEF wire
  <2> QED
    BY <1>2, <2>1, <2>2, FunctionIsSeq
<1> HIDE DEF wire, n
<1>4. parsed = [i \in 1..type.size |-> Element(i)]
  <2>1. ASSUME NEW i \in 1..type.size, i <= n PROVE wire[i] = Presented(record[i])
    BY <1>2, <1>3, <2>1
  <2> QED
    BY <1>2, <1>3, <2>1 DEF ParseAnyValue, ParseFromStringTypes, ParseFromUnsignedEnumTypes,
       ParseBooleans, ParseFromBytes, Elementwise, Parsed
<1> HIDE DEF parsed, Element
<1>5. Len(parsed) = type.size
  <2>1. parsed \in [1..type.size -> {Element(i) : i \in 1..type.size}]
    BY <1>4
  <2> QED
    BY <1>2, <2>1, FunctionIsSeq
<1>6. ASSUME NEW i \in 1..type.size
      PROVE  (IF parsed[i] = Nothing THEN Default(type.code) ELSE parsed[i])
               = IF i <= n THEN Shown(record[i]) ELSE Default(type.code)
  <2>1. parsed[i] = Element(i)
    BY <1>4
  <2> QED
    BY <2>1 DEF Element, Shown
<1> QED
  BY <1>1, <1>5, <1>6 DEF Kept, Comes, n

(* The types are kept: nobody leaves a long text in the record.                 *)
LEMMA ConversionTypesStep ==
  ConversionTypes /\ [ConversionNext]_conversionVars => ConversionTypes'
<1> SUFFICES ASSUME ConversionTypes, [ConversionNext]_conversionVars PROVE ConversionTypes'
  OBVIOUS
<1> USE DEF ConversionTypes
<1>1. CASE AddChannel
  BY <1>1 DEF AddChannel, callVars
<1>2. ASSUME open, NEW v \in Given, NEW refused \in BOOLEAN, UpdateChannel(v, refused)
      PROVE  ConversionTypes'
  <2> DEFINE buffer == GetUpdateBuffer(type, v)
             stored == [i \in 1..Len(buffer) |-> Stored(buffer[i])]
  <2>1. v \in Seq(AnyElements) /\ buffer \in Seq(Held)
    BY <1>2, GivenAreElements, BufferIsEncoded
  <2>2. UNCHANGED <<type, open, native>> /\ fresh' = FALSE
    BY <1>2 DEF UpdateChannel, NoEvent
  <2>3. CASE UNCHANGED <<record, mine>>
    BY <2>2, <2>3
  <2>4. CASE /\ buffer # <<>> /\ \A i \in 1..Len(buffer) : Storable(buffer[i])
             /\ record' = stored /\ mine' = DestValue(type, v)
    <3>1. TryConvert(type, v)
      BY <2>4 DEF GetUpdateBuffer
    <3>2. mine' \in Seq(AnyElements)
      BY <2>1, <2>4, <3>1, ConvertedValue
    <3> HIDE DEF buffer
    <3>3. \A i \in 1..Len(buffer) : Stored(buffer[i]) \in Held
      BY <2>1, <2>4, StoredIsHeld
    <3>4. Len(buffer) \in Nat /\ stored \in [1..Len(buffer) -> Held]
      BY <2>1, <3>3
    <3> HIDE DEF stored
    <3>5. record' \in Seq(Held)
      BY <2>4, <3>4, FunctionIsSeq
    <3> QED
      BY <2>2, <3>2, <3>5
  <2> QED
    BY <1>2, <2>3, <2>4 DEF UpdateChannel
<1>3. ASSUME NEW failed \in BOOLEAN, MonitorEvent(failed) PROVE ConversionTypes'
  BY <1>3 DEF MonitorEvent, Comes, VerifyCount
<1>4. CASE EventThrows
  BY <1>4 DEF EventThrows, NoEvent
<1>5. ASSUME NEW contents \in Contents, OthersPut(contents) PROVE ConversionTypes'
  <2>1. contents \in Seq(Held) /\ <<>> \in Seq(AnyElements)
    BY <1>5, GivenAreElements
  <2> QED
    BY <1>5, <2>1 DEF OthersPut, NoEvent
<1>6. CASE UNCHANGED conversionVars
  BY <1>6 DEF conversionVars, callVars
<1> QED
  BY <1>1, <1>2, <1>3, <1>4, <1>5, <1>6 DEF ConversionNext

(* The record keeps what this client put until somebody else puts.              *)
LEMMA MineStep ==
  ConversionTypes /\ ~HandedOver(type) /\ MineInv /\ [ConversionNext]_conversionVars => MineInv'
<1> SUFFICES ASSUME ConversionTypes, ~HandedOver(type), MineInv, [ConversionNext]_conversionVars
             PROVE  MineInv'
  OBVIOUS
<1>0. CASE UNCHANGED <<type, native, record, mine>>
  BY <1>0 DEF MineInv, Accepted, Encoded, Stored, Storable
<1>1. CASE AddChannel
  BY <1>0, <1>1 DEF AddChannel
<1>2. ASSUME open, NEW v \in Given, NEW refused \in BOOLEAN, UpdateChannel(v, refused)
      PROVE  MineInv'
  <2> DEFINE d == DestValue(type, v)
             buffer == GetUpdateBuffer(type, v)
  <2>1. v \in Seq(AnyElements) /\ ChannelType(type) # "none" /\ type \in Types
    BY <1>2, GivenAreElements DEF ConversionTypes
  <2>2. type' = type /\ native' = native
    BY <1>2 DEF UpdateChannel
  <2>3. CASE UNCHANGED <<record, mine>>
    BY <1>0, <2>2, <2>3
  <2>4. CASE /\ buffer # <<>> /\ \A i \in 1..Len(buffer) : Storable(buffer[i])
             /\ record' = [i \in 1..Len(buffer) |-> Stored(buffer[i])] /\ mine' = d
    <3>1. TryConvert(type, v)
      BY <2>4 DEF GetUpdateBuffer
    <3>2. /\ Len(d) = type.size
          /\ \A i \in 1..type.size :
               /\ d[i] \in AnyElements
               /\ Convertible(type.code, d[i])
               /\ type.code = "Bool" => 0 <= d[i].of /\ d[i].of <= 1
      BY <2>1, <3>1, ConvertedValue
    <3>3. /\ buffer \in Seq(Held) /\ Len(buffer) = type.size
          /\ \A i \in 1..type.size : /\ buffer[i] = Encoded(d[i])
                                     /\ ChannelType(type) = "ENUM" => Fits("UInt16", d[i].of)
      BY <2>1, <2>4, BufferIsEncoded
    <3> HIDE DEF buffer, d
    <3>4. ASSUME NEW i \in 1..type.size
          PROVE  Accepted(d[i]) /\ record'[i] = Stored(Encoded(d[i]))
      BY <2>4, <3>2, <3>3 DEF Accepted
    <3>5. Len(record') = type.size
      <4>1. record' \in [1..type.size -> {Stored(buffer[i]) : i \in 1..type.size}]
        BY <2>4, <3>3
      <4> QED
        BY <2>1, <4>1, FunctionIsSeq, ChannelTypes
    <3>6. ASSUME NEW i \in 1..type.size
          PROVE  (Accepted(mine[i]) /\ record[i] = Stored(Encoded(mine[i])))'
      <4>1. mine'[i] = d[i]
        BY <2>4
      <4> QED
        BY <2>2, <3>4, <4>1 DEF Accepted, Encoded, Stored, Storable
    <3>7. Len(mine') = type.size
      BY <2>4, <3>2
    <3> QED
      BY <2>1, <2>2, <3>5, <3>6, <3>7 DEF MineInv
  <2> QED
    BY <1>2, <2>3, <2>4 DEF UpdateChannel
<1>3. ASSUME NEW failed \in BOOLEAN, MonitorEvent(failed) PROVE MineInv'
  BY <1>0, <1>3 DEF MonitorEvent
<1>4. CASE EventThrows
  BY <1>0, <1>4 DEF EventThrows
<1>5. ASSUME NEW contents \in Contents, OthersPut(contents) PROVE MineInv'
  BY <1>5 DEF OthersPut, MineInv
<1>6. CASE UNCHANGED conversionVars
  BY <1>0, <1>6 DEF conversionVars
<1> QED
  BY <1>1, <1>2, <1>3, <1>4, <1>5, <1>6 DEF ConversionNext

(* The event is what this client put. *)
LEMMA RoundTripStep ==
  ConversionTypes /\ MineInv /\ RoundTrip /\ [ConversionNext]_conversionVars => RoundTrip'
<1> SUFFICES ASSUME ConversionTypes, MineInv, RoundTrip, [ConversionNext]_conversionVars
             PROVE  RoundTrip'
  OBVIOUS
<1>1. ASSUME NEW failed \in BOOLEAN, MonitorEvent(failed) PROVE RoundTrip'
  <2>1. mine' = mine
    BY <1>1 DEF MonitorEvent
  <2> SUFFICES ASSUME mine # <<>>, fresh' PROVE event' = [i \in 1..Len(mine) |-> Cut(mine[i])]
    BY <2>1 DEF RoundTrip
  <2>2. event' = [i \in 1..type.size |-> IF i <= Len(record) THEN Shown(record[i])
                                         ELSE Default(type.code)]
    BY <1>1, EventShows
  <2>3. Len(mine) = type.size /\ Len(record) = type.size /\ type.size \in Nat
    BY ChannelTypes DEF MineInv, ConversionTypes
  <2>4. ASSUME NEW i \in 1..type.size PROVE Shown(record[i]) = Cut(mine[i])
    <3>1. mine[i] \in AnyElements
      BY <2>3 DEF ConversionTypes
    <3>2. Accepted(mine[i]) /\ record[i] = Stored(Encoded(mine[i])) /\ ChannelType(type) # "none"
      BY DEF MineInv
    <3>3. Parsed(Presented(record[i])) = Cut(mine[i]) /\ Cut(mine[i]) # Nothing
      BY <3>1, <3>2, ComesBack DEF ConversionTypes
    <3> QED
      BY <3>3 DEF Shown
  <2> QED
    BY <2>2, <2>3, <2>4
<1>2. CASE AddChannel
  BY <1>2 DEF AddChannel, callVars, RoundTrip
<1>3. ASSUME NEW v \in Given, NEW refused \in BOOLEAN, UpdateChannel(v, refused)
      PROVE  RoundTrip'
  BY <1>3 DEF UpdateChannel, NoEvent, RoundTrip
<1>4. CASE EventThrows
  BY <1>4 DEF EventThrows, NoEvent, RoundTrip
<1>5. ASSUME NEW contents \in Contents, OthersPut(contents) PROVE RoundTrip'
  BY <1>5 DEF OthersPut, NoEvent, RoundTrip
<1>6. CASE UNCHANGED conversionVars
  BY <1>6 DEF conversionVars, callVars, RoundTrip
<1> QED
  BY <1>1, <1>2, <1>3, <1>4, <1>5, <1>6 DEF ConversionNext

(* The event is what the record holds, as far as the type can hold it.           *)
LEMMA ReadStep ==
  ConversionTypes /\ ReadsExactly /\ [ConversionNext]_conversionVars => ReadsExactly'
<1> SUFFICES ASSUME ConversionTypes, ReadsExactly, [ConversionNext]_conversionVars
             PROVE  ReadsExactly'
  OBVIOUS
<1>1. ASSUME NEW failed \in BOOLEAN, MonitorEvent(failed) PROVE ReadsExactly'
  <2>1. type' = type /\ record' = record
    BY <1>1 DEF MonitorEvent
  <2>2. ASSUME fresh', NEW i \in 1..type.size
        PROVE  /\ Convertible(type.code, event'[i])
               /\ IF i <= Len(record) THEN Exact(record[i], type.code) => event'[i] = record[i]
                  ELSE event'[i] = Default(type.code)
    <3>1. /\ open
          /\ \A j \in 1..Len(record) : Presentable(record[j])
          /\ event' = [j \in 1..type.size |-> IF j <= Len(record) THEN Shown(record[j])
                                              ELSE Default(type.code)]
      BY <1>1, <2>2, EventShows
    <3>2. type \in Types /\ type.size \in Nat /\ type.code \in Codes /\ Len(record) \in Nat
      BY ChannelTypes DEF ConversionTypes
    <3>3. CASE i <= Len(record)
      <4>1. record[i] \in Held /\ Presentable(record[i]) /\ event'[i] = Shown(record[i])
        BY <3>1, <3>2, <3>3 DEF ConversionTypes
      <4>2. ChannelType(type) # "none"
        BY <3>1 DEF ConversionTypes
      <4> QED
        BY <3>2, <3>3, <4>1, <4>2, IsShown
    <3>4. CASE ~(i <= Len(record))
      <4>1. event'[i] = Default(type.code)
        BY <3>1, <3>4
      <4> QED
        BY <3>2, <3>4, <4>1, DefaultIsOfType
    <3> QED
      BY <3>3, <3>4
  <2> QED
    BY <2>1, <2>2 DEF ReadsExactly, Exact
<1>2. CASE AddChannel
  BY <1>2 DEF AddChannel, callVars, ReadsExactly, Exact
<1>3. ASSUME NEW v \in Given, NEW refused \in BOOLEAN, UpdateChannel(v, refused)
      PROVE  ReadsExactly'
  BY <1>3 DEF UpdateChannel, NoEvent, ReadsExactly
<1>4. CASE EventThrows
  BY <1>4 DEF EventThrows, NoEvent, ReadsExactly
<1>5. ASSUME NEW contents \in Contents, OthersPut(contents) PROVE ReadsExactly'
  BY <1>5 DEF OthersPut, NoEvent, ReadsExactly
<1>6. CASE UNCHANGED conversionVars
  BY <1>6 DEF conversionVars, callVars, ReadsExactly, Exact
<1> QED
  BY <1>1, <1>2, <1>3, <1>4, <1>5, <1>6 DEF ConversionNext

(* What is stored of an element of the type says what was given.               *)
LEMMA StoredSays ==
  ASSUME type \in Types, ChannelType(type) # "none", native \in {"number", "text"},
         NEW v \in AnyElements, Convertible(type.code, v),
         NEW d, d = Converted(type.code, v), Storable(Encoded(d))
  PROVE  Says(Stored(Encoded(d)), v)
<1>1. CASE type.code = "String"
  <2>1. d = v /\ IsText(v) /\ Encoded(d) = Cut(v)
    BY <1>1, ChannelTypes DEF Converted, Convertible, Encoded, GetStringUpdateBuffer
  <2>2. CASE native = "text"
    BY <1>1, <2>1, <2>2, CutText DEF Stored, Says
  <2>3. CASE native = "number"
    <3>1. Cut(v).kind = "decimal"
      <4>1. Storable(Cut(v)) /\ IsText(Cut(v))
        BY <2>1, CutText
      <4> QED
        BY <2>3, <4>1 DEF Storable, IsText
    <3>2. v.kind = "decimal" /\ Cut(v) = v
      BY <3>1, CutText
    <3> QED
      BY <1>1, <2>1, <2>3, <3>2 DEF Stored, Says
  <2> QED
    BY <2>2, <2>3
<1>2. CASE type.code # "String"
  <2>1. v.kind = "number" /\ v.of \in Int
    BY <1>2, Fields DEF Convertible
  <2>2. d.kind = "number" /\ d.of \in Int
    <3>1. CASE type.code = "Bool"
      <4>1. d = Number(0) \/ d = Number(1)
        BY <3>1 DEF Converted
      <4> QED
        BY <4>1 DEF Number
    <3>2. CASE type.code # "Bool"
      BY <2>1, <3>2 DEF Converted
    <3> QED
      BY <3>1, <3>2
  <2>3. Encoded(d).of = (IF ChannelType(type) = "CHAR" THEN d.of % 256 ELSE d.of)
    <3>1. ~IsText(d)
      BY <2>2 DEF IsText
    <3>2. /\ ChannelType(type) = "STRING" => Encoded(d) = Decimal(d.of)
          /\ ChannelType(type) = "CHAR" => Encoded(d) = Number(d.of % 256)
          /\ ChannelType(type) \notin {"STRING", "CHAR"} => Encoded(d) = d
      BY <3>1 DEF Encoded, GetStringUpdateBuffer
    <3>3. CASE ChannelType(type) = "STRING"
      BY <3>2, <3>3 DEF Decimal
    <3>4. CASE ChannelType(type) = "CHAR"
      BY <3>2, <3>4 DEF Number
    <3>5. CASE ChannelType(type) \notin {"STRING", "CHAR"}
      BY <3>2, <3>5
    <3> QED
      BY <3>3, <3>4, <3>5
  <2>4. Stored(Encoded(d)).of = Encoded(d).of
    BY Fields DEF Stored
  <2>5. CASE type.code = "Bool"
    <3>1. d.of = (IF v.of = 0 THEN 0 ELSE 1)
      BY <2>5, Fields DEF Converted
    <3>2. d.of % 256 = d.of
      BY <2>2, <3>1, LowBits DEF Between
    <3> QED
      BY <2>3, <2>4, <2>5, <3>1, <3>2 DEF Says
  <2>6. CASE ChannelType(type) = "CHAR" /\ type.code # "Bool"
    <3>1. d = v /\ -128 <= v.of /\ v.of <= 127
      BY <1>2, <2>6, ChannelTypes DEF Converted, Convertible, Fits
    <3>2. v.of % 256 = v.of \/ (v.of < 0 /\ v.of % 256 = v.of + 256)
      BY <2>1, <3>1, Z3
    <3> QED
      BY <1>2, <2>3, <2>4, <2>6, <3>1, <3>2 DEF Says
  <2>7. CASE ChannelType(type) # "CHAR" /\ type.code # "Bool"
    BY <1>2, <2>3, <2>4, <2>7 DEF Converted, Says
  <2> QED
    BY <2>5, <2>6, <2>7
<1> QED
  BY <1>1, <1>2

(* A call that changes the record writes what it was given and returns true.   *)
LEMMA WriteStep ==
  ConversionTypes /\ ~HandedOver(type) /\ [ConversionNext]_conversionVars
    => (record' # record /\ answer' # "none" => answer' = "true" /\ Written(request'))
<1> SUFFICES ASSUME ConversionTypes, ~HandedOver(type), [ConversionNext]_conversionVars,
                    record' # record, answer' # "none"
             PROVE  answer' = "true" /\ Written(request')
  OBVIOUS
<1>1. PICK v \in Given, refused \in BOOLEAN : open /\ UpdateChannel(v, refused)
  BY DEF ConversionNext, AddChannel, MonitorEvent, EventThrows, OthersPut, NoCall, conversionVars
<1> DEFINE d == DestValue(type, v)
           buffer == GetUpdateBuffer(type, v)
<1>2. v \in Seq(AnyElements) /\ ChannelType(type) # "none" /\ type \in Types
  BY <1>1, GivenAreElements DEF ConversionTypes
<1>3. /\ request' = v /\ answer' = "true"
      /\ buffer # <<>> /\ \A i \in 1..Len(buffer) : Storable(buffer[i])
      /\ record' = [i \in 1..Len(buffer) |-> Stored(buffer[i])]
  BY <1>1 DEF UpdateChannel
<1>4. TryConvert(type, v)
  BY <1>3 DEF GetUpdateBuffer
<1>5. Len(v) = type.size /\ type.size \in Nat
  BY <1>2, <1>4, ConvertedValue, ChannelTypes
<1>6. /\ Len(buffer) = type.size
      /\ \A i \in 1..type.size : buffer[i] = Encoded(d[i])
  BY <1>2, <1>3, BufferIsEncoded
<1>7. ASSUME NEW i \in 1..type.size
      PROVE  /\ v[i] \in AnyElements /\ Convertible(type.code, v[i])
             /\ d[i] = Converted(type.code, v[i])
  BY <1>2, <1>4, <1>5 DEF TryConvert, DestValue
<1> HIDE DEF buffer, d
<1>8. ASSUME NEW i \in 1..type.size PROVE Says(record'[i], v[i])
  <2>1. record'[i] = Stored(Encoded(d[i])) /\ Storable(Encoded(d[i]))
    BY <1>3, <1>6
  <2> QED
    BY <1>2, <1>7, <2>1, StoredSays DEF ConversionTypes
<1>9. Len(record') = type.size
  <2>1. record' \in [1..type.size -> {Stored(buffer[i]) : i \in 1..type.size}]
    BY <1>3, <1>6
  <2> QED
    BY <1>5, <2>1, FunctionIsSeq
<1> QED
  BY <1>3, <1>5, <1>8, <1>9 DEF Written

(* Nothing was put or read at first. *)
LEMMA ConversionInitially ==
  ConversionInit => ConversionTypes /\ MineInv /\ RoundTrip /\ ReadsExactly
<1> SUFFICES ASSUME ConversionInit
             PROVE  ConversionTypes /\ MineInv /\ RoundTrip /\ ReadsExactly
  OBVIOUS
<1>1. Number(0) \in Held
  BY DEF Held, AnyElements, Number
<1>2. Word("") \in Held
  BY DEF Held, AnyElements, Word
<1>3. record \in Seq(Held)
  <2> DEFINE e == IF native = "number" THEN Number(0) ELSE Word("")
  <2>1. e \in Held
    BY <1>1, <1>2
  <2>2. record = <<e>>
    BY DEF ConversionInit
  <2> HIDE DEF e
  <2> QED
    BY <2>1, <2>2
<1>4. mine \in Seq(AnyElements)
  BY EmptySeq DEF ConversionInit
<1>5. ConversionTypes
  BY <1>3, <1>4 DEF ConversionInit, ConversionTypes
<1> QED
  BY <1>5 DEF ConversionInit, MineInv, RoundTrip, ReadsExactly

(* The types, for every channel. *)
THEOREM ConversionTypeCorrect == ConversionSpec => []ConversionTypes
  BY ConversionInitially, ConversionTypesStep, PTL DEF ConversionSpec

(* Whatever a record holds is read exactly if the requested type can hold it, and *)
(* what is read is always of that type.                                         *)
THEOREM ReadsAreExact == ConversionSpec => []ReadsExactly
  BY ConversionInitially, ConversionTypeCorrect, ReadStep, PTL DEF ConversionSpec

(* What was set comes back, whatever the record makes of it in between, but for   *)
(* the arrays that are handed over as arrays.                                   *)
THEOREM WhatWasSetComesBack ==
  ASSUME \A t \in Types : ~HandedOver(t)
  PROVE  ConversionSpec => []RoundTrip
<1>1. ConversionTypes => ~HandedOver(type)
  BY DEF ConversionTypes
<1> QED
  BY <1>1, ConversionInitially, ConversionTypeCorrect, MineStep, RoundTripStep, PTL DEF ConversionSpec

(* WritesExactly: a record is changed only by calls that return true, and to what *)
(* they were given, with the same exception.                                   *)
THEOREM PutsAreExact ==
  ASSUME \A t \in Types : ~HandedOver(t)
  PROVE  ConversionSpec => WritesExactly
<1>1. ConversionTypes => ~HandedOver(type)
  BY DEF ConversionTypes
<1>2. ConversionTypes /\ [ConversionNext]_conversionVars =>
        [record' # record /\ answer' # "none" => answer' = "true" /\ Written(request')]_conversionVars
  BY <1>1, WriteStep
<1> QED
  BY <1>2, ConversionTypeCorrect, PTL DEF ConversionSpec, WritesExactly
==============================================================================
