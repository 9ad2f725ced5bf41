-------------------------- MODULE PvAccessRPCProofs --------------------------
(***************************************************************************)
(* Proofs about PvAccessRPC, for any sets of calls and any number of waiting *)
(* requests, with a server of this library or another one.                   *)
(***************************************************************************)
EXTENDS PvAccessRPC, TLAPS

(* Taking the first of a queue. *)
LEMMA HeadTail ==
  ASSUME NEW q \in Seq(Calls), q # <<>>
  PROVE  /\ Head(q) \in Calls /\ Head(q) = q[1] /\ 1 \in 1..Len(q)
         /\ Tail(q) \in Seq(Calls)
         /\ Len(q) \in Nat /\ Len(Tail(q)) = Len(q) - 1
         /\ \A i \in 1..Len(Tail(q)) : i + 1 \in 1..Len(q) /\ Tail(q)[i] = q[i + 1]
OBVIOUS

(* Adding one at its end. *)
LEMMA AddLast ==
  ASSUME NEW q \in Seq(Calls), NEW c \in Calls, NEW r, r = Append(q, c)
  PROVE  /\ r \in Seq(Calls)
         /\ Len(q) \in Nat /\ Len(r) = Len(q) + 1
         /\ \A i \in 1..Len(q) : r[i] = q[i]
         /\ r[Len(q) + 1] = c
OBVIOUS

(* Typed is inductive. *)
LEMMA TypeStep == Typed /\ [Next]_vars => Typed'
<1> SUFFICES ASSUME Typed, [Next]_vars PROVE Typed'
  OBVIOUS
<1> USE DEF Typed, serverVars, callVars
<1>1. ASSUME NEW c \in Calls, NEW r \in Requests, Call(c, r) PROVE Typed'
  BY <1>1 DEF Call, Return, Answers
<1>2. ASSUME NEW c \in Calls, Receive(c) \/ Timeout(c) PROVE Typed'
  <2>1. answer' \in [Calls -> Answers] /\ arrived' \in [Calls -> Replies \cup {"none"}]
    BY <1>2 DEF Receive, Timeout, Return, Decoded, Answers, Replies
  <2> QED
    BY <1>2, <2>1 DEF Receive, Timeout, Return
<1>3. ASSUME NEW c \in Calls, Send(c) PROVE Typed'
  <2>1. queue' \in Seq(Calls)
    BY <1>3, AddLast DEF Send
  <2> QED
    BY <1>3, <2>1 DEF Send
<1>4. ASSUME NEW c \in Calls, Lose(c) PROVE Typed'
  BY <1>4 DEF Lose, Arrive, Replies
<1>5. CASE ForeignReply
  <2>1. queue' \in Seq(Calls)
    BY <1>5, HeadTail DEF ForeignReply
  <2>2. arrived' \in [Calls -> Replies \cup {"none"}]
    BY <1>5, HeadTail DEF ForeignReply, Arrive, Replies
  <2> QED
    BY <1>5, <2>1, <2>2 DEF ForeignReply
<1>6. CASE BeginRequest
  <2>1. queue' \in Seq(Calls) /\ Head(queue) \in Calls
    BY <1>6, HeadTail DEF BeginRequest
  <2>2. worker' \in Calls \cup {Idle} /\ runs' \in [Calls -> Nat]
    BY <1>6, <2>1 DEF BeginRequest
  <2>3. arrived' \in [Calls -> Replies \cup {"none"}]
    BY <1>6, <2>1 DEF BeginRequest, Arrive, Replies, Errors
  <2> QED
    BY <1>6, <2>1, <2>2, <2>3 DEF BeginRequest
<1>7. CASE EndRequest
  <2>1. arrived' \in [Calls -> Replies \cup {"none"}]
    BY <1>7 DEF EndRequest, Arrive, Encoded, Replies, Errors
  <2> QED
    BY <1>7, <2>1 DEF EndRequest
<1>8. CASE AddPV \/ OnRPC \/ Start \/ Destruct
  BY <1>8 DEF AddPV, OnRPC, Start, Destruct
<1>9. CASE Stopped
  <2>1. queue' \in Seq(Calls)
    BY <1>9 DEF Stopped
  <2> QED
    BY <1>9, <2>1 DEF Stopped
<1>10. CASE UNCHANGED vars
  BY <1>10 DEF vars
<1> QED
  BY <1>1, <1>2, <1>3, <1>4, <1>5, <1>6, <1>7, <1>8, <1>9, <1>10 DEF Next

LEMMA TypedInit == Init => Typed
<1> SUFFICES ASSUME Init PROVE Typed
  OBVIOUS
<1>1. queue \in Seq(Calls)
  BY DEF Init
<1> QED
  BY <1>1 DEF Init, Typed, Requests, Answers

LEMMA TypedAlways == Spec => []Typed
BY TypedInit, TypeStep, PTL DEF Spec

(* Every variable always has its type, and a client never returns a reply     *)
(* that has no AnyValue.                                                      *)
THEOREM TypeCorrect == Spec => []TypeOK
<1>1. Init => TypeOK
  BY TypedInit DEF Init, TypeOK, Calls
<1>2. TypeOK /\ [Next]_vars => TypeOK'
  <2> SUFFICES ASSUME TypeOK, [Next]_vars PROVE TypeOK'
    OBVIOUS
  <2>1. Typed /\ Typed'
    BY TypeStep DEF TypeOK
  <2>2. ASSUME NEW c \in Calls, NEW r \in Requests, Call(c, r) PROVE TypeOK'
    <3>1. \A d \in Calls : answer'[d] \in {answer[d], "empty", "ClientNetworkEncodingError"}
      BY <2>1, <2>2 DEF Call, Return, Typed
    <3> QED
      BY <2>1, <3>1 DEF TypeOK, Calls
  <2>3. ASSUME NEW c \in Calls, Receive(c) \/ Timeout(c) PROVE TypeOK'
    <3>1. \A d \in Clients : answer'[d] = answer[d] \/ answer'[d] \notin {"nothing", "union"}
      BY <2>1, <2>3 DEF Receive, Timeout, Return, Decoded, Typed, Calls
    <3> QED
      BY <2>1, <3>1 DEF TypeOK
  <2>4. answer' = answer => TypeOK'
    BY <2>1 DEF TypeOK
  <2>5. \/ \E c \in Calls : (\E r \in Requests : Call(c, r)) \/ Receive(c) \/ Timeout(c)
        \/ answer' = answer
    BY DEF Next, Send, Lose, ForeignReply, BeginRequest, EndRequest, AddPV, OnRPC, Start, Destruct,
           Stopped, vars, callVars, serverVars
  <2> QED
    BY <2>2, <2>3, <2>4, <2>5
<1> QED
  BY <1>1, <1>2, PTL DEF Spec

(* HandlerOutlivesCalls: the handler is not called any more once the          *)
(* destructor of the server has returned.                                     *)
THEOREM NoCallAfterDestruction == Spec => []HandlerOutlivesCalls
<1>1. Init => HandlerOutlivesCalls
  BY DEF Init, HandlerOutlivesCalls
<1>2. HandlerOutlivesCalls /\ [Next]_vars => HandlerOutlivesCalls'
  BY DEF Next, vars, HandlerOutlivesCalls, serverVars, callVars, Call, Receive, Timeout, Send, Lose,
         ForeignReply, BeginRequest, EndRequest, AddPV, OnRPC, Start, Destruct, Stopped
<1> QED
  BY <1>1, <1>2, PTL DEF Spec

------------------------------------------------------------------------------
(* What the answers tell.                                                  *)

(* A call whose request is at the server has no reply yet: it waits, or was   *)
(* given up.                                                                 *)
AtServer(c) == /\ pc[c] \in {"waiting", "returned"}
               /\ arrived[c] \in {"none", "lost"}
               /\ answer[c] \in {"none", "NotConnected", "lost"}

(* A request is at the server once at most, and one in the queue was not handled. *)
InQueue == \A i \in 1..Len(queue) : /\ AtServer(queue[i])
                                    /\ runs[queue[i]] = 0
                                    /\ worker # queue[i]
Apart == \A i, j \in 1..Len(queue) : queue[i] = queue[j] => i = j

InHand == worker # Idle => /\ ours
                           /\ AtServer(worker)
                           /\ runs[worker] = 1

(* Where a call is says what there is of it. *)
CallState == \A c \in Calls : /\ pc[c] \in {"unmade", "connecting"} => runs[c] = 0
                              /\ pc[c] # "waiting" => arrived[c] = "none"
                              /\ pc[c] = "returned" <=> answer[c] # "none"
                              /\ runs[c] \in {0, 1}

(* A reply on its way, and an answer, tell how often the handler was called. *)
Tells(c, a) ==
  ours => /\ a \in {"result", "ServerNetworkEncodingError"} => runs[c] = 1
          /\ a \in {"empty", "ClientNetworkEncodingError", "ServerNetworkDecodingError", "refused"}
               => runs[c] = 0
          /\ a \notin {"nothing", "union"}

(* What comes back from another program. *)
ForeignReplies == {"none", "lost", "result", "nothing", "union"}

Telling == \A c \in Calls : /\ Tells(c, arrived[c]) /\ Tells(c, answer[c])
                            /\ ~ours => arrived[c] \in ForeignReplies

TellInv == InQueue /\ Apart /\ InHand /\ CallState /\ Telling

(* The replies of Arrive(), and nothing else, change. *)
LEMMA ArriveFacts ==
  ASSUME Typed, NEW c \in Calls, NEW a, Arrive(c, a)
  PROVE  /\ \A d \in Calls \ {c} : arrived'[d] = arrived[d]
         /\ arrived'[c] = arrived[c] \/ (pc[c] = "waiting" /\ arrived'[c] = a)
BY DEF Typed, Arrive

(* A call that does not concern the server. *)
LEMMA TellCaller ==
  ASSUME Typed, TellInv, NEW c \in Calls,
         (\E r \in Requests : Call(c, r)) \/ Receive(c) \/ Timeout(c)
  PROVE  TellInv'
<1>1. /\ UNCHANGED <<ours, queue, worker, runs>>
      /\ \A d \in Calls \ {c} : pc'[d] = pc[d] /\ arrived'[d] = arrived[d] /\ answer'[d] = answer[d]
  BY DEF Call, Receive, Timeout, Return, serverVars, Typed
<1>2. \/ /\ pc[c] = "unmade" /\ pc'[c] \in {"connecting", "returned"} /\ arrived'[c] = "none"
         /\ IF pc'[c] = "connecting" THEN answer'[c] = "none"
              ELSE answer'[c] \in {"empty", "ClientNetworkEncodingError"}
      \/ /\ pc[c] \in {"connecting", "waiting"} /\ pc'[c] = "returned" /\ arrived'[c] = "none"
         /\ \/ answer'[c] = "NotConnected"
            \/ arrived[c] # "none" /\ answer'[c] = Decoded(c, arrived[c])
  <2>1. ASSUME NEW r \in Requests, Call(c, r)
        PROVE  /\ pc[c] = "unmade" /\ pc'[c] \in {"connecting", "returned"} /\ arrived'[c] = "none"
               /\ IF pc'[c] = "connecting" THEN answer'[c] = "none"
                    ELSE answer'[c] \in {"empty", "ClientNetworkEncodingError"}
    <3>1. pc[c] = "unmade" /\ arrived[c] = "none" /\ answer[c] = "none"
      BY <2>1 DEF Call, TellInv, CallState
    <3> QED
      BY <2>1, <3>1 DEF Call, Return, Typed
  <2>2. ASSUME Receive(c) \/ Timeout(c)
        PROVE  /\ pc[c] \in {"connecting", "waiting"} /\ pc'[c] = "returned" /\ arrived'[c] = "none"
               /\ \/ answer'[c] = "NotConnected"
                  \/ arrived[c] # "none" /\ answer'[c] = Decoded(c, arrived[c])
    BY <2>2 DEF Receive, Timeout, Return, Typed, TellInv, CallState
  <2> QED
    BY <2>1, <2>2
<1>3. AtServer(c) => AtServer(c)'
  BY <1>2 DEF AtServer, Decoded
<1>4. \A d \in Calls : AtServer(d) => AtServer(d)'
  BY <1>1, <1>3 DEF AtServer
<1>5. \A i \in 1..Len(queue) : queue[i] \in Calls
  BY DEF Typed
<1>6. InQueue' /\ Apart'
  BY <1>1, <1>4, <1>5 DEF TellInv, InQueue, Apart
<1>7. InHand'
  BY <1>1, <1>4 DEF TellInv, InHand, Typed
<1>8. CallState'
  <2>1. /\ pc'[c] = "connecting" => runs'[c] = 0
        /\ pc'[c] \in {"connecting", "returned"}
        /\ pc'[c] = "returned" <=> answer'[c] # "none"
    BY <1>1, <1>2 DEF TellInv, CallState, Decoded
  <2> QED
    BY <1>1, <1>2, <2>1 DEF TellInv, CallState
<1>9. Tells(c, answer'[c])
  <2>1. CASE pc[c] = "unmade"
    BY <1>2, <2>1 DEF TellInv, CallState, Telling, Tells
  <2>2. CASE pc[c] # "unmade"
    BY <1>2, <2>2 DEF TellInv, Telling, Tells, Decoded, Typed, Replies, Errors
  <2> QED
    BY <2>1, <2>2
<1>10. arrived'[c] = "none"
  BY <1>2
<1>11. Telling'
  BY <1>1, <1>9, <1>10 DEF TellInv, Telling, Tells, ForeignReplies
<1> QED
  BY <1>6, <1>7, <1>8, <1>11 DEF TellInv

LEMMA TellSend ==
  ASSUME Typed, TellInv, NEW c \in Calls, Send(c)
  PROVE  TellInv'
<1>1. /\ UNCHANGED <<ours, worker, runs, arrived, answer>>
      /\ pc[c] = "connecting" /\ pc'[c] = "waiting"
      /\ \A d \in Calls \ {c} : pc'[d] = pc[d]
      /\ queue' = Append(queue, c)
  BY DEF Send, Typed
<1>2. /\ Len(queue) \in Nat /\ Len(queue') = Len(queue) + 1
      /\ \A i \in 1..Len(queue) : queue'[i] = queue[i]
      /\ queue'[Len(queue) + 1] = c
  BY <1>1, AddLast DEF Typed
<1>3. ~AtServer(c) /\ AtServer(c)' /\ runs[c] = 0 /\ arrived[c] = "none" /\ answer[c] = "none"
  BY <1>1 DEF AtServer, TellInv, CallState
<1>4. \A d \in Calls : AtServer(d) => AtServer(d)'
  BY <1>1, <1>3 DEF AtServer
<1>5. \A i \in 1..Len(queue) : queue[i] \in Calls
  BY DEF Typed
<1>6. worker # c
  BY <1>3, RPCAssumption DEF TellInv, InHand
<1>7. \A i \in 1..Len(queue) : /\ queue[i] # c /\ AtServer(queue[i])
                               /\ runs[queue[i]] = 0 /\ worker # queue[i]
  BY <1>3, <1>5 DEF TellInv, InQueue
<1>8. ASSUME NEW i \in 1..Len(queue') PROVE i \in 1..Len(queue) \/ i = Len(queue) + 1
  BY <1>2
<1>9. InQueue'
  <2> SUFFICES ASSUME NEW i \in 1..Len(queue')
               PROVE  AtServer(queue[i])' /\ runs'[queue'[i]] = 0 /\ worker' # queue'[i]
    BY DEF InQueue
  <2>1. CASE i \in 1..Len(queue)
    <3>1. queue'[i] = queue[i] /\ queue[i] \in Calls
      BY <1>2, <1>5, <2>1
    <3>2. AtServer(queue[i]) /\ runs[queue[i]] = 0 /\ worker # queue[i] /\ queue[i] # c
      BY <1>7, <2>1
    <3> QED
      BY <1>1, <3>1, <3>2 DEF AtServer
  <2>2. CASE i = Len(queue) + 1
    BY <1>1, <1>2, <1>3, <1>6, <2>2 DEF AtServer
  <2> QED
    BY <1>8, <2>1, <2>2
<1>10. Apart'
  BY <1>2, <1>7, <1>8 DEF TellInv, Apart
<1>11. InHand'
  BY <1>1, <1>4 DEF TellInv, InHand, Typed
<1>12. CallState'
  BY <1>1, <1>3 DEF TellInv, CallState
<1>13. Telling'
  BY <1>1 DEF TellInv, Telling, Tells
<1> QED
  BY <1>9, <1>10, <1>11, <1>12, <1>13 DEF TellInv

LEMMA TellLose ==
  ASSUME Typed, TellInv, NEW c \in Calls, Lose(c)
  PROVE  TellInv'
<1>1. /\ UNCHANGED <<ours, queue, worker, runs, answer>>
      /\ pc[c] \in {"connecting", "waiting"}
  BY DEF Lose, serverVars
<1>2. /\ \A d \in Calls \ {c} : arrived'[d] = arrived[d] /\ pc'[d] = pc[d]
      /\ arrived'[c] = "lost" /\ pc'[c] = "waiting"
  BY DEF Lose, Typed
<1>3. \A d \in Calls : AtServer(d) => AtServer(d)'
  BY <1>1, <1>2 DEF AtServer
<1>4. \A i \in 1..Len(queue) : queue[i] \in Calls
  BY DEF Typed
<1>5. InQueue' /\ Apart'
  BY <1>1, <1>3, <1>4 DEF TellInv, InQueue, Apart
<1>6. InHand'
  BY <1>1, <1>3 DEF TellInv, InHand, Typed
<1>7. CallState'
  BY <1>1, <1>2 DEF TellInv, CallState
<1>8. Telling'
  BY <1>1, <1>2 DEF TellInv, Telling, Tells, ForeignReplies
<1> QED
  BY <1>5, <1>6, <1>7, <1>8 DEF TellInv

(* The worker, or another server, takes the first request: what remains. *)
LEMMA TakeHead ==
  ASSUME Typed, TellInv, queue # <<>>, queue' = Tail(queue), NEW c, c = Head(queue)
  PROVE  /\ c \in Calls /\ AtServer(c) /\ runs[c] = 0 /\ worker # c
         /\ Apart'
         /\ \A i \in 1..Len(queue') : /\ queue'[i] \in Calls \ {c}
                                      /\ AtServer(queue'[i])
                                      /\ runs[queue'[i]] = 0
                                      /\ worker # queue'[i]
<1>1. /\ c \in Calls /\ c = queue[1] /\ 1 \in 1..Len(queue)
      /\ Len(queue) \in Nat /\ Len(queue') = Len(queue) - 1
      /\ \A i \in 1..Len(queue') : i + 1 \in 1..Len(queue) /\ queue'[i] = queue[i + 1]
  BY HeadTail DEF Typed
<1>2. \A i \in 1..Len(queue') : i + 1 # 1
  BY <1>1
<1>3. AtServer(c) /\ runs[c] = 0 /\ worker # c
  BY <1>1 DEF TellInv, InQueue
<1>4. Apart'
  <2> SUFFICES ASSUME NEW i \in 1..Len(queue'), NEW j \in 1..Len(queue'), queue'[i] = queue'[j]
               PROVE  i = j
    BY DEF Apart
  <2>1. i + 1 = j + 1
    BY <1>1 DEF TellInv, Apart
  <2> QED
    BY <1>1, <2>1
<1>5. ASSUME NEW i \in 1..Len(queue')
      PROVE  /\ queue'[i] \in Calls \ {c}
             /\ AtServer(queue'[i]) /\ runs[queue'[i]] = 0 /\ worker # queue'[i]
  <2>1. queue[i + 1] \in Calls
    BY <1>1 DEF Typed
  <2>2. queue[i + 1] # c
    BY <1>1, <1>2 DEF TellInv, Apart
  <2>3. AtServer(queue[i + 1]) /\ runs[queue[i + 1]] = 0 /\ worker # queue[i + 1]
    BY <1>1 DEF TellInv, InQueue
  <2> QED
    BY <1>1, <2>1, <2>2, <2>3
<1> QED
  BY <1>1, <1>3, <1>4, <1>5

LEMMA TellForeign ==
  ASSUME Typed, TellInv, ForeignReply
  PROVE  TellInv'
<1> DEFINE c == Head(queue)
<1>1. /\ ~ours /\ queue # <<>> /\ queue' = Tail(queue)
      /\ UNCHANGED <<ours, worker, pc, answer, runs>>
  BY DEF ForeignReply
<1>2. PICK a \in {"result", "nothing", "union"} : Arrive(c, a)
  BY DEF ForeignReply
<1>3. /\ c \in Calls /\ Apart'
      /\ \A i \in 1..Len(queue') : /\ queue'[i] \in Calls \ {c}
                                   /\ AtServer(queue'[i])
                                   /\ runs[queue'[i]] = 0
                                   /\ worker # queue'[i]
  BY <1>1, TakeHead
<1>4. /\ \A d \in Calls \ {c} : arrived'[d] = arrived[d]
      /\ arrived'[c] = arrived[c] \/ (pc[c] = "waiting" /\ arrived'[c] = a)
  BY <1>2, <1>3, ArriveFacts
<1> HIDE DEF c
<1>5. InQueue'
  BY <1>1, <1>3, <1>4 DEF InQueue, AtServer
<1>6. InHand'
  BY <1>1 DEF TellInv, InHand
<1>7. CallState'
  BY <1>1, <1>4 DEF TellInv, CallState
<1>8. Telling'
  BY <1>1, <1>2, <1>4 DEF TellInv, Telling, Tells, ForeignReplies
<1> QED
  BY <1>3, <1>5, <1>6, <1>7, <1>8 DEF TellInv

LEMMA TellBegin ==
  ASSUME Typed, TellInv, BeginRequest
  PROVE  TellInv'
<1> DEFINE c == Head(queue)
<1>1. /\ ours /\ worker = Idle /\ queue # <<>> /\ queue' = Tail(queue)
      /\ UNCHANGED <<ours, pc, answer>>
  BY DEF BeginRequest
<1>2. /\ c \in Calls /\ AtServer(c) /\ runs[c] = 0 /\ Apart'
      /\ \A i \in 1..Len(queue') : /\ queue'[i] \in Calls \ {c}
                                   /\ AtServer(queue'[i])
                                   /\ runs[queue'[i]] = 0
  BY <1>1, TakeHead
<1>3. \/ /\ worker' = c /\ runs' = [runs EXCEPT ![c] = @ + 1] /\ arrived' = arrived
      \/ /\ worker' = Idle /\ runs' = runs
         /\ \E a \in {"ServerNetworkDecodingError", "refused"} : Arrive(c, a)
  BY <1>1 DEF BeginRequest
<1> HIDE DEF c
<1>4. CASE worker' = c /\ runs' = [runs EXCEPT ![c] = @ + 1] /\ arrived' = arrived
  <2>1. runs'[c] = 1 /\ \A d \in Calls \ {c} : runs'[d] = runs[d]
    BY <1>2, <1>4 DEF Typed
  <2>2. InQueue'
    <3> SUFFICES ASSUME NEW i \in 1..Len(queue')
                 PROVE  AtServer(queue[i])' /\ runs'[queue'[i]] = 0 /\ worker' # queue'[i]
      BY DEF InQueue
    <3>1. queue'[i] \in Calls \ {c} /\ AtServer(queue'[i]) /\ runs[queue'[i]] = 0
      BY <1>2
    <3> QED
      BY <1>1, <1>4, <2>1, <3>1 DEF AtServer
  <2>3. InHand'
    BY <1>1, <1>2, <1>4, <2>1 DEF InHand, AtServer
  <2>4. CallState'
    BY <1>1, <1>2, <1>4, <2>1 DEF TellInv, CallState, AtServer
  <2>5. Telling'
    <3>1. ASSUME NEW d \in Calls
          PROVE  /\ Tells(d, arrived[d])' /\ Tells(d, answer[d])'
                 /\ ~ours' => arrived'[d] \in ForeignReplies
      <4>1. CASE d = c
        BY <1>1, <1>2, <1>4, <4>1 DEF Tells, AtServer
      <4>2. CASE d # c
        BY <1>1, <1>4, <2>1, <4>2 DEF TellInv, Telling, Tells
      <4> QED
        BY <4>1, <4>2
    <3> QED
      BY <3>1 DEF Telling
  <2> QED
    BY <1>2, <2>2, <2>3, <2>4, <2>5 DEF TellInv
<1>5. CASE /\ worker' = Idle /\ runs' = runs
           /\ \E a \in {"ServerNetworkDecodingError", "refused"} : Arrive(c, a)
  <2>1. PICK a \in {"ServerNetworkDecodingError", "refused"} : Arrive(c, a)
    BY <1>5
  <2>2. /\ \A d \in Calls \ {c} : arrived'[d] = arrived[d]
        /\ arrived'[c] = arrived[c] \/ (pc[c] = "waiting" /\ arrived'[c] = a)
    BY <1>2, <2>1, ArriveFacts
  <2>3. InQueue'
    BY <1>1, <1>2, <1>5, <2>2, RPCAssumption DEF InQueue, AtServer
  <2>4. InHand'
    BY <1>5 DEF InHand
  <2>5. CallState'
    BY <1>1, <1>5, <2>2 DEF TellInv, CallState
  <2>6. Telling'
    BY <1>1, <1>2, <1>5, <2>1, <2>2 DEF TellInv, Telling, Tells
  <2> QED
    BY <1>2, <2>3, <2>4, <2>5, <2>6 DEF TellInv
<1> QED
  BY <1>3, <1>4, <1>5

LEMMA TellEnd ==
  ASSUME Typed, TellInv, EndRequest
  PROVE  TellInv'
<1> DEFINE c == worker
<1>1. /\ worker # Idle /\ worker' = Idle
      /\ UNCHANGED <<ours, queue, pc, answer, runs>>
  BY DEF EndRequest
<1>2. c \in Calls /\ ours /\ runs[c] = 1
  BY <1>1 DEF TellInv, InHand, Typed
<1>3. PICK a \in {"result", "ServerNetworkEncodingError"} : Arrive(c, a)
  BY DEF EndRequest, Encoded
<1>4. /\ \A d \in Calls \ {c} : arrived'[d] = arrived[d]
      /\ arrived'[c] = arrived[c] \/ (pc[c] = "waiting" /\ arrived'[c] = a)
  BY <1>2, <1>3, ArriveFacts
<1>5. \A i \in 1..Len(queue) : /\ queue[i] \in Calls \ {c}
                               /\ AtServer(queue[i]) /\ runs[queue[i]] = 0
  BY DEF TellInv, InQueue, Typed
<1> HIDE DEF c
<1>6. InQueue'
  BY <1>1, <1>4, <1>5, RPCAssumption DEF InQueue, AtServer
<1>7. Apart' /\ InHand'
  BY <1>1 DEF TellInv, Apart, InHand
<1>8. CallState'
  BY <1>1, <1>4 DEF TellInv, CallState
<1>9. Telling'
  BY <1>1, <1>2, <1>3, <1>4 DEF TellInv, Telling, Tells
<1> QED
  BY <1>6, <1>7, <1>8, <1>9 DEF TellInv

LEMMA TellStep == Typed /\ TellInv /\ [Next]_vars => TellInv'
<1> SUFFICES ASSUME Typed, TellInv, [Next]_vars PROVE TellInv'
  OBVIOUS
<1>1. CASE AddPV \/ OnRPC \/ Start \/ Destruct \/ UNCHANGED vars
  BY <1>1 DEF AddPV, OnRPC, Start, Destruct, vars, serverVars, callVars, TellInv, InQueue, Apart,
              InHand, CallState, Telling, Tells, AtServer
<1>2. CASE Stopped
  <2>1. Len(queue') = 0 /\ UNCHANGED <<ours, worker, callVars>> /\ worker = Idle
    BY <1>2 DEF Stopped
  <2> QED
    BY <2>1 DEF callVars, TellInv, InQueue, Apart, InHand, CallState, Telling, Tells
<1> QED
  BY <1>1, <1>2, TellCaller, TellSend, TellLose, TellForeign, TellBegin, TellEnd DEF Next

(* TellInv always holds. *)
LEMMA TellAlways == Spec => []TellInv
<1>1. Init => TellInv
  <2> SUFFICES ASSUME Init PROVE TellInv
    OBVIOUS
  <2>1. Len(queue) = 0
    BY DEF Init
  <2> QED
    BY <2>1 DEF Init, TellInv, InQueue, Apart, InHand, CallState, Telling, Tells, ForeignReplies
<1> QED
  BY <1>1, TellStep, TypedAlways, PTL DEF Spec

(* AnswerTells: from its answer a caller knows how often the handler was and  *)
(* will be called for its call, unless the call was given up.                 *)
THEOREM AnswersAreTrue == Spec => []AnswerTells
<1>1. TellInv => AnswerTells
  BY DEF TellInv, Telling, Tells, AnswerTells
<1> QED
  BY <1>1, TellAlways, PTL

------------------------------------------------------------------------------
(* The steps a caller sees are those of RemoteCall, and the others none.   *)
phases == [c \in Calls |-> Phase(c)]

(* A call that goes on, and no other, enters its next phase. *)
LEMMA PhaseStep ==
  ASSUME Typed, NEW c \in Calls,
         NEW p \in {"unmade", "connecting", "waiting", "returned"},
         pc' = [pc EXCEPT ![c] = p]
  PROVE  phases' = [phases EXCEPT ![c] = Phase(c)']
<1>1. \A d \in Calls \ {c} : Phase(d)' = Phase(d)
  BY DEF Phase, Typed
<1> QED
  BY <1>1 DEF phases

LEMMA StepRefines ==
  Typed /\ TellInv /\ [Next]_vars => [Promise!Next]_(Promise!vars)
<1> SUFFICES ASSUME Typed, TellInv, [Next]_vars PROVE [Promise!Next]_(Promise!vars)
  OBVIOUS
<1> USE DEF serverVars, callVars
<1>0. /\ runs \in [Calls -> Nat] /\ answer \in [Calls -> Answers]
      /\ pc \in [Calls -> {"unmade", "connecting", "waiting", "returned"}]
      /\ \A c \in Calls : phases[c] = Phase(c)
      /\ phases = [c \in Calls |-> Phase(c)]
  BY DEF Typed, phases
<1>1. ASSUME NEW c \in Calls, NEW r \in Requests, Call(c, r)
      PROVE  [Promise!Next]_(Promise!vars)
  <2>1. pc[c] = "unmade" /\ Phase(c) = "unmade" /\ UNCHANGED <<ours, runs>>
    BY <1>1 DEF Call, Phase
  <2>2. CASE Sent(r)
    <3>1. pc' = [pc EXCEPT ![c] = "connecting"] /\ answer' = answer
      BY <1>1, <2>2 DEF Call
    <3>2. pc'[c] = "connecting" /\ phases' = [phases EXCEPT ![c] = Phase(c)']
      BY <1>0, <3>1, PhaseStep
    <3>3. phases' = [phases EXCEPT ![c] = "made"]
      BY <3>2 DEF Phase
    <3>4. Promise!Begin(c)
      BY <1>0, <2>1, <3>1, <3>3 DEF Promise!Begin, phases
    <3> QED
      BY <3>4 DEF Promise!Next
  <2>3. CASE ~Sent(r)
    <3>1. /\ pc' = [pc EXCEPT ![c] = "returned"]
          /\ \E a \in Promise!Local : answer' = [answer EXCEPT ![c] = a]
      BY <1>1, <2>3 DEF Call, Return, Promise!Local
    <3>2. pc'[c] = "returned" /\ phases' = [phases EXCEPT ![c] = Phase(c)']
      BY <1>0, <3>1, PhaseStep
    <3>3. phases' = [phases EXCEPT ![c] = "returned"]
      BY <3>2 DEF Phase
    <3>4. Promise!AnswerLocally(c)
      BY <1>0, <2>1, <3>1, <3>3 DEF Promise!AnswerLocally, phases
    <3> QED
      BY <3>4 DEF Promise!Next
  <2> QED
    BY <2>2, <2>3
<1>2. ASSUME NEW c \in Calls, Receive(c) \/ Timeout(c) PROVE [Promise!Next]_(Promise!vars)
  <2>1. pc[c] \in {"connecting", "waiting"}
    BY <1>2 DEF Receive, Timeout, TellInv, CallState, Typed
  <2>2. Phase(c) = "made" /\ UNCHANGED <<ours, runs>> /\ pc' = [pc EXCEPT ![c] = "returned"]
    BY <1>2, <2>1 DEF Receive, Timeout, Return, Phase
  <2>3. pc'[c] = "returned" /\ phases' = [phases EXCEPT ![c] = Phase(c)']
    BY <1>0, <2>2, PhaseStep
  <2>4. phases' = [phases EXCEPT ![c] = "returned"]
    BY <2>3 DEF Phase
  <2>5. PICK a : /\ answer' = [answer EXCEPT ![c] = a]
                 /\ \/ a = "NotConnected"
                    \/ arrived[c] # "none" /\ a = Decoded(c, arrived[c])
    <3>1. CASE Receive(c)
      BY <3>1 DEF Receive, Return
    <3>2. CASE Timeout(c)
      <4>1. answer' = [answer EXCEPT ![c] = "NotConnected"]
        BY <3>2 DEF Timeout, Return
      <4> QED
        BY <4>1
    <3> QED
      BY <1>2, <3>1, <3>2
  <2>6. a \in Promise!Possible(c)
    <3> USE DEF Promise!Possible, Promise!Unknown
    <3>0. runs[c] \in {0, 1} /\ Tells(c, arrived[c]) /\ (~ours => arrived[c] \in ForeignReplies)
      BY DEF TellInv, CallState, Telling
    <3>1. CASE a = "NotConnected"
      BY <3>0, <3>1 DEF Promise!Foreign
    <3>2. CASE arrived[c] # "none" /\ a = Decoded(c, arrived[c]) /\ ~ours
      BY <3>0, <3>2 DEF Promise!Foreign, Decoded, ForeignReplies
    <3>3. CASE arrived[c] # "none" /\ a = Decoded(c, arrived[c]) /\ ours
      <4>1. a = arrived[c] /\ a \in {"result", "refused", "lost", "ServerNetworkDecodingError",
                                     "ServerNetworkEncodingError"}
        BY <3>0, <3>3 DEF Decoded, Tells, Typed, Replies, Errors
      <4> QED
        BY <3>0, <3>3, <4>1 DEF Promise!Before, Promise!After, Tells
    <3> QED
      BY <2>5, <3>1, <3>2, <3>3
  <2>7. Promise!End(c)
    BY <1>0, <2>2, <2>4, <2>5, <2>6 DEF Promise!End, phases
  <2> QED
    BY <2>7 DEF Promise!Next
<1>3. ASSUME NEW c \in Calls, Send(c) \/ Lose(c) PROVE [Promise!Next]_(Promise!vars)
  <2>1. /\ pc[c] \in {"connecting", "waiting"} /\ pc' = [pc EXCEPT ![c] = "waiting"]
        /\ UNCHANGED <<ours, runs, answer>>
    BY <1>3 DEF Send, Lose, serverVars
  <2>2. pc'[c] = "waiting" /\ phases' = [phases EXCEPT ![c] = Phase(c)']
    BY <1>0, <2>1, PhaseStep
  <2>3. Phase(c)' = phases[c]
    BY <1>0, <2>1, <2>2 DEF Phase
  <2>4. phases' = phases
    BY <1>0, <2>2, <2>3
  <2> QED
    BY <2>1, <2>4 DEF Promise!vars, phases
<1>4. CASE BeginRequest
  <2> DEFINE c == Head(queue)
  <2>1. queue # <<>> /\ queue' = Tail(queue) /\ ours /\ UNCHANGED <<ours, pc, answer>>
    BY <1>4 DEF BeginRequest
  <2>2. c \in Calls /\ AtServer(c) /\ runs[c] = 0
    BY <2>1, TakeHead
  <2>3. phases' = phases
    BY <2>1 DEF phases, Phase
  <2>4. runs' = runs \/ runs' = [runs EXCEPT ![c] = @ + 1]
    BY <1>4 DEF BeginRequest
  <2> HIDE DEF c
  <2>5. CASE runs' = runs
    BY <2>1, <2>3, <2>5 DEF Promise!vars, phases
  <2>6. CASE runs' = [runs EXCEPT ![c] = @ + 1]
    <3>1. runs' = [runs EXCEPT ![c] = 1]
      BY <1>0, <2>2, <2>6
    <3>2. Phase(c) = "made" \/ answer[c] \in Promise!Unknown
      <4>1. CASE pc[c] = "waiting"
        BY <4>1 DEF Phase
      <4>2. CASE pc[c] = "returned"
        BY <2>2, <4>2 DEF AtServer, TellInv, CallState, Promise!Unknown
      <4> QED
        BY <2>2, <4>1, <4>2 DEF AtServer
    <3>3. Promise!Execute(c)
      BY <1>0, <2>1, <2>2, <2>3, <3>1, <3>2 DEF Promise!Execute, phases
    <3> QED
      BY <2>2, <3>3 DEF Promise!Next
  <2> QED
    BY <2>4, <2>5, <2>6
<1>5. CASE \/ ForeignReply \/ EndRequest \/ AddPV \/ OnRPC \/ Start \/ Destruct \/ Stopped
           \/ UNCHANGED vars
  <2>1. UNCHANGED <<ours, pc, runs, answer>>
    BY <1>5 DEF ForeignReply, EndRequest, AddPV, OnRPC, Start, Destruct, Stopped, vars
  <2>2. phases' = phases
    BY <2>1 DEF phases, Phase
  <2> QED
    BY <2>1, <2>2 DEF Promise!vars, phases
<1> QED
  BY <1>1, <1>2, <1>3, <1>4, <1>5 DEF Next

(* ImplementsRemoteCall: whatever happens between a call and its answer, and  *)
(* after it, the handler is called for it once at most, the answer tells       *)
(* whether it was, and it is called later only for a call that was given up.  *)
THEOREM CallsKeepTheirPromise == Spec => ImplementsRemoteCall
<1>1. Init => Promise!Init
  BY DEF Init, Promise!Init, Phase
<1> QED
  BY <1>1, StepRefines, TellAlways, TypedAlways, PTL DEF Spec, ImplementsRemoteCall, Promise!Spec

------------------------------------------------------------------------------
(* Clients send nothing a server cannot decode, a server that takes requests  *)
(* has its handler, and what it replies clients can decode.                   *)
ClientsReplies ==
  \A c \in Clients : arrived[c] \in {"none", "result", "ServerNetworkEncodingError", "lost"}

SpeakInv == ours => /\ server \in {"started", "stopping"} => handlerSet
                    /\ \A c \in Clients : request[c] # "union"
                    /\ ClientsReplies
                    /\ SpeakTheSame

LEMMA SpeakStep == Typed /\ SpeakInv /\ [Next]_vars => SpeakInv'
<1> SUFFICES ASSUME Typed, SpeakInv, [Next]_vars, ours' PROVE SpeakInv'
  BY DEF SpeakInv
<1> USE DEF serverVars, callVars
<1>0. ours' = ours
  BY DEF Next, Call, Receive, Timeout, Send, Lose, ForeignReply, BeginRequest, EndRequest,
         AddPV, OnRPC, Start, Destruct, Stopped, vars
<1>1. ASSUME NEW c \in Calls, NEW r \in Requests, Call(c, r) PROVE SpeakInv'
  BY <1>0, <1>1 DEF Call, Return, Typed, Calls, SpeakInv, ClientsReplies, SpeakTheSame
<1>2. ASSUME NEW c \in Calls, Receive(c) \/ Timeout(c) PROVE SpeakInv'
  <2>1. /\ UNCHANGED <<request, server, handlerSet>>
        /\ arrived' = [arrived EXCEPT ![c] = "none"]
    BY <1>2 DEF Receive, Timeout, Return
  <2>2. ClientsReplies'
    BY <1>0, <2>1 DEF Typed, SpeakInv, ClientsReplies, Calls
  <2>3. ASSUME NEW d \in Clients
        PROVE  answer'[d] \in {answer[d], arrived[d], "NotConnected"}
    <3>1. CASE d # c
      BY <1>2, <3>1 DEF Typed, Receive, Timeout, Return, Calls
    <3>2. CASE d = c
      <4>1. arrived[c] \in {"none", "result", "ServerNetworkEncodingError", "lost"}
        BY <1>0, <3>2 DEF SpeakInv, ClientsReplies
      <4> QED
        BY <1>2, <3>2, <4>1 DEF Typed, Receive, Timeout, Return, Decoded
    <3> QED
      BY <3>1, <3>2
  <2>4. SpeakTheSame'
    BY <1>0, <2>3 DEF SpeakInv, SpeakTheSame, ClientsReplies
  <2> QED
    BY <1>0, <2>1, <2>2, <2>4 DEF SpeakInv
<1>3. ASSUME NEW c \in Calls, Send(c) PROVE SpeakInv'
  BY <1>0, <1>3 DEF Send, SpeakInv, ClientsReplies, SpeakTheSame
<1>4. ASSUME NEW c \in Calls, Lose(c) PROVE SpeakInv'
  BY <1>0, <1>4 DEF Lose, Arrive, Typed, SpeakInv, ClientsReplies, SpeakTheSame, Calls
<1>5. CASE ForeignReply
  BY <1>0, <1>5 DEF ForeignReply
<1>6. CASE BeginRequest
  <2> DEFINE c == Head(queue)
  <2>1. c \in Calls /\ handlerSet
    BY <1>0, <1>6, HeadTail DEF BeginRequest, SpeakInv, Typed
  <2>2. \A d \in Clients : arrived'[d] = arrived[d]
    <3>1. CASE Decodes(request[c])
      BY <1>6, <2>1, <3>1 DEF BeginRequest
    <3>2. CASE ~Decodes(request[c])
      <4>1. c \notin Clients
        BY <1>0, <3>2 DEF SpeakInv, Decodes
      <4>2. Arrive(c, "ServerNetworkDecodingError")
        BY <1>6, <2>1, <3>2 DEF BeginRequest
      <4> QED
        BY <2>1, <4>1, <4>2, ArriveFacts DEF Calls
    <3> QED
      BY <3>1, <3>2
  <2> QED
    BY <1>0, <1>6, <2>2 DEF BeginRequest, SpeakInv, ClientsReplies, SpeakTheSame
<1>7. CASE EndRequest
  BY <1>0, <1>7 DEF EndRequest, Arrive, Encoded, Typed, SpeakInv, ClientsReplies, SpeakTheSame, Calls
<1>8. CASE AddPV \/ OnRPC \/ Start \/ Destruct \/ Stopped \/ UNCHANGED vars
  BY <1>0, <1>8 DEF AddPV, OnRPC, Start, Destruct, Stopped, vars, SpeakInv, ClientsReplies,
                    SpeakTheSame
<1> QED
  BY <1>1, <1>2, <1>3, <1>4, <1>5, <1>6, <1>7, <1>8 DEF Next

(* SpeakTheSame: a client and a server of this library understand each other. *)
THEOREM NothingIsMisunderstood == Spec => []SpeakTheSame
<1>1. Init => SpeakInv
  BY DEF Init, SpeakInv, ClientsReplies, SpeakTheSame, Calls
<1>2. SpeakInv => SpeakTheSame
  BY DEF SpeakInv, SpeakTheSame
<1> QED
  BY <1>1, <1>2, SpeakStep, TypedAlways, PTL DEF Spec
==============================================================================
