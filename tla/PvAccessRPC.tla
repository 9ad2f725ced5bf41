----------------------------- MODULE PvAccessRPC -----------------------------
(***************************************************************************)
(* rpc/*.cpp: remote procedure calls over PVXS, from the caller's request to *)
(* the answer it returns with, and the life of a server object.              *)
(*                                                                         *)
(* Either side may be another program: Others call the service with PVXS    *)
(* values that have no AnyValue, and when ours is FALSE the service is not   *)
(* a PvAccessRPCServer, and may reply with anything.                        *)
(*                                                                         *)
(* A call is made once: who repeats one makes another.  Calls do not know of *)
(* each other, so that any of them may be made by the same thread, one after *)
(* the other, or at the same time by several.                              *)
(*                                                                         *)
(* PVXS (external) hands requests to the server's one worker in order, also  *)
(* those whose call has been given up meanwhile, refuses a request for which *)
(* no handler was set, and fails calls whose connection is lost; stop()      *)
(* waits for the worker.  The timeout of a call may expire at any time.      *)
(***************************************************************************)
EXTENDS Naturals, Sequences

CONSTANTS Clients,      (* the calls that are made with a PvAccessRPCClient *)
          Others,       (* the calls of programs without this library *)
          Idle,         (* the worker's call when it has none *)
          MaxRequests   (* bound on the requests that wait for the worker *)

Calls == Clients \cup Others

ASSUME RPCAssumption == /\ Clients \cap Others = {}
                        /\ Idle \notin Calls
                        /\ MaxRequests \in Nat

VARIABLES ours,         (* the service is a PvAccessRPCServer *)
          server,       (* where the server object is in its life *)
          handlerSet,   (* shared_pv has its handler for requests *)
          queue,        (* the calls whose requests are at the server *)
          worker,       (* the call whose handler runs, or Idle *)
          pc,           (* where each call is *)
          request,      (* what it sends *)
          arrived,      (* the reply on its way to it *)
          answer,       (* what it returned *)
          runs          (* history: how often the handler was called for it *)

serverVars == <<ours, server, handlerSet, queue, worker>>
callVars == <<pc, request, arrived, answer, runs>>
vars == <<serverVars, callVars>>

(* A request: nothing, an array of arrays, a value, or a PVXS union. *)
Requests == {"empty", "nested", "value", "union"}

(* What comes back over the network, or "none" yet.  Refused and lost are the *)
(* exceptions of wait() that are not its timeout.                             *)
Errors == {"ServerNetworkDecodingError", "ServerNetworkEncodingError"}
Replies == {"result", "nothing", "union", "refused", "lost"} \cup Errors

Answers == {"none", "empty", "NotConnected", "ClientNetworkEncodingError",
            "ClientNetworkDecodingError"} \cup Replies

Init == /\ ours \in BOOLEAN
        /\ server = IF ours THEN "none" ELSE "started"
        /\ handlerSet = FALSE
        /\ queue = <<>>
        /\ worker = Idle
        /\ pc = [c \in Calls |-> "unmade"]
        /\ request = [c \in Calls |-> "value"]
        /\ arrived = [c \in Calls |-> "none"]
        /\ answer = [c \in Calls |-> "none"]
        /\ runs = [c \in Calls |-> 0]

------------------------------------------------------------------------------
(* The caller: PvAccessRPCClientImpl::operator() and ClientRPCCall().      *)

(* The call goes, and its operation with its handle.  What the server has of *)
(* it stays there.                                                        *)
Return(c, a) == /\ answer' = [answer EXCEPT ![c] = a]
                /\ pc' = [pc EXCEPT ![c] = "returned"]
                /\ arrived' = [arrived EXCEPT ![c] = "none"]

(* BuildPVXSValue() knows no arrays of arrays, and an empty request is not sent. *)
Sent(r) == r \notin {"empty", "nested"}

Call(c, r) == /\ pc[c] = "unmade"
              /\ IF c \in Clients THEN r # "union" ELSE Sent(r)
              /\ request' = [request EXCEPT ![c] = r]
              /\ IF Sent(r)
                   THEN pc' = [pc EXCEPT ![c] = "connecting"] /\ UNCHANGED <<answer, arrived>>
                   ELSE Return(c, IF r = "empty" THEN "empty" ELSE "ClientNetworkEncodingError")
              /\ UNCHANGED <<runs, serverVars>>

(* A reply without a value, and one that has no AnyValue, are errors. *)
Decoded(c, reply) ==
  IF c \in Clients /\ reply \in {"nothing", "union"} THEN "ClientNetworkDecodingError" ELSE reply

(* wait() returns, or throws; only its timeout is caught. *)
Receive(c) == /\ arrived[c] # "none"
              /\ Return(c, Decoded(c, arrived[c]))
              /\ UNCHANGED <<request, runs, serverVars>>

(* Mutant: a call waits without a limit. *)
Mut_WaitForever(c) == FALSE

(* Mutant: the client sends the request again when the call times out. *)
Mut_Resend(c) == /\ pc[c] = "waiting"
                 /\ arrived[c] = "none"
                 /\ pc' = [pc EXCEPT ![c] = "connecting"]
                 /\ UNCHANGED <<request, arrived, answer, runs, serverVars>>

Timeout(c) == /\ pc[c] \in {"connecting", "waiting"}
              /\ Return(c, "NotConnected")
              /\ UNCHANGED <<request, runs, serverVars>>

------------------------------------------------------------------------------
(* PVXS.                                                                   *)

(* The channel is connected, and the request goes to the server. *)
Send(c) == /\ pc[c] = "connecting"
           /\ server = "started"
           /\ Len(queue) < MaxRequests
           /\ pc' = [pc EXCEPT ![c] = "waiting"]
           /\ queue' = Append(queue, c)
           /\ UNCHANGED <<request, arrived, answer, runs, ours, server, handlerSet, worker>>

(* Whoever waits gets the first thing that comes. *)
Arrive(c, reply) ==
  arrived' = IF pc[c] = "waiting" /\ arrived[c] = "none"
               THEN [arrived EXCEPT ![c] = reply] ELSE arrived

(* The connection is lost before the reply, as it is when the server stops,   *)
(* or with the request that was just sent.                                    *)
Lose(c) == /\ pc[c] = "waiting" \/ (pc[c] = "connecting" /\ server = "started")
           /\ arrived[c] = "none"
           /\ arrived' = [arrived EXCEPT ![c] = "lost"]
           /\ pc' = [pc EXCEPT ![c] = "waiting"]
           /\ UNCHANGED <<request, answer, runs, serverVars>>

ForeignReply == /\ ~ours
                /\ queue # <<>>
                /\ queue' = Tail(queue)
                /\ \E reply \in {"result", "nothing", "union"} : Arrive(Head(queue), reply)
                /\ UNCHANGED <<ours, server, handlerSet, worker, pc, request, answer, runs>>

------------------------------------------------------------------------------
(* The server: HandleRPCCall(), called by the worker.                      *)

(* BuildAnyValue() throws for a union. *)
Decodes(r) == r # "union"

BeginRequest ==
  /\ ours /\ server \in {"started", "stopping"}
  /\ worker = Idle
  /\ queue # <<>>
  /\ queue' = Tail(queue)
  /\ LET c == Head(queue) IN
       IF handlerSet /\ Decodes(request[c])
         THEN /\ worker' = c
              /\ runs' = [runs EXCEPT ![c] = @ + 1]
              /\ UNCHANGED arrived
         ELSE /\ Arrive(c, IF handlerSet THEN "ServerNetworkDecodingError" ELSE "refused")
              /\ UNCHANGED <<worker, runs>>
  /\ UNCHANGED <<ours, server, handlerSet, pc, request, answer>>

(* What the handler does: a reply, or none, or one that has no PVXS value. *)
Encoded(r) == IF r = "value" THEN "result" ELSE "ServerNetworkEncodingError"

(* The handler returned, or threw an exception, and op->reply(). *)
EndRequest == /\ worker # Idle
              /\ \E r \in {"value", "empty", "nested", "throws"} : Arrive(worker, Encoded(r))
              /\ worker' = Idle
              /\ UNCHANGED <<ours, server, handlerSet, queue, pc, request, answer, runs>>

------------------------------------------------------------------------------
(* The server object: Initialise() and the destructor.                     *)

(* Mutant: the server is started before it has its handler. *)
Mut_StartFirst == /\ server = "none"
                  /\ server' = "started"
                  /\ UNCHANGED <<ours, handlerSet, queue, worker, callVars>>

(* addPV(). *)
AddPV == /\ server = "none"
         /\ server' = "added"
         /\ UNCHANGED <<ours, handlerSet, queue, worker, callVars>>

OnRPC == /\ server = "added"
         /\ ~handlerSet
         /\ handlerSet' = TRUE
         /\ UNCHANGED <<ours, server, queue, worker, callVars>>

Start == /\ server = "added"
         /\ handlerSet
         /\ server' = "started"
         /\ UNCHANGED <<ours, handlerSet, queue, worker, callVars>>

Destruct == /\ ours
            /\ server = "started"
            /\ server' = "stopping"
            /\ UNCHANGED <<ours, handlerSet, queue, worker, callVars>>

(* Mutant: the destructor does not stop the server. *)
Mut_NoStop == /\ server = "stopping"
              /\ server' = "none"
              /\ handlerSet' = FALSE
              /\ UNCHANGED <<ours, queue, worker, callVars>>

(* stop() returns; what the worker has not begun is gone, and so is the object. *)
Stopped == /\ server = "stopping"
           /\ worker = Idle
           /\ server' = "none"
           /\ handlerSet' = FALSE
           /\ queue' = <<>>
           /\ UNCHANGED <<ours, worker, callVars>>

------------------------------------------------------------------------------
Next == \/ \E c \in Calls : \/ \E r \in Requests : Call(c, r)
                            \/ Receive(c) \/ Timeout(c) \/ Send(c) \/ Lose(c)
        \/ ForeignReply \/ BeginRequest \/ EndRequest
        \/ AddPV \/ OnRPC \/ Start \/ Destruct \/ Stopped

Spec == Init /\ [][Next]_vars

(* Timeouts expire. *)
Fairness == \A c \in Calls : WF_vars(Receive(c) \/ Timeout(c))

FairSpec == Spec /\ Fairness

------------------------------------------------------------------------------
(* What calls are to their callers. *)
Phase(c) == CASE pc[c] = "unmade" -> "unmade"
              [] pc[c] \in {"connecting", "waiting"} -> "made"
              [] pc[c] = "returned" -> "returned"

Promise == INSTANCE RemoteCall WITH trusted <- ours, phase <- [c \in Calls |-> Phase(c)]

Typed == /\ ours \in BOOLEAN
         /\ server \in {"none", "added", "started", "stopping"}
         /\ handlerSet \in BOOLEAN
         /\ queue \in Seq(Calls)
         /\ worker \in Calls \cup {Idle}
         /\ pc \in [Calls -> {"unmade", "connecting", "waiting", "returned"}]
         /\ request \in [Calls -> Requests]
         /\ arrived \in [Calls -> Replies \cup {"none"}]
         /\ answer \in [Calls -> Answers]
         /\ runs \in [Calls -> Nat]

(* Every variable has its type; what a client returns is an AnyValue or an error. *)
TypeOK == Typed /\ \A c \in Clients : answer[c] \notin {"nothing", "union"}

(* A caller can tell from its answer how often the handler is called, now and *)
(* later: once after a result or an encoding error of the server, never after *)
(* the errors before the handler.  (NotConnected says nothing.)               *)
AnswerTells ==
  \A c \in Calls : ours =>
    /\ answer[c] \in {"result", "ServerNetworkEncodingError"} => runs[c] = 1
    /\ answer[c] \in {"empty", "ClientNetworkEncodingError", "ServerNetworkDecodingError",
                      "refused"} => runs[c] = 0

(* Calls are what RemoteCall promises: although they time out or lose their   *)
(* connection while their request waits at the server or is executed there,   *)
(* and the server comes and goes, the handler is called for each of them once *)
(* at most, the answer tells whether it was, and only for a call that was     *)
(* given up it may still be called later.                                     *)
ImplementsRemoteCall == Promise!Spec

(* Between a client and a server of this library nothing fails to be decoded, *)
(* and no request is refused for want of a handler, also while the server is  *)
(* constructed and destroyed under its callers.                               *)
SpeakTheSame ==
  \A c \in Clients :
    ours => answer[c] \notin {"ClientNetworkDecodingError", "ServerNetworkDecodingError",
                              "refused", "union"}

(* The handler belongs to the server's user and is not called any more once   *)
(* the destructor has returned.                                               *)
HandlerOutlivesCalls == worker # Idle => server \in {"started", "stopping"}

(* Every call that is made returns. *)
EveryCallReturns ==
  \A c \in Calls : (pc[c] \in {"connecting", "waiting"}) ~> (pc[c] = "returned")
==============================================================================
