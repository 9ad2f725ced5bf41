----------------------------- MODULE RemoteCall -----------------------------
(***************************************************************************)
(* What a call of a remote procedure (rpc/pv_access_rpc_client.h) promises:  *)
(* the handler of the service is called for it once at most, and the answer  *)
(* tells whether it was.  Only if the call was given up, because it timed out *)
(* or lost its connection, the answer tells nothing, and the handler may     *)
(* still be called for it after it returned.  A user who repeats such a call *)
(* makes another one, and the handler may be called for both.                *)
(*                                                                         *)
(* Threads, requests on their way, replies that come late and the life of    *)
(* the server are not visible here.  Nothing is promised of a service that   *)
(* is another program.                                                     *)
(***************************************************************************)
EXTENDS Naturals

CONSTANT Calls          (* all the calls that are ever made, each once *)

VARIABLES trusted,      (* the service is a PvAccessRPCServer *)
          phase,        (* a call is unmade, made or returned *)
          runs,         (* how often the handler was called for it *)
          answer        (* what it returned *)

vars == <<trusted, phase, runs, answer>>

Local    == {"empty", "ClientNetworkEncodingError"}
Before   == {"refused", "ServerNetworkDecodingError"}
After    == {"result", "ServerNetworkEncodingError"}
Unknown  == {"NotConnected", "lost"}
Foreign  == Unknown \cup {"result", "nothing", "union", "ClientNetworkDecodingError"}

Init == /\ trusted \in BOOLEAN
        /\ phase = [c \in Calls |-> "unmade"]
        /\ runs = [c \in Calls |-> 0]
        /\ answer = [c \in Calls |-> "none"]

Begin(c) == /\ phase[c] = "unmade"
            /\ phase' = [phase EXCEPT ![c] = "made"]
            /\ UNCHANGED <<trusted, runs, answer>>

(* A call that is answered without the service. *)
AnswerLocally(c) == /\ phase[c] = "unmade"
                    /\ phase' = [phase EXCEPT ![c] = "returned"]
                    /\ \E a \in Local : answer' = [answer EXCEPT ![c] = a]
                    /\ UNCHANGED <<trusted, runs>>

(* Between its begin and its end, or afterwards if it was given up. *)
Execute(c) == /\ trusted
              /\ phase[c] = "made" \/ answer[c] \in Unknown
              /\ runs[c] = 0
              /\ runs' = [runs EXCEPT ![c] = 1]
              /\ UNCHANGED <<trusted, phase, answer>>

Possible(c) == CASE ~trusted -> Foreign
                 [] trusted /\ runs[c] = 1 -> After \cup Unknown
                 [] trusted /\ runs[c] = 0 -> Before \cup Unknown

End(c) == /\ phase[c] = "made"
          /\ phase' = [phase EXCEPT ![c] = "returned"]
          /\ \E a \in Possible(c) : answer' = [answer EXCEPT ![c] = a]
          /\ UNCHANGED <<trusted, runs>>

Next == \E c \in Calls : Begin(c) \/ AnswerLocally(c) \/ Execute(c) \/ End(c)

Spec == Init /\ [][Next]_vars
==============================================================================
