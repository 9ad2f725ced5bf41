----------------------- MODULE PVAccessClientPVWrapper -----------------------
(***************************************************************************)
(* factory/pv_access_client_pv_wrapper.cpp, and the waits and SetValue() of  *)
(* pvxs/pv_access_client_pv_impl.cpp that it calls: what a user thread does  *)
(* with the variable of PvAccessClientPV, one call after the other, while    *)
(* its cache follows the subscription.                                       *)
(*                                                                         *)
(* Puts travel through PVXS (external) in the order in which they were       *)
(* started.  One that timed out is cancelled, but the server may have it     *)
(* already, and execute it later, or have executed it with the answer on its *)
(* way; a lost connection ends the put with an exception, unless it was not  *)
(* sent yet.  A wait is its outcome only: its sleep and wakeups are those of *)
(* ChannelAccessPV.  OnUpdate and SetMonitorCallback are those of            *)
(* ChannelAccessPVWrapper.                                                   *)
(***************************************************************************)
EXTENDS PvAccessClientPV, SequencesExt

CONSTANTS Scalar,       (* an argument that is not a structure *)
          MaxPuts       (* bound on the puts under way *)

ASSUME WrapperAssumption == Scalar \notin AnyValues /\ MaxPuts \in Nat \ {0}

VARIABLES phase,        (* where the thread is in a call *)
          wanted,       (* the argument of SetValue *)
          copy,         (* the cached value that SetValue, as long as it runs, has copied *)
          puts,         (* PVXS: the puts that the server has not executed *)
          reply,        (* what became of the put of the thread *)
          executed,     (* server: the last put it executed *)
          answer,       (* how the last SetValue ended *)
          got           (* what the last GetValue returned *)

callVars == <<phase, wanted, copy, answer, got>>
putVars == <<puts, reply, executed>>
wrapperVars == <<vars, callVars, putVars>>

NotValid == [connected |-> FALSE, value |-> Empty]

WrapperInit == /\ Init
               /\ phase = "idle"
               /\ wanted = Scalar
               /\ copy = Empty
               /\ puts = <<>>
               /\ reply = "none"
               /\ executed = Empty
               /\ answer = "none"
               /\ got = NotValid

(* A new call: the answer of the last one is not looked at any more. *)
Begin(to) == /\ phase = "idle"
             /\ phase' = to
             /\ answer' = "none"
             /\ got' = NotValid
             /\ reply' = "none"

End(how) == /\ phase' = "idle"
            /\ answer' = how
            /\ copy' = Empty

------------------------------------------------------------------------------
(* GetValue().                                                             *)

IsValid == cache.connected /\ cache.value # Empty

(* WaitForValidValue(timeout_sec): true, or the end of the timeout. *)
WaitForValidValue == /\ ~draining
                     /\ Begin(IF IsValid THEN "valid" ELSE "idle")
                     /\ UNCHANGED <<vars, wanted, copy, puts, executed>>

(* Mutant: the value is taken as it is, without the wait for a valid one. *)
Mut_ReadAtOnce == /\ phase \in {"valid", "idle"}
                  /\ ~draining
                  /\ phase' = "idle"
                  /\ got' = cache
                  /\ UNCHANGED <<vars, wanted, copy, answer, putVars>>

(* GetExtendedValue(), in a critical section of its own. *)
ReadValid == /\ phase = "valid"
             /\ ~draining
             /\ phase' = "idle"
             /\ got' = cache
             /\ UNCHANGED <<vars, wanted, copy, answer, putVars>>

------------------------------------------------------------------------------
(* SetValue().                                                             *)

(* WaitForConnected(timeout_sec). *)
WaitForConnected(v) == /\ ~draining
                       /\ Len(puts) < MaxPuts
                       /\ phase = "idle"
                       /\ wanted' = v
                       /\ IF cache.connected
                          THEN phase' = "set" /\ answer' = "none" /\ UNCHANGED copy
                          ELSE End("false")
                       /\ got' = NotValid
                       /\ reply' = "none"
                       /\ UNCHANGED <<vars, puts, executed>>

(* The connection is tested and the cached value copied, with the mutex. *)
CopyCache == /\ phase = "set"
             /\ ~draining
             /\ IF cache.connected
                THEN phase' = "copied" /\ copy' = cache.value /\ UNCHANGED answer
                ELSE End("false")
             /\ UNCHANGED <<vars, wanted, got, putVars>>

RejectScalar == /\ phase = "copied"
                /\ wanted = Scalar
                /\ End("thrown")
                /\ UNCHANGED <<vars, wanted, got, putVars>>

RejectType == /\ phase = "copied"
              /\ wanted # Scalar
              /\ ~Converts(wanted, copy)
              /\ End("false")
              /\ UNCHANGED <<vars, wanted, got, putVars>>

(* Mutant: the copy is put, whether the argument was assigned to it or not. *)
Mut_PutUnconverted == /\ phase = "copied"
                      /\ wanted # Scalar
                      /\ phase' = "waiting"
                      /\ puts' = Append(puts, wanted)
                      /\ UNCHANGED <<vars, wanted, copy, answer, got, reply, executed>>

(* put(), build() and exec(). *)
StartPut == /\ phase = "copied"
            /\ wanted # Scalar
            /\ Converts(wanted, copy)
            /\ phase' = "waiting"
            /\ puts' = Append(puts, wanted)
            /\ UNCHANGED <<vars, wanted, copy, answer, got, reply, executed>>

Waiting == phase = "waiting" /\ reply = "none"

(* Mutant: only Timeout is caught, and everything else taken for success. *)
Mut_AnyAnswerWillDo == /\ phase = "waiting"
                       /\ reply # "none"
                       /\ End("true")
                       /\ UNCHANGED <<vars, wanted, got, putVars>>

(* wait() returns, or throws what is neither Timeout nor Interrupted. *)
Answered == /\ phase = "waiting"
            /\ reply # "none"
            /\ End(IF reply = "done" THEN "true" ELSE "thrown")
            /\ UNCHANGED <<vars, wanted, got, putVars>>

(* wait() throws Timeout, and the operation is cancelled. *)
PutTimeout == /\ \/ Waiting /\ puts' \in {puts, Front(puts)}
                 \/ phase = "waiting" /\ reply = "done" /\ UNCHANGED puts
              /\ End("false")
              /\ UNCHANGED <<vars, wanted, got, reply, executed>>

------------------------------------------------------------------------------
(* PVXS and the server.                                                    *)

(* The first put reaches the server, which refuses a value of another type. *)
Execute == /\ link
           /\ puts # <<>>
           /\ puts' = Tail(puts)
           /\ LET fits == SameType(Head(puts), remote)
              IN  /\ IF fits THEN remote' = Head(puts) /\ fresh' = TRUE /\ executed' = Head(puts)
                             ELSE UNCHANGED <<remote, fresh, executed>>
                  /\ reply' = IF Waiting /\ Len(puts) = 1
                              THEN IF fits THEN "done" ELSE "refused"
                              ELSE reply
           /\ UNCHANGED <<due, queue, link, clientVars, callVars>>

LoseLink == /\ Disconnect
            /\ \/ /\ Waiting
                  /\ puts' = <<Last(puts)>>
                  /\ UNCHANGED reply
               \/ /\ puts' = <<>>
                  /\ reply' \in IF Waiting THEN {"lost"}
                                ELSE IF phase = "waiting" THEN {reply, "lost"} ELSE {reply}
            /\ UNCHANGED <<executed, callVars>>

------------------------------------------------------------------------------
GetValue == WaitForValidValue \/ ReadValid

SetValue == \/ \E v \in AnyValues \cup {Scalar} : WaitForConnected(v)
            \/ CopyCache \/ RejectScalar \/ RejectType
            \/ StartPut \/ Answered \/ PutTimeout

(* The other reads of the cache are those of PvAccessClientPV. *)
Follow == Connect \/ Change \/ Send \/ ProcessMonitor

WrapperNext == \/ Follow /\ UNCHANGED <<callVars, putVars>>
               \/ GetValue \/ SetValue
               \/ Execute \/ LoseLink

WrapperSpec == WrapperInit /\ [][WrapperNext]_wrapperVars

------------------------------------------------------------------------------
(* pv_access_client_pv.h:113: "True if successful".  The server has executed  *)
(* the put of the value, and no put of an earlier SetValue that timed out    *)
(* overtakes it; "false" does not say that the server did not.               *)
TrueMeansPut == answer = "true" => executed = wanted

(* SetValue converts its argument to the type it has in the cache: the server *)
(* refuses a put for its type only if nothing was received before it, or the *)
(* server came back as another one since.                                    *)
RefusedOnlyStale == [][reply # "refused" /\ reply' = "refused"
                         => copy = Empty \/ ~SameType(copy, remote)]_wrapperVars

(* GetValue reads the cache in a second critical section, after the wait: the *)
(* connection may be gone, but a value there is.                             *)
ConnectedHasValue == got.connected => got.value # Empty
==============================================================================
