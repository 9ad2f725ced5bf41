------------------------ MODULE ChannelAccessPVWrapper ------------------------
(***************************************************************************)
(* factory/channel_access_pv_wrapper.cpp: a ProcessVariable over             *)
(* ChannelAccessPV, whose callback is OnUpdate.                              *)
(*                                                                         *)
(* The user's own callback can be replaced at any time; it is called with    *)
(* m_cb_mtx and, below it, m_mon_mtx of ChannelAccessPV held, and takes its  *)
(* time.  A callback must not call the variable, which would wait for one of *)
(* the two: one that does never returns.                                     *)
(***************************************************************************)
EXTENDS ChannelAccessPV

CONSTANTS Callbacks,    (* what the user passes to SetMonitorCallback *)
          NoCallback    (* an empty function *)

ASSUME CallbacksAssumption == NoCallback \notin Callbacks

VARIABLES callback,     (* m_callback *)
          calling,      (* the callback under way, and m_cb_mtx is held, or NoCallback *)
          told,         (* what m_callback was last told since it was set, as a set *)
          purpose       (* the call for which each thread waits *)

callbackVars == <<callback, calling, told>>
wrapperVars == <<vars, callbackVars, purpose>>

WrapperInit == /\ Init
               /\ callback = NoCallback
               /\ calling = NoCallback
               /\ told = {}
               /\ purpose = [w \in Waiters |-> "none"]

CallbackMutexFree == calling = NoCallback

------------------------------------------------------------------------------
(* Mutant: the callback is replaced without the mutex. *)
Mut_SetUnlocked(f) == /\ callback' = f
                      /\ told' = {}
                      /\ UNCHANGED <<vars, calling, purpose>>

SetMonitorCallback(f) == /\ CallbackMutexFree
                         /\ callback' = f
                         /\ told' = {}
                         /\ UNCHANGED <<vars, calling, purpose>>

(* OnUpdate() calls the user. *)
OnUpdate == /\ library = "reporting"
            /\ CallbackMutexFree
            /\ callback # NoCallback
            /\ calling' = callback
            /\ told' = {cache}
            /\ UNCHANGED <<vars, callback, purpose>>

(* OnUpdate() ends, and ChannelAccessPV goes on. *)
EndUpdate == /\ calling # NoCallback \/ callback = NoCallback
             /\ CallUser
             /\ calling' = NoCallback
             /\ UNCHANGED <<callback, told, purpose>>

------------------------------------------------------------------------------
(* The calls of user threads start with a wait; IsAvailable() has a timeout *)
(* of 0, and is its result, like WaitForAvailable().                         *)
Begin(w, call) == /\ purpose[w] = "none"
                  /\ StartWait(w, IF call = "set" THEN "connected" ELSE "valid")
                  /\ purpose' = [purpose EXCEPT ![w] = call]
                  /\ UNCHANGED callbackVars

Waited(w, answer) == pc[w] = "idle" /\ result[w] = answer

Finish(w, call) == /\ purpose[w] = call
                   /\ purpose' = [purpose EXCEPT ![w] = "none"]
                   /\ UNCHANGED callbackVars

IsAvailable(w) == /\ Waited(w, "true") \/ Waited(w, "false")
                  /\ Finish(w, "available")
                  /\ UNCHANGED vars

(* GetValue() reads the extended value in a critical section of its own. *)
GetValue(w) == /\ Finish(w, "get")
               /\ \/ Waited(w, "true") /\ Read
                  \/ Waited(w, "false") /\ UNCHANGED vars

(* SetValue() hands the value to CAChannelManager, if the wait was true. *)
SetValue(w) == /\ Waited(w, "true") \/ Waited(w, "false")
               /\ Finish(w, "set")
               /\ UNCHANGED vars

------------------------------------------------------------------------------
UserThread(w) == \/ \E call \in {"available", "get", "set"} : Begin(w, call)
                 \/ IsAvailable(w) \/ GetValue(w) \/ SetValue(w)

(* The parts of ChannelAccessPV that go on by themselves. *)
InnerStep == \/ LibraryEvent \/ NotifyOne
             \/ \E w \in Waiters : \/ Evaluate(w) \/ SpuriousWakeup(w)
                                  \/ Expire(w) \/ LastLook(w)

WrapperNext == \/ InnerStep /\ UNCHANGED <<callbackVars, purpose>>
               \/ OnUpdate \/ EndUpdate
               \/ \E f \in Callbacks \cup {NoCallback} : SetMonitorCallback(f)
               \/ \E w \in Waiters : UserThread(w)

WrapperSpec == WrapperInit /\ [][WrapperNext]_wrapperVars

(* As in ChannelAccessPV; the user's callback returns, and is called in the   *)
(* end although the user replaces it again and again.                        *)
WrapperFairness ==
  /\ WF_wrapperVars(EndUpdate)
  /\ SF_wrapperVars(OnUpdate)
  /\ WF_wrapperVars(NotifyOne /\ UNCHANGED <<callbackVars, purpose>>)
  /\ \A w \in Waiters : /\ SF_wrapperVars(Evaluate(w) /\ UNCHANGED <<callbackVars, purpose>>)
                        /\ SF_wrapperVars(LastLook(w) /\ UNCHANGED <<callbackVars, purpose>>)

FairWrapperSpec == WrapperSpec /\ WrapperFairness

------------------------------------------------------------------------------
(* When SetMonitorCallback has returned, the callback it replaced is over and *)
(* is never called again: what it refers to may be destroyed.                *)
OldCallbackIsOver == calling \in {NoCallback, callback}

(* Outside a callback of the library, the user's callback, if it was told     *)
(* anything since it was set, was told what the cache is.                    *)
CallbackUpToDate == library # "reporting" /\ told # {} => told = {cache}
==============================================================================
