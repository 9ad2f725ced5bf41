--------------------------- MODULE ChannelAccessPV ---------------------------
(***************************************************************************)
(* ca/channel_access_pv.cpp: the cached state of one Channel Access         *)
(* variable, written by the callbacks of the CA library and read, or waited *)
(* for, by user threads.                                                    *)
(*                                                                         *)
(* The callbacks arrive one after the other, from CAChannelManager, whose   *)
(* AddChannel and RemoveChannel are the constructor and the destructor.     *)
(* The user's callback is called while m_mon_mtx is held; waiters are       *)
(* notified after it is released.  Time is abstracted to the fact that the  *)
(* timeout of a wait may expire whenever its thread sleeps.                 *)
(***************************************************************************)
EXTENDS Naturals, FiniteSets

CONSTANTS Waiters,      (* threads that call WaitForConnected or WaitForValidValue *)
          Values,       (* non-empty values *)
          Empty         (* the value of a monitor event that failed *)

ASSUME ValuesAssumption == Empty \notin Values

VARIABLES cache,        (* m_cache *)
          reported,     (* what the user's callback was last called with *)
          seen,         (* what a user thread last read *)
          link,         (* library: the channel is connected *)
          library,      (* where the library's thread is in a callback *)
          pc,           (* where each waiter is *)
          kind,         (* what each waiter waits for *)
          result        (* what the last wait of each waiter returned *)

eventVars == <<cache, reported, link, library>>
waitVars == <<pc, kind, result>>
vars == <<eventVars, seen, waitVars>>

Caches == [connected : BOOLEAN, value : Values \cup {Empty}]

Init == /\ cache = [connected |-> FALSE, value |-> Empty]
        /\ reported = cache
        /\ seen = cache
        /\ link = FALSE
        /\ library = "idle"
        /\ pc = [w \in Waiters |-> "idle"]
        /\ kind = [w \in Waiters |-> "connected"]
        /\ result = [w \in Waiters |-> "none"]

MutexFree == library # "reporting"

------------------------------------------------------------------------------
(* The callbacks of the library.                                           *)

OnConnectionChanged(connected) ==
  /\ library = "idle"
  /\ link # connected
  /\ link' = connected
  /\ cache' = [cache EXCEPT !.connected = connected]
  /\ library' = "reporting"
  /\ UNCHANGED reported

(* Mutant: the callback is not called for an event that failed. *)
Mut_SilentFailure(value) == /\ library = "idle"
                            /\ link
                            /\ cache' = [cache EXCEPT !.value = value]
                            /\ library' = IF value = Empty THEN "notifying" ELSE "reporting"
                            /\ UNCHANGED <<reported, link>>

(* The event brings a value, or none when it failed (CAMonitorWrapper). *)
OnMonitorCalled(value) ==
  /\ library = "idle"
  /\ link
  /\ cache' = [cache EXCEPT !.value = value]
  /\ library' = "reporting"
  /\ UNCHANGED <<reported, link>>

(* m_var_changed_cb(m_cache), and the release of the mutex. *)
CallUser == /\ library = "reporting"
            /\ reported' = cache
            /\ library' = "notifying"
            /\ UNCHANGED <<cache, link, seen, waitVars>>

Sleeping == {w \in Waiters : pc[w] = "asleep"}

(* Mutant: nobody is notified. *)
Mut_NotifyNobody == /\ library = "notifying"
                    /\ library' = "idle"
                    /\ UNCHANGED <<cache, reported, link, seen, waitVars>>

(* m_monitor_cv.notify_one(). *)
NotifyOne == /\ library = "notifying"
             /\ library' = "idle"
             /\ IF Sleeping = {} THEN UNCHANGED pc
                ELSE \E w \in Sleeping : pc' = [pc EXCEPT ![w] = "woken"]
             /\ UNCHANGED <<cache, reported, link, seen, kind, result>>

LibraryEvent == /\ \/ \E connected \in BOOLEAN : OnConnectionChanged(connected)
                   \/ \E value \in Values \cup {Empty} : OnMonitorCalled(value)
                /\ UNCHANGED <<seen, waitVars>>

------------------------------------------------------------------------------
(* User threads.                                                           *)

(* Mutant: the cache is read without the mutex. *)
Mut_ReadUnlocked == /\ seen' = cache
                    /\ UNCHANGED <<eventVars, waitVars>>

(* GetExtendedValue(); IsConnected() and GetValue() read parts of it. *)
Read == /\ MutexFree
        /\ seen' = cache
        /\ UNCHANGED <<eventVars, waitVars>>

(* The predicates of the two waits. *)
Ready(w) == /\ cache.connected
            /\ kind[w] = "valid" => cache.value # Empty

Return(w, answer) == /\ pc' = [pc EXCEPT ![w] = "idle"]
                     /\ result' = [result EXCEPT ![w] = answer]

Sleep(w) == /\ pc' = [pc EXCEPT ![w] = "asleep"]
            /\ UNCHANGED result

(* WaitForConnected and WaitForValidValue, up to the first look at the cache. *)
StartWait(w, k) == /\ pc[w] = "idle"
                   /\ kind' = [kind EXCEPT ![w] = k]
                   /\ pc' = [pc EXCEPT ![w] = "woken"]
                   /\ result' = [result EXCEPT ![w] = "none"]
                   /\ UNCHANGED <<eventVars, seen>>

(* Mutant: a woken waiter sleeps on without a look at the predicate. *)
Mut_SleepOn(w) == /\ pc[w] = "woken"
                  /\ MutexFree
                  /\ Sleep(w)
                  /\ UNCHANGED <<eventVars, seen, kind>>

(* wait_for() evaluates its predicate with the mutex held. *)
Evaluate(w) == /\ pc[w] = "woken"
               /\ MutexFree
               /\ IF Ready(w) THEN Return(w, "true") ELSE Sleep(w)
               /\ UNCHANGED <<eventVars, seen, kind>>

SpuriousWakeup(w) == /\ pc[w] = "asleep"
                     /\ pc' = [pc EXCEPT ![w] = "woken"]
                     /\ UNCHANGED <<eventVars, seen, kind, result>>

(* The timeout expires, and the predicate is evaluated a last time. *)
Expire(w) == /\ pc[w] = "asleep"
             /\ pc' = [pc EXCEPT ![w] = "expired"]
             /\ UNCHANGED <<eventVars, seen, kind, result>>

LastLook(w) == /\ pc[w] = "expired"
               /\ MutexFree
               /\ Return(w, IF Ready(w) THEN "true" ELSE "false")
               /\ UNCHANGED <<eventVars, seen, kind>>

------------------------------------------------------------------------------
Wait(w) == \/ \E k \in {"connected", "valid"} : StartWait(w, k)
           \/ Evaluate(w) \/ SpuriousWakeup(w) \/ Expire(w) \/ LastLook(w)

Next == LibraryEvent \/ CallUser \/ NotifyOne \/ Read \/ \E w \in Waiters : Wait(w)

Spec == Init /\ [][Next]_vars

(* The library finishes its callbacks, and a thread that wants m_mon_mtx gets *)
(* it in the end, although the library takes it again and again.              *)
Fairness == /\ WF_vars(CallUser \/ NotifyOne)
            /\ \A w \in Waiters : SF_vars(Evaluate(w)) /\ SF_vars(LastLook(w))

FairSpec == Spec /\ Fairness

------------------------------------------------------------------------------
(* Every variable has its type. *)
TypeOK == /\ {cache, reported, seen} \subseteq Caches
          /\ link \in BOOLEAN
          /\ library \in {"idle", "reporting", "notifying"}
          /\ pc \in [Waiters -> {"idle", "woken", "asleep", "expired"}]
          /\ kind \in [Waiters -> {"connected", "valid"}]
          /\ result \in [Waiters -> {"none", "true", "false"}]

(* channel_access_pv.h:53-57: updates of the value are not reordered with    *)
(* the calls of the user's callback.  Whatever a thread reads is what the    *)
(* callback was last told, never something it has not been told yet.         *)
ReadsWereReported == [][seen' # seen => seen' = reported]_vars

(* w sleeps although what it waits for is there, and nobody is about to wake *)
(* it, or anybody else, up.                                                  *)
Forgotten(w) == /\ pc[w] = "asleep"
                /\ Ready(w)
                /\ library = "idle"
                /\ \A other \in Waiters : pc[other] # "woken"

(* A single waiter is never left asleep when what it waits for is there:     *)
(* notify_one() outside the mutex loses no wakeup.                           *)
NobodyForgotten == \A w \in Waiters : ~Forgotten(w)

(* It returns without the help of its timeout, unless the condition goes     *)
(* away again.                                                               *)
ReturnsWhenReady ==
  \A w \in Waiters : (pc[w] = "asleep" /\ Ready(w)) ~> (pc[w] = "idle" \/ ~Ready(w))
==============================================================================
