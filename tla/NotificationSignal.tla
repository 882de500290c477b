------------------------- MODULE NotificationSignal -------------------------
(***************************************************************************)
(* support::NotificationSignal (a mutex, a condition variable and a sticky *)
(* `notified` flag) together with the protocol every loop of the program   *)
(* uses it with: a producer publishes work in a queue and then notifies; a *)
(* consumer scans its queue, and calls wait() when it found nothing.       *)
(*                                                                         *)
(* notify() sets the flag under the mutex and calls notify_all() AFTER it  *)
(* has released it, so it is two steps. wait() tests the flag and goes to  *)
(* sleep under the mutex (one step), and clears the flag when it returns.  *)
(* cv.wait has no predicate: a sleeping thread may also wake spuriously.   *)
(***************************************************************************)
EXTENDS Naturals

CONSTANTS Notifiers,  \* threads that publish work and call notify()
          Waiters     \* threads that scan for work and call wait()

(* Each signal of InterpreterSignals has one thread that waits on it:      *)
(* interpreter_loop, callback_loop or the pusher thread of the manager.    *)
ASSUME SingleWaiter == \A v, w \in Waiters : v = w

VARIABLES notified,   \* the std::atomic<bool> of the signal
          work,       \* work[w]: something is queued for waiter w
          npc,        \* where each notifier is
          wpc         \* where each waiter is

signal_vars == <<notified, work, npc, wpc>>

NotifierPC == {"idle", "published", "set"}
WaiterPC   == {"scan", "scanned", "asleep", "woken"}

SignalTypeOK ==
  /\ notified \in BOOLEAN
  /\ work \in [Waiters -> BOOLEAN]
  /\ npc \in [Notifiers -> NotifierPC]
  /\ wpc \in [Waiters -> WaiterPC]

SignalInit ==
  /\ notified = FALSE
  /\ work = [w \in Waiters |-> FALSE]
  /\ npc = [n \in Notifiers |-> "idle"]
  /\ wpc = [w \in Waiters |-> "scan"]
-----------------------------------------------------------------------------
(* A producer pushes to the queue of some waiter (input_buffer.push_back,  *)
(* output_buffer.push_back, callback_request_queue.push_back, ...).        *)
Publish(n, w) ==
  /\ npc[n] = "idle"
  /\ work' = [work EXCEPT ![w] = TRUE]
  /\ npc' = [npc EXCEPT ![n] = "published"]
  /\ UNCHANGED <<notified, wpc>>

(* Mutant: a bare condition variable, notify() leaves no sticky flag.      *)
NotifyStoreNoFlag(n) ==
  /\ npc[n] = "published"
  /\ npc' = [npc EXCEPT ![n] = "set"]
  /\ UNCHANGED <<notified, work, wpc>>

(* The critical section of notify(): notified.store(true).                 *)
NotifyStore(n) ==
  /\ npc[n] = "published"
  /\ notified' = TRUE
  /\ npc' = [npc EXCEPT ![n] = "set"]
  /\ UNCHANGED <<work, wpc>>

(* cv.notify_all(), after the lock_guard's scope.                          *)
NotifyAll(n) ==
  /\ npc[n] = "set"
  /\ npc' = [npc EXCEPT ![n] = "idle"]
  /\ wpc' = [w \in Waiters |-> IF wpc[w] = "asleep" THEN "woken" ELSE wpc[w]]
  /\ UNCHANGED <<notified, work>>
-----------------------------------------------------------------------------
(* One pass of a consumer's loop over its queue: it takes what is there    *)
(* and scans again, or has found nothing and is about to wait.             *)
Scan(w) ==
  /\ wpc[w] = "scan"
  /\ work' = [work EXCEPT ![w] = FALSE]
  /\ wpc' = [wpc EXCEPT ![w] = IF work[w] THEN "scan" ELSE "scanned"]
  /\ UNCHANGED <<notified, npc>>

(* Mutant: wait() sleeps without testing the flag first.                   *)
WaitEnterNoTest(w) ==
  /\ wpc[w] = "scanned"
  /\ wpc' = [wpc EXCEPT ![w] = "asleep"]
  /\ UNCHANGED <<notified, work, npc>>

(* wait() up to the point where it sleeps or returns: with the mutex held, *)
(* a set flag is consumed and wait() returns, otherwise cv.wait() releases *)
(* the mutex and sleeps in one step.                                       *)
WaitEnter(w) ==
  /\ wpc[w] = "scanned"
  /\ notified' = FALSE
  /\ wpc' = [wpc EXCEPT ![w] = IF notified THEN "scan" ELSE "asleep"]
  /\ UNCHANGED <<work, npc>>

(* cv.wait() may return without any notify_all().                          *)
SpuriousWakeup(w) ==
  /\ wpc[w] = "asleep"
  /\ wpc' = [wpc EXCEPT ![w] = "woken"]
  /\ UNCHANGED <<notified, work, npc>>

(* The woken thread holds the mutex again: notified.store(false), return.  *)
WaitReturn(w) ==
  /\ wpc[w] = "woken"
  /\ notified' = FALSE
  /\ wpc' = [wpc EXCEPT ![w] = "scan"]
  /\ UNCHANGED <<work, npc>>
-----------------------------------------------------------------------------
Notify(n) == NotifyStore(n) \/ NotifyAll(n)
Consume(w) == Scan(w) \/ WaitEnter(w) \/ WaitReturn(w)

SignalNext ==
  \/ \E n \in Notifiers : Notify(n) \/ \E w \in Waiters : Publish(n, w)
  \/ \E w \in Waiters : Consume(w) \/ SpuriousWakeup(w)

(* A thread inside notify() or inside its loop keeps running. Publishing   *)
(* is the outside world's choice and a spurious wakeup is never owed.      *)
SignalFairness ==
  /\ \A n \in Notifiers : WF_signal_vars(Notify(n))
  /\ \A w \in Waiters : WF_signal_vars(Consume(w))

SignalSpec == SignalInit /\ [][SignalNext]_signal_vars /\ SignalFairness
-----------------------------------------------------------------------------
(* Safety: a waiter that sleeps while work is queued for it is about to be *)
(* woken: some notifier has published and has not yet called notify_all(). *)
(* This is what notificationsignal.hpp's flag is for: without it a notify  *)
(* that comes between a consumer's scan and its wait() would be lost.      *)
NoLostWakeup ==
  \A w \in Waiters :
    wpc[w] = "asleep" /\ work[w] =>
      \E n \in Notifiers : npc[n] \in {"published", "set"}

(* Liveness: whatever is queued for a waiter is eventually taken, although *)
(* notify() may race with the scan, the sleep and the flag's reset.        *)
WorkIsTaken == \A w \in Waiters : work[w] ~> ~work[w]

(* The inductive strengthening: a waiter that has scanned and has not come *)
(* back from wait() with work queued either still has a notify() ahead of  *)
(* it that has not stored the flag, or the flag is set and, if the waiter  *)
(* already sleeps, the notify_all() that goes with the flag is still due.  *)
WakeupPending ==
  \A w \in Waiters :
    work[w] /\ wpc[w] \in {"scanned", "asleep"} =>
      \/ \E n \in Notifiers : npc[n] = "published"
      \/ /\ notified
         /\ wpc[w] = "asleep" => \E n \in Notifiers : npc[n] = "set"

SignalIInv == SignalTypeOK /\ WakeupPending
=============================================================================
