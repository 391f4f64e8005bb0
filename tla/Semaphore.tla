----------------------------- MODULE Semaphore -----------------------------
(***************************************************************************)
(* class Semaphore of include/semaphore.h: a counter, a mutex and a        *)
(* condition variable.  Any number of threads call notify, wait and        *)
(* try_wait, in any order.  The condition variable may wake a waiter that  *)
(* nobody notified.                                                        *)
(***************************************************************************)
EXTENDS Integers, FiniteSets

CONSTANTS
  Threads,
  InitialCount,   \* the constructor's count; initialize() passes a negative one
  Max,            \* the constructor's max
  Free            \* the mutex is not held

ASSUME SemaphoreAssumption ==
  /\ IsFiniteSet(Threads)
  /\ InitialCount \in Int
  /\ Max \in Nat \ {0}
  /\ InitialCount <= Max
  /\ Free \notin Threads

VARIABLES
  count,    \* count_
  mutex,    \* the thread that holds mutex_, or Free
  at        \* where each thread is; "blocked" threads sleep on condition_

vars == <<count, mutex, at>>

Init ==
  /\ count = InitialCount
  /\ mutex = Free
  /\ at = [t \in Threads |-> "idle"]

Goto(t, l) == at' = [at EXCEPT ![t] = l]
In(l)      == {t \in Threads : at[t] = l}

\* Thread t locks the mutex and goes on at l.
Lock(t, l) ==
  /\ mutex = Free
  /\ mutex' = t
  /\ Goto(t, l)
  /\ UNCHANGED count

----------------------------------------------------------------------------
(* notify: count under the lock, signal after it.                          *)

NotifyLock(t) == at[t] = "idle" /\ Lock(t, "notify")

\* Mutation: signal only when the count becomes positive.
NotifyFirst(t) ==
  /\ at[t] = "notify"
  /\ count' = IF count + 1 < Max THEN count + 1 ELSE Max
  /\ mutex' = Free
  /\ Goto(t, IF count = 0 THEN "signal" ELSE "idle")

NotifyCount(t) ==
  /\ at[t] = "notify"
  /\ count' = IF count + 1 < Max THEN count + 1 ELSE Max
  /\ mutex' = Free
  /\ Goto(t, "signal")

NotifyOne(t) ==
  /\ at[t] = "signal"
  /\ \/ /\ In("blocked") = {}
        /\ Goto(t, "idle")
     \/ \E w \in In("blocked") :
          at' = [at EXCEPT ![t] = "idle", ![w] = "woken"]
  /\ UNCHANGED <<count, mutex>>

----------------------------------------------------------------------------
(* wait: the predicate is evaluated under the lock, before sleeping and    *)
(* after every wakeup; sleeping releases the lock in the same step.        *)

WaitLock(t) == at[t] = "idle" /\ Lock(t, "wait")

\* Mutation: a woken thread takes without testing the count again.
WaitTakeUntested(t) ==
  /\ at[t] = "wait"
  /\ count' = count - 1
  /\ mutex' = Free
  /\ Goto(t, "idle")

WaitTake(t) ==
  /\ at[t] = "wait"
  /\ count > 0
  /\ count' = count - 1
  /\ mutex' = Free
  /\ Goto(t, "idle")

\* Mutation: the mutex stays locked during the sleep.
WaitSleepLocked(t) ==
  /\ at[t] = "wait"
  /\ count <= 0
  /\ Goto(t, "blocked")
  /\ UNCHANGED <<count, mutex>>

WaitSleep(t) ==
  /\ at[t] = "wait"
  /\ count <= 0
  /\ mutex' = Free
  /\ Goto(t, "blocked")
  /\ UNCHANGED count

WakeSpuriously(t) ==
  /\ at[t] = "blocked"
  /\ Goto(t, "woken")
  /\ UNCHANGED <<count, mutex>>

WaitRelock(t) == at[t] = "woken" /\ Lock(t, "wait")

----------------------------------------------------------------------------
(* try_wait                                                                *)

TryLock(t) == at[t] = "idle" /\ Lock(t, "try")

TryTake(t) ==
  /\ at[t] = "try"
  /\ count' = IF count > 0 THEN count - 1 ELSE count
  /\ mutex' = Free
  /\ Goto(t, "idle")

----------------------------------------------------------------------------
\* Steps that a thread inside a call takes as soon as it is scheduled.
Proceed(t) == NotifyCount(t) \/ NotifyOne(t) \/ WaitTake(t) \/ WaitSleep(t) \/ TryTake(t)

Begin(t) == NotifyLock(t) \/ WaitLock(t) \/ TryLock(t)

Next ==
  \E t \in Threads : Begin(t) \/ Proceed(t) \/ WaitRelock(t) \/ WakeSpuriously(t)

Spec == Init /\ [][Next]_vars

\* A thread inside a call is scheduled, and one that keeps trying to relock the
\* mutex gets it some time when it is free.  Nobody is obliged to begin a call.
FairSpec ==
  /\ Spec
  /\ \A t \in Threads : WF_vars(Proceed(t)) /\ SF_vars(WaitRelock(t))

----------------------------------------------------------------------------
TypeOK ==
  /\ count \in Int
  /\ count <= Max
  /\ mutex \in Threads \union {Free}
  /\ at \in [Threads -> {"idle", "notify", "signal", "wait", "blocked", "woken", "try"}]

\* The mutex protects the counter: whoever is about to read or write count_
\* holds mutex_.
MutexHeld ==
  \A t \in Threads : at[t] \in {"notify", "wait", "try"} <=> mutex = t

\* No wakeup is lost: while somebody sleeps on the condition variable, every
\* unit of the counter has a thread on its way that will claim it or wake a
\* sleeper for it: one about to signal (lines 20-21, after the unlock), one
\* woken and not back under the lock, or one about to test the counter.
NoLostWakeup ==
  In("blocked") # {} =>
    count <= Cardinality(In("signal") \union In("woken") \union In("wait"))

\* The class implements the atomic semaphore, and so does its liveness: a
\* positive counter and a waiting thread do not sit side by side forever.
Abstract == INSTANCE CountingSemaphore WITH
  waiting <- In("wait") \union In("blocked") \union In("woken")

ImplementsSemaphore == Abstract!Spec
============================================================================
