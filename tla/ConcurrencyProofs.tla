-------------------------- MODULE ConcurrencyProofs --------------------------
(***************************************************************************)
(* Proofs about the components of Concurrency for every value of their     *)
(* parameters: the semaphore, the blocking queue and the host program by   *)
(* an inductive invariant for each, and the thread pool by the theorems of *)
(* its own proof module.                                                   *)
(***************************************************************************)
EXTENDS Concurrency, FiniteSetTheorems, SequenceTheorems, TLAPS

----------------------------------------------------------------------------
(* Class Semaphore.                                                        *)

\* The threads that will claim a unit of the counter or wake one who does.
Claimers == In("signal") \union In("woken") \union In("wait")

\* A set of threads is finite, so its cardinality is a natural number, and it
\* changes by one when a thread comes or goes.
LEMMA ThreadSets ==
  ASSUME NEW S, S \subseteq Threads
  PROVE  /\ Cardinality(S) \in Nat
         /\ \A t \in Threads \ S : Cardinality(S \union {t}) = Cardinality(S) + 1
         /\ \A t \in S : Cardinality(S \ {t}) = Cardinality(S) - 1
  <1>1. IsFiniteSet(S)
    BY FS_Subset, SemaphoreAssumption
  <1> QED
    BY <1>1, FS_CardinalityType, FS_AddElement, FS_RemoveElement

----------------------------------------------------------------------------
\* The counter never exceeds its maximum, the mutex has at most one holder and
\* every thread is at a place of the code.
THEOREM TypeCorrect == Spec => []TypeOK
  <1>1. Init => TypeOK
    BY SemaphoreAssumption DEF Init, TypeOK
  <1>2. TypeOK /\ [Next]_vars => TypeOK'
    <2> SUFFICES ASSUME TypeOK, [Next]_vars
                 PROVE  TypeOK'
      OBVIOUS
    <2> USE SemaphoreAssumption DEF TypeOK, Goto, Lock, In
    <2>1. ASSUME NEW t \in Threads, Begin(t)
          PROVE  TypeOK'
      BY <2>1 DEF Begin, NotifyLock, WaitLock, TryLock
    <2>2. ASSUME NEW t \in Threads, NotifyCount(t)
          PROVE  TypeOK'
      BY <2>2 DEF NotifyCount
    <2>3. ASSUME NEW t \in Threads, NotifyOne(t)
          PROVE  TypeOK'
      BY <2>3 DEF NotifyOne
    <2>4. ASSUME NEW t \in Threads, WaitTake(t)
          PROVE  TypeOK'
      BY <2>4 DEF WaitTake
    <2>5. ASSUME NEW t \in Threads, WaitSleep(t)
          PROVE  TypeOK'
      BY <2>5 DEF WaitSleep
    <2>6. ASSUME NEW t \in Threads, TryTake(t)
          PROVE  TypeOK'
      BY <2>6 DEF TryTake
    <2>7. ASSUME NEW t \in Threads, WaitRelock(t) \/ WakeSpuriously(t)
          PROVE  TypeOK'
      BY <2>7 DEF WaitRelock, WakeSpuriously
    <2>8. CASE UNCHANGED vars
      BY <2>8 DEF vars
    <2> QED
      BY <2>1, <2>2, <2>3, <2>4, <2>5, <2>6, <2>7, <2>8 DEF Next, Proceed
  <1> QED
    BY <1>1, <1>2, PTL DEF Spec

----------------------------------------------------------------------------
\* Whoever is about to read or write count_ holds mutex_ (lines 17, 25, 31):
\* the bodies of notify, wait and try_wait exclude each other.
THEOREM MutualExclusion == Spec => []MutexHeld
  <1>1. Init => MutexHeld
    BY SemaphoreAssumption DEF Init, MutexHeld
  <1>2. TypeOK /\ MutexHeld /\ [Next]_vars => MutexHeld'
    <2> SUFFICES ASSUME TypeOK, MutexHeld, [Next]_vars
                 PROVE  MutexHeld'
      OBVIOUS
    <2> USE SemaphoreAssumption DEF TypeOK, MutexHeld, Goto, Lock, In
    <2>1. ASSUME NEW t \in Threads, Begin(t)
          PROVE  MutexHeld'
      BY <2>1 DEF Begin, NotifyLock, WaitLock, TryLock
    <2>2. ASSUME NEW t \in Threads, NotifyCount(t) \/ TryTake(t)
          PROVE  MutexHeld'
      BY <2>2 DEF NotifyCount, TryTake
    <2>3. ASSUME NEW t \in Threads, NotifyOne(t)
          PROVE  MutexHeld'
      BY <2>3 DEF NotifyOne
    <2>4. ASSUME NEW t \in Threads, WaitTake(t) \/ WaitSleep(t)
          PROVE  MutexHeld'
      BY <2>4 DEF WaitTake, WaitSleep
    <2>5. ASSUME NEW t \in Threads, WaitRelock(t) \/ WakeSpuriously(t)
          PROVE  MutexHeld'
      BY <2>5 DEF WaitRelock, WakeSpuriously
    <2>6. CASE UNCHANGED vars
      BY <2>6 DEF vars
    <2> QED
      BY <2>1, <2>2, <2>3, <2>4, <2>5, <2>6 DEF Next, Proceed
  <1> QED
    BY <1>1, <1>2, TypeCorrect, PTL DEF Spec

----------------------------------------------------------------------------
\* No wakeup is lost, although notify signals after it has unlocked (lines
\* 20-21) and a sleeper may wake for no reason: while a thread is blocked, the
\* counter does not exceed the number of threads that will claim a unit or wake
\* somebody who does.
THEOREM WakeupsNotLost == Spec => []NoLostWakeup
  <1>1. Init => NoLostWakeup
    BY DEF Init, NoLostWakeup, In
  <1>2. TypeOK /\ NoLostWakeup /\ [Next]_vars => NoLostWakeup'
    <2> SUFFICES ASSUME TypeOK, NoLostWakeup, [Next]_vars, In("blocked")' # {}
                 PROVE  count' <= Cardinality(Claimers')
      BY DEF NoLostWakeup, Claimers
    <2>a. Claimers \subseteq Threads /\ Claimers' \subseteq Threads
      BY DEF Claimers, In
    <2>b. In("blocked") # {} => count <= Cardinality(Claimers)
      BY DEF NoLostWakeup, Claimers
    <2>c. Cardinality(Claimers) \in Nat /\ Cardinality(Claimers') \in Nat
      BY <2>a, ThreadSets
    <2>1. ASSUME NEW t \in Threads, NotifyLock(t) \/ TryLock(t) \/ TryTake(t)
          PROVE  count' <= Cardinality(Claimers')
      <3>1. Claimers' = Claimers /\ In("blocked")' = In("blocked")
        BY <2>1 DEF NotifyLock, TryLock, TryTake, Lock, Goto, Claimers, In, TypeOK
      <3>2. count' <= count /\ count' \in Int
        BY <2>1 DEF NotifyLock, TryLock, TryTake, Lock, TypeOK
      <3> QED
        BY <2>b, <2>c, <3>1, <3>2 DEF TypeOK
    <2>2. ASSUME NEW t \in Threads, NotifyCount(t)
          PROVE  count' <= Cardinality(Claimers')
      <3>1. /\ t \notin Claimers
            /\ Claimers' = Claimers \union {t}
            /\ In("blocked")' = In("blocked")
        BY <2>2 DEF NotifyCount, Goto, Claimers, In, TypeOK
      <3>2. count' <= count + 1 /\ count' \in Int
        BY <2>2, SemaphoreAssumption DEF NotifyCount, TypeOK
      <3>3. Cardinality(Claimers') = Cardinality(Claimers) + 1
        BY <2>a, <3>1, ThreadSets
      <3> QED
        BY <2>b, <2>c, <3>1, <3>2, <3>3 DEF TypeOK
    <2>3. ASSUME NEW t \in Threads, NotifyOne(t)
          PROVE  count' <= Cardinality(Claimers')
      <3>1. In("blocked") # {}
        BY <2>3 DEF NotifyOne, Goto, In, TypeOK
      <3>2. PICK w \in In("blocked") : at' = [at EXCEPT ![t] = "idle", ![w] = "woken"]
        BY <2>3, <3>1 DEF NotifyOne
      <3>3. /\ t \in Claimers
            /\ w \in Threads
            /\ w \notin Claimers \ {t}
            /\ Claimers' = (Claimers \ {t}) \union {w}
        BY <2>3, <3>2 DEF NotifyOne, Claimers, In, TypeOK
      <3>4. Cardinality(Claimers \ {t}) = Cardinality(Claimers) - 1
        BY <2>a, <3>3, ThreadSets
      <3>5. Cardinality(Claimers') = Cardinality(Claimers \ {t}) + 1
        BY <2>a, <3>3, ThreadSets
      <3> QED
        BY <2>3, <2>b, <2>c, <3>1, <3>4, <3>5 DEF NotifyOne, TypeOK
    <2>4. ASSUME NEW t \in Threads, WaitLock(t) \/ WakeSpuriously(t)
          PROVE  count' <= Cardinality(Claimers')
      <3>1. /\ t \notin Claimers
            /\ Claimers' = Claimers \union {t}
            /\ In("blocked") # {}
        BY <2>4 DEF WaitLock, WakeSpuriously, Lock, Goto, Claimers, In, TypeOK
      <3>2. Cardinality(Claimers') = Cardinality(Claimers) + 1
        BY <2>a, <3>1, ThreadSets
      <3> QED
        BY <2>4, <2>b, <2>c, <3>1, <3>2 DEF WaitLock, WakeSpuriously, Lock, TypeOK
    <2>5. ASSUME NEW t \in Threads, WaitTake(t)
          PROVE  count' <= Cardinality(Claimers')
      <3>1. /\ t \in Claimers
            /\ Claimers' = Claimers \ {t}
            /\ In("blocked")' = In("blocked")
        BY <2>5 DEF WaitTake, Goto, Claimers, In, TypeOK
      <3>2. Cardinality(Claimers') = Cardinality(Claimers) - 1
        BY <2>a, <3>1, ThreadSets
      <3> QED
        BY <2>5, <2>b, <2>c, <3>1, <3>2 DEF WaitTake, TypeOK
    <2>6. ASSUME NEW t \in Threads, WaitSleep(t)
          PROVE  count' <= Cardinality(Claimers')
      BY <2>6, <2>c DEF WaitSleep, TypeOK
    <2>7. ASSUME NEW t \in Threads, WaitRelock(t)
          PROVE  count' <= Cardinality(Claimers')
      <3>1. Claimers' = Claimers /\ In("blocked")' = In("blocked")
        BY <2>7 DEF WaitRelock, Lock, Goto, Claimers, In, TypeOK
      <3> QED
        BY <2>7, <2>b, <3>1 DEF WaitRelock, Lock
    <2>8. CASE UNCHANGED vars
      <3>1. Claimers' = Claimers /\ In("blocked")' = In("blocked")
        BY <2>8 DEF vars, Claimers, In
      <3> QED
        BY <2>8, <2>b, <3>1 DEF vars
    <2> QED
      BY <2>1, <2>2, <2>3, <2>4, <2>5, <2>6, <2>7, <2>8 DEF Next, Begin, Proceed
  <1> QED
    BY <1>1, <1>2, TypeCorrect, PTL DEF Spec

----------------------------------------------------------------------------
\* The class implements the atomic semaphore, as far as safety goes: locking,
\* sleeping and signalling are invisible, and the counter changes as in one
\* atomic notify, wait or try_wait.
THEOREM ImplementsSafely == Spec => Abstract!Safety
  <1> DEFINE Waiting == In("wait") \union In("blocked") \union In("woken")
  <1>1. Init => Abstract!Init
    BY DEF Init, Abstract!Init, In
  <1>2. TypeOK /\ [Next]_vars => [Abstract!Next]_(Abstract!semaphoreVars)
    <2> SUFFICES ASSUME TypeOK, [Next]_vars
                 PROVE  \/ Abstract!Next
                        \/ count' = count /\ Waiting' = Waiting
      BY DEF Abstract!semaphoreVars
    <2> USE DEF TypeOK, Goto, Lock, In
    <2>1. ASSUME NEW t \in Threads, NotifyCount(t)
          PROVE  Abstract!Notify
      <3>1. Waiting' = Waiting
        BY <2>1 DEF NotifyCount
      <3>2. count' = IF count < Max THEN count + 1 ELSE Max
        BY <2>1, SemaphoreAssumption DEF NotifyCount
      <3> QED
        BY <3>1, <3>2 DEF Abstract!Notify
    <2>2. ASSUME NEW t \in Threads, WaitLock(t)
          PROVE  Abstract!BeginWait(t)
      BY <2>2 DEF WaitLock, Abstract!BeginWait
    <2>3. ASSUME NEW t \in Threads, WaitTake(t)
          PROVE  Abstract!EndWait(t)
      BY <2>3 DEF WaitTake, Abstract!EndWait
    <2>4. ASSUME NEW t \in Threads, TryTake(t)
          PROVE  Abstract!TryWait \/ (count' = count /\ Waiting' = Waiting)
      <3>1. Waiting' = Waiting
        BY <2>4 DEF TryTake
      <3> QED
        BY <2>4, <3>1 DEF TryTake, Abstract!TryWait
    <2>5. ASSUME NEW t \in Threads,
                 NotifyLock(t) \/ TryLock(t) \/ WaitSleep(t) \/ WaitRelock(t)
          PROVE  count' = count /\ Waiting' = Waiting
      BY <2>5 DEF NotifyLock, TryLock, WaitSleep, WaitRelock
    <2>6. ASSUME NEW t \in Threads, NotifyOne(t) \/ WakeSpuriously(t)
          PROVE  count' = count /\ Waiting' = Waiting
      BY <2>6 DEF NotifyOne, WakeSpuriously
    <2>7. CASE UNCHANGED vars
      BY <2>7 DEF vars
    <2> QED
      BY <2>1, <2>2, <2>3, <2>4, <2>5, <2>6, <2>7
      DEF Next, Begin, Proceed, Abstract!Next
  <1> QED
    BY <1>1, <1>2, TypeCorrect, PTL DEF Spec, Abstract!Safety

----------------------------------------------------------------------------
(* The blocking queue, for any finite set of threads and any calls.        *)

\* The threads that will wake a sleeper or look at the queue themselves.
QueueComing == {t \in QueueThreads : qAt[t] \in {"signal", "woken"}}
QueueAsleep == {t \in QueueThreads : qAt[t] = "asleep"}

\* A set of threads is finite, so its cardinality is a natural number, and it
\* changes by one when a thread comes or goes.
LEMMA QueueThreadSets ==
  ASSUME Queue!ConcurrentQueueAssumption, NEW S, S \subseteq QueueThreads
  PROVE  /\ Cardinality(S) \in Nat
         /\ \A t \in QueueThreads \ S : Cardinality(S \union {t}) = Cardinality(S) + 1
         /\ \A t \in S : Cardinality(S \ {t}) = Cardinality(S) - 1
  <1>1. IsFiniteSet(S)
    BY FS_Subset DEF Queue!ConcurrentQueueAssumption, Queue!IsFiniteSet, IsFiniteSet
  <1> QED
    BY <1>1, FS_CardinalityType, FS_AddElement, FS_RemoveElement

\* What is taken from the front is added behind what was taken before, and the
\* whole stays as it was.
LEMMA FrontMoves ==
  ASSUME NEW p \in Seq(Nat), NEW s \in Seq(Nat), s # <<>>
  PROVE  Append(p, Head(s)) \o Tail(s) = p \o s
  OBVIOUS

\* What is added at the end is added to the whole.
LEMMA BackGrows ==
  ASSUME NEW p \in Seq(Nat), NEW s \in Seq(Nat), NEW n \in Nat
  PROVE  p \o Append(s, n) = Append(p \o s, n)
  OBVIOUS

----------------------------------------------------------------------------
\* Each thread is at one of the four places of a call, and items are numbered
\* from zero.
LEMMA QueueTypeIsKept ==
  ASSUME Queue!TypeOK, [Queue!Next]_(Queue!vars)
  PROVE  Queue!TypeOK'
  <1> USE DEF Queue!TypeOK, Queue!Goto, Queue!Return
  <1>1. ASSUME NEW t \in QueueThreads, Queue!Push(t)
        PROVE  Queue!TypeOK'
    BY <1>1 DEF Queue!Push
  <1>2. ASSUME NEW t \in QueueThreads, Queue!Signal(t)
        PROVE  Queue!TypeOK'
    <2>1. qStep' \in [QueueThreads -> Nat]
      BY <1>2 DEF Queue!Signal
    <2>2. qAt' \in [QueueThreads -> {"call", "signal", "asleep", "woken"}]
      BY <1>2 DEF Queue!Signal
    <2> QED
      BY <1>2, <2>1, <2>2 DEF Queue!Signal
  <1>3. ASSUME NEW t \in QueueThreads, Queue!Take(t)
        PROVE  Queue!TypeOK'
    BY <1>3 DEF Queue!Take
  <1>4. ASSUME NEW t \in QueueThreads, Queue!WaitPop(t), ~Queue!Take(t)
        PROVE  Queue!TypeOK'
    BY <1>4 DEF Queue!WaitPop
  <1>5. ASSUME NEW t \in QueueThreads, Queue!TryPop(t), ~Queue!Take(t)
        PROVE  Queue!TypeOK'
    <2>1. qStep' \in [QueueThreads -> Nat]
      BY <1>5 DEF Queue!TryPop
    <2> QED
      BY <1>5, <2>1 DEF Queue!TryPop
  <1>6. ASSUME NEW t \in QueueThreads, Queue!WakeSpuriously(t)
        PROVE  Queue!TypeOK'
    BY <1>6 DEF Queue!WakeSpuriously
  <1>7. CASE UNCHANGED Queue!vars
    BY <1>7 DEF Queue!vars
  <1> QED
    BY <1>1, <1>2, <1>3, <1>4, <1>5, <1>6, <1>7 DEF Queue!Next, Queue!Step

\* A step leaves what was taken and what is queued together equal to what was
\* pushed.
LEMMA OrderIsKept ==
  ASSUME Queue!TypeOK, Queue!FirstInFirstOut, [Queue!Next]_(Queue!vars)
  PROVE  Queue!FirstInFirstOut'
  <1> USE DEF Queue!TypeOK, Queue!FirstInFirstOut
  <1>1. ASSUME NEW t \in QueueThreads, Queue!Push(t)
        PROVE  Queue!FirstInFirstOut'
    <2>1. Len(qPushed) \in Nat
      OBVIOUS
    <2>2. qPopped \o Append(qQueue, Len(qPushed)) = Append(qPopped \o qQueue,
               Len(qPushed))
      BY <2>1, BackGrows
    <2> QED
      BY <1>1, <2>2 DEF Queue!Push
  <1>2. ASSUME NEW t \in QueueThreads, Queue!Take(t)
        PROVE  Queue!FirstInFirstOut'
    BY <1>2, FrontMoves DEF Queue!Take
  <1>3. ASSUME UNCHANGED <<qQueue, qPushed, qPopped>>
        PROVE  Queue!FirstInFirstOut'
    BY <1>3
  <1> QED
    BY <1>1, <1>2, <1>3
    DEF Queue!Next, Queue!Step, Queue!Signal, Queue!WaitPop, Queue!TryPop,
        Queue!WakeSpuriously, Queue!vars

\* A step leaves, while a thread sleeps, a thread on its way for every item.
LEMMA SleepersAreCovered ==
  ASSUME Queue!ConcurrentQueueAssumption, Queue!TypeOK, Queue!NoSleepOverItem,
         [Queue!Next]_(Queue!vars)
  PROVE  Queue!NoSleepOverItem'
  <1> SUFFICES ASSUME QueueAsleep' # {}
               PROVE  Len(qQueue') <= Cardinality(QueueComing')
    BY DEF Queue!NoSleepOverItem, Queue!Cardinality, Cardinality, QueueAsleep, QueueComing
  <1>a. QueueComing \subseteq QueueThreads /\ QueueComing' \subseteq QueueThreads
    BY DEF QueueComing
  <1>b. QueueAsleep # {} => Len(qQueue) <= Cardinality(QueueComing)
    BY DEF Queue!NoSleepOverItem, Queue!Cardinality, Cardinality, QueueAsleep, QueueComing
  <1>c. /\ Cardinality(QueueComing) \in Nat /\ Cardinality(QueueComing') \in Nat
        /\ Len(qQueue) \in Nat
    BY <1>a, QueueThreadSets DEF Queue!TypeOK
  <1>1. ASSUME NEW t \in QueueThreads, Queue!Push(t)
        PROVE  Len(qQueue') <= Cardinality(QueueComing')
    <2>1. /\ t \notin QueueComing
          /\ QueueComing' = QueueComing \union {t}
          /\ QueueAsleep' = QueueAsleep
      BY <1>1 DEF Queue!Push, Queue!Calls, Queue!Goto, QueueComing, QueueAsleep,
                  Queue!TypeOK
    <2>2. Cardinality(QueueComing') = Cardinality(QueueComing) + 1
      BY <1>a, <2>1, QueueThreadSets
    <2>3. Len(qQueue') = Len(qQueue) + 1
      BY <1>1 DEF Queue!Push, Queue!TypeOK
    <2> QED
      BY <1>b, <1>c, <2>1, <2>2, <2>3
  <1>2. ASSUME NEW t \in QueueThreads, Queue!Signal(t)
        PROVE  Len(qQueue') <= Cardinality(QueueComing')
    <2>1. QueueAsleep # {}
      BY <1>2 DEF Queue!Signal, Queue!Goto, QueueAsleep, Queue!TypeOK
    <2>2. PICK u \in QueueAsleep : qAt' = [qAt EXCEPT ![t] = "call", ![u] = "woken"]
      BY <1>2, <2>1 DEF Queue!Signal, QueueAsleep
    <2>3. /\ t \in QueueComing
          /\ u \in QueueThreads \ (QueueComing \ {t})
          /\ QueueComing' = (QueueComing \ {t}) \union {u}
      BY <1>2, <2>2 DEF Queue!Signal, QueueComing, QueueAsleep, Queue!TypeOK
    <2>4. Cardinality(QueueComing \ {t}) = Cardinality(QueueComing) - 1
      BY <1>a, <2>3, QueueThreadSets
    <2>5. Cardinality(QueueComing') = Cardinality(QueueComing \ {t}) + 1
      BY <1>a, <2>3, QueueThreadSets
    <2> QED
      BY <1>2, <1>b, <1>c, <2>1, <2>4, <2>5 DEF Queue!Signal
  <1>3. ASSUME NEW t \in QueueThreads, Queue!Take(t), qAt[t] \in {"call", "woken"}
        PROVE  Len(qQueue') <= Cardinality(QueueComing')
    <2>1. /\ QueueComing' = QueueComing \ {t}
          /\ QueueAsleep' = QueueAsleep
      BY <1>3 DEF Queue!Take, Queue!Goto, QueueComing, QueueAsleep, Queue!TypeOK
    <2>2. Cardinality(QueueComing') >= Cardinality(QueueComing) - 1
      <3>1. CASE t \in QueueComing
        BY <3>1, <1>a, <1>c, <2>1, QueueThreadSets
      <3>2. CASE t \notin QueueComing
        <4>1. QueueComing' = QueueComing
          BY <3>2, <2>1
        <4> QED
          BY <4>1, <1>c
      <3> QED
        BY <3>1, <3>2
    <2>3. Len(qQueue') = Len(qQueue) - 1
      BY <1>3 DEF Queue!Take, Queue!TypeOK
    <2> QED
      BY <1>b, <1>c, <2>1, <2>2, <2>3
  <1>4. ASSUME NEW t \in QueueThreads, Queue!WaitPop(t), ~Queue!Take(t)
        PROVE  Len(qQueue') <= Cardinality(QueueComing')
    BY <1>4, <1>c DEF Queue!WaitPop
  <1>5. ASSUME NEW t \in QueueThreads, Queue!TryPop(t), ~Queue!Take(t)
        PROVE  Len(qQueue') <= Cardinality(QueueComing')
    BY <1>5, <1>c DEF Queue!TryPop
  <1>6. ASSUME NEW t \in QueueThreads, Queue!WakeSpuriously(t)
        PROVE  Len(qQueue') <= Cardinality(QueueComing')
    <2>1. /\ t \in QueueAsleep /\ t \notin QueueComing
          /\ QueueComing' = QueueComing \union {t}
      BY <1>6 DEF Queue!WakeSpuriously, Queue!Goto, QueueComing, QueueAsleep, Queue!TypeOK
    <2>2. Cardinality(QueueComing') = Cardinality(QueueComing) + 1
      BY <1>a, <2>1, QueueThreadSets
    <2> QED
      BY <1>6, <1>b, <1>c, <2>1, <2>2 DEF Queue!WakeSpuriously
  <1>7. CASE UNCHANGED Queue!vars
    <2>1. QueueComing' = QueueComing /\ QueueAsleep' = QueueAsleep /\ qQueue' = qQueue
      BY <1>7 DEF Queue!vars, QueueComing, QueueAsleep
    <2> QED
      BY <1>b, <2>1
  <1>8. \A t \in QueueThreads : Queue!WaitPop(t) \/ Queue!TryPop(t) => qAt[t] \in {"call", "woken"}
    BY DEF Queue!WaitPop, Queue!TryPop, Queue!Calls
  <1> QED
    BY <1>1, <1>2, <1>3, <1>4, <1>5, <1>6, <1>7, <1>8 DEF Queue!Next, Queue!Step

----------------------------------------------------------------------------
QueueInv == Queue!TypeOK /\ Queue!FirstInFirstOut /\ Queue!NoSleepOverItem

\* QueueInv is true at the start, kept by every step, and what was to be shown.
LEMMA QueueInvariant ==
  ASSUME Queue!ConcurrentQueueAssumption
  PROVE  /\ Queue!Init => QueueInv
         /\ QueueInv /\ [Queue!Next]_(Queue!vars) => QueueInv'
         /\ QueueInv => Queue!ItemsDelivered
  <1>1. Queue!Init => QueueInv
    BY DEF Queue!Init, QueueInv, Queue!TypeOK, Queue!FirstInFirstOut,
           Queue!NoSleepOverItem
  <1>2. QueueInv /\ [Queue!Next]_(Queue!vars) => QueueInv'
    BY QueueTypeIsKept, OrderIsKept, SleepersAreCovered DEF QueueInv
  <1>3. QueueInv => Queue!ItemsDelivered
    BY DEF QueueInv, Queue!ItemsDelivered
  <1> QED
    BY <1>1, <1>2, <1>3

----------------------------------------------------------------------------
(* The host program and the reloading of the game's code, for any number   *)
(* of builds and any length of time.                                       *)

\* From the exit of the old module to the pointers into the new one.
Loading == {"start", "copy", "library", "write_time", "pointers"}

\* The code that a copy of the library gives.
CodeOf(copy) == IF copy.complete /\ copy.exports THEN copy.build ELSE 0

ClockAhead == hTime <= hClock /\ hFile.time <= hClock

NothingCalled == hPhase \in Loading => hCode = 0

\* The module and the pointers are those of the copy.
CodeIsOfCopy ==
  /\ hPhase \in {"write_time", "pointers"} => hModule = IF hTemp.complete THEN hTemp.build ELSE 0
  /\ hPhase \in {"init", "loop", "frame"} => hCode = CodeOf(hTemp)

\* The copy is the library, unless a build ended that the host can or could
\* not see.
CopyIsCurrent ==
  ~hRaced /\ hFile.complete =>
    /\ hPhase \in {"library", "write_time"} => hTemp = hFile
    /\ hPhase \in {"pointers", "init", "loop", "frame"} /\ ~Host!Dirty => hTemp = hFile

\* Before a reload, Init sets up what it finds code for, and Shutdown undoes it.
InitAndShutdown ==
  ~hReloaded =>
    /\ hPhase \in Loading \union {"init"} => ~hJobs /\ ~hImgui
    /\ hPhase \in {"loop", "frame"} => (hCode # 0 <=> hStatics)
    /\ hPhase \in {"loop", "frame", "shutdown"} => hJobs = (hCode # 0) /\ hImgui = (hCode # 0)
    /\ hPhase \in {"close", "unload", "memory", "exited"} => ~hJobs /\ ~hImgui

HostInv ==
  /\ Host!TypeOK /\ ClockAhead /\ NothingCalled /\ Host!CallsLoadedCode
  /\ CodeIsOfCopy /\ CopyIsCurrent /\ InitAndShutdown
----------------------------------------------------------------------------
\* Every variable stays in its type.
LEMMA HostTypeIsKept ==
  ASSUME Host!TypeOK, [Host!Next]_(Host!vars)
  PROVE  Host!TypeOK'
  <1> USE DEF Host!TypeOK, Host!Libraries, Host!Phases, Host!disk, Host!gameVars,
              Host!engine
  <1>1. CASE Host!Tick
    BY <1>1 DEF Host!Tick
  <1>2. CASE Host!StartBuild
    BY <1>2 DEF Host!StartBuild
  <1>3. CASE Host!EndBuild
    BY <1>3 DEF Host!EndBuild
  <1>4. CASE Host!Start
    BY <1>4 DEF Host!Start, Host!Initialize, Host!HostStep
  <1>5. CASE Host!Copy
    BY <1>5 DEF Host!Copy, Host!HostStep
  <1>6. CASE Host!LoadModule
    BY <1>6 DEF Host!LoadModule, Host!HostStep
  <1>7. CASE Host!ReadWriteTime
    BY <1>7 DEF Host!ReadWriteTime, Host!HostStep
  <1>8. CASE Host!GetPointers
    BY <1>8 DEF Host!GetPointers, Host!HostStep, Host!AfterLoad, Host!Pointers
  <1>9. CASE Host!CallInit
    BY <1>9 DEF Host!CallInit, Host!HostStep
  <1>10. CASE Host!CheckDirty
    <2>1. CASE Host!Dirty
      <3>1. /\ hModule' = 0 /\ hCode' = 0 /\ hPhase' = "copy"
            /\ hStatics' = FALSE /\ hReloaded' = TRUE
            /\ UNCHANGED <<Host!disk, hTemp, hTime, Host!engine, hRaced>>
        BY <1>10, <2>1 DEF Host!CheckDirty, Host!Unload
      <3>2. hStatics' \in BOOLEAN /\ hReloaded' \in BOOLEAN
        BY <3>1
      <3> QED
        BY <3>1, <3>2
    <2>2. CASE ~Host!Dirty
      BY <1>10, <2>2 DEF Host!CheckDirty
    <2> QED
      BY <2>1, <2>2
  <1>11. CASE Host!Frame
    BY <1>11 DEF Host!Frame, Host!HostStep
  <1>12. CASE Host!CallShutdown
    BY <1>12 DEF Host!CallShutdown, Host!HostStep
  <1>13. CASE Host!Close
    BY <1>13 DEF Host!Close, Host!HostStep
  <1>14. CASE Host!UnloadAtExit
    BY <1>14 DEF Host!UnloadAtExit, Host!Unload
  <1>15. CASE Host!MemoryShutdown
    BY <1>15 DEF Host!MemoryShutdown, Host!HostStep
  <1>16. CASE UNCHANGED Host!vars
    BY <1>16 DEF Host!vars
  <1> QED
    BY <1>1, <1>2, <1>3, <1>4, <1>5, <1>6, <1>7, <1>8, <1>9,
       <1>10, <1>11, <1>12, <1>13, <1>14, <1>15, <1>16 DEF Host!Next, Host!HostNext

\* No recorded write time is in the future.
LEMMA ClockIsAhead ==
  ASSUME Host!TypeOK, ClockAhead, [Host!Next]_(Host!vars)
  PROVE  ClockAhead'
  <1> USE DEF Host!TypeOK, Host!Libraries, ClockAhead, Host!disk, Host!gameVars,
              Host!engine
  <1>1. CASE Host!Tick
    BY <1>1 DEF Host!Tick
  <1>2. CASE Host!StartBuild
    BY <1>2 DEF Host!StartBuild
  <1>3. CASE Host!EndBuild
    BY <1>3 DEF Host!EndBuild
  <1>4. CASE Host!Start
    BY <1>4 DEF Host!Start, Host!Initialize, Host!HostStep
  <1>5. CASE Host!Copy
    BY <1>5 DEF Host!Copy, Host!HostStep
  <1>6. CASE Host!LoadModule
    BY <1>6 DEF Host!LoadModule, Host!HostStep
  <1>7. CASE Host!ReadWriteTime
    BY <1>7 DEF Host!ReadWriteTime, Host!HostStep
  <1>8. CASE Host!GetPointers
    BY <1>8 DEF Host!GetPointers, Host!HostStep, Host!AfterLoad, Host!Pointers
  <1>9. CASE Host!CallInit
    BY <1>9 DEF Host!CallInit, Host!HostStep
  <1>10. CASE Host!CheckDirty
    BY <1>10 DEF Host!CheckDirty, Host!Unload
  <1>11. CASE Host!Frame
    BY <1>11 DEF Host!Frame, Host!HostStep
  <1>12. CASE Host!CallShutdown
    BY <1>12 DEF Host!CallShutdown, Host!HostStep
  <1>13. CASE Host!Close
    BY <1>13 DEF Host!Close, Host!HostStep
  <1>14. CASE Host!UnloadAtExit
    BY <1>14 DEF Host!UnloadAtExit, Host!Unload
  <1>15. CASE Host!MemoryShutdown
    BY <1>15 DEF Host!MemoryShutdown, Host!HostStep
  <1>16. CASE UNCHANGED Host!vars
    BY <1>16 DEF Host!vars
  <1> QED
    BY <1>1, <1>2, <1>3, <1>4, <1>5, <1>6, <1>7, <1>8, <1>9,
       <1>10, <1>11, <1>12, <1>13, <1>14, <1>15, <1>16 DEF Host!Next, Host!HostNext

\* The pointers are null from the unloading of a module to the next GetPointers,
\* and point into the loaded module from there on.
LEMMA CallsAreKept ==
  ASSUME NothingCalled, Host!CallsLoadedCode, [Host!Next]_(Host!vars)
  PROVE  (NothingCalled /\ Host!CallsLoadedCode)'
  <1> USE DEF NothingCalled, Host!CallsLoadedCode, Loading, Host!disk, Host!gameVars,
              Host!engine
  <1>1. CASE Host!Tick
    BY <1>1 DEF Host!Tick
  <1>2. CASE Host!StartBuild
    BY <1>2 DEF Host!StartBuild
  <1>3. CASE Host!EndBuild
    BY <1>3 DEF Host!EndBuild
  <1>4. CASE Host!Start
    BY <1>4 DEF Host!Start, Host!Initialize, Host!HostStep
  <1>5. CASE Host!Copy
    BY <1>5 DEF Host!Copy, Host!HostStep
  <1>6. CASE Host!LoadModule
    BY <1>6 DEF Host!LoadModule, Host!HostStep
  <1>7. CASE Host!ReadWriteTime
    BY <1>7 DEF Host!ReadWriteTime, Host!HostStep
  <1>8. CASE Host!GetPointers
    BY <1>8 DEF Host!GetPointers, Host!HostStep, Host!AfterLoad, Host!Pointers
  <1>9. CASE Host!CallInit
    BY <1>9 DEF Host!CallInit, Host!HostStep
  <1>10. CASE Host!CheckDirty
    BY <1>10 DEF Host!CheckDirty, Host!Unload
  <1>11. CASE Host!Frame
    BY <1>11 DEF Host!Frame, Host!HostStep
  <1>12. CASE Host!CallShutdown
    BY <1>12 DEF Host!CallShutdown, Host!HostStep
  <1>13. CASE Host!Close
    BY <1>13 DEF Host!Close, Host!HostStep
  <1>14. CASE Host!UnloadAtExit
    BY <1>14 DEF Host!UnloadAtExit, Host!Unload
  <1>15. CASE Host!MemoryShutdown
    BY <1>15 DEF Host!MemoryShutdown, Host!HostStep
  <1>16. CASE UNCHANGED Host!vars
    BY <1>16 DEF Host!vars
  <1> QED
    BY <1>1, <1>2, <1>3, <1>4, <1>5, <1>6, <1>7, <1>8, <1>9,
       <1>10, <1>11, <1>12, <1>13, <1>14, <1>15, <1>16 DEF Host!Next, Host!HostNext

\* The module that is loaded is the copy, and the pointers are what it exports.
LEMMA CodeIsKept ==
  ASSUME CodeIsOfCopy, [Host!Next]_(Host!vars)
  PROVE  CodeIsOfCopy'
  <1> USE DEF CodeIsOfCopy, CodeOf, Host!disk, Host!gameVars, Host!engine
  <1>1. CASE Host!Tick
    BY <1>1 DEF Host!Tick
  <1>2. CASE Host!StartBuild
    BY <1>2 DEF Host!StartBuild
  <1>3. CASE Host!EndBuild
    BY <1>3 DEF Host!EndBuild
  <1>4. CASE Host!Start
    BY <1>4 DEF Host!Start, Host!Initialize, Host!HostStep
  <1>5. CASE Host!Copy
    BY <1>5 DEF Host!Copy, Host!HostStep
  <1>6. CASE Host!LoadModule
    BY <1>6 DEF Host!LoadModule, Host!HostStep
  <1>7. CASE Host!ReadWriteTime
    BY <1>7 DEF Host!ReadWriteTime, Host!HostStep
  <1>8. CASE Host!GetPointers
    BY <1>8 DEF Host!GetPointers, Host!HostStep, Host!AfterLoad, Host!Pointers
  <1>9. CASE Host!CallInit
    BY <1>9 DEF Host!CallInit, Host!HostStep
  <1>10. CASE Host!CheckDirty
    BY <1>10 DEF Host!CheckDirty, Host!Unload
  <1>11. CASE Host!Frame
    BY <1>11 DEF Host!Frame, Host!HostStep
  <1>12. CASE Host!CallShutdown
    BY <1>12 DEF Host!CallShutdown, Host!HostStep
  <1>13. CASE Host!Close
    BY <1>13 DEF Host!Close, Host!HostStep
  <1>14. CASE Host!UnloadAtExit
    BY <1>14 DEF Host!UnloadAtExit, Host!Unload
  <1>15. CASE Host!MemoryShutdown
    BY <1>15 DEF Host!MemoryShutdown, Host!HostStep
  <1>16. CASE UNCHANGED Host!vars
    BY <1>16 DEF Host!vars
  <1> QED
    BY <1>1, <1>2, <1>3, <1>4, <1>5, <1>6, <1>7, <1>8, <1>9,
       <1>10, <1>11, <1>12, <1>13, <1>14, <1>15, <1>16 DEF Host!Next, Host!HostNext

\* The copy stays the library until a build ends, which is newer or a race.
LEMMA CopyIsKept ==
  ASSUME Host!TypeOK, ClockAhead, CopyIsCurrent, [Host!Next]_(Host!vars)
  PROVE  CopyIsCurrent'
  <1> USE DEF Host!TypeOK, Host!Libraries, ClockAhead, CopyIsCurrent, Host!Dirty,
              Host!disk, Host!gameVars, Host!engine
  <1>1. CASE Host!Tick
    BY <1>1 DEF Host!Tick
  <1>2. CASE Host!StartBuild
    BY <1>2 DEF Host!StartBuild
  <1>3. CASE Host!EndBuild
    <2>1. PICK exports \in BOOLEAN :
            hFile' = [build |-> hFile.build + 1, time |-> hClock, complete |-> TRUE,
                     exports |-> exports]
      BY <1>3 DEF Host!EndBuild
    <2>2. hFile'.time = hClock /\ hTime' = hTime /\ hPhase' = hPhase
      BY <1>3, <2>1 DEF Host!EndBuild
    <2>3. ~hRaced' => hPhase \notin {"library", "write_time"} /\ hTime # hClock
      BY <1>3 DEF Host!EndBuild
    <2>4. ~hRaced' => Host!Dirty'
      BY <2>2, <2>3
    <2> QED
      BY <2>2, <2>3, <2>4
  <1>4. CASE Host!Start
    BY <1>4 DEF Host!Start, Host!Initialize, Host!HostStep
  <1>5. CASE Host!Copy
    BY <1>5 DEF Host!Copy, Host!HostStep
  <1>6. CASE Host!LoadModule
    BY <1>6 DEF Host!LoadModule, Host!HostStep
  <1>7. CASE Host!ReadWriteTime
    BY <1>7 DEF Host!ReadWriteTime, Host!HostStep
  <1>8. CASE Host!GetPointers
    BY <1>8 DEF Host!GetPointers, Host!HostStep, Host!AfterLoad, Host!Pointers
  <1>9. CASE Host!CallInit
    BY <1>9 DEF Host!CallInit, Host!HostStep
  <1>10. CASE Host!CheckDirty
    BY <1>10 DEF Host!CheckDirty, Host!Unload
  <1>11. CASE Host!Frame
    BY <1>11 DEF Host!Frame, Host!HostStep
  <1>12. CASE Host!CallShutdown
    BY <1>12 DEF Host!CallShutdown, Host!HostStep
  <1>13. CASE Host!Close
    BY <1>13 DEF Host!Close, Host!HostStep
  <1>14. CASE Host!UnloadAtExit
    BY <1>14 DEF Host!UnloadAtExit, Host!Unload
  <1>15. CASE Host!MemoryShutdown
    BY <1>15 DEF Host!MemoryShutdown, Host!HostStep
  <1>16. CASE UNCHANGED Host!vars
    BY <1>16 DEF Host!vars
  <1> QED
    BY <1>1, <1>2, <1>3, <1>4, <1>5, <1>6, <1>7, <1>8, <1>9,
       <1>10, <1>11, <1>12, <1>13, <1>14, <1>15, <1>16 DEF Host!Next, Host!HostNext

\* Init and Shutdown stay in step with the engine and the statics.
LEMMA SetupIsKept ==
  ASSUME NothingCalled, InitAndShutdown, [Host!Next]_(Host!vars)
  PROVE  InitAndShutdown'
  <1> USE DEF NothingCalled, InitAndShutdown, Loading, Host!disk, Host!gameVars,
              Host!engine
  <1>1. CASE Host!Tick
    BY <1>1 DEF Host!Tick
  <1>2. CASE Host!StartBuild
    BY <1>2 DEF Host!StartBuild
  <1>3. CASE Host!EndBuild
    BY <1>3 DEF Host!EndBuild
  <1>4. CASE Host!Start
    BY <1>4 DEF Host!Start, Host!Initialize, Host!HostStep
  <1>5. CASE Host!Copy
    BY <1>5 DEF Host!Copy, Host!HostStep
  <1>6. CASE Host!LoadModule
    BY <1>6 DEF Host!LoadModule, Host!HostStep
  <1>7. CASE Host!ReadWriteTime
    BY <1>7 DEF Host!ReadWriteTime, Host!HostStep
  <1>8. CASE Host!GetPointers
    BY <1>8 DEF Host!GetPointers, Host!HostStep, Host!AfterLoad, Host!Pointers
  <1>9. CASE Host!CallInit
    BY <1>9 DEF Host!CallInit, Host!HostStep
  <1>10. CASE Host!CheckDirty
    BY <1>10 DEF Host!CheckDirty, Host!Unload
  <1>11. CASE Host!Frame
    BY <1>11 DEF Host!Frame, Host!HostStep
  <1>12. CASE Host!CallShutdown
    BY <1>12 DEF Host!CallShutdown, Host!HostStep
  <1>13. CASE Host!Close
    BY <1>13 DEF Host!Close, Host!HostStep
  <1>14. CASE Host!UnloadAtExit
    BY <1>14 DEF Host!UnloadAtExit, Host!Unload
  <1>15. CASE Host!MemoryShutdown
    BY <1>15 DEF Host!MemoryShutdown, Host!HostStep
  <1>16. CASE UNCHANGED Host!vars
    BY <1>16 DEF Host!vars
  <1> QED
    BY <1>1, <1>2, <1>3, <1>4, <1>5, <1>6, <1>7, <1>8, <1>9,
       <1>10, <1>11, <1>12, <1>13, <1>14, <1>15, <1>16 DEF Host!Next, Host!HostNext

\* The program starts with nothing loaded.
LEMMA HostStarts ==
  ASSUME Host!Init
  PROVE  HostInv
  <1> USE DEF Host!Init
  <1>1. PICK exports \in BOOLEAN :
          hFile = [build |-> 1, time |-> 0, complete |-> TRUE, exports |-> exports]
    OBVIOUS
  <1>2. hFile \in Host!Libraries /\ hTemp \in Host!Libraries
    BY <1>1 DEF Host!Libraries
  <1>3. Host!TypeOK
    BY <1>2 DEF Host!TypeOK, Host!Phases
  <1>4. ClockAhead
    BY <1>1 DEF ClockAhead
  <1>5. NothingCalled /\ Host!CallsLoadedCode /\ CodeIsOfCopy
    BY DEF NothingCalled, Host!CallsLoadedCode, CodeIsOfCopy
  <1>6. CopyIsCurrent /\ InitAndShutdown
    BY DEF CopyIsCurrent, InitAndShutdown
  <1> QED
    BY <1>3, <1>4, <1>5, <1>6 DEF HostInv

\* The parts of the invariant give the parts of the promise.
LEMMA HostInvSuffices ==
  ASSUME HostInv
  PROVE  Host!HostInStep
  <1> USE DEF HostInv
  <1>1. Host!InitBeforeFrame
    BY DEF InitAndShutdown, Host!InitBeforeFrame
  <1>2. Host!UpToDate
    BY DEF CopyIsCurrent, CodeIsOfCopy, CodeOf, Host!UpToDate
  <1>3. Host!CleanExit
    BY DEF InitAndShutdown, Host!CleanExit
  <1> QED
    BY <1>1, <1>2, <1>3 DEF Host!HostInStep

\* HostInv is true at the start, kept by every step, and gives the promise.
LEMMA HostInvariant ==
  /\ Host!Init => HostInv
  /\ HostInv /\ [Host!Next]_(Host!vars) => HostInv'
  /\ HostInv => Host!HostInStep
  <1>1. HostInv /\ [Host!Next]_(Host!vars) => HostInv'
    <2> SUFFICES ASSUME HostInv, [Host!Next]_(Host!vars)
                 PROVE  HostInv'
      OBVIOUS
    <2> USE DEF HostInv
    <2>1. Host!TypeOK' /\ ClockAhead'
      BY HostTypeIsKept, ClockIsAhead
    <2>2. NothingCalled' /\ Host!CallsLoadedCode' /\ CodeIsOfCopy'
      BY CallsAreKept, CodeIsKept
    <2>3. CopyIsCurrent' /\ InitAndShutdown'
      BY CopyIsKept, SetupIsKept
    <2> QED
      BY <2>1, <2>2, <2>3
  <1> QED
    BY <1>1, HostStarts, HostInvSuffices

----------------------------------------------------------------------------
(* The components beside each other.                                       *)

PoolFacts == INSTANCE ThreadPoolProofs WITH
  Workers <- PoolWorkers, Clients <- PoolClients, Owner <- PoolOwner,
  TaskCount <- PoolTasks, Syncs <- PoolSyncs,
  queue <- pQueue, mutex <- pMutex, stop <- pStop, unfinished <- pUnfinished, at <- pAt,
  task <- pTask, enqueued <- pEnqueued, completed <- pCompleted

\* A behaviour of the whole is, for the variables of each component, one of the
\* component: the others leave them alone.
LEMMA Apart ==
  ConcurrencyNext \/ UNCHANGED allVars =>
    /\ [Pool!Next]_poolVars
    /\ [Queue!Next]_queueVars
    /\ [Host!Next]_hostVars
  BY DEF ConcurrencyNext, IsSubject, allVars, poolVars, queueVars, hostVars

\* Pool names the same steps here and in its proof module.
LEMMA PoolTerms ==
  Pool!Next <=> PoolFacts!Next
  BY DEF Pool!vars, Pool!PoolThreads, Pool!In, Pool!Goto, Pool!NotifyOne, Pool!Lock,
         Pool!Unlock, Pool!WorkerLock, Pool!WorkerPredicate, Pool!WorkerSleep,
         Pool!WorkerStop, Pool!WorkerTake, Pool!WorkerRun, Pool!WorkerFinish,
         Pool!WorkerNotifySync, Pool!Enqueue, Pool!EnqueuePush, Pool!EnqueueNotify,
         Pool!EndEnqueueing, Pool!SyncLock, Pool!SyncPredicate, Pool!SyncSleep,
         Pool!SyncReturn, Pool!Destroy, Pool!DestroyNotify, Pool!DestroyJoin,
         Pool!WakeSpuriously, Pool!WorkerStep, Pool!ClientStep, Pool!OwnerStep, Pool!Next,
         PoolFacts!vars, PoolFacts!PoolThreads, PoolFacts!In, PoolFacts!Goto,
         PoolFacts!NotifyOne, PoolFacts!Lock, PoolFacts!Unlock, PoolFacts!WorkerLock,
         PoolFacts!WorkerPredicate, PoolFacts!WorkerSleep, PoolFacts!WorkerStop,
         PoolFacts!WorkerTake, PoolFacts!WorkerRun, PoolFacts!WorkerFinish,
         PoolFacts!WorkerNotifySync, PoolFacts!Enqueue, PoolFacts!EnqueuePush,
         PoolFacts!EnqueueNotify, PoolFacts!EndEnqueueing, PoolFacts!SyncLock,
         PoolFacts!SyncPredicate, PoolFacts!SyncSleep, PoolFacts!SyncReturn,
         PoolFacts!Destroy, PoolFacts!DestroyNotify, PoolFacts!DestroyJoin,
         PoolFacts!WakeSpuriously, PoolFacts!WorkerStep, PoolFacts!ClientStep,
         PoolFacts!OwnerStep, PoolFacts!Next

\* No task of the pool is lost or run twice, whatever the other components do.
THEOREM PoolKeepsTasks == ConcurrencySpec => []TasksConserved
  <1>1. ConcurrencyInit => PoolFacts!Init
    BY DEF ConcurrencyInit, Pool!Init, PoolFacts!Init, Pool!PoolThreads,
           PoolFacts!PoolThreads
  <1>2. [ConcurrencyNext]_allVars => [PoolFacts!Next]_(PoolFacts!vars)
    BY Apart, PoolTerms DEF poolVars, PoolFacts!vars
  <1>3. PoolFacts!Spec => []PoolFacts!TasksConserved
    <2>1. PoolFacts!ThreadPoolAssumption
      BY ConcurrencyAssumption
      DEF Pool!ThreadPoolAssumption, PoolFacts!ThreadPoolAssumption,
          Pool!IsFiniteSet, PoolFacts!IsFiniteSet
    <2> QED
      BY <2>1, PoolFacts!NoTaskLost
  <1>4. PoolFacts!TasksConserved => TasksConserved
    BY DEF PoolFacts!TasksConserved, TasksConserved, Pool!TasksConserved,
       Pool!In, PoolFacts!In, Pool!PoolThreads, PoolFacts!PoolThreads,
       Pool!Running, PoolFacts!Running, Pool!Cardinality, PoolFacts!Cardinality
  <1> QED
    BY <1>1, <1>2, <1>3, <1>4, PTL DEF ConcurrencySpec, PoolFacts!Spec

\* A Sync that has returned leaves no task of its client undone.
THEOREM PoolSyncsCompletely == ConcurrencySpec => []SyncIsComplete
  <1>1. ConcurrencyInit => PoolFacts!Init
    BY DEF ConcurrencyInit, Pool!Init, PoolFacts!Init, Pool!PoolThreads,
           PoolFacts!PoolThreads
  <1>2. [ConcurrencyNext]_allVars => [PoolFacts!Next]_(PoolFacts!vars)
    BY Apart, PoolTerms DEF poolVars, PoolFacts!vars
  <1>3. PoolFacts!Spec => []PoolFacts!SyncIsComplete
    <2>1. PoolFacts!ThreadPoolAssumption
      BY ConcurrencyAssumption
      DEF Pool!ThreadPoolAssumption, PoolFacts!ThreadPoolAssumption,
          Pool!IsFiniteSet, PoolFacts!IsFiniteSet
    <2> QED
      BY <2>1, PoolFacts!SyncWaitsForAll
  <1>4. PoolFacts!SyncIsComplete => SyncIsComplete
    BY DEF PoolFacts!SyncIsComplete, SyncIsComplete, Pool!SyncIsComplete
  <1> QED
    BY <1>1, <1>2, <1>3, <1>4, PTL DEF ConcurrencySpec, PoolFacts!Spec

\* Whichever threads push and pop, items leave in the order of their pushes,
\* none lost or doubled, and no thread sleeps in wait_pop over an item that no
\* other is coming for, although push signals after it has released the mutex
\* (lines 42-56) and a sleeper may wake for no reason.
THEOREM QueueDelivers == ConcurrencySpec => []ItemsDelivered
  <1>1. ConcurrencyInit => Queue!Init
    BY DEF ConcurrencyInit
  <1>2. [ConcurrencyNext]_allVars => [Queue!Next]_(Queue!vars)
    BY Apart DEF queueVars, Queue!vars
  <1>3. /\ Queue!Init => QueueInv
        /\ QueueInv /\ [Queue!Next]_(Queue!vars) => QueueInv'
        /\ QueueInv => Queue!ItemsDelivered
    BY ConcurrencyAssumption, QueueInvariant
  <1>4. Queue!ItemsDelivered => ItemsDelivered
    BY DEF ItemsDelivered
  <1> QED
    BY <1>1, <1>2, <1>3, <1>4, PTL DEF ConcurrencySpec

\* However the linker's builds fall between the steps of load and reload: no call
\* goes through a pointer into a module that is not loaded, the game finds what
\* Init set up until a reload, frames are drawn by the last build that ended
\* unless it ended in the window that the write time cannot show, and an exit
\* without a reload leaves no worker threads and no GL objects.
THEOREM HostStaysInStep == ConcurrencySpec => []HostInStep
  <1>1. ConcurrencyInit => Host!Init
    BY DEF ConcurrencyInit
  <1>2. [ConcurrencyNext]_allVars => [Host!Next]_(Host!vars)
    BY Apart DEF hostVars, Host!vars, Host!disk, Host!gameVars, Host!engine
  <1>3. /\ Host!Init => HostInv
        /\ HostInv /\ [Host!Next]_(Host!vars) => HostInv'
        /\ HostInv => Host!HostInStep
    BY HostInvariant
  <1>4. Host!HostInStep => HostInStep
    BY DEF HostInStep
  <1> QED
    BY <1>1, <1>2, <1>3, <1>4, PTL DEF ConcurrencySpec
=============================================================================
