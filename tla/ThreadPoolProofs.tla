-------------------------- MODULE ThreadPoolProofs --------------------------
(***************************************************************************)
(* Proofs about class ThreadPool for any finite sets of workers and        *)
(* clients, any number of tasks and any choice of the clients that Sync.   *)
(***************************************************************************)
EXTENDS ThreadPool, FiniteSetTheorems, SequenceTheorems, FunctionTheorems, TLAPS

WorkerPlaces == {"lock", "predicate", "fallAsleep", "sleepQueue", "wokenQueue", "take",
                 "run", "finish", "notifySync", "joined"}

\* Where a client is that has enqueued its last task.
AfterEnqueueing == {"sync", "syncPredicate", "syncSleep", "sleepSync", "wokenSync",
                    "syncReturn", "through"}

\* Where every client is once the destructor has set stop_.
Ended == {"through", "notifyStop", "join", "destroyed"}

\* The critical sections of mutex_.
Holding == {"predicate", "fallAsleep", "take", "syncPredicate", "syncSleep", "syncReturn"}

\* Workers are in the worker's loop and clients are not.
Roles == \A t \in PoolThreads : t \in Workers <=> at[t] \in WorkerPlaces

Mutexed == \A t \in PoolThreads : at[t] \in Holding => mutex = t

\* What a worker's predicate has seen stays true while it holds the mutex.
PredicateHolds ==
  \A w \in Workers :
    /\ at[w] = "take" /\ ~stop => queue # <<>>
    /\ at[w] = "fallAsleep" => queue = <<>>

AllEnqueued == \A c \in Clients : at[c] \in AfterEnqueueing => enqueued[c] = TaskCount[c]

StopIsLast == stop => \A c \in Clients : at[c] \in Ended

\* What Sync's predicate has seen is true of the client's own tasks for good.
Synced ==
  \A c \in Clients : at[c] = "syncReturn" \/ (c \in Syncs /\ at[c] = "through") =>
    completed[c] = TaskCount[c]

Control == Roles /\ Mutexed /\ PredicateHolds /\ AllEnqueued /\ StopIsLast

PoolInv == TypeOK /\ Control /\ TasksConserved /\ Synced

----------------------------------------------------------------------------
\* The pool starts without tasks, its workers before their first lock.
LEMMA PoolStarts ==
  ASSUME ThreadPoolAssumption, Init
  PROVE  TypeOK /\ Control /\ Synced
  <1> USE DEF Init, ThreadPoolAssumption, PoolThreads
  <1>1. TypeOK
    <2>1. at \in [PoolThreads -> Places]
      BY DEF Places
    <2>2. queue \in Seq(Clients)
      OBVIOUS
    <2>3. /\ mutex \in PoolThreads \union {Free}
          /\ stop \in BOOLEAN
          /\ unfinished \in Nat
      OBVIOUS
    <2>4. /\ task \in [Workers -> Clients]
          /\ enqueued \in [Clients -> Nat]
          /\ completed \in [Clients -> Nat]
      OBVIOUS
    <2> QED
      BY <2>1, <2>2, <2>3, <2>4 DEF TypeOK
  <1>2. Roles
    BY DEF Roles, WorkerPlaces
  <1>3. Mutexed /\ PredicateHolds /\ AllEnqueued /\ StopIsLast /\ Synced
    BY DEF Mutexed, PredicateHolds, AllEnqueued, StopIsLast, Synced, Holding, AfterEnqueueing
  <1> QED
    BY <1>1, <1>2, <1>3 DEF Control

\* Each variable stays in its type: the queue holds clients' tasks, and
\* unfinished_task_count_ does not wrap below zero.
LEMMA TypeIsKept ==
  ASSUME ThreadPoolAssumption, TypeOK, Control, TasksConserved, [Next]_vars
  PROVE  TypeOK'
  <1> USE DEF ThreadPoolAssumption, TypeOK, PoolThreads, Goto, Lock, Unlock, Places
  <1>1. ASSUME NEW w \in Workers, WorkerLock(w)
        PROVE  TypeOK'
    BY <1>1 DEF WorkerLock
  <1>2. ASSUME NEW w \in Workers, WorkerPredicate(w)
        PROVE  TypeOK'
    BY <1>2 DEF WorkerPredicate
  <1>3. ASSUME NEW w \in Workers, WorkerSleep(w) \/ WorkerStop(w)
        PROVE  TypeOK'
    BY <1>3 DEF WorkerSleep, WorkerStop
  <1>4. ASSUME NEW w \in Workers, WorkerTake(w)
        PROVE  TypeOK'
    <2>1. queue # <<>>
      BY <1>4 DEF WorkerTake, Control, PredicateHolds
    <2>2. Head(queue) \in Clients /\ Tail(queue) \in Seq(Clients)
      BY <2>1
    <2> QED
      BY <1>4, <2>2 DEF WorkerTake
  <1>5. ASSUME NEW w \in Workers, WorkerRun(w)
        PROVE  TypeOK'
    <2>1. completed' \in [Clients -> Nat]
      BY <1>5 DEF WorkerRun
    <2> QED
      BY <1>5, <2>1 DEF WorkerRun
  <1>6. ASSUME NEW w \in Workers, WorkerFinish(w)
        PROVE  TypeOK'
    <2>1. In("run") \union In("finish") \union In("push") \subseteq PoolThreads
      BY DEF In
    <2>2. IsFiniteSet(PoolThreads)
      BY FS_Union
    <2>3. IsFiniteSet(In("run") \union In("finish") \union In("push"))
      BY <2>1, <2>2, FS_Subset
    <2>4. w \in In("run") \union In("finish") \union In("push")
      BY <1>6 DEF WorkerFinish, In
    <2>5. Cardinality(In("run") \union In("finish") \union In("push")) \in Nat \ {0}
      BY <2>3, <2>4, FS_CardinalityType, FS_EmptySet
    <2>6. unfinished \in Nat \ {0}
      BY <2>5 DEF TasksConserved
    <2>7. unfinished - 1 \in Nat
      BY <2>6
    <2> QED
      BY <1>6, <2>7 DEF WorkerFinish
  <1>7. ASSUME NEW w \in Workers, WorkerNotifySync(w)
        PROVE  TypeOK'
    <2>1. at' \in [PoolThreads -> Places]
      BY <1>7 DEF WorkerNotifySync, NotifyOne, In
    <2> QED
      BY <1>7, <2>1 DEF WorkerNotifySync
  <1>8. ASSUME NEW c \in Clients, Enqueue(c)
        PROVE  TypeOK'
    BY <1>8 DEF Enqueue
  <1>9. ASSUME NEW c \in Clients, EnqueuePush(c)
        PROVE  TypeOK'
    <2>1. enqueued' \in [Clients -> Nat]
      BY <1>9 DEF EnqueuePush
    <2>2. Append(queue, c) \in Seq(Clients)
      OBVIOUS
    <2> QED
      BY <1>9, <2>1, <2>2 DEF EnqueuePush
  <1>10. ASSUME NEW c \in Clients, EnqueueNotify(c)
         PROVE  TypeOK'
    <2>1. at' \in [PoolThreads -> Places]
      BY <1>10 DEF EnqueueNotify, NotifyOne, In
    <2> QED
      BY <1>10, <2>1 DEF EnqueueNotify
  <1>11. ASSUME NEW c \in Clients, EndEnqueueing(c) \/ SyncPredicate(c)
         PROVE  TypeOK'
    BY <1>11 DEF EndEnqueueing, SyncPredicate
  <1>12. ASSUME NEW c \in Clients, SyncLock(c) \/ SyncSleep(c) \/ SyncReturn(c)
         PROVE  TypeOK'
    BY <1>12 DEF SyncLock, SyncSleep, SyncReturn
  <1>13. ASSUME Destroy \/ DestroyJoin
         PROVE  TypeOK'
    BY <1>13 DEF Destroy, DestroyJoin
  <1>14. ASSUME DestroyNotify
         PROVE  TypeOK'
    <2>1. at' \in [PoolThreads -> Places]
      BY <1>14 DEF DestroyNotify
    <2> QED
      BY <1>14, <2>1 DEF DestroyNotify
  <1>15. ASSUME NEW t \in PoolThreads, WakeSpuriously(t)
         PROVE  TypeOK'
    BY <1>15 DEF WakeSpuriously
  <1>16. CASE UNCHANGED vars
    BY <1>16 DEF vars
  <1> QED
    BY <1>1, <1>2, <1>3, <1>4, <1>5, <1>6, <1>7, <1>8, <1>9, <1>10, <1>11, <1>12, <1>13,
       <1>14, <1>15, <1>16
    DEF Next, WorkerStep, ClientStep, OwnerStep

\* Every step keeps workers and clients in their parts of the code.
LEMMA RolesAreKept ==
  ASSUME ThreadPoolAssumption, TypeOK, Roles, [Next]_vars
  PROVE  Roles'
  <1> USE DEF ThreadPoolAssumption, TypeOK, PoolThreads, Goto, Lock, Unlock, Roles, WorkerPlaces
  <1>1. ASSUME NEW w \in Workers, WorkerLock(w) \/ WorkerPredicate(w) \/ WorkerSleep(w)
        PROVE  Roles'
    BY <1>1 DEF WorkerLock, WorkerPredicate, WorkerSleep
  <1>2. ASSUME NEW w \in Workers, WorkerStop(w) \/ WorkerTake(w)
        PROVE  Roles'
    BY <1>2 DEF WorkerStop, WorkerTake
  <1>3. ASSUME NEW w \in Workers, WorkerRun(w) \/ WorkerFinish(w)
        PROVE  Roles'
    BY <1>3 DEF WorkerRun, WorkerFinish
  <1>4. ASSUME NEW w \in Workers, WorkerNotifySync(w)
        PROVE  Roles'
    BY <1>4 DEF WorkerNotifySync, NotifyOne, In
  <1>5. ASSUME NEW c \in Clients, Enqueue(c) \/ EnqueuePush(c)
        PROVE  Roles'
    BY <1>5 DEF Enqueue, EnqueuePush
  <1>6. ASSUME NEW c \in Clients, EnqueueNotify(c)
        PROVE  Roles'
    BY <1>6 DEF EnqueueNotify, NotifyOne, In
  <1>7. ASSUME NEW c \in Clients, EndEnqueueing(c) \/ SyncPredicate(c)
        PROVE  Roles'
    BY <1>7 DEF EndEnqueueing, SyncPredicate
  <1>8. ASSUME NEW c \in Clients, SyncLock(c) \/ SyncSleep(c) \/ SyncReturn(c)
        PROVE  Roles'
    BY <1>8 DEF SyncLock, SyncSleep, SyncReturn
  <1>9. ASSUME Destroy \/ DestroyNotify \/ DestroyJoin
        PROVE  Roles'
    BY <1>9 DEF Destroy, DestroyNotify, DestroyJoin
  <1>10. ASSUME NEW t \in PoolThreads, WakeSpuriously(t)
         PROVE  Roles'
    BY <1>10 DEF WakeSpuriously
  <1>11. CASE UNCHANGED vars
    BY <1>11 DEF vars
  <1> QED
    BY <1>1, <1>2, <1>3, <1>4, <1>5, <1>6, <1>7, <1>8, <1>9, <1>10, <1>11
    DEF Next, WorkerStep, ClientStep, OwnerStep

\* Every step leaves at most the holder of the mutex in a critical section.
LEMMA MutexIsKept ==
  ASSUME ThreadPoolAssumption, TypeOK, Mutexed, [Next]_vars
  PROVE  Mutexed'
  <1> USE DEF ThreadPoolAssumption, TypeOK, PoolThreads, Goto, Lock, Unlock,
             Mutexed, Holding
  <1>1. ASSUME NEW w \in Workers, WorkerLock(w) \/ WorkerPredicate(w) \/ WorkerSleep(w)
        PROVE  Mutexed'
    <2>1. CASE WorkerLock(w)
      BY <2>1 DEF WorkerLock
    <2>2. CASE WorkerPredicate(w)
      <3>1. mutex = w /\ mutex' = mutex
        BY <2>2 DEF WorkerPredicate
      <3>2. \A t \in PoolThreads \ {w} : at'[t] = at[t]
        BY <2>2 DEF WorkerPredicate
      <3> QED
        BY <3>1, <3>2
    <2>3. CASE WorkerSleep(w)
      BY <2>3 DEF WorkerSleep
    <2> QED
      BY <1>1, <2>1, <2>2, <2>3
  <1>2. ASSUME NEW w \in Workers, WorkerStop(w) \/ WorkerTake(w)
        PROVE  Mutexed'
    BY <1>2 DEF WorkerStop, WorkerTake
  <1>3. ASSUME NEW w \in Workers, WorkerRun(w) \/ WorkerFinish(w)
        PROVE  Mutexed'
    BY <1>3 DEF WorkerRun, WorkerFinish
  <1>4. ASSUME NEW w \in Workers, WorkerNotifySync(w)
        PROVE  Mutexed'
    BY <1>4 DEF WorkerNotifySync, NotifyOne, In
  <1>5. ASSUME NEW c \in Clients, Enqueue(c) \/ EnqueuePush(c)
        PROVE  Mutexed'
    BY <1>5 DEF Enqueue, EnqueuePush
  <1>6. ASSUME NEW c \in Clients, EnqueueNotify(c)
        PROVE  Mutexed'
    BY <1>6 DEF EnqueueNotify, NotifyOne, In
  <1>7. ASSUME NEW c \in Clients, EndEnqueueing(c) \/ SyncPredicate(c)
        PROVE  Mutexed'
    BY <1>7 DEF EndEnqueueing, SyncPredicate
  <1>8. ASSUME NEW c \in Clients, SyncLock(c) \/ SyncSleep(c) \/ SyncReturn(c)
        PROVE  Mutexed'
    BY <1>8 DEF SyncLock, SyncSleep, SyncReturn
  <1>9. ASSUME Destroy \/ DestroyNotify \/ DestroyJoin
        PROVE  Mutexed'
    BY <1>9 DEF Destroy, DestroyNotify, DestroyJoin
  <1>10. ASSUME NEW t \in PoolThreads, WakeSpuriously(t)
         PROVE  Mutexed'
    BY <1>10 DEF WakeSpuriously
  <1>11. CASE UNCHANGED vars
    BY <1>11 DEF vars
  <1> QED
    BY <1>1, <1>2, <1>3, <1>4, <1>5, <1>6, <1>7, <1>8, <1>9, <1>10, <1>11
    DEF Next, WorkerStep, ClientStep, OwnerStep

\* Every step keeps what the predicate of a worker that holds the mutex has seen.
LEMMA PredicateIsKept ==
  ASSUME ThreadPoolAssumption, TypeOK, Roles, Mutexed, PredicateHolds, [Next]_vars
  PROVE  PredicateHolds'
  <1> USE DEF ThreadPoolAssumption, TypeOK, PoolThreads, Goto, Lock, Unlock,
             Roles, WorkerPlaces, Mutexed, PredicateHolds, Holding
  <1>1. ASSUME NEW w \in Workers, WorkerLock(w) \/ WorkerPredicate(w) \/ WorkerSleep(w)
        PROVE  PredicateHolds'
    BY <1>1 DEF WorkerLock, WorkerPredicate, WorkerSleep
  <1>2. ASSUME NEW w \in Workers, WorkerStop(w) \/ WorkerTake(w)
        PROVE  PredicateHolds'
    BY <1>2 DEF WorkerStop, WorkerTake
  <1>3. ASSUME NEW w \in Workers, WorkerRun(w) \/ WorkerFinish(w)
        PROVE  PredicateHolds'
    BY <1>3 DEF WorkerRun, WorkerFinish
  <1>4. ASSUME NEW w \in Workers, WorkerNotifySync(w)
        PROVE  PredicateHolds'
    BY <1>4 DEF WorkerNotifySync, NotifyOne, In
  <1>5. ASSUME NEW c \in Clients, Enqueue(c) \/ EnqueuePush(c)
        PROVE  PredicateHolds'
    BY <1>5 DEF Enqueue, EnqueuePush
  <1>6. ASSUME NEW c \in Clients, EnqueueNotify(c)
        PROVE  PredicateHolds'
    BY <1>6 DEF EnqueueNotify, NotifyOne, In
  <1>7. ASSUME NEW c \in Clients, EndEnqueueing(c) \/ SyncPredicate(c)
        PROVE  PredicateHolds'
    BY <1>7 DEF EndEnqueueing, SyncPredicate
  <1>8. ASSUME NEW c \in Clients, SyncLock(c) \/ SyncSleep(c) \/ SyncReturn(c)
        PROVE  PredicateHolds'
    BY <1>8 DEF SyncLock, SyncSleep, SyncReturn
  <1>9. ASSUME Destroy \/ DestroyNotify \/ DestroyJoin
        PROVE  PredicateHolds'
    BY <1>9 DEF Destroy, DestroyNotify, DestroyJoin
  <1>10. ASSUME NEW t \in PoolThreads, WakeSpuriously(t)
         PROVE  PredicateHolds'
    BY <1>10 DEF WakeSpuriously
  <1>11. CASE UNCHANGED vars
    BY <1>11 DEF vars
  <1> QED
    BY <1>1, <1>2, <1>3, <1>4, <1>5, <1>6, <1>7, <1>8, <1>9, <1>10, <1>11
    DEF Next, WorkerStep, ClientStep, OwnerStep

\* Every step keeps the number of tasks of a client that has enqueued its last.
LEMMA EnqueuedIsKept ==
  ASSUME ThreadPoolAssumption, TypeOK, Roles, AllEnqueued, [Next]_vars
  PROVE  AllEnqueued'
  <1> USE DEF ThreadPoolAssumption, TypeOK, PoolThreads, Goto, Lock, Unlock,
             Roles, WorkerPlaces, AllEnqueued, AfterEnqueueing
  <1>1. ASSUME NEW w \in Workers, WorkerLock(w) \/ WorkerPredicate(w) \/ WorkerSleep(w)
        PROVE  AllEnqueued'
    BY <1>1 DEF WorkerLock, WorkerPredicate, WorkerSleep
  <1>2. ASSUME NEW w \in Workers, WorkerStop(w) \/ WorkerTake(w)
        PROVE  AllEnqueued'
    BY <1>2 DEF WorkerStop, WorkerTake
  <1>3. ASSUME NEW w \in Workers, WorkerRun(w) \/ WorkerFinish(w)
        PROVE  AllEnqueued'
    BY <1>3 DEF WorkerRun, WorkerFinish
  <1>4. ASSUME NEW w \in Workers, WorkerNotifySync(w)
        PROVE  AllEnqueued'
    BY <1>4 DEF WorkerNotifySync, NotifyOne, In
  <1>5. ASSUME NEW c \in Clients, Enqueue(c) \/ EnqueuePush(c)
        PROVE  AllEnqueued'
    BY <1>5 DEF Enqueue, EnqueuePush
  <1>6. ASSUME NEW c \in Clients, EnqueueNotify(c)
        PROVE  AllEnqueued'
    BY <1>6 DEF EnqueueNotify, NotifyOne, In
  <1>7. ASSUME NEW c \in Clients, EndEnqueueing(c) \/ SyncPredicate(c)
        PROVE  AllEnqueued'
    BY <1>7 DEF EndEnqueueing, SyncPredicate
  <1>8. ASSUME NEW c \in Clients, SyncLock(c) \/ SyncSleep(c) \/ SyncReturn(c)
        PROVE  AllEnqueued'
    BY <1>8 DEF SyncLock, SyncSleep, SyncReturn
  <1>9. ASSUME Destroy \/ DestroyNotify \/ DestroyJoin
        PROVE  AllEnqueued'
    BY <1>9 DEF Destroy, DestroyNotify, DestroyJoin
  <1>10. ASSUME NEW t \in PoolThreads, WakeSpuriously(t)
         PROVE  AllEnqueued'
    BY <1>10 DEF WakeSpuriously
  <1>11. CASE UNCHANGED vars
    BY <1>11 DEF vars
  <1> QED
    BY <1>1, <1>2, <1>3, <1>4, <1>5, <1>6, <1>7, <1>8, <1>9, <1>10, <1>11
    DEF Next, WorkerStep, ClientStep, OwnerStep

\* Every step keeps the clients at their end once stop_ is set.
LEMMA StopIsKept ==
  ASSUME ThreadPoolAssumption, TypeOK, Roles, StopIsLast, [Next]_vars
  PROVE  StopIsLast'
  <1> USE DEF ThreadPoolAssumption, TypeOK, PoolThreads, Goto, Lock, Unlock,
             Roles, WorkerPlaces, StopIsLast, Ended
  <1>1. ASSUME NEW w \in Workers, WorkerLock(w) \/ WorkerPredicate(w) \/ WorkerSleep(w)
        PROVE  StopIsLast'
    BY <1>1 DEF WorkerLock, WorkerPredicate, WorkerSleep
  <1>2. ASSUME NEW w \in Workers, WorkerStop(w) \/ WorkerTake(w)
        PROVE  StopIsLast'
    BY <1>2 DEF WorkerStop, WorkerTake
  <1>3. ASSUME NEW w \in Workers, WorkerRun(w) \/ WorkerFinish(w)
        PROVE  StopIsLast'
    BY <1>3 DEF WorkerRun, WorkerFinish
  <1>4. ASSUME NEW w \in Workers, WorkerNotifySync(w)
        PROVE  StopIsLast'
    BY <1>4 DEF WorkerNotifySync, NotifyOne, In
  <1>5. ASSUME NEW c \in Clients, Enqueue(c) \/ EnqueuePush(c)
        PROVE  StopIsLast'
    BY <1>5 DEF Enqueue, EnqueuePush
  <1>6. ASSUME NEW c \in Clients, EnqueueNotify(c)
        PROVE  StopIsLast'
    BY <1>6 DEF EnqueueNotify, NotifyOne, In
  <1>7. ASSUME NEW c \in Clients, EndEnqueueing(c) \/ SyncPredicate(c)
        PROVE  StopIsLast'
    BY <1>7 DEF EndEnqueueing, SyncPredicate
  <1>8. ASSUME NEW c \in Clients, SyncLock(c) \/ SyncSleep(c) \/ SyncReturn(c)
        PROVE  StopIsLast'
    BY <1>8 DEF SyncLock, SyncSleep, SyncReturn
  <1>9. ASSUME Destroy \/ DestroyNotify \/ DestroyJoin
        PROVE  StopIsLast'
    BY <1>9 DEF Destroy, DestroyNotify, DestroyJoin
  <1>10. ASSUME NEW t \in PoolThreads, WakeSpuriously(t)
         PROVE  StopIsLast'
    BY <1>10 DEF WakeSpuriously
  <1>11. CASE UNCHANGED vars
    BY <1>11 DEF vars
  <1> QED
    BY <1>1, <1>2, <1>3, <1>4, <1>5, <1>6, <1>7, <1>8, <1>9, <1>10, <1>11
    DEF Next, WorkerStep, ClientStep, OwnerStep

----------------------------------------------------------------------------
(* Counting tasks.                                                         *)

\* Where the tasks of c are in a sequence of tasks.
Positions(s, c) == {i \in DOMAIN s : s[i] = c}

\* The threads that have a task in hand: a worker that runs it or has not yet
\* counted it down, a client that has counted it and not yet queued it.
InHand == In("run") \union In("finish") \union In("push")

\* A set of threads is finite, so its cardinality is a natural number, and it
\* changes by one when a thread comes or goes.
LEMMA ThreadSets ==
  ASSUME ThreadPoolAssumption, NEW S, S \subseteq PoolThreads
  PROVE  /\ Cardinality(S) \in Nat
         /\ \A t : t \notin S => Cardinality(S \union {t}) = Cardinality(S) + 1
         /\ \A t \in S : Cardinality(S \ {t}) = Cardinality(S) - 1
  <1>1. IsFiniteSet(PoolThreads)
    BY FS_Union DEF ThreadPoolAssumption, PoolThreads
  <1>2. IsFiniteSet(S)
    BY <1>1, FS_Subset
  <1> QED
    BY <1>2, FS_CardinalityType, FS_AddElement, FS_RemoveElement

\* The positions of a client's tasks are a finite set.
LEMMA PositionsFinite ==
  ASSUME NEW C, NEW s \in Seq(C), NEW c
  PROVE  IsFiniteSet(Positions(s, c)) /\ Cardinality(Positions(s, c)) \in Nat
  <1>1. Positions(s, c) \subseteq 1 .. Len(s)
    BY DEF Positions
  <1>2. IsFiniteSet(1 .. Len(s))
    <2>1. 1 \in Int /\ Len(s) \in Int
      OBVIOUS
    <2> QED
      BY <2>1, FS_Interval
  <1>3. IsFiniteSet(Positions(s, c))
    BY <1>1, <1>2, FS_Subset
  <1> QED
    BY <1>3, FS_CardinalityType

\* Appending a task adds one to the count of its client and to no other.
LEMMA CountAppend ==
  ASSUME NEW C, NEW s \in Seq(C), NEW x \in C, NEW c
  PROVE  Cardinality(Positions(Append(s, x), c)) =
           Cardinality(Positions(s, c)) + (IF x = c THEN 1 ELSE 0)
  <1>1. Len(s) + 1 \notin Positions(s, c)
    BY DEF Positions
  <1>2. CASE x = c
    <2>1. Positions(Append(s, x), c) = Positions(s, c) \union {Len(s) + 1}
      BY <1>2 DEF Positions
    <2> QED
      BY <1>1, <1>2, <2>1, PositionsFinite, FS_AddElement
  <1>3. CASE x # c
    <2>1. Positions(Append(s, x), c) = Positions(s, c)
      BY <1>3 DEF Positions
    <2> QED
      BY <1>3, <2>1, PositionsFinite
  <1> QED
    BY <1>2, <1>3

\* Taking the first task takes one from the count of its client and from no
\* other: the others move up by one place.
LEMMA CountTail ==
  ASSUME NEW C, NEW s \in Seq(C), s # <<>>, NEW c
  PROVE  Cardinality(Positions(Tail(s), c)) =
           Cardinality(Positions(s, c)) - (IF Head(s) = c THEN 1 ELSE 0)
  <1> DEFINE Rest == Positions(s, c) \ {1}
             up == [i \in Positions(Tail(s), c) |-> i + 1]
  <1>1. \A i \in Positions(Tail(s), c) : i \in Nat /\ i + 1 \in Rest
    BY DEF Positions
  <1>2. \A j \in Rest : j \in Nat /\ j - 1 \in Positions(Tail(s), c)
    BY DEF Positions
  <1>3. up \in Bijection(Positions(Tail(s), c), Rest)
    <2>1. up \in [Positions(Tail(s), c) -> Rest]
      BY <1>1
    <2>2. \A i, j \in Positions(Tail(s), c) : up[i] = up[j] => i = j
      BY <1>1
    <2>3. \A j \in Rest : \E i \in Positions(Tail(s), c) : up[i] = j
      <3>1. ASSUME NEW j \in Rest
            PROVE  \E i \in Positions(Tail(s), c) : up[i] = j
        <4>1. j - 1 \in Positions(Tail(s), c) /\ (j - 1) + 1 = j
          BY <1>2
        <4> QED
          BY <4>1
      <3> QED
        BY <3>1
    <2> QED
      BY <2>1, <2>2, <2>3, Fun_IsBij
  <1>4. ExistsBijection(Positions(Tail(s), c), Rest)
    BY <1>3 DEF ExistsBijection
  <1>5. Tail(s) \in Seq(C)
    OBVIOUS
  <1>6. Cardinality(Rest) = Cardinality(Positions(Tail(s), c))
    BY <1>4, <1>5, PositionsFinite, FS_Bijection
  <1>7. 1 \in Positions(s, c) <=> Head(s) = c
    BY DEF Positions
  <1>8. Cardinality(Rest) = Cardinality(Positions(s, c)) - (IF Head(s) = c THEN 1 ELSE 0)
    <2>1. IsFiniteSet(Positions(s, c)) /\ Cardinality(Positions(s, c)) \in Nat
      BY PositionsFinite
    <2>2. Cardinality(Rest) = IF 1 \in Positions(s, c) THEN Cardinality(Positions(s, c)) - 1
                              ELSE Cardinality(Positions(s, c))
      BY <2>1, FS_RemoveElement
    <2> QED
      BY <1>7, <2>1, <2>2
  <1> QED
    BY <1>6, <1>8

\* The workers that run a task of c after the step.
RunningNext(c) == {w \in Workers : at'[w] = "run" /\ task'[w] = c}
InHandNext == {t \in PoolThreads : at'[t] \in {"run", "finish", "push"}}

\* The counts in the terms of the lemmas above, before and after a step.
LEMMA Counts ==
  /\ TasksConserved <=>
       /\ \A c \in Clients :
            enqueued[c] = completed[c] + Cardinality(Running(c))
                          + Cardinality(Positions(queue, c))
       /\ unfinished = Len(queue) + Cardinality(InHand)
  /\ TasksConserved' <=>
       /\ \A c \in Clients :
            enqueued'[c] = completed'[c] + Cardinality(RunningNext(c))
                           + Cardinality(Positions(queue', c))
       /\ unfinished' = Len(queue') + Cardinality(InHandNext)
  <1>1. (In("run") \union In("finish") \union In("push"))' = InHandNext
    BY DEF In, InHandNext
  <1>2. \A c \in Clients :
          Cardinality({i \in DOMAIN queue : queue[i] = c}) = Cardinality(Positions(queue, c))
    BY DEF Positions
  <1>3. \A c \in Clients :
          Cardinality({i \in DOMAIN queue' : queue'[i] = c}) = Cardinality(Positions(queue', c))
    BY DEF Positions
  <1>4. InHand = In("run") \union In("finish") \union In("push")
    BY DEF InHand
  <1> QED
    BY <1>1, <1>2, <1>3, <1>4 DEF TasksConserved, Running, RunningNext

\* A step that moves no thread into or out of a task, and no task, changes no
\* count.
LEMMA QuietStep ==
  ASSUME TasksConserved,
         UNCHANGED <<queue, unfinished, task, enqueued, completed>>,
         \A t \in PoolThreads :
           at[t] \in {"run", "finish", "push"} \/ at'[t] \in {"run", "finish", "push"}
             => at'[t] = at[t]
  PROVE  TasksConserved'
  <1>1. InHandNext = InHand
    BY DEF InHandNext, InHand, In
  <1>2. \A c \in Clients : RunningNext(c) = Running(c)
    BY DEF RunningNext, Running, PoolThreads
  <1> QED
    BY <1>1, <1>2, Counts

\* A worker takes the first task.
LEMMA TakeCounts ==
  ASSUME ThreadPoolAssumption, TypeOK, PredicateHolds, TasksConserved,
         NEW w \in Workers, WorkerTake(w)
  PROVE  TasksConserved'
  <1> DEFINE x == Head(queue)
  <1>1. queue # <<>> /\ queue \in Seq(Clients)
    BY DEF WorkerTake, PredicateHolds, TypeOK
  <1>2. x \in Clients /\ Len(queue') = Len(queue) - 1 /\ Len(queue) \in Nat
    BY <1>1 DEF WorkerTake
  <1>3. InHandNext = InHand \union {w} /\ w \notin InHand /\ InHand \subseteq PoolThreads
    BY DEF WorkerTake, Unlock, Goto, InHandNext, InHand, In, TypeOK, PoolThreads
  <1>4. Cardinality(InHandNext) = Cardinality(InHand) + 1 /\ Cardinality(InHand) \in Nat
    BY <1>3, ThreadSets
  <1>5. unfinished' = Len(queue') + Cardinality(InHandNext)
    BY <1>2, <1>4, Counts DEF WorkerTake
  <1>6. ASSUME NEW c \in Clients
        PROVE  enqueued'[c] = completed'[c] + Cardinality(RunningNext(c))
                              + Cardinality(Positions(queue', c))
    <2>1. Cardinality(Positions(queue', c)) =
            Cardinality(Positions(queue, c)) - (IF x = c THEN 1 ELSE 0)
      BY <1>1, CountTail DEF WorkerTake
    <2>2. Running(c) \subseteq PoolThreads /\ w \notin Running(c)
      BY DEF Running, PoolThreads, WorkerTake
    <2>3. RunningNext(c) = IF x = c THEN Running(c) \union {w} ELSE Running(c)
      BY DEF WorkerTake, Unlock, Goto, Running, RunningNext, TypeOK, PoolThreads
    <2>4. Cardinality(RunningNext(c)) =
            Cardinality(Running(c)) + (IF x = c THEN 1 ELSE 0) /\ Cardinality(Running(c)) \in Nat
      BY <2>2, <2>3, ThreadSets
    <2>5. Cardinality(Positions(queue, c)) \in Nat
      BY <1>1, PositionsFinite
    <2>6. enqueued[c] = completed[c] + Cardinality(Running(c)) + Cardinality(Positions(queue, c))
      BY Counts
    <2>7. enqueued' = enqueued /\ completed' = completed /\ completed[c] \in Nat
      BY DEF WorkerTake, TypeOK
    <2> HIDE DEF x
    <2> QED
      BY <2>1, <2>4, <2>5, <2>6, <2>7
  <1> QED
    BY <1>5, <1>6, Counts

\* A worker runs its task.
LEMMA RunCounts ==
  ASSUME ThreadPoolAssumption, TypeOK, TasksConserved, NEW w \in Workers, WorkerRun(w)
  PROVE  TasksConserved'
  <1>1. InHandNext = InHand
    BY DEF WorkerRun, Goto, InHandNext, InHand, In, TypeOK, PoolThreads
  <1>2. unfinished' = Len(queue') + Cardinality(InHandNext)
    BY <1>1, Counts DEF WorkerRun
  <1>3. ASSUME NEW c \in Clients
        PROVE  enqueued'[c] = completed'[c] + Cardinality(RunningNext(c))
                              + Cardinality(Positions(queue', c))
    <2>1. Running(c) \subseteq PoolThreads
      BY DEF Running, PoolThreads
    <2>2. RunningNext(c) = IF task[w] = c THEN Running(c) \ {w} ELSE Running(c)
      BY DEF WorkerRun, Goto, Running, RunningNext, TypeOK, PoolThreads
    <2>3. task[w] = c => w \in Running(c)
      BY DEF WorkerRun, Running
    <2>4. /\ Cardinality(RunningNext(c)) =
               Cardinality(Running(c)) - (IF task[w] = c THEN 1 ELSE 0)
          /\ Cardinality(Running(c)) \in Nat
      BY <2>1, <2>2, <2>3, ThreadSets
    <2>5. Cardinality(Positions(queue, c)) \in Nat
      BY PositionsFinite DEF TypeOK
    <2>6. enqueued[c] = completed[c] + Cardinality(Running(c)) + Cardinality(Positions(queue, c))
      BY Counts
    <2>7. /\ enqueued' = enqueued /\ queue' = queue /\ completed[c] \in Nat
          /\ completed'[c] = completed[c] + (IF task[w] = c THEN 1 ELSE 0)
      BY DEF WorkerRun, TypeOK
    <2> QED
      BY <2>4, <2>5, <2>6, <2>7
  <1> QED
    BY <1>2, <1>3, Counts

\* A worker counts its task down.
LEMMA FinishCounts ==
  ASSUME ThreadPoolAssumption, TypeOK, TasksConserved, NEW w \in Workers, WorkerFinish(w)
  PROVE  TasksConserved'
  <1>1. InHandNext = InHand \ {w} /\ w \in InHand /\ InHand \subseteq PoolThreads
    BY DEF WorkerFinish, Goto, InHandNext, InHand, In, TypeOK, PoolThreads
  <1>2. Cardinality(InHandNext) = Cardinality(InHand) - 1 /\ Cardinality(InHand) \in Nat
    BY <1>1, ThreadSets
  <1>3. \A c \in Clients : RunningNext(c) = Running(c)
    BY DEF WorkerFinish, Goto, Running, RunningNext, TypeOK, PoolThreads
  <1>4. Len(queue) \in Nat
    BY DEF TypeOK
  <1>5. unfinished' = Len(queue') + Cardinality(InHandNext)
    BY <1>2, <1>4, Counts DEF WorkerFinish
  <1> QED
    BY <1>3, <1>5, Counts DEF WorkerFinish

\* A client counts a task that it has not yet queued.
LEMMA EnqueueCounts ==
  ASSUME ThreadPoolAssumption, TypeOK, TasksConserved, NEW c \in Clients, Enqueue(c)
  PROVE  TasksConserved'
  <1>1. InHandNext = InHand \union {c} /\ c \notin InHand /\ InHand \subseteq PoolThreads
    BY DEF Enqueue, Goto, InHandNext, InHand, In, TypeOK, PoolThreads
  <1>2. Cardinality(InHandNext) = Cardinality(InHand) + 1 /\ Cardinality(InHand) \in Nat
    BY <1>1, ThreadSets
  <1>3. \A d \in Clients : RunningNext(d) = Running(d)
    BY DEF Enqueue, Goto, Running, RunningNext, TypeOK, PoolThreads, ThreadPoolAssumption
  <1>4. Len(queue) \in Nat
    BY DEF TypeOK
  <1>5. unfinished' = Len(queue') + Cardinality(InHandNext)
    BY <1>2, <1>4, Counts DEF Enqueue
  <1> QED
    BY <1>3, <1>5, Counts DEF Enqueue

\* A client queues the task that it has counted.
LEMMA PushCounts ==
  ASSUME ThreadPoolAssumption, TypeOK, TasksConserved, NEW c \in Clients, EnqueuePush(c)
  PROVE  TasksConserved'
  <1>1. InHandNext = InHand \ {c} /\ c \in InHand /\ InHand \subseteq PoolThreads
    BY DEF EnqueuePush, Goto, InHandNext, InHand, In, TypeOK, PoolThreads
  <1>2. Cardinality(InHandNext) = Cardinality(InHand) - 1 /\ Cardinality(InHand) \in Nat
    BY <1>1, ThreadSets
  <1>3. Len(queue') = Len(queue) + 1 /\ Len(queue) \in Nat
    BY DEF EnqueuePush, TypeOK
  <1>4. unfinished' = Len(queue') + Cardinality(InHandNext)
    BY <1>2, <1>3, Counts DEF EnqueuePush
  <1>5. ASSUME NEW d \in Clients
        PROVE  enqueued'[d] = completed'[d] + Cardinality(RunningNext(d))
                              + Cardinality(Positions(queue', d))
    <2>1. RunningNext(d) = Running(d) /\ Running(d) \subseteq PoolThreads
      BY DEF EnqueuePush, Goto, Running, RunningNext, TypeOK, PoolThreads, ThreadPoolAssumption
    <2>2. Cardinality(Running(d)) \in Nat
      BY <2>1, ThreadSets
    <2>3. /\ Cardinality(Positions(queue', d)) =
               Cardinality(Positions(queue, d)) + (IF c = d THEN 1 ELSE 0)
          /\ Cardinality(Positions(queue, d)) \in Nat
      BY CountAppend, PositionsFinite DEF EnqueuePush, TypeOK
    <2>4. enqueued[d] = completed[d] + Cardinality(Running(d)) + Cardinality(Positions(queue, d))
      BY Counts
    <2>5. /\ completed' = completed /\ completed[d] \in Nat
          /\ enqueued'[d] = enqueued[d] + (IF c = d THEN 1 ELSE 0)
      BY DEF EnqueuePush, TypeOK
    <2> QED
      BY <2>1, <2>2, <2>3, <2>4, <2>5
  <1> QED
    BY <1>4, <1>5, Counts

\* Every step conserves the tasks.
LEMMA TasksAreKept ==
  ASSUME ThreadPoolAssumption, TypeOK, Control, TasksConserved, [Next]_vars
  PROVE  TasksConserved'
  <1> USE DEF TypeOK, PoolThreads, Goto, Lock, Unlock
  <1>1. ASSUME NEW w \in Workers, WorkerLock(w) \/ WorkerPredicate(w)
        PROVE  TasksConserved'
    BY <1>1, QuietStep DEF WorkerLock, WorkerPredicate
  <1>2. ASSUME NEW w \in Workers, WorkerSleep(w) \/ WorkerStop(w)
        PROVE  TasksConserved'
    BY <1>2, QuietStep DEF WorkerSleep, WorkerStop
  <1>3. ASSUME NEW w \in Workers, WorkerNotifySync(w)
        PROVE  TasksConserved'
    BY <1>3, QuietStep DEF WorkerNotifySync, NotifyOne, In
  <1>4. ASSUME NEW c \in Clients, EnqueueNotify(c)
        PROVE  TasksConserved'
    BY <1>4, QuietStep DEF EnqueueNotify, NotifyOne, In
  <1>5. ASSUME NEW c \in Clients, EndEnqueueing(c) \/ SyncPredicate(c)
        PROVE  TasksConserved'
    BY <1>5, QuietStep DEF EndEnqueueing, SyncPredicate
  <1>6. ASSUME NEW c \in Clients, SyncLock(c) \/ SyncSleep(c) \/ SyncReturn(c)
        PROVE  TasksConserved'
    BY <1>6, QuietStep DEF SyncLock, SyncSleep, SyncReturn
  <1>7. ASSUME Destroy \/ DestroyJoin
        PROVE  TasksConserved'
    BY <1>7, QuietStep DEF Destroy, DestroyJoin, ThreadPoolAssumption
  <1>8. ASSUME DestroyNotify
        PROVE  TasksConserved'
    BY <1>8, QuietStep DEF DestroyNotify
  <1>9. ASSUME NEW t \in PoolThreads, WakeSpuriously(t)
        PROVE  TasksConserved'
    BY <1>9, QuietStep DEF WakeSpuriously
  <1>10. CASE UNCHANGED vars
    BY <1>10, QuietStep DEF vars
  <1> QED
    BY <1>1, <1>2, <1>3, <1>4, <1>5, <1>6, <1>7, <1>8, <1>9, <1>10,
       TakeCounts, RunCounts, FinishCounts, EnqueueCounts, PushCounts
    DEF Next, WorkerStep, ClientStep, OwnerStep, Control

\* When nothing is unfinished, every task that was queued has run.
LEMMA NothingUnfinished ==
  ASSUME ThreadPoolAssumption, TypeOK, TasksConserved, unfinished = 0, NEW c \in Clients
  PROVE  completed[c] = enqueued[c]
  <1>1. InHand \subseteq PoolThreads
    BY DEF InHand, In
  <1>2. Cardinality(InHand) \in Nat /\ Len(queue) \in Nat
    BY <1>1, ThreadSets DEF TypeOK
  <1>3. Cardinality(InHand) = 0 /\ Len(queue) = 0
    BY <1>2, Counts
  <1>4. InHand = {}
    <2>1. ASSUME NEW t \in InHand
          PROVE  FALSE
      <3>1. Cardinality(InHand \ {t}) = Cardinality(InHand) - 1
        BY <1>1, ThreadSets
      <3>2. Cardinality(InHand \ {t}) \in Nat
        BY <1>1, ThreadSets
      <3> QED
        BY <1>3, <3>1, <3>2
    <2> QED
      BY <2>1
  <1>5. Running(c) = {}
    BY <1>4 DEF InHand, Running, In, PoolThreads
  <1>6. Positions(queue, c) = {}
    BY <1>3 DEF Positions, TypeOK
  <1>7. enqueued[c] = completed[c] + Cardinality({}) + Cardinality({})
    BY <1>5, <1>6, Counts
  <1> QED
    BY <1>7, FS_EmptySet DEF TypeOK

\* A client whose tasks have all run has none that a worker could run.
LEMMA NoneToRun ==
  ASSUME ThreadPoolAssumption, TypeOK, TasksConserved, NEW c \in Clients,
         completed[c] = enqueued[c], NEW w \in Workers, at[w] = "run"
  PROVE  task[w] # c
  <1> SUFFICES ASSUME task[w] = c
               PROVE  FALSE
    OBVIOUS
  <1>1. w \in Running(c) /\ Running(c) \subseteq PoolThreads
    BY DEF Running, PoolThreads
  <1>2. /\ Cardinality(Running(c)) \in Nat
        /\ Cardinality(Running(c) \ {w}) \in Nat
        /\ Cardinality(Running(c) \ {w}) = Cardinality(Running(c)) - 1
    BY <1>1, ThreadSets
  <1>3. Cardinality(Positions(queue, c)) \in Nat
    BY PositionsFinite DEF TypeOK
  <1>4. enqueued[c] = completed[c] + Cardinality(Running(c)) + Cardinality(Positions(queue, c))
    BY Counts
  <1> QED
    BY <1>2, <1>3, <1>4 DEF TypeOK

\* Every step keeps what Sync has seen.
LEMMA SyncedIsKept ==
  ASSUME ThreadPoolAssumption, TypeOK, Control, TasksConserved, Synced, [Next]_vars
  PROVE  Synced'
  <1> USE DEF ThreadPoolAssumption, TypeOK, PoolThreads, Goto, Lock, Unlock, Synced
  <1>1. ASSUME NEW w \in Workers, WorkerRun(w)
        PROVE  Synced'
    <2>1. ASSUME NEW c \in Clients, at[c] = "syncReturn" \/ (c \in Syncs /\ at[c] = "through")
          PROVE  completed'[c] = completed[c]
      <3>1. completed[c] = enqueued[c]
        BY <2>1 DEF Control, AllEnqueued, AfterEnqueueing
      <3>2. task[w] # c
        BY <1>1, <3>1, NoneToRun DEF WorkerRun
      <3> QED
        BY <1>1, <3>2 DEF WorkerRun
    <2> QED
      BY <1>1, <2>1 DEF WorkerRun
  <1>2. ASSUME NEW c \in Clients, SyncPredicate(c)
        PROVE  Synced'
    <2>1. ~stop
      BY <1>2 DEF SyncPredicate, Control, StopIsLast, Ended
    <2>2. at'[c] = "syncReturn" => completed[c] = enqueued[c]
      BY <1>2, <2>1, NothingUnfinished DEF SyncPredicate
    <2>3. enqueued[c] = TaskCount[c]
      BY <1>2 DEF SyncPredicate, Control, AllEnqueued, AfterEnqueueing
    <2>4. at'[c] # "through" /\ completed' = completed
      BY <1>2 DEF SyncPredicate
    <2>5. \A d \in Clients \ {c} : at'[d] = at[d]
      BY <1>2 DEF SyncPredicate
    <2> QED
      BY <2>2, <2>3, <2>4, <2>5
  <1>3. ASSUME NEW c \in Clients, EndEnqueueing(c)
        PROVE  Synced'
    BY <1>3 DEF EndEnqueueing
  <1>4. ASSUME NEW c \in Clients, SyncLock(c) \/ SyncSleep(c) \/ SyncReturn(c)
        PROVE  Synced'
    BY <1>4 DEF SyncLock, SyncSleep, SyncReturn
  <1>5. ASSUME NEW c \in Clients, Enqueue(c) \/ EnqueuePush(c)
        PROVE  Synced'
    BY <1>5 DEF Enqueue, EnqueuePush
  <1>6. ASSUME NEW c \in Clients, EnqueueNotify(c)
        PROVE  Synced'
    BY <1>6 DEF EnqueueNotify, NotifyOne, In
  <1>7. ASSUME NEW w \in Workers, WorkerNotifySync(w)
        PROVE  Synced'
    BY <1>7 DEF WorkerNotifySync, NotifyOne, In
  <1>8. ASSUME NEW w \in Workers, WorkerLock(w) \/ WorkerPredicate(w) \/ WorkerSleep(w)
        PROVE  Synced'
    BY <1>8 DEF WorkerLock, WorkerPredicate, WorkerSleep
  <1>9. ASSUME NEW w \in Workers, WorkerStop(w) \/ WorkerTake(w) \/ WorkerFinish(w)
        PROVE  Synced'
    BY <1>9 DEF WorkerStop, WorkerTake, WorkerFinish
  <1>10. ASSUME Destroy \/ DestroyNotify \/ DestroyJoin
         PROVE  Synced'
    BY <1>10 DEF Destroy, DestroyNotify, DestroyJoin
  <1>11. ASSUME NEW t \in PoolThreads, WakeSpuriously(t)
         PROVE  Synced'
    BY <1>11 DEF WakeSpuriously
  <1>12. CASE UNCHANGED vars
    BY <1>12 DEF vars
  <1> QED
    BY <1>1, <1>2, <1>3, <1>4, <1>5, <1>6, <1>7, <1>8, <1>9, <1>10, <1>11, <1>12
    DEF Next, WorkerStep, ClientStep, OwnerStep

\* No task is counted at the start.
LEMMA NoTasksAtStart ==
  ASSUME ThreadPoolAssumption, Init
  PROVE  TasksConserved
  <1>1. InHand = {}
    BY DEF InHand, In, Init, PoolThreads
  <1>2. \A c \in Clients : Running(c) = {} /\ Positions(queue, c) = {}
    BY DEF Running, Positions, Init, PoolThreads
  <1>3. Cardinality({}) = 0
    BY FS_EmptySet
  <1>4. \A c \in Clients : enqueued[c] = 0 /\ completed[c] = 0
    BY DEF Init
  <1>5. unfinished = 0 /\ Len(queue) = 0
    BY DEF Init
  <1>6. \A c \in Clients : enqueued[c] = completed[c] + Cardinality(Running(c))
                                           + Cardinality(Positions(queue, c))
    BY <1>2, <1>3, <1>4
  <1>7. unfinished = Len(queue) + Cardinality(InHand)
    BY <1>1, <1>3, <1>5
  <1> QED
    BY <1>6, <1>7, Counts

\* PoolInv is true at the start and kept by every step.
LEMMA PoolInvariant ==
  ASSUME ThreadPoolAssumption
  PROVE  Spec => []PoolInv
  <1>1. Init => PoolInv
    BY PoolStarts, NoTasksAtStart DEF PoolInv
  <1>2. PoolInv /\ [Next]_vars => PoolInv'
    <2> SUFFICES ASSUME PoolInv, [Next]_vars
                 PROVE  PoolInv'
      OBVIOUS
    <2>1. TypeOK /\ Control /\ TasksConserved /\ Synced
      BY DEF PoolInv
    <2>2. TypeOK'
      BY <2>1, TypeIsKept
    <2>3. Control'
      BY <2>1, RolesAreKept, MutexIsKept, PredicateIsKept, EnqueuedIsKept, StopIsKept
      DEF Control
    <2>4. TasksConserved'
      BY <2>1, TasksAreKept
    <2>5. Synced'
      BY <2>1, SyncedIsKept
    <2> QED
      BY <2>2, <2>3, <2>4, <2>5 DEF PoolInv
  <1> QED
    BY <1>1, <1>2, PTL DEF Spec

----------------------------------------------------------------------------
\* The queue holds tasks of clients, every thread is at a place of the code and
\* unfinished_task_count_ is never negative (it is unsigned).
THEOREM TypeCorrect ==
  ASSUME ThreadPoolAssumption
  PROVE  Spec => []TypeOK
  <1>1. PoolInv => TypeOK
    BY DEF PoolInv
  <1> QED
    BY <1>1, PoolInvariant, PTL

\* However the threads interleave, a task is in the queue, in a worker's hands
\* or done, and never twice (lines 60-64), and unfinished_task_count_ is the
\* number of tasks that are counted and not counted down (lines 66, 90).
THEOREM NoTaskLost ==
  ASSUME ThreadPoolAssumption
  PROVE  Spec => []TasksConserved
  <1>1. PoolInv => TasksConserved
    BY DEF PoolInv
  <1> QED
    BY <1>1, PoolInvariant, PTL

\* When Sync has returned to a client, all its tasks have run (lines 101-105),
\* although Sync tests an atomic that workers change without the mutex.
THEOREM SyncWaitsForAll ==
  ASSUME ThreadPoolAssumption
  PROVE  Spec => []SyncIsComplete
  <1>1. ThreadPoolAssumption /\ PoolInv => SyncIsComplete
    BY DEF PoolInv, Synced, SyncIsComplete, ThreadPoolAssumption
  <1> QED
    BY <1>1, PoolInvariant, PTL

----------------------------------------------------------------------------
(* Sleeping workers.                                                       *)

\* The threads that will wake a worker or look at the queue themselves.
OnTheWay == {t \in PoolThreads : at[t] \in {"notifyQueue", "wokenQueue", "predicate", "take"}}
Sleepers == {t \in PoolThreads : at[t] = "sleepQueue"}

\* The property in the terms of the sets above, before and after a step.
LEMMA SleepTerms ==
  /\ NoSleepOverTask <=> (Sleepers # {} /\ ~stop => Len(queue) <= Cardinality(OnTheWay))
  /\ NoSleepOverTask' <=> (Sleepers' # {} /\ ~stop' => Len(queue') <= Cardinality(OnTheWay'))
  <1>1. OnTheWay = UNION {In(l) : l \in {"notifyQueue", "wokenQueue", "predicate", "take"}}
    BY DEF OnTheWay, In
  <1>2. Sleepers = In("sleepQueue")
    BY DEF Sleepers, In
  <1>3. OnTheWay' = (UNION {In(l) : l \in {"notifyQueue", "wokenQueue", "predicate", "take"}})'
    BY DEF OnTheWay, In
  <1>4. Sleepers' = In("sleepQueue")'
    BY DEF Sleepers, In
  <1> QED
    BY <1>1, <1>2, <1>3, <1>4 DEF NoSleepOverTask

\* Nothing changes while no task comes or goes, nobody falls asleep and
\* everybody who was on the way still is.
LEMMA SleepersUndisturbed ==
  ASSUME ThreadPoolAssumption, TypeOK, NoSleepOverTask, stop => stop', queue' = queue,
         Sleepers' \subseteq Sleepers, OnTheWay \subseteq OnTheWay'
  PROVE  NoSleepOverTask'
  <1>1. OnTheWay' \subseteq PoolThreads /\ OnTheWay \subseteq PoolThreads
    BY DEF OnTheWay, PoolThreads
  <1>2. IsFiniteSet(PoolThreads)
    BY FS_Union DEF ThreadPoolAssumption, PoolThreads
  <1>3. IsFiniteSet(OnTheWay')
    BY <1>1, <1>2, FS_Subset
  <1>4. Cardinality(OnTheWay) <= Cardinality(OnTheWay')
    BY <1>3, FS_Subset
  <1>5. Cardinality(OnTheWay) \in Nat /\ Cardinality(OnTheWay') \in Nat /\ Len(queue) \in Nat
    BY <1>1, ThreadSets DEF TypeOK
  <1> QED
    BY <1>4, <1>5, SleepTerms

\* A step leaves a thread on its way for every task while a worker sleeps.
LEMMA SleepIsKept ==
  ASSUME ThreadPoolAssumption, TypeOK, Control, NoSleepOverTask, [Next]_vars
  PROVE  NoSleepOverTask'
  <1> USE DEF TypeOK, PoolThreads, Goto, Lock, Unlock, OnTheWay, Sleepers
  <1>a. OnTheWay \subseteq PoolThreads /\ OnTheWay' \subseteq PoolThreads
    OBVIOUS
  <1>b. Cardinality(OnTheWay) \in Nat /\ Cardinality(OnTheWay') \in Nat /\ Len(queue) \in Nat
    BY <1>a, ThreadSets
  <1>c. queue' = <<>> => NoSleepOverTask'
    BY <1>b, SleepTerms
  <1>1. ASSUME NEW w \in Workers, WorkerLock(w)
        PROVE  NoSleepOverTask'
    BY <1>1, SleepersUndisturbed DEF WorkerLock
  <1>2. ASSUME NEW w \in Workers, WorkerPredicate(w)
        PROVE  NoSleepOverTask'
    <2>1. CASE queue = <<>>
      BY <1>2, <1>c, <2>1 DEF WorkerPredicate
    <2>2. CASE queue # <<>>
      BY <1>2, <2>2, SleepersUndisturbed DEF WorkerPredicate
    <2> QED
      BY <2>1, <2>2
  <1>3. ASSUME NEW w \in Workers, WorkerSleep(w)
        PROVE  NoSleepOverTask'
    BY <1>3, <1>c DEF WorkerSleep, Control, PredicateHolds
  <1>4. ASSUME NEW w \in Workers, WorkerStop(w)
        PROVE  NoSleepOverTask'
    BY <1>4, SleepTerms DEF WorkerStop
  <1>5. ASSUME NEW w \in Workers, WorkerTake(w)
        PROVE  NoSleepOverTask'
    <2>1. w \in OnTheWay /\ OnTheWay' = OnTheWay \ {w} /\ Sleepers' = Sleepers
      BY <1>5 DEF WorkerTake
    <2>2. Cardinality(OnTheWay') = Cardinality(OnTheWay) - 1
      BY <1>a, <2>1, ThreadSets
    <2>3. queue # <<>>
      BY <1>5 DEF WorkerTake, Control, PredicateHolds
    <2>4. Len(queue') = Len(queue) - 1 /\ stop' = stop
      BY <1>5, <2>3 DEF WorkerTake
    <2> HIDE DEF OnTheWay, Sleepers
    <2> QED
      BY <1>b, <2>1, <2>2, <2>4, SleepTerms
  <1>6. ASSUME NEW w \in Workers, WorkerRun(w) \/ WorkerFinish(w)
        PROVE  NoSleepOverTask'
    BY <1>6, SleepersUndisturbed DEF WorkerRun, WorkerFinish
  <1>7. ASSUME NEW w \in Workers, WorkerNotifySync(w)
        PROVE  NoSleepOverTask'
    BY <1>7, SleepersUndisturbed DEF WorkerNotifySync, NotifyOne, In
  <1>8. ASSUME NEW c \in Clients, Enqueue(c)
        PROVE  NoSleepOverTask'
    BY <1>8, SleepersUndisturbed DEF Enqueue
  <1>9. ASSUME NEW c \in Clients, EnqueuePush(c)
        PROVE  NoSleepOverTask'
    <2>1. c \notin OnTheWay /\ OnTheWay' = OnTheWay \union {c} /\ Sleepers' = Sleepers
      BY <1>9 DEF EnqueuePush
    <2>2. Cardinality(OnTheWay') = Cardinality(OnTheWay) + 1
      BY <1>a, <2>1, ThreadSets
    <2>3. Len(queue') = Len(queue) + 1 /\ stop' = stop
      BY <1>9 DEF EnqueuePush
    <2> HIDE DEF OnTheWay, Sleepers
    <2> QED
      BY <1>b, <2>1, <2>2, <2>3, SleepTerms
  <1>10. ASSUME NEW c \in Clients, EnqueueNotify(c)
         PROVE  NoSleepOverTask'
    <2>1. CASE Sleepers = {}
      <3>1. Sleepers' = {}
        BY <1>10, <2>1 DEF EnqueueNotify, NotifyOne, In
      <3> QED
        BY <3>1, SleepTerms
    <2>2. CASE Sleepers # {}
      <3>1. PICK x \in Sleepers : at' = [at EXCEPT ![c] = "client", ![x] = "wokenQueue"]
        BY <1>10, <2>2 DEF EnqueueNotify, NotifyOne, In
      <3>2. /\ c \in OnTheWay
            /\ x \in PoolThreads /\ x \notin OnTheWay \ {c}
            /\ OnTheWay' = (OnTheWay \ {c}) \union {x}
        BY <1>10, <3>1 DEF EnqueueNotify
      <3>3. Cardinality(OnTheWay \ {c}) = Cardinality(OnTheWay) - 1
        BY <1>a, <3>2, ThreadSets
      <3>4. Cardinality(OnTheWay') = Cardinality(OnTheWay \ {c}) + 1
        <4>1. OnTheWay \ {c} \subseteq PoolThreads
          BY <1>a
        <4> HIDE DEF OnTheWay, Sleepers
        <4> QED
          BY <3>2, <4>1, ThreadSets
      <3>5. queue' = queue /\ stop' = stop
        BY <1>10 DEF EnqueueNotify
      <3> HIDE DEF OnTheWay, Sleepers
      <3> QED
        BY <1>b, <2>2, <3>3, <3>4, <3>5, SleepTerms
    <2> QED
      BY <2>1, <2>2
  <1>11. ASSUME NEW c \in Clients, EndEnqueueing(c) \/ SyncPredicate(c)
         PROVE  NoSleepOverTask'
    BY <1>11, SleepersUndisturbed DEF EndEnqueueing, SyncPredicate
  <1>12. ASSUME NEW c \in Clients, SyncLock(c) \/ SyncSleep(c) \/ SyncReturn(c)
         PROVE  NoSleepOverTask'
    BY <1>12, SleepersUndisturbed DEF SyncLock, SyncSleep, SyncReturn
  <1>13. ASSUME Destroy \/ DestroyNotify \/ DestroyJoin
         PROVE  NoSleepOverTask'
    BY <1>13, SleepersUndisturbed DEF Destroy, DestroyNotify, DestroyJoin
  <1>14. ASSUME NEW t \in PoolThreads, WakeSpuriously(t)
         PROVE  NoSleepOverTask'
    BY <1>14, SleepersUndisturbed DEF WakeSpuriously
  <1>15. CASE UNCHANGED vars
    BY <1>15, SleepersUndisturbed DEF vars
  <1> QED
    BY <1>1, <1>2, <1>3, <1>4, <1>5, <1>6, <1>7, <1>8, <1>9, <1>10, <1>11, <1>12, <1>13,
       <1>14, <1>15
    DEF Next, WorkerStep, ClientStep, OwnerStep

\* No worker sleeps through a task, although Enqueue notifies after it has
\* released the mutex (line 97) and a worker may wake for no reason: while one
\* sleeps and the pool is not being destroyed, every queued task has a client
\* that is about to notify or a worker that is about to look.
THEOREM NoWorkerOversleeps ==
  ASSUME ThreadPoolAssumption
  PROVE  Spec => []NoSleepOverTask
  <1>1. Init => NoSleepOverTask
    BY DEF Init, NoSleepOverTask, In
  <1>2. ThreadPoolAssumption /\ PoolInv /\ NoSleepOverTask /\ [Next]_vars => NoSleepOverTask'
    BY SleepIsKept DEF PoolInv
  <1> QED
    BY <1>1, <1>2, PoolInvariant, PTL DEF Spec
=============================================================================
