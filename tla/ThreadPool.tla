----------------------------- MODULE ThreadPool -----------------------------
(***************************************************************************)
(* class ThreadPool of include/thread_pool.h: workers take tasks from a    *)
(* FIFO queue; clients Enqueue tasks and Sync until none is unfinished;    *)
(* one client, the owner, destroys the pool when every client is through.  *)
(*                                                                         *)
(* The mutex protects the queue only.  unfinished_task_count_ and stop_    *)
(* are atomics that change without it, so evaluating a wait's predicate    *)
(* and going to sleep are two steps between which they may change.         *)
(***************************************************************************)
EXTENDS Integers, Sequences, SequencesExt, FiniteSets

CONSTANTS
  Workers, Clients,
  Owner,          \* the client that constructs and destroys the pool
  TaskCount,      \* how many tasks each client enqueues
  Syncs,          \* the clients that call Sync after enqueueing
  Free            \* the mutex is not held

ThreadPoolAssumption ==
  /\ IsFiniteSet(Workers) /\ IsFiniteSet(Clients)
  /\ Workers \intersect Clients = {}
  /\ Owner \in Clients
  /\ TaskCount \in [Clients -> Nat]
  /\ Syncs \subseteq Clients
  /\ Free \notin Workers \union Clients

VARIABLES
  queue,        \* queue_: the client of each task, oldest first
  mutex,        \* who holds mutex_, or Free
  stop,         \* stop_
  unfinished,   \* unfinished_task_count_
  at,           \* where each thread is; "sleepQueue" and "sleepSync" threads
                \* are blocked on queue_condition_ and sync_condition_
  task,         \* the local variable task of each worker
  enqueued,     \* history: how many tasks of each client were pushed
  completed     \* history: how many tasks of each client have run

vars == <<queue, mutex, stop, unfinished, at, task, enqueued, completed>>

PoolThreads == Workers \union Clients
In(l)   == {t \in PoolThreads : at[t] = l}

Init ==
  /\ queue = <<>>
  /\ mutex = Free
  /\ stop = FALSE
  /\ unfinished = 0
  /\ at = [t \in PoolThreads |-> IF t \in Workers THEN "lock" ELSE "client"]
  /\ task = [w \in Workers |-> Owner]
  /\ enqueued = [c \in Clients |-> 0]
  /\ completed = [c \in Clients |-> 0]

Goto(t, l) == at' = [at EXCEPT ![t] = l]

\* t goes on at l, and one thread that sleeps at s, if any, wakes at w.
NotifyOne(t, l, s, w) ==
  \/ In(s) = {} /\ Goto(t, l)
  \/ \E x \in In(s) : at' = [at EXCEPT ![t] = l, ![x] = w]

Lock(t, l) ==
  /\ mutex = Free
  /\ mutex' = t
  /\ Goto(t, l)

Unlock(t, l) == mutex' = Free /\ Goto(t, l)

----------------------------------------------------------------------------
(* The loop of a worker thread.                                            *)

WorkerLock(w) ==
  /\ at[w] \in {"lock", "wokenQueue"}
  /\ Lock(w, "predicate")
  /\ UNCHANGED <<queue, stop, unfinished, task, enqueued, completed>>

\* !queue_.empty() || stop_
WorkerPredicate(w) ==
  /\ at[w] = "predicate"
  /\ Goto(w, IF queue # <<>> \/ stop THEN "take" ELSE "fallAsleep")
  /\ UNCHANGED <<queue, mutex, stop, unfinished, task, enqueued, completed>>

WorkerSleep(w) ==
  /\ at[w] = "fallAsleep"
  /\ Unlock(w, "sleepQueue")
  /\ UNCHANGED <<queue, stop, unfinished, task, enqueued, completed>>

WorkerStop(w) ==
  /\ at[w] = "take"
  /\ stop
  /\ Unlock(w, "joined")
  /\ UNCHANGED <<queue, stop, unfinished, task, enqueued, completed>>

\* Mutation: the task stays in the queue.
WorkerTakeNoPop(w) ==
  /\ at[w] = "take"
  /\ ~stop
  /\ task' = [task EXCEPT ![w] = Head(queue)]
  /\ Unlock(w, "run")
  /\ UNCHANGED <<queue, stop, unfinished, enqueued, completed>>

WorkerTake(w) ==
  /\ at[w] = "take"
  /\ ~stop
  /\ task' = [task EXCEPT ![w] = Head(queue)]
  /\ queue' = Tail(queue)
  /\ Unlock(w, "run")
  /\ UNCHANGED <<stop, unfinished, enqueued, completed>>

WorkerRun(w) ==
  /\ at[w] = "run"
  /\ completed' = [completed EXCEPT ![task[w]] = @ + 1]
  /\ Goto(w, "finish")
  /\ UNCHANGED <<queue, mutex, stop, unfinished, task, enqueued>>

\* --unfinished_task_count_ == 0, without the mutex
WorkerFinish(w) ==
  /\ at[w] = "finish"
  /\ unfinished' = unfinished - 1
  /\ Goto(w, IF unfinished = 1 THEN "notifySync" ELSE "lock")
  /\ UNCHANGED <<queue, mutex, stop, task, enqueued, completed>>

WorkerNotifySync(w) ==
  /\ at[w] = "notifySync"
  /\ NotifyOne(w, "lock", "sleepSync", "wokenSync")
  /\ UNCHANGED <<queue, mutex, stop, unfinished, task, enqueued, completed>>

----------------------------------------------------------------------------
(* Enqueue                                                                 *)

Enqueue(c) ==
  /\ at[c] = "client"
  /\ enqueued[c] < TaskCount[c]
  /\ ~stop
  /\ unfinished' = unfinished + 1
  /\ Goto(c, "push")
  /\ UNCHANGED <<queue, mutex, stop, task, enqueued, completed>>

EnqueuePush(c) ==
  /\ at[c] = "push"
  /\ mutex = Free                 \* the lock is held for the push only
  /\ queue' = Append(queue, c)
  /\ enqueued' = [enqueued EXCEPT ![c] = @ + 1]
  /\ Goto(c, "notifyQueue")
  /\ UNCHANGED <<mutex, stop, unfinished, task, completed>>

\* Mutation: no notify.
EnqueueSilently(c) ==
  /\ at[c] = "notifyQueue"
  /\ Goto(c, "client")
  /\ UNCHANGED <<queue, mutex, stop, unfinished, task, enqueued, completed>>

EnqueueNotify(c) ==
  /\ at[c] = "notifyQueue"
  /\ NotifyOne(c, "client", "sleepQueue", "wokenQueue")
  /\ UNCHANGED <<queue, mutex, stop, unfinished, task, enqueued, completed>>

----------------------------------------------------------------------------
(* Sync                                                                    *)

\* After its last Enqueue a client calls Sync, or has nothing more to do.
EndEnqueueing(c) ==
  /\ at[c] = "client"
  /\ enqueued[c] = TaskCount[c]
  /\ Goto(c, IF c \in Syncs THEN "sync" ELSE "through")
  /\ UNCHANGED <<queue, mutex, stop, unfinished, task, enqueued, completed>>

SyncLock(c) ==
  /\ at[c] \in {"sync", "wokenSync"}
  /\ Lock(c, "syncPredicate")
  /\ UNCHANGED <<queue, stop, unfinished, task, enqueued, completed>>

\* Mutation: Sync waits for an empty queue.
SyncPredicateQueue(c) ==
  /\ at[c] = "syncPredicate"
  /\ Goto(c, IF queue = <<>> \/ stop THEN "syncReturn" ELSE "syncSleep")
  /\ UNCHANGED <<queue, mutex, stop, unfinished, task, enqueued, completed>>

\* unfinished_task_count_ == 0 || stop_
SyncPredicate(c) ==
  /\ at[c] = "syncPredicate"
  /\ Goto(c, IF unfinished = 0 \/ stop THEN "syncReturn" ELSE "syncSleep")
  /\ UNCHANGED <<queue, mutex, stop, unfinished, task, enqueued, completed>>

SyncSleep(c) ==
  /\ at[c] = "syncSleep"
  /\ Unlock(c, "sleepSync")
  /\ UNCHANGED <<queue, stop, unfinished, task, enqueued, completed>>

SyncReturn(c) ==
  /\ at[c] = "syncReturn"
  /\ Unlock(c, "through")
  /\ UNCHANGED <<queue, stop, unfinished, task, enqueued, completed>>

----------------------------------------------------------------------------
(* The destructor, once no client uses the pool any more.                  *)

Destroy ==
  /\ at[Owner] = "through"
  /\ \A c \in Clients : at[c] = "through"
  /\ stop' = TRUE
  /\ Goto(Owner, "notifyStop")
  /\ UNCHANGED <<queue, mutex, unfinished, task, enqueued, completed>>

\* queue_condition_.notify_all()
DestroyNotify ==
  /\ at[Owner] = "notifyStop"
  /\ at' = [t \in PoolThreads |->
       CASE t = Owner             -> "join"
         [] at[t] = "sleepQueue"  -> "wokenQueue"
         [] OTHER                 -> at[t]]
  /\ UNCHANGED <<queue, mutex, stop, unfinished, task, enqueued, completed>>

DestroyJoin ==
  /\ at[Owner] = "join"
  /\ \A w \in Workers : at[w] = "joined"
  /\ Goto(Owner, "destroyed")
  /\ UNCHANGED <<queue, mutex, stop, unfinished, task, enqueued, completed>>

----------------------------------------------------------------------------
\* A condition variable may wake a sleeper that nobody notified.
WakeSpuriously(t) ==
  /\ \/ at[t] = "sleepQueue" /\ Goto(t, "wokenQueue")
     \/ at[t] = "sleepSync"  /\ Goto(t, "wokenSync")
  /\ UNCHANGED <<queue, mutex, stop, unfinished, task, enqueued, completed>>

WorkerStep(w) ==
  \/ WorkerPredicate(w) \/ WorkerSleep(w) \/ WorkerStop(w) \/ WorkerTake(w)
  \/ WorkerRun(w) \/ WorkerFinish(w) \/ WorkerNotifySync(w)

ClientStep(c) ==
  \/ Enqueue(c) \/ EnqueueNotify(c)
  \/ EndEnqueueing(c) \/ SyncPredicate(c) \/ SyncSleep(c) \/ SyncReturn(c)

OwnerStep == Destroy \/ DestroyNotify \/ DestroyJoin

Next ==
  \/ \E w \in Workers : WorkerLock(w) \/ WorkerStep(w)
  \/ \E c \in Clients : EnqueuePush(c) \/ SyncLock(c) \/ ClientStep(c)
  \/ OwnerStep
  \/ \E t \in PoolThreads : WakeSpuriously(t)

Spec == Init /\ [][Next]_vars

\* Every thread is scheduled, and one that keeps trying to lock the mutex gets
\* it some time when it is free.  A spurious wakeup may never come.
FairSpec ==
  /\ Spec
  /\ \A w \in Workers : WF_vars(WorkerStep(w)) /\ SF_vars(WorkerLock(w))
  /\ \A c \in Clients : WF_vars(ClientStep(c)) /\ SF_vars(EnqueuePush(c) \/ SyncLock(c))
  /\ WF_vars(OwnerStep)

----------------------------------------------------------------------------
Places == {"lock", "predicate", "fallAsleep", "sleepQueue", "wokenQueue", "take",
           "run", "finish", "notifySync", "joined", "client", "push", "notifyQueue",
           "sync", "syncPredicate", "syncSleep", "sleepSync", "wokenSync",
           "syncReturn", "through", "notifyStop", "join", "destroyed"}

TypeOK ==
  /\ queue \in Seq(Clients)
  /\ mutex \in PoolThreads \union {Free}
  /\ stop \in BOOLEAN
  /\ unfinished \in Nat
  /\ at \in [PoolThreads -> Places]
  /\ task \in [Workers -> Clients]
  /\ enqueued \in [Clients -> Nat]
  /\ completed \in [Clients -> Nat]

Running(c) == {w \in Workers : at[w] = "run" /\ task[w] = c}

\* No task is lost or run twice on its way through the queue, a worker's local
\* variable and the call (lines 51-64), and the count of unfinished tasks is
\* exactly the tasks not yet counted down: unsigned, it never wraps.
TasksConserved ==
  /\ \A c \in Clients :
       enqueued[c] = completed[c] + Cardinality(Running(c))
                     + Cardinality({i \in DOMAIN queue : queue[i] = c})
  /\ unfinished = Len(queue) + Cardinality(In("run") \union In("finish") \union In("push"))

\* When Sync returns to a client, before the destructor, every task that this
\* client enqueued has run: that is what Sync is for (thread_pool_test.cpp:38-40).
SyncIsComplete ==
  \A c \in Syncs :
    at[c] = "through" => completed[c] = TaskCount[c]

\* No worker sleeps through a task: while one sleeps, every task in the queue
\* has a thread on its way, a client about to notify or a worker about to look.
NoSleepOverTask ==
  In("sleepQueue") # {} /\ ~stop =>
    Len(queue) <= Cardinality(UNION {In(l) : l \in {"notifyQueue", "wokenQueue", "predicate", "take"}})

\* Every task that is enqueued is run in the end, unless the pool is destroyed
\* first: Enqueue's notify_one, after the unlock, cannot be missed.
TasksRun == \A c \in Clients : <>(completed[c] = TaskCount[c] \/ stop)

\* The test constructs the pool ("ThreadPool pool(2);"), enqueues its tasks, calls
\* "pool.Sync();", checks "EXPECT_EQ(numTasks, result);" and destroys the pool
\* (test/thread_pool_test.cpp:29-41): Sync returns, and so does the destructor.
TestCompletes == <>(at[Owner] = "destroyed")
============================================================================
