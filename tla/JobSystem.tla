----------------------------- MODULE JobSystem -----------------------------
(***************************************************************************)
(* The fork-join job system of src/job_system.cpp: thread 0 calls          *)
(* initialize, creates, runs and waits for jobs, and calls shutdown;       *)
(* threads 1 .. WorkerCount are the workers.  Jobs are trees: a job is     *)
(* complete when its function has returned and its children are complete.  *)
(*                                                                         *)
(* Each thread has a call stack of frames, because wait() executes other   *)
(* jobs, which may wait in turn.  The queues are WorkStealingQueue's, one  *)
(* per thread, and their operations stay as fine-grained as they are       *)
(* there.  Semaphores are atomic counters: module Semaphore shows that the *)
(* class implements them.                                                  *)
(***************************************************************************)
EXTENDS Integers, Sequences, FiniteSets

CONSTANTS
  WorkerCount,  \* hardware_concurrency()
  Jobs,         \* the jobs that the program creates
  NoParent,     \* parent == nullptr
  Parent,       \* the parent of each job, or NoParent
  MainScript,   \* what the program does between initialize and shutdown
  Script,       \* what the function of each job does
  Capacity, MaxIndex, Null, Junk   \* as in WorkStealingQueue

Main    == 0
Workers == 1 .. WorkerCount
Threads == 0 .. WorkerCount

\* A script is a sequence of calls of the job system's interface.
Call == [op : {"create", "run", "wait"}, job : Jobs]

ASSUME JobSystemAssumption ==
  /\ WorkerCount \in Nat \ {0}
  /\ NoParent \notin Jobs
  /\ Parent \in [Jobs -> Jobs \union {NoParent}]
  /\ MainScript \in Seq(Call)
  /\ Script \in [Jobs -> Seq(Call)]
  /\ Capacity \in Nat \ {0}
  /\ MaxIndex \in Nat
  /\ Null \notin Jobs
  /\ Junk \notin Jobs
  /\ Null # Junk

VARIABLES
  top, bottom, jobs, at, victim, lt, lb, job, pushed, taken, upset,
                \* the queues and the operations on them
  unfinished,   \* unfinished_jobs of each job (zero in the fresh allocator)
  jobReady,     \* the count of job_ready
  event,        \* the count of each thread's semaphore in wait_events
  workersReady, \* the count of initialize's workers_ready
  active,       \* worker_thread_active
  stack,        \* the call stack of each thread, innermost frame first
  crashed,      \* a thread dereferenced a pointer never written
  created,      \* history: the jobs created
  started,      \* history: how many times each job's function was called
  returned      \* history: how many times it returned

queueVars == <<top, bottom, jobs, at, victim, lt, lb, job, pushed, taken, upset>>
semVars   == <<jobReady, event, workersReady>>
runVars   == <<created, started, returned>>
vars == <<queueVars, semVars, runVars, unfinished, active, stack, crashed>>

Q == INSTANCE WorkStealingQueue WITH Owners <- Threads

Frame(pc, j, n) == [pc |-> pc, job |-> j, n |-> n]

Init ==
  /\ Q!Init
  /\ unfinished = [j \in Jobs |-> 0]
  /\ jobReady = 0
  /\ event = [t \in Threads |-> 0]
  /\ workersReady = 1 - WorkerCount
  /\ active = FALSE
  /\ stack = [t \in Threads |->
       <<Frame(IF t = Main THEN "spawn" ELSE "unborn", Null, 0)>>]
  /\ crashed = FALSE
  /\ created = {}
  /\ started = [j \in Jobs |-> 0]
  /\ returned = [j \in Jobs |-> 0]

----------------------------------------------------------------------------
(* Stack discipline.                                                       *)

\* Thread t is between queue operations, in a frame at label pc.
At(t, pc) ==
  /\ ~crashed
  /\ at[t] = "idle"
  /\ stack[t] # <<>>
  /\ Head(stack[t]).pc = pc

Top(t) == Head(stack[t])

\* The innermost frame of t is replaced by a sequence of frames.
Replace(t, frames) == stack' = [stack EXCEPT ![t] = frames \o Tail(@)]
Become(t, pc)      == Replace(t, <<[Top(t) EXCEPT !.pc = pc]>>)
Leave(t)           == Replace(t, <<>>)

----------------------------------------------------------------------------
(* initialize, and the start of a worker thread.                           *)

SpawnWorker(w) ==
  /\ At(Main, "spawn")
  /\ Top(Main).n + 1 = w
  /\ active' = TRUE
  /\ stack' = [stack EXCEPT
       ![Main] = <<Frame(IF w = WorkerCount THEN "awaitWorkers" ELSE "spawn",
                         Null, w)>>,
       ![w] = <<Frame("ready", Null, 0)>>]
  /\ UNCHANGED <<queueVars, semVars, runVars, unfinished, crashed>>

ReportReady(w) ==
  /\ At(w, "ready")
  /\ workersReady' = workersReady + 1
  /\ Become(w, "loop")
  /\ UNCHANGED <<queueVars, jobReady, event, runVars, unfinished, active, crashed>>

\* Mutation: the count starts one too high for the number of workers.
AwaitWorkersButOne ==
  /\ At(Main, "awaitWorkers")
  /\ workersReady >= 0
  /\ workersReady' = workersReady - 1
  /\ Replace(Main, <<Frame("script", Null, 0)>>)
  /\ UNCHANGED <<queueVars, jobReady, event, runVars, unfinished, active, crashed>>

AwaitWorkers ==
  /\ At(Main, "awaitWorkers")
  /\ workersReady > 0
  /\ workersReady' = workersReady - 1
  /\ Replace(Main, <<Frame("script", Null, 0)>>)
  /\ UNCHANGED <<queueVars, jobReady, event, runVars, unfinished, active, crashed>>

----------------------------------------------------------------------------
(* The calls of the interface, made by a script.                           *)

ScriptOf(j) == IF j = Null THEN MainScript ELSE Script[j]

\* t is about to make a call op, of which the job is j.
Calls(t, op, j) ==
  /\ At(t, "script")
  /\ Top(t).n < Len(ScriptOf(Top(t).job))
  /\ ScriptOf(Top(t).job)[Top(t).n + 1] = [op |-> op, job |-> j]

Advanced(t) == [Top(t) EXCEPT !.n = @ + 1]

\* Mutation: the parent is not counted up.
CreateOrphan(t, j) ==
  /\ Calls(t, "create", j)
  /\ unfinished' = [unfinished EXCEPT ![j] = 1]
  /\ created' = created \union {j}
  /\ Replace(t, <<Advanced(t)>>)
  /\ UNCHANGED <<queueVars, semVars, started, returned, active, crashed>>

\* create_job and create_job_as_child: the parent is counted up first, and
\* the new job is not shared yet.
CreateJob(t, j) ==
  /\ Calls(t, "create", j)
  /\ unfinished' = [i \in Jobs |->
       IF i = j THEN 1
       ELSE IF i = Parent[j] THEN unfinished[i] + 1 ELSE unfinished[i]]
  /\ created' = created \union {j}
  /\ Replace(t, <<Advanced(t)>>)
  /\ UNCHANGED <<queueVars, semVars, started, returned, active, crashed>>

\* run: push on the caller's own queue, whichever thread it is.
RunJob(t, j) ==
  /\ Calls(t, "run", j)
  /\ Q!PushWrite(t, j)
  /\ Replace(t, <<Frame("jobReady", j, 0), Advanced(t)>>)
  /\ UNCHANGED <<semVars, runVars, unfinished, active, crashed>>

\* job_ready.notify()
NotifyJobReady(t) ==
  /\ At(t, "jobReady")
  /\ jobReady' = jobReady + 1
  /\ Replace(t, <<Frame("notifyAll", Top(t).job, 0)>>)
  /\ UNCHANGED <<queueVars, event, workersReady, runVars, unfinished, active, crashed>>

\* notify_all_waiting: one wait_event after the other, each at most 1
NotifyAll(t) ==
  LET n == Top(t).n IN
  /\ At(t, "notifyAll")
  /\ event' = [event EXCEPT ![n] = 1]
  /\ IF n = WorkerCount THEN Leave(t) ELSE Replace(t, <<Advanced(t)>>)
  /\ UNCHANGED <<queueVars, jobReady, workersReady, runVars, unfinished, active, crashed>>

CallWait(t, j) ==
  /\ Calls(t, "wait", j)
  /\ Replace(t, <<Frame("wait", j, 0), Advanced(t)>>)
  /\ UNCHANGED <<queueVars, semVars, runVars, unfinished, active, crashed>>

----------------------------------------------------------------------------
(* The two loops that execute jobs: wait, and the body of a worker thread. *)

\* while (!has_job_completed(job)): only an exact zero is complete
WaitCheck(t) ==
  /\ At(t, "wait")
  /\ IF unfinished[Top(t).job] = 0
       THEN Leave(t)
       ELSE Replace(t, <<Frame("get", Null, 0), [Top(t) EXCEPT !.pc = "waitBlock"]>>)
  /\ UNCHANGED <<queueVars, semVars, runVars, unfinished, active, crashed>>

\* wait_events[get_thread_index()]->wait()
WaitBlock(t) ==
  /\ At(t, "waitBlock")
  /\ event[t] > 0
  /\ event' = [event EXCEPT ![t] = @ - 1]
  /\ Become(t, "wait")
  /\ UNCHANGED <<queueVars, jobReady, workersReady, runVars, unfinished, active, crashed>>

\* while (worker_thread_active)
LoopCheck(w) ==
  /\ At(w, "loop")
  /\ IF active
       THEN Replace(w, <<Frame("get", Null, 0), [Top(w) EXCEPT !.pc = "loopBlock"]>>)
       ELSE Leave(w)
  /\ UNCHANGED <<queueVars, semVars, runVars, unfinished, active, crashed>>

\* job_ready.wait()
LoopBlock(w) ==
  /\ At(w, "loopBlock")
  /\ jobReady > 0
  /\ jobReady' = jobReady - 1
  /\ Become(w, "loop")
  /\ UNCHANGED <<queueVars, event, workersReady, runVars, unfinished, active, crashed>>

----------------------------------------------------------------------------
(* get_job: pop the thread's own queue, then steal from queue 0 only.  The *)
(* frame below is already at its blocking label; a job found is executed   *)
(* on top of it.                                                           *)

\* is_empty_job: null, or complete by now
IsEmpty(p) == p \in {Null} \union {j \in Jobs : unfinished[j] = 0}

Found(t) ==
  /\ job[t] \in Jobs
  /\ ~IsEmpty(job[t])
  /\ started' = [started EXCEPT ![job[t]] = @ + 1]
  /\ Replace(t, <<Frame("script", job[t], 0)>>)
  /\ UNCHANGED <<queueVars, semVars, created, returned, unfinished, active, crashed>>

\* The slot was never written: it holds a null pointer or anything else.
FoundJunk(t) ==
  /\ job[t] = Junk
  /\ crashed' = TRUE
  /\ UNCHANGED <<queueVars, semVars, runVars, unfinished, active, stack>>

\* Mutation: get_job may return null although it holds a job.
FoundAnything(t) == job[t] \in Jobs \union {Null, Junk}

FoundNothing(t) == job[t] = Junk \/ IsEmpty(job[t])

GetJob(t) ==
  /\ At(t, "get")
  /\ Q!PopDecrement(t)
  /\ Become(t, "popped")
  /\ UNCHANGED <<semVars, runVars, unfinished, active, crashed>>

Popped(t) ==
  /\ At(t, "popped")
  /\ \/ Found(t)
     \/ FoundJunk(t)
     \/ /\ FoundNothing(t)
        /\ IF t = Main THEN Leave(t) ELSE Become(t, "steal")
        /\ UNCHANGED <<queueVars, semVars, runVars, unfinished, active, crashed>>

StealJob(t) ==
  /\ At(t, "steal")
  /\ Q!StealLoadTop(t, Main)
  /\ Become(t, "stolen")
  /\ UNCHANGED <<semVars, runVars, unfinished, active, crashed>>

Stolen(t) ==
  /\ At(t, "stolen")
  /\ \/ Found(t)
     \/ FoundJunk(t)
     \/ /\ FoundNothing(t)
        /\ Leave(t)
        /\ UNCHANGED <<queueVars, semVars, runVars, unfinished, active, crashed>>

QueueStep(t) ==
  /\ ~crashed
  /\ Q!Continue(t)
  /\ UNCHANGED <<semVars, runVars, unfinished, active, stack, crashed>>

----------------------------------------------------------------------------
(* execute: the function returns, then finish counts the job down, and its *)
(* ancestors as long as each reaches zero, and wakes every waiter.         *)

JobReturns(t) ==
  LET j == Top(t).job IN
  /\ At(t, "script")
  /\ j # Null
  /\ Top(t).n = Len(Script[j])
  /\ returned' = [returned EXCEPT ![j] = @ + 1]
  /\ Replace(t, <<Frame("finish", j, 0)>>)
  /\ UNCHANGED <<queueVars, semVars, created, started, unfinished, active, crashed>>

\* Mutation: finish wakes nobody.
FinishSilently(t) ==
  LET j == Top(t).job IN
  /\ At(t, "finish")
  /\ unfinished' = [unfinished EXCEPT ![j] = @ - 1]
  /\ IF unfinished[j] = 1 /\ Parent[j] # NoParent
       THEN Replace(t, <<Frame("finish", Parent[j], 0)>>)
       ELSE Leave(t)
  /\ UNCHANGED <<queueVars, semVars, runVars, active, crashed>>

Finish(t) ==
  LET j == Top(t).job
      notify == Frame("notifyAll", j, 0)
  IN
  /\ At(t, "finish")
  /\ unfinished' = [unfinished EXCEPT ![j] = @ - 1]
  /\ IF unfinished[j] = 1 /\ Parent[j] # NoParent
       THEN Replace(t, <<Frame("finish", Parent[j], 0), notify>>)
       ELSE Replace(t, <<notify>>)
  /\ UNCHANGED <<queueVars, semVars, runVars, active, crashed>>

----------------------------------------------------------------------------
(* shutdown, after the main script.                                        *)

StopWorkers ==
  /\ At(Main, "script")
  /\ Top(Main).job = Null
  /\ Top(Main).n = Len(MainScript)
  /\ active' = FALSE
  /\ Replace(Main, <<Frame("wake", Null, 1)>>)
  /\ UNCHANGED <<queueVars, semVars, runVars, unfinished, crashed>>

WakeWorker ==
  /\ At(Main, "wake")
  /\ jobReady' = jobReady + 1
  /\ IF Top(Main).n = WorkerCount
       THEN Replace(Main, <<Frame("join", Null, 1)>>)
       ELSE Replace(Main, <<Advanced(Main)>>)
  /\ UNCHANGED <<queueVars, event, workersReady, runVars, unfinished, active, crashed>>

\* After the last join the queues and the wait events are deleted.
JoinWorker ==
  /\ At(Main, "join")
  /\ stack[Top(Main).n] = <<>>
  /\ IF Top(Main).n = WorkerCount THEN Leave(Main) ELSE Replace(Main, <<Advanced(Main)>>)
  /\ UNCHANGED <<queueVars, semVars, runVars, unfinished, active, crashed>>

----------------------------------------------------------------------------
Step(t) ==
  \/ \E j \in Jobs : CreateJob(t, j) \/ RunJob(t, j) \/ CallWait(t, j)
  \/ NotifyJobReady(t)
  \/ NotifyAll(t)
  \/ WaitCheck(t)
  \/ WaitBlock(t)
  \/ GetJob(t)
  \/ Popped(t)
  \/ StealJob(t)
  \/ Stolen(t)
  \/ QueueStep(t)
  \/ JobReturns(t)
  \/ Finish(t)

MainStep ==
  \/ \E w \in Workers : SpawnWorker(w)
  \/ AwaitWorkers
  \/ StopWorkers
  \/ WakeWorker
  \/ JoinWorker
  \/ Step(Main)

WorkerStep(w) ==
  \/ ReportReady(w)
  \/ LoopCheck(w)
  \/ LoopBlock(w)
  \/ Step(w)

Next == MainStep \/ \E w \in Workers : WorkerStep(w)

Spec == Init /\ [][Next]_vars

\* The scheduler runs every thread that can run.
FairSpec ==
  /\ Spec
  /\ WF_vars(MainStep)
  /\ \A w \in Workers : WF_vars(WorkerStep(w))

----------------------------------------------------------------------------
Labels == {"spawn", "unborn", "ready", "awaitWorkers", "script", "jobReady",
           "notifyAll", "wait", "waitBlock", "loop", "loopBlock", "get",
           "popped", "steal", "stolen", "finish", "wake", "join"}

TypeOK ==
  /\ Q!TypeOK
  /\ unfinished \in [Jobs -> Int]
  /\ jobReady \in Nat
  /\ event \in [Threads -> 0 .. 1]
  /\ workersReady \in 1 - WorkerCount .. 1
  /\ active \in BOOLEAN
  /\ stack \in [Threads -> Seq([pc : Labels, job : Jobs \union {Null}, n : Nat])]
  /\ crashed \in BOOLEAN
  /\ created \in SUBSET Jobs
  /\ started \in [Jobs -> Nat]
  /\ returned \in [Jobs -> Nat]

\* No pop has lost the race for the last job of a queue and no push has
\* overrun one, so far.
Healthy == \A q \in Threads : upset[q] = {}

\* has_job_completed, of a job that exists
Complete(j) == j \in created /\ unfinished[j] = 0

Children(j) == {c \in created : Parent[c] = j}

\* What the interface expects of the program that calls it: a job is created
\* once, under a parent that exists and cannot complete meanwhile, and is run
\* once, after it was created.
KeepsContract ==
  \A t \in Threads, j \in Jobs :
    /\ Calls(t, "create", j) =>
         /\ j \notin created
         /\ Parent[j] # NoParent => Parent[j] \in created /\ unfinished[Parent[j]] > 0
    /\ Calls(t, "run", j) => j \in created /\ \A q \in Threads : j \notin pushed[q]

\* Call i of the function of job k, or of the main script if k is Null.
Makes(k, i, op, j) ==
  /\ i \in DOMAIN ScriptOf(k)
  /\ ScriptOf(k)[i] = [op |-> op, job |-> j]

\* A program that keeps the contract whatever the schedule: a job is created at
\* one place and run at one place, later in the same function; and a child is
\* created by its parent's function, or between the calls that create and run
\* its parent.
Structured ==
  \A k \in Jobs \union {Null} : \A i \in DOMAIN ScriptOf(k), j \in Jobs :
    /\ \A op \in {"create", "run"} : Makes(k, i, op, j) =>
         \A l \in Jobs \union {Null} : \A m \in DOMAIN ScriptOf(l) :
           Makes(l, m, op, j) => l = k /\ m = i
    /\ Makes(k, i, "run", j) => \E m \in 1 .. i - 1 : Makes(k, m, "create", j)
    /\ Makes(k, i, "create", j) /\ Parent[j] \notin {NoParent, k} =>
         /\ \E m \in 1 .. i - 1 : Makes(k, m, "create", Parent[j])
         /\ \A m \in 1 .. i - 1 : ~Makes(k, m, "run", Parent[j])

\* Fork-join, on a healthy queue: a job that has_job_completed reports complete
\* has run, exactly once, and all of its children are complete; and no job's
\* counter falls below zero, where nobody would recognise it as complete.
CompleteMeansDone ==
  Healthy =>
    \A j \in created :
      /\ unfinished[j] >= 0
      /\ started[j] <= 1
      /\ unfinished[j] = 0 =>
           returned[j] = 1 /\ \A c \in Children(j) : Complete(c)

\* The job that thread t took from a queue and has not called yet, if any.
InHand(t) ==
  IF at[t] = "idle" /\ stack[t] # <<>> /\ Head(stack[t]).pc \in {"popped", "stolen"}
    THEN job[t]
  ELSE IF at[t] = "popStore" THEN job[t] ELSE Null

\* Every job that get_job takes out of a queue is executed: it is not dropped
\* between the pop that fails and the steal that follows, nor filtered out as
\* empty while it still has work to do.
TakenIsExecuted ==
  Healthy =>
    \A j \in Jobs :
      taken[j] = started[j] + Cardinality({t \in Threads : InHand(t) = j})

\* initialize returns only when every worker has reported itself ready, and
\* shutdown only when every worker has left its loop.
WorkersBracketed ==
  /\ \A n \in 1 .. Len(stack[Main]) : stack[Main][n].pc \in {"script", "wake"} =>
       \A w \in Workers : stack[w] = <<>> \/ stack[w][Len(stack[w])].pc \notin {"unborn", "ready"}
  /\ stack[Main] = <<>> => \A w \in Workers : stack[w] = <<>>

\* The program's main thread gets through its script and out of shutdown:
\* every wait returns and every worker is joined, unless a pop lost a race.
MainFinishes == <>(stack[Main] = <<>> \/ ~Healthy)

\* The suite of the scheduler's tests says: "A task is not finished until all
\* its children are finished" (test/task_manager_test.cpp:55).
FinishedAfterChildren ==
  \A j \in created : unfinished[j] = 0 => \A c \in Children(j) : returned[c] > 0

\* "TaskManager::Wait(parent_task_id);" is followed by
\* "CHECK(completed_tasks.size() == 2u);" (test/task_manager_test.cpp:68-70):
\* waiting for a parent returns, when its children have completed.
ParentWaitReturns ==
  \A j \in Jobs :
    [](At(Main, "wait") /\ Top(Main).job = j => <>(Complete(j) \/ ~Healthy))

============================================================================
