---------------------------- MODULE Concurrency ----------------------------
(***************************************************************************)
(* One instance of each component that runs beside another thread or       *)
(* process: Semaphore, ThreadPool, ConcurrentQueue and the host program    *)
(* with the linker.  They share nothing, so a behaviour is one of the      *)
(* component that subject names; the others stay as they began.            *)
(***************************************************************************)
EXTENDS Semaphore

CONSTANTS
  PoolWorkers, PoolClients, PoolOwner, PoolTasks, PoolSyncs,  \* as in ThreadPool
  QueueThreads, QueueScript,                                  \* as in ConcurrentQueue
  MaxBuilds, MaxClock                                         \* as in GameHost

VARIABLES
  subject,
  pQueue, pMutex, pStop, pUnfinished, pAt, pTask, pEnqueued, pCompleted,
  qQueue, qStep, qAt, qPushed, qPopped,
  hClock, hFile, hPhase, hWindow, hUdp, hTemp, hModule, hCode, hTime, hStatics, hJobs,
  hImgui, hMemory, hRaced, hReloaded

Pool == INSTANCE ThreadPool WITH
  Workers <- PoolWorkers, Clients <- PoolClients, Owner <- PoolOwner,
  TaskCount <- PoolTasks, Syncs <- PoolSyncs,
  queue <- pQueue, mutex <- pMutex, stop <- pStop, unfinished <- pUnfinished, at <- pAt,
  task <- pTask, enqueued <- pEnqueued, completed <- pCompleted

Queue == INSTANCE ConcurrentQueue WITH
  Threads <- QueueThreads, Script <- QueueScript,
  queue <- qQueue, step <- qStep, at <- qAt, pushed <- qPushed, popped <- qPopped

Host == INSTANCE GameHost WITH
  clock <- hClock, file <- hFile, phase <- hPhase,
  window <- hWindow, udp <- hUdp, temp <- hTemp, module <- hModule, code <- hCode,
  time <- hTime, statics <- hStatics, jobs <- hJobs, imgui <- hImgui, memory <- hMemory,
  raced <- hRaced, reloaded <- hReloaded

ASSUME ConcurrencyAssumption ==
  Pool!ThreadPoolAssumption /\ Queue!ConcurrentQueueAssumption /\ Host!HostAssumption

----------------------------------------------------------------------------
poolVars  == <<pQueue, pMutex, pStop, pUnfinished, pAt, pTask, pEnqueued, pCompleted>>
queueVars == <<qQueue, qStep, qAt, qPushed, qPopped>>
hostVars  == <<hClock, hFile, hPhase, hWindow, hUdp, hTemp, hModule, hCode, hTime, hStatics,
               hJobs, hImgui, hMemory, hRaced, hReloaded>>
allVars   == <<subject, vars, poolVars, queueVars, hostVars>>

IsSubject(component) == subject = component /\ UNCHANGED subject

ConcurrencyInit ==
  /\ subject \in {"semaphore", "pool", "queue", "host"}
  /\ Init /\ Pool!Init /\ Queue!Init /\ Host!Init
  /\ subject # "host" => hFile.exports

ConcurrencyNext ==
  \/ IsSubject("semaphore") /\ Next /\ UNCHANGED <<poolVars, queueVars, hostVars>>
  \/ IsSubject("pool") /\ Pool!Next /\ UNCHANGED <<vars, queueVars, hostVars>>
  \/ IsSubject("queue") /\ Queue!Next /\ UNCHANGED <<vars, poolVars, hostVars>>
  \/ IsSubject("host") /\ Host!Next /\ UNCHANGED <<vars, poolVars, queueVars>>

\* The fairness of the four components, of which only the subject has steps.
ConcurrencyFairness ==
  /\ \A t \in Threads : WF_vars(Proceed(t)) /\ SF_vars(WaitRelock(t))
  /\ \A w \in PoolWorkers :
       /\ WF_poolVars(IsSubject("pool") /\ Pool!WorkerStep(w))
       /\ SF_poolVars(IsSubject("pool") /\ Pool!WorkerLock(w))
  /\ \A client \in PoolClients :
       /\ WF_poolVars(IsSubject("pool") /\ Pool!ClientStep(client))
       /\ SF_poolVars(IsSubject("pool") /\ (Pool!EnqueuePush(client) \/ Pool!SyncLock(client)))
  /\ WF_poolVars(IsSubject("pool") /\ Pool!OwnerStep)
  /\ \A t \in QueueThreads : WF_queueVars(IsSubject("queue") /\ Queue!Step(t))
  /\ WF_hostVars(IsSubject("host") /\ Host!HostNext)

ConcurrencySpec == ConcurrencyInit /\ [][ConcurrencyNext]_allVars /\ ConcurrencyFairness

----------------------------------------------------------------------------
\* No task of the pool is lost or run twice, and the count of unfinished tasks
\* is that of the tasks (ThreadPool!TasksConserved).
TasksConserved == subject = "pool" => Pool!TasksConserved

\* A Sync that returns leaves no task of its client undone
\* (ThreadPool!SyncIsComplete).
SyncIsComplete == subject = "pool" => Pool!SyncIsComplete

\* Every task is run, unless the pool is destroyed first: no worker sleeps
\* through a notification (ThreadPool!TasksRun).
TasksRun == subject = "pool" => Pool!TasksRun

\* The queue loses, doubles and reorders nothing, and no thread sleeps over an
\* item that nobody is coming for (ConcurrentQueue!FirstInFirstOut and
\* NoSleepOverItem, together ItemsDelivered).
ItemsDelivered == subject = "queue" => Queue!ItemsDelivered

\* With as many items pushed as popped, every call on the queue returns
\* (ConcurrentQueue!EveryoneReturns).
EveryoneReturns == subject = "queue" => Queue!EveryoneReturns

\* Until a reload, no call goes through a pointer into another build or finds
\* nothing set up, frames are drawn by the last build, and an exit leaves neither
\* threads nor GL objects (GameHost!CallsLoadedCode, InitBeforeFrame, UpToDate
\* and CleanExit, together HostInStep).
HostInStep == subject = "host" => Host!HostInStep

\* A build that ends is loaded, or another follows, or the host ends
\* (GameHost!BuildsAreLoaded).
BuildsAreLoaded == subject = "host" => Host!BuildsAreLoaded
=============================================================================
