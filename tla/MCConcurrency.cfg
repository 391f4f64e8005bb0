CONSTANTS
  a = a
  b = b
  c = c
  d = d
  w1 = w1
  w2 = w2
  c1 = c1
  c2 = c2
  p1 = p1
  p2 = p2
  q1 = q1
  q2 = q2
  q3 = q3
  Threads <- MCThreads
  InitialCount <- Below
  Max = 2
  Free = Free
  PoolWorkers <- MCPoolWorkers
  PoolClients <- MCPoolClients
  PoolOwner = c1
  PoolTasks <- MCPoolTasks
  PoolSyncs <- MCPoolClients
  QueueThreads <- MCQueueThreads
  QueueScript <- MCQueueScript
  MaxBuilds = 3
  MaxClock = 3
SPECIFICATION ConcurrencySpec
INVARIANTS MutexHeld NoLostWakeup TasksConserved SyncIsComplete ItemsDelivered HostInStep
PROPERTIES ImplementsSemaphore TasksRun EveryoneReturns BuildsAreLoaded
CHECK_DEADLOCK FALSE
