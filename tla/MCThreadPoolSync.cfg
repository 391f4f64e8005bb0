CONSTANTS
  w1 = w1
  w2 = w2
  c1 = c1
  Workers <- MCWorkers
  Clients <- OneClient
  Owner = c1
  TaskCount <- Tasks2
  Syncs <- OneClient
  Free = Free
SPECIFICATION FairSpec
PROPERTY TestCompletes
CHECK_DEADLOCK FALSE
