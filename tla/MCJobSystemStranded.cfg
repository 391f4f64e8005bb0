CONSTANTS
  p = p
  c1 = c1
  c2 = c2
  WorkerCount = 2
  Jobs <- Couple
  NoParent = NoParent
  Parent <- CoupleTree
  MainScript <- ForkRoot
  Script <- ForkChild
  Capacity = 4
  MaxIndex = 4
  Null = Null
  Junk = Junk
SPECIFICATION FairSpec
PROPERTY ParentWaitReturns
CHECK_DEADLOCK FALSE
