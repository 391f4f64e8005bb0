CONSTANTS
  p = p
  c1 = c1
  c2 = c2
  WorkerCount = 2
  Jobs <- Couple
  NoParent = NoParent
  Parent <- CoupleTree
  MainScript <- ForkRoot
  Script <- ForkJoinChild
  Capacity = 4
  MaxIndex = 4
  Null = Null
  Junk = Junk
SPECIFICATION FairSpec
INVARIANTS CompleteMeansDone TakenIsExecuted WorkersBracketed
PROPERTY MainFinishes
CHECK_DEADLOCK FALSE
