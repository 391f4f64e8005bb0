CONSTANTS
  owner = owner
  thief1 = thief1
  thief2 = thief2
  j1 = j1
  j2 = j2
  j3 = j3
  j4 = j4
  Threads <- MCThreads
  Owners <- MCOwners
  Jobs <- MCJobs
  Capacity = 2
  MaxIndex = 4
  Null = Null
  Junk = Junk
SPECIFICATION Spec
INVARIANTS TypeOK TakenOnce NoJobLost NeverReadsJunk
SYMMETRY Symmetry
PROPERTY ImplementsDeque
CHECK_DEADLOCK FALSE
