SPECIFICATION FairSpec
CONSTANTS
  N = 3
  Id = 1
  SendCount = 3
  Faults <- FaultKinds
INVARIANTS
  TypeOK
  SocketsOutliveThreads
  TerminatedBySender
  SocketsBounded
  HalfHandledNeverServes
PROPERTIES
  UnwindingEnds
  StuckForGood
  RemainsOperational
  SendersFinish
CHECK_DEADLOCK FALSE
