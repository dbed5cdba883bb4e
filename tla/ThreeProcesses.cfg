SPECIFICATION Spec
CONSTANTS
  a0 = a0  b0 = b0  a1 = a1  a2 = a2
  N = 3
  Threads = {a0, a1}
  Sender <- MCSender
  MsgId <- MCMsgId
  SeqLimit = 16
  MaxInFlight = 1
  Reorder = FALSE
INVARIANTS SameOrder KnownEverywhere
CONSTRAINT AtMostTwoInFlight
CHECK_DEADLOCK FALSE
