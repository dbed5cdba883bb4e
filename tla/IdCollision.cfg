SPECIFICATION Spec
CONSTANTS
  a0 = a0  b0 = b0  a1 = a1  a2 = a2
  N = 2
  Threads = {a0, b0}
  Sender <- MCSender
  MsgId <- MCCollidingMsgId
  SeqLimit = 16
  MaxInFlight = 1
  Reorder = FALSE
INVARIANT CompleteWhenDone
CHECK_DEADLOCK FALSE
