SPECIFICATION Spec
CONSTANTS
  a0 = a0  b0 = b0  a1 = a1  a2 = a2
  N = 2
  Threads = {a0, a1}
  Sender <- MCSender
  MsgId <- MCMsgId
  SeqLimit = 16
  MaxInFlight = 2
  Reorder = TRUE
INVARIANTS FirstDeliveriesAgree OrderInv
CONSTRAINT AtMostTwoInFlight
CHECK_DEADLOCK FALSE
