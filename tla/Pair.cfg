SPECIFICATION Spec
CONSTANTS
  a0 = a0  b0 = b0  a1 = a1  a2 = a2
  N = 2
  Threads = {a0, a1}
  Sender <- MCSender
  MsgId <- MCMsgId
  SeqLimit = 16
  MaxInFlight = 1
  Reorder = FALSE
INVARIANTS TypeOK SameOrder NoDuplicateDelivery CompleteWhenDone HeldAfterDelivered CompleteInv
PROPERTY ImplementsAtomicMulticast
CHECK_DEADLOCK FALSE
