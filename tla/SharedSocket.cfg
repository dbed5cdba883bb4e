SPECIFICATION FairSpec
CONSTANTS
  a0 = a0  b0 = b0  a1 = a1  a2 = a2
  N = 2
  Threads = {a0, b0}
  Sender <- MCSender
  MsgId <- MCMsgId
  SeqLimit = 16
  MaxInFlight = 1
  Reorder = FALSE
INVARIANTS CollectedSeqsHeld NoReproposal QueueConsistent
PROPERTIES ProposalsGrow EventuallyDelivered
CHECK_DEADLOCK FALSE
