SPECIFICATION FairSpec
CONSTANTS
  unlimited = unlimited
  limited = limited
  plain = plain
  Callers = {unlimited, limited, plain}
  Plain = {plain}
  Attempts <- MCAttempts
  UIntLimit = 4
  MaxInbox = 2
INVARIANTS
  TypeOK
  ExchangesExclusive
  AckedOrExhausted
PROPERTY
  EveryCallEnds
CHECK_DEADLOCK FALSE
