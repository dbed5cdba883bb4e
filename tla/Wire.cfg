SPECIFICATION Spec
CONSTANTS
  ByteBase = 2
  ProcessCount = 2
  Words <- MCWords
  Cuts <- MCCuts
INVARIANTS
  TypeOK
  UnderstoodAsSent
  NoneRefused
