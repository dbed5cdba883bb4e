SPECIFICATION StartupSpec
CONSTANTS
  Parsers <- MCProgramOnly
  Number <- MCNumber
  IntMax = 99999
  Uninitialised <- MCUninitialised
  Files <- MCFiles
  Hostname = "here"
  MaxChunks = 3
INVARIANTS
  CountAsAsked
CHECK_DEADLOCK FALSE
