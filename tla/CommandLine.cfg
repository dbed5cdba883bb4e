SPECIFICATION StartupSpec
CONSTANTS
  Parsers <- MCParsers
  Number <- MCNumber
  IntMax = 99999
  Uninitialised <- MCUninitialised
  Files <- MCFiles
  Hostname = "here"
  MaxChunks = 4
INVARIANTS
  TypeOK
  EveryChunkOnce
  AboutThisCall
  PositionalsInOrder
  StartupTypeOK
  ListFollowsFile
  RunsUnderOwnId
  ZeroOnlyForHelp
CHECK_DEADLOCK FALSE
