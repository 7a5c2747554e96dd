SPECIFICATION FairSpec
CONSTANTS
  MAXARGS = 5
  Commands <- MCCommands
  CommandsOf <- MCCommandsOf
  AsksOf <- MCAsksOf
  MAXSIZE = 5
  Contents <- MCContents
  Hidden = {1}
  Letters <- MCLetters
  Requests <- MCRequests
  MaxRequests = 3
  OutCap = 3
  PerLine = 10
  Here = c1
  Clients = {c1, c2, c3}
  Servers = {"none", "rlsd", "timeserv"}
  QueueMax = 1
  Dirs = {"d/a", "e;", "x", "13000"}
  Spelled <- MCSpelled
  Kept = {"d", "a", "e", "x", "/", "1", "3"}
  Blocks <- MCBlocks
CHECK_DEADLOCK FALSE
INVARIANTS
  TypeOK
  RunsWhatWasTyped
  ListingSorted
  OwnAttributes
  AnswersInStep
  WholeReply
  ServerLives
PROPERTIES
  PromptReturns
