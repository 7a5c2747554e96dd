SPECIFICATION FairSpec
CONSTANTS
  Programs = {"pipeAnyArgc"}
  AnyArgc = 3
  Cap = 2
  Items = 3
  EarlyStop = {}
  MaxFails = 0
CHECK_DEADLOCK FALSE
PROPERTY
  AllEnd
