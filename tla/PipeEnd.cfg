SPECIFICATION FairSpec
CONSTANTS
  Programs = {"pipe", "pipe3", "pipeAnyArgc"}
  AnyArgc = 2
  Cap = 2
  Items = 6
  EarlyStop = {"pipe", "pipeAnyArgc"}
  MaxFails = 1
CHECK_DEADLOCK FALSE
INVARIANTS
  TypeOK
  AllArrive
PROPERTY
  AllEnd
