SPECIFICATION FairSpec
CONSTANTS
  Names = {a, b, c}
  Texts = {"", "x"}
  MAXVARS = 2
  MaxEnviron = 3
  MaxIfs = 1
CHECK_DEADLOCK FALSE
INVARIANTS
  TypeOK
  ChildEnvironment
PROPERTIES
  ImplementsStore
  CommandsFollowCondition
  PromptReturns
