SPECIFICATION Spec
CONSTANTS
  Clients = {c1, c2}
  Main = main
  None = none
  Kinds = {"file"}
  Backlog = 1
  Silent = TRUE
  ExecFails = FALSE
  MaxFails = 0
CHECK_DEADLOCK FALSE
INVARIANT
  RepliesFit
