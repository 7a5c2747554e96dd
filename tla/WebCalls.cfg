SPECIFICATION FairSpec
CONSTANTS
  Clients = {c1, c2}
  Main = main
  None = none
  Kinds = {"malformed", "notGet", "missing", "dir", "cgi", "file", "unreadable"}
  Backlog = 1
  Silent = TRUE
  ExecFails = TRUE
  MaxFails = 1
CHECK_DEADLOCK FALSE
INVARIANTS
  TypeOK
  AnswerFits
  Answered
PROPERTY
  CallsEnd
