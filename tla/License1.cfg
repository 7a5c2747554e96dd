SPECIFICATION Spec
CONSTANTS
  Clients = {c1, c2, c3, c4}
  Pids = {1, 2, 3}
  MAXUSERS = 2
  Texts <- MCTexts
  QueueCap = 3
  MaxStarts = 2
SYMMETRY ClientSymmetry
CHECK_DEADLOCK FALSE
INVARIANTS
  TypeOK
  CountMatchesTable
  AnswersTrue
PROPERTIES
  ImplementsPool
