SPECIFICATION Spec
CONSTANTS
  Clients = {c1, c2, c3}
  Pids = {1, 2}
  MAXUSERS = 1
  Texts <- MCTexts
  QueueCap = 2
  MaxStarts = 3
  AlarmRace = TRUE
SYMMETRY ClientSymmetry
CHECK_DEADLOCK FALSE
INVARIANTS
  TypeOK
  CountMatchesTable
  NeverCorrupt
  WithinLicense
  AnswersTrue
PROPERTIES
  ImplementsPool
