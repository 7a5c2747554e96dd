SPECIFICATION Spec
CONSTANTS
  Clients = {c1, c2, c3}
  Pids = {1, 2}
  MAXUSERS = 1
  Texts <- MCTexts
  QueueCap = 2
  MaxStarts = 1
  AlarmRace = FALSE
SYMMETRY ClientSymmetry
CHECK_DEADLOCK FALSE
INVARIANT
  SanityCheck
