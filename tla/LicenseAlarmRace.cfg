SPECIFICATION Spec
CONSTANTS
  Clients = {c1, c2}
  Pids = {1, 2}
  MAXUSERS = 2
  Texts <- MCTexts
  QueueCap = 2
  MaxStarts = 1
  AlarmRace = TRUE
SYMMETRY ClientSymmetry
CHECK_DEADLOCK FALSE
INVARIANT
  AlarmOffWhileHandling
