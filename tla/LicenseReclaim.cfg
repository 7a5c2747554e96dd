SPECIFICATION FairSpec
CONSTANTS
  Clients = {c1, c2}
  Pids = {1, 2}
  MAXUSERS = 2
  Texts <- MCTexts
  QueueCap = 2
  MaxStarts = 2
  AlarmRace = FALSE
CHECK_DEADLOCK FALSE
INVARIANT
  HolderKeepsTicket
PROPERTIES
  DeadTicketsReclaimed
  RequestsAnswered
