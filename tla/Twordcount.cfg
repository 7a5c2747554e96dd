SPECIFICATION FairSpec
CONSTANTS
  Threads = {t1, t2}
  Versions = {1, 2, 3, 4}
  Files <- MCFiles
CHECK_DEADLOCK FALSE
INVARIANTS
  TypeOK
  ExactTotal
  RacyTotal
  EveryReportOnce
PROPERTIES
  NoLostUpdate
  NotOverwritten
  MainReturns
