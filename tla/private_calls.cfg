SPECIFICATION FairSpec
CONSTANTS
  Rooms = {r1, r2}
  Users = {u1, u2}
  InterruptedTTL = 1
  InitialTTL = 1
  TokenTTL = 1
  BatchSize = 1
  Ordered = TRUE
  KeepsRetrying = TRUE
  JobTimes = {2}
  ActiveUntil = 1
  MaxTime = 2
  MaxSessions = 2
  MaxFaults = 1
INVARIANTS
  TypeOK
  TestsAgree
  ConnectedRowsHaveSessions
PROPERTIES
  CallsAreWhole
  CallsEnd
CHECK_DEADLOCK FALSE
