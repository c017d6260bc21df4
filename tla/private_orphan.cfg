SPECIFICATION FairSpec
CONSTANTS
  Rooms = {r1}
  Users = {u1, u2}
  InterruptedTTL = 2
  InitialTTL = 2
  TokenTTL = 2
  BatchSize = 1
  Ordered = TRUE
  KeepsRetrying = TRUE
  JobTimes = {4}
  ActiveUntil = 2
  MaxTime = 4
  MaxSessions = 2
  MaxFaults = 0
PROPERTIES
  NobodyStaysBehind
CHECK_DEADLOCK FALSE
