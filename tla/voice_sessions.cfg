SPECIFICATION FairSpec
CONSTANTS
  Rooms = {r1}
  Moderators = {m1}
  Listeners = {m1}
  InterruptedTTL = 2
  InitialTTL = 2
  NoModeratorTTL = 2
  TokenTTL = 2
  Skew = 2
  Precision = 2
  JobTimes = {4}
  BatchSize = 1
  Ordered = TRUE
  KeepsRetrying = TRUE
  ActiveUntil = 2
  MaxTime = 4
  MaxSessions = 2
  MaxEnds = 1
  MaxFaults = 1
INVARIANTS
  ConnectedRowsHaveSessions
PROPERTIES
  RoomsWithoutModeratorsEnd
  GenuineLeaveIsProcessed
CHECK_DEADLOCK FALSE
