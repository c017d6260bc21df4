SPECIFICATION Spec
CONSTANTS
  Rooms = {r1}
  Moderators = {m1, m2}
  Listeners = {}
  InterruptedTTL = 2
  InitialTTL = 2
  NoModeratorTTL = 2
  TokenTTL = 2
  Skew = 1
  Precision = 1
  JobTimes = {3}
  BatchSize = 1
  Ordered = FALSE
  KeepsRetrying = FALSE
  ActiveUntil = 2
  MaxTime = 3
  MaxSessions = 1
  MaxEnds = 0
  MaxFaults = 1
SYMMETRY Symmetry
INVARIANTS
  StatusQueriesAgree
PROPERTIES
  JobSparesActiveRooms
  JobSparesReturningModerators
  LeavingModeratorSparesOthers
CHECK_DEADLOCK FALSE
