SPECIFICATION Spec
CONSTANTS
  Rooms = {r1}
  Moderators = {m1}
  Listeners = {m1}
  InterruptedTTL = 3
  InitialTTL = 3
  NoModeratorTTL = 3
  TokenTTL = 3
  Skew = 2
  Precision = 2
  JobTimes = {}
  BatchSize = 1
  Ordered = FALSE
  KeepsRetrying = TRUE
  ActiveUntil = 2
  MaxTime = 3
  MaxSessions = 2
  MaxEnds = 0
  MaxFaults = 1
SYMMETRY Symmetry
INVARIANTS
  TypeOK
  RowsConsistent
PROPERTIES
  StaleLeaveDisconnectsNobody
  OnlyDisorderStrandsRows
CHECK_DEADLOCK FALSE
