SPECIFICATION Spec
CONSTANTS
  Rooms = {r1}
  Moderators = {m1}
  Listeners = {l1}
  InterruptedTTL = 2
  InitialTTL = 2
  NoModeratorTTL = 2
  TokenTTL = 2
  Skew = 1
  Precision = 1
  JobTimes = {}
  BatchSize = 1
  Ordered = FALSE
  KeepsRetrying = FALSE
  ActiveUntil = 2
  MaxTime = 4
  MaxSessions = 1
  MaxEnds = 0
  MaxFaults = 0
SYMMETRY Symmetry
INVARIANTS
  ListedRoomsAreActive
CHECK_DEADLOCK FALSE
