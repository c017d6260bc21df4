SPECIFICATION FairSpec
CONSTANTS
  Users = {o, a}
  Protected = {o}
  Lessees = {}
  Visitors = {a}
  MaxRequests = 1
  MaxPending = 1
  MaxRefreshes = 1
  MaxQueue = 2
  MaxRooms = 2
  MaxFaults = 1
INVARIANTS
  TypeOK
PROPERTIES
  OtherFieldsSurvive
  WritesAreAtomic
  MetadataConverges
CHECK_DEADLOCK FALSE
