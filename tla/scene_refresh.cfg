SPECIFICATION Spec
CONSTANTS
  Users = {o, a}
  Protected = {o}
  Lessees = {}
  Visitors = {a}
  MaxRequests = 1
  MaxPending = 1
  MaxRefreshes = 1
  MaxQueue = 2
  MaxRooms = 1
  MaxFaults = 0
PROPERTIES
  RefreshKeepsNewerBans
CHECK_DEADLOCK FALSE
