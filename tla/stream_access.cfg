SPECIFICATION FairSpec
CONSTANTS
  Places = {p}
  Deployments = {d1, d2}
  KeyTTL = 2
  StreamTTL = 1
  JobLimit = 1
  ActiveUntil = 3
  MaxTime = 6
  MaxRequests = 2
  MaxStreams = 1
  MaxFaults = 1
INVARIANTS
  TypeOK
  ExpiryTestsAgree
PROPERTIES
  KilledStreamsAreOff
  AccessesEnd
CHECK_DEADLOCK FALSE
