SPECIFICATION Spec
CONSTANTS
  Players = {p, q}
  Devices = {d}
  Scenes = {s}
  MessagesRoom = m
  Durations = {1}
  Offenders = {p}
  MaxTime = 2
  MaxRequests = 3
  MaxFaults = 1
INVARIANTS
  TypeOK
  SweptPlayersAreOut
PROPERTIES
  TokensRespectBans
  OnlyBannedAreRefused
  LiftsAreComplete
CHECK_DEADLOCK FALSE
