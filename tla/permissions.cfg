SPECIFICATION Spec
CONSTANTS
  Users = {o, u}
  Positions = {first, base}
  FirstParcel = first
  BaseParcel = base
  Elsewhere = {far}
  Operators = {"operator"}
  Calls = {c1, c2}
  TTL = 1
  MaxTime = 3
  MaxChanges = 2
  MaxVersions = 2
SYMMETRY Symmetry
INVARIANTS
  TypeOK
  LandListMatchesCheck
  WorldListMatchesCheck
  
CHECK_DEADLOCK FALSE
