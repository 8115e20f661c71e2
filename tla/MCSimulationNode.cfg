SPECIFICATION FairSpec
CONSTANTS
  Length = 3
  Half = 2
  Waypoints <- MCWaypoints
  Tol = 1
  Speeds <- MCSpeeds
  Bounds <- MCBounds
  Fallback = 2
  Np = 2
  Listed <- MCListed
  Single = {}
  MaxObstacles = 1
  Period = 2
  NaN = NaN
  Far = Far
INVARIANTS
  ArrivedByTheRoute
PROPERTIES
  FieldShifts
  Arrives
  FailuresStop
