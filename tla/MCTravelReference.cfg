SPECIFICATION FairSpec
CONSTANTS
  VMin <- ReverseSpeed
  VMax = 2
  Dec = 1
  Acc = 1
  Standstill = 0
  Dwell = 3
  XyTol = 1
  Hyst = 1
  Far = 2
  Full = 2
  Recovery = 1
  MaxPeriod = 2
  SpeedLimits = {1, 2}
INVARIANTS TypeOK YieldLeavesControl
PROPERTIES GearShift TaskStartsClean CuspIsPassed
