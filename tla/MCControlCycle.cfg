SPECIFICATION Spec
CONSTANTS
  Low <- UnicycleLow
  Upp <- UnicycleUpp
  DuLow <- OneStep
  DuUpp <- OneStep
  HasSteering = FALSE
  SteerMax = 0
  MaxFailures = 2
  MaxPeriod = 2
  SpeedLimits = {0, 1, 5}
  PlanKinds = {"empty", "nonfinite", "sound"}
  Patience = 1
  None = None
INVARIANTS TypeOK AnchorFollowsCommand FaultBudget
PROPERTY AcceptedWithinRate
