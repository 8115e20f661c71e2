SPECIFICATION FairSpec
CONSTANTS
  Low <- BicycleLow
  Upp <- BicycleUpp
  DuLow <- OneStep
  DuUpp <- OneStep
  HasSteering = TRUE
  SteerMax = 1
  MaxFailures = 1
  MaxPeriod = 2
  SpeedLimits = {}
  PlanKinds = {"empty", "sound"}
  Patience = 1
  None = None
PROPERTY CancelCompletes
