SPECIFICATION FairSpec
CONSTANTS
  K = 2
  MaxDynamic = 1
  Timeout = 1
  Ahead = 1
  Delay = 1
  MaxMovers = 1
  MaxElapsed = 1
  Depth = 2
INVARIANT CurrentPerception
PROPERTY SilentTrackerForgotten
