SPECIFICATION ProcessSpec
INVARIANTS
  UsesWhatExists
  OutputOnlyWhileActive
PROPERTIES
  TransitionsEnd
  StopEndsProcess
CHECK_DEADLOCK FALSE
