SPECIFICATION Spec
CONSTANTS
  N = 6
  Jumps = {2}
  MinPoints = 1
  MaxClusters = 2
  MaxRadius = 2
  Gate = 2
  ConfirmCount = 2
  DropCount = 1
  MaxTracks = 2
  Wobble = 1
  Pulls <- MCPulls
  FirstScans <- MCFirstScans
  Scans <- MCScans
  Stamps = {0, 1}
  MaxRewound = 1
  MaxId = 3
  None = None
INVARIANTS
  ObjectsStayWhole
  ConfirmedWhenEarned
  ClockAheadByRewinds
PROPERTIES
  OneTrackPerObject
  KeepsItsTrack
