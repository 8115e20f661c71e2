SPECIFICATION FillSpec
CONSTANTS
  Cells <- MCCells
  Places <- MCPlaces
  Far <- MCFar
  D <- MCD
  Radius = 2
  Reach = 2
  Np <- MCNp
  K = 2
  MaxDynamic = 1
  TrackSet <- MCTrackSet
  MaxTracks = 3
  Trajectories <- MCTrajectories
  Reference <- MCReference
INVARIANTS
  SlotCarriesOneObject
  EverySightingWritten
  EarliestEncounterFirst
  NothingOverlooked
