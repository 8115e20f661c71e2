--------------------------- MODULE MCObstacleSlots ---------------------------
EXTENDS ObstacleSlots

\* A lane of cells with one place off the map at its far end.
MCCells == 0 .. 4
MCPlaces == 0 .. 5
MCFar == 9
MCD == [p \in MCPlaces |-> [q \in MCPlaces |-> IF p < q THEN q - p ELSE p - q]]

MCNp == 3

\* A robot that advances a cell per node, one at rest, and one leaving the map.
MCTrajectories ==
  {[k \in 0 .. MCNp |-> k], [k \in 0 .. MCNp |-> 2], [k \in 0 .. MCNp |-> k + 2]}
MCReference == [k \in 0 .. MCNp |-> k]

\* A narrow mover leaving the lane's start, a wide one coming towards the robot,
\* one that crosses ahead of it.
MCTrackSet ==
  {[now |-> 0, reach |-> 1, ray |-> [k \in 0 .. MCNp - 1 |-> k + 1]],
   [now |-> 4, reach |-> 2, ray |-> [k \in 0 .. MCNp - 1 |-> 3 - k]],
   [now |-> 2, reach |-> 1, ray |-> [k \in 0 .. MCNp - 1 |-> 5]]}

=============================================================================
