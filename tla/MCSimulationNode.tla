-------------------------- MODULE MCSimulationNode --------------------------
EXTENDS SimulationNode

\* Two waypoints within reach of each other, then one back across the start; the
\* second heading is given three half turns away, the third on the branch cut.
MCWaypoints == << [at |-> 1, th |-> 0], [at |-> 2, th |-> -3], [at |-> 0, th |-> 2] >>
\* A patrol and a static obstacle.
MCListed == << [t \in 0 .. 1 |-> t + 1], [t \in 0 .. 1 |-> 1] >>
MCSpeeds == [lin |-> -1 .. 2, ang |-> 0 .. 1]
MCBounds == [lin |-> 1, ang |-> 0]

=============================================================================
