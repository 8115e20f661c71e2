----------------------------- MODULE MCMpcConfig -----------------------------
EXTENDS MpcConfig

\* A planar model; one whose y position is not a state; one without avoidance that
\* declares its bounds out of index order.
Planar   == [n |-> 2, m |-> 1, obs |-> TRUE, px |-> 0, py |-> 1,
             x |-> <<0>>, u |-> <<0>>, du |-> <<0>>]
Unmapped == [Planar EXCEPT !.py = 2]
Arm      == [n |-> 1, m |-> 2, obs |-> FALSE, px |-> 0, py |-> 0,
             x |-> <<>>, u |-> <<1, 0>>, du |-> <<1>>]
MCModels == {Planar, Unmapped, Arm}
MCMalformed == -1

\* Goals and trajectories one model takes and the other does not; a control horizon
\* past the prediction horizon.
MCShapes   == {<<2, 1>>, <<3, 2>>}
MCAssigned == {<<1, 2>>}

=============================================================================
