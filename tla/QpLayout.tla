------------------------------ MODULE QpLayout ------------------------------
(***************************************************************************)
(* Where ProxQP writes: the decision vector (states, controls, slacks),    *)
(* the equality rows of setE() and the inequality rows of setC() and       *)
(* setd().  A problem p has the dimensions n, m, np, nc, the obstacle      *)
(* slots k per node (0 when avoidance is inactive), the state indices pos  *)
(* of the planar position, whether the barrier is coupled (cbf_gamma < 1), *)
(* and for each kind of bound the indices it is declared on, in order of   *)
(* declaration.                                                            *)
(***************************************************************************)
EXTENDS Integers, Sequences

UStart(p) == (p.np + 1) * p.n
WStart(p) == UStart(p) + p.nc * p.m
Columns(p) == 0 .. WStart(p) + p.np * p.k - 1

Repeat(count, size) == [i \in 1 .. count |-> size]

\* Mutant: the rate rows of the later nodes are as many as the controls.
BlockSizes_RatePerNode(p) ==
  <<Len(p.du)>> \o Repeat(Len(p.x), p.np + 1) \o Repeat(Len(p.u), p.nc)
    \o Repeat(Len(p.du), p.nc) \o (IF p.k > 0 THEN Repeat(2, p.np * p.k) ELSE <<>>)

\* One block of rows for the first control's rate, then one per bound, then the
\* obstacle rows and the slack rows.
BlockSizes(p) ==
  <<Len(p.du)>> \o Repeat(Len(p.x), p.np + 1) \o Repeat(Len(p.u), p.nc)
    \o Repeat(Len(p.du), p.nc - 1) \o (IF p.k > 0 THEN Repeat(2, p.np * p.k) ELSE <<>>)

\* ineq_idx, the running sum: End(p, b) is the row after block b, End(p, 0) the first.
Ends(p) ==
  LET sizes == BlockSizes(p)
      ineq_idx[b \in 0 .. Len(sizes)] == IF b = 0 THEN 0 ELSE ineq_idx[b - 1] + sizes[b]
  IN  ineq_idx
End(p, b)    == Ends(p)[b]
RowsOf(p, b) == End(p, b - 1) .. End(p, b) - 1
InequalityRows(p) == 0 .. End(p, Len(BlockSizes(p))) - 1

\* The blocks of the state, control and rate bounds, and of the obstacle rows.
XBlock(j)       == 1 + j
UBlock(p, j)    == 1 + Len(p.x) + j
RateBlock(p, j) == 1 + Len(p.x) + Len(p.u) + j
ObsBlock(p)     == 2 + Len(p.x) + Len(p.u) + Len(p.du)

-----------------------------------------------------------------------------
(* The positions setC() writes.                                            *)

FirstRate(p) == {<<j - 1, UStart(p) + p.du[j]>> : j \in DOMAIN p.du}

StateBounds(p) ==
  UNION { {<<r, p.x[j] + p.n * (r - End(p, j))>> : r \in RowsOf(p, XBlock(j))} :
          j \in DOMAIN p.x }

ControlBounds(p) ==
  UNION { LET b == UBlock(p, j)
          IN  {<<r, UStart(p) + p.u[j] + p.m * (r - End(p, b - 1))>> : r \in RowsOf(p, b)} :
          j \in DOMAIN p.u }

RateBounds(p) ==
  UNION { LET b == RateBlock(p, j)
              Col(r) == UStart(p) + p.du[j] + p.m * (r - End(p, b - 1))
          IN  {<<r, Col(r)>> : r \in RowsOf(p, b)} \cup
              {<<r, Col(r) + p.m>> : r \in RowsOf(p, b)} :
          j \in DOMAIN p.du }

\* Row s of the obstacle block is slot s % k of node s \div k and constrains the
\* state after that node.
NodeOf(p, s) == s \div p.k
Distances(p) ==
  UNION { LET first == End(p, ObsBlock(p) - 1)
              col   == p.n * (NodeOf(p, s) + 1)
          IN  {<<first + s, col + i>> : i \in p.pos} \cup {<<first + s, WStart(p) + s>>} :
          s \in 0 .. p.np * p.k - 1 }

Slacks(p) ==
  {<<End(p, ObsBlock(p)) + s, WStart(p) + s>> : s \in 0 .. p.np * p.k - 1}

\* Mutant: the coupling is written only where both rows hold an obstacle.
Couplings_WhereFilled(p, coupled) ==
  UNION { {<<End(p, ObsBlock(p) - 1) + s, p.n * NodeOf(p, s) + i>> : i \in p.pos} :
          s \in coupled }

\* The gradient at the node before, for every node but the first: zero where the
\* slot is unfilled at either node (`coupled' are the others), but written.
Couplings(p, coupled) ==
  UNION { {<<End(p, ObsBlock(p) - 1) + s, p.n * NodeOf(p, s) + i>> : i \in p.pos} :
          s \in IF p.barrier THEN p.k .. p.np * p.k - 1 ELSE {} }

Written(p, coupled) ==
  FirstRate(p) \cup StateBounds(p) \cup ControlBounds(p) \cup RateBounds(p) \cup
  (IF p.k > 0 THEN Distances(p) \cup Slacks(p) \cup Couplings(p, coupled) ELSE {})

-----------------------------------------------------------------------------
(* The positions setE() writes: the first state is the pose, each later    *)
(* one follows from the state before it and its control, the last control  *)
(* held past the control horizon.                                          *)

Block(rows, row, cols, col) ==
  {<<row + i, col + j>> : i \in 0 .. rows - 1, j \in 0 .. cols - 1}

ControlOf(p, node) == IF node < p.nc THEN node ELSE p.nc - 1

Dynamics(p) ==
  Block(p.n, 0, p.n, 0) \cup
  UNION { LET row == p.n * (k + 1)
          IN  Block(p.n, row, 2 * p.n, p.n * k) \cup
              Block(p.n, row, p.m, UStart(p) + p.m * ControlOf(p, k)) :
          k \in 0 .. p.np - 1 }

EqualityRows(p) == 0 .. p.n * (p.np + 1) - 1

=============================================================================
