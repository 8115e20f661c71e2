----------------------------- MODULE Clustering -----------------------------
(***************************************************************************)
(* cluster_points(): one range scan into objects.                          *)
(*                                                                         *)
(* A sweep has N beams round a full turn, in order of bearing.  A scan is  *)
(* the set of beams that returned a range in the window.  Two returns are  *)
(* within cluster_gap when their beams are neighbours and no Jump, a step  *)
(* in range, lies between them.  A segment is the set of its beams; its    *)
(* centroid and its radius are counted in half beams.                      *)
(***************************************************************************)
EXTENDS Integers, FiniteSets

CONSTANTS
  N,
  Jumps,        \* beams b with a step in range between b and the next
  MinPoints, MaxClusters,
  MaxRadius     \* 0: no limit

Beams  == 0 .. N - 1
Places == 0 .. 2 * N - 1

ASSUME SweepAssumption == N \in Nat \ {0, 1} /\ Jumps \subseteq Beams
ASSUME ClusterAssumption ==
  MinPoints \in Nat \ {0} /\ MaxClusters \in Nat \ {0} /\ MaxRadius \in Nat

Adjacent(b, c) == c = (b + 1) % N /\ b \notin Jumps

First(s) == CHOOSE b \in s : \A c \in s : b <= c
Final(s) == CHOOSE b \in s : \A c \in s : c <= b

\* Sequential segmentation: a return opens a segment unless the one before it in
\* the sweep is adjacent.
Opens(s)    == {b \in s : b = First(s) \/ ~(b - 1 \in s /\ Adjacent(b - 1, b))}
Segment(s, b) == {c \in s : b <= c /\ \A o \in Opens(s) : o <= b \/ c < o}
Segments(s) == {Segment(s, b) : b \in Opens(s)}

\* Mutant: the two ends of the sweep are never compared.
Wraps_Never(s) == FALSE

\* The sweep's last and first returns are adjacent, in different segments.
Wraps(s) == Cardinality(Segments(s)) >= 2 /\ Adjacent(Final(s), First(s))

\* The seam splice.
Objects(s) ==
  IF s = {} THEN {}
  ELSE IF ~Wraps(s) THEN Segments(s)
  ELSE LET ends == {g \in Segments(s) : First(s) \in g \/ Final(s) \in g}
       IN (Segments(s) \ ends) \cup {UNION ends}

\* A segment's beams run without a hole from its start, across the seam or not.
StartOf(g) ==
  IF g = Beams THEN 0 ELSE CHOOSE b \in g : (b - 1) % N \notin g
Centroid(g) == (2 * StartOf(g) + Cardinality(g) - 1) % (2 * N)
RadiusOf(g) == Cardinality(g) - 1

Kept(s) == {g \in Objects(s) : /\ Cardinality(g) >= MinPoints
                               /\ MaxRadius > 0 => RadiusOf(g) <= MaxRadius}

\* What cluster_points() may return: the largest MaxClusters, ties left open.
Reports(s) ==
  IF Cardinality(Kept(s)) <= MaxClusters THEN {Kept(s)}
  ELSE {r \in SUBSET Kept(s) :
          /\ Cardinality(r) = MaxClusters
          /\ \A g \in r, h \in Kept(s) \ r : Cardinality(g) >= Cardinality(h)}

=============================================================================
