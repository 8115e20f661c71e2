---------------------------- MODULE ObstacleSlots ----------------------------
(***************************************************************************)
(* One fill of the obstacle matrix: the moving tracks that get a slot, the *)
(* static objects the local costmap shows around the predicted trajectory, *)
(* their binding from node to node, and the slots they are ranked into.    *)
(* The solver couples the row of a slot at one node with its row at the    *)
(* node before, so a slot must carry one object over the horizon.          *)
(*                                                                         *)
(* Geometry is a finite set of places with a distance D; the fill is one   *)
(* step per node's costmap read and per representative, because the grid   *)
(* lock is taken per node and the costmap may change in between.           *)
(***************************************************************************)
EXTENDS SlotCapacity, Sequences, FiniteSets

CONSTANTS
  Cells,        \* cell centres of the local costmap
  Places,       \* where a node or a track may be; some are off the map
  Far,          \* kObsFarSentinel, the mark of an unfilled row
  D,            \* distance between two places
  Radius,       \* obstacle_cluster_radius_
  Reach,        \* search radius, truncated to max_obstacle_scan_cells_
  Np,           \* horizon
  TrackSet,     \* usable moving tracks a message may hold
  MaxTracks,    \* most of them in one message
  Trajectories, \* the solver's retained trajectory, states 0 .. Np
  Reference     \* the plan reference, states 0 .. Np

Nodes == 0 .. Np - 1
Slots == 0 .. K - 1

ASSUME SizeAssumption == Np \in Nat \ {0} /\ MaxTracks \in Nat
ASSUME PlaceAssumption == Cells \subseteq Places /\ Far \notin Places
ASSUME DistanceAssumption ==
  D \in [Places -> [Places -> Nat]] /\ Radius \in Nat \ {0} /\ Reach \in Nat
ASSUME TrackAssumption ==
  /\ TrackSet \subseteq [now : Places, reach : Nat, ray : [Nodes -> Places]]
  /\ Trajectories \subseteq [0 .. Np -> Places]
  /\ Reference \in [0 .. Np -> Places]

VARIABLES
  phase,      \* "idle", "scan" (before a node's read), "bind" (after it), "done"
  occupied,   \* cells at or above the cost threshold
  nominal,    \* the trajectory the scan centres come from
  tracks,     \* the message's usable moving tracks
  chosen,     \* those with a slot; chosen[j] has slot j - 1
  node,
  candidates, \* what the node's read found
  picked,     \* the node's representatives, nearest first
  objects,    \* distinct static objects, in order of creation
  hits,       \* (node, object, place) sightings
  rows        \* the obstacle matrix, with the owner of each row

scanning == <<node, candidates, picked, objects, hits>>
fill_vars == <<phase, occupied, nominal, tracks, chosen, scanning, rows>>

Unfilled == [owner |-> <<"none", 0>>, at |-> Far]
Least(S) == CHOOSE a \in S : \A b \in S : a <= b

\* The fill's budget of static slots, after the tracks'.
Budget == K - Len(chosen)

Centre == nominal[Least({node + 2, Np})]

-----------------------------------------------------------------------------
(* The moving tracks.                                                      *)

\* Closest approach of the predicted track to the reference.
Priority(t) == Least({D[t.ray[k]][Reference[k + 1]] : k \in Nodes})

\* The tracks of best priority in order of priority, ties as std::sort leaves them.
Selections(ts) ==
  { s \in [1 .. Selected(Cardinality(ts)) -> ts] :
      /\ \A i, j \in DOMAIN s : i < j => s[i] # s[j] /\ Priority(s[i]) <= Priority(s[j])
      /\ \A i \in DOMAIN s : \A t \in ts :
           t \in {s[j] : j \in DOMAIN s} \/ Priority(s[i]) <= Priority(t) }

\* Slot j holds track j at every node.
TrackRows(s) ==
  [k \in Nodes |-> [j \in Slots |->
     IF j < Len(s) THEN [owner |-> <<"track", j>>, at |-> s[j + 1].ray[k]] ELSE Unfilled]]

\* Mutant: every reported track erases its footprint, with or without a slot.
Excluded_AllTracks(c) == \E t \in tracks : D[c][t.now] < t.reach

\* Inside the current footprint of a track that has a slot.
Excluded(c) == \E j \in DOMAIN chosen : D[c][chosen[j].now] < chosen[j].reach

-----------------------------------------------------------------------------
FillInit ==
  /\ phase = "idle" /\ occupied \in SUBSET Cells
  /\ nominal \in Trajectories /\ tracks = {} /\ chosen = <<>>
  /\ node = 0 /\ candidates = {} /\ picked = <<>> /\ objects = <<>> /\ hits = {}
  /\ rows = [k \in Nodes |-> [j \in Slots |-> Unfilled]]

\* The costmap's own thread.  During "bind" the fill reads no cell, so a change
\* there is the same as one just before the next read.
UpdateCostmap ==
  /\ phase = "scan"
  /\ \E c \in Cells : occupied' = (occupied \ {c}) \cup ({c} \ occupied)
  /\ UNCHANGED <<phase, nominal, tracks, chosen, scanning, rows>>

\* Every row starts from the sentinel, the tracks' are written, and the static
\* scan follows if a slot is left.
Begin ==
  /\ phase = "idle"
  /\ \E ts \in {s \in SUBSET TrackSet : IsFiniteSet(s) /\ Cardinality(s) <= MaxTracks} :
     \E s \in Selections(ts) :
       /\ tracks' = ts /\ chosen' = s /\ rows' = TrackRows(s)
       /\ phase' = IF Len(s) < K THEN "scan" ELSE "done"
  /\ UNCHANGED <<occupied, nominal, scanning>>

\* One locked read of the grid; a centre off the map shows nothing.
ScanNode ==
  /\ phase = "scan" /\ node < Np
  /\ candidates' = IF Centre \in Cells
                   THEN {c \in occupied : D[c][Centre] <= Reach /\ ~Excluded(c)}
                   ELSE {}
  /\ picked' = <<>> /\ phase' = "bind"
  /\ UNCHANGED <<occupied, nominal, tracks, chosen, node, objects, hits, rows>>

\* Candidates at least a cluster radius from every representative.
Uncovered ==
  {c \in candidates : \A i \in DOMAIN picked : D[c][picked[i]] >= Radius}

\* The objects a representative at c may continue: not claimed at this node, last
\* seen within the cluster radius.
Continues(c) ==
  {o \in DOMAIN objects : objects[o].last # node /\ D[c][objects[o].at] < Radius}

\* The nearest of them, the oldest on ties; a new object when there is none.
Match(c) ==
  IF Continues(c) = {} THEN Len(objects) + 1
  ELSE CHOOSE o \in Continues(c) : \A p \in Continues(c) :
         \/ D[c][objects[o].at] < D[c][objects[p].at]
         \/ D[c][objects[o].at] = D[c][objects[p].at] /\ o <= p

\* Mutant: an object stays where it was first seen.
Sighted_FirstSeen(o, c) ==
  IF o > Len(objects)
  THEN Append(objects, [at |-> c, best |-> D[c][Centre], first |-> node, last |-> node])
  ELSE [objects EXCEPT ![o].last = node, ![o].best = Least({@, D[c][Centre]})]

Sighted(o, c) ==
  IF o > Len(objects)
  THEN Append(objects, [at |-> c, best |-> D[c][Centre], first |-> node, last |-> node])
  ELSE [objects EXCEPT ![o].at = c, ![o].last = node,
                       ![o].best = Least({@, D[c][Centre]})]

\* The next representative is the nearest candidate left (ties as std::sort
\* leaves them), bound to its object.
Represent(c) ==
  /\ phase = "bind" /\ c \in Uncovered /\ Len(picked) < Budget
  /\ \A d \in Uncovered : D[c][Centre] <= D[d][Centre]
  /\ picked' = Append(picked, c)
  /\ objects' = Sighted(Match(c), c)
  /\ hits' = hits \cup {[node |-> node, object |-> Match(c), at |-> c]}
  /\ UNCHANGED <<phase, occupied, nominal, tracks, chosen, node, candidates, rows>>

NodeBound == phase = "bind" /\ (Uncovered = {} \/ Len(picked) = Budget)

NextNode ==
  /\ NodeBound
  /\ node' = node + 1 /\ phase' = "scan" /\ candidates' = {} /\ picked' = <<>>
  /\ UNCHANGED <<occupied, nominal, tracks, chosen, objects, hits, rows>>

\* Mutant: closest approach first.
Before_Closest(p, o) ==
  objects[p].best < objects[o].best \/ (objects[p].best = objects[o].best /\ p < o)

\* Earliest encounter first, closest approach next, then age.
Before(p, o) ==
  \/ objects[p].first < objects[o].first
  \/ /\ objects[p].first = objects[o].first
     /\ objects[p].best < objects[o].best \/ (objects[p].best = objects[o].best /\ p < o)

\* Mutant: ties in the encounter order share a rank.
RankOf_Tied(o) == Cardinality({p \in DOMAIN objects : objects[p].first < objects[o].first})

RankOf(o)  == Cardinality({p \in DOMAIN objects : Before(p, o)})
Slotted(o) == RankOf(o) < Budget
SlotOf(o)  == Len(chosen) + RankOf(o)

HitsIn(k, j) == {h \in hits : h.node = k /\ Slotted(h.object) /\ SlotOf(h.object) = j}

\* The objects of lowest rank get the slots and are written where they were seen.
WriteSlots ==
  /\ phase = "scan" /\ node = Np
  /\ rows' = [k \in Nodes |-> [j \in Slots |->
                IF HitsIn(k, j) = {} THEN rows[k][j]
                ELSE LET h == CHOOSE g \in HitsIn(k, j) : TRUE
                     IN  [owner |-> <<"object", h.object>>, at |-> h.at]]]
  /\ phase' = "done"
  /\ UNCHANGED <<occupied, nominal, tracks, chosen, scanning>>

\* The matrix is used up by one solve; the next cycle starts over.
NextCycle ==
  /\ phase = "done"
  /\ phase' = "idle" /\ nominal' \in Trajectories /\ tracks' = {} /\ chosen' = <<>>
  /\ node' = 0 /\ candidates' = {} /\ picked' = <<>> /\ objects' = <<>> /\ hits' = {}
  /\ rows' = [k \in Nodes |-> [j \in Slots |-> Unfilled]]
  /\ UNCHANGED occupied

FillNext ==
  \/ UpdateCostmap \/ Begin \/ ScanNode
  \/ \E c \in Cells : Represent(c)
  \/ NextNode \/ WriteSlots \/ NextCycle

FillSpec == FillInit /\ [][FillNext]_fill_vars

-----------------------------------------------------------------------------
\* ProxQP::setC relates a row to the same slot one node earlier (node 0: to the
\* next) when neither holds the sentinel.
Coupled(k, j) == rows[k][j].at # Far /\ rows[k - 1][j].at # Far

\* The two rows the solver's barrier couples belong to one obstacle, and a static
\* one moved less than a cluster radius between them.
SlotCarriesOneObject ==
  phase = "done" => \A k \in 1 .. Np - 1, j \in Slots : Coupled(k, j) =>
    /\ rows[k][j].owner = rows[k - 1][j].owner
    /\ rows[k][j].owner[1] = "object" => D[rows[k][j].at][rows[k - 1][j].at] < Radius

\* No sighting of an object with a slot is overwritten by another: the solver gets
\* every place a slotted object was seen at.
EverySightingWritten ==
  phase = "done" => \A h \in hits : Slotted(h.object) =>
    rows[h.node][SlotOf(h.object)] = [owner |-> <<"object", h.object>>, at |-> h.at]

\* An object is left without a slot only for objects met no later along the
\* trajectory: every static slot is in use by the node it is first seen at.
EarliestEncounterFirst ==
  phase = "done" => \A h \in hits : ~Slotted(h.object) =>
    \A j \in Len(chosen) .. K - 1 : \E k \in 0 .. h.node : rows[k][j].at # Far

\* After a node is bound, an occupied cell within reach is represented, or covered
\* by the row of a track standing on it, or farther than a full set of
\* representatives: a track without a slot does not hide the cells under it.
NothingOverlooked ==
  NodeBound /\ Centre \in Cells =>
    \A c \in occupied : D[c][Centre] <= Reach =>
      \/ \E i \in DOMAIN picked : D[c][picked[i]] < Radius
      \/ \E j \in Slots : /\ rows[node][j].owner = <<"track", j>>
                         /\ D[c][chosen[j + 1].now] < chosen[j + 1].reach
      \/ /\ Len(picked) = Budget
         /\ \A i \in DOMAIN picked : D[picked[i]][Centre] <= D[c][Centre]

=============================================================================
