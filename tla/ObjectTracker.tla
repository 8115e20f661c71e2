---------------------------- MODULE ObjectTracker ----------------------------
(***************************************************************************)
(* Tracker: scans in, tracks with a life of their own out.                 *)
(*                                                                         *)
(* A place is a bearing at one range.  A filter's prediction is any place  *)
(* within Wobble of the track when time has passed, and the track's own    *)
(* place when none has; an update, which weighs two motion models anew,    *)
(* ends anywhere Pulls allows from the measurement.  hits counts up to     *)
(* ConfirmCount, where the code stops telling values apart.                *)
(***************************************************************************)
EXTENDS Clustering, Sequences

CONSTANTS
  Gate,         \* association_gate, in half beams
  ConfirmCount, DropCount, MaxTracks,
  Wobble,       \* how far a prediction moves a track
  Pulls,        \* where an update may end, in half beams from the measurement
  FirstScans,   \* scans after a reset
  Scans,        \* scans after another one
  Stamps,       \* stamps of scans, in no order
  MaxRewound,   \* bound: total of the steps back in time a track lives through
  MaxId,        \* bound on ids between two resets
  None

ASSUME TrackerAssumption ==
  /\ Gate \in Nat /\ ConfirmCount \in Nat \ {0} /\ DropCount \in Nat
  /\ MaxTracks \in Nat \ {0} /\ Wobble \in Nat /\ MaxRewound \in Nat /\ MaxId \in Nat
  /\ Pulls \subseteq Int
ASSUME InputAssumption ==
  /\ FirstScans \subseteq SUBSET Beams /\ Scans \subseteq SUBSET Beams
  /\ Stamps \subseteq Nat /\ None \notin Nat

VARIABLES
  scan,        \* the last one
  clusters,    \* what clustering made of it
  last_stamp,  \* None: no origin
  tracks,      \* by id
  next_id

vars == <<scan, clusters, last_stamp, tracks, next_id>>

Live == DOMAIN tracks

\* History: a track also carries `clock', the time its state is predicted to,
\* `rewound', the total of the steps back since its birth, and `seen', whether
\* each of the last scans matched it; `earned', whether ConfirmCount in a row did.
Window == IF ConfirmCount > DropCount THEN ConfirmCount ELSE DropCount + 1

Dist(a, b) ==
  LET d == IF a <= b THEN b - a ELSE a - b IN IF 2 * d <= 2 * N THEN d ELSE 2 * N - d

-----------------------------------------------------------------------------
(* Prediction.                                                             *)

\* Mutant: a step back in time is taken for one forward.
Elapsed_Absolute(z) ==
  IF last_stamp = None THEN 0
  ELSE IF z >= last_stamp THEN z - last_stamp ELSE last_stamp - z

Elapsed(z) == IF last_stamp = None \/ z < last_stamp THEN 0 ELSE z - last_stamp

StepBack(z) == IF last_stamp = None \/ z >= last_stamp THEN 0 ELSE last_stamp - z

Predictions(dt) ==
  {p \in [Live -> Places] :
     \A t \in Live : Dist(p[t], tracks[t].at) <= IF dt > 0 THEN Wobble ELSE 0}

-----------------------------------------------------------------------------
(* Association: closest first among the pairs within the gate, ties open.  *)

\* Mutant: only confirmed tracks are matched.
Pairs_ConfirmedOnly(p, C) ==
  {q \in Live \X C : tracks[q[1]].confirmed /\ Dist(p[q[1]], Centroid(q[2])) <= Gate}

Pairs(p, C) == {q \in Live \X C : Dist(p[q[1]], Centroid(q[2])) <= Gate}

\* Mutant: a pair is taken although a part of it is.
Clash_TrackOnly(q, r) == q[1] = r[1]

Clash(q, r) == q[1] = r[1] \/ q[2] = r[2]

Associations(p, C) ==
  {M \in SUBSET Pairs(p, C) :
     /\ \A q, r \in M : Clash(q, r) => q = r
     /\ \A q \in Pairs(p, C) \ M : \E r \in M :
          /\ Clash(q, r)
          /\ Dist(p[r[1]], Centroid(r[2])) <= Dist(p[q[1]], Centroid(q[2]))}

-----------------------------------------------------------------------------
(* The life of a track.                                                    *)

Least(a, b) == IF a <= b THEN a ELSE b
Log(t, b) == LET s == Append(t.seen, b)
             IN IF Len(s) > Window THEN SubSeq(s, Len(s) - Window + 1, Len(s)) ELSE s
InARow(s, k, b) == Len(s) >= k /\ \A i \in Len(s) - k + 1 .. Len(s) : s[i] = b

\* Mutant: a miss leaves the hits.
HitsAfterMiss_Kept(t) == t.hits

HitsAfterMiss(t) == 0

Hit(t, at) ==
  [t EXCEPT !.at = at, !.hits = Least(@ + 1, ConfirmCount), !.misses = 0,
            !.confirmed = @ \/ t.hits + 1 >= ConfirmCount,
            !.seen = Log(t, TRUE), !.earned = @ \/ InARow(Log(t, TRUE), ConfirmCount, TRUE)]

Miss(t, at) ==
  [t EXCEPT !.at = at, !.hits = HitsAfterMiss(t), !.misses = @ + 1, !.seen = Log(t, FALSE)]

Aged(t, z) == [t EXCEPT !.clock = @ + Elapsed(z), !.rewound = @ + StepBack(z)]

Dies(t) == t.misses > DropCount

Birth(g, z) ==
  [at |-> Centroid(g), hits |-> 1, misses |-> 0, confirmed |-> ConfirmCount = 1,
   clock |-> z, rewound |-> 0, seen |-> <<TRUE>>, earned |-> ConfirmCount = 1]

\* The measurements without a track, as many as there is room for, in any order.
Births(free, room) ==
  LET k == Least(Cardinality(free), room)
  IN {b \in [1 .. k -> free] : \A i, j \in 1 .. k : b[i] = b[j] => i = j}

Room(left) == MaxTracks - Least(MaxTracks, Cardinality(left))

-----------------------------------------------------------------------------
\* What a scan matched, in M, and where its tracks end.
Met(M, t) == \E q \in M : q[1] = t
Measured(M, t) == Centroid((CHOOSE q \in M : q[1] = t)[2])
Carried(p, M, pull, z, t) ==
  IF Met(M, t)
  THEN Hit(Aged(tracks[t], z), (Measured(M, t) + pull[t]) % (2 * N))
  ELSE Miss(Aged(tracks[t], z), p[t])
Left(p, M, pull, z) == {t \in Live : ~Dies(Carried(p, M, pull, z, t))}
Free(M, C) == {g \in C : \A q \in M : q[2] # g}
NewIds(b) == next_id .. next_id + Len(b) - 1

Update(s, z) ==
  /\ \A t \in Live : tracks[t].rewound + StepBack(z) <= MaxRewound
  /\ scan' = s /\ last_stamp' = z
  /\ clusters' \in Reports(s)
  /\ \E p \in Predictions(Elapsed(z)) : \E M \in Associations(p, clusters') :
       \E pull \in [Live -> Pulls] :
         LET left == Left(p, M, pull, z)
         IN \E b \in Births(Free(M, clusters'), Room(left)) :
              /\ next_id + Len(b) <= MaxId
              /\ next_id' = next_id + Len(b)
              /\ tracks' = [t \in left \cup NewIds(b) |->
                              IF t \in left THEN Carried(p, M, pull, z, t)
                              ELSE Birth(b[t - next_id + 1], z)]

Reset ==
  /\ scan' = {} /\ clusters' = {}
  /\ last_stamp' = None /\ tracks' = <<>> /\ next_id' = 0

Init == scan = {} /\ clusters = {} /\ last_stamp = None /\ tracks = <<>> /\ next_id = 0

Scan == \E s \in IF last_stamp = None THEN FirstScans ELSE Scans, z \in Stamps : Update(s, z)

Next == Scan \/ Reset

Spec == Init /\ [][Next]_vars

-----------------------------------------------------------------------------
(* Properties.                                                             *)

\* Two returns belong to one object when a chain of adjacent returns joins them, in
\* either direction round the sweep.
Chain(s, b, k) == \A i \in 0 .. k - 1 :
  /\ (b + i) % N \in s /\ (b + i + 1) % N \in s
  /\ Adjacent((b + i) % N, (b + i + 1) % N)
SameObject(s, b, c) == \E k \in 0 .. N - 1 :
  (Chain(s, b, k) /\ (b + k) % N = c) \/ (Chain(s, c, k) /\ (c + k) % N = b)

\* Whatever the scan, no object reaches the tracker in two parts and no two as one,
\* wherever the sweep starts: clusters are whole objects, and a scan that has room
\* for them and none too small or too large reports every return.
ObjectsStayWhole ==
  /\ \A g \in clusters : g # {} /\ \A b \in g : g = {c \in scan : SameObject(scan, b, c)}
  /\ \A b \in scan \ UNION clusters :
       LET k == Cardinality({c \in scan : SameObject(scan, b, c)})
       IN \/ k < MinPoints
          \/ MaxRadius > 0 /\ k - 1 > MaxRadius
          \/ Cardinality(clusters) = MaxClusters /\ \A g \in clusters : Cardinality(g) >= k

\* A track is published as confirmed exactly when ConfirmCount scans in a row matched
\* it at some time in its life, and lives until more than DropCount in a row did not.
ConfirmedWhenEarned ==
  \A t \in Live : /\ tracks[t].confirmed = tracks[t].earned
                  /\ ~InARow(tracks[t].seen, DropCount + 1, FALSE)

\* A track's state is predicted to the scan's stamp plus every step back in time it
\* has lived through: a stamp that goes back costs its length once, whatever comes
\* between, and is never made up.
ClockAheadByRewinds ==
  \A t \in Live : tracks[t].clock = last_stamp + tracks[t].rewound

\* A scan matches or starts at most one track for each of its objects, and one for
\* every object while there is room, the room of the tracks it drops included; and
\* there are never more tracks than MaxTracks.
OneTrackPerObject ==
  [][LET met == {t \in DOMAIN tracks' : tracks'[t].misses = 0}
     IN /\ Cardinality(met) <= Cardinality(clusters')
        /\ Cardinality(DOMAIN tracks') <= MaxTracks
        /\ Cardinality(DOMAIN tracks') < MaxTracks => Cardinality(met) = Cardinality(clusters')
    ]_vars

\* An object and a track that are each other's only neighbours stay together,
\* however the filter predicts within Wobble and wherever its updates end: the track
\* lives on and is not renamed, matched by a scan that has its object and no other.
Beyond(t, g) == Dist(tracks[t].at, Centroid(g)) > Gate + Wobble
KeepsItsTrack ==
  [][\A t \in Live, g \in clusters' :
       /\ Dist(tracks[t].at, Centroid(g)) + Wobble <= Gate
       /\ \A h \in clusters' \ {g} : Beyond(t, h)
       /\ \A u \in Live \ {t} : Beyond(u, g)
       => t \in DOMAIN tracks' /\ tracks'[t].misses = 0]_vars

=============================================================================
