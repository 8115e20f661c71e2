------------------------ MODULE SimulationNodeProofs ------------------------
(***************************************************************************)
(* Safety of the demo's follower, for every route, tolerance, speed range, *)
(* deceleration, horizon and obstacle motion, whatever the solver returns. *)
(***************************************************************************)
EXTENDS SimulationNode, WellFoundedInduction, TLAPS

-----------------------------------------------------------------------------
(* Integers.                                                               *)

\* A nonempty set of naturals has a least element.
LEMMA Least ==
  ASSUME NEW S \in SUBSET Nat, S # {} PROVE \E x \in S : \A y \in S : x <= y
<1> DEFINE R == OpToRel(<, Nat)
<1>1. \A x, y \in Nat : <<x, y>> \in R <=> x < y
  BY DEF OpToRel
<1>2. IsWellFoundedOn(R, Nat)
  BY NatLessThanWellFounded
<1> HIDE DEF R
<1>3. PICK x \in S : \A y \in S : ~(<<y, x>> \in R)
  BY <1>2, WFMin
<1>4. ASSUME NEW y \in S PROVE x <= y
  <2>1. x \in Nat /\ y \in Nat
    OBVIOUS
  <2>2. ~(y < x)
    BY <1>1, <1>3, <2>1
  <2> QED BY <2>1, <2>2
<1> QED BY <1>4

\* Division with remainder, and the remainders of multiples.
LEMMA Division ==
  ASSUME NEW d \in Nat \ {0}, NEW a \in Int
  PROVE  a % d \in 0 .. d - 1 /\ a \div d \in Int /\ a = (d * (a \div d)) + (a % d)
OBVIOUS

LEMMA Multiple ==
  ASSUME NEW d \in Nat \ {0}, NEW k \in Int PROVE (d * k) % d = 0 /\ (d * k) \div d = k
OBVIOUS

LEMMA Offset ==
  ASSUME NEW d \in Nat \ {0}, NEW k \in Int, NEW r \in 0 .. d - 1
  PROVE  ((d * k) + r) % d = r
OBVIOUS

\* A full period changes no remainder.
LEMMA FullPeriod == ASSUME NEW d \in Nat \ {0}, NEW x \in Nat PROVE (x + d) % d = x % d
<1> DEFINE q == x \div d
           r == x % d
<1>1. r \in 0 .. d - 1 /\ q \in Int /\ x = (d * q) + r
  BY Division
<1> HIDE DEF q, r
<1>2. x + d = (d * (q + 1)) + r
  BY <1>1
<1>3. (x + d) % d = r
  BY <1>1, <1>2, Offset
<1> QED BY <1>3 DEF r

\* One tick and k - 1 nodes ahead are k nodes ahead.
LEMMA OneTickAhead ==
  ASSUME NEW d \in Nat \ {0}, NEW t \in 0 .. d - 1, NEW k \in Nat \ {0}
  PROVE  (((t + 1) % d) + (k - 1)) % d = (t + k) % d
<1>1. CASE t + 1 < d
  <2>1. (t + 1) % d = t + 1
    BY <1>1
  <2> QED BY <2>1
<1>2. CASE t + 1 = d
  <2>1. (t + 1) % d = 0
    BY <1>2
  <2>2. k - 1 \in Nat /\ t + k = (k - 1) + d
    BY <1>2
  <2>3. ((k - 1) + d) % d = (k - 1) % d
    BY <2>2, FullPeriod
  <2>4. (0 + (k - 1)) % d = (k - 1) % d
    BY <2>2
  <2> QED BY <2>1, <2>2, <2>3, <2>4
<1> QED BY <1>1, <1>2

-----------------------------------------------------------------------------
(* Headings.                                                               *)

\* std::remainder() has a value, and it is within half a turn.
LEMMA RemainderIs ==
  ASSUME NEW a \in Int
  PROVE  Remainder(a) \in Headings /\ (a - Remainder(a)) % (2 * Half) = 0
<1> DEFINE f == 2 * Half
           q == a \div f
           s == a % f
           P(r) == /\ (a - r) % f = 0
                   /\ r \in {Half, -Half} => ((a - r) \div f) % 2 = 0
<1>1. Half \in Nat \ {0} /\ f \in Nat \ {0}
  BY SizeAssumption
<1>2. s \in 0 .. f - 1 /\ q \in Int /\ a = (f * q) + s
  BY <1>1, Division
<1>3. \E r \in Headings : P(r)
  <2> HIDE DEF q, s
  <2>1. CASE s < Half
    <3>1. a - s = f * q /\ s \in Headings /\ ~(s \in {Half, -Half})
      BY <1>1, <1>2, <2>1 DEF Headings
    <3> HIDE DEF f
    <3>2. P(s)
      BY <1>1, <1>2, <3>1, Multiple
    <3> QED BY <3>1, <3>2
  <2>2. CASE s > Half
    <3>1. a - (s - f) = f * (q + 1) /\ s - f \in Headings /\ ~(s - f \in {Half, -Half})
      BY <1>1, <1>2, <2>2 DEF Headings
    <3> HIDE DEF f
    <3>2. P(s - f)
      BY <1>1, <1>2, <3>1, Multiple
    <3> QED BY <3>1, <3>2
  <2>3. CASE s = Half
    <3>1. /\ a - Half = f * q /\ Half \in Headings
          /\ a - (-Half) = f * (q + 1) /\ -Half \in Headings
      BY <1>1, <1>2, <2>3 DEF Headings
    <3>2. q % 2 = 0 \/ (q + 1) % 2 = 0
      BY <1>2
    <3> HIDE DEF f
    <3>3. (f * q) % f = 0 /\ (f * q) \div f = q
      BY <1>1, <1>2, Multiple
    <3>4. (f * (q + 1)) % f = 0 /\ (f * (q + 1)) \div f = q + 1
      BY <1>1, <1>2, Multiple
    <3>5. CASE q % 2 = 0
      BY <3>1, <3>3, <3>5
    <3>6. CASE (q + 1) % 2 = 0
      BY <3>1, <3>4, <3>6
    <3> QED BY <3>2, <3>5, <3>6
  <2> QED BY <1>1, <1>2, <2>1, <2>2, <2>3
<1>4. Remainder(a) \in Headings /\ P(Remainder(a))
  BY <1>3 DEF Remainder
<1> QED BY <1>4

\* normalizeAngle() has a value.
LEMMA NormalizedIs ==
  ASSUME NEW a \in Int PROVE Normalized(a) \in 1 - Half .. Half
<1> DEFINE f == 2 * Half
           q == a \div f
           s == a % f
<1>1. Half \in Nat \ {0} /\ f \in Nat \ {0}
  BY SizeAssumption
<1>2. s \in 0 .. f - 1 /\ q \in Int /\ a = (f * q) + s
  BY <1>1, Division
<1>3. \E r \in 1 - Half .. Half : (a - r) % f = 0
  <2> HIDE DEF q, s
  <2>1. CASE s <= Half
    <3>1. a - s = f * q /\ s \in 1 - Half .. Half
      BY <1>1, <1>2, <2>1
    <3> HIDE DEF f
    <3>2. (a - s) % f = 0
      BY <1>1, <1>2, <3>1, Multiple
    <3> QED BY <3>1, <3>2
  <2>2. CASE s > Half
    <3>1. a - (s - f) = f * (q + 1) /\ s - f \in 1 - Half .. Half
      BY <1>1, <1>2, <2>2
    <3> HIDE DEF f
    <3>2. (a - (s - f)) % f = 0
      BY <1>1, <1>2, <3>1, Multiple
    <3> QED BY <3>1, <3>2
  <2> QED BY <1>1, <1>2, <2>1, <2>2
<1> QED BY <1>3 DEF Normalized

-----------------------------------------------------------------------------
(* The route.                                                              *)

LEMMA LastIs ==
  Last \in Nat \ {0} /\ \A i \in 1 .. Last : Waypoints[i] \in [at : Places, th : Int]
<1> DEFINE W == [at : Places, th : Int]
<1>1. Waypoints \in Seq(W) /\ Waypoints # <<>>
  BY WaypointAssumption
<1> HIDE DEF W
<1>2. Len(Waypoints) \in Nat /\ \A i \in 1 .. Len(Waypoints) : Waypoints[i] \in W
  BY <1>1
<1>3. Len(Waypoints) # 0
  BY <1>1
<1> QED BY <1>2, <1>3 DEF Last, W

\* The first index from i on that fails, or the last one.
LEMMA FirstStop ==
  ASSUME NEW i \in Nat, i <= Last, NEW fails \in SUBSET (i .. Last - 1)
  PROVE  \E j \in i .. Last : /\ \A l \in i .. j - 1 : l \notin fails
                              /\ j = Last \/ j \in fails
<1>1. CASE fails = {}
  BY <1>1, LastIs
<1>2. CASE fails # {}
  <2>1. fails \in SUBSET Nat
    OBVIOUS
  <2>2. PICK j \in fails : \A l \in fails : j <= l
    BY <1>2, <2>1, Least
  <2>3. \A l \in i .. j - 1 : l \notin fails
    BY <2>1, <2>2
  <2> QED BY <2>2, <2>3, LastIs
<1> QED BY <1>1, <1>2

\* advanceWaypoint() has a value.
LEMMA AdvancedIs ==
  ASSUME NEW i \in 1 .. Last
  PROVE  /\ Advanced(i) \in i .. Last
         /\ \A l \in i .. Advanced(i) - 1 : Near(pose, l)
         /\ Advanced(i) = Last \/ ~Near(pose, Advanced(i))
<1> DEFINE fails == {l \in i .. Last - 1 : ~Near(pose, l)}
<1>1. PICK j \in i .. Last : /\ \A l \in i .. j - 1 : l \notin fails
                             /\ j = Last \/ j \in fails
  <2>1. i \in Nat /\ i <= Last /\ fails \in SUBSET (i .. Last - 1)
    BY LastIs
  <2> HIDE DEF fails
  <2> QED BY <2>1, FirstStop
<1>2. (\A l \in i .. j - 1 : Near(pose, l)) /\ (j = Last \/ ~Near(pose, j))
  BY <1>1, LastIs
<1> QED BY <1>2 DEF Advanced

\* The history has a next value.
LEMMA ReachedIs ==
  ASSUME route \in 0 .. Last
  PROVE  /\ Reached \in route .. Last
         /\ Reached = Last \/ ~Near(pose, Reached + 1)
<1> DEFINE fails == {l \in route .. Last - 1 : ~Near(pose, l + 1)}
<1>1. PICK j \in route .. Last : /\ \A l \in route .. j - 1 : l \notin fails
                                 /\ j = Last \/ j \in fails
  <2>1. route \in Nat /\ route <= Last /\ fails \in SUBSET (route .. Last - 1)
    BY LastIs
  <2> HIDE DEF fails
  <2> QED BY <2>1, FirstStop
<1>2. \A l \in route + 1 .. j : Near(pose, l)
  <2> SUFFICES ASSUME NEW l \in route + 1 .. j PROVE Near(pose, l)
    OBVIOUS
  <2>1. l - 1 \in route .. j - 1 /\ l - 1 \in route .. Last - 1 /\ (l - 1) + 1 = l
    BY LastIs
  <2> QED BY <1>1, <2>1
<1>3. j = Last \/ ~Near(pose, j + 1)
  BY <1>1
<1> QED BY <1>2, <1>3 DEF Reached

-----------------------------------------------------------------------------
(* Obstacles and the ramp.                                                 *)

LEMMA ObstaclesAre ==
  /\ Len(Obstacles) \in Nat
  /\ \A i \in 1 .. Len(Obstacles) : Obstacles[i] \in [0 .. Period - 1 -> Places]
<1>1. CASE Listed # <<>>
  BY <1>1, ObstacleAssumption DEF Obstacles
<1>2. CASE Listed = <<>> /\ Single = {}
  BY <1>2 DEF Obstacles
<1>3. CASE Listed = <<>> /\ Single # {}
  <2>1. (CHOOSE s \in Single : TRUE) \in Places
    BY <1>3, ObstacleAssumption
  <2>2. Obstacles = << [t \in 0 .. Period - 1 |-> CHOOSE s \in Single : TRUE] >>
    BY <1>3 DEF Obstacles
  <2>3. Len(Obstacles) = 1
    BY <2>2
  <2>4. Obstacles[1] \in [0 .. Period - 1 -> Places]
    BY <2>1, <2>2
  <2> QED BY <2>3, <2>4
<1> QED BY <1>1, <1>2, <1>3

LEMMA FieldType ==
  ASSUME NEW t \in 0 .. Period - 1 PROVE Field(t) \in [Rows -> Places \cup {Far}]
<1> SUFFICES ASSUME NEW r \in Rows, r[2] < Len(Obstacles)
             PROVE  Obstacles[r[2] + 1][(t + r[1]) % Period] \in Places
  BY DEF Field
<1>1. r[1] \in Nat /\ r[2] \in Nat
  BY DEF Rows
<1>2. (t + r[1]) % Period \in 0 .. Period - 1
  <2>1. t + r[1] \in Int /\ Period \in Nat \ {0}
    BY <1>1, SizeAssumption
  <2> QED BY <2>1, Division
<1>3. r[2] + 1 \in 1 .. Len(Obstacles)
  BY <1>1, ObstaclesAre
<1> QED BY <1>2, <1>3, ObstaclesAre

\* The ramp takes a command nearer to zero and not through it.
LEMMA BrakeTowardIs ==
  ASSUME NEW v \in Int, NEW d \in Nat \ {0}
  PROVE  LET b == BrakeToward(v, d)
         IN  /\ b \in Int
             /\ v > 0 => b \in 0 .. v - 1
             /\ v < 0 => b \in v + 1 .. 0
             /\ v = 0 => b = 0
<1>1. v # NaN
  BY CommandAssumption
<1> QED BY <1>1 DEF BrakeToward, Dist

LEMMA DecelIs == ASSUME NEW a \in Axes PROVE Decel(a) \in Nat \ {0}
BY CommandAssumption DEF Decel

-----------------------------------------------------------------------------
(* The invariant: what is published is what a ramp starts from, and the    *)
(* obstacle rows are the field of the tick before.                         *)

RampInv  == published = last_cmd
FieldInv == obs # <<>> => \E t \in 0 .. Period - 1 : obs = Field(t) /\ sim_time = (t + 1) % Period

IInv == TypeOK /\ RampInv /\ FieldInv /\ ArrivedByTheRoute

LEMMA ZeroIs == Zero \in Twists
BY CommandAssumption DEF Zero, Twists, Axes

LEMMA InitInv == Init => IInv
<1> SUFFICES ASSUME Init PROVE IInv
  OBVIOUS
<1>1. TypeOK
  <2>1. Waypoints[1].th \in Int /\ 1 \in 1 .. Last /\ 0 \in 0 .. Last
    BY LastIs
  <2>2. 0 \in 0 .. Period - 1
    BY SizeAssumption
  <2> QED BY <2>1, <2>2, ZeroIs DEF Init, TypeOK
<1>2. RampInv /\ FieldInv /\ ArrivedByTheRoute
  BY LastIs DEF Init, RampInv, FieldInv, ArrivedByTheRoute
<1> QED BY <1>1, <1>2 DEF IInv

\* What every tick computes before its gate.
LEMMA CycleIs ==
  ASSUME IInv, Cycle, sim_time' = (sim_time + 1) % Period
  PROVE  /\ current_wp' \in 1 .. Last /\ arrived' \in BOOLEAN /\ route' \in 0 .. Last
         /\ goal_th' \in Int /\ sim_time' \in 0 .. Period - 1
         /\ obs' \in [Rows -> Places \cup {Far}]
         /\ FieldInv'
         /\ current_wp' - 1 <= route'
         /\ arrived' => route' = Last /\ Near(pose, Last)
<1>0. /\ current_wp \in 1 .. Last /\ route \in 0 .. Last /\ current_wp - 1 <= route
      /\ sim_time \in 0 .. Period - 1 /\ pose \in Poses
      /\ Last \in Nat \ {0} /\ Period \in Nat \ {0}
  BY LastIs, SizeAssumption DEF IInv, TypeOK, ArrivedByTheRoute
<1>1. /\ current_wp' \in current_wp .. Last
      /\ \A l \in current_wp .. current_wp' - 1 : Near(pose, l)
  BY <1>0, AdvancedIs DEF Cycle
<1>2. /\ route' \in route .. Last
      /\ route' = Last \/ ~Near(pose, route' + 1)
  BY <1>0, ReachedIs DEF Cycle
<1>3. current_wp' \in 1 .. Last /\ route' \in 0 .. Last
  BY <1>0, <1>1, <1>2
<1>4. current_wp' - 1 <= route'
  <2>1. PICK w \in 1 .. Last : w = current_wp'
    BY <1>3
  <2>2. PICK r \in route .. Last : r = route'
    BY <1>2
  <2>3. CASE r < w - 1
    <3>1. r + 1 \in current_wp .. w - 1 /\ r # Last
      BY <1>0, <2>3
    <3> QED BY <1>1, <1>2, <2>1, <2>2, <3>1
  <2>4. CASE w - 1 <= r
    BY <2>1, <2>2, <2>4
  <2> QED BY <1>0, <2>3, <2>4
<1>5. arrived' => route' = Last /\ Near(pose, Last)
  <2>1. CASE arrived
    BY <1>0, <1>2, <2>1 DEF IInv, ArrivedByTheRoute
  <2>2. CASE ~arrived
    <3> SUFFICES ASSUME current_wp' = Last, Near(pose, Last) PROVE route' = Last
      BY <2>2 DEF Cycle
    <3>1. CASE route' = Last - 1
      BY <1>0, <1>2, <3>1
    <3> QED BY <1>0, <1>3, <1>4, <3>1
  <2> QED BY <2>1, <2>2
<1>6. arrived' \in BOOLEAN
  BY DEF Cycle, IInv, TypeOK
<1>7. goal_th' \in Int
  <2>1. Waypoints[current_wp'].th - pose.th \in Int /\ pose.th \in Int
    BY <1>0, <1>3, LastIs, SizeAssumption DEF Poses
  <2>2. Remainder(Waypoints[current_wp'].th - pose.th) \in Int
    BY <2>1, RemainderIs, SizeAssumption DEF Headings
  <2> QED BY <2>1, <2>2 DEF Cycle, GoalHeading
<1>8. sim_time' \in 0 .. Period - 1
  BY <1>0, Division
<1>9. obs' = Field(sim_time)
  BY DEF Cycle
<1>10. obs' \in [Rows -> Places \cup {Far}]
  BY <1>0, <1>9, FieldType
<1>11. FieldInv'
  BY <1>0, <1>9 DEF FieldInv
<1> QED BY <1>3, <1>4, <1>5, <1>6, <1>7, <1>8, <1>10, <1>11

\* A tick that does not drive: the command is zero, or a step of the ramp.
LEMMA RampIs ==
  ASSUME IInv, Ramp
  PROVE  /\ last_cmd' \in Twists /\ published' = last_cmd'
         /\ \A a \in Axes : /\ published'[a] * published[a] >= 0
                            /\ \/ Dist(published'[a], 0) < Dist(published[a], 0)
                               \/ published'[a] = 0
<1>1. last_cmd \in Twists /\ published = last_cmd /\ published' = last_cmd'
  BY DEF IInv, TypeOK, RampInv, Ramp
<1>2. last_cmd' = [a \in Axes |-> BrakeToward(last_cmd[a], Decel(a))]
  BY DEF Ramp
<1>3. ASSUME NEW a \in Axes
      PROVE  /\ last_cmd'[a] \in Speeds[a]
             /\ last_cmd'[a] * last_cmd[a] >= 0
             /\ Dist(last_cmd'[a], 0) < Dist(last_cmd[a], 0) \/ last_cmd'[a] = 0
  <2> DEFINE v == last_cmd[a]
             b == BrakeToward(v, Decel(a))
  <2>1. v \in Speeds[a] /\ v \in Int
    BY <1>1, CommandAssumption DEF Twists
  <2>2. last_cmd'[a] = b
    BY <1>2
  <2>3. /\ b \in Int
        /\ v > 0 => b \in 0 .. v - 1
        /\ v < 0 => b \in v + 1 .. 0
        /\ v = 0 => b = 0
    BY <2>1, BrakeTowardIs, DecelIs
  <2>4. 0 .. v \subseteq Speeds[a] /\ v .. 0 \subseteq Speeds[a] /\ 0 \in Speeds[a]
    BY <2>1, CommandAssumption
  <2> HIDE DEF v, b
  <2>5. b \in Speeds[a]
    BY <2>1, <2>3, <2>4
  <2>6. b * v >= 0
    BY <2>1, <2>3
  <2>7. Dist(b, 0) < Dist(v, 0) \/ b = 0
    BY <2>1, <2>3 DEF Dist
  <2> QED BY <2>2, <2>5, <2>6, <2>7 DEF v
<1>4. last_cmd' \in Twists
  <2>1. \A a \in Axes : last_cmd'[a] \in Speeds["lin"] \cup Speeds["ang"]
    BY <1>3 DEF Axes
  <2> QED BY <1>2, <1>3, <2>1 DEF Twists
<1> QED BY <1>1, <1>3, <1>4

\* An accepted plan is a finite command and a finite pose.
LEMMA AcceptedIs ==
  ASSUME NEW plan \in Plans, Accepted(plan) PROVE plan.u0 \in Twists /\ plan.x1 \in Poses
BY DEF Plans, Accepted

LEMMA StepInv == IInv /\ Step => IInv'
<1> SUFFICES ASSUME IInv, Step PROVE IInv'
  OBVIOUS
<1>1. PICK plan \in Plans : converged' = Accepted(plan) /\ (Park \/ Brake \/ Drive(plan))
  BY DEF Step
<1>2. Cycle /\ sim_time' = (sim_time + 1) % Period
  BY <1>1 DEF Step, Park, Brake, Drive, Tock
<1>3. /\ current_wp' \in 1 .. Last /\ arrived' \in BOOLEAN /\ route' \in 0 .. Last
      /\ goal_th' \in Int /\ sim_time' \in 0 .. Period - 1
      /\ obs' \in [Rows -> Places \cup {Far}]
      /\ FieldInv'
      /\ current_wp' - 1 <= route'
      /\ arrived' => route' = Last /\ Near(pose, Last)
  BY <1>2, CycleIs
<1>4. converged' \in BOOLEAN
  BY <1>1 DEF Accepted
<1>5. /\ pose' \in Poses /\ last_cmd' \in Twists /\ published' = last_cmd'
      /\ arrived' => UNCHANGED pose /\ published' = Zero
  <2>1. CASE Park
    BY <2>1, ZeroIs DEF Park, IInv, TypeOK
  <2>2. CASE Brake
    BY <2>2, RampIs DEF Brake, Parked, IInv, TypeOK
  <2>3. CASE Drive(plan)
    <3>1. plan.u0 \in Twists /\ plan.x1 \in Poses /\ plan.x1 # NaN
      BY <1>1, <2>3, AcceptedIs, CommandAssumption DEF Drive
    <3>2. plan.x1.th \in Int
      BY <3>1, SizeAssumption DEF Poses
    <3>3. Normalized(plan.x1.th) \in -Half - 1 .. Half + 1
      BY <3>2, NormalizedIs, SizeAssumption
    <3>4. pose' = [plan.x1 EXCEPT !.th = Normalized(plan.x1.th)]
      BY <2>3, <3>1 DEF Drive
    <3>5. pose' \in Poses
      BY <3>1, <3>3, <3>4 DEF Poses
    <3> QED BY <2>3, <3>1, <3>5 DEF Drive, Parked
  <2> QED BY <1>1, <2>1, <2>2, <2>3
<1>6. TypeOK'
  BY <1>3, <1>4, <1>5 DEF TypeOK
<1>7. ArrivedByTheRoute'
  <2>1. arrived' => Near(pose', Last)
    BY <1>3, <1>5
  <2> QED BY <1>3, <1>5, <2>1 DEF ArrivedByTheRoute
<1> QED BY <1>3, <1>5, <1>6, <1>7 DEF IInv, RampInv

LEMMA StutterInv == IInv /\ UNCHANGED vars => IInv'
<1> SUFFICES ASSUME IInv, UNCHANGED vars PROVE IInv'
  OBVIOUS
<1>1. TypeOK' /\ RampInv' /\ FieldInv'
  BY DEF IInv, vars, TypeOK, RampInv, FieldInv
<1>2. ArrivedByTheRoute'
  BY DEF IInv, vars, ArrivedByTheRoute, Near
<1> QED BY <1>1, <1>2 DEF IInv

LEMMA Inductive == Spec => []IInv
BY InitInv, StepInv, StutterInv, PTL DEF Spec

-----------------------------------------------------------------------------
\* Robot, commands and clock stay finite and within the model's values.
THEOREM DemoTypeCorrect == Spec => []TypeOK
<1>1. IInv => TypeOK BY DEF IInv
<1> QED BY <1>1, Inductive, PTL

\* The node believes it has arrived only by the route, at rest.
THEOREM ArrivalCorrect == Spec => []ArrivedByTheRoute
<1>1. IInv => ArrivedByTheRoute BY DEF IInv
<1> QED BY <1>1, Inductive, PTL

\* Arrival is final.
THEOREM ParkingCorrect == Spec => ParkedForGood
<1>1. IInv /\ [Step]_vars => [arrived => arrived' /\ UNCHANGED pose /\ published' = Zero]_vars
  <2> SUFFICES ASSUME IInv, Step, arrived
               PROVE  arrived' /\ UNCHANGED pose /\ published' = Zero
    OBVIOUS
  <2>1. arrived'
    BY DEF Step, Cycle, IInv, TypeOK
  <2>2. Park
    BY <2>1 DEF Step, Brake, Drive, Parked
  <2> QED BY <2>1, <2>2 DEF Park
<1> QED BY <1>1, Inductive, PTL DEF Spec, ParkedForGood

\* A solve that is not accepted slows the robot down, on every axis and for every
\* deceleration.
THEOREM FailuresCorrect == Spec => FailuresSlowDown
<1> DEFINE A == ~converged' =>
                  /\ UNCHANGED pose
                  /\ \A a \in Axes :
                       /\ published'[a] * published[a] >= 0
                       /\ Dist(published'[a], 0) < Dist(published[a], 0) \/ published'[a] = 0
<1>1. IInv /\ [Step]_vars => [A]_vars
  <2> SUFFICES ASSUME IInv, Step, ~converged' PROVE A
    OBVIOUS
  <2>1. Park \/ Brake
    BY DEF Step, Drive
  <2>2. CASE Park
    <3>1. \A a \in Axes : published'[a] = 0 /\ published[a] \in Int
      BY <2>2, CommandAssumption DEF Park, Zero, IInv, TypeOK, Twists
    <3>2. \A a \in Axes : published'[a] * published[a] >= 0
      BY <3>1
    <3> QED BY <2>2, <3>1, <3>2 DEF Park
  <2>3. CASE Brake
    BY <2>3, RampIs DEF Brake
  <2> QED BY <2>1, <2>2, <2>3
<1> QED BY <1>1, Inductive, PTL DEF Spec, FailuresSlowDown

\* Every solve sees the obstacles where the one before expected them.
THEOREM FieldCorrect == Spec => FieldShifts
<1> DEFINE A == obs # <<>> => \A r \in Rows : r[1] > 0 => obs'[<<r[1] - 1, r[2]>>] = obs[r]
<1>1. IInv /\ [Step]_vars => [A]_vars
  <2> SUFFICES ASSUME IInv, Step, obs # <<>>, NEW r \in Rows, r[1] > 0
               PROVE  obs'[<<r[1] - 1, r[2]>>] = obs[r]
    OBVIOUS
  <2>1. PICK t \in 0 .. Period - 1 : obs = Field(t) /\ sim_time = (t + 1) % Period
    BY DEF IInv, FieldInv
  <2>2. obs' = Field(sim_time)
    BY DEF Step, Cycle
  <2> DEFINE k == r[1]
             i == r[2]
  <2>3. k \in 1 .. Np - 1 /\ <<k - 1, i>> \in Rows /\ r = <<k, i>>
    BY SizeAssumption DEF Rows
  <2> HIDE DEF k, i
  <2>4. (sim_time + (k - 1)) % Period = (t + k) % Period
    <3>1. k \in Nat \ {0} /\ Period \in Nat \ {0}
      BY <2>3, SizeAssumption
    <3>2. (((t + 1) % Period) + (k - 1)) % Period = (t + k) % Period
      BY <3>1, OneTickAhead
    <3> QED BY <2>1, <3>2
  <2>5. obs'[<<k - 1, i>>] = IF i < Len(Obstacles)
                             THEN Obstacles[i + 1][(sim_time + (k - 1)) % Period] ELSE Far
    BY <2>2, <2>3 DEF Field
  <2>6. obs[r] = IF i < Len(Obstacles) THEN Obstacles[i + 1][(t + k) % Period] ELSE Far
    BY <2>1, <2>3 DEF Field, k, i
  <2> QED BY <2>4, <2>5, <2>6 DEF k, i
<1> QED BY <1>1, Inductive, PTL DEF Spec, FieldShifts

\* The heading error never goes the long way round.
THEOREM TurnCorrect == Spec => ShortestTurn
<1> DEFINE A == /\ Dist(goal_th', pose.th) <= Half
                /\ (goal_th' - Waypoints[current_wp'].th) % (2 * Half) = 0
<1>1. IInv /\ [Step]_vars => [A]_vars
  <2> SUFFICES ASSUME IInv, Step PROVE A
    OBVIOUS
  <2>1. current_wp' \in 1 .. Last /\ pose.th \in Int
    BY StepInv, SizeAssumption DEF IInv, TypeOK, Poses
  <2> DEFINE w == Waypoints[current_wp'].th
             e == w - pose.th
             f == 2 * Half
  <2>2. w \in Int /\ e \in Int /\ Half \in Nat \ {0} /\ f \in Nat \ {0}
    BY <2>1, LastIs, SizeAssumption
  <2>3. Remainder(e) \in -Half .. Half /\ (e - Remainder(e)) % f = 0
    BY <2>2, RemainderIs DEF Headings
  <2>4. goal_th' = pose.th + Remainder(e)
    BY DEF Step, Cycle, GoalHeading
  <2> DEFINE x == e - Remainder(e)
             q == x \div f
  <2>5. Dist(goal_th', pose.th) <= Half
    BY <2>1, <2>2, <2>3, <2>4 DEF Dist
  <2>6. goal_th' - w = -x /\ x \in Int
    BY <2>1, <2>2, <2>3, <2>4
  <2>7. (-x) % f = 0
    <3>0. x % f = 0
      BY <2>3
    <3> HIDE DEF x, f
    <3>1. q \in Int /\ x = f * q
      <4>1. q \in Int /\ x = (f * q) + (x % f)
        BY <2>2, <2>6, Division
      <4> QED BY <2>2, <3>0, <4>1
    <3> HIDE DEF q
    <3>2. -x = f * (-q)
      BY <2>2, <3>1
    <3> QED BY <2>2, <3>1, <3>2, Multiple
  <2> QED BY <2>5, <2>6, <2>7
<1> QED BY <1>1, Inductive, PTL DEF Spec, ShortestTurn

=============================================================================
