--------------------------- MODULE SimulationNode ---------------------------
(***************************************************************************)
(* The closed-loop demo: on every timer tick the node picks its waypoint,  *)
(* solves, and drives, brakes or parks the robot it simulates.             *)
(*                                                                         *)
(* Places lie on a line, with their distance; headings count a half turn   *)
(* as Half.  The solver is external: any status, any control and any next  *)
(* pose, finite or not.  The model's toTwist() maps a finite control to    *)
(* some finite twist, so a plan carries the twist.  One tick of the clock  *)
(* is dt, and the clock runs modulo Period, a common period of the         *)
(* obstacles' motions.                                                     *)
(***************************************************************************)
EXTENDS Integers, Sequences, FiniteSets

CONSTANTS
  Length,      \* places 0 .. Length
  Half,        \* half a turn
  Waypoints,   \* sequence of [at, th]
  Tol,         \* goal_tol_
  Speeds,      \* commands, by axis
  Bounds,      \* the model's lower bounds on the two control rates, times dt
  Fallback,    \* kFallbackDecel, times dt
  Np,
  Listed,      \* the obstacle list: sequence of orbits, a position per tick
  Single,      \* obstacle_enable_: the place of the fixed obstacle, in a set
  MaxObstacles,
  Period,
  NaN, Far

Places   == 0 .. Length
Headings == -Half .. Half
Poses    == [at : Places, th : -Half - 1 .. Half + 1]
Axes     == {"lin", "ang"}
Twists   == {w \in [Axes -> Speeds["lin"] \cup Speeds["ang"]] : \A a \in Axes : w[a] \in Speeds[a]}
Zero     == [a \in Axes |-> 0]

ASSUME SizeAssumption ==
  /\ Length \in Nat /\ Half \in Nat \ {0} /\ Tol \in Nat /\ Np \in Nat \ {0}
  /\ MaxObstacles \in Nat /\ Period \in Nat \ {0}
ASSUME WaypointAssumption ==
  Waypoints \in Seq([at : Places, th : Int]) /\ Waypoints # <<>>
ASSUME CommandAssumption ==
  /\ Speeds \in [Axes -> SUBSET Int]
  /\ \A x \in Axes : /\ 0 \in Speeds[x]
                     /\ \A a, b \in Speeds[x] : a .. b \subseteq Speeds[x]
  /\ Bounds \in [Axes -> Nat] /\ Fallback \in Nat \ {0}
  /\ NaN \notin Int \cup Twists \cup Poses
ASSUME ObstacleAssumption ==
  /\ Listed \in Seq([0 .. Period - 1 -> Places])
  /\ Single \subseteq Places /\ Cardinality(Single) <= 1 /\ Far \notin Places

VARIABLES
  pose, current_wp, arrived,
  last_cmd,     \* what a ramp starts from
  sim_time,
  published,    \* the last twist on /robot/cmd_vel
  converged,    \* the last diagnostics' flag
  goal_th,      \* the heading in the goal rows
  obs,          \* the obstacle rows of the last solve, by node and slot
  route         \* history: waypoints 1 .. route were reached, in this order

vars == <<pose, current_wp, arrived, last_cmd, sim_time, published, converged,
          goal_th, obs, route>>

-----------------------------------------------------------------------------
(* Geometry, headings and obstacles.                                       *)

Dist(a, b) == IF a <= b THEN b - a ELSE a - b
Near(p, i) == Dist(p.at, Waypoints[i].at) <= Tol

\* std::remainder of a and a full turn: ties go to the even quotient.
Remainder(a) ==
  CHOOSE r \in Headings :
    /\ (a - r) % (2 * Half) = 0
    /\ r \in {Half, -Half} => ((a - r) \div (2 * Half)) % 2 = 0

\* normalizeAngle() of a heading.
Normalized(a) == CHOOSE r \in 1 - Half .. Half : (a - r) % (2 * Half) = 0

\* The waypoint's heading on the branch of the robot's.
GoalHeading(p, i) == p.th + Remainder(Waypoints[i].th - p.th)

Obstacles == IF Listed # <<>> THEN Listed
             ELSE IF Single = {} THEN <<>>
             ELSE << [t \in 0 .. Period - 1 |-> CHOOSE s \in Single : TRUE] >>

\* k_obs_: never fewer slots than obstacles.
KObs == IF Obstacles = <<>> THEN 0
        ELSE IF MaxObstacles > Len(Obstacles) THEN MaxObstacles ELSE Len(Obstacles)

Rows == (0 .. Np - 1) \X (0 .. KObs - 1)

\* Node k of a solve at tick t is at tick t + k.
Field(t) ==
  [r \in Rows |-> IF r[2] < Len(Obstacles) THEN Obstacles[r[2] + 1][(t + r[1]) % Period]
                  ELSE Far]

-----------------------------------------------------------------------------
(* The ramp.                                                               *)

\* Mutant: a zero bound is taken as the limit.
Decel_NoFallback(a) == Bounds[a]

Decel(a) == IF Bounds[a] > 0 THEN Bounds[a] ELSE Fallback

BrakeToward(prev, decel) ==
  IF prev = NaN \/ Dist(prev, 0) <= decel THEN 0
  ELSE IF prev > 0 THEN prev - decel ELSE prev + decel

-----------------------------------------------------------------------------
(* One tick.                                                               *)

Last == Len(Waypoints)

\* Mutant: any later waypoint within reach becomes the active one.
Advanced_Shortcut(i) ==
  LET ahead == {j \in i .. Last - 1 : Near(pose, j)}
  IN IF ahead = {} THEN i ELSE 1 + CHOOSE j \in ahead : \A l \in ahead : l <= j

\* Mutant: the follower stops one waypoint early.
Advanced_Early(i) ==
  CHOOSE j \in i .. Last : /\ \A l \in i .. j - 1 : Near(pose, l)
                           /\ j >= Last - 1 \/ ~Near(pose, j)

\* advanceWaypoint(): pass every waypoint the robot is at, up to the last.
Advanced(i) ==
  CHOOSE j \in i .. Last : /\ \A l \in i .. j - 1 : Near(pose, l)
                           /\ j = Last \/ ~Near(pose, j)

Accepted(plan) == plan.status = "solved" /\ plan.u0 # NaN /\ plan.x1 # NaN

\* What a solve returns; an iterate that did not converge is never looked at.
Plans == [status : {"solved"}, u0 : Twists \cup {NaN}, x1 : Poses \cup {NaN}]
         \cup {[status |-> "other", u0 |-> NaN, x1 |-> NaN]}

\* Mutant: a tick that does not drive leaves the clock.
Tock_DrivingOnly == sim_time' = IF pose' = pose THEN sim_time ELSE (sim_time + 1) % Period

Tock == sim_time' = (sim_time + 1) % Period

\* History: the waypoints reached in order, whatever the node thinks.
Reached == CHOOSE j \in route .. Last : /\ \A l \in route + 1 .. j : Near(pose, l)
                                        /\ j = Last \/ ~Near(pose, j + 1)

\* What every tick does before its gate.
Cycle ==
  /\ current_wp' = Advanced(current_wp)
  /\ arrived' = (arrived \/ (current_wp' = Last /\ Near(pose, Last)))
  /\ goal_th' = GoalHeading(pose, current_wp')
  /\ obs' = Field(sim_time)
  /\ route' = Reached

Parked == arrived'

Park ==
  /\ Parked
  /\ last_cmd' = Zero /\ published' = Zero
  /\ UNCHANGED pose /\ Tock

\* The ramp starts from the last command published and is retained for the next.
Ramp ==
  /\ last_cmd' = [a \in Axes |-> BrakeToward(last_cmd[a], Decel(a))]
  /\ published' = last_cmd'

Brake ==
  /\ ~Parked /\ ~converged'
  /\ Ramp /\ UNCHANGED pose /\ Tock

Drive(plan) ==
  /\ ~Parked /\ converged'
  /\ last_cmd' = plan.u0 /\ published' = plan.u0
  /\ pose' = IF plan.x1 = NaN THEN NaN ELSE [plan.x1 EXCEPT !.th = Normalized(@)]
  /\ Tock

Init ==
  /\ pose \in Poses /\ current_wp = 1 /\ arrived = FALSE
  /\ last_cmd = Zero /\ published = Zero /\ sim_time = 0
  /\ converged = FALSE /\ goal_th = Waypoints[1].th /\ obs = <<>> /\ route = 0

Step ==
  /\ Cycle
  /\ \E plan \in Plans : /\ converged' = Accepted(plan)
                         /\ Park \/ Brake \/ Drive(plan)

Spec == Init /\ [][Step]_vars

\* The wall timer keeps firing.
FairSpec == Spec /\ WF_vars(Step)

-----------------------------------------------------------------------------
(* Properties.                                                             *)

\* The robot, what it is told and what a ramp starts from stay finite and
\* within the model's values, whatever the solver returns.
TypeOK ==
  /\ pose \in Poses /\ current_wp \in 1 .. Last /\ arrived \in BOOLEAN
  /\ last_cmd \in Twists /\ published \in Twists /\ sim_time \in 0 .. Period - 1
  /\ converged \in BOOLEAN /\ goal_th \in Int /\ route \in 0 .. Last
  /\ obs \in {<<>>} \cup [Rows -> Places \cup {Far}]

\* The node believes it has arrived only after its robot was at every waypoint in
\* the order given, while it is at the last one, and with a zero command out.
ArrivedByTheRoute ==
  /\ current_wp - 1 <= route
  /\ arrived => route = Last /\ Near(pose, Last) /\ published = Zero

\* Once arrived the robot never moves and is never told to, whatever later solves
\* return.
ParkedForGood == [][arrived => arrived' /\ UNCHANGED pose /\ published' = Zero]_vars

\* The heading in the goal rows is the waypoint's, at most half a turn from the
\* robot's: the tracking error the solver sees never goes the long way round.
ShortestTurn ==
  [][/\ Dist(goal_th', pose.th) <= Half
     /\ (goal_th' - Waypoints[current_wp'].th) % (2 * Half) = 0]_vars

\* What a solve avoids at node k is what the next solve avoids at node k - 1: the
\* clock advances by one node on every way out of a tick.
FieldShifts ==
  [][obs # <<>> => \A r \in Rows : r[1] > 0 => obs'[<<r[1] - 1, r[2]>>] = obs[r]]_vars

\* A tick whose solve is not accepted never moves the robot, and takes each axis of
\* the published command nearer to zero, never through it.
FailuresSlowDown ==
  [][~converged' =>
       /\ UNCHANGED pose
       /\ \A a \in Axes :
            /\ published'[a] * published[a] >= 0
            /\ Dist(published'[a], 0) < Dist(published[a], 0) \/ published'[a] = 0]_vars

Drives == converged' /\ ~arrived'
Brakes == ~converged' /\ ~arrived'

Closer == \/ Near(pose', current_wp')
          \/ Dist(pose'.at, Waypoints[current_wp'].at) < Dist(pose.at, Waypoints[current_wp'].at)

\* If from some tick on every driven tick brings the robot nearer to its waypoint,
\* it arrives, or the solver stops solving for good.
Arrives == <>[][Drives => Closer]_vars => <>arrived \/ <>[][~Drives]_vars

\* If solves fail from some tick on, the published command reaches zero and stays.
FailuresStop == <>[][Brakes]_vars => <>[](published = Zero)

=============================================================================
