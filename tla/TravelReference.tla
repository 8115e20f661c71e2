--------------------------- MODULE TravelReference ---------------------------
(***************************************************************************)
(* The modes computeVelocityCommands() latches from cycle to cycle while   *)
(* it builds the reference: the travel direction with its standstill and   *)
(* dwell gates, the terminal settle, the yield to predicted obstacles and  *)
(* the hard speed cap derived from it.                                     *)
(*                                                                         *)
(* A cycle is two steps: Refer builds the reference and the speed box, one *)
(* of the following actions ends the cycle.  Speeds, distances and times   *)
(* are integers; a time unit is one control period.  A plan is abstracted  *)
(* to what the modes read of it.                                           *)
(***************************************************************************)
EXTENDS Integers

CONSTANTS
  VMin, VMax,      \* declared range of the speed control, VMin < 0
  Dec, Acc,        \* its rate bounds per period
  Standstill,      \* direction_switch_standstill_speed_mps_
  Dwell,           \* direction_switch_dwell_s_
  XyTol, Hyst,     \* goal-checker tolerance, goal_settle_hysteresis_m_
  Far,             \* longest remaining distance considered
  Full, Recovery,  \* yield factor 1.0, and its recovery per period
  MaxPeriod,       \* longest cycle, in periods
  SpeedLimits      \* limits setSpeedLimit() may bring in force

ASSUME SpeedAssumption ==
  /\ VMin \in Int /\ VMin < 0 /\ VMax \in Nat \ {0}
  /\ Dec \in Nat \ {0} /\ Acc \in Nat \ {0} /\ Standstill \in Nat
  /\ SpeedLimits \subseteq 0..VMax
ASSUME ModeAssumption ==
  /\ Dwell \in Nat /\ XyTol \in Nat \ {0} /\ Hyst \in Nat /\ Far \in Nat
  /\ Full \in Nat \ {0} /\ Recovery \in Nat \ {0} /\ MaxPeriod \in Nat \ {0}

Forward == 1
Reverse == -1
Minimum(a, b) == IF a < b THEN a ELSE b
Maximum(a, b) == IF a > b THEN a ELSE b
Size(v) == IF v < 0 THEN -v ELSE v

\* What a cycle reads of the plan: whether a segment is left under the robot and
\* which way it is driven, the arc length to the plan's end, and to the first
\* segment driven the other way (the plan's end if there is none).  A plan of one
\* pose has no segment, and no way to be driven.
Plans ==
  {plan \in [segment : BOOLEAN, way : {Forward, Reverse}, goal : 0..Far, cusp : 0..Far] :
     /\ plan.cusp <= plan.goal
     /\ ~plan.segment => plan.goal = 0 /\ plan.way = Forward}

VARIABLES
  task,        \* the server runs a task
  phase,       \* idle, or a reference is built and the QP is next
  plan,        \* what the last cycle read of the plan
  dir,         \* dir_
  hold,        \* dir_hold_s_, kept at Dwell once it is there
  since,       \* history: periods since a plan's segment last changed the
               \* direction, up to Dwell
  held,        \* the reference is pinned while a direction change waits
  settling, yield,
  limit,       \* max_linear_vel_
  low, upp,    \* the speed box the QP is given
  last_v,      \* last commanded speed
  anchor,      \* the speed in MPC::u0, which the next solve's first control is
               \* within one rate step of
  odom,        \* measured speed
  fresh        \* history: no command sent since the last task ended

modes == <<dir, hold, since, held, settling, yield, plan>>
box   == <<limit, low, upp>>
motion == <<last_v, anchor, odom, fresh>>
vars  == <<task, phase, modes, box, motion>>

LowBound(lim) == Maximum(VMin, -lim)

Init ==
  /\ task = FALSE /\ phase = "idle"
  /\ plan = [segment |-> TRUE, way |-> Forward, goal |-> Far, cusp |-> Far]
  /\ dir = Forward /\ hold = Dwell /\ since = Dwell /\ held = FALSE
  /\ settling = FALSE /\ yield = Full
  /\ limit = VMax /\ low = LowBound(VMax) /\ upp = VMax
  /\ last_v = 0 /\ anchor = 0 /\ odom = 0 /\ fresh = TRUE

-----------------------------------------------------------------------------
StartTask ==
  /\ ~task
  /\ task' = TRUE
  /\ UNCHANGED <<phase, modes, box, motion>>

\* Mutant: reset() leaves the latched direction.
ForgetModes_KeepDirection ==
  UNCHANGED dir /\ hold' = Dwell /\ settling' = FALSE /\ yield' = Full

\* reset(): the next task inherits no mode, and its first direction is free.
ForgetModes ==
  dir' = Forward /\ hold' = Dwell /\ settling' = FALSE /\ yield' = Full

\* The solver's anchor is not reset with the commanded speed.
EndTask ==
  /\ task /\ phase = "idle"
  /\ task' = FALSE
  /\ ForgetModes
  /\ since' = Dwell /\ held' = FALSE /\ last_v' = 0 /\ fresh' = TRUE
  /\ UNCHANGED <<phase, plan, box, anchor, odom>>

\* The base reaches the speed it was last sent, or the zero the server sends after
\* an exception and between tasks.
Track ==
  /\ odom' \in {last_v, 0} /\ odom' # odom
  /\ UNCHANGED <<task, phase, modes, box, last_v, anchor, fresh>>

\* Top of a cycle: a limit requested since the last one takes the whole box.
ApplySpeedLimit(request) ==
  /\ task /\ phase = "idle" /\ request # limit
  /\ limit' = request /\ low' = LowBound(request) /\ upp' = request
  /\ UNCHANGED <<task, phase, modes, motion>>

Aged(time, period) == Minimum(Dwell, time + period)

\* Mutant: the dwell is not consulted.
MayShift_NoDwell(period) == Size(last_v) <= Standstill

\* The gates of a direction change: from rest, and only once the dwell has run.
MayShift(period) ==
  /\ Size(last_v) <= Standstill
  /\ Aged(hold, period) >= Dwell

\* Mutant: every refused change restarts the dwell.
HoldWaiting_Restarted(period) == 0

\* The dwell keeps running while a change waits.
HoldWaiting(period) == Aged(hold, period)

\* Direction and the arc length the reference may cover.
Steer(read, period) ==
  IF ~read.segment
  THEN /\ dir' = Forward /\ held' = FALSE
       /\ hold' = Aged(hold, period) /\ since' = Aged(since, period)
  ELSE IF read.way = dir
  THEN /\ held' = FALSE /\ UNCHANGED dir
       /\ hold' = Aged(hold, period) /\ since' = Aged(since, period)
  ELSE IF MayShift(period)
  THEN /\ dir' = read.way /\ held' = FALSE
       /\ hold' = 0 /\ since' = 0
  ELSE /\ held' = TRUE /\ UNCHANGED dir
       /\ hold' = HoldWaiting(period) /\ since' = Aged(since, period)

\* Arc length ahead of the robot, and whether it reaches the plan's end.
Remaining == IF held' THEN 0 ELSE IF plan'.segment THEN plan'.cusp ELSE plan'.goal
AtPlanEnd == Remaining = plan'.goal

Settle ==
  settling' = (/\ AtPlanEnd
               /\ Remaining <= (IF settling THEN XyTol + Hyst ELSE XyTol))

\* The reference moves: the taper, the settle and a zero limit can stop it.
Moving == limit > 0 /\ Remaining > 0

\* Mutant: the release is not held under the target.
Recovered_Overshoot(target, period) ==
  IF target < yield THEN target ELSE yield + Recovery * period

\* A reduction is immediate, a release bounded.
Recovered(target, period) ==
  IF target < yield THEN target ELSE Minimum(target, yield + Recovery * period)

\* `target` is the share of the cruise the deepest predicted breach leaves.
Yield(target, period) ==
  yield' = IF Moving /\ ~settling' THEN Recovered(target, period) ELSE Full

\* Mutant: the cap ignores how fast the robot is going.
Cap_Unreachable(factor) ==
  Maximum(LowBound(limit), Minimum(limit, (limit * factor) \div Full))

\* The hard cap: not under the speed the platform can reach in one step.
Cap(factor) ==
  Maximum(LowBound(limit),
          Minimum(limit, Maximum((limit * factor) \div Full, last_v - Dec)))

\* The reference and the box of one cycle.
Refer ==
  /\ task /\ phase = "idle"
  /\ \E read \in Plans, period \in 1..MaxPeriod, target \in 0..Full :
       /\ plan' = read
       /\ Steer(read, period)
       /\ Settle
       /\ Yield(target, period)
       /\ upp' = Cap(yield')
  /\ low' = LowBound(limit)
  /\ phase' = "solve"
  /\ UNCHANGED <<task, limit, motion>>

\* First controls the QP may return.
Feasible == (low..upp) \cap ((anchor - Dec)..(anchor + Acc))

\* What is sent is what the next solve is anchored on.
Sent == anchor' = last_v' /\ fresh' = FALSE /\ UNCHANGED odom

Accept ==
  /\ phase = "solve"
  /\ last_v' \in Feasible /\ Sent
  /\ phase' = "idle"
  /\ UNCHANGED <<task, modes, box>>

BrakeToward(v, period) ==
  IF v > 0 THEN Maximum(0, v - Dec * period) ELSE Minimum(0, v + Acc * period)

\* make_brake(): one ramp step from the measured speed, or from the commanded one if
\* the measurement is not finite.
Ramp(period) == (\E seed \in {odom, last_v} : last_v' = BrakeToward(seed, period)) /\ Sent

\* A gate after the reference braked: no candidate, or a rejected one.
Brake ==
  /\ phase = "solve"
  /\ \E period \in 1..MaxPeriod : Ramp(period)
  /\ phase' = "idle"
  /\ UNCHANGED <<task, modes, box>>

\* A gate before the reference braked; the dwell has advanced all the same.
EarlyBrake ==
  /\ task /\ phase = "idle"
  /\ \E period \in 1..MaxPeriod :
       /\ Ramp(period)
       /\ hold' = Aged(hold, period) /\ since' = Aged(since, period)
  /\ UNCHANGED <<task, phase, dir, held, settling, yield, plan, box>>

\* A gate threw.
Throw ==
  /\ phase = "solve"
  /\ phase' = "idle"
  /\ UNCHANGED <<task, modes, box, motion>>

Next ==
  \/ StartTask \/ EndTask \/ \E request \in SpeedLimits : ApplySpeedLimit(request)
  \/ Refer \/ Accept \/ Brake \/ EarlyBrake \/ Throw \/ Track

Spec == Init /\ [][Next]_vars

\* The server keeps cycling, cycles do not throw for ever, and the base follows.
Fairness ==
  WF_vars(Track) /\ WF_vars(Refer) /\ WF_vars(Accept \/ Brake \/ Throw) /\ SF_vars(Accept \/ Brake)
FairSpec == Spec /\ Fairness

-----------------------------------------------------------------------------
(* Properties. *)

TypeOK ==
  /\ task \in BOOLEAN /\ phase \in {"idle", "solve"} /\ plan \in Plans
  /\ dir \in {Forward, Reverse} /\ hold \in 0..Dwell /\ since \in 0..Dwell
  /\ held \in BOOLEAN /\ settling \in BOOLEAN /\ yield \in 0..Full
  /\ limit \in 0..VMax /\ low \in VMin..0 /\ upp \in low..limit
  /\ {last_v, anchor, odom} \subseteq VMin..VMax /\ fresh \in BOOLEAN

\* Travel direction, the two gates: a segment driven the other way turns the
\* direction only from rest and only once the dwell has run since the last such
\* change.  `since` is measured over every cycle, whichever way it ended, a change
\* that was refused in between included.
GearShift ==
  [][Refer /\ plan'.segment /\ dir' # dir =>
       Size(last_v) <= Standstill /\ \E period \in 1..MaxPeriod : since + period >= Dwell]_vars

\* A task starts in no mode an earlier task left: forward, its first change free,
\* not settling, at full cruise.
TaskStartsClean ==
  [][StartTask => dir = Forward /\ hold = Dwell /\ ~settling /\ yield = Full]_vars

\* The yield never makes the QP infeasible: once a task has sent a command, as long as
\* the platform can reach the speed limit in one step, some first control is both
\* inside the capped box and within one rate step of the solver's anchor.  The cap is
\* taken from the last command, so the two must have kept together through every
\* brake, whatever the base was measured at.  (A task's first solve is anchored on
\* the previous task's last command, which reset() does not tell the solver.)
YieldLeavesControl ==
  phase = "solve" /\ ~fresh /\ anchor - Dec <= limit /\ LowBound(limit) <= anchor + Acc =>
    Feasible # {}

\* The solver follows a reference that holds position: every accepted command
\* under it is slower than the one before, down to rest.
FollowsHold == Accept /\ held => Size(last_v') <= Maximum(0, Size(last_v) - 1)

\* A direction change the plan keeps asking for is made: if the solver follows the
\* pinned reference, it brings the platform to the standstill the change is
\* waiting on, and the dwell runs out while it waits.
CuspIsPassed ==
  <>[][FollowsHold]_vars =>
    \A way \in {Forward, Reverse} :
      <>[](task /\ plan.segment /\ plan.way = way) => <>[](dir = way)
=============================================================================
