---------------------------- MODULE ControlCycle ----------------------------
(***************************************************************************)
(* The control cycle of ProxMpcController, the Nav2 controller plugin of   *)
(* prox_mpc_controller, as one server thread drives it: lifecycle, task,   *)
(* cancel, the gates of computeVelocityCommands(), the fail-safe brake     *)
(* ramp, the two fault budgets and the control-rate anchor held by the MPC.*)
(*                                                                         *)
(* The Nav2 controller server and the robot base are external: they are    *)
(* modelled from how the plugin is called and from what its comments say   *)
(* of them.  Speeds are integers in units of the platform's slowest rate   *)
(* step (one control period at the declared du bound).                     *)
(***************************************************************************)
EXTENDS Integers, FiniteSets

CONSTANTS
  Low, Upp,       \* model bounds on the controls, per channel (Ineq "u")
  DuLow, DuUpp,   \* magnitudes of the control-rate bounds per cycle (Ineq "du")
  HasSteering,    \* FALSE: unicycle <<v, omega>>; TRUE: bicycle <<v, delta rate>>
  SteerMax,       \* bound on the steering angle (Ineq "x"), unused by a unicycle
  MaxFailures,    \* max_solver_failures_
  MaxPeriod,      \* kMaxBrakePeriodFactor, in control periods
  SpeedLimits,    \* values the server may pass to setSpeedLimit(); 0: no limit
  PlanKinds,      \* kinds of plan the planner server may hand over
  Patience,       \* cycles the server's failure_tolerance lets an exception last
  None

Channels == {"v", "w"}
Controls == [Channels -> Int]
Zero     == [c \in Channels |-> 0]
Minimum(a, b) == IF a < b THEN a ELSE b
Maximum(a, b) == IF a > b THEN a ELSE b

\* Control vectors inside the model's own box.
ModelBox == {u \in [Channels -> Low["v"]..Upp["v"] \cup Low["w"]..Upp["w"]] :
               \A c \in Channels : u[c] \in Low[c]..Upp[c]}
VMax == Upp["v"]
VMin == Low["v"]

ASSUME BoxAssumption ==
  /\ Low \in Controls /\ Upp \in Controls
  /\ DuLow \in Controls /\ DuUpp \in Controls
  /\ \A c \in Channels : Low[c] <= 0 /\ 0 < Upp[c] /\ 0 < DuLow[c] /\ 0 < DuUpp[c]
ASSUME SteeringAssumption == HasSteering \in BOOLEAN /\ SteerMax \in Nat
ASSUME BudgetAssumption == MaxFailures \in Nat /\ Patience \in Nat
ASSUME PeriodAssumption == MaxPeriod \in Nat \ {0}
ASSUME InputAssumption ==
  /\ SpeedLimits \subseteq Nat
  /\ None \notin Nat
  /\ PlanKinds \subseteq {"empty", "nonfinite", "sound"}

VARIABLES
  lifecycle,       \* of the plugin, driven by the server's managed-node callbacks
  goal,            \* the server's task: none, running, or cancel requested
  polled,          \* in a canceling task: this loop iteration has called cancel()
  global_plan,     \* kind of the plan held in global_plan_
  failure_count, veto_count,
  cancelling,
  last_cmd_u,      \* last commanded control vector
  last_cmd,        \* last_cmd_v_ and last_cmd_w_, the commanded body twist
  steering_state,  \* the retained steering-angle belief
  u0,              \* MPC::u0, what the next solve's first control is anchored on
  limit,           \* max_linear_vel_
  pending,         \* speed limit requested and not yet applied
  thrown,          \* exception the cycle raised, not yet handled by the server
  patience,        \* consecutive cycles that ended in an exception
  halted,          \* the server's last published twist is its own zero, not last_cmd
  odom,            \* body twist the server measures
  braked           \* history: fault brakes since the last acceptance or task reset

control == <<failure_count, veto_count, cancelling, last_cmd_u, last_cmd,
             steering_state, u0, braked>>
server  == <<lifecycle, goal, polled, global_plan, thrown, patience, halted>>
vars    == <<control, server, limit, pending, odom>>

-----------------------------------------------------------------------------
(* Pure parts of the cycle. *)

\* Mutant: the ramp does not saturate, and a long period takes it past zero.
BrakeToward_Crosses(prev, rate_low, rate_upp, period) ==
  IF prev > 0 THEN prev - rate_low * period
  ELSE IF prev < 0 THEN prev + rate_upp * period ELSE 0

\* One ramp step toward zero; it saturates there.
BrakeToward(prev, rate_low, rate_upp, period) ==
  IF prev > 0 THEN Maximum(0, prev - rate_low * period)
              ELSE Minimum(0, prev + rate_upp * period)

\* Body twist of a control vector under the model's toTwist(), wheelbase 1.
ToTwist(u, delta) ==
  [v |-> u["v"], w |-> IF HasSteering THEN u["v"] * delta ELSE u["w"]]

\* Channels fromTwist() can determine from a body twist.
Observable == IF HasSteering THEN {"v"} ELSE Channels

\* The box of the speed channel under an applied limit.
SpeedBox(lim) == Maximum(VMin, -lim)..Minimum(VMax, lim)

\* First controls a converged solve may return: inside the box, within one
\* rate step of the anchor, the next steering angle inside its own bound.
Feasible(lim) ==
  {u \in ModelBox :
     /\ u["v"] \in SpeedBox(lim)
     /\ \A c \in Channels : u[c] \in (u0[c] - DuLow[c])..(u0[c] + DuUpp[c])
     /\ HasSteering => steering_state + u["w"] \in (-SteerMax)..SteerMax}

\* Mutant: the request replaces the model's bound instead of narrowing it.
AppliedLimit_Unclamped(request) == IF request = 0 THEN VMax ELSE request

\* applySpeedLimit(): zero restores the model's bound, the rest is clamped to it.
AppliedLimit(request) == IF request = 0 THEN VMax ELSE Minimum(request, VMax)

-----------------------------------------------------------------------------
Init ==
  /\ lifecycle = "unconfigured" /\ goal = "none" /\ polled = FALSE
  /\ global_plan = "empty"
  /\ failure_count = 0 /\ veto_count = 0 /\ cancelling = FALSE
  /\ last_cmd_u = Zero /\ last_cmd = Zero /\ steering_state = 0
  /\ u0 = Zero /\ limit = VMax /\ pending = None
  /\ thrown = "none" /\ patience = 0 /\ halted = TRUE
  /\ odom = Zero /\ braked = 0

(* Lifecycle and task handling. *)

\* What activate() and reset() both clear.  The MPC's own u0 is not among it.
ClearRuntime ==
  /\ failure_count' = 0 /\ veto_count' = 0 /\ cancelling' = FALSE
  /\ last_cmd_u' = Zero /\ last_cmd' = Zero /\ steering_state' = 0
  /\ braked' = 0
  /\ UNCHANGED u0

\* A fresh model and MPC; a limit requested before configure is applied in place.
Configure ==
  /\ lifecycle = "unconfigured"
  /\ lifecycle' = "inactive"
  /\ u0' = Zero /\ last_cmd_u' = Zero
  /\ limit' = IF pending = None THEN VMax ELSE AppliedLimit(pending)
  /\ pending' = None
  /\ UNCHANGED <<goal, polled, global_plan, thrown, patience, halted, odom,
                 failure_count, veto_count, cancelling, last_cmd,
                 steering_state, braked>>

Activate ==
  /\ lifecycle = "inactive"
  /\ lifecycle' = "active"
  /\ ClearRuntime
  /\ UNCHANGED <<goal, polled, global_plan, thrown, patience, halted, limit,
                 pending, odom>>

\* The server ends the task, publishing its own zero, before it deactivates.
Deactivate ==
  /\ lifecycle = "active" /\ goal = "none"
  /\ lifecycle' = "inactive"
  /\ UNCHANGED <<control, goal, polled, global_plan, thrown, patience, halted, limit,
                 pending, odom>>

Cleanup ==
  /\ lifecycle = "inactive"
  /\ lifecycle' = "unconfigured"
  /\ UNCHANGED <<control, goal, polled, global_plan, thrown, patience, halted,
                 limit, pending, odom>>

SetSpeedLimit(request) ==
  /\ pending' = request
  /\ UNCHANGED <<control, server, limit, odom>>

\* setPlan(): at the start of a task, and again whenever the planner replans.
SetPlan(kind) ==
  /\ lifecycle = "active" /\ goal # "canceling" /\ thrown = "none"
  /\ goal' = "running"
  /\ global_plan' = kind
  /\ UNCHANGED <<control, lifecycle, polled, thrown, patience, halted, limit,
                 pending, odom>>

RequestCancel ==
  /\ goal = "running"
  /\ goal' = "canceling" /\ polled' = FALSE
  /\ UNCHANGED <<control, lifecycle, global_plan, thrown, patience, halted,
                 limit, pending, odom>>

\* The server leaves the task: it publishes zero and resets the plugin.
EndTask ==
  /\ goal' = "none" /\ polled' = FALSE
  /\ thrown' = "none" /\ patience' = 0 /\ halted' = TRUE
  /\ ClearRuntime
  /\ UNCHANGED <<lifecycle, global_plan, limit, pending, odom>>

GoalReached == goal # "none" /\ thrown = "none" /\ ~halted /\ EndTask

\* cancel(), called once per server loop until it reports the robot stopped.
CommandAtRest == last_cmd["v"] = 0 /\ last_cmd["w"] = 0
CancelPoll ==
  /\ goal = "canceling" /\ ~polled /\ thrown = "none"
  /\ IF CommandAtRest
     THEN EndTask
     ELSE /\ cancelling' = TRUE /\ polled' = TRUE
          /\ UNCHANGED <<failure_count, veto_count, last_cmd_u, last_cmd,
                         steering_state, u0, braked, lifecycle, goal,
                         global_plan, thrown, patience, halted, limit, pending,
                         odom>>

\* An exception is tolerated, with a zero twist published, or ends the task.
Tolerate ==
  /\ thrown # "none" /\ patience <= Patience
  /\ thrown' = "none" /\ halted' = TRUE
  /\ UNCHANGED <<control, lifecycle, goal, polled, global_plan, patience,
                 limit, pending, odom>>
Abort == thrown # "none" /\ EndTask

\* The base reaches the twist it was last sent.
Track ==
  /\ odom' = IF halted THEN Zero ELSE last_cmd
  /\ odom' # odom
  /\ UNCHANGED <<control, server, limit, pending>>

-----------------------------------------------------------------------------
(* computeVelocityCommands(): one action per way out of the cycle. *)

\* The speed limit in force once the top of the cycle has taken the request.
CycleLimit == IF pending = None THEN limit ELSE AppliedLimit(pending)

\* Top of every cycle.
StartCycle ==
  /\ goal # "none" /\ thrown = "none" /\ (goal = "canceling" => polled)
  /\ limit' = CycleLimit /\ pending' = None
  /\ polled' = FALSE
  /\ UNCHANGED <<lifecycle, goal, global_plan, odom, cancelling>>

\* The cycle returns a command.
Returned == thrown' = "none" /\ patience' = 0 /\ halted' = FALSE

\* The cycle throws; the counters it already moved keep their new value.
Throw(exception) ==
  /\ thrown' = exception
  /\ patience' = Minimum(patience + 1, Patience + 1)
  /\ UNCHANGED <<halted, last_cmd_u, last_cmd, steering_state, u0, braked>>

\* Ramp seed: a finite measured channel, else the last commanded control.
Seed(seen) == [c \in Channels |-> IF c \in seen THEN odom[c] ELSE last_cmd_u[c]]

RampedControls(seen, period) ==
  [c \in Channels |-> BrakeToward(Seed(seen)[c], DuLow[c], DuUpp[c], period)]

\* Mutant: the brake leaves the anchor at the last accepted control.
AnchorOnBrake_Stale(u) == UNCHANGED u0

\* The control the brake sends becomes the next solve's anchor.
AnchorOnBrake(u) == u0' = u

\* make_brake(), `measured` being the finite components of the server's twist:
\* decay the steering belief, ramp the controls, map them to a twist (or, when that
\* is non-finite, ramp the measured twist itself), and anchor the next solve on
\* what was sent.
MakeBrake ==
  \E measured \in SUBSET Channels, period \in 1..MaxPeriod, finite \in BOOLEAN :
    LET u == RampedControls(measured \cap Observable, period)
        delta == IF HasSteering
                 THEN BrakeToward(steering_state, -Low["w"], Upp["w"], period)
                 ELSE steering_state
        fallback == [c \in Channels |->
                       IF c \in measured
                       THEN BrakeToward(odom[c], DuLow[c], DuLow[c], period)
                       ELSE 0]
    IN /\ steering_state' = delta
       /\ last_cmd_u' = u
       /\ last_cmd' = IF finite THEN ToTwist(u, delta) ELSE fallback
       /\ AnchorOnBrake(u)
       /\ Returned

\* One more fault on a budget.  The counter is kept at MaxFailures + 1 once past
\* the budget: it only ever escalates there.
Charged(count) == Minimum(count + 1, MaxFailures + 1)

\* Mutant: the budget is tested before the fault is charged.
Exhausted_Late(count) == count > MaxFailures

\* The fault just charged is beyond the budget.
Exhausted(count) == count + 1 > MaxFailures

\* fail(): charge the failure budget, then escalate or brake.
Fail ==
  /\ failure_count' = Charged(failure_count)
  /\ UNCHANGED veto_count
  /\ IF Exhausted(failure_count)
     THEN Throw("NoValidControl")
     ELSE MakeBrake /\ braked' = braked + 1

PoseFault == StartCycle /\ Fail

CancelBrake ==
  /\ StartCycle /\ cancelling
  /\ MakeBrake
  /\ UNCHANGED <<failure_count, veto_count, braked>>

PlanEmpty ==
  /\ StartCycle /\ ~cancelling /\ global_plan = "empty"
  /\ Throw("InvalidPath")
  /\ UNCHANGED <<failure_count, veto_count>>

TransformFault ==
  /\ StartCycle /\ ~cancelling /\ global_plan # "empty"
  /\ Throw("ControllerTFError")
  /\ UNCHANGED <<failure_count, veto_count>>

PlanFault == StartCycle /\ ~cancelling /\ global_plan = "nonfinite" /\ Fail

\* The cycle gets as far as solving.
Solve == StartCycle /\ ~cancelling /\ global_plan = "sound"

\* The QP did not converge, or its iterate is not finite over the horizon.
SolverFault == Solve /\ Fail

\* A converged candidate whose footprint collides within its stopping distance.
FootprintVeto ==
  /\ Solve /\ Feasible(CycleLimit) # {}
  /\ veto_count' = Charged(veto_count)
  /\ UNCHANGED failure_count
  /\ IF Exhausted(veto_count)
     THEN Throw("NoValidControl")
     ELSE MakeBrake /\ braked' = braked + 1

\* A converged candidate the model maps to a non-finite twist.
CommandFault == Solve /\ Feasible(CycleLimit) # {} /\ Fail

\* Mutant: the candidate is sent but never committed.
Commit_Forgotten(u) == UNCHANGED u0

\* commitCandidate(): the candidate's first control becomes the anchor.
Commit(u) == u0' = u

\* Every gate passed: the candidate is committed and its first control sent.
Accept ==
  /\ Solve
  /\ \E u \in Feasible(CycleLimit) :
       /\ Commit(u) /\ last_cmd_u' = u
       /\ last_cmd' = ToTwist(u, steering_state)
       /\ steering_state' = IF HasSteering THEN steering_state + u["w"]
                                           ELSE steering_state
  /\ failure_count' = 0 /\ veto_count' = 0 /\ braked' = 0
  /\ Returned

Cycle ==
  \/ PoseFault \/ CancelBrake \/ PlanEmpty \/ TransformFault \/ PlanFault
  \/ SolverFault \/ FootprintVeto \/ CommandFault \/ Accept

Next ==
  \/ Configure \/ Activate \/ Deactivate \/ Cleanup
  \/ \E request \in SpeedLimits : SetSpeedLimit(request)
  \/ \E kind \in PlanKinds : SetPlan(kind)
  \/ RequestCancel \/ GoalReached \/ CancelPoll \/ Tolerate \/ Abort
  \/ Track
  \/ Cycle

Spec == Init /\ [][Next]_vars

-----------------------------------------------------------------------------
(* Properties. *)

\* Every variable stays in its type: controls and the anchor inside the model's
\* own box (the ramp saturates instead of crossing zero, so it cannot leave a
\* box whose bounds straddle zero), counters within their budget.
TypeOK ==
  /\ lifecycle \in {"unconfigured", "inactive", "active"}
  /\ goal \in {"none", "running", "canceling"} /\ polled \in BOOLEAN
  /\ global_plan \in {"empty", "nonfinite", "sound"}
  /\ failure_count \in 0..(MaxFailures + 1) /\ veto_count \in 0..(MaxFailures + 1)
  /\ cancelling \in BOOLEAN
  /\ last_cmd_u \in ModelBox /\ u0 \in ModelBox
  /\ last_cmd \in Controls /\ odom \in Controls
  /\ \A c \in Observable : {last_cmd[c], odom[c]} \subseteq Low[c]..Upp[c]
  /\ steering_state \in (-SteerMax)..SteerMax
  /\ limit \in 0..VMax /\ pending \in SpeedLimits \cup {None}
  /\ thrown \in {"none", "NoValidControl", "InvalidPath", "ControllerTFError"}
  /\ patience \in 0..(Patience + 1) /\ halted \in BOOLEAN
  /\ braked \in Nat

\* While the command the robot holds is the controller's own, the MPC's
\* control-rate anchor is that command, whichever way the cycle that sent it
\* ended: "setU0() with what it applied" (mpc.hpp), commitCandidate() otherwise.
AnchorFollowsCommand == ~halted => u0 = last_cmd_u

\* Two budgets, one per kind of fault, and nothing else ends in a brake: since
\* the last accepted cycle or task reset the controller brakes on at most twice
\* max_solver_failures faults, and raises NoValidControl only after at least
\* max_solver_failures of them.
FaultBudget ==
  /\ braked <= 2 * MaxFailures
  /\ thrown = "NoValidControl" => braked >= MaxFailures

\* An accepted command is within one control-rate step of the command the robot
\* holds, faults, vetoes and braking in between included, unless the server
\* overrode that command with its own zero.
AcceptedWithinRate ==
  [][Accept /\ ~halted =>
       \A c \in Channels :
         last_cmd_u'[c] \in (last_cmd_u[c] - DuLow[c])..(last_cmd_u[c] + DuUpp[c])]_vars

\* The server keeps running its loop while a task is active, the cycle always
\* ends, and a base that is commanded a twist reaches it.
Fairness ==
  /\ WF_vars(Cycle) /\ WF_vars(CancelPoll) /\ WF_vars(Tolerate \/ Abort)
  /\ WF_vars(Track)
FairSpec == Spec /\ Fairness

\* A requested cancel ends the task: cancel() keeps reporting FALSE only while
\* the ramp still moves the robot, whatever faults the cycles meet.
CancelCompletes == goal = "canceling" ~> goal = "none"

=============================================================================
