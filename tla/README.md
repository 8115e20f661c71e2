# A formal model of prox_mpc

TLA+ modules that model `prox_mpc`, TLC configurations that check them on small
instances, and TLAPS proofs of the results that hold for every instance.
`prox_mpc` is a nonlinear MPC for planar robots: a solver library, a Nav2
controller plugin built on it, a tracker that feeds the plugin moving obstacles,
a demo node and a benchmark. Paths below are relative to the repository
(`src/`), and `ctl` stands for
`prox_mpc_controller/src/prox_mpc_controller.cpp`.

Contents: [inventory](#1-inventory) - [plan](#2-plan) -
[modules](#3-modules-and-the-code) - [runs](#4-runs) -
[fairness](#5-fairness) - [proofs](#6-proofs) -
[where code and text disagree](#7-where-the-code-and-its-text-disagree) -
[not modelled](#8-not-modelled).

## 1. Inventory

### Parts and how they interact

```
 planner / controller server (Nav2)          tracker process
   |  setPlan, setSpeedLimit, cancel,          | ObstacleArray (reliable, depth 5)
   |  reset, lifecycle, computeVelocity        v
   +--------------> ProxMpcController <--- obstacleCallback (executor thread)
                     |        ^
   setPose, setObs,  |        | candidate x, u, w, solved, finite
   setGoal*, setU0,  v        |
   solveCandidate   MPC ---- Model (pluginlib: unicycle, bicycle front / rear axle)
   commitCandidate   |
                     v
                   ProxQP (workspace of the QP solver)

 demo: wall timer -> SimulationNode::step -> MPC::solve     (its own closed loop)
```

| Part | State it keeps | Operations | Hard behaviour |
|---|---|---|---|
| Controller plugin, control cycle (`ctl` 858-1745) | `last_cmd_u_`, `last_cmd_v_/w_`, `steering_state_`, `failure_count_`, `veto_count_`, `cancelling_`, `have_last_cycle_`; the MPC's `u0` | lifecycle, `setPlan`, `computeVelocityCommands`, `cancel`, `reset` | ten ways out of a cycle, each leaving the anchor, the counters and the belief consistent; two fault budgets; a cancel that must end through cycles that fault |
| Controller plugin, reference and modes (`ctl` 1101-1456) | `dir_`, `dir_hold_s_`, `settling_`, `yield_factor_`, `plan_index_` | one pass per cycle | modes latched from cycle to cycle and across early exits, plans replaced under them |
| Controller plugin, speed limit (`ctl` 873-882, 1747-1776) | three atomics, `max_linear_vel_`, the model's bounds | `setSpeedLimit`, `applySpeedLimit` | two threads without a lock |
| Controller plugin, obstacle feed (`ctl` 1819-2340) | `latest_obstacles_`, `predicted_obstacles_`, the subscription; the obstacle matrix | `obstacleCallback`, `fillObstacles`, `fillStaticObstacles` | callback and fill on two threads, ages taken at an older stamp; slots that run out; a costmap that changes between the reads of two nodes |
| Core MPC (`prox_mpc_core/src/mpc.cpp`) | retained `x, u, w, u0`; staged `cand_*`; sizes fixed by `init()` | structural setters, `init`, `setPose/Obs/Goal*`, `solveCandidate`, `commitCandidate`, `solve`, `setU0` | a candidate that fails half way must leave no trace; setters in any order around an `init()` that writes before it throws |
| QP assembly (`proxqp.cpp`) | sparse matrices with a pattern fixed at `config()`, the solver workspace and its last iterate | `setd`, `setE`, `setC`, `solve`, ... | row offsets by running sums; entries kept between solves; a workspace that outlives the cycle that filled it |
| Models (`model.cpp`, `models/*.hpp`) | parameters and bound tables | `updateIneq`, `toTwist`, `fromTwist`, `getPlanarMapping` | a twist does not determine every control |
| Obstacle tracker (`prox_mpc_obstacle_tracker`) | tracks (IMM filters, `misses`, ids), last stamp; node lifecycle | `predict`, `update`, `reset`; scan callback, lifecycle transitions; process driver | stamps that go backward; the scan's seam; teardown against a callback that waits for a transform; a stop racing the executor's start |
| Demo node (`prox_mpc_demo`) | simulated pose, waypoint, clock of the obstacles, last command | timer step | three ways out of a tick, each advancing the clock; several waypoints passed at once; a ramp that must end |
| Benchmark (`prox_mpc_benchmark`) | simulated plant, metrics of a run | plant and metrics nodes, timing wrapper, scripts | outside the control stack |
| Messages, test models, docs, CI | none | - | - |

### What makes each part correct

- *Control cycle.* The solver's rate anchor is the command the robot holds,
  whichever exit the last cycle took; accepted commands respect the platform's
  rate across faults; each budget escalates exactly when exhausted; a cancel ends.
- *Reference and modes.* A gear shift only from rest and after the dwell; a
  shift the plan asks for is eventually made; the yield's cap leaves the QP a
  feasible control; no mode reaches the next task.
- *Speed limit.* No request is lost; the bounds stay in the declared range; the
  limit in force was asked for.
- *Obstacle feed.* What the callback had does not outlive a deactivation, nor the
  predictions a task; stale
  messages are not acted on and fresh ones are; a slot is one object over the
  horizon; the slots go to the objects met first; no object loses both its
  half-plane and its cells.
- *Core MPC.* What is retained is of one accepted cycle and finite; candidates
  build on nothing else; a fault does not outlive its cause; the solver and the
  data one `init()` made keep one size, whatever later calls do before they throw.
- *QP assembly.* Every declared row is filled, within its columns; a coupling
  between two nodes is of the obstacles of this solve.
- *Tracker.* Objects reach it whole; a track is confirmed and dropped after
  exactly the configured counts; its clock is off by the steps back in time and
  no more; nothing a callback uses is torn down under it; a stop always ends.
- *Demo.* Arrival only along the route and with the robot at rest; the field the
  solver avoids moves with the clock on every tick; failed solves bring the
  robot to a standstill.

The hazards, each at its line, are listed in `PROJECT.json`.

## 2. Plan

The order puts first what decides the command a robot receives.

| Step | Module | Composes / refines | Status |
|---|---|---|---|
| 1 | `ControlCycle` (+ Proofs) | plugin, server, base, anchor of the MPC | done |
| 2 | `AcceptedStore`, `MpcTransaction` (+ Proofs) | the second implements the first | done |
| 3 | `SpeedLimitExchange` (+ Proofs) | two threads, atomics | done |
| 4 | `TravelReference` (+ Proofs) | latched modes, cap | done |
| 5 | `ObstacleFeed` (+ Proofs) | executor, fill, lifecycle | done |
| 6 | `SlotCapacity`, `ObstacleSlots` (+ Proofs) | ranking of tracks, exclusions, the costmap scan's object binding, against the threads that change the costmap | done |
| 7 | `Clustering`, `ObjectTracker` (+ Proofs) | segmentation, then association, birth, misses, stamps, ids; the second extends the first | done |
| 8 | `TrackerProcess` (+ Proofs) | lifecycle, scan callback, main thread, signal and watcher, in both hosts | done |
| 9 | `QpLayout`, `MpcConfig` (+ Proofs) | setters, `init()`, goals, and the assembly over them; the second extends the first | done |
| 10 | `SimulationNode` (+ Proofs) | the demo's loop over any solver result | done |
| 11 | proofs of `ObstacleSlots`, `ObjectTracker` and the assembly of `QpLayout` | `ObstacleProofs`, `TrackerProofs`, `MpcConfigProofs` | done |
| 12 | plant watchdog and run bookkeeping of the benchmark | - | left out, section 8 |

`AcceptedStore` is the abstract specification; `ObstacleSlots` and
`ObjectTracker` state what they promise as invariants and action properties over
history (the owner of a row; which scans matched a track).

## 3. Modules and the code

`PROJECT.json` maps every definition to its lines. In short:

**ControlCycle** models the plugin as one server thread drives it. The actions
of `Cycle` are the exits of `computeVelocityCommands()`: a bad pose, the cancel
brake, an empty plan, a missing transform, a non-finite plan, a failed or
non-finite solve, a footprint veto, a non-finite twist, acceptance. `MakeBrake`
and `Fail` are the lambdas of the same name, `Throw` an exception, after which
`Tolerate` or `Abort` is the server's move. Speeds are integers in units of one
rate step; the bicycle's second control is a steering rate, which a body twist
does not determine (`Observable`). External, modelled from what the plugin relies
on: the controller server (tasks, `failure_tolerance`, the zero twist it
publishes at the end of a task) and a base that reaches the twist it was sent.
Abstracted: the base follows commands within one step and adds no noise, so a
measured brake seed lies in the model's box; a footprint veto or a solver failure
is a free choice. `deactivate()` clears none of the cycle's state (`ctl` 832);
`activate()` and `reset()` do.

**MpcTransaction** models retained and staged arrays of `prox_mpc::MPC`, the SQP
loop, `commitCandidate()`, `solve()`, `setU0()` and the QP workspace. An array is
the cycle its increments came from, the cycle it was built on, and the parts of
its horizon (first row, rest) that are not finite. `api` says which calls the
caller makes - the plugin uses the pair, the demo `solve()` - and `warm_start`
whether the workspace is kept. A QP with a non-finite operand returns non-finite
increments and does not converge; with `calm` (the problem is solvable) and clean
input it converges; otherwise anything may come out. Cycle identities are reused
once nothing holds them.

**AcceptedStore** is what the pair promises: a trajectory retained as a whole and
only from an accepted cycle, and an anchor that moves with it or is overridden.
`MpcTransaction` implements it under `retained <- x.of`, `anchor <- u0.of`.

**MpcConfig** models one MPC object from construction on: each setter with its
checks and what it recomputes (`dt`, `T`), `init()` as its outcomes
(`InitRejected`, `SolverRejected`, `InitWithoutHorizon`, `InitDone`), the goals, the
trajectory of `setX()` and the obstacle matrix, and a solve as the checks and reads it
makes of them. `init()` has no check that it ran before, so each outcome may come on
an initialized object and with another model: the model, `n`, `m` and the defaulted
weights are rewritten before anything can throw, the buffers before the new solver
can, and `initialized` stays true throughout. `configProxQP()` is public and may be
called again (`Reconfigure`, `ReconfigureRejected`, `ReconfigureUndefined`), and so
are `Np` and `Nc`, which a caller can assign past the setters (`Assign`). A rejected
setter changes nothing and is no step; a rejected `init()` is one, because it has
already written. Weights are their dimension, goals and trajectories their shape.
Reading past a matrix, or an empty control buffer, is undefined behaviour and ends in
`broken`. A solver whose configuration threw (`NoSolver`) has neither sizes nor
matrices to rely on: a solve on it is undefined too. **QpLayout** is where `ProxQP`
writes: the running sums of block sizes and the row and column of every entry of
`setE()`, `setC()` and `setd()`, as sets of positions. Coefficients are left out.

**SpeedLimitExchange** takes every atomic access as a step. The relaxed stores may
become visible in either order and the relaxed loads be made in either order; the
release store follows the first, the acquire exchange precedes the second.

**TravelReference** models the modes. A cycle is `Refer` (reference and speed box)
and then one of `Accept`, `Brake`, `Throw`; `EarlyBrake` is a cycle that ends
before the reference. A plan is what the modes read of it: whether a segment is
left, its way, the arc length to the plan's end and to the next cusp. The depth
of the predicted breach is a free choice, the solver's control any feasible one: it is
feasible around `anchor`, MPC's `u0`, which a command moves and `reset()` does not. A
brake ramps down from the measured speed or, when that is not finite, from the last
command (`Ramp`); the base reaches the speed it was sent, or the zero the server sends
after an exception (`Track`, external).

**ObstacleFeed** models the subscription's queue, the callback, and the fill as
one step per region locked by `obstacles_mutex_`. A message is its age and how
many of its tracks pass the filters; ages are taken relative to the present, so
time is bounded by `Old`, beyond which every message is stale. A message carries its
`past` as history: published since the last deactivation, queued at it, or had by the
callback before it. `Deactivate` leaves the queue, tags it, and requires an idle
control thread: Nav2 joins it first, which is the ordering the comment at `ctl` 839
names as upstream's.

**SlotCapacity** is what the feed and the fill share: the slots, and how many of
them moving tracks may take (`Selected`, the code's `n_dyn`).

**ObstacleSlots** models one fill of the obstacle matrix: `Begin` ranks the moving
tracks and writes their rows; then for every node `ScanNode` (one locked read of the
costmap), one `Represent` per representative with its object match, `NextNode`; and
`WriteSlots` ranks the objects and writes where they were seen. `UpdateCostmap` is
the costmap's thread, between any two reads. Cells, nodes and tracks are places of a
finite metric, the search disc is `Reach`, the tie order of `std::sort` is open.
A row carries its `owner`, which the code does not store: it is what the properties
compare. The code's own test that a claimed object is not matched twice
(`last_node`) is kept, although representatives a cluster radius apart make it
redundant.

**Clustering** is `cluster_points()` on a full turn of beams at one range, with
jumps between chosen neighbours: segments, the seam splice, the size and radius
filters, the cap. **ObjectTracker** extends it with `Tracker::update()` and
`reset()`: one `Scan` predicts, associates (any maximal closest-first matching),
updates, counts, drops and starts tracks. A filter is a place that a prediction
moves by at most `Wobble`; an update, which blends two motion models and weighs them
anew (`imm_filter.cpp:300`), ends anywhere `Pulls` allows from the measurement. `clock`,
`rewound`, `seen` and `earned` are history of a track.

**TrackerProcess** models the node's transitions as the sequence of steps another
thread can see (`Declare` to `Release`), the scan callback from the executor taking a
scan to its publication, and the two hosts: the standalone `main()` with its signal
handler, watcher thread and `finalize()`, and a component container whose threads
overlap. The `rclcpp` state machine and executor are external: transitions from
their legal states, an error in `on_deactivate()` ending in `finalized`, the state of
an activated node changing (`Activated`) only after `on_activate()` has raised the
flag (`Go`) and returned, so a scan may be worked on in between. The content
of a scan is `ObjectTracker`'s.

**SimulationNode** models `step()`: the waypoint follower, the arrival test, the
goal heading on the robot's branch, the obstacle rows over the horizon, and the
three ways out (`Park`, `Brake`, `Drive`), each with its advance of the clock. The
solver returns any status, twist and next pose, NaN included. Places are on a line,
headings count fractions of half a turn, time counts ticks modulo a common period of
the obstacles' motions. `route` is history: the waypoints really reached, in order.

The `MC*` modules define boxes, requests, geometry and scans for TLC. A definition
whose name ends in a suffix (`BrakeToward_Crosses`) is a mutant of the definition
after it, and is used only to show that a property can fail.

## 4. Runs

| Run | Shows | Bounds, and why they are enough |
|---|---|---|
| `cycle` | type, `AnchorFollowsCommand`, `FaultBudget`, `AcceptedWithinRate` on a unicycle | speeds -1..3, so that a brake takes several steps and reverse differs from forward; two faults per budget, so that both budgets fill and mix; brake periods 1 and 2; limits 0, 1 and one above the range |
| `cancel` | a cancel ends, on a bicycle, whatever faults | one fault per budget: each further fault repeats the same states; brake periods 1 and 2, so a ramp that did not stop at zero would swing across it |
| `transaction` | `RetainedUsable`, `CandidateBuildsOnRetained`, `ImplementsStore`, `Recovers` | two SQP iterations (first, later); four cycle identities, one more than can be held at once |
| `limit` | type, `LatestLimitInForce`, `LatestLimitTakesEffect` | an absolute, a relative and no limit: any two differ in value, in unit or both |
| `limit_torn` | a sentence of the repository that the code contradicts (section 7) | as `limit` |
| `reference` | type, `YieldLeavesControl`, `GearShift`, `TaskStartsClean`, `CuspIsPassed` | a dwell of three periods with cycles of one or two, speeds -1..2 with limits of 1 and 2, so a change waits for the standstill, for the dwell, or both, and the limit drops under the speed; the measured speed lags the command, so the two seeds of a ramp differ. With distances up to 2, settling is never left by distance alone |
| `feed` | `CurrentPerception`, `SilentTrackerForgotten` | timeout, delay, skew and cycle length of one unit each: a message can be fresh, stale, future-dated, and change between stamp and snapshot; a queue of two, so it overflows and holds one message of each side of a deactivation |
| `slots` | `SlotCarriesOneObject`, `EverySightingWritten`, `EarliestEncounterFirst`, `NothingOverlooked` | a lane of five cells and one place off the map, horizon 3: a track, two static objects and an unfilled row meet in 2 slots; one dynamic slot for up to three tracks, so tracks lose; a moving, a resting and a leaving robot, so the scan window slides, stands and falls off the map |
| `config` | `ConfiguredAsBuilt`, `SolvesInBounds`, `AssemblyInBounds`, `CouplingIsCurrent` | horizons 0 to 2: unset, the case of one control (no rate block), and the first with a node coupled to another and fewer controls than states; three models any of which any `init()` may be given: a planar one, one whose y is not a state, and one without avoidance with more controls than states; a weight that fits one of them and one that is malformed; two shapes of goals and trajectories, one per kind of model; an assigned pair with the control horizon past the other |
| `demo` | `ArrivedByTheRoute`, `FieldShifts`, `Arrives`, `FailuresStop` | four places, three waypoints with two within one tolerance, so one tick passes two and the route comes back across its start; two obstacles in a capacity of one; a period of two; a ramp of two steps on one axis, and a bound of zero on the other, so the fallback is taken and saturates |
| `tracker` | `ObjectsStayWhole`, `ConfirmedWhenEarned`, `ClockAheadByRewinds`, `OneTrackPerObject`, `KeepsItsTrack` | six beams with one jump: every scan is clustered once as a first one, then none, one or three objects are tracked in room for two; confirmation at 2, drop after 1, so a hit, a miss and a hit differ from two hits; two stamps, one step back per track; updates that end on the measurement or half a beam off it |
| `tracker_process` | `UsesWhatExists`, `OutputOnlyWhileActive`, `TransitionsEnd`, `StopEndsProcess` | none: the state space is finite as it is |

Deadlock is checked in every passing run but two, which stop where the system
does: an object whose memory was overrun (`config`, `broken`) and a process that has
exited (`tracker_process`; that nothing else stops is `StopEndsProcess` and
`TransitionsEnd`).

Bounds in the guards: `MaxRewound` and `MaxId` in `ObjectTracker` (a track that has
lived through more steps back, or an id beyond, is not followed; `reset()` restarts
both, and identities play no part in the matching), `MaxElapsed` and `Old` in
`ObstacleFeed`, `Patience` and `MaxPeriod` in `ControlCycle`, the reuse of cycle
identities in `MpcTransaction`.

What the properties say, beyond their comments:

- `AnchorFollowsCommand`, `AcceptedWithinRate`. Every braking exit must call
  `setU0()` and every accepting one commit, or the next accepted command may
  jump by more than the platform's rate. A property of the cycle's exits taken
  together, over any sequence of them.
- `FaultBudget`. Between two accepted commands the robot brakes on at most twice
  `max_solver_failures` faults, and is given up no earlier than at that many.
- `Recovers` holds while the workspace is rebuilt for each sub-problem. With it
  kept, a non-finite iterate can return for ever: this is why the premise is
  there.
- `CuspIsPassed` has a premise on the solver: under a reference that holds
  position, commands get slower. Nothing in the controller makes the robot stop
  there but the tracking of that reference.
- `SilentTrackerForgotten` has the premise that cycles keep reaching their fill:
  cycles that brake before it leave the old predictions in place, and the yield of
  the next full cycle reads them once more.
- `SlotCarriesOneObject` holds although the costmap changes between the reads of
  two nodes: the binding is by place, so an object that moved farther than a cluster
  radius is a new one. It does not say that the object is physically the same.
- `NothingOverlooked`: a track that got no slot does not hide the costmap cells under
  it, so an object is never lost to both representations.
- `CouplingIsCurrent` is about matrices kept between solves: a slot that empties
  loses its gradient because every assembly rewrites the position, with zero.
- `ConfiguredAsBuilt` lets the model on record be another than the solver's: an
  `init()` that throws on an initialized object has replaced it, and `n` and `m` with
  it, by then. What must hold is that it throws before it touches the buffers, or with
  buffers and solver made anew together; the mutant sizes the buffers first.
- `SolvesInBounds` counts a goal as checked when it was set on an initialized object
  whose model's dimensions an `init()` has accepted. It survives every later `init()`
  because the weights, once set or defaulted, fix the dimensions of every model that
  is accepted after (`Defaulted`); if each `init()` set them anew, a goal of the old
  model would be read with the sizes of the new. A goal set before `init()` or after
  one that rejected the model is not checked again (section 7).
- `YieldLeavesControl` starts at a task's first command. The cap is reckoned from the
  last command and the rate rows from the solver's anchor; the property says the two
  stay together through every brake. Before that command they differ (section 7).
- `CurrentPerception` does not say that a message queued at a deactivation is dropped:
  the code may act on it (section 7). It says that it is not acted on once a message
  published since has been delivered.
- `ClockAheadByRewinds` bounds what a stamp that goes back does to a filter.
- `OutputOnlyWhileActive` holds in a container too: the flag goes up only when nothing
  of the activation is left to do, and the callback and a teardown exclude each other
  by the mutex, with the flag lowered before the release waits. Between the flag and
  the change of state a scan is worked on and published in a node that `rclcpp` still
  calls activating; the property admits that window and no other.
- `Arrives` has the premise that driven ticks bring the robot nearer to its waypoint,
  which is the solver's part; the node's part is that nothing else keeps it from
  arriving, whatever it passes on the way.

## 5. Fairness

- `ControlCycle`: the server's loop runs while a task is active (weak fairness of
  the cycle, of `cancel()` and of the handling of an exception) and the base
  reaches its twist. The server's `computeControl` loop is exactly that; no
  fairness is assumed of acceptance, so cancel completes even when every cycle
  faults.
- `MpcTransaction`: the caller's loop keeps opening and finishing cycles. Which
  end a cycle has is the caller's choice, except that it commits an acceptable
  candidate of a calm problem.
- `SpeedLimitExchange`: a call of `setSpeedLimit()` returns, and the control thread
  goes on.
- `TravelReference`: a task's cycles run (weak), and do not end in an exception for
  ever (strong fairness of `Accept \/ Brake`): `failure_tolerance` ends the task
  otherwise. The base reaches the speed it was sent (weak fairness of `Track`).
- `ObstacleFeed`: the executor spins, cycles run, time passes.
- `SimulationNode`: the wall timer fires (weak fairness of the whole tick). Which
  of its ends a tick takes, and so whether the solver ever solves, is free.
- `TrackerProcess`: a transition in progress, a callback in progress, `main()` and the
  watcher go on (weak fairness each): they are threads, and the wait for a transform
  has a timeout. Scans, requested transitions and signals may never come. One
  assumption is about time: the executor starts to spin within the second the watcher
  waits for it (`MayCancel`). If it did not, `cancel()` would be lost and the process
  would run on (`main.cpp:115`).

`ObstacleSlots`, `MpcConfig` and `ObjectTracker` have no liveness: their operations
are loops over finite data, or calls that return.

## 6. Proofs

All theorems hold for every value of the constants that satisfies the named
assumptions: bounds that straddle zero and positive rates (`BoxAssumption`,
`SpeedAssumption`, `RangeAssumption`), natural budgets, periods and times, a route
that is not empty and speed sets without holes for the demo (`WaypointAssumption`,
`CommandAssumption`), models with at least one state and control whose bounds are on
their own states and controls (`ModelAssumption`), at least one node and one slot
(`SizeAssumption`, `SlotAssumption`), distances that are naturals and a positive
cluster radius (`DistanceAssumption`; the fill needs no law of a metric), a scan of
two beams or more (`SweepAssumption`) and counts of the tracker that are counts
(`TrackerAssumption`).
The plugin refuses a model without a positive upper speed bound (`ctl` 735); the
other signs are those the shipped models declare.

| Theorem | Statement | Argument |
|---|---|---|
| **ControlCycle** | | |
| `TypeCorrect` | `Spec => []TypeOK` | one lemma per pure part (ramp, limit, box); the ramp saturates, so it never leaves a box that straddles zero |
| `AnchorCorrect` | `Spec => []AnchorFollowsCommand` | inductive together with the type and `TaskInv`: between tasks the robot is halted |
| `AcceptedRateCorrect` | `Spec => AcceptedWithinRate` | the anchor invariant, and that a feasible control is within one rate step of the anchor |
| `BudgetCorrect` | `Spec => []FaultBudget` | strengthened to `BudgetInv`: the fault brakes are the two counters, each up to its budget |
| **MpcTransaction** | | |
| `TransactionTypeCorrect` | `Spec => []TypeOK` | inductive as it stands |
| `UsableCorrect` | `Spec => []RetainedUsable` | `StagedInv`: staged arrays move together, are new once an iteration ran, and `cand_finite` describes them |
| `BuildsCorrect` | `Spec => []CandidateBuildsOnRetained` | `StagedInv` fixes what an offered candidate was built on; no step of an open cycle moves the retained arrays |
| `StoreImplemented` | `Spec => ImplementsStore` | the same invariant; each action maps to an action of the store or a stutter |
| **MpcConfig** | | |
| `ConfigTypeCorrect`, `HorizonCorrect` | type; step, time and nodes agree | `dt` is recomputed by each of the three setters from the other two; products, not quotients |
| `BuiltCorrect` | `Spec => []ConfiguredAsBuilt` | `SolverInv`: what a configured solver is configured for; `BuiltInv`: weights and members agree with it, buffers change only along with it; one lemma per outcome of `init()` and of `configProxQP()` |
| `GoalsCorrect` | `Spec => []SolvesInBounds` | `GoalInv`: once an `init()` has accepted a model the weights fix the dimensions, so every solver configured later has those a checked goal was checked against |
| `CouplingCorrect` | `Spec => []CouplingIsCurrent` | `CouplingInv`: the gradient lies within the declared couplings, which every assembly rewrites |
| `AssemblyCorrect` | `Spec => []AssemblyInBounds` | `WellFormed`: the problem of an initialized object. `EndsAre`, `RowsPart`: the running sums exist and part the rows into blocks; `RowIs`: what a row holds is what its block puts there; then `Within` and `OnePlace`, places in consecutive blocks of equal size do not meet |
| **SpeedLimitExchange** | | |
| `BoundsCorrect`, `LatestLimitCorrect` | `[]TypeOK`, `[]LatestLimitInForce` | what the cell and the registers hold at each access (`StoredInv`, `LoadedInv`) |
| **TravelReference** | | |
| `BoxCorrect`, `YieldLeavesControlCorrect` | `[]TypeOK`, `[]YieldLeavesControl` | `BoxInv`: the cap is not under the reachable speed unless the limit is, and past a task's first command the anchor is the last command |
| `GearShiftCorrect`, `TaskStartsCleanCorrect` | `GearShift`, `TaskStartsClean` | `ModeInv` keeps the modes in their domains; only `Refer` and the start of a task write them |
| **ObstacleFeed** | | |
| `PerceptionCorrect`, `FeedTypeCorrect` | `[]CurrentPerception`, `[]TypeOK` | `PerceptionInv`: the predictions belong to the running task and there are none between tasks; `QueueInv`: in the queue nothing queued at a deactivation comes after what was published since |
| **ObstacleSlots** | | |
| `FillTypeCorrect` | `FillSpec => []FillTypeOK` | where a fill stands in each phase |
| `SlotsCarryOneObject` | `[]SlotCarriesOneObject` | `RowsInv` says whose a row is in each phase, `SightInv` that an object is a gap-free chain of sightings, one per node, each near the one before |
| `SightingsWritten`, `EncountersInOrder` | `[]EverySightingWritten`, `[]EarliestEncounterFirst` | `OneHitPerRow`; a rank is the size of the set of those before (`RankGrows`), and the ranks of the first `j` objects are `0 .. j - 1` (`RankReached`) |
| `ReadsAccountedFor` | `[]NothingOverlooked` | `BindInv`: what a node's read found, and that every representative is nearer than all that is left |
| **Clustering**, **ObjectTracker** | | |
| `TracksTypeCorrect` | `Spec => []TracksTypeOK` | an identity is drawn from a counter past every live one |
| `ClustersWhole` | `[]ObjectsStayWhole` | the segments part the scan between its gaps, and the splice joins the two at the seam |
| `ConfirmationEarned` | `[]ConfirmedWhenEarned` | `Counts`: hits and misses count the run the log ends with |
| `ClockKeepsRewinds` | `[]ClockAheadByRewinds` | inductive with the types |
| `ObjectsGetOneTrack` | `OneTrackPerObject` | the tracks that met a cluster inject into the clusters; the others are carried without one |
| `NeighboursStay` | `KeepsItsTrack` | a maximal matching of closest pairs takes the pair that is alone in the gate; the triangle inequality of the ring |
| **TrackerProcess** | | |
| `ProcessTypeCorrect` | `[]TypeOK`, the mutex rule included | `ControlOK` gives the program counters their values |
| `CallbackUsesWhatExists`, `NoOutputUnlessActive` | `[]UsesWhatExists`, `[]OutputOnlyWhileActive` | `LifeInv` ties each step of a transition to the node's state and flag, `HoldsInv` says what a callback holds; a release needs the mutex the callback has |
| `ActivationStartsFresh` | `Spec => FreshStart` | between `Restart` and `Go` the flag is down, so no scan passes its guards and the tracker stays empty |
| `ExitsFinalized` | `Spec => []FinalizedAtExit` | `MainInv` ties `main()`'s position in `finalize()` to the node's state |
| **SimulationNode** | | |
| `DemoTypeCorrect` | `[]TypeOK` | what the two `CHOOSE`s of angles return (`RemainderIs`, `NormalizedIs`), from division lemmas |
| `ArrivalCorrect`, `ParkingCorrect` | `[]ArrivedByTheRoute`, `ParkedForGood` | `FirstStop`: the follower's loop has an end; from it what `Advanced` and `Reached` return |
| `FailuresCorrect` | `FailuresSlowDown` | `BrakeTowardIs`: each axis goes to zero or nearer to it |
| `FieldCorrect` | `FieldShifts` | every exit advances the clock; the period divides what a tick adds |
| `TurnCorrect` | `ShortestTurn` | `RemainderIs` |

An inductive invariant is always the conjunction of the named parts above, and was
model-checked before it was proved.

Only model-checked:

- everything under fairness (`CancelCompletes`, `Recovers`,
  `LatestLimitTakesEffect`, `CuspIsPassed`, `SilentTrackerForgotten`, `Arrives`,
  `FailuresStop`, `TransitionsEnd`, `StopEndsProcess`): `ENABLED`, on which fairness
  rests, is beyond the installed provers.

That is every property of the runs that is not proved. No module uses a `RECURSIVE`
operator; the running sum of block sizes is a recursive function over the blocks, and
that it exists is `SumsExist`, by the least block for which it would not.

## 7. Where the code and its text disagree

With a run:

- `limit_torn`: overlapping a second `setSpeedLimit()`, a cycle can pair the new
  value with the old unit; `prox_mpc_controller.hpp:415` says the release/acquire
  pair publishes them together. The request that follows corrects it one cycle
  later (`LatestLimitTakesEffect`).

Without a run, seen while modelling and kept in the models as the code has it:

*Controller plugin.*

- `veto_count_` is documented as consecutive (`prox_mpc_controller.hpp:423`); it is
  cleared by an accepted command or a reset only, so vetoes separated by other faults
  add up (`ctl` 1676).
- `reset()` and `activate()` clear `last_cmd_u_` and not the MPC's `u0` (`ctl` 1793).
  The first solve of the next task is bound around the last command of the previous
  one, where the comment at `ctl` 1439 says the command last applied.
- A speed limit narrows the box at once (`ctl` 1774). "The constant sequence is
  feasible" (`doc/controller-comparison-results.md:189`) fails, and with a drop of
  more than one rate step no first control is feasible until the brake has slowed the
  robot. For the same reason the hard cap, said never to fall below the reachable
  speed at `ctl` 1438, does.
- A message stamped after the cycle's stamp is rejected by `age >= 0.0` (`ctl` 1881)
  and the cycle falls back to the costmap, although its stamp is within
  `obstacle_timeout` of the command's (`control-law.md:109`).
- A plan of one pose sets the direction to forward without the two gates that
  `doc/architecture.md:161` of the controller states for every change (`ctl` 1170,
  `Steer`).
- A cycle with a zero reference speed, or one that settles, restores the full
  cruise at once, past the bounded recovery of `prox_mpc_controller.hpp:448`
  (`ctl` 1427, `Yield`).
- "A re-activated controller does not act on a tracked obstacle observed before
  deactivation" (`ctl` 837): the subscription outlives the deactivation, so a
  message observed before it and delivered after it is cached, and used if the
  controller is active again within the timeout. `CurrentPerception` claims only
  that nothing published since is replaced by it.
- "The predictions are the ones the previous cycle's fill retained" (`ctl` 1383):
  after cycles that braked before their fill they are older.
- A limit consumed under one configuration is not re-applied after `cleanup()` and
  `configure()` (`ctl` 632).

*Core.*

- With the workspace kept, a rejected cycle's iterate is what the next sub-problem
  starts from (`proxqp.cpp:341`), while `ctl` 1556 says a rejected cycle does not
  warm-start the next one.
- A goal set before `init()` is not checked against the dimensions `init()` reads
  (`mpc.cpp:451`), where `test_config_lifecycle.cpp:258` says it "is then validated
  retroactively"; a goal that is too small is read past its end.
- `setT()` accepts a NaN or an infinite time (`mpc.cpp:430`); the model's times are
  positive.
- `init()` with an unset control horizon reads the first row of an empty buffer
  (`mpc.cpp:106`, `InitWithoutHorizon`).
- Weights defaulted from a model stay after a failed `init()`, and a later `init()`
  with a model of other dimensions is rejected for them (`mpc.cpp:74`).
- An `init()` that throws on an initialized object leaves `initialized` true over the
  model, `n` and `m` it was given, or over a solver whose configuration threw
  (`mpc.cpp:70`, `InitRejected`, `SolverRejected`): goals are then checked against
  dimensions the solver does not have, or a solve runs on no solver at all. Assigning
  `Np` or `Nc` after `init()` does the same.

*Tracker.*

- A node can be configured once: `on_configure()` declares its parameters again and
  throws (`obstacle_tracker_node.cpp:68`), whereas the documented lifecycle has a way
  back from `cleanup`, and from a configuration rejected for a parameter.
- `architecture.md:110` of the tracker says a track is dropped after `drop_count`
  consecutive misses; it is after one more (`tracker.cpp:155`).
- Stamps 10, 9, 10 leave a track predicted one unit ahead for the rest of its life,
  because the time elapsed is taken from the previous call's stamp, clamped at zero
  (`tracker.hpp:68`, `tracker.cpp:69`); `ClockAheadByRewinds` states what does hold.
- A failed activation leaves the publisher activated and the transform listener alive
  (`Subscribe`); `OutputOnlyWhileActive` holds all the same, by the flag.
- A scan taken in one activation whose callback waits for the mutex through a
  deactivation and a re-activation is fed to the new activation's tracker, once its
  flag is up (`Enter`); `FreshStart` is about the time before that.

*Demo.*

- While the node brakes, the robot's pose is held and the published command is not
  zero, and the solver's anchor stays at the last solved control: the next accepted
  command may be farther than a rate step from the published one.

## 8. Not modelled

- The numbers: QP matrices, linearisation, Jacobians and discretisation of the
  models, the IMM and Kalman filters, the geometry of projection, sampling and
  curvature, all over reals. What the control flow reads of them (converged, finite,
  feasible, in the box, arc lengths, ages, places) is in the models, chosen freely.
- The benchmark. The plant and the scan simulator stand in for a robot and a lidar,
  the metrics node and the timing wrapper measure a run, and the scripts launch
  processes and compute statistics: none of them takes part in what the controller
  promises, and what they do is arithmetic and file I/O.
- Of the MPC object: assignments to the public `n`, `m`, `dt`, `T` and counts of
  constraints, the lengths given to `setU0()` and `setPose()`, and `configProxQP()`
  before an `init()` has completed.
- Solver tuning setters (iteration caps, tolerances, time budgets) as such; that an
  iteration cap or a time budget strikes is in `MpcTransaction`.
- Conversion of ROS messages, markers, diagnostics, logging, parameter reading.
- Memory reclamation under `cleanup()` while a cycle of the controller runs: the
  server excludes it.
- Message definitions, test models, launch files, CI and documentation.
