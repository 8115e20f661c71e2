------------------------- MODULE ControlCycleProofs -------------------------
(***************************************************************************)
(* Proofs about ControlCycle, for every model box, budget and period.      *)
(***************************************************************************)
EXTENDS ControlCycle, TLAPS

\* Everything a proof about one action may need of the constants.
LEMMA Constants ==
  /\ \A c \in Channels : Low[c] \in Int /\ Upp[c] \in Int /\ Low[c] <= 0 /\ 0 <= Upp[c]
  /\ \A c \in Channels : DuLow[c] \in Nat /\ DuUpp[c] \in Nat
  /\ VMax \in Nat /\ VMin \in Int
  /\ MaxFailures \in Nat /\ Patience \in Nat /\ SteerMax \in Nat
  /\ HasSteering \in BOOLEAN
  /\ Observable \subseteq Channels /\ (~HasSteering => Observable = Channels)
  BY BoxAssumption, SteeringAssumption, BudgetAssumption
     DEF Controls, Channels, VMax, VMin, Observable

\* Membership in the model box, channel by channel.
LEMMA InModelBox ==
  ASSUME NEW u \in Controls, \A c \in Channels : u[c] \in Low[c]..Upp[c]
  PROVE  u \in ModelBox
  BY Constants DEF ModelBox, Controls, Channels

\* A control in the model's box is a control, each channel within its bounds.
LEMMA OfModelBox ==
  ASSUME NEW u \in ModelBox
  PROVE  u \in Controls /\ \A c \in Channels : u[c] \in Low[c]..Upp[c]
  BY Constants DEF ModelBox, Controls, Channels

\* A box that straddles zero is closed under the ramp (brake_toward()).
LEMMA BrakeStaysInBox ==
  ASSUME NEW lo \in Int, NEW hi \in Int, lo <= 0, 0 <= hi,
         NEW prev \in lo..hi, NEW low \in Nat, NEW upp \in Nat, NEW period \in Nat
  PROVE  BrakeToward(prev, low, upp, period) \in lo..hi
  <1>1. low * period \in Nat /\ upp * period \in Nat
    OBVIOUS
  <1>2. QED
    BY <1>1 DEF BrakeToward, Maximum, Minimum

\* What activate(), reset() and init() zero is in its type.
LEMMA ZeroTypes ==
  /\ Zero \in ModelBox /\ Zero \in Controls
  /\ \A c \in Channels : Zero[c] \in Low[c]..Upp[c]
  /\ 0 \in (-SteerMax)..SteerMax /\ 0 \in 0..(MaxFailures + 1) /\ VMax \in 0..VMax
  /\ 0 \in 0..(Patience + 1) /\ 0 \in Nat
  <1>1. /\ Zero \in Controls
        /\ \A c \in Channels : Zero[c] \in Low[c]..Upp[c]
    BY Constants DEF Zero, Controls
  <1>2. QED
    BY <1>1, InModelBox, Constants

\* A speed limit, however requested, stays inside the model's bound.
LEMMA LimitInBound ==
  ASSUME NEW request \in SpeedLimits
  PROVE  AppliedLimit(request) \in 0..VMax
  BY Constants, InputAssumption DEF AppliedLimit, Minimum

\* The speed limit a cycle runs under is in the declared range.
LEMMA CycleLimitInBound ==
  ASSUME TypeOK
  PROVE  CycleLimit \in 0..VMax
  BY LimitInBound DEF TypeOK, CycleLimit

\* The brake leaves every variable it assigns in its type.
LEMMA BrakeTypes ==
  ASSUME TypeOK, MakeBrake
  PROVE  /\ last_cmd_u' \in ModelBox /\ u0' \in ModelBox
         /\ last_cmd' \in Controls
         /\ \A c \in Observable : last_cmd'[c] \in Low[c]..Upp[c]
         /\ steering_state' \in (-SteerMax)..SteerMax
         /\ thrown' = "none" /\ patience' = 0 /\ halted' = FALSE
         /\ u0' = last_cmd_u'
  <1> DEFINE delta(period) ==
               IF HasSteering
               THEN BrakeToward(steering_state, -Low["w"], Upp["w"], period)
               ELSE steering_state
             fallback(measured, period) ==
               [c \in Channels |-> IF c \in measured
                                   THEN BrakeToward(odom[c], DuLow[c], DuLow[c], period)
                                   ELSE 0]
  <1>1. PICK measured \in SUBSET Channels, period \in 1..MaxPeriod, finite \in BOOLEAN :
          LET u == RampedControls(measured \cap Observable, period)
          IN /\ steering_state' = delta(period)
             /\ last_cmd_u' = u
             /\ last_cmd' = IF finite THEN ToTwist(u, delta(period))
                                      ELSE fallback(measured, period)
             /\ AnchorOnBrake(u)
             /\ Returned
    BY DEF MakeBrake
  <1> DEFINE seen == measured \cap Observable
             u == RampedControls(seen, period)
  <1>2. period \in Nat
    BY PeriodAssumption
  <1>3. \A c \in Channels : Seed(seen)[c] \in Low[c]..Upp[c]
    BY OfModelBox, Constants DEF TypeOK, Seed
  <1>4. u \in Controls /\ \A c \in Channels : u[c] \in Low[c]..Upp[c]
    <2>1. ASSUME NEW c \in Channels
          PROVE  u[c] \in Low[c]..Upp[c] /\ Low[c] \in Int /\ Upp[c] \in Int
      <3>1. u[c] = BrakeToward(Seed(seen)[c], DuLow[c], DuUpp[c], period)
        BY DEF RampedControls
      <3>2. /\ Low[c] \in Int /\ Upp[c] \in Int /\ Low[c] <= 0 /\ 0 <= Upp[c]
            /\ DuLow[c] \in Nat /\ DuUpp[c] \in Nat
        BY Constants
      <3>3. Seed(seen)[c] \in Low[c]..Upp[c]
        BY <1>3
      <3> HIDE DEF u, seen
      <3>4. BrakeToward(Seed(seen)[c], DuLow[c], DuUpp[c], period) \in Low[c]..Upp[c]
        BY <3>2, <3>3, <1>2, BrakeStaysInBox
      <3>5. QED
        BY <3>1, <3>2, <3>4
    <2>2. u = [c \in Channels |-> u[c]]
      BY DEF RampedControls
    <2> HIDE DEF u
    <2>3. \A c \in Channels : u[c] \in Int
      BY <2>1
    <2>4. u \in Controls
      BY <2>2, <2>3 DEF Controls
    <2>5. QED
      BY <2>1, <2>4
  <1>5. u \in ModelBox
    BY <1>4, InModelBox
  <1>6. delta(period) \in (-SteerMax)..SteerMax
    <2>1. -Low["w"] \in Nat /\ Upp["w"] \in Nat
      BY Constants DEF Channels
    <2>2. /\ steering_state \in (-SteerMax)..SteerMax
          /\ -SteerMax \in Int /\ SteerMax \in Int /\ -SteerMax <= 0 /\ 0 <= SteerMax
      BY Constants DEF TypeOK
    <2>3. BrakeToward(steering_state, -Low["w"], Upp["w"], period) \in (-SteerMax)..SteerMax
      BY <2>1, <2>2, <1>2, BrakeStaysInBox
    <2>4. QED
      BY <2>2, <2>3
  <1>7. ToTwist(u, delta(period)) \in Controls
        /\ \A c \in Observable : ToTwist(u, delta(period))[c] \in Low[c]..Upp[c]
    <2>1. delta(period) \in Int
      BY <1>6
    <2> HIDE DEF delta, u
    <2>2. u["v"] * delta(period) \in Int
      BY <2>1, <1>4 DEF Controls, Channels
    <2>3. QED
      BY <2>2, <1>4 DEF ToTwist, Controls, Channels, Observable
  <1>8. fallback(measured, period) \in Controls
        /\ \A c \in Observable : fallback(measured, period)[c] \in Low[c]..Upp[c]
    <2>1. ASSUME NEW c \in Channels
          PROVE  BrakeToward(odom[c], DuLow[c], DuLow[c], period) \in Int
      <3>1. odom[c] \in Int /\ DuLow[c] * period \in Int
        BY <1>2, Constants DEF TypeOK, Controls
      <3>2. QED
        BY <3>1 DEF BrakeToward, Maximum, Minimum
    <2>2. ASSUME NEW c \in Observable
          PROVE  BrakeToward(odom[c], DuLow[c], DuLow[c], period) \in Low[c]..Upp[c]
      BY <1>2, Constants, BrakeStaysInBox DEF TypeOK
    <2>3. QED
      BY <2>1, <2>2, Constants DEF Controls
  <1>9. QED
    <2> HIDE DEF u, delta, fallback
    <2>1. /\ steering_state' = delta(period) /\ last_cmd_u' = u /\ u0' = u
          /\ last_cmd' = IF finite THEN ToTwist(u, delta(period))
                                   ELSE fallback(measured, period)
          /\ Returned
      BY <1>1 DEF AnchorOnBrake, u
    <2>2. QED
      BY <2>1, <1>5, <1>6, <1>7, <1>8 DEF Returned

\* What the head of a cycle and a fault leave in their types.
LEMMA StartTypes ==
  ASSUME TypeOK, StartCycle
  PROVE  /\ lifecycle' = lifecycle /\ goal' = goal /\ polled' = FALSE
         /\ global_plan' = global_plan /\ cancelling' = cancelling
         /\ odom' = odom /\ limit' \in 0..VMax /\ pending' = None
  BY CycleLimitInBound DEF StartCycle

\* An exception keeps the commands and records itself in its type.
LEMMA ThrowTypes ==
  ASSUME TypeOK, NEW e \in {"NoValidControl", "InvalidPath", "ControllerTFError"},
         Throw(e)
  PROVE  /\ UNCHANGED <<halted, last_cmd_u, last_cmd, steering_state, u0, braked>>
         /\ thrown' = e /\ patience' \in 0..(Patience + 1)
  BY Constants DEF Throw, TypeOK, Minimum

\* A charged counter stays in its (capped) type.
LEMMA ChargeTypes ==
  ASSUME NEW count \in 0..(MaxFailures + 1)
  PROVE  Charged(count) \in 0..(MaxFailures + 1)
  BY Constants DEF Charged, Minimum

\* One cycle, whichever way it ends, keeps every type.
LEMMA CycleTypes ==
  ASSUME TypeOK, Cycle
  PROVE  TypeOK'
  <1>1. /\ lifecycle' = lifecycle /\ goal' = goal /\ polled' = FALSE
        /\ global_plan' = global_plan /\ cancelling' = cancelling
        /\ odom' = odom /\ limit' \in 0..VMax /\ pending' = None
    <2>1. StartCycle
      BY DEF Cycle, PoseFault, CancelBrake, PlanEmpty, TransformFault, PlanFault,
             SolverFault, FootprintVeto, CommandFault, Accept, Solve
    <2>2. QED
      BY <2>1, StartTypes
  <1> DEFINE Rest == /\ last_cmd_u' \in ModelBox /\ u0' \in ModelBox
                     /\ last_cmd' \in Controls
                     /\ \A c \in Observable : last_cmd'[c] \in Low[c]..Upp[c]
                     /\ steering_state' \in (-SteerMax)..SteerMax
                     /\ thrown' \in {"none", "NoValidControl", "InvalidPath",
                                     "ControllerTFError"}
                     /\ patience' \in 0..(Patience + 1) /\ halted' \in BOOLEAN
             Counters == /\ failure_count' \in 0..(MaxFailures + 1)
                         /\ veto_count' \in 0..(MaxFailures + 1)
                         /\ braked' \in Nat
  <1>2. ASSUME NEW e \in {"NoValidControl", "InvalidPath", "ControllerTFError"},
               Throw(e)
        PROVE  Rest /\ braked' \in Nat
    BY <1>2, ThrowTypes DEF TypeOK
  <1>3. ASSUME MakeBrake PROVE Rest
    BY <1>3, BrakeTypes, Constants
  <1>4. ASSUME Fail PROVE Rest /\ Counters
    BY <1>2, <1>3, <1>4, ChargeTypes DEF Fail, TypeOK
  <1>5. CASE PoseFault \/ PlanFault \/ SolverFault \/ CommandFault
    <2>1. Fail
      BY <1>5 DEF PoseFault, PlanFault, SolverFault, CommandFault
    <2>2. QED
      BY <2>1, <1>4, <1>1 DEF TypeOK
  <1>6. CASE CancelBrake
    <2>1. Rest /\ Counters
      BY <1>6, <1>3 DEF CancelBrake, TypeOK
    <2>2. QED
      BY <2>1, <1>1 DEF TypeOK
  <1>7. CASE PlanEmpty \/ TransformFault
    <2>1. Rest /\ Counters
      BY <1>7, <1>2 DEF PlanEmpty, TransformFault, TypeOK
    <2>2. QED
      BY <2>1, <1>1 DEF TypeOK
  <1>8. CASE FootprintVeto
    <2>1. Rest /\ Counters
      BY <1>8, <1>2, <1>3, ChargeTypes DEF FootprintVeto, TypeOK
    <2>2. QED
      BY <2>1, <1>1 DEF TypeOK
  <1>9. CASE Accept
    <2>1. PICK u \in Feasible(CycleLimit) :
            /\ Commit(u) /\ last_cmd_u' = u
            /\ last_cmd' = ToTwist(u, steering_state)
            /\ steering_state' = IF HasSteering THEN steering_state + u["w"]
                                                ELSE steering_state
      BY <1>9 DEF Accept
    <2>2. u \in ModelBox /\ (HasSteering => steering_state + u["w"] \in (-SteerMax)..SteerMax)
      BY DEF Feasible
    <2>3. u \in Controls /\ \A c \in Channels : u[c] \in Low[c]..Upp[c]
      BY <2>2, OfModelBox
    <2>4. steering_state \in Int /\ u["v"] \in Int /\ u["v"] * steering_state \in Int
      BY <2>3, Constants DEF TypeOK, Controls, Channels
    <2>5. /\ ToTwist(u, steering_state) \in Controls
          /\ \A c \in Observable : ToTwist(u, steering_state)[c] \in Low[c]..Upp[c]
      BY <2>3, <2>4 DEF ToTwist, Controls, Channels, Observable
    <2>6. failure_count' = 0 /\ veto_count' = 0 /\ braked' = 0 /\ Returned
      BY <1>9 DEF Accept
    <2>7. steering_state' \in (-SteerMax)..SteerMax
      BY <2>1, <2>2 DEF TypeOK
    <2>8. /\ last_cmd_u' \in ModelBox /\ u0' \in ModelBox /\ last_cmd' \in Controls
          /\ \A c \in Observable : last_cmd'[c] \in Low[c]..Upp[c]
      BY <2>1, <2>2, <2>5 DEF Commit
    <2>9. /\ thrown' = "none" /\ patience' \in 0..(Patience + 1) /\ halted' \in BOOLEAN
          /\ Counters
      <3>1. thrown' = "none" /\ patience' = 0 /\ halted' = FALSE
        BY <2>6 DEF Returned
      <3>2. failure_count' = 0 /\ veto_count' = 0 /\ braked' = 0
        BY <2>6
      <3>3. QED
        BY <3>1, <3>2, ZeroTypes
    <2>10. QED
      BY <2>7, <2>8, <2>9, <1>1 DEF TypeOK
  <1>10. QED
    BY <1>5, <1>6, <1>7, <1>8, <1>9 DEF Cycle

\* The steps outside the cycle keep every type.
LEMMA ServerTypes ==
  ASSUME TypeOK, Next, ~Cycle
  PROVE  TypeOK'
  <1>1. ASSUME ClearRuntime
        PROVE  /\ failure_count' \in 0..(MaxFailures + 1) /\ veto_count' \in 0..(MaxFailures + 1)
               /\ cancelling' \in BOOLEAN /\ last_cmd_u' \in ModelBox /\ u0' \in ModelBox
               /\ last_cmd' \in Controls /\ \A c \in Observable : last_cmd'[c] \in Low[c]..Upp[c]
               /\ steering_state' \in (-SteerMax)..SteerMax /\ braked' \in Nat
    BY <1>1, ZeroTypes, Constants DEF ClearRuntime, TypeOK
  <1>2. ASSUME EndTask PROVE TypeOK'
    <2>1. /\ goal' = "none" /\ polled' = FALSE /\ thrown' = "none"
          /\ patience' = 0 /\ halted' = TRUE
          /\ UNCHANGED <<lifecycle, global_plan, limit, pending, odom>>
      BY <1>2 DEF EndTask
    <2>2. ClearRuntime
      BY <1>2 DEF EndTask
    <2>3. QED
      BY <2>1, <2>2, <1>1, ZeroTypes DEF TypeOK
  <1>3. CASE Configure
    <2>1. /\ u0' = Zero /\ last_cmd_u' = Zero /\ pending' = None
          /\ limit' \in 0..VMax /\ lifecycle' = "inactive"
      BY <1>3, LimitInBound, ZeroTypes DEF Configure, TypeOK
    <2>2. UNCHANGED <<goal, polled, global_plan, thrown, patience, halted, odom,
                      failure_count, veto_count, cancelling, last_cmd,
                      steering_state, braked>>
      BY <1>3 DEF Configure
    <2>3. QED
      BY <2>1, <2>2, ZeroTypes DEF TypeOK
  <1>4. CASE Activate
    BY <1>4, <1>1 DEF Activate, TypeOK
  <1>5. CASE Deactivate \/ Cleanup \/ RequestCancel \/ Tolerate
    BY <1>5 DEF Deactivate, Cleanup, RequestCancel, Tolerate, control, TypeOK
  <1>6. CASE \E request \in SpeedLimits : SetSpeedLimit(request)
    BY <1>6 DEF SetSpeedLimit, control, server, TypeOK
  <1>7. CASE \E kind \in PlanKinds : SetPlan(kind)
    BY <1>7, InputAssumption DEF SetPlan, control, TypeOK
  <1>8. CASE GoalReached \/ Abort
    BY <1>8, <1>2 DEF GoalReached, Abort
  <1>9. CASE CancelPoll
    <2>1. CASE EndTask
      BY <2>1, <1>2
    <2>2. CASE ~EndTask
      BY <1>9, <2>2 DEF CancelPoll, TypeOK
    <2>3. QED
      BY <2>1, <2>2
  <1>10. CASE Track
    <2>1. odom' = Zero \/ odom' = last_cmd
      BY <1>10 DEF Track
    <2>2. UNCHANGED <<control, server, limit, pending>>
      BY <1>10 DEF Track
    <2>3. odom' \in Controls /\ \A c \in Observable : odom'[c] \in Low[c]..Upp[c]
      BY <2>1, ZeroTypes, Constants DEF TypeOK
    <2>4. QED
      BY <2>2, <2>3 DEF control, server, TypeOK
  <1>11. QED
    BY <1>3, <1>4, <1>5, <1>6, <1>7, <1>8, <1>9, <1>10 DEF Next

\* Every variable keeps its type in every behaviour of the controller.
THEOREM TypeCorrect == Spec => []TypeOK
  <1>1. Init => TypeOK
    <2> SUFFICES ASSUME Init PROVE TypeOK
      OBVIOUS
    <2>1. /\ last_cmd_u = Zero /\ u0 = Zero /\ last_cmd = Zero /\ odom = Zero
          /\ failure_count = 0 /\ veto_count = 0 /\ patience = 0 /\ braked = 0
          /\ steering_state = 0 /\ limit = VMax /\ pending = None
      BY DEF Init
    <2>2. /\ last_cmd_u \in ModelBox /\ u0 \in ModelBox
          /\ last_cmd \in Controls /\ odom \in Controls
          /\ \A c \in Observable : {last_cmd[c], odom[c]} \subseteq Low[c]..Upp[c]
      BY <2>1, ZeroTypes, Constants
    <2>3. QED
      BY <2>1, <2>2, ZeroTypes DEF Init, TypeOK
  <1>2. TypeOK /\ [Next]_vars => TypeOK'
    <2>1. ASSUME TypeOK, UNCHANGED vars PROVE TypeOK'
      BY <2>1 DEF vars, control, server, TypeOK
    <2>2. QED
      BY <2>1, CycleTypes, ServerTypes
  <1>3. QED
    BY <1>1, <1>2, PTL DEF Spec

-----------------------------------------------------------------------------
(* The server's side: tasks run on an active plugin, and between tasks the *)
(* robot holds the server's zero twist with no exception outstanding.      *)
TaskInv ==
  /\ goal # "none" => lifecycle = "active"
  /\ goal = "none" => halted /\ thrown = "none"

\* How a fault ends its cycle.
LEMMA FaultSteps ==
  ASSUME TypeOK, Cycle
  PROVE  \/ \E e \in {"NoValidControl", "InvalidPath", "ControllerTFError"} : Throw(e)
         \/ MakeBrake
         \/ Accept
  BY DEF Cycle, PoseFault, CancelBrake, PlanEmpty, TransformFault, PlanFault,
         SolverFault, FootprintVeto, CommandFault, Fail

\* Every exit of the cycle starts with the top of the cycle.
LEMMA CycleStarts ==
  ASSUME Cycle
  PROVE  StartCycle
  BY DEF Cycle, PoseFault, CancelBrake, PlanEmpty, TransformFault, PlanFault,
         SolverFault, FootprintVeto, CommandFault, Accept, Solve

\* Tasks run on an active plugin and end with the robot halted.
LEMMA TaskCorrect == Spec => []TaskInv
  <1>1. Init => TaskInv
    BY DEF Init, TaskInv
  <1>2. TypeOK /\ TaskInv /\ [Next]_vars => TaskInv'
    <2> SUFFICES ASSUME TypeOK, TaskInv, [Next]_vars PROVE TaskInv'
      OBVIOUS
    <2>1. CASE Cycle
      BY <2>1, CycleStarts DEF StartCycle, TaskInv
    <2>2. ASSUME EndTask PROVE TaskInv'
      BY <2>2 DEF EndTask, TaskInv
    <2>3. CASE Configure \/ Activate \/ Deactivate \/ Cleanup
      BY <2>3 DEF Configure, Activate, Deactivate, Cleanup, TaskInv
    <2>4. CASE \E request \in SpeedLimits : SetSpeedLimit(request)
      BY <2>4 DEF SetSpeedLimit, server, TaskInv
    <2>5. CASE \E kind \in PlanKinds : SetPlan(kind)
      BY <2>5 DEF SetPlan, TaskInv
    <2>6. CASE RequestCancel \/ Tolerate
      BY <2>6 DEF RequestCancel, Tolerate, TaskInv, TypeOK
    <2>7. CASE GoalReached \/ Abort
      BY <2>7, <2>2 DEF GoalReached, Abort
    <2>8. CASE CancelPoll
      BY <2>8, <2>2 DEF CancelPoll, TaskInv
    <2>9. CASE Track \/ UNCHANGED vars
      BY <2>9 DEF Track, vars, server, TaskInv
    <2>10. QED
      BY <2>1, <2>3, <2>4, <2>5, <2>6, <2>7, <2>8, <2>9 DEF Next
  <1>3. QED
    BY <1>1, <1>2, TypeCorrect, PTL DEF Spec

\* While the robot holds the controller's own command, the solver is anchored on
\* it.  Only a brake and an acceptance clear `halted`, and each moves both sides
\* together; the steps that zero last_cmd_u alone happen between tasks (TaskInv).
THEOREM AnchorCorrect == Spec => []AnchorFollowsCommand
  <1>1. Init => AnchorFollowsCommand
    BY DEF Init, AnchorFollowsCommand
  <1>2. TypeOK /\ TaskInv /\ AnchorFollowsCommand /\ [Next]_vars => AnchorFollowsCommand'
    <2> SUFFICES ASSUME TypeOK, TaskInv, AnchorFollowsCommand, [Next]_vars
                 PROVE  AnchorFollowsCommand'
      OBVIOUS
    <2>1. CASE Cycle
      <3>1. CASE \E e \in {"NoValidControl", "InvalidPath", "ControllerTFError"} : Throw(e)
        BY <3>1 DEF Throw, AnchorFollowsCommand
      <3>2. CASE MakeBrake
        BY <3>2, BrakeTypes DEF AnchorFollowsCommand
      <3>3. CASE Accept
        BY <3>3 DEF Accept, Commit, AnchorFollowsCommand
      <3>4. QED
        BY <2>1, <3>1, <3>2, <3>3, FaultSteps
    <2>2. ASSUME EndTask PROVE AnchorFollowsCommand'
      BY <2>2 DEF EndTask, AnchorFollowsCommand
    <2>3. CASE Configure
      BY <2>3 DEF Configure, AnchorFollowsCommand
    <2>4. CASE Activate
      BY <2>4 DEF Activate, AnchorFollowsCommand, TaskInv
    <2>5. CASE Deactivate \/ Cleanup \/ RequestCancel \/ Tolerate
      BY <2>5 DEF Deactivate, Cleanup, RequestCancel, Tolerate, control, AnchorFollowsCommand
    <2>6. CASE \E request \in SpeedLimits : SetSpeedLimit(request)
      BY <2>6 DEF SetSpeedLimit, control, server, AnchorFollowsCommand
    <2>7. CASE \E kind \in PlanKinds : SetPlan(kind)
      BY <2>7 DEF SetPlan, control, AnchorFollowsCommand
    <2>8. CASE GoalReached \/ Abort
      BY <2>8, <2>2 DEF GoalReached, Abort
    <2>9. CASE CancelPoll
      BY <2>9, <2>2 DEF CancelPoll, AnchorFollowsCommand
    <2>10. CASE Track \/ UNCHANGED vars
      BY <2>10 DEF Track, vars, control, server, AnchorFollowsCommand
    <2>11. QED
      BY <2>1, <2>3, <2>4, <2>5, <2>6, <2>7, <2>8, <2>9, <2>10 DEF Next
  <1>3. QED
    BY <1>1, <1>2, TypeCorrect, TaskCorrect, PTL DEF Spec

\* No acceptance commands a step the control-rate bound forbids, measured from
\* the command the robot holds and not from the last accepted one.
THEOREM AcceptedRateCorrect == Spec => AcceptedWithinRate
  <1>1. AnchorFollowsCommand /\ Accept /\ ~halted =>
          \A c \in Channels :
            last_cmd_u'[c] \in (last_cmd_u[c] - DuLow[c])..(last_cmd_u[c] + DuUpp[c])
    BY DEF Accept, Feasible, AnchorFollowsCommand
  <1>2. QED
    BY <1>1, AnchorCorrect, PTL DEF AcceptedWithinRate

-----------------------------------------------------------------------------
(* Each brake on a fault is charged to exactly one of the two budgets, so  *)
(* the history of brakes is read off the counters.                         *)
BudgetInv ==
  /\ braked = Minimum(failure_count, MaxFailures) + Minimum(veto_count, MaxFailures)
  /\ thrown = "NoValidControl" =>
       failure_count > MaxFailures \/ veto_count > MaxFailures

\* The inductive form of the fault budget implies the stated one.
LEMMA BudgetEnough ==
  ASSUME TypeOK, BudgetInv
  PROVE  FaultBudget
  BY Constants DEF TypeOK, BudgetInv, FaultBudget, Minimum

\* A reset that cleared the counters leaves the budget's invariant true.
LEMMA ClearedBudget ==
  ASSUME ClearRuntime, thrown' = "none"
  PROVE  BudgetInv'
  BY Constants DEF ClearRuntime, BudgetInv, Minimum

\* The controller brakes on at most twice max_solver_failures faults between two
\* acceptances, and never gives up before having braked max_solver_failures times.
THEOREM BudgetCorrect == Spec => []FaultBudget
  <1>1. Init => BudgetInv
    BY Constants DEF Init, BudgetInv, Minimum
  <1>2. TypeOK /\ TaskInv /\ BudgetInv /\ [Next]_vars => BudgetInv'
    <2> SUFFICES ASSUME TypeOK, TaskInv, BudgetInv, [Next]_vars
                 PROVE  BudgetInv'
      OBVIOUS
    <2> USE Constants
    <2>1. ASSUME Fail PROVE BudgetInv'
      <3>1. CASE Exhausted(failure_count)
        BY <2>1, <3>1 DEF Fail, Charged, Exhausted, Throw, BudgetInv, TypeOK, Minimum
      <3>2. CASE ~Exhausted(failure_count)
        <4>1. /\ MakeBrake /\ braked' = braked + 1 /\ UNCHANGED veto_count
              /\ failure_count' = Charged(failure_count)
          BY <2>1, <3>2 DEF Fail
        <4>2. thrown' = "none"
          BY <4>1, BrakeTypes
        <4>3. QED
          BY <3>2, <4>1, <4>2 DEF Charged, Exhausted, BudgetInv, TypeOK, Minimum
      <3>3. QED
        BY <3>1, <3>2
    <2>2. CASE FootprintVeto
      <3>1. CASE Exhausted(veto_count)
        BY <2>2, <3>1 DEF FootprintVeto, Charged, Exhausted, Throw, BudgetInv, TypeOK, Minimum
      <3>2. CASE ~Exhausted(veto_count)
        <4>1. /\ MakeBrake /\ braked' = braked + 1 /\ UNCHANGED failure_count
              /\ veto_count' = Charged(veto_count)
          BY <2>2, <3>2 DEF FootprintVeto
        <4>2. thrown' = "none"
          BY <4>1, BrakeTypes
        <4>3. QED
          BY <3>2, <4>1, <4>2 DEF Charged, Exhausted, BudgetInv, TypeOK, Minimum
      <3>3. QED
        BY <3>1, <3>2
    <2>3. CASE CancelBrake
      BY <2>3, BrakeTypes DEF CancelBrake, BudgetInv
    <2>4. CASE PlanEmpty \/ TransformFault
      BY <2>4 DEF PlanEmpty, TransformFault, Throw, BudgetInv
    <2>5. CASE Accept
      BY <2>5 DEF Accept, Returned, BudgetInv, Minimum
    <2>6. CASE Cycle
      BY <2>6, <2>1, <2>2, <2>3, <2>4, <2>5
         DEF Cycle, PoseFault, PlanFault, SolverFault, CommandFault
    <2>7. ASSUME EndTask PROVE BudgetInv'
      BY <2>7, ClearedBudget DEF EndTask
    <2>8. CASE Configure \/ Deactivate \/ Cleanup \/ RequestCancel \/ Tolerate
      BY <2>8 DEF Configure, Deactivate, Cleanup, RequestCancel, Tolerate, control, BudgetInv
    <2>9. CASE Activate
      BY <2>9, ClearedBudget DEF Activate, TaskInv
    <2>10. CASE \E request \in SpeedLimits : SetSpeedLimit(request)
      BY <2>10 DEF SetSpeedLimit, control, server, BudgetInv
    <2>11. CASE \E kind \in PlanKinds : SetPlan(kind)
      BY <2>11 DEF SetPlan, control, BudgetInv
    <2>12. CASE GoalReached \/ Abort
      BY <2>12, <2>7 DEF GoalReached, Abort
    <2>13. CASE CancelPoll
      BY <2>13, <2>7 DEF CancelPoll, BudgetInv
    <2>14. CASE Track \/ UNCHANGED vars
      BY <2>14 DEF Track, vars, control, server, BudgetInv
    <2>15. QED
      BY <2>6, <2>8, <2>9, <2>10, <2>11, <2>12, <2>13, <2>14 DEF Next
  <1>3. QED
    BY <1>1, <1>2, BudgetEnough, TypeCorrect, TaskCorrect, PTL DEF Spec
=============================================================================
