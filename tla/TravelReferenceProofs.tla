------------------------ MODULE TravelReferenceProofs ------------------------
(***************************************************************************)
(* Proofs about TravelReference: the speed cap stays in the range the      *)
(* limit allows and never takes the last feasible control away.            *)
(***************************************************************************)
EXTENDS TravelReference, TLAPS

\* The box handed to the QP: the limit's own lower bound, and an upper bound
\* that one step of braking reaches unless the limit itself is lower.  Once a task
\* has sent a command, that command is the solver's anchor.
BoxInv ==
  /\ phase = "solve" => low = LowBound(limit) /\ upp >= Minimum(limit, last_v - Dec)
  /\ ~fresh => anchor = last_v

IInv == TypeOK /\ BoxInv

\* The lower bound of a limit is in the declared range and not above zero.
LEMMA LowBoundInRange ==
  ASSUME NEW lim \in 0..VMax PROVE LowBound(lim) \in VMin..0
  BY SpeedAssumption DEF LowBound, Maximum

\* The cap lies between the two bounds of the limit, and not under the speed one
\* step of braking reaches unless the limit is.
LEMMA CapInRange ==
  ASSUME NEW factor \in Int, limit \in 0..VMax, last_v \in Int
  PROVE  /\ Cap(factor) \in LowBound(limit)..limit
         /\ Cap(factor) >= Minimum(limit, last_v - Dec)
<1>1. LowBound(limit) \in VMin..0
  BY LowBoundInRange
<1>2. (limit * factor) \div Full \in Int
  BY SpeedAssumption, ModeAssumption
<1> DEFINE share == (limit * factor) \div Full
<1>3. Cap(factor) =
        Maximum(LowBound(limit), Minimum(limit, Maximum(share, last_v - Dec)))
  BY DEF Cap
<1>4. share \in Int
  BY <1>2
<1> HIDE DEF share
<1>5. LowBound(limit) \in Int /\ LowBound(limit) <= 0 /\ limit \in Int /\ limit >= 0
  BY <1>1, SpeedAssumption
<1> QED BY <1>3, <1>4, <1>5, SpeedAssumption DEF Maximum, Minimum

\* A time that grows is kept within the dwell.
LEMMA AgedInRange ==
  ASSUME NEW time \in 0..Dwell, NEW period \in 1..MaxPeriod
  PROVE  Aged(time, period) \in 0..Dwell
  BY ModeAssumption DEF Aged, Minimum

\* A ramp step stays between the speed it starts from and zero.
LEMMA RampInRange ==
  ASSUME NEW v \in VMin..VMax, NEW period \in 1..MaxPeriod
  PROVE  BrakeToward(v, period) \in VMin..VMax
<1>1. Dec * period \in Nat /\ Acc * period \in Nat
  BY SpeedAssumption, ModeAssumption
<1> DEFINE down == Dec * period
           up == Acc * period
<1>2. BrakeToward(v, period) =
        IF v > 0 THEN Maximum(0, v - down) ELSE Minimum(0, v + up)
  BY DEF BrakeToward
<1>3. down \in Nat /\ up \in Nat
  BY <1>1
<1> HIDE DEF down, up
<1> QED BY <1>2, <1>3, SpeedAssumption DEF Maximum, Minimum

\* So does a braking cycle's, from the measured speed or the commanded one.
LEMMA RampKeeps ==
  ASSUME TypeOK, NEW period \in 1..MaxPeriod, Ramp(period)
  PROVE  last_v' \in VMin..VMax /\ Sent
  BY RampInRange DEF Ramp, TypeOK

\* Building the reference keeps every mode in its type and the box in range.
LEMMA ReferKeeps == IInv /\ Refer => IInv'
<1> SUFFICES ASSUME IInv, Refer PROVE IInv'
  OBVIOUS
<1>1. PICK read \in Plans, period \in 1..MaxPeriod, target \in 0..Full :
        /\ plan' = read /\ Steer(read, period) /\ Settle
        /\ Yield(target, period) /\ upp' = Cap(yield')
  BY DEF Refer
<1>2. /\ task' = task /\ limit' = limit /\ last_v' = last_v
      /\ low' = LowBound(limit) /\ phase' = "solve"
      /\ anchor' = anchor /\ odom' = odom /\ fresh' = fresh
  BY DEF Refer, motion
<1>3. limit \in 0..VMax /\ last_v \in Int /\ yield \in 0..Full
  BY SpeedAssumption DEF IInv, TypeOK
<1>4. yield' \in 0..Full
  <2>1. Recovery * period \in Nat
    BY ModeAssumption
  <2> DEFINE gain == Recovery * period
  <2>2. yield' = Full \/ yield' = target \/ yield' = Minimum(target, yield + gain)
    BY <1>1 DEF Yield, Recovered
  <2>3. gain \in Nat
    BY <2>1
  <2> HIDE DEF gain
  <2> QED BY <1>3, <2>2, <2>3, ModeAssumption DEF Minimum
<1>5. /\ dir' \in {Forward, Reverse} /\ held' \in BOOLEAN
      /\ hold' \in 0..Dwell /\ since' \in 0..Dwell
  <2>1. /\ dir \in {Forward, Reverse} /\ hold \in 0..Dwell /\ since \in 0..Dwell
        /\ read.way \in {Forward, Reverse} /\ 0 \in 0..Dwell
    BY ModeAssumption DEF IInv, TypeOK, Plans
  <2>2. Aged(hold, period) \in 0..Dwell /\ Aged(since, period) \in 0..Dwell
    BY <2>1, AgedInRange
  <2> QED BY <1>1, <2>1, <2>2 DEF Steer, HoldWaiting
<1>6. settling' \in BOOLEAN
  BY <1>1 DEF Settle
<1>7. /\ upp' \in LowBound(limit)..limit
      /\ upp' >= Minimum(limit, last_v - Dec)
  BY <1>1, <1>3, <1>4, CapInRange
<1>8. LowBound(limit) \in VMin..0
  BY <1>3, LowBoundInRange
<1>9. TypeOK'
  BY <1>1, <1>2, <1>4, <1>5, <1>6, <1>7, <1>8 DEF IInv, TypeOK
<1>10. BoxInv'
  BY <1>2, <1>7 DEF IInv, BoxInv, LowBound, Maximum, Minimum
<1> QED BY <1>9, <1>10 DEF IInv

\* The invariant holds initially and every step keeps it.
LEMMA Inductive ==
  /\ Init => IInv
  /\ IInv /\ [Next]_vars => IInv'
<1> USE DEF IInv
<1> 0 \in 0..Dwell /\ Dwell \in 0..Dwell /\ Full \in 0..Full
  BY ModeAssumption
<1>1. Init => IInv
  <2> SUFFICES ASSUME Init PROVE IInv
    OBVIOUS
  <2>1. plan \in Plans
    BY ModeAssumption DEF Init, Plans
  <2>2. VMax \in 0..VMax /\ LowBound(VMax) \in VMin..0
    BY SpeedAssumption, LowBoundInRange
  <2>3. VMax \in LowBound(VMax)..VMax /\ 0 \in VMin..VMax
    BY <2>2, SpeedAssumption
  <2> QED BY <2>1, <2>2, <2>3 DEF Init, TypeOK, BoxInv
<1>2. ASSUME IInv, [Next]_vars PROVE IInv'
  <2>1. CASE StartTask
    BY <1>2, <2>1 DEF StartTask, TypeOK, BoxInv, modes, box, motion
  <2>2. CASE EndTask
    <3>1. 0 \in VMin..VMax
      BY SpeedAssumption
    <3> QED BY <1>2, <2>2, <3>1 DEF EndTask, ForgetModes, TypeOK, BoxInv, box
  <2>3. ASSUME NEW request \in SpeedLimits, ApplySpeedLimit(request) PROVE IInv'
    <3>1. request \in 0..VMax
      BY SpeedAssumption
    <3>2. LowBound(request) \in VMin..0 /\ request \in LowBound(request)..request
      BY <3>1, LowBoundInRange, SpeedAssumption
    <3> QED BY <1>2, <2>3, <3>1, <3>2 DEF ApplySpeedLimit, TypeOK, BoxInv, modes, motion
  <2>4. CASE Refer
    BY <1>2, <2>4, ReferKeeps
  <2>5. CASE Accept
    <3>1. last_v' \in low..upp
      BY <2>5 DEF Accept, Feasible
    <3>2. last_v' \in VMin..VMax
      BY <1>2, <3>1, SpeedAssumption DEF TypeOK
    <3> QED BY <1>2, <2>5, <3>2 DEF Accept, Sent, TypeOK, BoxInv, modes, box
  <2>6. CASE Brake
    <3>1. PICK period \in 1..MaxPeriod : Ramp(period)
      BY <2>6 DEF Brake
    <3>2. last_v' \in VMin..VMax /\ Sent
      BY <1>2, <3>1, RampKeeps
    <3> QED BY <1>2, <2>6, <3>2 DEF Brake, Sent, TypeOK, BoxInv, modes, box
  <2>7. CASE EarlyBrake
    <3>1. PICK period \in 1..MaxPeriod :
            /\ Ramp(period)
            /\ hold' = Aged(hold, period) /\ since' = Aged(since, period)
      BY <2>7 DEF EarlyBrake
    <3>2. last_v' \in VMin..VMax /\ Sent
      BY <1>2, <3>1, RampKeeps
    <3>3. hold' \in 0..Dwell /\ since' \in 0..Dwell
      BY <1>2, <3>1, AgedInRange DEF TypeOK
    <3>4. UNCHANGED <<task, phase, dir, held, settling, yield, plan, limit, low, upp>>
      BY <2>7 DEF EarlyBrake, box
    <3>5. TypeOK'
      BY <1>2, <3>2, <3>3, <3>4 DEF Sent, TypeOK
    <3>6. BoxInv'
      <4>1. phase = "idle"
        BY <2>7 DEF EarlyBrake
      <4> QED BY <4>1, <3>2, <3>4 DEF Sent, BoxInv
    <3> QED BY <3>5, <3>6
  <2>8. CASE Throw
    BY <1>2, <2>8 DEF Throw, TypeOK, BoxInv, modes, box, motion
  <2>9. CASE Track
    <3>1. odom' \in VMin..VMax
      BY <1>2, <2>9, SpeedAssumption DEF Track, TypeOK
    <3> QED BY <1>2, <2>9, <3>1 DEF Track, TypeOK, BoxInv, modes, box
  <2>10. CASE UNCHANGED vars
    BY <1>2, <2>10 DEF vars, TypeOK, BoxInv, modes, box, motion
  <2> QED BY <1>2, <2>1, <2>2, <2>3, <2>4, <2>5, <2>6, <2>7, <2>8, <2>9, <2>10 DEF Next
<1> QED BY <1>1, <1>2

\* updateIneq("u", idx_v_, ...): the box is never inverted and never leaves the
\* model's declared range, under any limit and any yield.
THEOREM BoxCorrect == Spec => []TypeOK
<1>1. IInv => TypeOK
  BY DEF IInv
<1> QED BY <1>1, Inductive, PTL DEF Spec

\* The hard speed cap: whatever the yield factor, the capped box still holds a
\* control within one rate step of the solver's anchor, if the limit's does.
THEOREM YieldLeavesControlCorrect == Spec => []YieldLeavesControl
<1>1. IInv => YieldLeavesControl
  <2> SUFFICES ASSUME IInv, phase = "solve", ~fresh, anchor - Dec <= limit,
                      LowBound(limit) <= anchor + Acc
               PROVE  Feasible # {}
    BY DEF IInv, YieldLeavesControl
  <2>0. anchor = last_v
    BY DEF IInv, BoxInv
  <2>1. low = LowBound(limit) /\ upp >= Minimum(limit, last_v - Dec)
    BY DEF IInv, BoxInv
  <2>2. last_v \in Int /\ limit \in Int /\ low \in Int /\ upp \in Int /\ low <= upp
    BY SpeedAssumption DEF IInv, TypeOK
  <2>3. upp >= last_v - Dec
    BY <2>0, <2>1, <2>2, SpeedAssumption DEF Minimum
  <2>4. Maximum(low, last_v - Dec) \in low..upp
    BY <2>2, <2>3, SpeedAssumption DEF Maximum
  <2>5. Maximum(low, last_v - Dec) \in (anchor - Dec)..(anchor + Acc)
    BY <2>0, <2>1, <2>2, SpeedAssumption DEF Maximum
  <2> QED BY <2>4, <2>5 DEF Feasible
<1> QED BY <1>1, Inductive, PTL DEF Spec

\* The dwell the gates read is the time since the last change, whichever way the
\* cycles since then ended; between tasks no mode is latched.
ModeInv ==
  /\ hold = since
  /\ ~task => dir = Forward /\ hold = Dwell /\ ~settling /\ yield = Full

LEMMA ModesKept ==
  /\ Init => ModeInv
  /\ IInv /\ ModeInv /\ [Next]_vars => ModeInv'
<1>1. Init => ModeInv
  BY DEF Init, ModeInv
<1>2. ASSUME IInv, ModeInv, [Next]_vars PROVE ModeInv'
  <2>1. CASE StartTask
    BY <1>2, <2>1 DEF StartTask, modes, ModeInv
  <2>2. CASE EndTask
    BY <2>2 DEF EndTask, ForgetModes, ModeInv
  <2>3. CASE \E request \in SpeedLimits : ApplySpeedLimit(request)
    BY <1>2, <2>3 DEF ApplySpeedLimit, modes, ModeInv
  <2>4. CASE Refer
    <3>1. task /\ task' = task
      BY <2>4 DEF Refer
    <3>2. hold' = since'
      BY <1>2, <2>4 DEF Refer, Steer, HoldWaiting, ModeInv
    <3> QED BY <3>1, <3>2 DEF ModeInv
  <2>5. CASE Accept \/ Brake \/ Throw \/ Track
    BY <1>2, <2>5 DEF Accept, Brake, Throw, Track, modes, ModeInv
  <2>6. CASE EarlyBrake
    BY <1>2, <2>6 DEF EarlyBrake, ModeInv
  <2>7. CASE UNCHANGED vars
    BY <1>2, <2>7 DEF vars, modes, ModeInv
  <2> QED BY <1>2, <2>1, <2>2, <2>3, <2>4, <2>5, <2>6, <2>7 DEF Next
<1> QED BY <1>1, <1>2

\* The two gates of a direction change, for every dwell, standstill and cycle time.
THEOREM GearShiftCorrect == Spec => GearShift
<1> DEFINE Gated == Refer /\ plan'.segment /\ dir' # dir =>
                      /\ Size(last_v) <= Standstill
                      /\ \E period \in 1..MaxPeriod : since + period >= Dwell
<1>1. IInv /\ ModeInv /\ [Next]_vars => [Gated]_vars
  <2> SUFFICES ASSUME IInv, ModeInv, Refer, plan'.segment, dir' # dir
               PROVE  /\ Size(last_v) <= Standstill
                      /\ \E period \in 1..MaxPeriod : since + period >= Dwell
    OBVIOUS
  <2>1. PICK read \in Plans, period \in 1..MaxPeriod : plan' = read /\ Steer(read, period)
    BY DEF Refer
  <2>2. MayShift(period)
    BY <2>1 DEF Steer
  <2>3. hold = since /\ since \in Int /\ Dwell \in Int /\ period \in Int
    BY ModeAssumption DEF ModeInv, IInv, TypeOK
  <2>4. since + period >= Dwell
    BY <2>2, <2>3 DEF MayShift, Aged, Minimum
  <2> QED BY <2>2, <2>4 DEF MayShift
<1> QED BY <1>1, Inductive, ModesKept, PTL DEF Spec, GearShift

\* reset(): no mode of one task reaches the next, whichever way its cycles ended.
THEOREM TaskStartsCleanCorrect == Spec => TaskStartsClean
<1> DEFINE Clean == StartTask => dir = Forward /\ hold = Dwell /\ ~settling /\ yield = Full
<1>1. ModeInv /\ [Next]_vars => [Clean]_vars
  BY DEF ModeInv, StartTask
<1> QED BY <1>1, Inductive, ModesKept, PTL DEF Spec, TaskStartsClean

=============================================================================
