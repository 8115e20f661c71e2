-------------------------- MODULE SpeedLimitProofs --------------------------
(***************************************************************************)
(* Proofs about SpeedLimitExchange: for every range and every set of       *)
(* requests the bounds stay in the model's range and no request is lost.   *)
(***************************************************************************)
EXTENDS SpeedLimitExchange, TLAPS

\* What the shared cell holds while a request is on its way.
StoredInv ==
  /\ to_store # {} => setting
  /\ setting \/ pending =>
       /\ "speed" \in to_store \/ cell.speed = latest.speed
       /\ "percent" \in to_store \/ cell.percent = latest.percent

\* What a load in progress is going to apply, if nothing newer is on its way.
LoadedInv ==
  /\ cycle # "idle" => configured
  /\ cycle = "loading" /\ ~setting /\ ~pending =>
       /\ cell = latest
       /\ "speed" \in to_load \/ regs.speed = latest.speed
       /\ "percent" \in to_load \/ regs.percent = latest.percent

IInv == TypeOK /\ StoredInv /\ LoadedInv /\ LatestLimitInForce

\* Whatever pair is applied, torn or not, the limit lies in 0..VMax and the
\* bounds are the limit intersected with the declared range.
LEMMA ResolvedInRange ==
  ASSUME NEW request \in Requested
  PROVE  /\ Resolved(request) \in 0..VMax
         /\ Box(Resolved(request)).low \in VMin..0
         /\ Box(Resolved(request)).upp = Resolved(request)
<1> DEFINE v_lim == IF request.speed <= 0 THEN VMax
                    ELSE IF request.percent THEN (request.speed * VMax) \div 100
                    ELSE request.speed
<1>1. v_lim \in Int
  BY RangeAssumption DEF Requested
<1>2. Resolved(request) = Clamp(v_lim, 0, VMax)
  BY DEF Resolved
<1> HIDE DEF v_lim
<1>3. Resolved(request) \in 0..VMax
  BY <1>1, <1>2, RangeAssumption DEF Clamp
<1> QED BY <1>3, RangeAssumption DEF Box

\* Requests agree when they agree field by field.
LEMMA SameRequest ==
  ASSUME NEW a \in Requested, NEW b \in Requested,
         a.speed = b.speed, a.percent = b.percent
  PROVE  a = b
  BY DEF Requested

\* The invariant holds initially and every access of either thread keeps it.
LEMMA Inductive ==
  /\ Init => IInv
  /\ IInv /\ [Next]_vars => IInv'
<1> NoLimit \in Requested
  BY DEF NoLimit, Requested
<1> 0 \in 0..VMax
  BY RangeAssumption
<1>1. Init => IInv
  <2> SUFFICES ASSUME Init PROVE IInv
    OBVIOUS
  <2>1. Resolved(NoLimit) = VMax
    BY RangeAssumption DEF Resolved, NoLimit, Clamp
  <2>2. Box(VMax).low \in VMin..0 /\ Box(VMax).upp = VMax /\ VMax \in 0..VMax
    BY RangeAssumption DEF Box
  <2>3. TypeOK
    BY <2>2 DEF Init, TypeOK
  <2>4. StoredInv /\ LoadedInv /\ LatestLimitInForce
    BY <2>1 DEF Init, StoredInv, LoadedInv, LatestLimitInForce
  <2> QED BY <2>3, <2>4 DEF IInv
<1>2. ASSUME IInv, [Next]_vars PROVE IInv'
  <2> USE <1>2 DEF IInv
  <2>1. ASSUME NEW request \in Requests, SetSpeedLimit(request) PROVE IInv'
    <3>1. latest' \in Requested
      BY <2>1, RequestAssumption DEF SetSpeedLimit, Requested
    <3>2. TypeOK'
      BY <2>1, <3>1 DEF SetSpeedLimit, TypeOK, control, bounds
    <3>3. StoredInv' /\ LoadedInv' /\ LatestLimitInForce'
      BY <2>1 DEF SetSpeedLimit, StoredInv, LoadedInv, LatestLimitInForce,
                  ExecutorIdle, Fields, control, bounds
    <3> QED BY <3>2, <3>3
  <2>2. ASSUME NEW f \in Fields, StoreField(f) PROVE IInv'
    <3>1. /\ f \in to_store /\ cell' = [cell EXCEPT ![f] = latest[f]]
          /\ to_store' = to_store \ {f}
          /\ UNCHANGED <<pending, latest, setting, configured, cycle, to_load,
                         regs, box, max_linear_vel>>
      BY <2>2 DEF StoreField, control, bounds
    <3>2. setting
      BY <3>1 DEF StoredInv
    <3>3. /\ cell' \in Requested
          /\ f = "speed" => /\ cell'.speed = latest.speed
                            /\ cell'.percent = cell.percent
          /\ f = "percent" => /\ cell'.percent = latest.percent
                              /\ cell'.speed = cell.speed
      <4>1. cell \in Requested /\ latest \in Requested
        BY DEF TypeOK
      <4>2. CASE f = "speed"
        BY <3>1, <4>1, <4>2 DEF Requested
      <4>3. CASE f = "percent"
        BY <3>1, <4>1, <4>3 DEF Requested
      <4> QED BY <4>2, <4>3 DEF Fields
    <3>4. TypeOK'
      <4>1. to_store' \subseteq Fields
        BY <3>1 DEF TypeOK
      <4> QED BY <3>1, <3>3, <4>1 DEF TypeOK
    <3>5. StoredInv'
      BY <3>1, <3>2, <3>3 DEF StoredInv, Fields
    <3>6. LoadedInv' /\ LatestLimitInForce'
      BY <3>1, <3>2 DEF LoadedInv, LatestLimitInForce, ExecutorIdle
    <3> QED BY <3>4, <3>5, <3>6
  <2>3. CASE RaiseFlag
    BY <2>3 DEF RaiseFlag, Published, TypeOK, StoredInv, LoadedInv,
                LatestLimitInForce, control, bounds
  <2>4. CASE Configure
    <3>1. cycle = "idle" /\ cycle' = "idle" /\ to_store = {}
      BY <2>4 DEF Configure, LoadedInv, TypeOK, ExecutorIdle, control
    <3>2. /\ pending' = FALSE /\ setting' = setting /\ ~setting
          /\ to_store' = {} /\ configured' = TRUE
          /\ UNCHANGED <<cell, to_load, regs>>
      BY <2>4 DEF Configure, ExecutorIdle, control
    <3>3. latest' \in Requested /\ max_linear_vel' = Resolved(latest')
          /\ box' = Box(Resolved(latest'))
      <4>1. CASE pending
        <5>1. cell = latest
          BY <3>1, <4>1, SameRequest DEF StoredInv, TypeOK
        <5> QED BY <2>4, <4>1, <5>1 DEF Configure, Apply, TypeOK
      <4>2. CASE ~pending
        BY <2>4, <4>2 DEF Configure, Apply
      <4> QED BY <4>1, <4>2
    <3>4. TypeOK'
      <4>1. max_linear_vel' \in 0..VMax /\ box'.low \in VMin..0
            /\ box'.upp = max_linear_vel'
        BY <3>3, ResolvedInRange
      <4> QED BY <3>1, <3>2, <3>3, <4>1 DEF TypeOK
    <3>5. StoredInv' /\ LoadedInv' /\ LatestLimitInForce'
      BY <3>1, <3>2, <3>3 DEF StoredInv, LoadedInv, LatestLimitInForce
    <3> QED BY <3>4, <3>5
  <2>5. CASE Cleanup
    BY <2>5 DEF Cleanup, TypeOK, StoredInv, LoadedInv, LatestLimitInForce,
                ExecutorIdle, executor, control, bounds
  <2>6. CASE Exchange
    <3>1. /\ configured /\ cycle = "idle" /\ pending' = FALSE
          /\ IF pending THEN cycle' = "loading" /\ to_load' = Fields
                        ELSE cycle' = "solving" /\ to_load' = to_load
          /\ UNCHANGED <<cell, configured, latest, setting, to_store, regs, box,
                         max_linear_vel>>
      BY <2>6 DEF Exchange, executor, bounds
    <3>2. TypeOK' /\ StoredInv'
      BY <3>1 DEF TypeOK, StoredInv
    <3>3. pending /\ ~setting => cell = latest
      BY SameRequest DEF StoredInv, TypeOK
    <3>4. LoadedInv'
      BY <3>1, <3>3 DEF LoadedInv, Fields
    <3>5. LatestLimitInForce'
      BY <3>1 DEF LatestLimitInForce, ExecutorIdle
    <3> QED BY <3>2, <3>4, <3>5
  <2>7. ASSUME NEW f \in Fields, LoadField(f) PROVE IInv'
    <3>1. /\ f \in to_load /\ regs' = [regs EXCEPT ![f] = cell[f]]
          /\ to_load' = to_load \ {f}
          /\ UNCHANGED <<cell, pending, configured, latest, setting, to_store,
                         cycle, box, max_linear_vel>>
      BY <2>7 DEF LoadField, executor, bounds
    <3>2. /\ regs' \in Requested
          /\ f = "speed" => /\ regs'.speed = cell.speed
                            /\ regs'.percent = regs.percent
          /\ f = "percent" => /\ regs'.percent = cell.percent
                              /\ regs'.speed = regs.speed
      <4>1. regs \in Requested /\ cell \in Requested
        BY DEF TypeOK
      <4>2. CASE f = "speed"
        BY <3>1, <4>1, <4>2 DEF Requested
      <4>3. CASE f = "percent"
        BY <3>1, <4>1, <4>3 DEF Requested
      <4> QED BY <4>2, <4>3 DEF Fields
    <3>3. TypeOK'
      <4>1. to_load' \subseteq Fields
        BY <3>1 DEF TypeOK
      <4> QED BY <3>1, <3>2, <4>1 DEF TypeOK
    <3>5. StoredInv' /\ LatestLimitInForce'
      BY <3>1 DEF StoredInv, LatestLimitInForce, ExecutorIdle
    <3>4. LoadedInv'
      BY <3>1, <3>2 DEF LoadedInv, Fields
    <3> QED BY <3>3, <3>4, <3>5
  <2>8. CASE ApplyLoaded
    <3>1. /\ cycle = "loading" /\ to_load = {} /\ cycle' = "solving"
          /\ max_linear_vel' = Resolved(regs) /\ box' = Box(Resolved(regs))
          /\ UNCHANGED <<cell, pending, configured, latest, setting, to_store,
                         to_load, regs>>
      BY <2>8 DEF ApplyLoaded, Apply, KeepFlag, executor
    <3>2. TypeOK'
      BY <3>1, ResolvedInRange DEF TypeOK
    <3>3. StoredInv' /\ LoadedInv'
      BY <3>1 DEF StoredInv, LoadedInv
    <3>4. ~setting /\ ~pending => regs = latest
      BY <3>1, SameRequest DEF LoadedInv, TypeOK
    <3>5. LatestLimitInForce'
      BY <3>1, <3>4 DEF LatestLimitInForce, ExecutorIdle
    <3> QED BY <3>2, <3>3, <3>5
  <2>9. CASE EndCycle
    BY <2>9 DEF EndCycle, TypeOK, StoredInv, LoadedInv, LatestLimitInForce,
                ExecutorIdle, executor, bounds
  <2>10. CASE UNCHANGED vars
    BY <2>10 DEF vars, TypeOK, StoredInv, LoadedInv, LatestLimitInForce,
                 ExecutorIdle, executor, control, bounds
  <2> QED BY <2>1, <2>2, <2>3, <2>4, <2>5, <2>6, <2>7, <2>8, <2>9, <2>10
          DEF Next, Executor, Control
<1> QED BY <1>1, <1>2

\* applySpeedLimit(): however the two threads interleave, the model's bounds are
\* a limit intersected with the declared range, and the reference's own limit.
THEOREM BoundsCorrect == Spec => []TypeOK
<1>1. IInv => TypeOK
  BY DEF IInv
<1> QED BY <1>1, Inductive, PTL DEF Spec

\* setSpeedLimit() and the top of the cycle: no request is lost.
THEOREM LatestLimitCorrect == Spec => []LatestLimitInForce
<1>1. IInv => LatestLimitInForce
  BY DEF IInv
<1> QED BY <1>1, Inductive, PTL DEF Spec
=============================================================================
