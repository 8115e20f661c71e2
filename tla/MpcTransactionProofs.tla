------------------------ MODULE MpcTransactionProofs ------------------------
(***************************************************************************)
(* Proofs about MpcTransaction: for any set of cycles and any iteration    *)
(* cap, with the workspace kept or rebuilt, the retained state is usable,  *)
(* and the candidate pair implements AcceptedStore.                        *)
(***************************************************************************)
EXTENDS MpcTransaction, TLAPS

\* The staged arrays move together, are new once an iteration ran, and the flag
\* the commit tests describes them.
StagedInv ==
  /\ phase # "idle" => cand_x.of = cand_u.of /\ cand_u.of = cand_w.of
  /\ phase = "sqp" => sqp_iter < MaxIterSqp
  /\ phase = "sqp" /\ sqp_iter = 0 => cand_x.of = x.of
  /\ phase = "caller" \/ (phase = "sqp" /\ sqp_iter > 0) =>
       cand_x.of \in Cycles /\ cand_x.of # x.of
  /\ phase = "caller" => (cand_finite => AllFinite(cand_x, cand_u, cand_w))

IInv == TypeOK /\ StagedInv /\ RetainedUsable

\* Whatever the shift, the pose and the head selection do to an array, it stays
\* one, of the same cycle, and a finite one stays finite.
LEMMA ArrayOperations ==
  ASSUME NEW array \in Arrays
  PROVE  /\ Shifted(array) \in Arrays /\ Shifted(array).of = array.of
         /\ Posed(array) \in Arrays /\ Posed(array).of = array.of
         /\ FirstControl(array) \in Arrays /\ FirstControl(array).of = array.of
         /\ Finite(array) => Finite(FirstControl(array))
  BY DEF Shifted, Posed, FirstControl, Arrays, Parts, Finite

\* An incremented array is an array, of the cycle that added the increments.
LEMMA IncrementedArray ==
  ASSUME NEW array \in Arrays, NEW cycle \in Cycles, NEW bad \in SUBSET Parts,
         sqp_iter \in Nat
  PROVE  /\ Incremented(array, cycle, bad) \in Arrays
         /\ Incremented(array, cycle, bad).of = cycle
  BY DEF Incremented, Arrays

\* The zero arrays and a control handed to setU0() are finite arrays.
LEMMA FreshArrays ==
  /\ Fresh \in Arrays /\ Finite(Fresh) /\ Fresh.of = Zeros
  /\ Ramp \in Arrays /\ Finite(Ramp) /\ Ramp.of = Applied
  BY DEF Fresh, Ramp, Arrays, Finite

\* A QP sub-problem reports a status and the non-finite parts of its increments.
LEMMA OutcomeTypes ==
  ASSUME NEW out \in Outcomes
  PROVE  out.solved \in BOOLEAN /\ out.bad \in SUBSET Parts
<1>1. CASE ~CleanInput
  <2>1. out = [solved |-> FALSE, bad |-> Parts]
    BY <1>1 DEF Outcomes
  <2> QED BY <2>1
<1>2. CASE CleanInput /\ calm
  <2>1. out = [solved |-> TRUE, bad |-> {}]
    BY <1>2 DEF Outcomes
  <2> QED BY <2>1
<1>3. CASE CleanInput /\ ~calm
  <2>1. out \in [solved : BOOLEAN, bad : SUBSET Parts]
    BY <1>3 DEF Outcomes
  <2> QED BY <2>1
<1> QED BY <1>1, <1>2, <1>3

\* An SQP iteration leaves the staged arrays together and new.
LEMMA IterationKeeps == IInv /\ SqpIteration => IInv'
<1> SUFFICES ASSUME IInv, SqpIteration PROVE IInv'
  OBVIOUS
<1>1. PICK cycle \in Cycles, out \in Outcomes, timed_out \in BOOLEAN :
        /\ CycleId(cycle)
        /\ cand_x' = Incremented(cand_x, cycle, out.bad)
        /\ cand_u' = Incremented(cand_u, cycle, out.bad)
        /\ cand_w' = Incremented(cand_w, cycle, out.bad)
        /\ iterate' = [of |-> cycle, on |-> cycle, bad |-> out.bad]
        /\ qp_ready' = TRUE
        /\ sqp_iter' = sqp_iter + 1
        /\ IF out.solved \/ sqp_iter' >= MaxIterSqp \/ timed_out
           THEN /\ cand_solved' = out.solved
                /\ cand_finite' = AllFinite(cand_x', cand_u', cand_w')
                /\ phase' = "caller"
           ELSE UNCHANGED <<cand_solved, cand_finite, phase>>
  BY DEF SqpIteration, LeavesLoop
<1>2. phase = "sqp" /\ UNCHANGED <<api, warm_start, x, u, w, u0, calm>>
  BY DEF SqpIteration, retained, settings
<1>3. out.solved \in BOOLEAN /\ out.bad \in SUBSET Parts
  BY OutcomeTypes
<1>4. sqp_iter \in Nat /\ sqp_iter < MaxIterSqp /\ sqp_iter' \in 0..MaxIterSqp
  BY <1>1, <1>2, IterationAssumption DEF IInv, TypeOK, StagedInv
<1>5. {cand_x', cand_u', cand_w'} \subseteq Arrays
  BY <1>1, <1>3, <1>4, IncrementedArray DEF IInv, TypeOK
<1>6. cand_x'.of = cycle /\ cand_u'.of = cycle /\ cand_w'.of = cycle
  BY <1>1, <1>3, <1>4, IncrementedArray DEF IInv, TypeOK
<1>7. cycle # x.of
  <2>1. CASE sqp_iter = 0
    BY <1>1, <2>1 DEF CycleId, Held
  <2>2. CASE sqp_iter # 0
    BY <1>1, <1>2, <1>4, <2>2 DEF CycleId, IInv, StagedInv
  <2> QED BY <2>1, <2>2
<1>8. iterate' \in Arrays
  BY <1>1, <1>3 DEF Arrays
<1>9. AllFinite(cand_x', cand_u', cand_w') \in BOOLEAN
  BY DEF AllFinite, Finite
<1>10. TypeOK'
  BY <1>1, <1>2, <1>3, <1>4, <1>5, <1>8, <1>9 DEF IInv, TypeOK, settings
<1>11. StagedInv'
  <2>1. phase' = "sqp" => sqp_iter' < MaxIterSqp
    BY <1>1, <1>4, IterationAssumption
  <2>2. phase' \in {"sqp", "caller"} /\ sqp_iter' > 0
    BY <1>1, <1>2, <1>4
  <2>3. phase' = "caller" => (cand_finite' => AllFinite(cand_x', cand_u', cand_w'))
    BY <1>1, <1>2
  <2> QED BY <1>1, <1>2, <1>4, <1>6, <1>7, <2>1, <2>2, <2>3 DEF StagedInv, AllFinite, Finite
<1>12. RetainedUsable'
  BY <1>2 DEF IInv, RetainedUsable, AllFinite, Finite
<1> QED BY <1>10, <1>11, <1>12 DEF IInv

\* The invariant is inductive, whichever calls the caller makes.
LEMMA Inductive ==
  /\ Init => IInv
  /\ IInv /\ [Next]_vars => IInv'
<1> 0 \in 0..MaxIterSqp
  BY IterationAssumption
<1>1. Init => IInv
  <2> SUFFICES ASSUME Init PROVE IInv
    OBVIOUS
  <2>1. TypeOK
    BY FreshArrays DEF Init, TypeOK
  <2>2. StagedInv
    BY DEF Init, StagedInv
  <2>3. RetainedUsable
    BY FreshArrays DEF Init, RetainedUsable, AllFinite, Finite
  <2> QED BY <2>1, <2>2, <2>3 DEF IInv
<1>2. ASSUME IInv, [Next]_vars PROVE IInv'
  <2> USE <1>2
  <2>1. CASE Rebuild
    <3>1. TypeOK'
      BY <2>1, FreshArrays DEF Rebuild, IInv, TypeOK
    <3>2. StagedInv'
      BY <2>1 DEF Rebuild, StagedInv
    <3>3. RetainedUsable'
      BY <2>1, FreshArrays DEF Rebuild, RetainedUsable, AllFinite, Finite
    <3> QED BY <3>1, <3>2, <3>3 DEF IInv
  <2>2. CASE StartCycle
    <3>1. /\ cand_x' = Posed(Shifted(x)) /\ cand_u' = Shifted(u) /\ cand_w' = w
          /\ cand_solved' = FALSE /\ cand_finite' = FALSE
          /\ sqp_iter' = 0 /\ phase' = "sqp" /\ calm' \in BOOLEAN
          /\ UNCHANGED <<api, warm_start, x, u, w, u0, iterate, qp_ready>>
      BY <2>2 DEF StartCycle, StagedSlack, retained, settings
    <3>2. {cand_x', cand_u', cand_w'} \subseteq Arrays
      BY <3>1, ArrayOperations DEF IInv, TypeOK
    <3>3. cand_x'.of = x.of /\ cand_u'.of = u.of /\ cand_w'.of = w.of
      BY <3>1, ArrayOperations DEF IInv, TypeOK
    <3>4. TypeOK'
      BY <3>1, <3>2 DEF IInv, TypeOK
    <3>5. StagedInv'
      BY <3>1, <3>3, IterationAssumption DEF IInv, StagedInv, RetainedUsable
    <3>6. RetainedUsable'
      BY <3>1 DEF IInv, RetainedUsable, AllFinite, Finite
    <3> QED BY <3>4, <3>5, <3>6 DEF IInv
  <2>3. CASE SqpIteration
    BY <2>3, IterationKeeps
  <2>4. CASE CommitCandidate
    <3>1. /\ phase = "caller" /\ cand_finite /\ phase' = "idle"
          /\ x' = cand_x /\ u' = cand_u /\ w' = cand_w /\ u0' = FirstControl(cand_u)
          /\ UNCHANGED <<api, warm_start, cand_x, cand_u, cand_w, cand_solved,
                         cand_finite, iterate, qp_ready, sqp_iter, calm>>
      BY <2>4 DEF CommitCandidate, Acceptable, Retain, NextAnchor, EndCycle,
                  settings, staged, solver
    <3>2. AllFinite(cand_x, cand_u, cand_w)
      BY <3>1 DEF IInv, StagedInv
    <3>3. u0' \in Arrays /\ (Finite(cand_u) => Finite(u0'))
      BY <3>1, ArrayOperations DEF IInv, TypeOK
    <3>4. TypeOK'
      BY <3>1, <3>3 DEF IInv, TypeOK
    <3>5. RetainedUsable'
      BY <3>1, <3>2, <3>3 DEF IInv, StagedInv, RetainedUsable, AllFinite
    <3> QED BY <3>1, <3>4, <3>5 DEF IInv, StagedInv
  <2>5. CASE RejectAndBrake \/ BrakeBeforeSolve
    <3>1. /\ phase' = "idle" /\ u0' = Ramp
          /\ UNCHANGED <<api, warm_start, x, u, w, cand_x, cand_u, cand_w,
                         cand_solved, cand_finite, iterate, qp_ready, sqp_iter, calm>>
      BY <2>5 DEF RejectAndBrake, BrakeBeforeSolve, SetU0, EndCycle,
                  settings, staged, solver
    <3> QED BY <3>1, FreshArrays
            DEF IInv, TypeOK, StagedInv, RetainedUsable, AllFinite, Finite
  <2>6. CASE RejectAndThrow
    BY <2>6 DEF RejectAndThrow, EndCycle, settings, retained, staged, solver, IInv, TypeOK,
                StagedInv, RetainedUsable, AllFinite, Finite
  <2>7. CASE SolveAndRetain
    <3>1. /\ api = "solve" /\ phase = "caller" /\ phase' = "idle"
          /\ x' = cand_x /\ u' = cand_u /\ w' = cand_w
          /\ u0' = u0 \/ u0' = FirstControl(cand_u)
          /\ UNCHANGED <<api, warm_start, cand_x, cand_u, cand_w, cand_solved,
                         cand_finite, iterate, qp_ready, sqp_iter, calm>>
      BY <2>7 DEF SolveAndRetain, Retain, NextAnchor, EndCycle, settings, staged, solver
    <3>2. u0' \in Arrays
      BY <3>1, ArrayOperations DEF IInv, TypeOK
    <3>3. TypeOK'
      BY <3>1, <3>2 DEF IInv, TypeOK
    <3>4. RetainedUsable'
      BY <3>1 DEF IInv, StagedInv, RetainedUsable
    <3> QED BY <3>1, <3>3, <3>4 DEF IInv, StagedInv
  <2>8. CASE UNCHANGED vars
    BY <2>8 DEF vars, settings, retained, staged, solver, IInv, TypeOK, StagedInv,
                RetainedUsable, AllFinite, Finite
  <2> QED BY <2>1, <2>2, <2>3, <2>4, <2>5, <2>6, <2>7, <2>8 DEF Next
<1> QED BY <1>1, <1>2

\* mpc.hpp, solveCandidate()/commitCandidate()/solve(): whatever the solver
\* produces and the caller rejects, the retained arrays stay of one cycle and,
\* through the pair, finite.
THEOREM UsableCorrect == Spec => []RetainedUsable
<1>1. Init => IInv
  BY Inductive
<1>2. IInv /\ [Next]_vars => IInv'
  BY Inductive
<1>3. IInv => RetainedUsable
  BY DEF IInv
<1> QED BY <1>1, <1>2, <1>3, PTL DEF Spec

\* The SQP counter never passes its cap and every array is one the cycle can make,
\* whichever call ends the cycle and whenever the wall-clock budget expires.
THEOREM TransactionTypeCorrect == Spec => []TypeOK
<1>1. Init => IInv
  BY Inductive
<1>2. IInv /\ [Next]_vars => IInv'
  BY Inductive
<1>3. IInv => TypeOK
  BY DEF IInv
<1> QED BY <1>1, <1>2, <1>3, PTL DEF Spec

\* What the staged arrays were built on, once an iteration ran.
BuildsInv ==
  phase = "caller" \/ (phase = "sqp" /\ sqp_iter > 0) =>
    cand_x.on = x.of /\ cand_u.on = x.of /\ cand_w.on = x.of

\* An iteration builds on the retained trajectory, or on what the one before built.
LEMMA IterationBuilds == IInv /\ BuildsInv /\ SqpIteration => BuildsInv'
<1> SUFFICES ASSUME IInv, BuildsInv, SqpIteration PROVE BuildsInv'
  OBVIOUS
<1>1. PICK cycle \in Cycles, out \in Outcomes :
        /\ cand_x' = Incremented(cand_x, cycle, out.bad)
        /\ cand_u' = Incremented(cand_u, cycle, out.bad)
        /\ cand_w' = Incremented(cand_w, cycle, out.bad)
  BY DEF SqpIteration
<1>2. phase = "sqp" /\ UNCHANGED x /\ sqp_iter \in Nat
  BY IterationAssumption DEF SqpIteration, retained, IInv, TypeOK
<1>3. CASE sqp_iter = 0
  <2>1. cand_x.of = x.of /\ cand_u.of = x.of /\ cand_w.of = x.of
    BY <1>2, <1>3 DEF IInv, StagedInv
  <2> QED BY <1>1, <1>2, <1>3, <2>1 DEF Incremented, BuildsInv
<1>4. CASE sqp_iter > 0
  <2>1. cand_x.on = x.of /\ cand_u.on = x.of /\ cand_w.on = x.of
    BY <1>2, <1>4 DEF BuildsInv
  <2> QED BY <1>1, <1>2, <1>4, <2>1 DEF Incremented, BuildsInv
<1> QED BY <1>2, <1>3, <1>4

\* No part of a rejected candidate reaches a later one, for any number of
\* iterations and any sequence of rejections.
THEOREM BuildsCorrect == Spec => []CandidateBuildsOnRetained
<1>1. Init => IInv /\ BuildsInv
  BY Inductive DEF Init, BuildsInv
<1>2. IInv /\ BuildsInv /\ [Next]_vars => IInv' /\ BuildsInv'
  <2> SUFFICES ASSUME IInv, BuildsInv, [Next]_vars PROVE BuildsInv'
    BY Inductive
  <2>1. CASE Rebuild
    BY <2>1 DEF Rebuild, BuildsInv
  <2>2. CASE StartCycle
    BY <2>2 DEF StartCycle, BuildsInv
  <2>3. CASE SqpIteration
    BY <2>3, IterationBuilds
  <2>4. CASE CommitCandidate \/ RejectAndBrake \/ RejectAndThrow \/ SolveAndRetain
    BY <2>4 DEF CommitCandidate, RejectAndBrake, RejectAndThrow, SolveAndRetain, EndCycle,
                BuildsInv
  <2>5. CASE BrakeBeforeSolve
    BY <2>5 DEF BrakeBeforeSolve, BuildsInv
  <2>6. CASE UNCHANGED vars
    BY <2>6 DEF vars, retained, staged, solver, BuildsInv
  <2> QED BY <2>1, <2>2, <2>3, <2>4, <2>5, <2>6 DEF Next
<1>3. BuildsInv => CandidateBuildsOnRetained
  BY DEF BuildsInv, CandidateBuildsOnRetained
<1> QED BY <1>1, <1>2, <1>3, PTL DEF Spec

\* The candidate pair implements the store it promises: every step of the
\* detailed cycle is a step of the store or leaves it alone.
THEOREM StoreImplemented == Spec => ImplementsStore
<1>1. Init => IInv
  BY Inductive
<1>2. IInv /\ [Next]_vars => IInv'
  BY Inductive
<1> DEFINE StoreVars == <<IF api = "pair" THEN x.of ELSE Zeros,
                           IF api = "pair" THEN u0.of ELSE Zeros>>
<1>3. Init => Store!Init
  BY FreshArrays DEF Init, Store!Init
<1>4. IInv /\ [Next]_vars => [Store!Next]_StoreVars
  <2> SUFFICES ASSUME IInv, [Next]_vars PROVE [Store!Next]_StoreVars
    OBVIOUS
  <2>1. CASE Rebuild
    BY <2>1, FreshArrays DEF Rebuild, Store!Next, Store!Rebuild
  <2>2. CASE StartCycle \/ SqpIteration \/ RejectAndThrow \/ UNCHANGED vars
    BY <2>2 DEF StartCycle, SqpIteration, RejectAndThrow, EndCycle, vars,
                retained, settings
  <2>3. CASE CommitCandidate
    <3>1. /\ phase = "caller" /\ api = "pair" /\ api' = api
          /\ x' = cand_x /\ u0' = FirstControl(cand_u)
      BY <2>3 DEF CommitCandidate, Retain, NextAnchor, EndCycle, settings
    <3>2. u0'.of = cand_u.of
      BY <3>1, ArrayOperations DEF IInv, TypeOK
    <3>3. cand_x.of \in Cycles /\ cand_x.of # x.of /\ cand_u.of = cand_x.of
      BY <3>1 DEF IInv, StagedInv
    <3> QED BY <3>1, <3>2, <3>3 DEF Store!Next, Store!Accept
  <2>4. CASE RejectAndBrake \/ BrakeBeforeSolve
    BY <2>4, FreshArrays
       DEF RejectAndBrake, BrakeBeforeSolve, SetU0, EndCycle, settings,
           Store!Next, Store!Override
  <2>5. CASE SolveAndRetain
    BY <2>5 DEF SolveAndRetain, EndCycle, settings
  <2> QED BY <2>1, <2>2, <2>3, <2>4, <2>5 DEF Next
<1> QED BY <1>1, <1>2, <1>3, <1>4, PTL DEF Spec, ImplementsStore, Store!Spec
=============================================================================
