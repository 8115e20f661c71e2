--------------------------- MODULE MpcTransaction ---------------------------
(***************************************************************************)
(* The retained and the staged state of prox_mpc::MPC over solve cycles:   *)
(* solveCandidate() with its SQP loop, commitCandidate(), solve(), setU0() *)
(* and the workspace ProxQP keeps between QP sub-problems.                 *)
(*                                                                         *)
(* An array is abstracted to the cycle whose increments it holds, the      *)
(* cycle of the array those increments were added to, and the part of its  *)
(* horizon that is not finite: the first row, the rows after it, or both.  *)
(***************************************************************************)
EXTENDS Integers, FiniteSets

CONSTANTS
  Cycles,      \* identities of solve cycles, reused once nothing holds them
  Zeros,       \* identity of the zero arrays of init()
  Applied,     \* identity of a control given to setU0()
  MaxIterSqp   \* max_iter_sqp

ASSUME CyclesAssumption == IsFiniteSet(Cycles) /\ {Zeros, Applied} \cap Cycles = {}
ASSUME IterationAssumption == MaxIterSqp \in Nat \ {0}

Parts  == {"head", "tail"}
Arrays == [of : Cycles \cup {Zeros, Applied}, on : Cycles \cup {Zeros, Applied},
           bad : SUBSET Parts]
Fresh  == [of |-> Zeros, on |-> Zeros, bad |-> {}]
Ramp   == [of |-> Applied, on |-> Applied, bad |-> {}]

VARIABLES
  api,                              \* the calls the caller makes: "pair" or "solve"
  warm_start,                       \* sparse backend that keeps its workspace
  x, u, w, u0,                      \* retained
  cand_x, cand_u, cand_w,           \* staged
  cand_solved, cand_finite,
  iterate,                          \* the workspace's primal/dual iterate
  qp_ready,                         \* the workspace is built
  sqp_iter,
  phase,                            \* idle, in the SQP loop, or back in the caller
  calm                              \* the cycle's problem is one a QP can solve

retained == <<x, u, w, u0>>
staged   == <<cand_x, cand_u, cand_w, cand_solved, cand_finite>>
solver   == <<iterate, qp_ready, sqp_iter>>
settings == <<api, warm_start>>
vars     == <<settings, retained, staged, solver, phase, calm>>

Finite(array) == array.bad = {}

-----------------------------------------------------------------------------
Init ==
  /\ api \in {"pair", "solve"} /\ warm_start \in BOOLEAN
  /\ x = Fresh /\ u = Fresh /\ w = Fresh /\ u0 = Fresh
  /\ cand_x = Fresh /\ cand_u = Fresh /\ cand_w = Fresh
  /\ cand_solved = FALSE /\ cand_finite = FALSE
  /\ iterate = Fresh /\ qp_ready = FALSE /\ sqp_iter = 0
  /\ phase = "idle" /\ calm \in BOOLEAN

\* configure(): a new MPC, its init() and a new workspace, parameters read anew.
Rebuild ==
  /\ phase = "idle"
  /\ x' = Fresh /\ u' = Fresh /\ w' = Fresh /\ u0' = Fresh
  /\ cand_x' = Fresh /\ cand_u' = Fresh /\ cand_w' = Fresh
  /\ cand_solved' = FALSE /\ cand_finite' = FALSE
  /\ iterate' = Fresh /\ qp_ready' = FALSE /\ sqp_iter' = 0
  /\ warm_start' \in BOOLEAN
  /\ UNCHANGED <<api, phase, calm>>

\* One row forward, the last one repeated.
Shifted(array) == [array EXCEPT !.bad = IF "tail" \in @ THEN Parts ELSE {}]

\* Row 0 of the states is the measured pose, which the caller has checked.
Posed(array) == [array EXCEPT !.bad = @ \ {"head"}]

\* Mutant: the slack of the last candidate is carried into the next.
StagedSlack_Kept == cand_w

\* cand_w = w: the slack is not shifted.
StagedSlack == w

\* The caller opens a cycle: the candidate starts as a shifted copy of what is
\* retained.
StartCycle ==
  /\ phase = "idle"
  /\ cand_x' = Posed(Shifted(x)) /\ cand_u' = Shifted(u) /\ cand_w' = StagedSlack
  /\ cand_solved' = FALSE /\ cand_finite' = FALSE
  /\ sqp_iter' = 0 /\ phase' = "sqp" /\ calm' \in BOOLEAN
  /\ UNCHANGED <<settings, retained, iterate, qp_ready>>

\* A QP sub-problem is built from the candidate and the anchor, and warm-started
\* from the workspace when it is kept.
WarmStarted == warm_start /\ qp_ready
CleanInput ==
  /\ Finite(cand_x) /\ Finite(cand_u) /\ Finite(cand_w) /\ Finite(u0)
  /\ WarmStarted => Finite(iterate)

\* Increments a QP may return.  Arithmetic on a non-finite operand is non-finite
\* and never meets the stopping test; a calm problem with clean input is solved.
Outcomes ==
  IF ~CleanInput THEN {[solved |-> FALSE, bad |-> Parts]}
  ELSE IF calm THEN {[solved |-> TRUE, bad |-> {}]}
  ELSE [solved : BOOLEAN, bad : SUBSET Parts]

Incremented(array, cycle, bad) ==
  [of |-> cycle, on |-> IF sqp_iter = 0 THEN array.of ELSE array.on,
   bad |-> array.bad \cup bad]

\* Identities something still holds once the candidate has been restarted.
Held == {x.of, u.of, w.of, u0.of, iterate.of, x.on, u.on, w.on}
CycleId(cycle) == IF sqp_iter = 0 THEN cycle \notin Held ELSE cycle = cand_x.of

\* Mutant: only the first rows are tested.
AllFinite_HeadOnly(a, b, c) == \A array \in {a, b, c} : "head" \notin array.bad

\* allFinite() over the whole horizon.
AllFinite(a, b, c) == \A array \in {a, b, c} : Finite(array)

\* The loop is left when the QP converged, at the iteration cap, or on the
\* wall-clock budget, which may expire at any turn.
LeavesLoop(solved, iterations, timed_out) ==
  solved \/ iterations >= MaxIterSqp \/ timed_out

\* One turn of the SQP loop.
SqpIteration ==
  /\ phase = "sqp"
  /\ \E cycle \in Cycles, out \in Outcomes, timed_out \in BOOLEAN :
       /\ CycleId(cycle)
       /\ cand_x' = Incremented(cand_x, cycle, out.bad)
       /\ cand_u' = Incremented(cand_u, cycle, out.bad)
       /\ cand_w' = Incremented(cand_w, cycle, out.bad)
       /\ iterate' = [of |-> cycle, on |-> cycle, bad |-> out.bad]
       /\ qp_ready' = TRUE
       /\ sqp_iter' = sqp_iter + 1
       /\ IF LeavesLoop(out.solved, sqp_iter', timed_out)
          THEN /\ cand_solved' = out.solved
               /\ cand_finite' = AllFinite(cand_x', cand_u', cand_w')
               /\ phase' = "caller"
          ELSE UNCHANGED <<cand_solved, cand_finite, phase>>
  /\ UNCHANGED <<settings, retained, calm>>

\* The row a first control is read from.
FirstControl(array) == [array EXCEPT !.bad = @ \ {"tail"}]

Retain == x' = cand_x /\ u' = cand_u /\ w' = cand_w

\* Mutant: the anchor is read from the controls before they are replaced.
NextAnchor_Previous == FirstControl(u)

\* cand_u0, the control about to be sent.
NextAnchor == FirstControl(cand_u)

\* The candidates commitCandidate() does not refuse.
Acceptable == cand_solved /\ cand_finite

EndCycle == phase' = "idle" /\ UNCHANGED <<settings, staged, solver, calm>>

\* The caller's own gates passed as well.
CommitCandidate ==
  /\ api = "pair" /\ phase = "caller" /\ Acceptable
  /\ Retain /\ u0' = NextAnchor
  /\ EndCycle

\* setU0() with the finite control the caller applied instead.
SetU0 == u0' = Ramp /\ UNCHANGED <<x, u, w>>

\* A gate of the caller rejected a candidate it could have had; in calm it has
\* no reason to.
RejectAndBrake ==
  /\ api = "pair" /\ phase = "caller" /\ ~(calm /\ Acceptable)
  /\ SetU0 /\ EndCycle

\* The same, ending in an exception: no control was applied.
RejectAndThrow ==
  /\ api = "pair" /\ phase = "caller" /\ ~(calm /\ Acceptable)
  /\ UNCHANGED retained /\ EndCycle

\* A gate before the solve braked or threw: the candidate is not touched.
BrakeBeforeSolve ==
  /\ api = "pair" /\ phase = "idle"
  /\ SetU0 /\ UNCHANGED <<settings, staged, solver, phase, calm>>

\* solve(): retains whatever the cycle produced.
SolveAndRetain ==
  /\ api = "solve" /\ phase = "caller"
  /\ Retain
  /\ IF cand_solved THEN u0' = NextAnchor ELSE UNCHANGED u0
  /\ EndCycle

Next ==
  \/ Rebuild \/ StartCycle \/ SqpIteration \/ CommitCandidate
  \/ RejectAndBrake \/ RejectAndThrow \/ BrakeBeforeSolve \/ SolveAndRetain

Spec == Init /\ [][Next]_vars

\* The caller's loop keeps opening cycles and finishing them.
Fairness ==
  WF_vars(StartCycle \/ SqpIteration \/ CommitCandidate \/ RejectAndBrake
          \/ RejectAndThrow \/ SolveAndRetain)
FairSpec == Spec /\ Fairness

-----------------------------------------------------------------------------
(* Properties. *)

TypeOK ==
  /\ api \in {"pair", "solve"} /\ warm_start \in BOOLEAN
  /\ x \in Arrays /\ u \in Arrays /\ w \in Arrays /\ u0 \in Arrays
  /\ cand_x \in Arrays /\ cand_u \in Arrays /\ cand_w \in Arrays
  /\ iterate \in Arrays
  /\ cand_solved \in BOOLEAN /\ cand_finite \in BOOLEAN
  /\ qp_ready \in BOOLEAN /\ calm \in BOOLEAN
  /\ sqp_iter \in 0..MaxIterSqp
  /\ phase \in {"idle", "sqp", "caller"}

\* The next cycle always starts from usable state: whatever was proposed, timed
\* out or rejected in between, states, controls and slack retained belong to one
\* and the same cycle and, for a caller of the pair, are finite over the whole
\* horizon.
RetainedUsable ==
  /\ x.of = u.of /\ u.of = w.of
  /\ api = "pair" => \A array \in {x, u, w, u0} : Finite(array)

\* Every candidate is the retained trajectory plus this cycle's increments: no
\* part of a candidate that was rejected reaches a later one.
CandidateBuildsOnRetained ==
  phase = "caller" =>
    \A array \in {cand_x, cand_u, cand_w} : array.on = x.of

\* The pair implements the store: x stands for the retained trajectory, u0 for
\* the anchor.  solve() promises no such store.
Store == INSTANCE AcceptedStore
           WITH retained <- IF api = "pair" THEN x.of ELSE Zeros,
                anchor <- IF api = "pair" THEN u0.of ELSE Zeros
ImplementsStore == Store!Spec

\* A fault does not outlive its cause: if from some time on the problems posed are
\* solvable and the workspace is rebuilt for each, the pair's caller commits again
\* and again.  (A kept workspace keeps a non-finite iterate as well.)
Recovers ==
  api = "pair" /\ <>[](phase # "idle" => calm /\ ~warm_start) =>
    []<><<CommitCandidate>>_vars
=============================================================================
