------------------------------ MODULE MpcConfig ------------------------------
(***************************************************************************)
(* The configuration of one MPC object: setters in any order, init() any   *)
(* number of times with its partial effects when it throws, the members    *)
(* and calls that are public past the setters' checks, and the solves that *)
(* rely on what was configured.                                            *)
(*                                                                         *)
(* A setter that throws leaves the object as it was and is no step; an     *)
(* init() that throws does not, and is one.  A weight is its dimension, or *)
(* Malformed when it is not finite, symmetric and positive semidefinite;   *)
(* goals are their shape.  S and W are set and checked as Q is.  A step is *)
(* a fraction <<num, den>>; times are positive (see the README for what    *)
(* setT() also accepts).  Reading or writing past a matrix is undefined,   *)
(* and ends the behaviour in `broken'.                                     *)
(***************************************************************************)
EXTENDS QpLayout, FiniteSets

CONSTANTS
  MaxNp,        \* horizons are set up to MaxNp
  Steps, Times, \* what setdt() and setT() are called with
  Capacities,   \* what setMaxObs() is called with
  Dims,         \* dimensions of the weights callers pass
  Assigned,     \* <<Np, Nc>> callers assign to the public members
  Shapes,       \* <<rows, columns>> of the goals and trajectories callers pass
  Models,       \* the models init() may be given
  Malformed     \* a weight of some dimension that fails the checks

ASSUME ScalarAssumption ==
  /\ MaxNp \in Nat \ {0}
  /\ Steps \subseteq Nat \ {0} /\ Times \subseteq Nat \ {0}
  /\ Capacities \subseteq Nat /\ Dims \subseteq Nat \ {0} /\ Malformed \notin Nat
  /\ Shapes \subseteq Nat \X Nat /\ Assigned \subseteq (0 .. MaxNp) \X (0 .. MaxNp)
ASSUME ModelAssumption ==
  \A mod \in Models :
    /\ mod.n \in Nat \ {0} /\ mod.m \in Nat \ {0}
    /\ mod.obs \in BOOLEAN
    /\ mod.px \in Nat /\ mod.py \in Nat
    /\ mod.x \in Seq(0 .. mod.n - 1)
    /\ mod.u \in Seq(0 .. mod.m - 1) /\ mod.du \in Seq(0 .. mod.m - 1)

VARIABLES
  Np, Nc,      \* 0 while unset
  dt, T,       \* <<0, 1>> and 0 while unset
  max_obs, cbf,    \* slots per node; whether cbf_gamma < 1 couples the nodes
  model,       \* what init() was last given; MPC's n and m are this model's
  Q, R,        \* 0 while unset
  goal_x, goal_u,  \* <<rows, columns>>; checked: against dimensions init() accepted
  obs,         \* rows of the obstacle matrix, and the (node, slot)s it fills
  initialized,
  assigned,    \* a caller has assigned a public size past the setters
  buffers,     \* shapes of x, u and w, and the bounds counted in n_ineq
  solver,      \* what the ProxQP object was configured for
  pattern,     \* its declared inequality positions
  coupled,     \* obstacle rows the last assembly coupled to the node before
  gradient,    \* entries of those couplings that are not zero
  broken

horizon == <<Np, Nc, dt, T>>
weights == <<Q, R>>
goals   == <<goal_x, goal_u>>
avoidance == <<max_obs, cbf>>
sizes   == <<buffers, solver, pattern>>
qp      == <<coupled, gradient>>
vars    == <<horizon, avoidance, model, weights, goals, obs, initialized, assigned, sizes, qp, broken>>

Empty    == [rows |-> 0, cols |-> 0, checked |-> FALSE]
Unsized  == [x |-> <<0, 0>>, u |-> <<0, 0>>, w |-> 0, n_ineq |-> 0]
NoModel  == [n |-> 0, m |-> 0]
\* No ProxQP object, or one whose configuration threw.
NoSolver == [Np |-> 0]
Ready    == solver.Np > 0

Init ==
  /\ Np = 0 /\ Nc = 0 /\ dt = <<0, 1>> /\ T = 0 /\ max_obs = 0 /\ cbf = FALSE
  /\ model = NoModel /\ Q = 0 /\ R = 0 /\ goal_x = Empty /\ goal_u = Empty
  /\ obs = [rows |-> 0, filled |-> {}]
  /\ initialized = FALSE /\ assigned = FALSE /\ buffers = Unsized /\ solver = NoSolver
  /\ pattern = {} /\ coupled = {} /\ gradient = {} /\ broken = FALSE

-----------------------------------------------------------------------------
(* Structural setters: rejected once initialized.                          *)

Settable == ~initialized /\ ~broken
Rest == UNCHANGED <<model, obs, initialized, assigned, sizes, qp, broken>>

\* The step that keeps T over k nodes, if T is known.
StepFor(k) == IF T > 0 THEN <<T, k>> ELSE dt

SetNp(k) ==
  /\ Settable /\ k > 0 /\ ~(Nc > 0 /\ Nc > k)
  /\ Np' = k /\ dt' = StepFor(k)
  /\ UNCHANGED <<Nc, T, avoidance, weights, goals>> /\ Rest

SetNc(k) ==
  /\ Settable /\ k > 0 /\ ~(Np > 0 /\ k > Np)
  /\ Nc' = k
  /\ UNCHANGED <<Np, dt, T, avoidance, weights, goals>> /\ Rest

Setdt(d) ==
  /\ Settable
  /\ dt' = <<d, 1>> /\ T' = IF Np > 0 THEN Np * d ELSE T
  /\ UNCHANGED <<Np, Nc, avoidance, weights, goals>> /\ Rest

SetT(t) ==
  /\ Settable
  /\ T' = t /\ dt' = IF Np > 0 THEN <<t, Np>> ELSE dt
  /\ UNCHANGED <<Np, Nc, avoidance, weights, goals>> /\ Rest

SetMaxObs(k) ==
  /\ Settable
  /\ max_obs' = k
  /\ UNCHANGED <<horizon, cbf, weights, goals>> /\ Rest

SetCbfGamma(below1) ==
  /\ Settable
  /\ cbf' = below1
  /\ UNCHANGED <<horizon, max_obs, weights, goals>> /\ Rest

SetQ(q) ==
  /\ Settable
  /\ Q' = q
  /\ UNCHANGED <<horizon, avoidance, R, goals>> /\ Rest

SetR(r) ==
  /\ Settable
  /\ R' = r
  /\ UNCHANGED <<horizon, avoidance, Q, goals>> /\ Rest

-----------------------------------------------------------------------------
(* Per-cycle setters: the goals, checked against what is known so far, and *)
(* the obstacle matrix and the trajectory, stored as they are.  The last   *)
(* two are taken of a configured object: the init() that configures one    *)
(* overwrites both.                                                        *)

\* Mutant: every init() sets the weights anew, in the dimensions of its model.
Defaulted_Always(w, d) == d

Defaulted(w, d) == IF w = 0 THEN d ELSE w
WeightsFit(mod) == Defaulted(Q, mod.n) = mod.n /\ Defaulted(R, mod.m) = mod.m

\* The model goals are checked against is one that init() has accepted.
Accepted == initialized /\ WeightsFit(model)

SetGoalX(rows, cols) ==
  /\ ~broken
  /\ ~(Np > 0 /\ rows < Np + 1) /\ ~(model.n > 0 /\ cols # model.n)
  /\ goal_x' = [rows |-> rows, cols |-> cols, checked |-> Accepted]
  /\ UNCHANGED <<horizon, avoidance, weights, goal_u>> /\ Rest

SetGoalU(rows, cols) ==
  /\ ~broken
  /\ ~(Nc > 0 /\ rows < Nc) /\ ~(model.m > 0 /\ cols # model.m)
  /\ goal_u' = [rows |-> rows, cols |-> cols, checked |-> Accepted]
  /\ UNCHANGED <<horizon, avoidance, weights, goal_x>> /\ Rest

SetObs(rows, filled) ==
  /\ Ready /\ ~broken
  /\ obs' = [rows |-> rows, filled |-> filled]
  /\ UNCHANGED <<horizon, avoidance, model, weights, goals, initialized, assigned, sizes, qp, broken>>

SetX(shape) ==
  /\ Ready /\ ~broken
  /\ buffers' = [buffers EXCEPT !.x = shape]
  /\ UNCHANGED <<horizon, avoidance, model, weights, goals, obs, initialized, assigned,
                 solver, pattern, qp, broken>>

\* Np and Nc are public members.
Assign(s) ==
  /\ ~broken
  /\ Np' = s[1] /\ Nc' = s[2] /\ assigned' = TRUE
  /\ UNCHANGED <<dt, T, avoidance, model, weights, goals, obs, initialized, sizes, qp, broken>>

-----------------------------------------------------------------------------
(* init(), which may be called again and again: it writes as it goes,      *)
(* throws where a check fails and takes nothing back, and it clears neither *)
(* the goals nor `initialized'.                                            *)

Slackened(mod) == mod.obs /\ max_obs > 0
Slack(mod)     == IF Slackened(mod) THEN Np * max_obs ELSE 0

\* What the assembly of a configured solver indexes.
Problem(s) ==
  [n |-> s.model.n, m |-> s.model.m, np |-> s.Np, nc |-> s.Nc, pos |-> {s.model.px, s.model.py},
   k |-> IF s.model.obs THEN s.K ELSE 0, barrier |-> s.cbf,
   x |-> s.model.x, u |-> s.model.u, du |-> s.model.du]

ReadModel(mod) ==
  /\ model' = mod
  /\ Q' = Defaulted(Q, mod.n) /\ R' = Defaulted(R, mod.m)
MappingFits(mod) == Slackened(mod) => mod.px < mod.n /\ mod.py < mod.n /\ mod.px # mod.py
Bounds(mod)      == Len(mod.x) + Len(mod.u) + Len(mod.du)

SizeBuffers(mod) ==
  buffers' = [x |-> <<Np + 1, mod.n>>, u |-> <<Nc, mod.m>>, w |-> Slack(mod), n_ineq |-> Bounds(mod)]

\* configProxQP(), which throws for a step, a control horizon or a mapping it
\* cannot use, and otherwise starts from matrices of zeros.
Usable(mod) == Nc > 0 /\ dt[1] > 0 /\ MappingFits(mod)
Configured(mod) ==
  [model |-> mod, Np |-> Np, Nc |-> Nc, dt |-> dt, K |-> max_obs, cbf |-> cbf]
ConfigProxQP(mod) ==
  /\ solver' = Configured(mod) /\ pattern' = Written(Problem(Configured(mod)), {})
  /\ coupled' = {} /\ gradient' = {}
ConfigFails ==
  solver' = NoSolver /\ pattern' = {} /\ coupled' = {} /\ gradient' = {}

\* Mutant: the buffers are sized before the checks that may throw.
InitRejected_SizedFirst(mod) ==
  /\ ~broken
  /\ ReadModel(mod) /\ SizeBuffers(mod)
  /\ ~WeightsFit(mod) \/ Nc > Np
  /\ UNCHANGED <<horizon, avoidance, goals, obs, initialized, assigned, solver, pattern, qp, broken>>

\* A weight does not fit the model or is malformed, or Nc exceeds Np.
InitRejected(mod) ==
  /\ ~broken
  /\ ReadModel(mod)
  /\ ~WeightsFit(mod) \/ Nc > Np
  /\ UNCHANGED <<horizon, avoidance, goals, obs, initialized, assigned, sizes, qp, broken>>

\* The buffers are sized, then the new solver rejects the step or the mapping.
SolverRejected(mod) ==
  /\ ~broken /\ 0 < Nc /\ Nc <= Np
  /\ ReadModel(mod) /\ WeightsFit(mod) /\ ~Usable(mod)
  /\ SizeBuffers(mod) /\ ConfigFails
  /\ UNCHANGED <<horizon, avoidance, goals, obs, initialized, assigned, broken>>

\* init() reads the first row of the control buffer, which an unset control
\* horizon leaves without rows.
InitWithoutHorizon(mod) ==
  /\ ~broken /\ Nc = 0
  /\ ReadModel(mod) /\ WeightsFit(mod)
  /\ broken' = TRUE
  /\ UNCHANGED <<horizon, avoidance, goals, obs, initialized, assigned, sizes, qp>>

InitDone(mod) ==
  /\ ~broken /\ Nc <= Np
  /\ ReadModel(mod) /\ WeightsFit(mod) /\ Usable(mod)
  /\ SizeBuffers(mod) /\ ConfigProxQP(mod)
  /\ obs' = [rows |-> Np * max_obs, filled |-> {}]
  /\ initialized' = TRUE
  /\ UNCHANGED <<horizon, avoidance, goals, assigned, broken>>

\* configProxQP() is public: on an initialized object it configures the solver again,
\* from the members and for the model on record, which init() may have rejected.
Counted == WeightsFit(model) /\ buffers.n_ineq = Bounds(model)
UnchangedByConfig ==
  UNCHANGED <<horizon, avoidance, model, weights, goals, obs, initialized, assigned, buffers>>

Reconfigure ==
  /\ initialized /\ ~broken /\ Np > 0 /\ Usable(model) /\ Counted
  /\ ConfigProxQP(model)
  /\ UnchangedByConfig /\ UNCHANGED broken

ReconfigureRejected ==
  /\ initialized /\ ~broken /\ Np > 0 /\ ~Usable(model)
  /\ ConfigFails
  /\ UnchangedByConfig /\ UNCHANGED broken

\* The weights or the counted bounds are another model's.
ReconfigureUndefined ==
  /\ initialized /\ ~broken /\ Np > 0 /\ Usable(model) /\ ~Counted
  /\ broken' = TRUE
  /\ UnchangedByConfig /\ UNCHANGED <<solver, pattern, qp>>

-----------------------------------------------------------------------------
(* A solve: the obstacle matrix is checked, the goals are read, and every  *)
(* position setC() writes gets its value.                                  *)

\* The rows of the obstacle block whose barrier couples two filled slots.
CoupledRows(p) ==
  IF ~p.barrier THEN {}
  ELSE {s \in p.k .. p.np * p.k - 1 : {s, s - p.k} \subseteq obs.filled}

\* Their entries at the node before.
Gradients(p, rows) ==
  UNION {{<<End(p, ObsBlock(p) - 1) + s, p.n * NodeOf(p, s) + i>> : i \in p.pos} : s \in rows}

Fits(goal, rows, cols) == goal.rows >= rows /\ goal.cols = cols
\* What the solver reads and adds to is there, in the shapes it was configured for.
GoalsFit   == Fits(goal_x, solver.Np + 1, solver.model.n) /\ Fits(goal_u, solver.Nc, solver.model.m)
XFits      == buffers.x = <<solver.Np + 1, solver.model.n>>
OthersFit  == /\ buffers.u = <<solver.Nc, solver.model.m>>
              /\ buffers.w = solver.Np * Problem(solver).k
SolveReads == Ready /\ GoalsFit /\ XFits /\ OthersFit
ObsFits    == Ready => solver.K = 0 \/ obs.rows = solver.Np * solver.K

\* An entry this assembly does not write keeps its value from an earlier one.
Solve ==
  /\ ~broken /\ ObsFits /\ SolveReads
  /\ LET p == Problem(solver)
     IN  /\ coupled' = IF p.k > 0 THEN CoupledRows(p) ELSE {}
         /\ gradient' = IF p.k > 0
                        THEN (gradient \ Couplings(p, CoupledRows(p)))
                               \cup Gradients(p, CoupledRows(p))
                        ELSE {}
  /\ UNCHANGED <<horizon, avoidance, model, weights, goals, obs, initialized, assigned, sizes, broken>>

SolveUndefined ==
  /\ ~broken /\ ObsFits /\ ~SolveReads
  /\ broken' = TRUE
  /\ UNCHANGED <<horizon, avoidance, model, weights, goals, obs, initialized, assigned, sizes, qp>>

Next ==
  \/ \E k \in 0 .. MaxNp : SetNp(k) \/ SetNc(k)
  \/ \E d \in Steps : Setdt(d)
  \/ \E t \in Times : SetT(t)
  \/ \E k \in Capacities : SetMaxObs(k)
  \/ \E b \in BOOLEAN : SetCbfGamma(b)
  \/ \E q \in Dims \cup {Malformed} : SetQ(q)
  \/ \E r \in Dims : SetR(r)
  \/ \E s \in Shapes : SetGoalX(s[1], s[2]) \/ SetGoalU(s[1], s[2]) \/ SetX(s)
  \/ \E over \in {0, 1} : \E f \in SUBSET (0 .. Np * max_obs - 1) :
       SetObs((Np + over) * max_obs, f)
  \/ \E s \in Assigned : Assign(s)
  \/ \E mod \in Models : \/ InitRejected(mod) \/ SolverRejected(mod)
                         \/ InitWithoutHorizon(mod) \/ InitDone(mod)
  \/ Reconfigure \/ ReconfigureRejected \/ ReconfigureUndefined
  \/ Solve \/ SolveUndefined

Spec == Init /\ [][Next]_vars

-----------------------------------------------------------------------------
(* Properties.                                                             *)

\* Setters and init(), rejected or not, leave counts that are counts and weights
\* that are dimensions or known to be malformed.
TypeOK ==
  /\ Np \in 0 .. MaxNp /\ Nc \in 0 .. MaxNp /\ max_obs \in Nat
  /\ dt \in Nat \X (1 .. MaxNp) /\ T \in Nat
  /\ Q \in Nat \cup {Malformed} /\ R \in Nat \cup {Malformed}
  /\ model \in Models \cup {NoModel}
  /\ DOMAIN buffers = DOMAIN Unsized
  /\ cbf \in BOOLEAN /\ initialized \in BOOLEAN /\ assigned \in BOOLEAN /\ broken \in BOOLEAN

\* The three views of the horizon agree whatever the order of the setters: the
\* step is the horizon time over the nodes, and controls end before states do.
HorizonConsistent ==
  ~assigned => /\ Np > 0 /\ T > 0 => dt[1] * Np = T * dt[2]
               /\ Np > 0 => Nc <= Np

\* From the init() that completes, through every later one that completes or throws
\* anywhere, and through configProxQP(): while the solver is configured it, the
\* buffers, the weights and the members it was configured from have one size, be the
\* model on record another.  Only assigning a public size parts them.
ConfiguredAsBuilt ==
  initialized /\ Ready /\ ~assigned =>
    /\ solver = Configured(solver.model)
    /\ Q = solver.model.n /\ R = solver.model.m
    /\ OthersFit /\ buffers.n_ineq = Bounds(solver.model)

\* A solve reads past its matrices only for a reason of the caller's: a goal given
\* before init() or after one that rejected the dimensions of its model, a trajectory
\* of another shape, an assigned size, or a solver whose configuration threw.  A goal
\* given otherwise stays good for every later model init() accepts.
SolvesInBounds ==
  Ready /\ ~assigned /\ XFits /\ goal_x.checked /\ goal_u.checked => SolveReads

Rows(entries)     == {e[1] : e \in entries}
At(entries, r)    == {e[2] : e \in {f \in entries : f[1] = r}}
StateColumns(p)   == 0 .. UStart(p) - 1
ControlColumns(p) == UStart(p) .. WStart(p) - 1

\* The assembly fills every row it declared and stays in its columns, for every
\* horizon, also with one control or fewer controls than states: a rate row pairs
\* two controls, an obstacle row has a slack of its own, each state but the first
\* follows from the one before it and one control.
AssemblyInBounds ==
  Ready =>
    LET p == Problem(solver)
        Obstacles == IF p.k > 0 THEN RowsOf(p, ObsBlock(p)) ELSE {}
    IN  /\ Rows(pattern) = InequalityRows(p)
        /\ \A e \in pattern : e[2] \in Columns(p)
        /\ \A r \in InequalityRows(p) \ Obstacles :
             \/ Cardinality(At(pattern, r)) = 1
             \/ Cardinality(At(pattern, r)) = 2 /\ At(pattern, r) \subseteq ControlColumns(p)
        /\ \A r, q \in Obstacles : r # q =>
             (At(pattern, r) \cap At(pattern, q)) \subseteq StateColumns(p)
        /\ Rows(Dynamics(p)) = EqualityRows(p)
        /\ \A r \in EqualityRows(p) : r >= p.n =>
             /\ Cardinality(At(Dynamics(p), r) \cap StateColumns(p)) = 2 * p.n
             /\ Cardinality(At(Dynamics(p), r) \cap ControlColumns(p)) = p.m

\* The coupling gradients in the QP are those of the obstacles of this solve, at
\* positions declared at init(): no slot keeps the gradient of an obstacle that has
\* left it, and none is dropped because its position was not declared.
CouplingIsCurrent ==
  Ready => /\ gradient = (IF coupled = {} THEN {} ELSE Gradients(Problem(solver), coupled))
           /\ gradient \subseteq pattern

=============================================================================
