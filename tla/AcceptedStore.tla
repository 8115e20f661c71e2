---------------------------- MODULE AcceptedStore ----------------------------
(***************************************************************************)
(* What the propose-and-commit pair of prox_mpc::MPC promises its caller:  *)
(* one trajectory, retained only as a whole and only from a cycle the      *)
(* caller accepted, and the control the next cycle's rate constraint is    *)
(* anchored on, which moves with the retained trajectory or is set by the  *)
(* caller to the control it applied instead.                               *)
(***************************************************************************)
CONSTANTS Cycles,    \* identities of solve cycles
          Zeros,     \* the all-zero trajectory init() starts from
          Applied    \* a control the caller applied by itself

VARIABLES retained, anchor

Init == retained = Zeros /\ anchor = Zeros

\* init() on a freshly built solver.
Rebuild == retained' = Zeros /\ anchor' = Zeros

Accept(cycle) ==
  /\ cycle # retained
  /\ retained' = cycle /\ anchor' = cycle

Override == anchor' = Applied /\ UNCHANGED retained

Next == Rebuild \/ Override \/ \E cycle \in Cycles : Accept(cycle)

Spec == Init /\ [][Next]_<<retained, anchor>>
=============================================================================
