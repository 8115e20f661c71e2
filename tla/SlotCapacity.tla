----------------------------- MODULE SlotCapacity -----------------------------
(***************************************************************************)
(* The slots of the obstacle matrix, and how many of them moving tracks    *)
(* may take: what the feed of tracks and the fill of the matrix share.     *)
(***************************************************************************)
EXTENDS Integers

CONSTANTS
  K,             \* max_obstacles_
  MaxDynamic     \* max_dynamic_obstacles_, negative for no limit

ASSUME SlotAssumption == K \in Nat \ {0} /\ MaxDynamic \in Int

Minimum(a, b) == IF a < b THEN a ELSE b

\* n_dyn: how many of the moving tracks get a slot, and with it a prediction.
Selected(movers) ==
  LET slots == Minimum(movers, K)
  IN  IF MaxDynamic >= 0 THEN Minimum(slots, MaxDynamic) ELSE slots

=============================================================================
