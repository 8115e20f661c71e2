-------------------------- MODULE MCTravelReference --------------------------
(* A reversing platform for TLC. *)
EXTENDS TravelReference

ReverseSpeed == -1
=============================================================================
