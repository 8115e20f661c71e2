--------------------------- MODULE MCControlCycle ---------------------------
(* Instances of ControlCycle for TLC: one small box per kind of platform. *)
EXTENDS ControlCycle

\* A unicycle that may back up at a third of its forward speed.
UnicycleLow == [c \in Channels |-> -1]
UnicycleUpp == [c \in Channels |-> IF c = "v" THEN 3 ELSE 1]
OneStep     == [c \in Channels |-> 1]

\* A bicycle: the second control is a steering rate.
BicycleLow == [c \in Channels |-> -1]
BicycleUpp == [c \in Channels |-> IF c = "v" THEN 2 ELSE 1]
=============================================================================
