------------------------- MODULE MCSpeedLimitExchange -------------------------
(* Requests for TLC: an absolute limit, a relative one, and no limit. *)
EXTENDS SpeedLimitExchange

TwoForms == {[speed |-> 5, percent |-> FALSE], [speed |-> 50, percent |-> TRUE],
             [speed |-> 0, percent |-> FALSE]}
ReverseRange == -4
=============================================================================
