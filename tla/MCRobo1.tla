------------------------------- MODULE MCRobo1 -------------------------------
(* Small instances of Robo1 for TLC. *)
EXTENDS Robo1

CONSTANTS m1, m2

TwoMotors == {m1, m2}

\* One below zero, as perform_ground_actions leaves them, one small, one large.
SmallValues == {-1, 2, 5}
MinusOne    == -1
MinusNine   == -9
=============================================================================
