------------------------------ MODULE MCJaviator ------------------------------
(* A small instance of Javiator for TLC. *)
EXTENDS Javiator

CONSTANT m1

OneMotor    == {m1}
HighOutput  == {9}
MinusNine   == -9
=============================================================================
