---------------------------- MODULE MCControlLoop ----------------------------
(* Small instances of ControlLoop for TLC. *)
EXTENDS ControlLoop

CONSTANTS m1, m2

OneMotor  == {m1}
TwoMotors == {m1, m2}

\* Idle limits below, at and above what one or two revving steps reach.
SmallLimits == {-1, 3}

\* Raw controller outputs below and above the range of a motor.
SmallOutputs == {-2, 9}
=============================================================================
