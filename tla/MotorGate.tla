------------------------------ MODULE MotorGate ------------------------------
(***************************************************************************)
(* What the Robostix promises about the rotors, whatever the Gumstix and   *)
(* the line between them do: the gate to the rotors opens only by taking a *)
(* state switch from the line and closes only by taking a shut-down, the   *)
(* PWM outputs move only while it is open, and closing it takes them to    *)
(* the minimum in the same step.  What is on the line is the environment's *)
(* affair: anything may be sent, and lost.                                 *)
(***************************************************************************)
EXTENDS Integers, Sequences

CONSTANTS Motors, PwmMax

VARIABLES armed, pwm, wire

gateVars == <<armed, pwm, wire>>

Off == [m \in Motors |-> 0]

Takes(type) == /\ wire # << >>
               /\ Head(wire).type = type
               /\ wire' = Tail(wire)

Init == armed = FALSE /\ pwm = Off

\* Only a state switch opens the gate, and the outputs wait for signals.
Arm == Takes("switch") /\ armed' = TRUE /\ UNCHANGED pwm

\* A shut-down closes it.
Disarm == Takes("shutdown") /\ armed' = FALSE /\ pwm' = Off

\* New signals, or a silent period, move the outputs of an open gate.
Drive == /\ armed
         /\ pwm' \in [Motors -> 0..PwmMax]
         /\ UNCHANGED armed

\* The line, and packets that say nothing to the gate.
Traffic == UNCHANGED <<armed, pwm>>

Next == Arm \/ Disarm \/ Drive \/ Traffic

Spec == Init /\ [][Next]_gateVars
=============================================================================
