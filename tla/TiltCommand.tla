----------------------------- MODULE TiltCommand -----------------------------
(***************************************************************************)
(* The roll/pitch command beside the yaw (control_loop.c): the terminal    *)
(* means it in the frame of the room, and compute_motor_signals rotates it *)
(* into that of the helicopter.  Only its direction counts: to rotate it   *)
(* by the yaw angle is to subtract an angle.                               *)
(***************************************************************************)
EXTENDS Heading

VARIABLES
  tilt,           \* direction of command_data.roll and .pitch
  received_tilt   \* history: the direction last taken from the terminal

tiltVars == <<tilt, received_tilt>>

Directions == 0..(Turn - 1)

TiltInit == Init /\ tilt = 0 /\ received_tilt = 0

TakeTilt ==
  /\ TakeCommandData
  /\ tilt' \in Directions /\ received_tilt' = tilt'

\* The yaw the matrices were set to is the continuous one.
RotateTilt ==
  /\ ComputeMotorSignals
  /\ tilt' = (tilt - sensor_yaw) % Turn
  /\ UNCHANGED received_tilt

KeepTilt ==
  /\ \/ TerminalBroken \/ ShutDown \/ SwitchState \/ NoCommandData
     \/ PrepareSensorData \/ StayDown
  /\ UNCHANGED tiltVars

TiltSpec == TiltInit /\ [][TakeTilt \/ RotateTilt \/ KeepTilt]_<<vars, tiltVars>>

-----------------------------------------------------------------------------
\* control_loop.c:548 says "rotate roll/pitch command depending on current yaw
\* angle": what the controllers get is the terminal's command turned by the
\* yaw of this iteration.
CommandIsRotatedOnce ==
  [][ ComputeMotorSignals
        => tilt' = (received_tilt - sensor_yaw) % Turn ]_<<vars, tiltVars>>
=============================================================================
