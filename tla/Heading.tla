------------------------------- MODULE Heading -------------------------------
(***************************************************************************)
(* Yaw in the control loop (control_loop.c): the winding numbers that make *)
(* a continuous heading of the wrapped angles of the IMU, and a continuous *)
(* command of those of the terminal, and the zero adjustment while the     *)
(* helicopter stands.  The rotation of the other command is in module      *)
(* TiltCommand.                                                            *)
(*                                                                         *)
(* Angles are whole units, 2 * Half of them to a turn.  A low-pass filter  *)
(* moves its value some part of the way to the update.  One action per     *)
(* function of an iteration, which no other thread disturbs.  How the      *)
(* motors run is left to ControlLoop.                                      *)
(*                                                                         *)
(* A definition named X_Variant is not part of the model: it is X with a   *)
(* plausible slip in the code, kept to see that a property notices it.     *)
(***************************************************************************)
EXTENDS Integers

CONSTANTS
  Half,      \* units in half a turn, MRAD_PI
  MaxSpin,   \* units the helicopter may turn between two iterations
  Bound      \* bound: largest heading, and largest command, either way

HeadingConstantsOK ==
  /\ Half \in Nat \ {0}
  /\ MaxSpin \in 0..(Half - 1)
  /\ Bound \in Nat

VARIABLES
  next,              \* the function of the iteration that comes next
  heli_state,
  heli_settled,
  data_offset_yaw,   \* IMU yaw at the last zero adjustment
  last_scaled_yaw,   \* zero-adjusted yaw of the last iteration
  yaw_wn_imu,        \* winding number of the heading
  sensor_yaw,        \* sensor_data.yaw
  last_command_yaw,  \* yaw command last received
  yaw_wn_cmd,        \* winding number of the command
  command_yaw,       \* command_data.yaw
  iir_cmd_yaw,       \* value of the low-pass filter of the yaw command
  true_yaw,          \* history: the heading itself
  settled_yaw        \* history: the heading at the last zero adjustment

imuVars == <<data_offset_yaw, last_scaled_yaw, yaw_wn_imu, sensor_yaw>>
cmdVars == <<last_command_yaw, yaw_wn_cmd, command_yaw, iir_cmd_yaw>>
vars    == <<next, heli_state, heli_settled, imuVars, cmdVars, true_yaw, settled_yaw>>

Turn       == 2 * Half
Wrapped    == -Half .. (Half - 1)
Wrap(a)    == ((a + Half) % Turn) - Half
Range      == -Bound .. Bound

Init ==
  /\ next = "get_command_data"
  /\ heli_state = "shutdown" /\ heli_settled = TRUE
  /\ data_offset_yaw = 0 /\ last_scaled_yaw = 0
  /\ yaw_wn_imu = 0 /\ sensor_yaw = 0
  /\ last_command_yaw = 0 /\ yaw_wn_cmd = 0
  /\ command_yaw = 0 /\ iir_cmd_yaw = 0
  /\ true_yaw \in Wrapped
  /\ settled_yaw = 0

\* The winding number after the wrapped angle went from last to new.
Winding_Reversed(wn, last, new) ==
  IF last - new < -Half THEN wn + 1 ELSE IF last - new > Half THEN wn - 1
                                         ELSE wn
Winding_OneWay(wn, last, new) == IF last - new > Half THEN wn + 1 ELSE wn
Winding(wn, last, new) ==
  IF last - new < -Half THEN wn - 1 ELSE IF last - new > Half THEN wn + 1
                                         ELSE wn

Filtered(value, update) ==
  IF value <= update THEN value..update ELSE update..value

(***************************************************************************)
(* check_terminal_connection, if the terminal has been silent too long,    *)
(* and the branches of get_command_data.                                   *)
(***************************************************************************)
TerminalBroken ==
  /\ next = "get_command_data"
  /\ heli_state' = "shutdown"
  /\ UNCHANGED <<next, heli_settled, imuVars, cmdVars, true_yaw, settled_yaw>>

\* A bound: no flight with a command that runs out of Range when restored.
CommandInBounds ==
  heli_state' = "flying" => command_yaw' - yaw_wn_cmd' * Turn \in Range

GetCommandData == /\ next = "get_command_data"
                  /\ next' = "prepare_sensor_data"
                  /\ UNCHANGED <<imuVars, true_yaw, settled_yaw>>

ShutDown ==
  /\ GetCommandData
  /\ heli_state' = "shutdown"
  /\ UNCHANGED <<heli_settled, cmdVars>>
  /\ CommandInBounds

SwitchState ==
  /\ GetCommandData
  /\ heli_state' = IF heli_state = "ground" THEN "flying" ELSE "ground"
  /\ heli_settled' = (heli_settled /\ heli_state # "ground")
  /\ UNCHANGED <<cmdVars>>
  /\ CommandInBounds

TakeCommandData ==
  /\ GetCommandData
  /\ \E yaw \in Wrapped :
       /\ yaw_wn_cmd' = IF heli_settled THEN 0
                        ELSE Winding(yaw_wn_cmd, last_command_yaw, yaw)
       /\ last_command_yaw' = yaw
       /\ yaw + yaw_wn_cmd' * Turn \in Range
       /\ iir_cmd_yaw' \in Filtered(iir_cmd_yaw, yaw + yaw_wn_cmd' * Turn)
       /\ command_yaw' = iir_cmd_yaw'
  /\ UNCHANGED <<heli_state, heli_settled>>
  /\ CommandInBounds

NoCommandData ==
  /\ GetCommandData
  /\ UNCHANGED <<heli_state, heli_settled, cmdVars>>
  /\ CommandInBounds

(***************************************************************************)
(* prepare_sensor_data: the helicopter may have turned meanwhile.          *)
(***************************************************************************)
ZeroAdjust_KeepsWinding(raw) ==
  /\ data_offset_yaw' = raw
  /\ last_scaled_yaw' = 0
  /\ UNCHANGED yaw_wn_imu
  /\ sensor_yaw' = yaw_wn_imu * Turn

ZeroAdjust(raw) ==
  /\ data_offset_yaw' = raw
  /\ last_scaled_yaw' = 0
  /\ yaw_wn_imu' = 0
  /\ sensor_yaw' = 0

FollowYaw_KeepsUnwound(raw) ==
  LET scaled == raw - data_offset_yaw
  IN /\ yaw_wn_imu' = Winding(yaw_wn_imu, last_scaled_yaw, scaled)
     /\ sensor_yaw' = scaled + yaw_wn_imu' * Turn
     /\ last_scaled_yaw' = sensor_yaw'
     /\ UNCHANGED data_offset_yaw

FollowYaw(raw) ==
  LET scaled == raw - data_offset_yaw
  IN /\ yaw_wn_imu' = Winding(yaw_wn_imu, last_scaled_yaw, scaled)
     /\ last_scaled_yaw' = scaled
     /\ sensor_yaw' = scaled + yaw_wn_imu' * Turn
     /\ UNCHANGED data_offset_yaw

PrepareSensorData ==
  /\ next = "prepare_sensor_data"
  /\ \E spin \in -MaxSpin..MaxSpin :
       true_yaw' = true_yaw + spin /\ true_yaw' \in Range
  /\ IF heli_settled
     THEN ZeroAdjust(Wrap(true_yaw')) /\ settled_yaw' = true_yaw'
     ELSE FollowYaw(Wrap(true_yaw')) /\ UNCHANGED settled_yaw
  /\ next' = "act"
  /\ UNCHANGED <<heli_state, heli_settled, cmdVars>>

(***************************************************************************)
(* compute_motor_signals, perform_ground_actions, perform_shut_down.       *)
(***************************************************************************)

\* The controllers run in between; then the winding is taken out again.
ComputeMotorSignals ==
  /\ next = "act" /\ heli_state = "flying"
  /\ sensor_yaw' = sensor_yaw - yaw_wn_imu * Turn
  /\ command_yaw' = command_yaw - yaw_wn_cmd * Turn
  /\ next' = "get_command_data"
  /\ UNCHANGED <<heli_state, heli_settled, data_offset_yaw, last_scaled_yaw,
                 yaw_wn_imu, last_command_yaw, yaw_wn_cmd, iir_cmd_yaw,
                 true_yaw, settled_yaw>>

\* On the ground the rotors stop now or in a later iteration; a shut-down
\* stops them at once.
StayDown ==
  /\ next = "act" /\ heli_state # "flying"
  /\ \/ heli_settled' = TRUE
     \/ heli_state = "ground" /\ UNCHANGED heli_settled
  /\ next' = "get_command_data"
  /\ UNCHANGED <<heli_state, imuVars, cmdVars, true_yaw, settled_yaw>>

Next == \/ TerminalBroken
        \/ ShutDown \/ SwitchState \/ TakeCommandData \/ NoCommandData
        \/ PrepareSensorData
        \/ ComputeMotorSignals \/ StayDown

Spec == Init /\ [][Next]_vars

-----------------------------------------------------------------------------
TypeOK ==
  /\ next \in {"get_command_data", "prepare_sensor_data", "act"}
  /\ heli_state \in {"ground", "flying", "shutdown"}
  /\ heli_settled \in BOOLEAN
  /\ data_offset_yaw \in Wrapped /\ last_command_yaw \in Wrapped
  /\ last_scaled_yaw \in (1 - Turn)..(Turn - 1)
  /\ yaw_wn_imu \in Int /\ yaw_wn_cmd \in Int
  /\ sensor_yaw \in Int
  /\ command_yaw \in Range /\ iir_cmd_yaw \in Range
  /\ true_yaw \in Int /\ settled_yaw \in Int

\* However often the IMU wraps around, and whatever offset the zero adjustment
\* left, the controllers get the angle the helicopter has turned since it last
\* stood.
HeadingFollowsTruth ==
  next = "act" => sensor_yaw = true_yaw - settled_yaw

\* The command as it would be without the filter.
Target == last_command_yaw + yaw_wn_cmd * Turn

\* No fresh command asks for more than half a turn at once, although the
\* terminal's angle jumps by a turn where it wraps around.
CommandTakesShortWay ==
  [][ ~heli_settled => Target' - Target \in -Half..Half ]_vars

\* control_loop.c:625 says of the end of an iteration in flight: "restore
\* unwinded yaw angle and command".  The command so restored is the filtered
\* one less its winding.
CommandIsRestored ==
  [][ ComputeMotorSignals
        => command_yaw' = iir_cmd_yaw - yaw_wn_cmd * Turn ]_vars
=============================================================================
