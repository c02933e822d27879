----------------------------- MODULE OriginalLoop -----------------------------
(***************************************************************************)
(* The first control loop (control_loop_original.c), which the builds      *)
(* replaced by control_loop.c: it can regulate the position.  In position  *)
(* mode the roll command of the terminal is a place on the y axis; the y   *)
(* controller turns the distance to it into a tilt, the more often the     *)
(* larger the distance, and the roll controller flies that tilt.           *)
(*                                                                         *)
(* One axis is modelled, the y axis with roll; x with pitch is its image.  *)
(* The yaw is 0, where the rotation of the tilt leaves it as it is.        *)
(* Positions are counted in units as coarse as the controller's cadence.   *)
(* What the terminal's flags say is open at every read of theirs (module   *)
(* ControlLoop has the threads), and so are filtered commands, estimates   *)
(* of the Kalman filter and outputs of controllers.                        *)
(*                                                                         *)
(* A definition named X_Variant is not part of the model: it is X with a   *)
(* plausible slip in the code, kept to see that a property notices it.     *)
(***************************************************************************)
EXTENDS Integers

CONSTANTS
  Samples,         \* places a laser or the Ubisense system reports
  Commands,        \* roll commands of the terminal, tilts or places
  Tilts,           \* raw outputs of the y controller
  TiltLimit,       \* ROLL_PITCH_LIMIT (300)
  Gain,            \* pos_ctrl_gain, iterations per invocation on the spot
  Threshold,       \* COMMAND_THRESHOLD (35)
  MotorMax, RevStep, LiftOff  \* motor signals, MOTOR_REVVING_STEP, idle limit

OriginalConstantsOK ==
  /\ Samples \subseteq Int /\ Commands \subseteq Int /\ Tilts \subseteq Int
  /\ {TiltLimit, Threshold, MotorMax, LiftOff} \subseteq Nat
  /\ {Gain, RevStep} \subseteq Nat \ {0}

VARIABLES
  at,                                 \* where control_loop_run is
  heli_state, heli_mode, heli_settled,
  motor_signals,                      \* of one rotor
  motor_speed_revving, motor_speed_liftoff,
  command_data_delay,                 \* of check_terminal_connection
  command_roll,                       \* command_data.roll
  cmd_roll, delay_roll,               \* the tilt to fly, the cadence counter
  last_sensor_y, data_offset_y,
  position,                           \* sensor_data.y as the Kalman filter gets it
  moved,                              \* history: a sample came since the rotors were off
  regulated                           \* history: iterations flown in position mode, up to Gain

motorVars   == <<motor_signals, motor_speed_revving, motor_speed_liftoff>>
commandVars == <<command_data_delay, command_roll>>
tiltVars    == <<cmd_roll, delay_roll, regulated>>
placeVars   == <<last_sensor_y, data_offset_y, position, moved>>
vars == <<at, heli_state, heli_mode, heli_settled, motorVars, commandVars, tiltVars, placeVars>>

Clamp(v, lo, hi) == IF v < lo THEN lo ELSE IF v > hi THEN hi ELSE v
Distance(a, b)   == IF a < b THEN b - a ELSE a - b

\* control_loop_setup
Init ==
  /\ at = "send" /\ heli_state = "shutdown" /\ heli_mode = "manual" /\ heli_settled = TRUE
  /\ motor_signals = 0 /\ motor_speed_revving = 0 /\ motor_speed_liftoff = 0
  /\ command_data_delay = 0 /\ command_roll = 0
  /\ cmd_roll = 0 /\ delay_roll = 0 /\ regulated = 0
  /\ last_sensor_y = 0 /\ data_offset_y = 0 /\ position = 0 /\ moved = FALSE

\* The second try of send_motor_signals may fail, too.
SendMotorSignals ==
  /\ at = "send" /\ at' \in {"recv", "exit"}
  /\ UNCHANGED <<heli_state, heli_mode, heli_settled, motorVars, commandVars, tiltVars, placeVars>>

GetData ==
  /\ at = "recv" /\ at' = "command"
  /\ UNCHANGED <<heli_state, heli_mode, heli_settled, motorVars, commandVars, tiltVars, placeVars>>

ResetMotors_KeepsTilt ==
  /\ motor_signals' = 0 /\ motor_speed_revving' = 0
  /\ motor_speed_liftoff' = LiftOff /\ heli_settled' = TRUE
  /\ UNCHANGED cmd_roll

ResetMotors ==
  /\ motor_signals' = 0 /\ motor_speed_revving' = 0
  /\ motor_speed_liftoff' = LiftOff /\ heli_settled' = TRUE
  /\ cmd_roll' = 0

GetDataFails ==
  /\ at = "recv" /\ at' = "exit" /\ heli_state' = "shutdown"
  /\ ResetMotors /\ regulated' = 0
  /\ UNCHANGED <<heli_mode, commandVars, delay_roll, placeVars>>

(***************************************************************************)
(* check_terminal_connection and get_command_data                          *)
(***************************************************************************)
NextDelay(fresh) ==
  IF fresh THEN 0 ELSE Clamp(command_data_delay + 1, 0, Threshold + 1)

Switched(s) == IF s = "ground" THEN "flying" ELSE "ground"

\* What get_command_data finds: a shut-down request comes before a state
\* switch, and that before command data, of which there are some if fresh.
GetCommandData(state) ==
  \/ /\ heli_state' = "shutdown"
     /\ UNCHANGED <<heli_settled, command_roll>>
  \/ /\ heli_state' = Switched(state)
     /\ heli_settled' = (heli_settled /\ heli_state' # "flying")
     /\ UNCHANGED command_roll
  \/ /\ command_roll' \in Commands
     /\ heli_state' = state /\ UNCHANGED heli_settled

NoCommand(state) == heli_state' = state /\ UNCHANGED <<heli_settled, command_roll>>

ModeSwitch == heli_mode' \in {"manual", "position"}

TakeCommands ==
  /\ at = "command" /\ at' = "prepare"
  /\ \E fresh \in BOOLEAN :
       LET state == IF NextDelay(fresh) > Threshold THEN "shutdown" ELSE heli_state
       IN  /\ command_data_delay' = NextDelay(fresh)
           /\ GetCommandData(state) \/ (~fresh /\ NoCommand(state))
  /\ ModeSwitch
  /\ UNCHANGED <<motorVars, tiltVars, placeVars>>

(***************************************************************************)
(* prepare_sensor_data: a place from the y laser, or, past the outlier     *)
(* filter, from the Ubisense system; without a new one the last place is   *)
(* taken again, as sensor_data.y has been overwritten since.               *)
(***************************************************************************)
LastPlace_Overwritten == position
LastPlace == last_sensor_y

ZeroAdjust(place) ==
  IF heli_settled THEN data_offset_y' = place /\ position' = 0
                  ELSE position' = place - data_offset_y /\ UNCHANGED data_offset_y

PrepareSensorData ==
  /\ at = "prepare" /\ at' = "act"
  /\ \/ \E sample \in Samples :
          last_sensor_y' = sample /\ ZeroAdjust(sample) /\ moved' = ~heli_settled
     \/ /\ ZeroAdjust(LastPlace) /\ moved' = (moved /\ ~heli_settled)
        /\ UNCHANGED last_sensor_y
  /\ UNCHANGED <<heli_state, heli_mode, heli_settled, motorVars, commandVars, tiltVars>>

(***************************************************************************)
(* The three states                                                        *)
(***************************************************************************)
PerformGroundActions ==
  /\ heli_state = "ground"
  /\ IF motor_signals > 0
     THEN /\ motor_signals' = motor_signals - RevStep
          /\ UNCHANGED <<motor_speed_revving, motor_speed_liftoff, heli_settled, cmd_roll>>
     ELSE ResetMotors
  /\ regulated' = 0
  /\ UNCHANGED <<command_roll, delay_roll>>

PerformShutDown ==
  /\ heli_state = "shutdown" /\ ResetMotors /\ regulated' = 0
  /\ UNCHANGED <<command_roll, delay_roll>>

\* estimate is sensor_data.y as the Kalman filter returns it.
Due_OneTooLate(estimate) == delay_roll + 1 > Gain \div (Distance(command_roll, estimate) + 1)
Due(estimate) == delay_roll + 1 >= Gain \div (Distance(command_roll, estimate) + 1)

\* First half of compute_motor_signals: the tilt to fly.
ComputeTilt ==
  IF heli_mode = "position"
  THEN \E estimate \in Samples :
         /\ IF Due(estimate)
            THEN /\ delay_roll' = 0
                 /\ \E u \in Tilts : cmd_roll' = Clamp(u, -TiltLimit, TiltLimit)
            ELSE delay_roll' = delay_roll + 1 /\ UNCHANGED cmd_roll
         /\ regulated' = Clamp(regulated + 1, 0, Gain)
  ELSE cmd_roll' = command_roll /\ regulated' = 0 /\ UNCHANGED delay_roll

\* The rotated tilt takes the place of the command.  Second half: revving up,
\* then the attitude and altitude controllers.
ComputeMotorSignals ==
  /\ heli_state = "flying"
  /\ ComputeTilt /\ command_roll' = cmd_roll'
  /\ IF motor_speed_revving < motor_speed_liftoff
     THEN /\ motor_speed_revving' = motor_speed_revving + RevStep
          /\ motor_signals' = Clamp(motor_speed_revving', 0, MotorMax)
     ELSE motor_signals' \in 0..MotorMax /\ UNCHANGED motor_speed_revving
  /\ UNCHANGED <<motor_speed_liftoff, heli_settled>>

Act ==
  /\ at = "act" /\ at' = "send"
  /\ PerformGroundActions \/ PerformShutDown \/ ComputeMotorSignals
  /\ UNCHANGED <<heli_state, heli_mode, command_data_delay, placeVars>>

Next == SendMotorSignals \/ GetData \/ GetDataFails \/ TakeCommands
        \/ PrepareSensorData \/ Act
Spec == Init /\ [][Next]_vars

-----------------------------------------------------------------------------
TypeOK ==
  /\ at \in {"send", "recv", "command", "prepare", "act", "exit"}
  /\ heli_state \in {"ground", "flying", "shutdown"} /\ heli_mode \in {"manual", "position"}
  /\ heli_settled \in BOOLEAN
  /\ motor_signals \in (1 - RevStep)..MotorMax /\ motor_speed_liftoff \in {0, LiftOff}
  /\ motor_speed_revving \in 0..(LiftOff + RevStep - 1)
  /\ command_data_delay \in 0..(Threshold + 1) /\ delay_roll \in 0..(Gain - 1)
  /\ command_roll \in Commands \cup (-TiltLimit..TiltLimit)
  /\ cmd_roll \in Commands \cup (-TiltLimit..TiltLimit)
  /\ last_sensor_y \in Samples \cup {0} /\ data_offset_y \in Samples \cup {0}
  /\ position \in Int
  /\ moved \in BOOLEAN /\ regulated \in 0..Gain

\* Until a new place is reported the helicopter is where it took off: it reads
\* 0, however many iterations go by (prepare_sensor_data).
TakeOffReadsZero == ~moved => position = 0

\* After as many iterations in position mode as the cadence allows at most, the
\* tilt is the y controller's, whatever the pilot commanded before the mode
\* switch, in flight as it may be: it is within the limit.  It does not stay there after a
\* switch back to manual mode: then the command, a place as it may be, is flown as it is.
TiltIsRegulated == regulated = Gain => cmd_roll \in -TiltLimit..TiltLimit

\* A flight begins with a level helicopter and with rotors at rest: no tilt, and
\* no place taken for a tilt, is kept from the flight before.
StartsLevel ==
  heli_settled => cmd_roll = 0 /\ motor_signals <= 0 /\ motor_speed_revving = 0
=============================================================================
