------------------------------- MODULE Javiator -------------------------------
(***************************************************************************)
(* The helicopter as a whole: the two threads of the control program on    *)
(* the Gumstix (ControlLoop), Robostix 1 (Robo1) and the serial line from  *)
(* one to the other.  The steps are those of the two components; what each *)
(* leaves open about the other side is closed here.  ControlLoop's         *)
(* LineTakes becomes the board taking, or the line losing, a packet, and   *)
(* Robo1's PacketSent becomes what the two threads send.                   *)
(*                                                                         *)
(* The way back, the answers of the board, stays open: an answer may come  *)
(* at once, late or not at all (PollAgain, GetData, GetDataFails).         *)
(***************************************************************************)
EXTENDS Integers, Sequences

CONSTANTS
  Motors, MotorMax, RevStep, Threshold, IdleLimits, Outputs, MaxAttempts,
  MotorDec, NotifyTicks, IntMin, IntMax, WireCap

VARIABLES
  \* the Gumstix
  pc, heli_state, heli_settled, motor_signals, motor_speed_revving,
  motor_speed_liftoff, command_data_delay, attempts, switch_read,
  state_switch, shut_down, new_command_data, base_motor_speed, forwarding,
  last_request,
  \* Robostix 1
  loop, flag_shut_down, flag_check_delay, flag_new_signals, signals, pwm,
  sensors_enabled, wdog_ticks,
  \* the serial line between them
  wire,
  \* history: the terminal has asked for a state switch
  switch_asked

gumVars  == <<pc, heli_state, heli_settled, motor_signals,
              motor_speed_revving, motor_speed_liftoff, command_data_delay,
              attempts, switch_read, state_switch, shut_down,
              new_command_data, base_motor_speed, forwarding, last_request>>
roboVars == <<loop, flag_shut_down, flag_check_delay, flag_new_signals,
              signals, pwm, sensors_enabled, wdog_ticks>>
vars     == <<gumVars, roboVars, wire, switch_asked>>

\* Signals the board has to expect: down to one revving step below zero.
SignalMin == 1 - RevStep

G == INSTANCE ControlLoop
R == INSTANCE Robo1 WITH PwmMax <- MotorMax,
                         SigMin <- SignalMin, SigMax <- MotorMax,
                         Values <- SignalMin..MotorMax

ASSUME JaviatorConstantsOK == G!ConstantsOK /\ R!RoboConstantsOK

\* The Gumstix starts with a packet on its way, sent by javiator_port_init.
Init ==
  /\ G!Init
  /\ loop = "run" /\ flag_shut_down = TRUE
  /\ flag_check_delay = FALSE /\ flag_new_signals = FALSE
  /\ signals = R!None /\ pwm = R!None
  /\ sensors_enabled = FALSE /\ wdog_ticks = 0
  /\ switch_asked = FALSE

TerminalThread == /\ G!Terminal
                  /\ switch_asked' = (switch_asked \/ forwarding' = "switch")
                  /\ UNCHANGED roboVars
ControlThread  == G!Control /\ UNCHANGED <<roboVars, switch_asked>>

elsewhere == <<gumVars, switch_asked>>

BoardTick     == R!WdogTick /\ UNCHANGED elsewhere
BoardChecks   == R!CheckDelay /\ UNCHANGED elsewhere
BoardReceives == R!ProcessPacket /\ UNCHANGED elsewhere

LineLoses == R!PacketLost /\ UNCHANGED elsewhere

Next == \/ TerminalThread \/ ControlThread
        \/ BoardTick \/ BoardChecks \/ BoardReceives
        \/ LineLoses

Spec == Init /\ [][Next]_vars

\* As in the components.  The terminal and the line's losses are not fair.
FairSpec == /\ Spec
            /\ SF_vars(ControlThread)
            /\ WF_vars(BoardTick)
            /\ WF_vars(BoardChecks)
            /\ WF_vars(BoardReceives)

-----------------------------------------------------------------------------
\* What the two threads put on the line is what the board was built for: the
\* whole system implements the board with its assumptions about packets, so
\* what holds of Robo1 alone holds here.
BoardAsAssumed == R!Spec

\* No rotor turns before the terminal has asked for a state switch - command
\* data, shut-downs and whatever else it sends do not start one - and none
\* turns on a board that has processed a shut-down and no switch since.
RotorsNeedSwitch ==
  (\E m \in Motors : pwm[m] > 0) => switch_asked /\ ~flag_shut_down

\* A shut-down request that is the terminal's last word stops the rotors for
\* good, whichever packets are lost on the way and wherever the control loop
\* ends meanwhile.
ShutDownReachesRotors ==
  <>[](last_request = "shutdown") => <>[](pwm = R!None)

\* So does a terminal that sends no more command data, though it may go on
\* asking for state switches.
TerminalSilenceReachesRotors ==
  <>[](~new_command_data) => <>[](pwm = R!None)

\* A control loop that ends, at whatever point of a flight, leaves the rotors
\* to the watchdog of the board, which brings them to rest.
ExitReachesRotors == <>[](pc = "exit") => <>[](pwm = R!None)

\* robo1.c:269 says of a silent period "we're possibly airborne, so reduce motor signals
\* to force descending".
SilenceNeverSpeedsUp ==
  [][ R!CheckReceiveDelay => \A m \in Motors : pwm'[m] <= pwm[m] ]_vars
=============================================================================
