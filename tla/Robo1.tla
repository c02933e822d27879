-------------------------------- MODULE Robo1 --------------------------------
(***************************************************************************)
(* The main loop of Robostix 1 (robo1.c), its watchdog (wdog.c) and its    *)
(* motor outputs (pwm.c), at the level of whole packets: the packet the    *)
(* loop takes is one the receiver of serial.c has accepted.                *)
(*                                                                         *)
(* The loop polls, so a handler runs from start to end; only the timer     *)
(* interrupt (WdogTick) comes in between.  The answer to every motor packet*)
(* (send_javiator_data) is the subject of module JaviatorLink.  Left out:  *)
(* LEDs, and COMM_SENSOR_DATA, which nobody sends to this board while the  *)
(* parallel link is disabled.                                              *)
(*                                                                         *)
(* A definition named X_Variant is not part of the model: it is X with a   *)
(* plausible slip in the code, kept to see that a property notices it.     *)
(***************************************************************************)
EXTENDS Integers, Sequences

CONSTANTS
  Motors,          \* the rotors
  PwmMax,          \* PWM_MAX - PWM_MIN, the largest PWM offset (16000)
  MotorDec,        \* MOTOR_DEC, decrement per silent period (5)
  NotifyTicks,     \* NOTIFY_PERIOD in timer interrupts (100 ms / 10 ms)
  SigMin, SigMax,  \* range of the motor signals in packets (-49 .. 16000)
  IntMin, IntMax,  \* range of int16_t (-32768 .. 32767)
  Values,          \* the motor signals that occur in packets
  WireCap          \* bound: packets the serial line and its buffers hold

ASSUME RoboConstantsOK ==
  /\ PwmMax \in Nat /\ MotorDec \in Nat \ {0} /\ NotifyTicks \in Nat \ {0}
  /\ SigMin \in Int /\ SigMax \in Int /\ SigMin <= 0 /\ 0 <= SigMax
  /\ IntMin \in Int /\ IntMax \in Int
  /\ SigMax <= IntMax /\ IntMin <= SigMin - SigMax - MotorDec
  /\ Values \subseteq SigMin..SigMax
  /\ WireCap \in Nat \ {0}

VARIABLES
  loop,              \* "run", or "clear" at the end of check_receive_delay
  flag_shut_down,    \* motors are locked
  flag_check_delay,  \* set by the watchdog interrupt
  flag_new_signals,  \* motor signals came in since the last check
  signals,           \* motor_signals, as received and decremented
  pwm,               \* PWM offsets at the motor controllers
  sensors_enabled,   \* the sonar is being triggered
  wdog_ticks,        \* interrupts since the watchdog last fired
  wire               \* packets on their way from the Gumstix

motorVars == <<signals, pwm>>
roboVars  == <<loop, flag_shut_down, flag_check_delay, flag_new_signals,
               motorVars, sensors_enabled, wdog_ticks>>
vars      == <<roboVars, wire>>

None == [m \in Motors |-> 0]

\* "short" is COMM_MOTOR_SIGNALS with a payload of the wrong size, "other" any
\* type that process_data_packet has no case for.
PacketTypes == {"motors", "short", "switch", "shutdown", "other"}
Packets == [type : PacketTypes, signals : [Motors -> SigMin..SigMax]]

Init ==
  /\ loop = "run"
  /\ flag_shut_down = TRUE
  /\ flag_check_delay = FALSE /\ flag_new_signals = FALSE
  /\ signals = None /\ pwm = None
  /\ sensors_enabled = FALSE
  /\ wdog_ticks = 0
  \* The Gumstix may be up first: javiator_port_init sends all zeros.
  /\ wire \in {<< >>, << [type |-> "motors", signals |-> None] >>}

\* pwm_set_signals: what the motor controllers get for the signals s.
Clamp_LowerOnly(x) == IF x < 0 THEN 0 ELSE x
Clamp(x) == IF x < 0 THEN 0 ELSE IF x > PwmMax THEN PwmMax ELSE x
PwmOf(s) == [m \in Motors |-> Clamp(s[m])]

\* Assignment of a difference to an int16_t: what falls below the range comes
\* round at the top.
Int16(x) == IF x < IntMin THEN x + (IntMax - IntMin + 1) ELSE x

(***************************************************************************)
(* Interrupts.                                                             *)
(***************************************************************************)
WdogTick ==
  /\ IF wdog_ticks + 1 >= NotifyTicks
     THEN wdog_ticks' = 0 /\ flag_check_delay' = TRUE
     ELSE wdog_ticks' = wdog_ticks + 1 /\ UNCHANGED flag_check_delay
  /\ UNCHANGED <<loop, flag_shut_down, flag_new_signals, motorVars,
                 sensors_enabled, wire>>

(***************************************************************************)
(* check_receive_delay: the decision first, then the flags are cleared.    *)
(***************************************************************************)
MayBeAirborne_Always == TRUE
MayBeAirborne == \E m \in Motors : signals[m] > 0

Decrement_Forgotten(s) == s
Decrement(s) == [m \in Motors |-> Int16(s[m] - MotorDec)]

\* DO NOT modify motor signals in shut-down mode!
ReduceSignals ==
  IF flag_shut_down
  THEN UNCHANGED motorVars
  ELSE /\ signals' = IF MayBeAirborne THEN Decrement(signals) ELSE None
       /\ pwm' = PwmOf(signals')

\* serial_reset: a packet that is partly received is lost.
ResetInterface == \/ UNCHANGED wire
                  \/ wire # << >> /\ wire' = Tail(wire)

CheckReceiveDelay ==
  /\ loop = "run"
  /\ flag_check_delay
  /\ IF flag_new_signals
     THEN UNCHANGED <<motorVars, sensors_enabled, wire>>
     ELSE ReduceSignals /\ ResetInterface /\ sensors_enabled' = FALSE
  /\ loop' = "clear"
  /\ UNCHANGED <<flag_shut_down, flag_check_delay, flag_new_signals,
                 wdog_ticks>>

\* A watchdog interrupt since the decision is wiped out here.
ClearFlags ==
  /\ loop = "clear"
  /\ flag_check_delay' = FALSE /\ flag_new_signals' = FALSE
  /\ loop' = "run"
  /\ UNCHANGED <<flag_shut_down, motorVars, sensors_enabled, wdog_ticks,
                 wire>>

(***************************************************************************)
(* process_data_packet, one action per packet type.                        *)
(***************************************************************************)
Arrives(type) == /\ loop = "run"
                 /\ wire # << >>
                 /\ Head(wire).type = type
                 /\ wire' = Tail(wire)

OutputSignals_Ungated(s) == pwm' = PwmOf(s)
OutputSignals(s) == IF flag_shut_down THEN UNCHANGED pwm ELSE pwm' = PwmOf(s)

\* Signals are stored even while the motors are locked.
ProcessMotorSignals ==
  /\ Arrives("motors")
  /\ flag_new_signals' = TRUE
  /\ signals' = Head(wire).signals
  /\ OutputSignals(signals')
  /\ UNCHANGED <<loop, flag_shut_down, flag_check_delay, sensors_enabled,
                 wdog_ticks>>

\* motor_signals_from_stream refuses the payload, but the packet has counted.
ProcessShortSignals ==
  /\ Arrives("short")
  /\ flag_new_signals' = TRUE
  /\ UNCHANGED <<loop, flag_shut_down, flag_check_delay, motorVars,
                 sensors_enabled, wdog_ticks>>

ProcessStateSwitch_NoBreak ==
  /\ Arrives("switch") \/ Arrives("motors")
  /\ flag_shut_down' = FALSE
  /\ sensors_enabled' = TRUE
  /\ UNCHANGED <<loop, flag_check_delay, flag_new_signals, motorVars,
                 wdog_ticks>>

ProcessStateSwitch ==
  /\ Arrives("switch")
  /\ flag_shut_down' = FALSE
  /\ sensors_enabled' = TRUE
  /\ UNCHANGED <<loop, flag_check_delay, flag_new_signals, motorVars,
                 wdog_ticks>>

StopMotors_AfterLock ==
  IF flag_shut_down THEN signals' = None /\ pwm' = None
                    ELSE UNCHANGED motorVars
StopMotors == signals' = None /\ pwm' = None

DisableSonar_Forgotten == UNCHANGED sensors_enabled
DisableSonar == sensors_enabled' = FALSE

ProcessShutDown ==
  /\ Arrives("shutdown")
  /\ StopMotors
  /\ flag_shut_down' = TRUE
  /\ DisableSonar
  /\ UNCHANGED <<loop, flag_check_delay, flag_new_signals, wdog_ticks>>

ProcessOther == /\ Arrives("other")
                /\ UNCHANGED roboVars

CheckDelay    == CheckReceiveDelay \/ ClearFlags
ProcessPacket == \/ ProcessMotorSignals \/ ProcessShortSignals
                 \/ ProcessStateSwitch \/ ProcessShutDown \/ ProcessOther

Board == \/ CheckDelay
         \/ ProcessPacket
         \/ WdogTick

(***************************************************************************)
(* The line: packets come in, and may be lost on the way.                  *)
(***************************************************************************)
PacketSent ==
  /\ Len(wire) < WireCap
  /\ \/ \E s \in [Motors -> Values] :
           wire' = Append(wire, [type |-> "motors", signals |-> s])
     \/ \E t \in PacketTypes \ {"motors"} :
           wire' = Append(wire, [type |-> t, signals |-> None])
  /\ UNCHANGED roboVars

PacketLost ==
  /\ wire # << >>
  /\ wire' = Tail(wire)
  /\ UNCHANGED roboVars

Next == Board \/ PacketSent \/ PacketLost

Spec == Init /\ [][Next]_vars

\* Timer T0 never stops, and every round of the main loop looks at
\* flag_check_delay and then for one packet.
FairSpec == /\ Spec
            /\ WF_vars(WdogTick)
            /\ WF_vars(CheckDelay)
            /\ WF_vars(ProcessPacket)

-----------------------------------------------------------------------------
TypeOK ==
  /\ loop \in {"run", "clear"}
  /\ flag_shut_down \in BOOLEAN /\ flag_check_delay \in BOOLEAN
  /\ flag_new_signals \in BOOLEAN
  /\ signals \in [Motors -> IntMin..IntMax]
  /\ pwm \in [Motors -> 0..PwmMax]
  /\ sensors_enabled \in BOOLEAN
  /\ wdog_ticks \in 0..(NotifyTicks - 1)
  /\ wire \in Seq(Packets)

\* The stepwise decrement of check_receive_delay stops before any of the four
\* signals can wrap around, even that of a motor which is far below the others.
DecrementsStayBounded ==
  \A m \in Motors : signals[m] >= SigMin - SigMax - MotorDec

\* The sonar runs only while the motors are unlocked: every path that locks
\* them, or that gives up on the Gumstix, stops it.
SonarOnlyUnlocked == sensors_enabled => ~flag_shut_down

\* The gate of the abstract specification: the board is unlocked only by taking
\* a state switch from the line and locked only by taking a shut-down, and a
\* locked board holds its outputs at the minimum (process_data_packet).
Gate == INSTANCE MotorGate WITH armed <- ~flag_shut_down
ImplementsGate == Gate!Spec

\* If motor signals stop coming in for good, the rotors come to rest for good,
\* whatever the last signals were and whatever else arrives.
SilenceStopsRotors == <>[](~flag_new_signals) => <>[](pwm = None)
=============================================================================
