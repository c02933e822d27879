----------------------------- MODULE ControlLoop -----------------------------
(***************************************************************************)
(* The flight control system on the Gumstix: the control thread            *)
(* (control_loop.c), the terminal thread and the flags the two share       *)
(* (terminal_port.c), and the part of javiator_port.c that puts packets on *)
(* the serial line to the Robostix.                                        *)
(*                                                                         *)
(* One action per access of a thread to what the other thread also uses,   *)
(* so TLC and the proofs see every interleaving of the two threads.  What  *)
(* the flight controllers compute is left open: any raw output in Outputs. *)
(*                                                                         *)
(* A definition named X_Variant is not part of the model: it is X with a   *)
(* plausible slip in the code, kept to see that a property notices it.     *)
(***************************************************************************)
EXTENDS Integers, Sequences

CONSTANTS
  Motors,       \* the rotors: front, right, rear, left
  MotorMax,     \* MOTOR_MAX, the highest motor signal (16000)
  RevStep,      \* MOTOR_REVVING_STEP, signal change per period (50)
  Threshold,    \* COMMAND_THRESHOLD, periods without command data (35)
  IdleLimits,   \* idle limits (base motor speeds) the terminal may set
  Outputs,      \* raw motor signals the flight controllers may compute
  MaxAttempts,  \* polls without an answer before the port gives up (1000)
  WireCap       \* bound: packets the serial line and its buffers hold

ASSUME ConstantsOK ==
  /\ MotorMax \in Nat
  /\ RevStep \in Nat \ {0}
  /\ Threshold \in Nat
  /\ IdleLimits \subseteq Int
  /\ Outputs \subseteq Int
  /\ MaxAttempts \in Nat
  /\ WireCap \in Nat \ {0}

VARIABLES
  pc,                   \* where the control thread is in control_loop_run
  heli_state,           \* "ground", "flying" or "shutdown"
  heli_settled,         \* the helicopter stands on the ground, rotors off
  motor_signals,        \* the signals the next iteration sends
  motor_speed_revving,  \* speed reached while revving up
  motor_speed_liftoff,  \* speed at which revving up ends
  command_data_delay,   \* iterations since the last command data
  attempts,             \* polls of the current javiator_port_get_data
  switch_read,          \* local copy in terminal_port_is_state_switch
  state_switch, shut_down, new_command_data,  \* flags of terminal_port.c
  base_motor_speed,     \* idle limit last set by the terminal
  forwarding,           \* request the terminal thread still has to forward
  wire,                 \* packets on their way to the Robostix
  last_request          \* history: the last state request that came in

control == <<heli_state, heli_settled, motor_signals, motor_speed_revving,
             motor_speed_liftoff>>
flags   == <<state_switch, shut_down, new_command_data, base_motor_speed>>
vars    == <<pc, control, command_data_delay, attempts, switch_read, flags,
             forwarding, wire, last_request>>

States   == {"ground", "flying", "shutdown"}
Requests == {"switch", "shutdown"}
Labels   == {"send", "recv", "check", "shut", "ack", "read", "clear",
             "fresh", "act", "exit"}

Zero == [m \in Motors |-> 0]

\* Packets to the Robostix: COMM_MOTOR_SIGNALS carries the four signals,
\* COMM_SWITCH_STATE and COMM_SHUT_DOWN carry nothing, and what the others the
\* terminal may send carry is left out.
MotorPacket(s)   == [type |-> "motors", signals |-> s]
RequestPacket(r) == [type |-> r, signals |-> Zero]
Packets == [type : Requests \cup {"motors", "other"}, signals : [Motors -> Int]]

Transmit(p) == /\ Len(wire) < WireCap
               /\ wire' = Append(wire, p)

Saturate_NoUpperLimit(u) == IF u < 0 THEN 0 ELSE u
Saturate(u) == IF u < 0 THEN 0 ELSE IF u > MotorMax THEN MotorMax ELSE u

Init ==
  /\ pc = "send"
  /\ heli_state = "shutdown" /\ heli_settled = TRUE
  /\ motor_signals = Zero
  /\ motor_speed_revving = 0 /\ motor_speed_liftoff = 0
  /\ command_data_delay = 0 /\ attempts = 0 /\ switch_read = FALSE
  /\ state_switch = FALSE /\ shut_down = FALSE /\ new_command_data = FALSE
  /\ base_motor_speed = 0
  /\ forwarding = "none" /\ last_request = "none"
  /\ wire = << MotorPacket(Zero) >>    \* sent by javiator_port_init

(***************************************************************************)
(* The terminal thread: process_data_packet, once per packet received.     *)
(***************************************************************************)
RecvCommandData ==
  /\ forwarding = "none"
  /\ new_command_data' = TRUE
  /\ UNCHANGED <<pc, control, command_data_delay, attempts, switch_read,
                 state_switch, shut_down, base_motor_speed, forwarding, wire,
                 last_request>>

RecvIdleLimit ==
  /\ forwarding = "none"
  /\ \E v \in IdleLimits : base_motor_speed' = v
  /\ UNCHANGED <<pc, control, command_data_delay, attempts, switch_read,
                 state_switch, shut_down, new_command_data, forwarding, wire,
                 last_request>>

\* The flag is set under the lock; the packet is forwarded after the unlock.
RecvRequest(r) ==
  /\ forwarding = "none"
  /\ IF r = "switch" THEN state_switch' = TRUE /\ UNCHANGED shut_down
                     ELSE shut_down' = TRUE /\ UNCHANGED state_switch
  /\ forwarding' = r
  /\ last_request' = r
  /\ UNCHANGED <<pc, control, command_data_delay, attempts, switch_read,
                 new_command_data, base_motor_speed, wire>>

\* What the terminal thread has no case for goes to the Robostix as it is.
ForwardOther ==
  /\ forwarding = "none"
  /\ Transmit(RequestPacket("other"))
  /\ UNCHANGED <<pc, control, command_data_delay, attempts, switch_read, flags,
                 forwarding, last_request>>

Forward ==
  /\ forwarding # "none"
  /\ Transmit(RequestPacket(forwarding))
  /\ forwarding' = "none"
  /\ UNCHANGED <<pc, control, command_data_delay, attempts, switch_read,
                 flags, last_request>>

Terminal == \/ RecvCommandData
            \/ RecvIdleLimit
            \/ \E r \in Requests : RecvRequest(r)
            \/ ForwardOther
            \/ Forward

(***************************************************************************)
(* The control thread: one iteration of control_loop_run.                  *)
(***************************************************************************)
SendMotorSignals ==
  /\ pc = "send"
  /\ Transmit(MotorPacket(motor_signals))
  /\ pc' = "recv" /\ attempts' = 0
  /\ UNCHANGED <<control, command_data_delay, switch_read, flags, forwarding,
                 last_request>>

\* Both tries of send_motor_signals fail: the loop ends as it stands.
SendFails ==
  /\ pc = "send"
  /\ pc' = "exit"
  /\ UNCHANGED <<control, command_data_delay, attempts, switch_read, flags,
                 forwarding, wire, last_request>>

PollsLeft_OffByOne == attempts <= MaxAttempts
PollsLeft == attempts < MaxAttempts

\* javiator_port_get_data finds no complete answer yet and sends zeros.
PollAgain ==
  /\ pc = "recv"
  /\ PollsLeft
  /\ attempts' = attempts + 1
  /\ Transmit(MotorPacket(Zero))
  /\ UNCHANGED <<pc, control, command_data_delay, switch_read, flags,
                 forwarding, last_request>>

GetData ==
  /\ pc = "recv"
  /\ pc' = "check"
  /\ UNCHANGED <<control, command_data_delay, attempts, switch_read, flags,
                 forwarding, wire, last_request>>

ResetMotors_KeepsSignals ==
  /\ motor_speed_revving' = 0
  /\ motor_speed_liftoff' = base_motor_speed
  /\ heli_settled' = TRUE
  /\ UNCHANGED motor_signals

ResetMotors ==
  /\ motor_signals' = Zero
  /\ motor_speed_revving' = 0
  /\ motor_speed_liftoff' = base_motor_speed
  /\ heli_settled' = TRUE

\* A channel error, or too many polls without an answer.
GetDataFails ==
  /\ pc = "recv"
  /\ heli_state' = "shutdown"
  /\ ResetMotors
  /\ pc' = "exit"
  /\ UNCHANGED <<command_data_delay, attempts, switch_read, flags, forwarding,
                 wire, last_request>>

NextDelay_StartsOver ==
  IF new_command_data \/ command_data_delay > Threshold
  THEN 0 ELSE command_data_delay + 1

\* The delay is only compared with Threshold, so it saturates one above it.
NextDelay ==
  IF new_command_data THEN 0
  ELSE IF command_data_delay > Threshold THEN command_data_delay
       ELSE command_data_delay + 1

StateForDelay_OffByOne(d) ==
  IF d > Threshold + 1 THEN "shutdown" ELSE heli_state

StateForDelay(d) == IF d > Threshold THEN "shutdown" ELSE heli_state

CheckTerminalConnection ==
  /\ pc = "check"
  /\ command_data_delay' = NextDelay
  /\ heli_state' = StateForDelay(NextDelay)
  /\ pc' = "shut"
  /\ UNCHANGED <<heli_settled, motor_signals, motor_speed_revving,
                 motor_speed_liftoff, attempts, switch_read, flags,
                 forwarding, wire, last_request>>

\* get_command_data, first branch: a shut-down request comes first ...
ReadShutDown ==
  /\ pc = "shut"
  /\ IF shut_down THEN heli_state' = "shutdown" /\ pc' = "ack"
                  ELSE pc' = "read" /\ UNCHANGED heli_state
  /\ UNCHANGED <<heli_settled, motor_signals, motor_speed_revving,
                 motor_speed_liftoff, command_data_delay, attempts,
                 switch_read, flags, forwarding, wire, last_request>>

\* ... and is reset without the lock.
ResetShutDown ==
  /\ pc = "ack"
  /\ shut_down' = FALSE
  /\ pc' = "act"
  /\ UNCHANGED <<control, command_data_delay, attempts, switch_read,
                 state_switch, new_command_data, base_motor_speed,
                 forwarding, wire, last_request>>

\* terminal_port_is_state_switch reads the flag and then clears it, both
\* without the lock.
ReadStateSwitch ==
  /\ pc = "read"
  /\ switch_read' = state_switch
  /\ pc' = "clear"
  /\ UNCHANGED <<control, command_data_delay, attempts, flags, forwarding,
                 wire, last_request>>

AfterSwitch_TakesOff ==
  [s \in States |-> IF s = "flying" THEN "ground" ELSE "flying"]

AfterSwitch == [s \in States |-> IF s = "ground" THEN "flying" ELSE "ground"]

ClearStateSwitch ==
  /\ pc = "clear"
  /\ state_switch' = FALSE
  /\ switch_read' = FALSE
  /\ IF switch_read
     THEN /\ heli_state' = AfterSwitch[heli_state]
          /\ heli_settled' = (heli_settled /\ heli_state # "ground")
          /\ pc' = "act"
     ELSE /\ pc' = "fresh"
          /\ UNCHANGED <<heli_state, heli_settled>>
  /\ UNCHANGED <<motor_signals, motor_speed_revving, motor_speed_liftoff,
                 command_data_delay, attempts, shut_down, new_command_data,
                 base_motor_speed, forwarding, wire, last_request>>

\* Last branch of get_command_data: take the command data, if there are any.
TakeCommandData ==
  /\ pc = "fresh"
  /\ new_command_data' = FALSE
  /\ pc' = "act"
  /\ UNCHANGED <<control, command_data_delay, attempts, switch_read,
                 state_switch, shut_down, base_motor_speed, forwarding, wire,
                 last_request>>

RevDown_Stops(s) == [m \in Motors |-> IF s[m] > 0 THEN 0 ELSE s[m]]
RevDown_KeepsIdling(s) ==
  [m \in Motors |-> IF s[m] > RevStep THEN s[m] - RevStep ELSE s[m]]

RevDown(s) == [m \in Motors |-> IF s[m] > 0 THEN s[m] - RevStep ELSE s[m]]

PerformGroundActions ==
  /\ heli_state = "ground"
  /\ IF \E m \in Motors : motor_signals[m] > 0
     THEN /\ motor_signals' = RevDown(motor_signals)
          /\ UNCHANGED <<heli_settled, motor_speed_revving,
                         motor_speed_liftoff>>
     ELSE ResetMotors

RevUp_Forgotten == motor_speed_revving
RevUp == motor_speed_revving + RevStep

\* The offsets the attitude controllers add are zero while revving up.
ComputeMotorSignals ==
  /\ heli_state = "flying"
  /\ IF motor_speed_revving < motor_speed_liftoff
     THEN /\ motor_speed_revving' = RevUp
          /\ motor_signals' = [m \in Motors |-> Saturate(RevUp)]
     ELSE /\ \E u \in [Motors -> Outputs] :
                motor_signals' = [m \in Motors |-> Saturate(u[m])]
          /\ UNCHANGED motor_speed_revving
  /\ UNCHANGED <<heli_settled, motor_speed_liftoff>>

PerformShutDown_RevsDown ==
  /\ heli_state = "shutdown"
  /\ motor_signals' = RevDown(motor_signals)
  /\ UNCHANGED <<heli_settled, motor_speed_revving, motor_speed_liftoff>>

PerformShutDown_OnlySettled ==
  /\ heli_state = "shutdown"
  /\ IF heli_settled
     THEN ResetMotors
     ELSE UNCHANGED <<heli_settled, motor_signals, motor_speed_revving,
                      motor_speed_liftoff>>

PerformShutDown ==
  /\ heli_state = "shutdown"
  /\ ResetMotors

Act ==
  /\ pc = "act"
  /\ PerformGroundActions \/ ComputeMotorSignals \/ PerformShutDown
  /\ pc' = "send"
  /\ UNCHANGED <<heli_state, command_data_delay, attempts, switch_read, flags,
                 forwarding, wire, last_request>>

Control == \/ SendMotorSignals \/ SendFails
           \/ PollAgain \/ GetData \/ GetDataFails
           \/ CheckTerminalConnection
           \/ ReadShutDown \/ ResetShutDown
           \/ ReadStateSwitch \/ ClearStateSwitch
           \/ TakeCommandData
           \/ Act

(***************************************************************************)
(* The serial line delivers, or loses, the oldest packet.                  *)
(***************************************************************************)
LineTakes ==
  /\ wire # << >>
  /\ wire' = Tail(wire)
  /\ UNCHANGED <<pc, control, command_data_delay, attempts, switch_read,
                 flags, forwarding, last_request>>

Next == Terminal \/ Control \/ LineTakes

Spec == Init /\ [][Next]_vars

\* The line keeps moving.  The control thread runs at a higher priority than
\* the terminal thread (start_terminal_thread), so a write of its that finds
\* room again and again is not passed over for ever.  What the terminal
\* sends, and whether an exchange with the Robostix fails, is not fair.
FairSpec == /\ Spec
            /\ WF_vars(LineTakes)
            /\ SF_vars(Control)

-----------------------------------------------------------------------------
TypeOK ==
  /\ pc \in Labels
  /\ heli_state \in States
  /\ heli_settled \in BOOLEAN
  /\ motor_signals \in [Motors -> Int]
  /\ motor_speed_revving \in Int /\ motor_speed_liftoff \in Int
  /\ command_data_delay \in 0..(Threshold + 1)
  /\ attempts \in 0..MaxAttempts
  /\ switch_read \in BOOLEAN
  /\ state_switch \in BOOLEAN /\ shut_down \in BOOLEAN
  /\ new_command_data \in BOOLEAN
  /\ base_motor_speed \in Int
  /\ forwarding \in Requests \cup {"none"}
  /\ wire \in Seq(Packets)
  /\ last_request \in Requests \cup {"none"}

\* A signal never leaves the range a 16-bit PWM signal of the Robostix may
\* take: revving down stops within one step below zero (perform_ground_actions)
\* and flight is saturated (compute_motor_signals).
SignalsInRange ==
  \A m \in Motors : motor_signals[m] > -RevStep /\ motor_signals[m] <= MotorMax

\* While the helicopter counts as settled (sensor offsets are being zeroed in
\* prepare_sensor_data) the rotors are off, and in flight it never does.
SettledMeansOff ==
  /\ heli_settled => motor_signals = Zero
  /\ heli_state = "flying" => ~heli_settled

\* At the end of an iteration, and whatever the terminal thread did meanwhile,
\* the state "shutdown" means that the signals about to be sent are zero.
ShutDownMeansOff ==
  heli_state = "shutdown" /\ pc \in {"send", "recv", "exit"}
    => motor_signals = Zero

\* An iteration that found the terminal connection broken does not fly, not
\* even when a state switch is read in that very iteration.
NoFlightWithoutTerminal ==
  command_data_delay > Threshold => heli_state # "flying"

\* Once a shut-down request has been taken down there is no flight before the
\* terminal requests another state switch: a switch that came in before the
\* shut-down and is still pending can lead no further than "ground".
NoFlightAfterShutDown ==
  last_request = "shutdown" /\ ~shut_down => heli_state # "flying"

\* Motors that turn stop in one step only for a shut-down; on the ground they
\* come down by one revving step per iteration (perform_ground_actions).
GentleLanding ==
  [][ \A m \in Motors :
        heli_state # "flying" /\ motor_signals[m] > 0
          => \/ motor_signals'[m] >= motor_signals[m] - RevStep
             \/ heli_state' = "shutdown" ]_vars

\* protocol.h:59 calls COMM_SWITCH_STATE a "request to perform a state
\* switch": a request is taken down only by a loop that has seen it.
SwitchTakenIsSeen == [][ state_switch /\ ~state_switch' => switch_read ]_vars

Landed == motor_signals = Zero \/ pc = "exit"

\* Once the loop stays in "ground" the rotors come to rest, and stay at rest.
LandingEnds == <>[](heli_state = "ground") => <>[]Landed

\* Once the loop stays in "flying" revving up comes to its end, where the flight
\* controllers take over, and is not begun again.
RevvingEnds ==
  <>[](heli_state = "flying")
    => <>[](motor_speed_revving >= motor_speed_liftoff \/ pc = "exit")

\* A shut-down request leads to stopped rotors, whatever follows it.
ShutDownServed == shut_down ~> Landed

\* If command data stop coming for good, the rotors stop for good, whatever
\* state switches the terminal still sends.
SilenceStopsRotors == <>[](~new_command_data) => <>[]Landed
=============================================================================
