-------------------------- MODULE ControlLoop_proofs --------------------------
(***************************************************************************)
(* Theorems about ControlLoop, for every set of motors and every value of  *)
(* the constants: type correctness, the range of the motor signals, that   *)
(* a settled or shut-down helicopter has its rotors off, and that neither  *)
(* a broken terminal connection nor a shut-down request leaves it flying.  *)
(***************************************************************************)
EXTENDS ControlLoop, TLAPS

LEMMA ZeroType == Zero \in [Motors -> Int]
  BY DEF Zero

\* Saturation puts any raw output into the range of a motor signal.
LEMMA SaturateRange ==
  ASSUME NEW u \in Int
  PROVE  Saturate(u) \in 0..MotorMax
  BY ConstantsOK DEF Saturate

\* A packet put on the line is a packet, and the line stays a sequence.
LEMMA TransmitType ==
  ASSUME wire \in Seq(Packets), NEW p \in Packets, Transmit(p)
  PROVE  wire' \in Seq(Packets)
  BY DEF Transmit

LEMMA MotorPacketType ==
  ASSUME NEW s \in [Motors -> Int]
  PROVE  MotorPacket(s) \in Packets
  BY DEF MotorPacket, Packets

LEMMA RequestPacketType ==
  ASSUME NEW r \in Requests \cup {"other"}
  PROVE  RequestPacket(r) \in Packets
  BY ZeroType DEF RequestPacket, Packets

LEMMA ResetMotorsType ==
  ASSUME TypeOK, ResetMotors
  PROVE  /\ motor_signals' \in [Motors -> Int] /\ motor_signals' = Zero
         /\ motor_speed_revving' \in Int /\ motor_speed_liftoff' \in Int
         /\ heli_settled' \in BOOLEAN
  BY ZeroType DEF TypeOK, ResetMotors

-----------------------------------------------------------------------------
(***************************************************************************)
(* Type correctness, one step per action.                                  *)
(***************************************************************************)
LEMMA TypeInit == Init => TypeOK
  <1> SUFFICES ASSUME Init PROVE TypeOK
    OBVIOUS
  <1>1. wire \in Seq(Packets)
    BY ZeroType, MotorPacketType DEF Init
  <1>2. /\ motor_signals \in [Motors -> Int]
        /\ command_data_delay \in 0..(Threshold + 1)
        /\ attempts \in 0..MaxAttempts
    BY ZeroType, ConstantsOK DEF Init
  <1>3. /\ heli_settled \in BOOLEAN /\ switch_read \in BOOLEAN
        /\ state_switch \in BOOLEAN /\ shut_down \in BOOLEAN
        /\ new_command_data \in BOOLEAN
    BY DEF Init
  <1>4. /\ pc \in Labels /\ heli_state \in States
        /\ forwarding \in Requests \cup {"none"}
        /\ last_request \in Requests \cup {"none"}
    BY DEF Init, Labels, States, Requests
  <1>5. /\ motor_speed_revving \in Int /\ motor_speed_liftoff \in Int
        /\ base_motor_speed \in Int
    BY DEF Init
  <1> QED
    BY <1>1, <1>2, <1>3, <1>4, <1>5 DEF TypeOK

LEMMA TypeStep == TypeOK /\ [Next]_vars => TypeOK'
  <1> SUFFICES ASSUME TypeOK, [Next]_vars PROVE TypeOK'
    OBVIOUS
  <1> USE DEF Labels, States, Requests, control, flags
  <1>1. CASE RecvCommandData
    BY <1>1 DEF RecvCommandData, TypeOK
  <1>2. CASE RecvIdleLimit
    BY <1>2, ConstantsOK DEF RecvIdleLimit, TypeOK
  <1>3. ASSUME NEW r \in Requests, RecvRequest(r) PROVE TypeOK'
    BY <1>3 DEF RecvRequest, TypeOK
  <1>4. CASE Forward
    <2>1. forwarding \in Requests
      BY <1>4 DEF Forward, TypeOK
    <2>2. wire' \in Seq(Packets)
      BY <1>4, <2>1, RequestPacketType, TransmitType DEF Forward, TypeOK
    <2> QED
      BY <1>4, <2>2 DEF Forward, TypeOK
  <1>19. CASE ForwardOther
    <2>1. wire' \in Seq(Packets)
      BY <1>19, RequestPacketType, TransmitType DEF ForwardOther, TypeOK
    <2> QED
      BY <1>19, <2>1 DEF ForwardOther, TypeOK
  <1>5. CASE SendMotorSignals
    <2>1. wire' \in Seq(Packets)
      BY <1>5, MotorPacketType, TransmitType DEF SendMotorSignals, TypeOK
    <2> QED
      BY <1>5, <2>1, ConstantsOK DEF SendMotorSignals, TypeOK
  <1>6. CASE SendFails
    BY <1>6 DEF SendFails, TypeOK
  <1>7. CASE PollAgain
    <2>1. wire' \in Seq(Packets)
      BY <1>7, ZeroType, MotorPacketType, TransmitType DEF PollAgain, TypeOK
    <2> QED
      BY <1>7, <2>1, ConstantsOK DEF PollAgain, PollsLeft, TypeOK
  <1>8. CASE GetData
    BY <1>8 DEF GetData, TypeOK
  <1>9. CASE GetDataFails
    BY <1>9, ResetMotorsType DEF GetDataFails, TypeOK
  <1>10. CASE CheckTerminalConnection
    <2>1. NextDelay \in 0..(Threshold + 1)
      BY ConstantsOK DEF NextDelay, TypeOK
    <2>2. heli_state' \in States
      BY <1>10 DEF CheckTerminalConnection, StateForDelay, TypeOK
    <2> QED
      BY <1>10, <2>1, <2>2 DEF CheckTerminalConnection, TypeOK
  <1>11. CASE ReadShutDown
    BY <1>11 DEF ReadShutDown, TypeOK
  <1>12. CASE ResetShutDown
    BY <1>12 DEF ResetShutDown, TypeOK
  <1>13. CASE ReadStateSwitch
    BY <1>13 DEF ReadStateSwitch, TypeOK
  <1>14. CASE ClearStateSwitch
    BY <1>14 DEF ClearStateSwitch, AfterSwitch, TypeOK
  <1>15. CASE TakeCommandData
    BY <1>15 DEF TakeCommandData, TypeOK
  <1>16. CASE Act
    <2>1. CASE PerformGroundActions
      <3>1. RevDown(motor_signals) \in [Motors -> Int]
        BY ConstantsOK DEF RevDown, TypeOK
      <3>2. /\ motor_signals' \in [Motors -> Int]
            /\ motor_speed_revving' \in Int /\ motor_speed_liftoff' \in Int
            /\ heli_settled' \in BOOLEAN
        BY <2>1, <3>1, ResetMotorsType DEF PerformGroundActions, TypeOK
      <3> QED
        BY <1>16, <3>2 DEF Act, TypeOK
    <2>2. CASE ComputeMotorSignals
      <3>1. RevUp \in Int
        BY ConstantsOK DEF RevUp, TypeOK
      <3>2. motor_signals' \in [Motors -> Int]
        <4>1. Saturate(RevUp) \in Int
          BY <3>1, SaturateRange, ConstantsOK
        <4>2. ASSUME NEW u \in [Motors -> Outputs]
              PROVE  [m \in Motors |-> Saturate(u[m])] \in [Motors -> Int]
          <5>1. ASSUME NEW m \in Motors PROVE Saturate(u[m]) \in Int
            <6>1. u[m] \in Int
              BY ConstantsOK
            <6>2. Saturate(u[m]) \in 0..MotorMax
              BY <6>1, SaturateRange
            <6> QED
              BY <6>2, ConstantsOK
          <5> QED
            BY <5>1
        <4> QED
          BY <2>2, <4>1, <4>2 DEF ComputeMotorSignals
      <3> QED
        BY <1>16, <2>2, <3>1, <3>2 DEF Act, ComputeMotorSignals, TypeOK
    <2>3. CASE PerformShutDown
      BY <1>16, <2>3, ResetMotorsType DEF Act, PerformShutDown, TypeOK
    <2> QED
      BY <1>16, <2>1, <2>2, <2>3 DEF Act
  <1>17. CASE LineTakes
    BY <1>17 DEF LineTakes, TypeOK
  <1>18. CASE UNCHANGED vars
    BY <1>18 DEF vars, TypeOK
  <1> QED
    BY <1>1, <1>2, <1>3, <1>4, <1>5, <1>6, <1>7, <1>8, <1>9, <1>10, <1>11,
       <1>12, <1>13, <1>14, <1>15, <1>16, <1>17,
       <1>18, <1>19
       DEF Next, Terminal, Control

\* Every variable of the two threads keeps its type.
THEOREM TypeCorrect == Spec => []TypeOK
  BY TypeInit, TypeStep, PTL DEF Spec

-----------------------------------------------------------------------------
(***************************************************************************)
(* The inductive invariant.  The last three conjuncts are what the checked *)
(* invariants need to be inductive:                                        *)
(*  - a loop that has just seen the shut-down flag is in "shutdown";       *)
(*  - between the connection check and the state switch, a broken          *)
(*    connection has put the loop into "shutdown", from where a switch     *)
(*    leads to "ground" only;                                              *)
(*  - a switch request older than a performed shut-down is used up when    *)
(*    the loop is in "ground", so it cannot be the one that takes off.     *)
(***************************************************************************)
AckMeansShutDown == pc = "ack" => heli_state = "shutdown"

BrokenMeansShutDown ==
  command_data_delay > Threshold /\ pc \in {"shut", "ack", "read", "clear"}
    => heli_state = "shutdown"

OldSwitchUsedUp ==
  last_request = "shutdown" /\ ~shut_down /\ heli_state = "ground"
    => ~state_switch /\ ~switch_read

IInv == /\ TypeOK
        /\ SignalsInRange
        /\ SettledMeansOff
        /\ ShutDownMeansOff
        /\ NoFlightWithoutTerminal
        /\ NoFlightAfterShutDown
        /\ AckMeansShutDown
        /\ BrokenMeansShutDown
        /\ OldSwitchUsedUp

LEMMA ZeroInRange == Zero = [m \in Motors |-> 0] /\ -RevStep < 0 /\ 0 <= MotorMax
  BY ConstantsOK DEF Zero

\* Every step keeps the signals in range: only Act and GetDataFails change
\* them.
LEMMA RangeStep ==
  ASSUME TypeOK, SignalsInRange, [Next]_vars
  PROVE  SignalsInRange'
  <1>1. CASE motor_signals' = motor_signals
    BY <1>1 DEF SignalsInRange
  <1>2. CASE motor_signals' = Zero
    BY <1>2, ZeroInRange DEF SignalsInRange
  <1>3. CASE motor_signals' = RevDown(motor_signals)
    BY <1>3, ConstantsOK DEF SignalsInRange, RevDown, TypeOK
  <1>4. CASE ComputeMotorSignals
    <2>1. ASSUME NEW m \in Motors PROVE motor_signals'[m] \in 0..MotorMax
      <3>1. RevUp \in Int
        BY ConstantsOK DEF RevUp, TypeOK
      <3>2. Saturate(RevUp) \in 0..MotorMax
        BY <3>1, SaturateRange
      <3>3. ASSUME NEW u \in [Motors -> Outputs]
            PROVE  Saturate(u[m]) \in 0..MotorMax
        <4>1. u[m] \in Int
          BY ConstantsOK
        <4> QED
          BY <4>1, SaturateRange
      <3> QED
        BY <1>4, <3>2, <3>3 DEF ComputeMotorSignals
    <2> QED
      BY <2>1, ConstantsOK DEF SignalsInRange
  <1>5. \/ motor_signals' = motor_signals
        \/ motor_signals' = Zero
        \/ motor_signals' = RevDown(motor_signals)
        \/ ComputeMotorSignals
    BY DEF Next, Terminal, Control, vars, control, RecvCommandData,
           RecvIdleLimit, RecvRequest, Forward, ForwardOther,
           SendMotorSignals, SendFails,
           PollAgain, GetData, GetDataFails, CheckTerminalConnection,
           ReadShutDown, ResetShutDown, ReadStateSwitch, ClearStateSwitch,
           TakeCommandData, Act, PerformGroundActions, PerformShutDown,
           ResetMotors, LineTakes
  <1> QED
    BY <1>1, <1>2, <1>3, <1>4, <1>5

LEMMA InvInit == Init => IInv
  <1> SUFFICES ASSUME Init PROVE IInv
    OBVIOUS
  <1>1. TypeOK
    BY TypeInit
  <1>2. SignalsInRange
    BY ZeroInRange DEF Init, SignalsInRange
  <1>3. NoFlightWithoutTerminal /\ NoFlightAfterShutDown
    BY DEF Init, NoFlightWithoutTerminal, NoFlightAfterShutDown
  <1>4. SettledMeansOff /\ ShutDownMeansOff
    BY DEF Init, SettledMeansOff, ShutDownMeansOff
  <1>5. AckMeansShutDown /\ BrokenMeansShutDown /\ OldSwitchUsedUp
    BY DEF Init, AckMeansShutDown, BrokenMeansShutDown, OldSwitchUsedUp
  <1> QED
    BY <1>1, <1>2, <1>3, <1>4, <1>5 DEF IInv

\* Every step keeps what relates the state of the loop to the rotors.
LEMMA RotorStep ==
  ASSUME IInv, [Next]_vars
  PROVE  SettledMeansOff' /\ ShutDownMeansOff'
  <1> USE DEF IInv, SettledMeansOff, ShutDownMeansOff, control
  <1>1. CASE RecvCommandData
    BY <1>1 DEF RecvCommandData
  <1>2. CASE RecvIdleLimit
    BY <1>2 DEF RecvIdleLimit
  <1>3. ASSUME NEW r \in Requests, RecvRequest(r)
       PROVE  SettledMeansOff' /\ ShutDownMeansOff'
    BY <1>3 DEF RecvRequest
  <1>4. CASE Forward
    BY <1>4 DEF Forward
  <1>19. CASE ForwardOther
    BY <1>19 DEF ForwardOther
  <1>5. CASE SendMotorSignals
    BY <1>5 DEF SendMotorSignals
  <1>6. CASE SendFails
    BY <1>6 DEF SendFails
  <1>7. CASE PollAgain
    BY <1>7 DEF PollAgain
  <1>8. CASE GetData
    BY <1>8 DEF GetData
  <1>9. CASE GetDataFails
    BY <1>9 DEF GetDataFails, ResetMotors
  <1>10. CASE CheckTerminalConnection
    BY <1>10 DEF CheckTerminalConnection, StateForDelay
  <1>11. CASE ReadShutDown
    BY <1>11 DEF ReadShutDown
  <1>12. CASE ResetShutDown
    BY <1>12 DEF ResetShutDown
  <1>13. CASE ReadStateSwitch
    BY <1>13 DEF ReadStateSwitch
  <1>14. CASE ClearStateSwitch
    BY <1>14 DEF ClearStateSwitch, AfterSwitch, TypeOK, States
  <1>15. CASE TakeCommandData
    BY <1>15 DEF TakeCommandData
  <1>16. CASE Act
    <2>1. CASE PerformGroundActions
      <3>1. CASE \E m \in Motors : motor_signals[m] > 0
        BY <1>16, <2>1, <3>1 DEF Act, PerformGroundActions, Zero
      <3>2. CASE ~ \E m \in Motors : motor_signals[m] > 0
        BY <1>16, <2>1, <3>2 DEF Act, PerformGroundActions, ResetMotors
      <3> QED
        BY <3>1, <3>2
    <2>2. CASE ComputeMotorSignals
      BY <1>16, <2>2 DEF Act, ComputeMotorSignals
    <2>3. CASE PerformShutDown
      BY <1>16, <2>3 DEF Act, PerformShutDown, ResetMotors
    <2> QED
      BY <1>16, <2>1, <2>2, <2>3 DEF Act
  <1>17. CASE LineTakes
    BY <1>17 DEF LineTakes
  <1>18. CASE UNCHANGED vars
    BY <1>18 DEF vars
  <1> QED
    BY <1>1, <1>2, <1>3, <1>4, <1>5, <1>6, <1>7, <1>8, <1>9, <1>10, <1>11, <1>12, <1>13, <1>14, <1>15, <1>16, <1>17,
       <1>18, <1>19
       DEF Next, Terminal, Control

\* Every step keeps what relates the state of the loop to the requests and to
\* the connection with the terminal.
LEMMA RequestStep ==
  ASSUME IInv, [Next]_vars
  PROVE  /\ NoFlightWithoutTerminal' /\ NoFlightAfterShutDown'
         /\ AckMeansShutDown' /\ BrokenMeansShutDown' /\ OldSwitchUsedUp'
  <1> USE DEF IInv, NoFlightWithoutTerminal, NoFlightAfterShutDown,
              AckMeansShutDown, BrokenMeansShutDown, OldSwitchUsedUp,
              control, flags
  <1> DEFINE Goal == /\ NoFlightWithoutTerminal /\ NoFlightAfterShutDown
                     /\ AckMeansShutDown /\ BrokenMeansShutDown
                     /\ OldSwitchUsedUp
  <1>1. CASE RecvCommandData
    BY <1>1 DEF RecvCommandData
  <1>2. CASE RecvIdleLimit
    BY <1>2 DEF RecvIdleLimit
  <1>3. ASSUME NEW r \in Requests, RecvRequest(r) PROVE Goal'
    BY <1>3 DEF RecvRequest, Requests
  <1>4. CASE Forward
    BY <1>4 DEF Forward
  <1>19. CASE ForwardOther
    BY <1>19 DEF ForwardOther
  <1>5. CASE SendMotorSignals
    BY <1>5 DEF SendMotorSignals
  <1>6. CASE SendFails
    BY <1>6 DEF SendFails
  <1>7. CASE PollAgain
    BY <1>7 DEF PollAgain
  <1>8. CASE GetData
    BY <1>8 DEF GetData
  <1>9. CASE GetDataFails
    BY <1>9 DEF GetDataFails, ResetMotors
  <1>10. CASE CheckTerminalConnection
    BY <1>10 DEF CheckTerminalConnection, StateForDelay, NextDelay, TypeOK
  <1>11. CASE ReadShutDown
    BY <1>11 DEF ReadShutDown
  <1>12. CASE ResetShutDown
    BY <1>12 DEF ResetShutDown
  <1>13. CASE ReadStateSwitch
    BY <1>13 DEF ReadStateSwitch
  <1>14. CASE ClearStateSwitch
    BY <1>14 DEF ClearStateSwitch, AfterSwitch, TypeOK, States
  <1>15. CASE TakeCommandData
    BY <1>15 DEF TakeCommandData
  <1>16. CASE Act
    BY <1>16 DEF Act
  <1>17. CASE LineTakes
    BY <1>17 DEF LineTakes
  <1>18. CASE UNCHANGED vars
    BY <1>18 DEF vars
  <1> QED
    BY <1>1, <1>2, <1>3, <1>4, <1>5, <1>6, <1>7, <1>8, <1>9, <1>10, <1>11, <1>12, <1>13, <1>14, <1>15, <1>16, <1>17,
       <1>18, <1>19
       DEF Next, Terminal, Control

LEMMA InvStep == IInv /\ [Next]_vars => IInv'
  <1> SUFFICES ASSUME IInv, [Next]_vars PROVE IInv'
    OBVIOUS
  <1>1. TypeOK' /\ SignalsInRange'
    BY TypeStep, RangeStep DEF IInv
  <1>2. SettledMeansOff' /\ ShutDownMeansOff'
    BY RotorStep
  <1>3. /\ NoFlightWithoutTerminal' /\ NoFlightAfterShutDown'
        /\ AckMeansShutDown' /\ BrokenMeansShutDown' /\ OldSwitchUsedUp'
    BY RequestStep
  <1> QED
    BY <1>1, <1>2, <1>3 DEF IInv

LEMMA Invariance == Spec => []IInv
  BY InvInit, InvStep, PTL DEF Spec

\* The signals the control loop sends stay in the range of the motors, one
\* revving step below zero at the most.
THEOREM SignalsStayInRange == Spec => []SignalsInRange
  <1>1. IInv => SignalsInRange
    BY DEF IInv
  <1> QED
    BY <1>1, Invariance, PTL

\* A settled helicopter, whose sensor offsets are being zeroed, has its rotors
\* off, and one in flight is never taken for settled (prepare_sensor_data).
THEOREM RotorsOff == Spec => []SettledMeansOff
  <1>1. IInv => SettledMeansOff
    BY DEF IInv
  <1> QED
    BY <1>1, Invariance, PTL

\* A helicopter in "shutdown" at the end of an iteration has its rotors off
\* (perform_shut_down).
THEOREM ShutDownStopsRotors == Spec => []ShutDownMeansOff
  <1>1. IInv => ShutDownMeansOff
    BY DEF IInv
  <1> QED
    BY <1>1, Invariance, PTL

\* No iteration that found the terminal connection broken flies.
THEOREM TerminalNeededToFly == Spec => []NoFlightWithoutTerminal
  <1>1. IInv => NoFlightWithoutTerminal
    BY DEF IInv
  <1> QED
    BY <1>1, Invariance, PTL

\* After a shut-down was performed there is no flight without another request.
THEOREM ShutDownEndsFlight == Spec => []NoFlightAfterShutDown
  <1>1. IInv => NoFlightAfterShutDown
    BY DEF IInv
  <1> QED
    BY <1>1, Invariance, PTL

\* Motors that turn outside flight stop at once only for a shut-down, and come
\* down by at most one revving step per iteration on the ground
\* (perform_ground_actions).
THEOREM LandingIsGentle == Spec => GentleLanding
  <1> DEFINE Gentle ==
        \A m \in Motors :
          heli_state # "flying" /\ motor_signals[m] > 0
            => \/ motor_signals'[m] >= motor_signals[m] - RevStep
               \/ heli_state' = "shutdown"
  <1>1. ASSUME TypeOK, [Next]_vars PROVE Gentle
    <2> SUFFICES ASSUME NEW m \in Motors, heli_state # "flying", motor_signals[m] > 0
                 PROVE  \/ motor_signals'[m] >= motor_signals[m] - RevStep
                        \/ heli_state' = "shutdown"
      OBVIOUS
    <2>1. motor_signals[m] \in Int /\ RevStep \in Nat
      BY <1>1, ConstantsOK DEF TypeOK
    <2>2. CASE motor_signals' = motor_signals
      BY <2>1, <2>2
    <2>3. CASE motor_signals' = RevDown(motor_signals)
      BY <2>1, <2>3 DEF RevDown
    <2>4. \/ motor_signals' = motor_signals
          \/ motor_signals' = RevDown(motor_signals)
          \/ heli_state' = "shutdown"
      BY <1>1, <2>1 DEF
           Next, Terminal, Control, vars, control, RecvCommandData,
           RecvIdleLimit, RecvRequest, Forward, ForwardOther,
           SendMotorSignals, SendFails,
           PollAgain, GetData, GetDataFails, CheckTerminalConnection,
           ReadShutDown, ResetShutDown, ReadStateSwitch, ClearStateSwitch,
           TakeCommandData, Act, PerformGroundActions, PerformShutDown,
           ComputeMotorSignals, LineTakes
    <2> QED
      BY <2>2, <2>3, <2>4
  <1>2. TypeOK /\ [Next]_vars => [Gentle]_vars
    BY <1>1
  <1> QED
    BY <1>2, TypeCorrect, PTL DEF Spec, GentleLanding
=============================================================================
