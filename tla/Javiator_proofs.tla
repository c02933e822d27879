----------------------------- MODULE Javiator_proofs -----------------------------
(***************************************************************************)
(* Two facts about the whole system, for every value of the constants: the *)
(* Gumstix sends the board what the board was built for, and no rotor turns*)
(* before the terminal has asked for a state switch.                       *)
(*                                                                         *)
(* The second one reaches across the line: what is inductive is that there *)
(* is no switch anywhere - not with the terminal thread, not on the line - *)
(* and that the board is locked, as long as none was asked for, whatever   *)
(* other requests came in.  NoSwitchAnywhere says so.                      *)
(***************************************************************************)
EXTENDS Javiator, TLAPS

LEMMA Constants ==
  /\ MotorMax \in Nat /\ RevStep \in Nat \ {0} /\ Outputs \subseteq Int
BY JaviatorConstantsOK DEF G!ConstantsOK

SentSignals == SignalMin..MotorMax

LEMMA ZeroIsSent ==
  0 \in SentSignals /\ G!Zero \in [Motors -> SentSignals] /\ SentSignals \subseteq Int
BY Constants DEF SentSignals, SignalMin, G!Zero

-----------------------------------------------------------------------------
(***************************************************************************)
(* The board gets what it was built for.                                   *)
(***************************************************************************)

\* What the threads are about to send.
Sendable ==
  /\ motor_signals \in [Motors -> SentSignals]
  /\ motor_speed_revving \in Int
  /\ forwarding \in {"none", "switch", "shutdown"}

LEMMA Saturated ==
  ASSUME NEW u \in Int
  PROVE  G!Saturate(u) \in SentSignals
BY Constants DEF G!Saturate, SentSignals, SignalMin

LEMMA RevvedDown ==
  ASSUME motor_signals \in [Motors -> SentSignals]
  PROVE  G!RevDown(motor_signals) \in [Motors -> SentSignals]
BY Constants DEF G!RevDown, SentSignals, SignalMin

LEMMA SendableInit == Init => Sendable
BY ZeroIsSent DEF Init, G!Init, Sendable

\* Only the two ends of an iteration change the signals.
LEMMA SendableControl ==
  ASSUME Sendable, G!Control
  PROVE  Sendable'
<1> USE DEF Sendable, G!control, G!flags
<1>1. CASE G!Act
  <2>1. UNCHANGED forwarding
    BY <1>1 DEF G!Act
  <2>2. CASE G!PerformGroundActions
    BY <2>1, <2>2, ZeroIsSent, RevvedDown
       DEF G!PerformGroundActions, G!ResetMotors
  <2>3. CASE G!ComputeMotorSignals
    <3>1. G!RevUp \in Int
      BY Constants DEF G!RevUp
    <3>2. G!Saturate(G!RevUp) \in SentSignals
      BY <3>1, Saturated
    <3>3. ASSUME NEW u \in [Motors -> Outputs]
          PROVE  [m \in Motors |-> G!Saturate(u[m])] \in [Motors -> SentSignals]
      <4>1. ASSUME NEW m \in Motors PROVE G!Saturate(u[m]) \in SentSignals
        <5>1. u[m] \in Int
          BY Constants
        <5> QED BY <5>1, Saturated
      <4> QED BY <4>1
    <3> QED BY <2>1, <2>3, <3>1, <3>2, <3>3 DEF G!ComputeMotorSignals
  <2>4. CASE G!PerformShutDown
    BY <2>1, <2>4, ZeroIsSent DEF G!PerformShutDown, G!ResetMotors
  <2> QED BY <1>1, <2>2, <2>3, <2>4 DEF G!Act
<1>2. CASE G!GetDataFails
  BY <1>2, ZeroIsSent DEF G!GetDataFails, G!ResetMotors
<1>3. CASE UNCHANGED <<motor_signals, motor_speed_revving, forwarding>>
  BY <1>3
<1>4. \/ G!Act \/ G!GetDataFails
      \/ UNCHANGED <<motor_signals, motor_speed_revving, forwarding>>
  BY DEF G!Control, G!SendMotorSignals, G!SendFails, G!PollAgain, G!GetData,
         G!CheckTerminalConnection, G!ReadShutDown, G!ResetShutDown,
         G!ReadStateSwitch, G!ClearStateSwitch, G!TakeCommandData
<1> QED BY <1>1, <1>2, <1>3, <1>4

LEMMA SendableTerminal ==
  ASSUME Sendable, G!Terminal
  PROVE  Sendable'
BY DEF Sendable, G!Terminal, G!RecvCommandData, G!RecvIdleLimit,
       G!RecvRequest, G!Forward, G!ForwardOther, G!Requests, G!control

LEMMA SendableStep == Sendable /\ [Next]_vars => Sendable'
<1> SUFFICES ASSUME Sendable, [Next]_vars PROVE Sendable'
  OBVIOUS
<1>1. CASE TerminalThread
  BY <1>1, SendableTerminal DEF TerminalThread
<1>2. CASE ControlThread
  BY <1>2, SendableControl DEF ControlThread
<1>3. CASE UNCHANGED gumVars
  BY <1>3 DEF gumVars, Sendable
<1> QED
  BY <1>1, <1>2, <1>3 DEF Next, BoardTick, BoardChecks, BoardReceives,
     LineLoses, elsewhere, vars

\* A packet the threads put on the line is one the board has to expect.
LEMMA SentIsExpected ==
  ASSUME Sendable, UNCHANGED roboVars,
         G!Terminal \/ G!Control
  PROVE  [R!Next]_(R!vars)
<1> DEFINE Sent == \/ \E s \in [Motors -> SentSignals] :
                        G!Transmit(G!MotorPacket(s))
                   \/ \E t \in {"switch", "shutdown", "other"} :
                        G!Transmit(G!RequestPacket(t))
<1>1. CASE Sent
  <2>1. R!PacketSent
    BY <1>1 DEF G!Transmit, G!MotorPacket, G!RequestPacket, G!Zero, R!None,
                R!PacketSent, R!PacketTypes, R!roboVars, R!motorVars, roboVars,
                SentSignals
  <2> QED BY <2>1 DEF R!Next
<1>2. CASE UNCHANGED wire
  BY <1>2 DEF R!vars, R!roboVars, R!motorVars, roboVars
<1>3. CASE G!Terminal
  <2>1. CASE G!Forward
    BY <1>1, <2>1 DEF G!Forward, Sendable
  <2>2. CASE G!ForwardOther
    BY <1>1, <2>2 DEF G!ForwardOther
  <2>3. G!Forward \/ G!ForwardOther \/ UNCHANGED wire
    BY <1>3 DEF G!Terminal, G!RecvCommandData, G!RecvIdleLimit, G!RecvRequest
  <2> QED BY <1>2, <2>1, <2>2, <2>3
<1>4. CASE G!Control
  <2>1. CASE G!SendMotorSignals
    BY <1>1, <2>1 DEF G!SendMotorSignals, Sendable
  <2>2. CASE G!PollAgain
    BY <1>1, <2>2, ZeroIsSent DEF G!PollAgain
  <2>3. G!SendMotorSignals \/ G!PollAgain \/ UNCHANGED wire
    BY <1>4 DEF G!Control, G!SendFails, G!GetData, G!GetDataFails,
         G!CheckTerminalConnection, G!ReadShutDown, G!ResetShutDown,
         G!ReadStateSwitch, G!ClearStateSwitch, G!TakeCommandData, G!Act
  <2> QED BY <1>2, <2>1, <2>2, <2>3
<1> QED BY <1>3, <1>4

LEMMA BoardInit == Init => R!Init
BY DEF Init, G!Init, G!MotorPacket, G!Zero, R!Init, R!None

LEMMA BoardStep == Sendable /\ [Next]_vars => [R!Next]_(R!vars)
<1> SUFFICES ASSUME Sendable, [Next]_vars PROVE [R!Next]_(R!vars)
  OBVIOUS
<1>1. CASE TerminalThread \/ ControlThread
  BY <1>1, SentIsExpected DEF TerminalThread, ControlThread
<1>2. CASE BoardTick \/ BoardChecks \/ BoardReceives \/ LineLoses
  BY <1>2 DEF BoardTick, BoardChecks, BoardReceives, LineLoses, R!Next, R!Board
<1>3. CASE UNCHANGED vars
  BY <1>3 DEF vars, roboVars, R!vars, R!roboVars, R!motorVars
<1> QED BY <1>1, <1>2, <1>3 DEF Next

\* The whole system implements the board with its assumptions about packets:
\* the control program never sends a signal outside the range from one revving
\* step below zero to MOTOR_MAX (javiator_port.c, robo1.c).
THEOREM SystemImplementsBoard == Spec => BoardAsAssumed
<1> QED
  BY SendableInit, SendableStep, BoardInit, BoardStep, PTL
     DEF Spec, BoardAsAssumed, R!Spec

-----------------------------------------------------------------------------
(***************************************************************************)
(* No rotor turns unasked.                                                 *)
(***************************************************************************)
Request == {"none", "switch", "shutdown"}
OnLine  == [type : {"motors", "switch", "shutdown", "other"}, signals : [Motors -> Int]]

RequestTypes ==
  /\ forwarding \in Request /\ switch_asked \in BOOLEAN
  /\ motor_signals \in [Motors -> Int] /\ wire \in Seq(OnLine)
  /\ flag_shut_down \in BOOLEAN

NoSwitchOnLine(w) == \A i \in 1..Len(w) : w[i].type # "switch"

NoSwitchAnywhere ==
  ~switch_asked
    => forwarding # "switch" /\ NoSwitchOnLine(wire) /\ flag_shut_down

LockedIsOff == flag_shut_down => pwm = R!None

IInv == RequestTypes /\ NoSwitchAnywhere /\ LockedIsOff

LEMMA AppendKeeps ==
  ASSUME NEW w \in Seq(OnLine), NEW p \in OnLine
  PROVE  /\ Append(w, p) \in Seq(OnLine)
         /\ NoSwitchOnLine(w) /\ p.type # "switch" => NoSwitchOnLine(Append(w, p))
BY DEF NoSwitchOnLine

LEMMA TailKeeps ==
  ASSUME NEW w \in Seq(OnLine), w # << >>
  PROVE  /\ Tail(w) \in Seq(OnLine) /\ Head(w) \in OnLine
         /\ NoSwitchOnLine(w) => NoSwitchOnLine(Tail(w)) /\ Head(w).type # "switch"
BY DEF NoSwitchOnLine

LEMMA IInvInit == Init => IInv
<1> SUFFICES ASSUME Init PROVE IInv
  OBVIOUS
<1>1. G!MotorPacket(G!Zero) \in OnLine /\ G!MotorPacket(G!Zero).type # "switch"
  BY DEF G!MotorPacket, G!Zero, OnLine
<1>2. wire = << G!MotorPacket(G!Zero) >>
  BY DEF Init, G!Init
<1>3. wire \in Seq(OnLine) /\ NoSwitchOnLine(wire)
  BY <1>1, <1>2 DEF NoSwitchOnLine
<1>4. RequestTypes
  BY <1>3, ZeroIsSent DEF Init, G!Init, RequestTypes, Request
<1> QED BY <1>3, <1>4 DEF Init, G!Init, IInv, NoSwitchAnywhere, LockedIsOff

LEMMA TerminalKeeps ==
  ASSUME IInv, TerminalThread
  PROVE  IInv'
<1> USE DEF IInv, RequestTypes, NoSwitchAnywhere, LockedIsOff, roboVars,
            G!control, Request
<1>1. /\ R!None' = R!None /\ UNCHANGED <<flag_shut_down, pwm>>
      /\ switch_asked' = (switch_asked \/ forwarding' = "switch")
  BY DEF R!None, TerminalThread
<1>2. CASE G!Forward
  <2>1. forwarding \in {"switch", "shutdown"}
    BY <1>2 DEF G!Forward
  <2>2. G!RequestPacket(forwarding) \in OnLine
        /\ G!RequestPacket(forwarding).type = forwarding
    BY <2>1 DEF G!RequestPacket, OnLine, G!Zero
  <2>3. /\ wire' \in Seq(OnLine)
        /\ NoSwitchOnLine(wire) /\ forwarding # "switch" => NoSwitchOnLine(wire')
    BY <1>2, <2>2, AppendKeeps DEF G!Forward, G!Transmit
  <2>4. forwarding' = "none" /\ UNCHANGED motor_signals
    BY <1>2 DEF G!Forward
  <2> HIDE DEF NoSwitchOnLine
  <2> QED BY <1>1, <2>1, <2>3, <2>4
<1>3. CASE G!ForwardOther
  <2>1. G!RequestPacket("other") \in OnLine
        /\ G!RequestPacket("other").type # "switch"
    BY DEF G!RequestPacket, OnLine, G!Zero
  <2>2. /\ wire' \in Seq(OnLine)
        /\ NoSwitchOnLine(wire) => NoSwitchOnLine(wire')
    BY <1>3, <2>1, AppendKeeps DEF G!ForwardOther, G!Transmit
  <2>3. UNCHANGED <<forwarding, motor_signals>>
    BY <1>3 DEF G!ForwardOther
  <2> HIDE DEF NoSwitchOnLine
  <2> QED BY <1>1, <2>2, <2>3
<1>4. ASSUME NEW r \in G!Requests, G!RecvRequest(r) PROVE IInv'
  BY <1>1, <1>4 DEF G!RecvRequest, G!Requests, NoSwitchOnLine
<1>5. CASE G!RecvCommandData \/ G!RecvIdleLimit
  BY <1>1, <1>5 DEF G!RecvCommandData, G!RecvIdleLimit, NoSwitchOnLine
<1>6. G!Terminal
  BY DEF TerminalThread
<1> QED BY <1>2, <1>3, <1>4, <1>5, <1>6 DEF G!Terminal

LEMMA ControlKeeps ==
  ASSUME IInv, Sendable, Sendable', G!Control, UNCHANGED <<roboVars, switch_asked>>
  PROVE  IInv'
<1> USE DEF IInv, RequestTypes, NoSwitchAnywhere, LockedIsOff, roboVars
<1>1. R!None' = R!None /\ motor_signals' \in [Motors -> Int]
  BY ZeroIsSent DEF R!None, Sendable
<1>2. /\ UNCHANGED forwarding
      /\ \/ UNCHANGED wire
         \/ \E s \in [Motors -> Int] : wire' = Append(wire, G!MotorPacket(s))
  <2>1. CASE G!SendMotorSignals
    BY <2>1 DEF G!SendMotorSignals, G!Transmit
  <2>2. CASE G!PollAgain
    BY <2>2, ZeroIsSent DEF G!PollAgain, G!Transmit
  <2>3. CASE ~G!SendMotorSignals /\ ~G!PollAgain
    BY <2>3 DEF G!Control, G!SendFails, G!GetData, G!GetDataFails,
         G!CheckTerminalConnection, G!ReadShutDown, G!ResetShutDown,
         G!ReadStateSwitch, G!ClearStateSwitch, G!TakeCommandData, G!Act
  <2> QED BY <2>1, <2>2, <2>3
<1>3. wire' \in Seq(OnLine) /\ (NoSwitchOnLine(wire) => NoSwitchOnLine(wire'))
  <2>1. ASSUME NEW s \in [Motors -> Int], wire' = Append(wire, G!MotorPacket(s))
        PROVE  wire' \in Seq(OnLine) /\ (NoSwitchOnLine(wire) => NoSwitchOnLine(wire'))
    <3>1. G!MotorPacket(s) \in OnLine /\ G!MotorPacket(s).type # "switch"
      BY DEF G!MotorPacket, OnLine
    <3> QED BY <2>1, <3>1, AppendKeeps
  <2> QED BY <1>2, <2>1
<1> QED BY <1>1, <1>2, <1>3 DEF NoSwitchOnLine

LEMMA BoardKeeps ==
  ASSUME IInv, UNCHANGED elsewhere, R!Board \/ R!PacketLost
  PROVE  IInv'
<1> USE DEF IInv, RequestTypes, NoSwitchAnywhere, LockedIsOff, elsewhere, gumVars,
            R!roboVars, R!motorVars
<1>1. R!None' = R!None
  BY DEF R!None
<1>2. \/ UNCHANGED wire
      \/ wire # << >> /\ wire' = Tail(wire)
  BY DEF R!Board, R!CheckDelay, R!CheckReceiveDelay, R!ResetInterface,
         R!ClearFlags, R!ProcessPacket, R!ProcessMotorSignals,
         R!ProcessShortSignals, R!ProcessOther,
         R!ProcessStateSwitch, R!ProcessShutDown, R!Arrives, R!WdogTick,
         R!PacketLost
<1>3. wire' \in Seq(OnLine) /\ (NoSwitchOnLine(wire) => NoSwitchOnLine(wire'))
  BY <1>2, TailKeeps
<1> HIDE DEF NoSwitchOnLine
<1>4. CASE R!ProcessStateSwitch
  <2>1. wire # << >> /\ Head(wire).type = "switch"
    BY <1>4 DEF R!ProcessStateSwitch, R!Arrives
  <2>2. switch_asked
    BY <2>1, TailKeeps
  <2> QED BY <1>3, <1>4, <2>2 DEF R!ProcessStateSwitch
<1>5. CASE R!ProcessShutDown
  BY <1>1, <1>3, <1>5 DEF R!ProcessShutDown, R!StopMotors
<1>6. CASE R!ProcessMotorSignals
  BY <1>1, <1>3, <1>6 DEF R!ProcessMotorSignals, R!OutputSignals
<1>7. CASE R!CheckReceiveDelay
  BY <1>1, <1>3, <1>7 DEF R!CheckReceiveDelay, R!ReduceSignals
<1>8. CASE \/ R!ClearFlags \/ R!WdogTick \/ R!PacketLost
           \/ R!ProcessShortSignals \/ R!ProcessOther
  <2>1. UNCHANGED <<flag_shut_down, pwm, forwarding, switch_asked, motor_signals>>
    BY <1>8 DEF R!ClearFlags, R!WdogTick, R!PacketLost, R!ProcessShortSignals,
       R!ProcessOther
  <2> QED BY <1>1, <1>3, <2>1
<1> QED BY <1>4, <1>5, <1>6, <1>7, <1>8 DEF R!Board, R!CheckDelay, R!ProcessPacket

LEMMA IInvStep == Sendable /\ Sendable' /\ IInv /\ [Next]_vars => IInv'
<1> SUFFICES ASSUME Sendable, Sendable', IInv, [Next]_vars PROVE IInv'
  OBVIOUS
<1>1. CASE TerminalThread
  BY <1>1, TerminalKeeps DEF TerminalThread
<1>2. CASE ControlThread
  BY <1>2, ControlKeeps DEF ControlThread
<1>3. CASE BoardTick \/ BoardChecks \/ BoardReceives \/ LineLoses
  BY <1>3, BoardKeeps
     DEF BoardTick, BoardChecks, BoardReceives, LineLoses, R!Board
<1>4. CASE UNCHANGED vars
  <2>1. R!None' = R!None
    BY DEF R!None
  <2> QED
    BY <1>4, <2>1 DEF vars, gumVars, roboVars, IInv, RequestTypes,
       NoSwitchAnywhere, NoSwitchOnLine, LockedIsOff
<1> QED BY <1>1, <1>2, <1>3, <1>4 DEF Next

\* No rotor turns before the terminal has asked for a state switch, whatever else
\* it asked for, and none on a board that has processed a shut-down and no
\* switch since (process_data_packet in terminal_port.c, process_state_switch
\* in robo1.c).
THEOREM NoRotorUnasked == Spec => []RotorsNeedSwitch
<1>1. IInv => RotorsNeedSwitch
  <2> SUFFICES ASSUME IInv, NEW m \in Motors, pwm[m] > 0
               PROVE  switch_asked /\ ~flag_shut_down
    BY DEF RotorsNeedSwitch
  <2>1. pwm # R!None
    BY DEF R!None
  <2> QED BY <2>1 DEF IInv, NoSwitchAnywhere, LockedIsOff
<1> QED
  BY <1>1, IInvInit, IInvStep, SendableInit, SendableStep, PTL DEF Spec
=============================================================================
