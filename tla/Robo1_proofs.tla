----------------------------- MODULE Robo1_proofs -----------------------------
(***************************************************************************)
(* Theorems about Robo1, for every set of motors and every value of the    *)
(* constants: type correctness, that the decrement of a silent line never  *)
(* makes a signal wrap around, that a locked board has its outputs off,    *)
(* and that the board implements MotorGate.                                *)
(***************************************************************************)
EXTENDS Robo1, TLAPS

\* A locked board holds its outputs at the minimum and the sonar stopped
\* (process_shut_down, and the test of flag_shut_down in
\* process_motor_signals and check_receive_delay).
LockedMeansOff == flag_shut_down => pwm = None /\ ~sensors_enabled

\* No signal is further below another than a packet can make it: the
\* decrement moves all four together.
SpreadKept == \A m, k \in Motors : signals[k] - signals[m] <= SigMax - SigMin

NoneAbove == \A m \in Motors : signals[m] <= SigMax

IInv == TypeOK /\ DecrementsStayBounded /\ SpreadKept /\ NoneAbove
        /\ LockedMeansOff

-----------------------------------------------------------------------------
\* What reaches the motor controllers is always in their range.
LEMMA PwmRange ==
  ASSUME NEW s \in [Motors -> Int]
  PROVE  PwmOf(s) \in [Motors -> 0..PwmMax]
  <1>1. ASSUME NEW m \in Motors PROVE Clamp(s[m]) \in 0..PwmMax
    BY RoboConstantsOK DEF Clamp
  <1> QED
    BY <1>1 DEF PwmOf

LEMMA NoneType == /\ None \in [Motors -> IntMin..IntMax]
                  /\ None \in [Motors -> SigMin..SigMax]
                  /\ None \in [Motors -> 0..PwmMax]
  BY RoboConstantsOK DEF None

\* The packet at the head of the line carries signals in range.
LEMMA HeadSignals ==
  ASSUME TypeOK, wire # << >>
  PROVE  /\ Head(wire).signals \in [Motors -> SigMin..SigMax]
         /\ Tail(wire) \in Seq(Packets)
  <1>1. Head(wire) \in Packets
    BY DEF TypeOK
  <1> QED
    BY <1>1 DEF TypeOK, Packets

\* One silent period from bounded signals: nothing wraps and the bounds hold
\* again, because some signal is still above zero when all are decremented.
LEMMA DecrementKeepsBounds ==
  ASSUME IInv, MayBeAirborne
  PROVE  /\ \A m \in Motors : /\ Decrement(signals)[m] = signals[m] - MotorDec
                              /\ Decrement(signals)[m] >= SigMin - SigMax - MotorDec
         /\ Decrement(signals) \in [Motors -> IntMin..IntMax]
  <1>1. PICK k \in Motors : signals[k] > 0
    BY DEF MayBeAirborne
  <1>2. ASSUME NEW m \in Motors
        PROVE  /\ Int16(signals[m] - MotorDec) = signals[m] - MotorDec
               /\ signals[m] - MotorDec >= SigMin - SigMax - MotorDec
               /\ signals[m] - MotorDec \in IntMin..IntMax
    <2>1. /\ signals[m] \in Int /\ signals[k] \in Int
          /\ signals[m] <= SigMax
      BY RoboConstantsOK DEF IInv, TypeOK, NoneAbove
    <2>2. signals[k] - signals[m] <= SigMax - SigMin
      BY DEF IInv, SpreadKept
    <2> QED
      BY <1>1, <2>1, <2>2, RoboConstantsOK DEF Int16
  <1> QED
    BY <1>2 DEF Decrement

\* The three ways in which a step may change the signals keep their bounds.
LEMMA BoundsStep ==
  ASSUME IInv,
         \/ signals' = signals
         \/ signals' \in [Motors -> SigMin..SigMax]
         \/ MayBeAirborne /\ signals' = Decrement(signals)
  PROVE  /\ signals' \in [Motors -> IntMin..IntMax]
         /\ DecrementsStayBounded' /\ SpreadKept' /\ NoneAbove'
  <1> USE DEF DecrementsStayBounded, SpreadKept, NoneAbove
  <1>1. CASE signals' = signals
    BY <1>1 DEF IInv, TypeOK
  <1>2. CASE signals' \in [Motors -> SigMin..SigMax]
    <2>1. \A m \in Motors : signals'[m] \in Int /\ SigMin <= signals'[m]
                            /\ signals'[m] <= SigMax
      BY <1>2, RoboConstantsOK
    <2>2. SigMin..SigMax \subseteq IntMin..IntMax
      BY RoboConstantsOK
    <2> QED
      BY <1>2, <2>1, <2>2, RoboConstantsOK
  <1>3. CASE MayBeAirborne /\ signals' = Decrement(signals)
    <2>1. /\ signals' \in [Motors -> IntMin..IntMax]
          /\ \A m \in Motors : /\ signals'[m] = signals[m] - MotorDec
                               /\ signals'[m] >= SigMin - SigMax - MotorDec
      BY <1>3, DecrementKeepsBounds
    <2>2. \A m \in Motors : signals[m] \in Int
      BY RoboConstantsOK DEF IInv, TypeOK
    <2> QED
      BY <2>1, <2>2, RoboConstantsOK DEF IInv
  <1> QED
    BY <1>1, <1>2, <1>3

-----------------------------------------------------------------------------
LEMMA InvInit == Init => IInv
  <1> SUFFICES ASSUME Init PROVE IInv
    OBVIOUS
  <1>1. TypeOK
    <2>1. /\ loop \in {"run", "clear"} /\ flag_shut_down \in BOOLEAN
          /\ flag_check_delay \in BOOLEAN /\ flag_new_signals \in BOOLEAN
          /\ sensors_enabled \in BOOLEAN
      BY DEF Init
    <2>2. /\ signals \in [Motors -> IntMin..IntMax]
          /\ pwm \in [Motors -> 0..PwmMax]
      BY NoneType DEF Init
    <2>3. wdog_ticks \in 0..(NotifyTicks - 1)
      BY RoboConstantsOK DEF Init
    <2>4. wire \in Seq(Packets)
      <3> DEFINE p == [type |-> "motors", signals |-> None]
      <3>1. p \in Packets
        BY NoneType DEF Packets, PacketTypes
      <3>2. << p >> \in Seq(Packets) /\ << >> \in Seq(Packets)
        BY <3>1
      <3>3. wire = << >> \/ wire = << p >>
        BY DEF Init
      <3> QED
        BY <3>2, <3>3
    <2> QED
      BY <2>1, <2>2, <2>3, <2>4 DEF TypeOK
  <1>2. DecrementsStayBounded /\ SpreadKept /\ NoneAbove
    BY RoboConstantsOK
       DEF Init, None, DecrementsStayBounded, SpreadKept, NoneAbove
  <1>3. LockedMeansOff
    BY DEF Init, LockedMeansOff
  <1> QED
    BY <1>1, <1>2, <1>3 DEF IInv

LEMMA CheckDelayStep == IInv /\ CheckReceiveDelay => IInv'
  <1> SUFFICES ASSUME IInv, CheckReceiveDelay PROVE IInv'
    OBVIOUS
  <1> USE DEF motorVars
  <1>1. CASE flag_new_signals \/ flag_shut_down
    <2>1. UNCHANGED motorVars
      BY <1>1 DEF CheckReceiveDelay, ReduceSignals
    <2>2. wire' \in Seq(Packets)
          /\ sensors_enabled' \in BOOLEAN
          /\ (sensors_enabled' => sensors_enabled)
      BY HeadSignals DEF CheckReceiveDelay, ResetInterface, IInv, TypeOK
    <2>3. TypeOK'
      BY <2>1, <2>2 DEF CheckReceiveDelay, IInv, TypeOK
    <2>4. DecrementsStayBounded' /\ SpreadKept' /\ NoneAbove'
      BY <2>1, BoundsStep
    <2>5. LockedMeansOff'
      BY <2>1, <2>2 DEF CheckReceiveDelay, LockedMeansOff, IInv
    <2> QED
      BY <2>3, <2>4, <2>5 DEF IInv
  <1>2. CASE ~flag_new_signals /\ ~flag_shut_down
    <2>1. /\ signals' = IF MayBeAirborne THEN Decrement(signals) ELSE None
          /\ pwm' = PwmOf(signals')
          /\ ResetInterface /\ sensors_enabled' = FALSE
      BY <1>2 DEF CheckReceiveDelay, ReduceSignals
    <2>2. /\ signals' \in [Motors -> IntMin..IntMax]
          /\ DecrementsStayBounded' /\ SpreadKept' /\ NoneAbove'
      BY <2>1, NoneType, BoundsStep
    <2>3. pwm' \in [Motors -> 0..PwmMax]
      <3>1. signals' \in [Motors -> Int]
        BY <2>2, RoboConstantsOK
      <3> QED
        BY <2>1, <3>1, PwmRange
    <2>4. wire' \in Seq(Packets)
      BY <2>1, HeadSignals DEF ResetInterface, IInv, TypeOK
    <2>5. TypeOK'
      BY <2>1, <2>2, <2>3, <2>4 DEF CheckReceiveDelay, IInv, TypeOK
    <2>6. LockedMeansOff'
      BY <1>2 DEF CheckReceiveDelay, LockedMeansOff
    <2> QED
      BY <2>2, <2>5, <2>6 DEF IInv
  <1> QED
    BY <1>1, <1>2 DEF IInv, TypeOK

LEMMA PacketStep == IInv /\ ProcessPacket => IInv'
  <1> SUFFICES ASSUME IInv, ProcessPacket PROVE IInv'
    OBVIOUS
  <1> USE DEF motorVars, Arrives
  <1>1. CASE ProcessMotorSignals
    <2>1. /\ signals' \in [Motors -> SigMin..SigMax]
          /\ wire' \in Seq(Packets)
      BY <1>1, HeadSignals DEF ProcessMotorSignals, IInv
    <2>2. /\ signals' \in [Motors -> IntMin..IntMax]
          /\ DecrementsStayBounded' /\ SpreadKept' /\ NoneAbove'
      BY <2>1, BoundsStep
    <2>3. pwm' \in [Motors -> 0..PwmMax]
      <3>1. signals' \in [Motors -> Int]
        BY <2>2, RoboConstantsOK
      <3> QED
        BY <1>1, <3>1, PwmRange DEF ProcessMotorSignals, OutputSignals, IInv, TypeOK
    <2>4. TypeOK'
      BY <1>1, <2>1, <2>2, <2>3 DEF ProcessMotorSignals, IInv, TypeOK
    <2>5. LockedMeansOff'
      BY <1>1 DEF ProcessMotorSignals, OutputSignals, LockedMeansOff, IInv
    <2> QED
      BY <2>2, <2>4, <2>5 DEF IInv
  <1>4. CASE ProcessShortSignals \/ ProcessOther
    <2>1. UNCHANGED <<signals, pwm, flag_shut_down, sensors_enabled>>
      BY <1>4 DEF ProcessShortSignals, ProcessOther, roboVars
    <2>2. wire' \in Seq(Packets)
      BY <1>4, HeadSignals DEF ProcessShortSignals, ProcessOther, IInv
    <2>3. UNCHANGED <<loop, flag_check_delay, wdog_ticks>>
          /\ flag_new_signals' \in BOOLEAN
      BY <1>4 DEF ProcessShortSignals, ProcessOther, roboVars, IInv, TypeOK
    <2>4. TypeOK' /\ LockedMeansOff'
      BY <2>1, <2>2, <2>3 DEF IInv, TypeOK, LockedMeansOff
    <2>5. DecrementsStayBounded' /\ SpreadKept' /\ NoneAbove'
      BY <2>1, BoundsStep
    <2> QED
      BY <2>4, <2>5 DEF IInv
  <1>2. CASE ProcessStateSwitch
    <2>1. wire' \in Seq(Packets)
      BY <1>2, HeadSignals DEF ProcessStateSwitch, IInv
    <2>2. TypeOK' /\ LockedMeansOff'
      BY <1>2, <2>1 DEF ProcessStateSwitch, IInv, TypeOK, LockedMeansOff
    <2>3. DecrementsStayBounded' /\ SpreadKept' /\ NoneAbove'
      BY <1>2, BoundsStep DEF ProcessStateSwitch
    <2> QED
      BY <2>2, <2>3 DEF IInv
  <1>3. CASE ProcessShutDown
    <2>1. wire' \in Seq(Packets)
      BY <1>3, HeadSignals DEF ProcessShutDown, IInv
    <2>2. signals' = None /\ pwm' = None /\ sensors_enabled' = FALSE
      BY <1>3 DEF ProcessShutDown, StopMotors, DisableSonar
    <2>3. TypeOK' /\ LockedMeansOff'
      BY <1>3, <2>1, <2>2, NoneType
         DEF ProcessShutDown, IInv, TypeOK, LockedMeansOff
    <2>4. DecrementsStayBounded' /\ SpreadKept' /\ NoneAbove'
      BY <2>2, NoneType, BoundsStep
    <2> QED
      BY <2>3, <2>4 DEF IInv
  <1> QED
    BY <1>1, <1>2, <1>3, <1>4 DEF ProcessPacket

\* The steps that leave the signals, the outputs and the lock alone.
LEMMA OtherStep ==
  ASSUME IInv,
         \/ ClearFlags \/ WdogTick
         \/ PacketSent \/ PacketLost \/ UNCHANGED vars
  PROVE  IInv'
  <1> USE DEF motorVars, roboVars
  <1>1. UNCHANGED <<motorVars, flag_shut_down, sensors_enabled>>
    BY DEF ClearFlags, WdogTick, PacketSent, PacketLost, vars
  <1>2. /\ DecrementsStayBounded' /\ SpreadKept' /\ NoneAbove'
        /\ LockedMeansOff'
    BY <1>1, BoundsStep DEF LockedMeansOff, IInv
  <1>3. TypeOK'
    <2> USE DEF IInv, TypeOK
    <2>1. CASE ClearFlags
      BY <2>1 DEF ClearFlags
    <2>2. CASE WdogTick
      <3>1. wdog_ticks' \in 0..(NotifyTicks - 1) /\ flag_check_delay' \in BOOLEAN
        <4>1. CASE wdog_ticks + 1 >= NotifyTicks
          BY <2>2, <4>1, RoboConstantsOK DEF WdogTick
        <4>2. CASE ~(wdog_ticks + 1 >= NotifyTicks)
          BY <2>2, <4>2, RoboConstantsOK DEF WdogTick
        <4> QED
          BY <4>1, <4>2
      <3> QED
        BY <2>2, <3>1 DEF WdogTick
    <2>3. CASE PacketSent
      <3>1. ASSUME NEW s \in [Motors -> Values]
            PROVE  [type |-> "motors", signals |-> s] \in Packets
        <4>1. s \in [Motors -> SigMin..SigMax]
          BY RoboConstantsOK
        <4> QED
          BY <4>1 DEF Packets, PacketTypes
      <3>2. ASSUME NEW t \in PacketTypes \ {"motors"}
            PROVE  [type |-> t, signals |-> None] \in Packets
        BY NoneType DEF Packets, PacketTypes
      <3>3. PICK p \in Packets : wire' = Append(wire, p)
        <4>1. CASE \E s \in [Motors -> Values] :
                      wire' = Append(wire, [type |-> "motors", signals |-> s])
          BY <3>1, <4>1
        <4>2. CASE \E t \in PacketTypes \ {"motors"} :
                      wire' = Append(wire, [type |-> t, signals |-> None])
          BY <3>2, <4>2
        <4> QED
          BY <2>3, <4>1, <4>2 DEF PacketSent
      <3>4. wire' \in Seq(Packets)
        BY <3>3
      <3> QED
        BY <2>3, <3>4 DEF PacketSent
    <2>4. CASE PacketLost
      BY <2>4, HeadSignals DEF PacketLost
    <2>5. CASE UNCHANGED vars
      BY <2>5 DEF vars
    <2> QED
      BY <2>1, <2>2, <2>3, <2>4, <2>5
  <1> QED
    BY <1>2, <1>3 DEF IInv

LEMMA InvStep == IInv /\ [Next]_vars => IInv'
  BY CheckDelayStep, PacketStep, OtherStep DEF Next, Board, CheckDelay

LEMMA Invariance == Spec => []IInv
  BY InvInit, InvStep, PTL DEF Spec

\* Every variable of the board keeps its type; in particular the outputs stay
\* in the range of the motor controllers whatever the packets say.
THEOREM TypeCorrect == Spec => []TypeOK
  <1>1. IInv => TypeOK
    BY DEF IInv
  <1> QED
    BY <1>1, Invariance, PTL

\* However long the line stays silent, no signal wraps around.
THEOREM NoWrapAround == Spec => []DecrementsStayBounded
  <1>1. IInv => DecrementsStayBounded
    BY DEF IInv
  <1> QED
    BY <1>1, Invariance, PTL

\* A locked board has its outputs at the minimum and the sonar stopped.
THEOREM LockedBoardIsOff == Spec => [](LockedMeansOff /\ SonarOnlyUnlocked)
  <1>1. IInv => LockedMeansOff /\ SonarOnlyUnlocked
    BY DEF IInv, LockedMeansOff, SonarOnlyUnlocked
  <1> QED
    BY <1>1, Invariance, PTL

-----------------------------------------------------------------------------
LEMMA GateInit == Init => Gate!Init
  BY DEF Init, Gate!Init, None, Gate!Off

\* Every step of the board is a step of the gate or leaves it alone: which
\* packet is taken decides which step it is.
LEMMA GateStep == IInv /\ IInv' /\ [Next]_vars => [Gate!Next]_(Gate!gateVars)
  <1> SUFFICES ASSUME IInv, IInv', [Next]_vars
               PROVE  [Gate!Next]_(Gate!gateVars)
    OBVIOUS
  <1> USE DEF Gate!gateVars, Gate!Next, motorVars
  <1>1. pwm' \in [Motors -> 0..PwmMax] /\ Gate!Off = None
    BY DEF IInv, TypeOK, Gate!Off, None
  <1>2. CASE CheckReceiveDelay
    BY <1>1, <1>2 DEF CheckReceiveDelay, ReduceSignals, Gate!Drive, Gate!Traffic
  <1>3. CASE ProcessMotorSignals
    BY <1>1, <1>3 DEF ProcessMotorSignals, OutputSignals, Gate!Drive, Gate!Traffic
  <1>4. CASE ProcessStateSwitch
    <2>1. Gate!Takes("switch")
      BY <1>4 DEF ProcessStateSwitch, Arrives, Gate!Takes
    <2> QED
      BY <1>4, <2>1 DEF ProcessStateSwitch, Gate!Arm
  <1>5. CASE ProcessShutDown
    <2>1. Gate!Takes("shutdown")
      BY <1>5 DEF ProcessShutDown, Arrives, Gate!Takes
    <2> QED
      BY <1>1, <1>5, <2>1 DEF ProcessShutDown, StopMotors, Gate!Disarm
  <1>6. CASE \/ ProcessShortSignals \/ ProcessOther \/ ClearFlags \/ WdogTick
             \/ PacketSent \/ PacketLost \/ UNCHANGED vars
    BY <1>6 DEF ProcessShortSignals, ProcessOther, ClearFlags, WdogTick,
       PacketSent, PacketLost, vars, roboVars, Gate!Traffic
  <1> QED
    BY <1>2, <1>3, <1>4, <1>5, <1>6
       DEF Next, Board, CheckDelay, ProcessPacket

\* The board implements the gate: only taking a state switch from the line
\* unlocks it, only taking a shut-down locks it and takes the outputs to the
\* minimum in the same step, and the outputs move only while it is unlocked
\* (process_data_packet and check_receive_delay).
THEOREM BoardImplementsGate == Spec => ImplementsGate
  BY GateInit, GateStep, Invariance, PTL DEF Spec, Gate!Spec, ImplementsGate
=============================================================================
