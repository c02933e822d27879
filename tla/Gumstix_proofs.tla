----------------------------- MODULE Gumstix_proofs -----------------------------
(***************************************************************************)
(* What MCGumstix checks of the parts of the Gumstix programs on small     *)
(* instances, for all values of their constants.  One section per part     *)
(* gives its inductive invariant, that the part keeps it, and what it      *)
(* promises; the theorems are at the end.                                  *)
(***************************************************************************)
EXTENDS MCGumstix, WellFoundedInduction, FiniteSetTheorems, SequenceTheorems, TLAPS

-----------------------------------------------------------------------------
(***************************************************************************)
(* LoopTiming.  The count of iterations alone is not inductive: what bounds *)
(* it is that every iteration moves the clock of the loop on by a period,  *)
(* while the loop sleeps off whatever it is ahead.                         *)
(***************************************************************************)
\* Types, the balance of counted iterations and time, and its consequence.
TimingInv == TypeOK /\ CountIsPaidFor /\ AliveIsNotBroken

\* The part of the assumption without a product.
LEMMA TimingConstants ==
  /\ Period \in Nat \ {0} /\ Interval \in Nat \ {0}
  /\ MaxBehind \in Nat /\ MaxLate \in Nat /\ Threshold \in Nat
BY TimingAssumption

\* The balance bounds the count as long as the loop is not ahead by more than a
\* period, and nothing came for no longer than the interval.
LEMMA BalanceBoundsCount ==
  ASSUME NEW d \in Nat, d * Period <= Period + MaxBehind + Interval
  PROVE  d <= Threshold
<1>1. d * Period <= Threshold * Period
  BY TimingAssumption
<1>2. SUFFICES ASSUME d >= Threshold + 1 PROVE FALSE
  BY TimingAssumption
<1>3. PICK k \in Nat : d = Threshold + 1 + k
  <2>1. d - Threshold - 1 \in Nat /\ d = Threshold + 1 + (d - Threshold - 1)
    BY <1>2, TimingAssumption
  <2> QED BY <2>1
<1>4. d * Period = Threshold * Period + Period + k * Period
  BY <1>3, TimingAssumption
<1>5. k * Period >= 0 /\ Threshold * Period \in Nat
  BY <1>3, TimingAssumption
<1> QED BY <1>1, <1>4, <1>5, TimingAssumption

\* One more iteration is one more period.
LEMMA OneMore ==
  ASSUME NEW d \in Nat
  PROVE  (d + 1) * Period = d * Period + Period
BY TimingAssumption

LEMMA TimingInit == Init => TimingInv
<1> SUFFICES ASSUME Init PROVE TimingInv
  OBVIOUS
<1> USE DEF Init, TimingInv
<1>1. TypeOK
  <2>1. new_command_data \in BOOLEAN /\ gone \in BOOLEAN /\ late \in BOOLEAN
    BY Zenon
  <2>2. /\ lead \in (-MaxLate)..Period /\ sinceSent \in 0..Interval
        /\ command_data_delay \in 0..(Threshold + 1)
    BY TimingConstants
  <2> QED BY <2>1, <2>2 DEF TypeOK
<1>2. CountIsPaidFor
  <2>1. Counted = 1
    BY DEF Counted
  <2>2. 1 * Period = Period /\ Period <= Period + MaxBehind + 0
    BY TimingConstants
  <2> QED BY <2>1, <2>2, TimingConstants DEF CountIsPaidFor
<1>3. AliveIsNotBroken
  BY TimingConstants DEF AliveIsNotBroken
<1> QED BY <1>1, <1>2, <1>3

LEMMA TimingStep == TimingInv /\ [Next]_vars => TimingInv'
<1> SUFFICES ASSUME TimingInv, [Next]_vars PROVE TimingInv'
  OBVIOUS
<1> USE DEF TimingInv, TypeOK, CountIsPaidFor, AliveIsNotBroken, Counted
<1>1. CASE Tick
  BY <1>1, TimingConstants DEF Tick
<1>2. CASE Send
  BY <1>2, TimingConstants DEF Send
<1>3. CASE TerminalLeaves
  BY <1>3, TimingConstants DEF TerminalLeaves
<1>4. CASE CheckTerminal
  <2>1. TypeOK'
    <3>1. new_command_data' \in BOOLEAN /\ gone' \in BOOLEAN /\ late' \in BOOLEAN
      <4>1. (lead < -MaxBehind) \in BOOLEAN
        BY TimingConstants, SMT
      <4> QED BY <1>4, <4>1, Zenon DEF CheckTerminal
    <3>2. command_data_delay' \in 0..(Threshold + 1)
      BY <1>4, TimingConstants DEF CheckTerminal, NextDelay
    <3>3. /\ lead' = lead /\ sinceSent' = sinceSent
          /\ step' = "control"
      BY <1>4 DEF CheckTerminal
    <3> HIDE DEF AliveIsNotBroken, CountIsPaidFor
    <3> QED BY <3>1, <3>2, <3>3
  <2>2. CASE new_command_data
    <3>1. command_data_delay' = 0 /\ step' = "control" /\ lead' = lead
          /\ sinceSent' = sinceSent
      BY <1>4, <2>2 DEF CheckTerminal, NextDelay
    <3>2. late' = (lead < -MaxBehind)
      BY <1>4, <2>2, Zenon DEF CheckTerminal
    <3>3. ~late' => lead >= -MaxBehind
      <4>1. CASE lead < -MaxBehind
        BY <4>1, <3>2, Zenon
      <4>2. CASE ~(lead < -MaxBehind)
        BY <4>2, TimingConstants
      <4> QED BY <4>1, <4>2
    <3>4. Counted' = 0 /\ 0 * Period = 0
      BY <3>1, TimingConstants
    <3>5. CountIsPaidFor'
      BY <3>1, <3>3, <3>4, TimingConstants
    <3>6. AliveIsNotBroken'
      BY <3>1, TimingConstants
    <3> QED BY <2>1, <3>5, <3>6
  <2>3. CASE ~new_command_data /\ (gone \/ late)
    BY <1>4, <2>1, <2>3 DEF CheckTerminal
  <2>4. CASE ~new_command_data /\ ~gone /\ ~late
    <3>1. (command_data_delay + 1) * Period <= lead + MaxBehind + sinceSent
      BY <1>4, <2>4 DEF CheckTerminal
    <3>2. command_data_delay + 1 <= Threshold
      <4>1. lead + MaxBehind + sinceSent <= Period + MaxBehind + Interval
        BY TimingConstants
      <4>2. /\ command_data_delay + 1 \in Nat
            /\ (command_data_delay + 1) * Period <= Period + MaxBehind + Interval
        BY <3>1, <4>1, TimingConstants
      <4> QED BY <4>2, BalanceBoundsCount
    <3>3. command_data_delay' = command_data_delay + 1
      BY <1>4, <2>4, <3>2, TimingConstants DEF CheckTerminal, NextDelay
    <3> QED BY <1>4, <2>1, <2>4, <3>1, <3>2, <3>3, TimingConstants DEF CheckTerminal
  <2> QED BY <2>2, <2>3, <2>4
<1>5. CASE EndIteration
  BY <1>5 DEF EndIteration
<1>6. CASE NextPeriod
  <2>1. TypeOK'
    BY <1>6, TimingConstants DEF NextPeriod, Moved
  <2>2. (command_data_delay + 1) * Period = command_data_delay * Period + Period
    BY OneMore
  <2>3. ~gone /\ ~late /\ ~new_command_data
          => command_data_delay * Period <= lead + MaxBehind + sinceSent
    BY <1>6 DEF NextPeriod
  <2>4. ~gone /\ ~late /\ ~new_command_data
          => (command_data_delay + 1) * Period <= lead + Period + MaxBehind + sinceSent
    <3>1. command_data_delay * Period \in Nat
      BY TimingConstants
    <3> QED BY <2>2, <2>3, <3>1, TimingConstants
  <2>5. CountIsPaidFor'
    BY <1>6, <2>4 DEF NextPeriod, Moved
  <2>6. AliveIsNotBroken'
    BY <1>6 DEF NextPeriod
  <2> QED BY <2>1, <2>5, <2>6
<1>7. CASE UNCHANGED vars
  BY <1>7 DEF vars
<1> QED BY <1>1, <1>2, <1>3, <1>4, <1>5, <1>6, <1>7 DEF Next, Loop

-----------------------------------------------------------------------------
(***************************************************************************)
(* Heading.  What the controllers get is not inductive: the winding number *)
(* is right because the wrapped yaw of the last iteration, less the offset, *)
(* is kept beside it.                                                      *)
(***************************************************************************)
LEMMA HeadingConstants == Half \in Nat \ {0} /\ MaxSpin \in 0..(Half - 1) /\ Bound \in Nat
BY GumstixConstantsOK DEF H!HeadingConstantsOK

\* Wrapping takes whole turns off an angle, and leaves less than half a turn
\* either way.
LEMMA WrapTakesTurns ==
  ASSUME NEW a \in Int
  PROVE  /\ H!Wrap(a) \in H!Wrapped
         /\ \E k \in Int : H!Wrap(a) = a - k * H!Turn
<1>1. Half \in Nat /\ Half >= 1 /\ H!Turn \in Nat /\ H!Turn >= 1
  BY HeadingConstants DEF H!Turn
<1> DEFINE q == (a + Half) \div H!Turn
<1> DEFINE r == (a + Half) % H!Turn
<1>2. q \in Int /\ r \in Int /\ 0 <= r /\ r < H!Turn /\ a + Half = q * H!Turn + r
  BY <1>1, Z3
<1>3. H!Wrap(a) = a - q * H!Turn
  BY <1>1, <1>2 DEF H!Wrap
<1>4. H!Wrap(a) \in H!Wrapped
  BY <1>1, <1>2 DEF H!Wrap, H!Wrapped, H!Turn
<1> QED BY <1>2, <1>3, <1>4

\* The winding number makes up for the jump of the wrapped angle, if the angle
\* itself moved by less than half a turn.
LEMMA WindingMakesUp ==
  ASSUME NEW t \in Int, NEW u \in Int,
         NEW spin \in -MaxSpin..MaxSpin, u = t + spin,
         NEW o \in Int, NEW wn \in Int, NEW last \in Int, NEW scaled \in Int,
         last = H!Wrap(t) - o, scaled = H!Wrap(u) - o
  PROVE  LET new == H!Winding(wn, last, scaled)
         IN new \in Int /\ scaled + new * H!Turn = last + wn * H!Turn + spin
<1> DEFINE new == H!Winding(wn, last, scaled)
<1>1. /\ Half \in Nat /\ Half >= 1 /\ MaxSpin \in Nat /\ MaxSpin < Half
      /\ spin \in Int /\ spin < Half /\ -Half < spin
  BY HeadingConstants
<1>2. PICK k \in Int : H!Wrap(t) = t - k * H!Turn
  BY WrapTakesTurns
<1>3. PICK l \in Int : H!Wrap(u) = u - l * H!Turn
  BY <1>1, WrapTakesTurns
<1>4. H!Wrap(t) \in H!Wrapped /\ H!Wrap(u) \in H!Wrapped
  BY <1>1, WrapTakesTurns
<1>5. /\ H!Wrap(t) \in Int /\ H!Wrap(u) \in Int
      /\ H!Wrap(u) - H!Wrap(t) < H!Turn /\ -H!Turn < H!Wrap(u) - H!Wrap(t)
  BY <1>1, <1>4 DEF H!Wrapped, H!Turn
<1> DEFINE j == l - k
<1>6. j \in Int /\ H!Wrap(u) - H!Wrap(t) = spin - j * H!Turn
  <2>1. (l - k) * H!Turn = l * H!Turn - k * H!Turn
    BY <1>1 DEF H!Turn
  <2>2. l * H!Turn \in Int /\ k * H!Turn \in Int
    BY <1>1 DEF H!Turn
  <2> QED BY <1>1, <1>2, <1>3, <2>1, <2>2
<1>7. j \in {-1, 0, 1}
  <2>1. CASE j >= 2
    <3>1. j * H!Turn >= 2 * H!Turn
      BY <1>1, <1>6, <2>1 DEF H!Turn
    <3> QED BY <1>1, <1>5, <1>6, <3>1 DEF H!Turn
  <2>2. CASE j <= -2
    <3>1. j * H!Turn <= -2 * H!Turn
      BY <1>1, <1>6, <2>2 DEF H!Turn
    <3> QED BY <1>1, <1>5, <1>6, <3>1 DEF H!Turn
  <2> QED BY <1>6, <2>1, <2>2
<1>8. last - scaled = j * H!Turn - spin /\ last \in Int /\ scaled \in Int
  <2>1. j * H!Turn \in Int
    BY <1>1, <1>6 DEF H!Turn
  <2>2. last - scaled = H!Wrap(t) - H!Wrap(u)
    BY <1>5
  <2> HIDE DEF j
  <2> QED BY <1>1, <1>5, <1>6, <2>1, <2>2
<1>9. new = wn + j
  BY <1>1, <1>7, <1>8 DEF H!Winding, H!Turn
<1>10. (wn + j) * H!Turn = wn * H!Turn + j * H!Turn
  BY <1>1, <1>6 DEF H!Turn
<1>11. wn * H!Turn \in Int /\ j * H!Turn \in Int
  BY <1>1, <1>6 DEF H!Turn
<1>12. scaled + new * H!Turn = last + wn * H!Turn + spin
  BY <1>1, <1>8, <1>9, <1>10, <1>11
<1> QED BY <1>6, <1>9, <1>12

\* Of two wrapped angles the winding takes the shorter way from one to the
\* other.
LEMMA WindingIsShort ==
  ASSUME NEW last \in H!Wrapped, NEW yaw \in H!Wrapped,
         NEW wn \in Int
  PROVE  LET new == H!Winding(wn, last, yaw)
         IN /\ new \in Int
            /\ (yaw + new * H!Turn) - (last + wn * H!Turn) \in -Half..Half
<1> DEFINE new == H!Winding(wn, last, yaw)
<1>1. /\ Half \in Nat /\ Half >= 1 /\ last \in Int /\ yaw \in Int
      /\ -Half <= last /\ last < Half /\ -Half <= yaw /\ yaw < Half
  BY HeadingConstants DEF H!Wrapped
<1>2. /\ wn * H!Turn \in Int /\ H!Turn = 2 * Half
      /\ (wn + 1) * H!Turn = wn * H!Turn + H!Turn
      /\ (wn - 1) * H!Turn = wn * H!Turn - H!Turn
  BY <1>1 DEF H!Turn
<1>3. new \in Int
  BY DEF H!Winding
<1>4. CASE last - yaw < -Half
  <2>1. new = wn - 1
    BY <1>4 DEF H!Winding
  <2> QED BY <1>1, <1>2, <1>3, <1>4, <2>1
<1>5. CASE last - yaw > Half
  <2>1. new = wn + 1
    BY <1>1, <1>5 DEF H!Winding
  <2> QED BY <1>1, <1>2, <1>3, <1>5, <2>1
<1>6. CASE -Half <= last - yaw /\ last - yaw <= Half
  <2>1. new = wn
    BY <1>1, <1>6 DEF H!Winding
  <2> QED BY <1>1, <1>2, <1>3, <1>6, <2>1
<1> QED BY <1>1, <1>4, <1>5, <1>6

\* What the controllers get is not inductive: the winding number is right because the
\* wrapped yaw of the last iteration, less the offset, is kept beside it.  Tracks says so;
\* it holds from the first zero adjustment on.
Tracks ==
  /\ data_offset_yaw = H!Wrap(settled_yaw)
  /\ last_scaled_yaw = H!Wrap(true_yaw) - H!Wrap(settled_yaw)
  /\ last_scaled_yaw + yaw_wn_imu * H!Turn = true_yaw - settled_yaw

\* Before the first zero adjustment: still shut down until an iteration has begun, and
\* settled.
NotYetAdjusted ==
  /\ yaw_heli_settled
  /\ yaw_next # "act"
  /\ yaw_next = "get_command_data" => yaw_heli_state = "shutdown"

\* In flight the command can be unwound.
CommandUnwinds ==
  yaw_next # "get_command_data" /\ yaw_heli_state = "flying"
    => command_yaw - yaw_wn_cmd * H!Turn \in H!Range

HeadingInv ==
  H!TypeOK /\ (Tracks \/ NotYetAdjusted) /\ H!HeadingFollowsTruth /\ CommandUnwinds

LEMMA HeadingInit == H!Init => HeadingInv
<1> SUFFICES ASSUME H!Init PROVE HeadingInv
  OBVIOUS
<1> USE DEF H!Init
<1>1. H!TypeOK
  <2>1. true_yaw \in Int /\ 0 \in H!Wrapped /\ 0 \in H!Range /\ 0 \in (1 - H!Turn)..(H!Turn - 1)
    BY HeadingConstants DEF H!Wrapped, H!Range, H!Turn
  <2>2. yaw_heli_settled \in BOOLEAN
    BY Zenon
  <2> QED BY <2>1, <2>2 DEF H!TypeOK
<1>2. NotYetAdjusted /\ H!HeadingFollowsTruth /\ CommandUnwinds
  BY DEF NotYetAdjusted, H!HeadingFollowsTruth, CommandUnwinds
<1> QED BY <1>1, <1>2 DEF HeadingInv

\* The one step that moves the heading: it adjusts the zero, or follows.
LEMMA PrepareStep == ASSUME HeadingInv, H!PrepareSensorData PROVE HeadingInv'
<1>0. H!TypeOK /\ (Tracks \/ NotYetAdjusted) /\ CommandUnwinds
  BY DEF HeadingInv
<1>1. PICK spin \in -MaxSpin..MaxSpin : true_yaw' = true_yaw + spin
  BY DEF H!PrepareSensorData
<1>2. /\ spin \in Int /\ true_yaw \in Int /\ true_yaw' \in Int /\ settled_yaw \in Int
      /\ H!Turn \in Nat /\ yaw_wn_imu \in Int /\ data_offset_yaw \in H!Wrapped
  BY <1>0, <1>1, HeadingConstants DEF H!TypeOK, H!Turn
<1>3. /\ yaw_next = "prepare_sensor_data" /\ yaw_next' = "act"
      /\ yaw_heli_settled' = yaw_heli_settled /\ yaw_heli_state' = yaw_heli_state
      /\ UNCHANGED <<last_command_yaw, yaw_wn_cmd, command_yaw, iir_cmd_yaw>>
  BY DEF H!PrepareSensorData, H!cmdVars
<1>4. /\ H!Wrap(true_yaw') \in H!Wrapped /\ H!Wrap(true_yaw') \in Int
      /\ data_offset_yaw \in Int
      /\ H!Wrap(true_yaw') - data_offset_yaw \in (1 - H!Turn)..(H!Turn - 1)
  <2>1. H!Wrap(true_yaw') \in H!Wrapped
    BY <1>2, WrapTakesTurns
  <2> QED BY <1>2, <2>1, HeadingConstants DEF H!Wrapped, H!Turn
<1>5. H!TypeOK' <=> /\ data_offset_yaw' \in H!Wrapped /\ yaw_wn_imu' \in Int
                    /\ last_scaled_yaw' \in (1 - H!Turn)..(H!Turn - 1)
                    /\ sensor_yaw' \in Int /\ settled_yaw' \in Int
  BY <1>0, <1>2, <1>3 DEF H!TypeOK, H!Wrapped, H!Range, H!Turn
<1>6. CommandUnwinds'
  BY <1>0, <1>3 DEF CommandUnwinds, H!Turn, H!Range
<1>7. CASE yaw_heli_settled
  <2>1. H!ZeroAdjust(H!Wrap(true_yaw')) /\ settled_yaw' = true_yaw'
    BY <1>7 DEF H!PrepareSensorData
  <2>2. /\ data_offset_yaw' = H!Wrap(true_yaw') /\ last_scaled_yaw' = 0
        /\ yaw_wn_imu' = 0 /\ sensor_yaw' = 0
    BY <2>1 DEF H!ZeroAdjust
  <2>3. H!TypeOK'
    BY <1>2, <1>4, <1>5, <2>1, <2>2, HeadingConstants DEF H!Turn
  <2>4. 0 * H!Turn = 0
    BY <1>2
  <2>5. H!Wrap(settled_yaw)' = H!Wrap(true_yaw')
    BY <2>1 DEF H!Wrap, H!Turn
  <2>6. Tracks'
    BY <1>2, <1>4, <2>1, <2>2, <2>4, <2>5 DEF Tracks, H!Wrap, H!Turn
  <2>7. H!HeadingFollowsTruth'
    <3>1. true_yaw' - true_yaw' = 0
      <4>1. \A n \in Int : n - n = 0
        OBVIOUS
      <4> QED BY <1>2, <4>1
    <3>2. sensor_yaw' = true_yaw' - settled_yaw'
      BY <2>1, <2>2, <3>1
    <3> QED BY <3>2, Zenon DEF H!HeadingFollowsTruth
  <2> QED BY <1>6, <2>3, <2>6, <2>7 DEF HeadingInv
<1>8. CASE ~yaw_heli_settled
  <2> DEFINE o      == H!Wrap(settled_yaw)
             scaled == H!Wrap(true_yaw') - o
             new    == H!Winding(yaw_wn_imu, last_scaled_yaw, scaled)
  <2>1. H!FollowYaw(H!Wrap(true_yaw')) /\ settled_yaw' = settled_yaw
    BY <1>8 DEF H!PrepareSensorData
  <2>2. Tracks
    BY <1>0, <1>8 DEF NotYetAdjusted
  <2>3. o \in Int /\ last_scaled_yaw = H!Wrap(true_yaw) - o /\ data_offset_yaw = o
    BY <1>4, <2>2 DEF Tracks
  <2>4. new \in Int /\ scaled + new * H!Turn = last_scaled_yaw + yaw_wn_imu * H!Turn + spin
    <3>1. /\ true_yaw \in Int /\ true_yaw' \in Int /\ true_yaw' = true_yaw + spin
          /\ spin \in -MaxSpin..MaxSpin /\ yaw_wn_imu \in Int
      BY <1>1, <1>2
    <3>2. /\ scaled = H!Wrap(true_yaw') - o /\ scaled \in Int
          /\ last_scaled_yaw \in Int
      BY <1>0, <1>4, <2>3 DEF H!TypeOK
    <3> HIDE DEF o, scaled
    <3> QED BY <2>3, <3>1, <3>2, WindingMakesUp
  <2>5. scaled + new * H!Turn = true_yaw' - settled_yaw
    <3>1. last_scaled_yaw + yaw_wn_imu * H!Turn = true_yaw - settled_yaw
      BY <2>2 DEF Tracks
    <3> HIDE DEF o, scaled, new
    <3> QED BY <1>1, <1>2, <2>4, <3>1
  <2>6. /\ yaw_wn_imu' = new /\ last_scaled_yaw' = scaled
        /\ sensor_yaw' = scaled + new * H!Turn
        /\ data_offset_yaw' = data_offset_yaw
    BY <2>1, <2>3 DEF H!FollowYaw
  <2>7. H!TypeOK'
    <3>1. sensor_yaw' \in Int
      BY <1>2, <2>5, <2>6
    <3> QED BY <1>2, <1>4, <1>5, <2>1, <2>3, <2>4, <2>6, <3>1
  <2>8. H!Wrap(settled_yaw)' = o
    BY <2>1 DEF H!Wrap, H!Turn
  <2>9. Tracks'
    BY <2>1, <2>3, <2>5, <2>6, <2>8 DEF Tracks, H!Turn
  <2>10. H!HeadingFollowsTruth'
    BY <2>1, <2>5, <2>6 DEF H!HeadingFollowsTruth
  <2> QED BY <1>6, <2>7, <2>9, <2>10 DEF HeadingInv
<1> QED BY <1>7, <1>8

\* A filter moves within the range of its value and its update.
LEMMA FilterStays ==
  ASSUME NEW v \in H!Range, NEW u \in H!Range, NEW w \in H!Filtered(v, u)
  PROVE  w \in H!Range
BY HeadingConstants DEF H!Range, H!Filtered

\* get_command_data: the command can be unwound afterwards, and a fresh one does not ask
\* for more than half a turn.
LEMMA CommandStep ==
  ASSUME HeadingInv, H!ShutDown \/ H!SwitchState \/ H!TakeCommandData \/ H!NoCommandData
  PROVE  HeadingInv' /\ (~yaw_heli_settled => H!Target' - H!Target \in -Half..Half)
<1>0. H!TypeOK /\ (Tracks \/ NotYetAdjusted)
  BY DEF HeadingInv
<1>1. /\ yaw_next = "get_command_data" /\ yaw_next' = "prepare_sensor_data"
      /\ UNCHANGED <<data_offset_yaw, last_scaled_yaw, yaw_wn_imu, sensor_yaw, true_yaw,
                     settled_yaw>>
      /\ H!CommandInBounds
  BY DEF H!ShutDown, H!SwitchState, H!TakeCommandData, H!NoCommandData, H!GetCommandData,
         H!imuVars
<1>2. /\ yaw_heli_state' \in {"ground", "flying", "shutdown"}
      /\ yaw_heli_settled' \in BOOLEAN
      /\ yaw_heli_state = "shutdown" => yaw_heli_settled' = yaw_heli_settled
  BY <1>0, Zenon DEF H!TypeOK, H!ShutDown, H!SwitchState, H!TakeCommandData, H!NoCommandData
<1>3. CommandUnwinds'
  BY <1>1 DEF CommandUnwinds, H!CommandInBounds, H!Turn, H!Range
<1>4. H!HeadingFollowsTruth' /\ (Tracks \/ NotYetAdjusted)'
  <2>1. Tracks => Tracks'
    BY <1>1 DEF Tracks, H!Wrap, H!Turn
  <2>2. NotYetAdjusted => NotYetAdjusted'
    BY <1>1, <1>2, Zenon DEF NotYetAdjusted
  <2> QED BY <1>0, <1>1, <2>1, <2>2 DEF H!HeadingFollowsTruth
<1>5. H!TypeOK' <=> /\ last_command_yaw' \in H!Wrapped /\ yaw_wn_cmd' \in Int
                    /\ command_yaw' \in H!Range /\ iir_cmd_yaw' \in H!Range
  BY <1>0, <1>1, <1>2, Zenon DEF H!TypeOK, H!Wrapped, H!Range, H!Turn
<1>6. CASE UNCHANGED <<last_command_yaw, yaw_wn_cmd, command_yaw, iir_cmd_yaw>>
  <2>1. H!TypeOK'
    BY <1>0, <1>5, <1>6 DEF H!TypeOK
  <2>2. H!Target' = H!Target
    BY <1>6 DEF H!Target, H!Turn
  <2>3. H!Target \in Int /\ Half \in Nat
    BY <1>0, HeadingConstants DEF H!TypeOK, H!Target, H!Wrapped, H!Turn
  <2> QED BY <1>3, <1>4, <2>1, <2>2, <2>3 DEF HeadingInv
<1>7. CASE H!TakeCommandData
  <2>1. PICK yaw \in H!Wrapped :
          /\ yaw_wn_cmd' = IF yaw_heli_settled THEN 0
                           ELSE H!Winding(yaw_wn_cmd, last_command_yaw, yaw)
          /\ last_command_yaw' = yaw
          /\ yaw + yaw_wn_cmd' * H!Turn \in H!Range
          /\ iir_cmd_yaw' \in H!Filtered(iir_cmd_yaw, yaw + yaw_wn_cmd' * H!Turn)
          /\ command_yaw' = iir_cmd_yaw'
    BY <1>7 DEF H!TakeCommandData
  <2> DEFINE new == H!Winding(yaw_wn_cmd, last_command_yaw, yaw)
  <2>2. /\ new \in Int
        /\ (yaw + new * H!Turn) - (last_command_yaw + yaw_wn_cmd * H!Turn)
             \in -Half..Half
    BY <1>0, WindingIsShort DEF H!TypeOK
  <2>3. iir_cmd_yaw \in H!Range
    BY <1>0 DEF H!TypeOK
  <2>4. iir_cmd_yaw' \in H!Range
    BY <2>1, <2>3, FilterStays
  <2>5. H!TypeOK'
    <3> HIDE DEF new
    <3>1. yaw_wn_cmd' \in Int
      BY <2>1, <2>2 DEF new
    <3> QED BY <1>5, <2>1, <2>4, <3>1
  <2>6. ~yaw_heli_settled => H!Target' = yaw + new * H!Turn
    BY <2>1 DEF H!Target, H!Turn
  <2>7. ~yaw_heli_settled => H!Target' - H!Target \in -Half..Half
    BY <2>2, <2>6 DEF H!Target
  <2> QED BY <1>3, <1>4, <2>5, <2>7 DEF HeadingInv
<1> QED BY <1>6, <1>7 DEF H!ShutDown, H!SwitchState, H!NoCommandData, H!cmdVars

\* The rest of an iteration leaves the command alone, but for unwinding it in flight.
LEMMA OtherStep ==
  ASSUME HeadingInv,
         H!TerminalBroken \/ H!ComputeMotorSignals \/ H!StayDown \/ UNCHANGED H!vars
  PROVE  HeadingInv'
<1>0. /\ H!TypeOK /\ (Tracks \/ NotYetAdjusted) /\ H!HeadingFollowsTruth /\ CommandUnwinds
  BY DEF HeadingInv
<1>1. UNCHANGED <<data_offset_yaw, last_scaled_yaw, yaw_wn_imu, true_yaw, settled_yaw,
                  last_command_yaw, yaw_wn_cmd, iir_cmd_yaw>>
  BY DEF H!TerminalBroken, H!ComputeMotorSignals, H!StayDown, H!vars, H!imuVars, H!cmdVars
<1>2. Tracks => Tracks'
  BY <1>1 DEF Tracks, H!Wrap, H!Turn
<1>3. CASE H!ComputeMotorSignals
  <2>1. /\ yaw_next = "act" /\ yaw_heli_state = "flying" /\ yaw_next' = "get_command_data"
        /\ sensor_yaw' = sensor_yaw - yaw_wn_imu * H!Turn
        /\ command_yaw' = command_yaw - yaw_wn_cmd * H!Turn
        /\ UNCHANGED <<yaw_heli_state, yaw_heli_settled>>
    BY <1>3 DEF H!ComputeMotorSignals
  <2>2. Tracks' /\ CommandUnwinds' /\ H!HeadingFollowsTruth'
    BY <1>0, <1>2, <2>1 DEF NotYetAdjusted, CommandUnwinds, H!HeadingFollowsTruth
  <2>3. sensor_yaw' \in Int /\ command_yaw' \in H!Range
    <3>1. sensor_yaw \in Int /\ yaw_wn_imu * H!Turn \in Int
      BY <1>0, HeadingConstants DEF H!TypeOK, H!Turn
    <3> QED BY <1>0, <2>1, <3>1 DEF CommandUnwinds
  <2>4. H!TypeOK'
    BY <1>0, <1>1, <2>1, <2>3 DEF H!TypeOK, H!Wrapped, H!Range, H!Turn
  <2> QED BY <2>2, <2>4 DEF HeadingInv
<1>4. CASE H!TerminalBroken \/ H!StayDown \/ UNCHANGED H!vars
  <2>1. UNCHANGED <<sensor_yaw, command_yaw>>
    BY <1>4 DEF H!TerminalBroken, H!StayDown, H!vars, H!imuVars, H!cmdVars
  <2>2. yaw_heli_settled' \in BOOLEAN
    BY <1>0, <1>4, Zenon DEF H!TypeOK, H!TerminalBroken, H!StayDown, H!vars
  <2>3. /\ yaw_next' \in {"get_command_data", "prepare_sensor_data", "act"}
        /\ yaw_heli_state' \in {"ground", "flying", "shutdown"}
        /\ yaw_next' = yaw_next \/ yaw_next' = "get_command_data"
        /\ yaw_heli_state' = yaw_heli_state \/ yaw_heli_state' = "shutdown"
    BY <1>0, <1>4 DEF H!TypeOK, H!TerminalBroken, H!StayDown, H!vars
  <2>4. H!TypeOK'
    BY <1>0, <1>1, <2>1, <2>2, <2>3 DEF H!TypeOK, H!Wrapped, H!Range, H!Turn
  <2>5. CommandUnwinds' /\ H!HeadingFollowsTruth'
    BY <1>0, <1>1, <2>1, <2>3
       DEF CommandUnwinds, H!HeadingFollowsTruth, H!Turn, H!Range
  <2>6. NotYetAdjusted => NotYetAdjusted'
    <3>1. \/ yaw_next = "act"
          \/ /\ yaw_next' = yaw_next /\ yaw_heli_settled' = yaw_heli_settled
             /\ yaw_heli_state' = yaw_heli_state \/ yaw_heli_state' = "shutdown"
      BY <1>4 DEF H!TerminalBroken, H!StayDown, H!vars
    <3> QED BY <3>1, Zenon DEF NotYetAdjusted
  <2> QED BY <1>0, <1>2, <2>4, <2>5, <2>6 DEF HeadingInv
<1> QED BY <1>3, <1>4

\* What Next does with the heading and the command, step by step.
LEMMA HeadingStep ==
  ASSUME HeadingInv, H!Next \/ UNCHANGED H!vars
  PROVE  HeadingInv' /\ [~yaw_heli_settled => H!Target' - H!Target \in -Half..Half]_(H!vars)
<1>1. HeadingInv'
  BY PrepareStep, CommandStep, OtherStep DEF H!Next
<1>2. CASE H!ShutDown \/ H!SwitchState \/ H!TakeCommandData \/ H!NoCommandData
  BY <1>1, <1>2, CommandStep
<1>3. CASE UNCHANGED H!vars
  BY <1>1, <1>3
<1>4. CASE H!PrepareSensorData \/ H!TerminalBroken \/ H!ComputeMotorSignals \/ H!StayDown
  <2>1. UNCHANGED <<last_command_yaw, yaw_wn_cmd>>
    BY <1>4 DEF H!PrepareSensorData, H!TerminalBroken, H!ComputeMotorSignals, H!StayDown,
                H!cmdVars
  <2>2. H!Target' = H!Target
    BY <2>1 DEF H!Target, H!Turn
  <2>3. H!Target \in Int /\ Half \in Nat
    BY HeadingConstants DEF HeadingInv, H!TypeOK, H!Target, H!Wrapped, H!Turn
  <2> QED BY <1>1, <2>2, <2>3
<1> QED BY <1>2, <1>3, <1>4 DEF H!Next

-----------------------------------------------------------------------------
(***************************************************************************)
(* Filters.  What the buffers hold follows from the updates there were:    *)
(* the one of the median filter is in order and has as many copies of a    *)
(* value as updates of it came last, the one of the average filter has the *)
(* last updates from its index backwards, and a value that is far from the *)
(* one taken was turned down as often as it came.                          *)
(***************************************************************************)
LEMMA FilterConstants ==
  /\ Values \subseteq Nat /\ MedSize \in Nat \ {0} /\ AvgSize \in Nat \ {0}
  /\ Limit \in Nat \ {0}
BY GumstixConstantsOK DEF F!FilterConstantsOK

LEMMA MoreFilterConstants == MDiff \in Nat /\ Scale \in Nat /\ FirGain \in 0..Scale
BY GumstixConstantsOK DEF F!FilterConstantsOK

\* Every set of numbers that is not empty has a least one, and F!Min is it.
LEMMA MinIsLeast ==
  ASSUME NEW S, S \subseteq Nat, S # {}
  PROVE  F!Min(S) \in S /\ \A y \in S : F!Min(S) <= y
<1> DEFINE R == OpToRel(<, Nat)
<1>1. IsWellFoundedOn(R, Nat)
  BY NatLessThanWellFounded, Zenon
<1>2. R = {p \in Nat \X Nat : p[1] < p[2]}
  BY DEF OpToRel
<1> HIDE DEF R
<1>3. PICK x \in S : \A y \in S : ~(<<y, x>> \in R)
  BY <1>1, WFMin, Zenon
<1>4. \A y \in S : x <= y
  <2> SUFFICES ASSUME NEW y \in S, y < x PROVE FALSE
    OBVIOUS
  <2>1. <<y, x>> \in Nat \X Nat /\ <<y, x>>[1] < <<y, x>>[2]
    OBVIOUS
  <2>2. <<y, x>> \in R
    BY <1>2, <2>1
  <2> QED BY <1>3, <2>2
<1> QED BY <1>4 DEF F!Min

\* The history is longer than any filter looks back.
LEMMA SpanCovers ==
  /\ F!Span \in Nat /\ F!Span > MedSize /\ F!Span > AvgSize /\ F!Span > Limit /\ F!Span > 2
<1> DEFINE S == {MedSize, AvgSize, Limit, 2}
           Greatest(x) == x \in S /\ \A y \in S : x >= y
<1>1. MedSize \in Nat /\ AvgSize \in Nat /\ Limit \in Nat
  BY FilterConstants
<1>2. \E x : Greatest(x)
  <2>1. PICK m \in {MedSize, AvgSize} : m \in Nat /\ m >= MedSize /\ m >= AvgSize
    BY <1>1
  <2>2. PICK n \in {m, Limit} : n \in Nat /\ n >= m /\ n >= Limit
    BY <1>1, <2>1
  <2>3. PICK x \in {n, 2} : x \in Nat /\ x >= n /\ x >= 2
    BY <2>2
  <2>4. Greatest(x)
    BY <1>1, <2>1, <2>2, <2>3
  <2> QED BY <2>4
<1>3. Greatest(F!Max(S))
  BY <1>2 DEF F!Max
<1>4. F!Max(S) \in Nat
  BY <1>1, <1>3
<1> QED BY <1>1, <1>3, <1>4 DEF F!Span

\* What is written into a filter: values of the signal, and the zeros of a reset.
Held == Values \cup {0}
Buffer(a, n) == a \in Seq(Held) /\ Len(a) = n

LEMMA ZerosAre == ASSUME NEW n \in Nat PROVE Buffer(F!Zeros(n), n)
BY DEF Buffer, F!Zeros, Held

FilterTypes ==
  /\ Buffer(mArray, MedSize) /\ Buffer(aArray, AvgSize) /\ Buffer(fValue, 3)
  /\ aIndex \in 1..AvgSize /\ ofValue \in Held /\ ofCount \in 0..Limit
  /\ count \in 0..F!Span /\ rising \in BOOLEAN

LEMMA FilterTypesInit == F!Init => FilterTypes
<1>1. /\ Buffer(F!Zeros(MedSize), MedSize) /\ Buffer(F!Zeros(AvgSize), AvgSize)
      /\ Buffer(F!Zeros(3), 3) /\ 1 \in 1..AvgSize /\ 0 \in Held /\ 0 \in 0..Limit
      /\ 0 \in 0..F!Span
  BY FilterConstants, SpanCovers, ZerosAre DEF Held
<1>2. F!Init => rising \in BOOLEAN
  BY Zenon DEF F!Init
<1> QED BY <1>1, <1>2 DEF F!Init, FilterTypes

LEMMA FilterTypesReset == F!Reset => FilterTypes'
<1>1. /\ Buffer(F!Zeros(MedSize), MedSize) /\ Buffer(F!Zeros(AvgSize), AvgSize)
      /\ Buffer(F!Zeros(3), 3) /\ 1 \in 1..AvgSize /\ 0 \in Held /\ 0 \in 0..Limit
      /\ 0 \in 0..F!Span
  BY FilterConstants, SpanCovers, ZerosAre DEF Held
<1>2. F!Span' = F!Span
  BY DEF F!Span, F!Max
<1>3. F!Reset => rising' \in BOOLEAN
  BY Zenon DEF F!Reset
<1> QED BY <1>1, <1>2, <1>3 DEF F!Reset, FilterTypes, Buffer, Held

\* The buffer of a filter without its first value, and with another at its end.
LEMMA Shifted ==
  ASSUME NEW n \in Nat \ {0}, NEW a, Buffer(a, n), NEW u \in Held
  PROVE  Buffer(Append(Tail(a), u), n)
BY DEF Buffer

\* median_filter_update leaves as many values in its buffer as there were.
LEMMA MedianUpdateIs ==
  ASSUME NEW a, Buffer(a, MedSize), NEW u \in Held
  PROVE  Buffer(F!MedianUpdate(a, u), MedSize)
<1>1. CASE F!Above(a, u) = {}
  BY <1>1, Shifted, FilterConstants DEF F!MedianUpdate
<1>2. CASE F!Above(a, u) # {}
  <2> DEFINE i == F!Min(F!Above(a, u))
             l == SubSeq(a, 1, i - 1)
             r == SubSeq(a, i, Len(a))
             b == F!InsertAt(a, i, u)
  <2>1. a \in Seq(Held) /\ Len(a) = MedSize /\ MedSize \in Nat \ {0} /\ DOMAIN a = 1..MedSize
    BY FilterConstants DEF Buffer
  <2>2. F!Above(a, u) \subseteq Nat /\ F!Above(a, u) \subseteq 1..MedSize
    BY <2>1 DEF F!Above
  <2>3. i \in 1..MedSize
    BY <1>2, <2>2, MinIsLeast
  <2>4. b = l \o <<u>> \o r
    BY DEF F!InsertAt
  <2> HIDE DEF i, b
  <2>5. l \in Seq(Held) /\ Len(l) = i - 1
    <3>1. \A j \in 1..(i - 1) : a[j] \in Held
      BY <2>1, <2>3
    <3> QED BY <2>3, <3>1, SubSeqProperties
  <2>6. r \in Seq(Held) /\ Len(r) = MedSize - i + 1
    <3>1. \A j \in i..Len(a) : a[j] \in Held
      BY <2>1, <2>3
    <3> QED BY <2>1, <2>3, <3>1, SubSeqProperties
  <2> HIDE DEF l, r
  <2>7. b \in Seq(Held) /\ Len(b) = MedSize + 1
    <3>1. l \o <<u>> \in Seq(Held) /\ Len(l \o <<u>>) = i
      BY <2>3, <2>5
    <3> DEFINE q == l \o <<u>>
    <3>2. q \in Seq(Held) /\ Len(q) = i /\ b = q \o r
      BY <2>4, <3>1
    <3> HIDE DEF q
    <3>3. q \o r \in Seq(Held) /\ Len(q \o r) = Len(q) + Len(r)
      BY <2>6, <3>2, ConcatProperties
    <3> QED BY <2>1, <2>3, <2>6, <3>2, <3>3
  <2>8. F!Front(b) \in Seq(Held) /\ Len(F!Front(b)) = MedSize
    <3>1. \A j \in 1..(Len(b) - 1) : b[j] \in Held
      BY <2>1, <2>7
    <3>2. SubSeq(b, 1, Len(b) - 1) \in Seq(Held) /\ Len(SubSeq(b, 1, Len(b) - 1)) = MedSize
      BY <2>1, <2>7, <3>1, SubSeqProperties
    <3> QED BY <3>2 DEF F!Front
  <2> QED BY <1>2, <2>8 DEF F!MedianUpdate, Buffer, b, i
<1> QED BY <1>1, <1>2

LEMMA FilterTypesUpdate ==
  ASSUME FilterTypes, NEW u \in Values, F!Update(u)
  PROVE  FilterTypes'
<1>0. /\ Buffer(mArray, MedSize) /\ Buffer(aArray, AvgSize) /\ Buffer(fValue, 3)
      /\ aIndex \in 1..AvgSize /\ ofValue \in Held /\ ofCount \in 0..Limit
      /\ count \in 0..F!Span /\ rising \in BOOLEAN /\ u \in Held
  BY DEF FilterTypes, Held
<1>1. Buffer(mArray', MedSize)
  BY <1>0, MedianUpdateIs DEF F!Update
<1>2. Buffer(aArray', AvgSize)
  <2>1. aArray' = [aArray EXCEPT ![aIndex] = u]
    BY DEF F!Update
  <2>2. aIndex \in 1..Len(aArray) /\ aArray \in Seq(Held) /\ Len(aArray) = AvgSize
    BY <1>0 DEF Buffer
  <2> QED BY <1>0, <2>1, <2>2, ExceptSeq DEF Buffer
<1>3. aIndex' \in 1..AvgSize
  BY <1>0, FilterConstants DEF F!Update, F!NextIndex
<1>4. Buffer(fValue', 3)
  <2>1. fValue' = Append(Tail(fValue), u)
    BY DEF F!Update
  <2> QED BY <1>0, <2>1, Shifted
<1>5. ofValue' \in Held /\ ofCount' \in 0..Limit
  BY <1>0, FilterConstants DEF F!Update, F!IsOutlier
<1>6. count' \in 0..F!Span
  <2> DEFINE S == {count + 1, F!Span}
  <2>1. S \subseteq Nat /\ S # {}
    BY <1>0, SpanCovers
  <2>2. F!Min(S) \in S /\ \A y \in S : F!Min(S) <= y
    BY <2>1, MinIsLeast
  <2>3. count' = F!Min(S)
    BY DEF F!Update
  <2> QED BY <1>0, <2>1, <2>2, <2>3, SpanCovers
<1>7. rising' \in BOOLEAN
  BY <1>0, Zenon DEF F!Update
<1>8. F!Span' = F!Span
  BY DEF F!Span, F!Max
<1> QED BY <1>1, <1>2, <1>3, <1>4, <1>5, <1>6, <1>7, <1>8 DEF FilterTypes, Buffer, Held

LEMMA FilterTypesStep == ASSUME FilterTypes, F!Next \/ UNCHANGED F!vars PROVE FilterTypes'
<1>1. CASE F!Next
  BY <1>1, FilterTypesReset, FilterTypesUpdate DEF F!Next
<1>2. CASE UNCHANGED F!vars
  BY <1>2 DEF F!vars, FilterTypes, Buffer, Held, F!Span, F!Max
<1> QED BY <1>1, <1>2

LEMMA FilterTypesPromise == FilterTypes => F!TypeOK
<1>1. \A a \in Seq(Held) : \A i \in DOMAIN a : a[i] \in Held
  OBVIOUS
<1>2. FilterTypes => \A a \in {mArray, aArray, fValue} : \A i \in DOMAIN a : a[i] \in Held
  BY <1>1 DEF FilterTypes, Buffer
<1> QED BY <1>2, Zenon DEF FilterTypes, Buffer, Held, F!TypeOK

\* Sums.  Every set of numbers that is not empty has a least one, and so one may argue by
\* induction over a set of them.
LEMMA Induction ==
  ASSUME NEW E, 0 \in E, \A n \in Nat : n \in E => n + 1 \in E
  PROVE  Nat \subseteq E
<1> DEFINE S == Nat \ E
           i == F!Min(S)
<1> SUFFICES ASSUME S # {} PROVE FALSE
  OBVIOUS
<1>1. i \in S /\ \A y \in S : i <= y
  BY MinIsLeast
<1> HIDE DEF i
<1>2. i # 0 /\ i - 1 \in Nat
  BY <1>1
<1>3. i - 1 \in E
  BY <1>1, <1>2
<1> QED BY <1>1, <1>2, <1>3

\* What FoldSeq makes of a sum: the function of the sets of indices it defines, which
\* takes away one index after the other.
Picked(I) == CHOOSE x \in I : TRUE
FoldOf(s) ==
  CHOOSE f : f = [I \in SUBSET DOMAIN s |->
                   IF I = {} THEN 0 ELSE s[Picked(I)] + f[I \ {Picked(I)}]]

\* F!Sum is that fold over all indices of the sequence.
LEMMA SumIsFold == \A s : F!Sum(s) = FoldOf(s)[DOMAIN s]
BY DEF F!Sum, F!FoldSeq, F!FoldFunction, F!FoldFunctionOnSet, F!MapThenFoldSet, FoldOf, Picked

\* g gives the sums over the sets of indices of s.
Sums(g, s, n) ==
  /\ g \in [SUBSET (1..n) -> Int] /\ g[{}] = 0
  /\ \A I \in SUBSET (1..n) : \A x \in I : g[I] = s[x] + g[I \ {x}]

\* There are such sums, whatever the length: with one more index, they are what they
\* were for the sets without it, and its value more for the sets with it.
LEMMA SumsExist ==
  ASSUME NEW n \in Nat, NEW s \in [1..n -> Int] PROVE \E g : Sums(g, s, n)
<1> DEFINE E == {m \in Nat : m <= n => \E g : Sums(g, s, m)}
<1>1. 0 \in E
  <2> DEFINE g == [I \in SUBSET (1..0) |-> 0]
  <2>1. Sums(g, s, 0)
    BY DEF Sums
  <2> QED BY <2>1
<1>2. ASSUME NEW m \in Nat, m \in E PROVE m + 1 \in E
  <2> SUFFICES ASSUME m + 1 <= n PROVE \E g : Sums(g, s, m + 1)
    OBVIOUS
  <2>1. PICK g : Sums(g, s, m)
    BY <1>2
  <2> DEFINE rest(I) == I \ {m + 1}
             sum(I) == IF m + 1 \in I THEN s[m + 1] + g[rest(I)] ELSE g[rest(I)]
             h == [I \in SUBSET (1..(m + 1)) |-> sum(I)]
  <2>2. \A x \in 1..(m + 1) : s[x] \in Int
    OBVIOUS
  <2>3. \A I \in SUBSET (1..(m + 1)) : rest(I) \in SUBSET (1..m)
    OBVIOUS
  <2>4. \A I \in SUBSET (1..(m + 1)) : g[rest(I)] \in Int
    BY <2>1, <2>3, Zenon DEF Sums
  <2>5. \A I \in SUBSET (1..(m + 1)) : sum(I) \in Int
    <3> HIDE DEF rest
    <3> QED BY <2>2, <2>4
  <2>6. sum({}) = 0
    <3>1. rest({}) = {}
      OBVIOUS
    <3> QED BY <2>1, <3>1 DEF Sums
  <2>7. ASSUME NEW I \in SUBSET (1..(m + 1)), NEW x \in I PROVE sum(I) = s[x] + sum(I \ {x})
    <3>1. CASE x = m + 1
      <4>1. rest(I \ {x}) = rest(I) /\ m + 1 \notin I \ {x}
        BY <3>1
      <4> HIDE DEF rest
      <4> QED BY <3>1, <4>1
    <3>2. CASE x # m + 1
      <4> DEFINE q == rest(I)
      <4>1. /\ I \ {x} \in SUBSET (1..(m + 1)) /\ rest(I \ {x}) = q \ {x}
            /\ x \in q /\ (m + 1 \in I \ {x} <=> m + 1 \in I)
        BY <3>2
      <4>2. q \in SUBSET (1..m) /\ g[q] \in Int /\ g[rest(I \ {x})] \in Int
        BY <2>3, <2>4, <4>1, Zenon
      <4> HIDE DEF q
      <4>3. g[q] = s[x] + g[q \ {x}]
        BY <2>1, <4>1, <4>2, Zenon DEF Sums
      <4>4. /\ sum(I) = IF m + 1 \in I THEN s[m + 1] + g[q] ELSE g[q]
            /\ sum(I \ {x}) = IF m + 1 \in I THEN s[m + 1] + g[q \ {x}] ELSE g[q \ {x}]
        BY <4>1, Zenon DEF q
      <4>5. s[x] \in Int /\ s[m + 1] \in Int /\ g[q] \in Int /\ g[q \ {x}] \in Int
        <5>1. x \in 1..(m + 1) /\ m + 1 \in 1..(m + 1)
          OBVIOUS
        <5>2. g[q \ {x}] \in Int
          BY <4>1, <4>2
        <5> QED BY <2>2, <4>2, <5>1, <5>2, Zenon
      <4> HIDE DEF sum
      <4> QED BY <4>3, <4>4, <4>5
    <3> QED BY <3>1, <3>2
  <2> HIDE DEF sum
  <2>8. h \in [SUBSET (1..(m + 1)) -> Int] /\ h[{}] = 0
    BY <2>5, <2>6
  <2>9. \A I \in SUBSET (1..(m + 1)) : \A x \in I : h[I] = s[x] + h[I \ {x}]
    <3> SUFFICES ASSUME NEW I \in SUBSET (1..(m + 1)), NEW x \in I PROVE h[I] = s[x] + h[I \ {x}]
      BY Zenon
    <3>1. I \ {x} \in SUBSET (1..(m + 1))
      OBVIOUS
    <3>2. h[I] = sum(I) /\ h[I \ {x}] = sum(I \ {x})
      BY <3>1
    <3> QED BY <2>7, <3>2
  <2> HIDE DEF h
  <2>10. Sums(h, s, m + 1)
    BY <2>8, <2>9, Zenon DEF Sums
  <2> QED BY <2>10, Zenon
<1> HIDE DEF E
<1>3. Nat \subseteq E
  BY <1>1, <1>2, Induction
<1>4. n \in E
  BY <1>3
<1> QED BY <1>4 DEF E

\* So the sum of a sequence is what they give for all its indices.
LEMMA SumIs ==
  ASSUME NEW n \in Nat, NEW s \in [1..n -> Int], NEW g, Sums(g, s, n)
  PROVE  F!Sum(s) = g[1..n]
<1> DEFINE D == SUBSET (1..n)
           unfold(f) == [I \in D |-> IF I = {} THEN 0 ELSE s[Picked(I)] + f[I \ {Picked(I)}]]
           f0 == FoldOf(s)
<1>1. DOMAIN s = 1..n
  OBVIOUS
<1>2. \A I \in D : I # {} => Picked(I) \in I
  BY DEF Picked
<1>3. g = unfold(g)
  BY <1>2 DEF Sums
<1>4. f0 = CHOOSE f : f = unfold(f)
  BY <1>1 DEF FoldOf
<1>5. f0 = unfold(f0)
  <2> HIDE DEF unfold, f0
  <2> QED BY <1>3, <1>4
<1> HIDE DEF f0
<1>6. \A I \in D : f0[I] = IF I = {} THEN 0 ELSE s[Picked(I)] + f0[I \ {Picked(I)}]
  BY <1>5
<1> HIDE DEF unfold
<1> DEFINE E == {k \in Nat : \A I \in D : Cardinality(I) = k => f0[I] = g[I]}
<1>7. \A I \in D : IsFiniteSet(I) /\ Cardinality(I) \in Nat
  <2>1. IsFiniteSet(1..n)
    BY FS_Interval
  <2> QED BY <2>1, FS_Subset, FS_CardinalityType
<1>8. 0 \in E
  <2>1. ASSUME NEW I \in D, Cardinality(I) = 0 PROVE f0[I] = g[I]
    <3>1. I = {}
      BY <1>7, <2>1, FS_EmptySet
    <3> QED BY <1>6, <3>1 DEF Sums
  <2> QED BY <2>1
<1>9. ASSUME NEW k \in Nat, k \in E PROVE k + 1 \in E
  <2>1. ASSUME NEW I \in D, Cardinality(I) = k + 1 PROVE f0[I] = g[I]
    <3> DEFINE x == Picked(I)
    <3>1. I # {}
      BY <2>1, FS_EmptySet
    <3>2. x \in I /\ I \ {x} \in D
      BY <1>2, <3>1
    <3> HIDE DEF x
    <3>3. Cardinality(I \ {x}) = k
      BY <1>7, <2>1, <3>2, FS_RemoveElement
    <3>4. f0[I \ {x}] = g[I \ {x}]
      BY <1>9, <3>2, <3>3
    <3>5. f0[I] = s[x] + f0[I \ {x}]
      BY <1>6, <3>1 DEF x
    <3>6. g[I] = s[x] + g[I \ {x}]
      BY <3>2 DEF Sums
    <3> QED BY <3>4, <3>5, <3>6
  <2> QED BY <2>1
<1> HIDE DEF E
<1>10. Nat \subseteq E
  BY <1>8, <1>9, Induction
<1>11. f0[1..n] = g[1..n]
  <2>1. 1..n \in D /\ Cardinality(1..n) \in E
    BY <1>7, <1>10
  <2> QED BY <2>1 DEF E
<1> QED BY <1>1, <1>11, SumIsFold DEF f0

\* A set of indices without its last.
LEMMA IndicesWithout ==
  ASSUME NEW k \in Nat, NEW n \in Nat, k + 1 <= n, NEW B, B \in SUBSET (1..(k + 1)), NEW x \in B,
         x = k + 1
  PROVE  B \ {x} \in SUBSET (1..k) /\ B \in SUBSET (1..n) /\ x \in 1..n
OBVIOUS

\* The values of p on B.
Image(p, B) == {p[i] : i \in B}

\* A value less where p takes each value once.
LEMMA ImageWithout ==
  \A p, B, x : x \in B /\ (\A i \in B : p[i] = p[x] => i = x) =>
    Image(p, B) \ {p[x]} = Image(p, B \ {x}) /\ p[x] \in Image(p, B)
BY DEF Image

\* A sum does not depend on the order.
Permutes(p, n) ==
  /\ p \in [1..n -> 1..n] /\ \A i, j \in 1..n : p[i] = p[j] => i = j
  /\ \A j \in 1..n : \E i \in 1..n : p[i] = j
Rearranged(s, t, p, n) == \A i \in 1..n : t[i] = s[p[i]]

LEMMA SumInAnyOrder ==
  ASSUME NEW n \in Nat, NEW s \in [1..n -> Int], NEW t \in [1..n -> Int],
         NEW p, Permutes(p, n), Rearranged(s, t, p, n)
  PROVE  F!Sum(t) = F!Sum(s)
<1>0. /\ p \in [1..n -> 1..n] /\ \A i, j \in 1..n : p[i] = p[j] => i = j
      /\ \A j \in 1..n : \E i \in 1..n : p[i] = j
      /\ \A i \in 1..n : t[i] = s[p[i]]
  BY Zenon DEF Permutes, Rearranged
<1>1. PICK g : Sums(g, s, n)
  BY SumsExist
<1>2. PICK h : Sums(h, t, n)
  BY SumsExist
<1> DEFINE Agree(k) == \A B \in SUBSET (1..k) : h[B] = g[Image(p, B)]
           E == {k \in Nat : k <= n => Agree(k)}
<1>3. 0 \in E
  <2>1. SUBSET (1..0) = {{}} /\ Image(p, {}) = {}
    BY DEF Image
  <2>2. h[{}] = 0 /\ g[{}] = 0
    BY <1>1, <1>2, Zenon DEF Sums
  <2> QED BY <2>1, <2>2
<1>4. ASSUME NEW k \in Nat, k \in E PROVE k + 1 \in E
  <2> SUFFICES ASSUME k + 1 <= n PROVE Agree(k + 1)
    <3> HIDE DEF Agree
    <3> QED OBVIOUS
  <2>0. Agree(k)
    <3> HIDE DEF Agree
    <3> QED BY <1>4
  <2> SUFFICES ASSUME NEW B \in SUBSET (1..(k + 1)) PROVE h[B] = g[Image(p, B)]
    BY Zenon
  <2>1. CASE k + 1 \notin B
    <3>1. B \in SUBSET (1..k)
      BY <2>1
    <3> QED BY <2>0, <3>1, Zenon
  <2>2. CASE k + 1 \in B
    <3>1. PICK x \in B : x = k + 1
      BY <2>2
    <3> HIDE DEF Agree, E
    <3>2. B \ {x} \in SUBSET (1..k) /\ B \in SUBSET (1..n) /\ x \in 1..n
      BY <3>1, IndicesWithout
    <3>3. \A i \in B : p[i] \in 1..n /\ (p[i] = p[x] => i = x)
      BY <1>0, <3>2, Zenon
    <3>4. h[B \ {x}] = g[Image(p, B \ {x})]
      BY <2>0, <3>2, Zenon DEF Agree
    <3>5. t[x] = s[p[x]]
      BY <1>0, <3>2, Zenon
    <3>6. h[B] = t[x] + h[B \ {x}]
      BY <1>2, <3>2, Zenon DEF Sums
    <3>7. /\ Image(p, B) \ {p[x]} = Image(p, B \ {x})
          /\ Image(p, B) \in SUBSET (1..n) /\ p[x] \in Image(p, B)
      <4>1. Image(p, B) \in SUBSET (1..n)
        BY <3>3 DEF Image
      <4>2. \A i \in B : p[i] = p[x] => i = x
        BY <3>3
      <4>3. x \in B /\ \A i \in B : p[i] = p[x] => i = x
        BY <3>1, <4>2, Zenon
      <4>4. Image(p, B) \ {p[x]} = Image(p, B \ {x}) /\ p[x] \in Image(p, B)
        BY <4>3, ImageWithout
      <4> QED BY <4>1, <4>4, Zenon
    <3>8. g[Image(p, B)] = s[p[x]] + g[Image(p, B) \ {p[x]}]
      BY <1>1, <3>7, Zenon DEF Sums
    <3> QED BY <3>4, <3>5, <3>6, <3>7, <3>8, Zenon
  <2> QED BY <2>1, <2>2
<1>5. h[1..n] = g[1..n]
  <2> HIDE DEF E
  <2>1. n \in E
    BY <1>3, <1>4, Induction
  <2>2. Image(p, 1..n) = 1..n
    BY <1>0 DEF Image
  <2>3. Agree(n)
    <3> HIDE DEF Agree
    <3> QED BY <2>1 DEF E
  <2>4. 1..n \in SUBSET (1..n)
    OBVIOUS
  <2> QED BY <2>2, <2>3, <2>4, Zenon
<1>6. F!Sum(t) = h[1..n]
  BY <1>2, SumIs
<1>7. F!Sum(s) = g[1..n]
  BY <1>1, SumIs
<1> QED BY <1>5, <1>6, <1>7, Zenon

\* The sum of zeros is zero.
LEMMA SumOfZeros == ASSUME NEW n \in Nat PROVE F!Sum(F!Zeros(n)) = 0
<1> DEFINE g == [I \in SUBSET (1..n) |-> 0]
<1>1. F!Zeros(n) \in [1..n -> Int] /\ \A i \in 1..n : F!Zeros(n)[i] = 0
  BY DEF F!Zeros
<1>2. Sums(g, F!Zeros(n), n)
  BY <1>1 DEF Sums
<1>3. g[1..n] = 0
  OBVIOUS
<1> QED BY <1>1, <1>2, <1>3, SumIs

\* The history: what came k updates ago, and how an update moves it.
Ages == 0..(F!Span - 1)
Ago == [k \in Ages |-> recent[F!Span - k]]
Moves(h, h2, u) == h2[0] = u /\ \A k \in 1..(F!Span - 1) : h2[k] = h[k - 1]

\* A buffer as a function.
LEMMA BufferIs ==
  ASSUME NEW n \in Nat, NEW a, Buffer(a, n)
  PROVE  a \in [1..n -> Held] /\ a \in [1..n -> Nat] /\ DOMAIN a = 1..n
<1>1. Held \subseteq Nat
  BY FilterConstants DEF Held
<1>2. a \in Seq(Held) /\ Len(a) = n
  BY DEF Buffer
<1>3. a \in [1..n -> Held]
  BY <1>2, LenProperties
<1> QED BY <1>1, <1>3

\* The history, as the values there were so many updates ago.
LEMMA AgoIs ==
  ASSUME Buffer(recent, F!Span)
  PROVE  /\ Ago \in [Ages -> Nat] /\ F!Last(recent) = Ago[0]
         /\ \A n \in 1..F!Span : /\ F!LastOf(n) \in [1..n -> Nat]
                                 /\ \A i \in 1..n : F!LastOf(n)[i] = Ago[n - i]
         /\ \A k \in Ages : Ago[k] = recent[F!Span - k]
<1>1. recent \in [1..F!Span -> Nat] /\ recent \in Seq(Held) /\ Len(recent) = F!Span /\ Held \subseteq Nat
  BY BufferIs, SpanCovers, FilterConstants DEF Buffer, Held
<1>2. \A k \in Ages : F!Span - k \in 1..F!Span /\ Ago[k] = recent[F!Span - k]
  BY SpanCovers DEF Ages, Ago
<1>3. Ago \in [Ages -> Nat]
  BY <1>1, <1>2 DEF Ago
<1>4. F!Last(recent) = Ago[0]
  BY <1>1, <1>2, SpanCovers DEF F!Last, Ages
<1>5. ASSUME NEW n \in 1..F!Span
      PROVE  /\ F!LastOf(n) \in [1..n -> Nat] /\ \A i \in 1..n : F!LastOf(n)[i] = Ago[n - i]
  <2>1. F!LastOf(n) = SubSeq(recent, F!Span - n + 1, F!Span)
    BY DEF F!LastOf
  <2>2. /\ F!Span - n + 1 \in 1..(Len(recent) + 1)
        /\ F!Span \in (F!Span - n + 1 - 1)..Len(recent)
    BY <1>1, SpanCovers
  <2>3. \A i \in 1..n : SubSeq(recent, F!Span - n + 1, F!Span)[i] = recent[F!Span - n + i]
    BY <1>1, <2>2, SpanCovers
  <2>4. F!LastOf(n) = [i \in 1..n |-> recent[F!Span - n + i]]
    BY <1>1, <2>1, <2>2, SpanCovers
  <2>5. \A i \in 1..n : n - i \in Ages /\ F!Span - (n - i) = F!Span - n + i
                        /\ F!Span - n + i \in 1..F!Span
    BY SpanCovers DEF Ages
  <2> QED BY <1>1, <1>2, <2>4, <2>5
<1> QED BY <1>2, <1>3, <1>4, <1>5

\* An update makes every value one update older.
LEMMA AgoMoves ==
  ASSUME Buffer(recent, F!Span), NEW u \in Held, recent' = Append(Tail(recent), u)
  PROVE  Moves(Ago, Ago', u)
<1>1. recent \in [1..F!Span -> Nat] /\ recent \in Seq(Held) /\ Len(recent) = F!Span
  BY BufferIs, SpanCovers DEF Buffer
<1>2. F!Span' = F!Span
  BY DEF F!Span, F!Max
<1>3. \A k \in Ages : Ago[k] = recent[F!Span - k]
  BY SpanCovers DEF Ages, Ago
<1>4. \A k \in Ages : Ago'[k] = recent'[F!Span - k]
  BY <1>2, SpanCovers DEF Ages, Ago
<1>5. recent'[F!Span] = u /\ \A i \in 1..(F!Span - 1) : recent'[i] = recent[i + 1]
  BY <1>1, SpanCovers
<1> DEFINE h == Ago
           h2 == Ago'
           r2 == recent'
           N == F!Span
<1>0. /\ N \in Nat /\ N > 2 /\ r2[N] = u /\ \A i \in 1..(N - 1) : r2[i] = recent[i + 1]
      /\ \A k \in 0..(N - 1) : h[k] = recent[N - k]
      /\ \A k \in 0..(N - 1) : h2[k] = r2[N - k]
  BY <1>3, <1>4, <1>5, SpanCovers, Zenon DEF Ages
<1> HIDE DEF h, h2, r2, N
<1>6. h2[0] = u
  BY <1>0
<1>7. ASSUME NEW k \in 1..(N - 1) PROVE h2[k] = h[k - 1]
  <2>1. k \in 0..(N - 1) /\ k - 1 \in 0..(N - 1) /\ N - k \in 1..(N - 1)
        /\ N - (k - 1) = N - k + 1
    BY <1>0
  <2> QED BY <1>0, <2>1
<1> QED BY <1>6, <1>7, Zenon DEF Moves, h, h2, N

\* The last k updates were the same; none was below the one before it; the values of a
\* buffer are the last n updates.
Lasts(h, k) == \A i \in 0..(k - 1) : h[i] = h[0]
Falls(h) == \A i, j \in Ages : i < j => h[j] <= h[i]
IsRecent(m, h, n) == \A i \in 1..n : m[i] = h[n - i]

\* What lasted for k updates is k times in the buffer of the median filter, side by side;
\* a level that lasted until the last update fills it but for its ends.
Copies(m, h) ==
  \A k \in 1..MedSize : Lasts(h, k) =>
    \E p \in 0..(MedSize - k) : \A i \in 1..MedSize : p < i /\ i <= p + k => m[i] = h[0]
Leveled(m, h) ==
  (\A k \in 1..MedSize : h[k] = h[1]) => \A i \in 2..(MedSize - 1) : m[i] = h[1]

\* u goes behind the values that are not above it, and the first value is dropped, or the
\* last one if some are above it.
AtEnd(a, b, u) ==
  /\ b[MedSize] = u
  /\ \A i \in 1..MedSize : a[i] <= u /\ (i < MedSize => b[i] = a[i + 1])
AtPlace(a, b, u, j) ==
  /\ u < a[j] /\ b[j] = u
  /\ \A i \in 1..MedSize : /\ i < j => b[i] = a[i] /\ a[i] <= u
                           /\ j < i => b[i] = a[i - 1]
Inserted(a, b, u) == AtEnd(a, b, u) \/ \E j \in 1..MedSize : AtPlace(a, b, u, j)

\* median_filter_update
LEMMA MedianInserts ==
  ASSUME NEW a, Buffer(a, MedSize), NEW u \in Held
  PROVE  Inserted(a, F!MedianUpdate(a, u), u)
<1>0. /\ a \in Seq(Held) /\ Len(a) = MedSize /\ MedSize \in Nat \ {0} /\ DOMAIN a = 1..MedSize
      /\ a \in [1..MedSize -> Nat] /\ u \in Nat
  BY BufferIs, FilterConstants DEF Buffer, Held
<1>1. CASE F!Above(a, u) = {}
  <2>1. \A i \in 1..MedSize : a[i] <= u
    BY <1>0, <1>1 DEF F!Above
  <2>2. F!MedianUpdate(a, u) = Append(Tail(a), u)
    BY <1>1 DEF F!MedianUpdate
  <2>3. /\ Append(Tail(a), u)[MedSize] = u
        /\ \A i \in 1..MedSize : i < MedSize => Append(Tail(a), u)[i] = a[i + 1]
    BY <1>0
  <2>4. AtEnd(a, F!MedianUpdate(a, u), u)
    BY <2>1, <2>2, <2>3 DEF AtEnd
  <2> QED BY <2>4 DEF Inserted
<1>2. CASE F!Above(a, u) # {}
  <2> DEFINE j == F!Min(F!Above(a, u))
             l == SubSeq(a, 1, j - 1)
             r == SubSeq(a, j, Len(a))
             c == F!InsertAt(a, j, u)
             b == F!Front(c)
  <2>1. F!Above(a, u) \subseteq Nat /\ F!Above(a, u) \subseteq 1..MedSize
    BY <1>0 DEF F!Above
  <2>2. j \in F!Above(a, u) /\ \A i \in F!Above(a, u) : j <= i
    BY <1>2, <2>1, MinIsLeast
  <2>3. j \in 1..MedSize /\ u < a[j] /\ \A i \in 1..MedSize : i < j => a[i] <= u
    <3>1. \A i \in 1..MedSize : i \in F!Above(a, u) <=> u < a[i]
      BY <1>0 DEF F!Above
    <3> HIDE DEF j
    <3> QED BY <1>0, <2>1, <2>2, <3>1
  <2>4. c = l \o <<u>> \o r
    BY DEF F!InsertAt
  <2> HIDE DEF j, c
  <2>5. /\ l \in Seq(Held) /\ Len(l) = j - 1 /\ \A i \in 1..(j - 1) : l[i] = a[i]
    <3>1. \A i \in 1..(j - 1) : a[i] \in Held
      BY <1>0, <2>3
    <3> QED BY <1>0, <2>3, <3>1, SubSeqProperties
  <2>6. /\ r \in Seq(Held) /\ Len(r) = MedSize - j + 1
        /\ \A i \in 1..(MedSize - j + 1) : r[i] = a[j + i - 1]
    <3>1. \A i \in j..Len(a) : a[i] \in Held
      BY <1>0, <2>3
    <3> QED BY <1>0, <2>3, <3>1, SubSeqProperties
  <2> HIDE DEF l, r
  <2> DEFINE q == l \o <<u>>
  <2>7. /\ q \in Seq(Held) /\ Len(q) = j /\ q[j] = u /\ \A i \in 1..(j - 1) : q[i] = a[i]
    BY <2>3, <2>5
  <2> HIDE DEF q
  <2>8. /\ c \in Seq(Held) /\ Len(c) = MedSize + 1
        /\ \A i \in 1..(MedSize + 1) : c[i] = IF i <= j THEN q[i] ELSE r[i - j]
    <3>1. c = q \o r
      BY <2>4 DEF q
    <3>2. /\ q \o r \in Seq(Held) /\ Len(q \o r) = Len(q) + Len(r)
          /\ \A i \in 1..(Len(q) + Len(r)) : (q \o r)[i] = IF i <= Len(q) THEN q[i] ELSE r[i - Len(q)]
      BY <2>6, <2>7, ConcatProperties
    <3>3. Len(q) = j /\ Len(q) + Len(r) = MedSize + 1
      BY <1>0, <2>3, <2>6, <2>7
    <3> QED BY <3>1, <3>2, <3>3, Zenon
  <2>9. \A i \in 1..MedSize : b[i] = c[i]
    <3>1. b = SubSeq(c, 1, Len(c) - 1)
      BY DEF F!Front
    <3>2. \A i \in 1..(Len(c) - 1) : c[i] \in Held
      BY <1>0, <2>8
    <3>3. \A i \in 1..(Len(c) - 1) : SubSeq(c, 1, Len(c) - 1)[i] = c[i]
      BY <1>0, <2>8, <3>2, SubSeqProperties
    <3> QED BY <1>0, <2>8, <3>1, <3>3
  <2>10. \A i \in 1..MedSize : /\ i < j => b[i] = a[i]
                               /\ i = j => b[i] = u
                               /\ j < i => b[i] = a[i - 1]
    <3> HIDE DEF b
    <3> TAKE i \in 1..MedSize
    <3>1. CASE i <= j
      <4>1. b[i] = q[i]
        BY <1>0, <2>3, <2>8, <2>9, <3>1
      <4> QED BY <1>0, <2>3, <2>7, <3>1, <4>1
    <3>2. CASE j < i
      <4>1. b[i] = r[i - j] /\ i - j \in 1..(MedSize - j + 1) /\ j + (i - j) - 1 = i - 1
        BY <1>0, <2>3, <2>8, <2>9, <3>2
      <4> QED BY <1>0, <2>3, <2>6, <3>2, <4>1
    <3> QED BY <1>0, <2>3, <3>1, <3>2
  <2>11. b = F!MedianUpdate(a, u)
    BY <1>2 DEF F!MedianUpdate, c, j
  <2> HIDE DEF b
  <2>12. AtPlace(a, b, u, j)
    BY <1>0, <2>3, <2>10 DEF AtPlace
  <2> QED BY <2>3, <2>11, <2>12 DEF Inserted
<1> QED BY <1>1, <1>2

\* The buffer of the median filter stays in order,
LEMMA OrderKept ==
  ASSUME NEW a \in [1..MedSize -> Nat], NEW b \in [1..MedSize -> Nat], NEW u \in Nat,
         F!InOrder(a), Inserted(a, b, u)
  PROVE  F!InOrder(b)
<1>0. MedSize \in Nat \ {0} /\ DOMAIN a = 1..MedSize /\ DOMAIN b = 1..MedSize
  BY FilterConstants
<1>1. \A i, j \in 1..MedSize : i < j => a[i] <= a[j]
  BY <1>0 DEF F!InOrder
<1>2. SUFFICES ASSUME NEW i \in 1..MedSize, NEW j \in 1..MedSize, i < j PROVE b[i] <= b[j]
  BY <1>0 DEF F!InOrder
<1>3. CASE AtEnd(a, b, u)
  <2>1. b[i] = a[i + 1] /\ i + 1 \in 1..MedSize /\ a[i + 1] <= u
    BY <1>0, <1>2, <1>3 DEF AtEnd
  <2>2. CASE j = MedSize
    BY <1>3, <2>1, <2>2 DEF AtEnd
  <2>3. CASE j # MedSize
    <3>1. b[j] = a[j + 1] /\ j + 1 \in 1..MedSize
      BY <1>0, <1>2, <1>3, <2>3 DEF AtEnd
    <3> QED BY <1>1, <1>2, <2>1, <3>1
  <2> QED BY <2>2, <2>3
<1>4. ASSUME NEW k \in 1..MedSize, AtPlace(a, b, u, k) PROVE b[i] <= b[j]
  <2>1. CASE j < k
    <3>1. b[i] = a[i] /\ b[j] = a[j]
      BY <1>0, <1>2, <1>4, <2>1 DEF AtPlace
    <3> QED BY <1>1, <1>2, <3>1
  <2>2. CASE j = k
    BY <1>0, <1>2, <1>4, <2>2 DEF AtPlace
  <2>3. CASE j > k
    <3>1. b[j] = a[j - 1] /\ j - 1 \in 1..MedSize /\ k <= j - 1
      BY <1>0, <1>2, <1>4, <2>3 DEF AtPlace
    <3>2. u < a[j - 1]
      <4>1. a[k] <= a[j - 1]
        BY <1>1, <3>1
      <4>2. a[k] \in Nat /\ a[j - 1] \in Nat /\ u < a[k]
        BY <1>4, <3>1 DEF AtPlace
      <4> QED BY <4>1, <4>2
    <3>3. CASE i < k
      <4>1. b[i] = a[i] /\ a[i] <= u /\ a[i] \in Nat /\ a[j - 1] \in Nat
        BY <1>0, <1>2, <1>4, <3>1, <3>3 DEF AtPlace
      <4> QED BY <3>1, <3>2, <4>1
    <3>4. CASE i = k
      <4>1. b[i] = u /\ a[j - 1] \in Nat
        BY <1>4, <3>1, <3>4 DEF AtPlace
      <4> QED BY <3>1, <3>2, <4>1
    <3>5. CASE i > k
      <4>1. b[i] = a[i - 1] /\ i - 1 \in 1..MedSize /\ i - 1 < j - 1
        BY <1>0, <1>2, <1>4, <3>5 DEF AtPlace
      <4> QED BY <1>1, <3>1, <4>1
    <3> QED BY <3>3, <3>4, <3>5
  <2> QED BY <2>1, <2>2, <2>3
<1> QED BY <1>3, <1>4 DEF Inserted

\* keeps a copy of every value that lasts,
LEMMA CopiesKept ==
  ASSUME NEW a \in [1..MedSize -> Nat], NEW b \in [1..MedSize -> Nat], NEW u \in Nat,
         NEW h \in [Ages -> Nat], NEW h2 \in [Ages -> Nat],
         F!InOrder(a), Inserted(a, b, u), Moves(h, h2, u), Copies(a, h)
  PROVE  Copies(b, h2)
<1>0. /\ MedSize \in Nat \ {0} /\ DOMAIN a = 1..MedSize
      /\ \A i, j \in 1..MedSize : i < j => a[i] <= a[j]
  BY FilterConstants DEF F!InOrder
<1> SUFFICES ASSUME NEW k \in 1..MedSize, Lasts(h2, k)
             PROVE  \E p \in 0..(MedSize - k) :
                      \A i \in 1..MedSize : p < i /\ i <= p + k => b[i] = h2[0]
  BY DEF Copies
<1>1. h2[0] = u
  BY DEF Moves
<1> DEFINE m == k - 1
<1>2. m \in 0..(MedSize - 1) /\ k = m + 1
  BY <1>0
<1>3. \A i \in 0..(m - 1) : h[i] = u
  <2> TAKE i \in 0..(m - 1)
  <2>1. i + 1 \in 1..(F!Span - 1) /\ i + 1 \in 0..(k - 1) /\ (i + 1) - 1 = i
    BY <1>0, SpanCovers
  <2>2. h2[i + 1] = h[i]
    BY <2>1 DEF Moves
  <2> QED BY <1>1, <2>1, <2>2 DEF Lasts
<1> HIDE DEF m
<1>4. PICK p \in 0..(MedSize - m) : \A i \in 1..MedSize : p < i /\ i <= p + m => a[i] = u
  <2>1. CASE m = 0
    <3>1. 0 \in 0..(MedSize - m) /\ \A i \in 1..MedSize : ~(0 < i /\ i <= 0 + m)
      BY <1>0, <2>1
    <3> QED BY <3>1
  <2>2. CASE m # 0
    <3>1. m \in 1..MedSize /\ h[0] = u /\ Lasts(h, m)
      BY <1>0, <1>2, <1>3, <2>2 DEF Lasts
    <3>2. PICK p \in 0..(MedSize - m) :
            \A i \in 1..MedSize : p < i /\ i <= p + m => a[i] = h[0]
      BY <3>1, Zenon DEF Copies
    <3> QED BY <3>1, <3>2
  <2> QED BY <2>1, <2>2
<1>5. CASE AtEnd(a, b, u)
  <2>1. \A i \in 1..MedSize : m > 0 /\ p < i => a[i] = u
    <3> SUFFICES ASSUME NEW i \in 1..MedSize, m > 0, p < i PROVE a[i] = u
      OBVIOUS
    <3>1. p + 1 \in 1..MedSize /\ a[p + 1] = u
      BY <1>0, <1>2, <1>4
    <3>2. a[p + 1] <= a[i]
      <4>1. i = p + 1 \/ p + 1 < i
        BY <1>4
      <4> QED BY <1>0, <3>1, <4>1
    <3>3. a[i] <= u /\ a[i] \in Nat
      BY <1>5 DEF AtEnd
    <3> QED BY <3>1, <3>2, <3>3
  <2> DEFINE q == MedSize - k
  <2>2. q \in 0..(MedSize - k)
    BY <1>0
  <2>3. ASSUME NEW i \in 1..MedSize, q < i PROVE b[i] = u
    <3>1. CASE i = MedSize
      BY <1>5, <3>1 DEF AtEnd
    <3>2. CASE i # MedSize
      <4>1. b[i] = a[i + 1] /\ i + 1 \in 1..MedSize
        BY <1>0, <1>5, <3>2 DEF AtEnd
      <4>2. m > 0 /\ p < i + 1
        BY <1>0, <1>2, <1>4, <2>3, <3>2
      <4> QED BY <2>1, <4>1, <4>2
    <3> QED BY <3>1, <3>2
  <2> HIDE DEF q
  <2>4. \A i \in 1..MedSize : q < i /\ i <= q + k => b[i] = h2[0]
    BY <1>1, <2>3
  <2> QED BY <2>2, <2>4
<1>6. ASSUME NEW j \in 1..MedSize, AtPlace(a, b, u, j)
      PROVE  \E q \in 0..(MedSize - k) :
               \A i \in 1..MedSize : q < i /\ i <= q + k => b[i] = h2[0]
  <2>1. CASE m = 0
    <3> DEFINE q == j - 1
    <3>1. q \in 0..(MedSize - k) /\ \A i \in 1..MedSize : q < i /\ i <= q + k => i = j
      BY <1>0, <1>2, <2>1
    <3>2. b[j] = h2[0]
      BY <1>1, <1>6 DEF AtPlace
    <3> HIDE DEF q
    <3> QED BY <3>1, <3>2
  <2>2. CASE m # 0
    <3>1. p + m < j
      <4> SUFFICES ASSUME j <= p + m PROVE FALSE
        BY <1>2, <1>4
      <4>1. p + m \in 1..MedSize /\ a[p + m] = u
        BY <1>0, <1>2, <1>4, <2>2
      <4>2. a[j] <= a[p + m] /\ u < a[j] /\ a[j] \in Nat
        BY <1>0, <1>6, <4>1 DEF AtPlace
      <4> QED BY <4>1, <4>2
    <3>2. p \in 0..(MedSize - k)
      BY <1>0, <1>2, <1>4, <3>1
    <3>3. ASSUME NEW i \in 1..MedSize, p < i, i <= p + k PROVE b[i] = h2[0]
      <4>1. CASE i = j
        BY <1>1, <1>6, <4>1 DEF AtPlace
      <4>2. CASE i # j
        <5>1. i < j
          BY <1>2, <1>4, <3>1, <3>3, <4>2
        <5>2. b[i] = a[i] /\ a[i] <= u
          BY <1>6, <5>1 DEF AtPlace
        <5>3. a[i] = u
          <6>1. p + 1 \in 1..MedSize /\ a[p + 1] = u
            BY <1>0, <1>2, <1>4, <2>2
          <6>2. a[p + 1] <= a[i]
            <7>1. i = p + 1 \/ p + 1 < i
              BY <1>4, <3>3
            <7>2. CASE i = p + 1
              BY <6>1, <7>2
            <7>3. CASE p + 1 < i
              BY <1>0, <6>1, <7>3
            <7> QED BY <7>1, <7>2, <7>3
          <6> QED BY <5>2, <6>1, <6>2
        <5> QED BY <1>1, <5>2, <5>3
      <4> QED BY <4>1, <4>2
    <3> QED BY <3>2, <3>3
  <2> QED BY <2>1, <2>2
<1> QED BY <1>5, <1>6 DEF Inserted

\* and is level but for its ends after a single update that was not.
LEMMA LeveledAfter ==
  ASSUME NEW a \in [1..MedSize -> Nat], NEW b \in [1..MedSize -> Nat], NEW u \in Nat,
         NEW h \in [Ages -> Nat], NEW h2 \in [Ages -> Nat],
         Inserted(a, b, u), Moves(h, h2, u), Copies(a, h)
  PROVE  Leveled(b, h2)
<1>0. MedSize \in Nat \ {0}
  BY FilterConstants
<1> SUFFICES ASSUME \A k \in 1..MedSize : h2[k] = h2[1], NEW i \in 2..(MedSize - 1)
             PROVE  b[i] = h2[1]
  BY DEF Leveled
<1>1. \A k \in 1..MedSize : h2[k] = h[k - 1]
  BY <1>0, SpanCovers DEF Moves
<1>2. h2[1] = h[0]
  BY <1>0, <1>1
<1>3. Lasts(h, MedSize)
  <2> SUFFICES ASSUME NEW k \in 0..(MedSize - 1) PROVE h[k] = h[0]
    BY DEF Lasts
  <2>1. k + 1 \in 1..MedSize /\ (k + 1) - 1 = k
    BY <1>0
  <2>2. h2[k + 1] = h[k]
    BY <1>1, <2>1
  <2> QED BY <1>2, <2>1, <2>2
<1>4. PICK p \in 0..(MedSize - MedSize) :
        \A l \in 1..MedSize : p < l /\ l <= p + MedSize => a[l] = h[0]
  <2>1. MedSize \in 1..MedSize
    BY <1>0
  <2> QED BY <1>3, <2>1, Zenon DEF Copies
<1>5. \A l \in 1..MedSize : a[l] = h[0]
  BY <1>0, <1>4
<1>6. CASE AtEnd(a, b, u)
  BY <1>0, <1>2, <1>5, <1>6 DEF AtEnd
<1>7. ASSUME NEW j \in 1..MedSize, AtPlace(a, b, u, j) PROVE b[i] = h2[1]
  <2>1. j = 1
    <3> SUFFICES ASSUME j # 1 PROVE FALSE
      OBVIOUS
    <3>1. 1 \in 1..MedSize /\ 1 < j /\ a[1] <= u /\ u < a[j] /\ a[1] = h[0] /\ a[j] = h[0]
      BY <1>0, <1>5, <1>7 DEF AtPlace
    <3> QED BY <3>1
  <2>2. b[i] = a[i - 1] /\ i - 1 \in 1..MedSize
    BY <1>0, <1>7, <2>1 DEF AtPlace
  <2> QED BY <1>2, <1>5, <2>2
<1> QED BY <1>6, <1>7 DEF Inserted

\* As long as no update is below the one before, it is the last updates in their order.
LEMMA RisingKept ==
  ASSUME NEW a \in [1..MedSize -> Nat], NEW b \in [1..MedSize -> Nat], NEW u \in Nat,
         NEW h \in [Ages -> Nat], NEW h2 \in [Ages -> Nat],
         Inserted(a, b, u), Moves(h, h2, u), Falls(h), IsRecent(a, h, MedSize), u >= h[0]
  PROVE  Falls(h2) /\ IsRecent(b, h2, MedSize)
<1>0. MedSize \in Nat \ {0}
  BY FilterConstants
<1>1. \A k \in Ages : h[k] <= u /\ h[k] \in Nat
  <2> TAKE k \in Ages
  <2>1. 0 \in Ages /\ k >= 0
    BY SpanCovers DEF Ages
  <2>2. CASE k = 0
    BY <2>1, <2>2
  <2>3. CASE k # 0
    <3>1. 0 < k
      BY <2>1, <2>3 DEF Ages
    <3>2. h[k] <= h[0]
      BY <2>1, <3>1 DEF Falls
    <3> QED BY <2>1, <3>2
  <2> QED BY <2>2, <2>3
<1>2. AtEnd(a, b, u)
  <2>1. ASSUME NEW j \in 1..MedSize, AtPlace(a, b, u, j) PROVE FALSE
    <3>1. MedSize - j \in Ages /\ a[j] = h[MedSize - j]
      BY <1>0, SpanCovers DEF IsRecent, Ages
    <3> QED BY <1>1, <2>1, <3>1 DEF AtPlace
  <2> QED BY <2>1 DEF Inserted
<1>3. \A k \in 1..(F!Span - 1) : h2[k] = h[k - 1] /\ k - 1 \in Ages
  BY SpanCovers DEF Moves, Ages
<1>4. h2[0] = u
  BY DEF Moves
<1>5. Falls(h2)
  <2> SUFFICES ASSUME NEW i \in Ages, NEW j \in Ages, i < j PROVE h2[j] <= h2[i]
    BY DEF Falls
  <2>1. j \in 1..(F!Span - 1)
    BY SpanCovers DEF Ages
  <2>2. CASE i = 0
    BY <1>1, <1>3, <1>4, <2>1, <2>2
  <2>3. CASE i # 0
    <3>1. i \in 1..(F!Span - 1) /\ i - 1 < j - 1
      BY <2>3, SpanCovers DEF Ages
    <3> QED BY <1>3, <2>1, <3>1 DEF Falls
  <2> QED BY <2>2, <2>3
<1>6. IsRecent(b, h2, MedSize)
  <2> SUFFICES ASSUME NEW i \in 1..MedSize PROVE b[i] = h2[MedSize - i]
    BY DEF IsRecent
  <2>1. CASE i = MedSize
    BY <1>0, <1>2, <1>4, <2>1 DEF AtEnd
  <2>2. CASE i # MedSize
    <3>1. b[i] = a[i + 1] /\ i + 1 \in 1..MedSize
      BY <1>0, <1>2, <2>2 DEF AtEnd
    <3>2. a[i + 1] = h[MedSize - (i + 1)] /\ MedSize - (i + 1) = MedSize - i - 1
      <4>1. \A l \in 1..MedSize : a[l] = h[MedSize - l]
        BY DEF IsRecent
      <4>2. MedSize - (i + 1) = MedSize - i - 1
        BY <1>0
      <4> QED BY <3>1, <4>1, <4>2, Zenon
    <3>3. MedSize - i \in 1..(F!Span - 1)
      BY <1>0, <2>2, SpanCovers
    <3>4. h2[MedSize - i] = h[MedSize - i - 1]
      BY <1>3, <3>3
    <3> QED BY <3>1, <3>2, <3>4
  <2> QED BY <2>1, <2>2
<1> QED BY <1>5, <1>6

\* The middle of a buffer in order is its median.
LEMMA MiddleIsMedian ==
  ASSUME NEW a \in [1..MedSize -> Nat], F!InOrder(a)
  PROVE  F!IsMedian(a[F!Middle], a)
<1> DEFINE m == F!Middle
           x == a[m]
           B == {i \in 1..MedSize : a[i] < x}
           C == {i \in 1..MedSize : a[i] <= x}
<1>0. /\ MedSize \in Nat \ {0} /\ DOMAIN a = 1..MedSize
      /\ \A i, j \in 1..MedSize : i < j => a[i] <= a[j]
  BY FilterConstants DEF F!InOrder
<1>1. m \in 1..MedSize
  <2>1. (MedSize \div 2) + 1 \in 1..MedSize
    BY <1>0
  <2> QED BY <2>1 DEF F!Middle
<1> HIDE DEF m
<1>2. x \in Nat /\ x \in F!Range(a)
  BY <1>0, <1>1 DEF F!Range
<1>3. B \in SUBSET (1..(m - 1))
  <2> SUFFICES ASSUME NEW i \in 1..MedSize, a[i] < a[m] PROVE i < m
    BY <1>0, <1>1
  <2> SUFFICES ASSUME m <= i PROVE FALSE
    BY <1>1
  <2>1. a[m] <= a[i]
    <3>1. CASE i = m
      BY <1>1, <3>1
    <3>2. CASE i # m
      BY <1>0, <1>1, <3>2
    <3> QED BY <3>1, <3>2
  <2> QED BY <1>1, <2>1
<1>4. 1..m \in SUBSET C
  <2> SUFFICES ASSUME NEW i \in 1..m PROVE i \in 1..MedSize /\ a[i] <= a[m]
    OBVIOUS
  <2>1. CASE i = m
    BY <1>1, <2>1
  <2>2. CASE i # m
    BY <1>0, <1>1, <2>2
  <2> QED BY <2>1, <2>2
<1>5. Cardinality(B) < m
  <2>1. IsFiniteSet(1..(m - 1)) /\ Cardinality(1..(m - 1)) = m - 1
    BY <1>1, FS_Interval
  <2> DEFINE I == 1..(m - 1)
  <2>2. IsFiniteSet(I) /\ B \in SUBSET I /\ Cardinality(I) = m - 1
    BY <1>3, <2>1, Zenon
  <2> HIDE DEF B, I
  <2>3. Cardinality(B) <= Cardinality(I) /\ IsFiniteSet(B)
    BY <2>2, FS_Subset
  <2>4. Cardinality(B) \in Nat
    BY <2>3, FS_CardinalityType
  <2> QED BY <1>1, <2>2, <2>3, <2>4
<1>6. Cardinality(C) >= m
  <2>1. IsFiniteSet(1..MedSize) /\ Cardinality(1..m) = m
    BY <1>0, <1>1, FS_Interval
  <2>2. IsFiniteSet(C)
    <3>1. C \in SUBSET (1..MedSize)
      OBVIOUS
    <3> HIDE DEF C
    <3> QED BY <2>1, <3>1, FS_Subset
  <2> HIDE DEF C
  <2>3. Cardinality(1..m) <= Cardinality(C) /\ Cardinality(C) \in Nat
    BY <1>4, <2>2, FS_Subset, FS_CardinalityType
  <2> QED BY <1>1, <2>1, <2>3
<1>7. \A S : F!Cardinality(S) = Cardinality(S)
  BY DEF F!Cardinality, Cardinality
<1>8. /\ F!Cardinality({i \in DOMAIN a : a[i] < x}) < m
      /\ F!Cardinality({i \in DOMAIN a : a[i] <= x}) >= m
  BY <1>0, <1>5, <1>6, <1>7
<1> QED BY <1>2, <1>8 DEF F!IsMedian, m

\* Where the value of so many updates ago is in the buffer of the average filter, before
\* its index.
PlaceOf(x, k) == IF k < x - 1 THEN x - 1 - k ELSE x - 1 - k + AvgSize
InRing(a, x, h) == \A k \in 0..(AvgSize - 1) : h[k] = a[PlaceOf(x, k)]

\* An update overwrites the oldest value, and the index moves on.
LEMMA RingKept ==
  ASSUME NEW a \in [1..AvgSize -> Nat], NEW b \in [1..AvgSize -> Nat], NEW u \in Nat,
         NEW x \in 1..AvgSize, b[x] = u, \A j \in 1..AvgSize : j # x => b[j] = a[j],
         NEW h, NEW h2, Moves(h, h2, u), InRing(a, x, h)
  PROVE  InRing(b, F!NextIndex(x), h2)
<1> DEFINE y == F!NextIndex(x)
<1>0. AvgSize \in Nat \ {0}
  BY FilterConstants
<1>1. y \in 1..AvgSize /\ (IF x = AvgSize THEN y = 1 ELSE y = x + 1)
  BY <1>0 DEF F!NextIndex
<1> HIDE DEF y
<1> SUFFICES ASSUME NEW k \in 0..(AvgSize - 1) PROVE h2[k] = b[PlaceOf(y, k)]
  BY DEF InRing, y
<1>2. CASE k = 0
  <2>1. PlaceOf(y, k) = x
    BY <1>0, <1>1, <1>2 DEF PlaceOf
  <2> QED BY <1>2, <2>1 DEF Moves
<1>3. CASE k # 0
  <2>1. PlaceOf(y, k) = PlaceOf(x, k - 1) /\ PlaceOf(y, k) \in 1..AvgSize /\ PlaceOf(y, k) # x
    BY <1>0, <1>1, <1>3 DEF PlaceOf
  <2>2. k - 1 \in 0..(AvgSize - 1) /\ k \in 1..(F!Span - 1)
    BY <1>0, <1>3, SpanCovers
  <2>3. h2[k] = h[k - 1] /\ h[k - 1] = a[PlaceOf(x, k - 1)]
    BY <2>2, Zenon DEF Moves, InRing
  <2> QED BY <2>1, <2>3
<1> QED BY <1>2, <1>3

\* So the sum of the buffer is that of the last updates.
LEMMA RingSum ==
  ASSUME NEW a \in [1..AvgSize -> Nat], NEW x \in 1..AvgSize, NEW h, InRing(a, x, h),
         NEW s \in [1..AvgSize -> Nat], IsRecent(s, h, AvgSize)
  PROVE  F!Sum(a) = F!Sum(s)
<1> DEFINE n == AvgSize
           p == [i \in 1..n |-> PlaceOf(x, n - i)]
<1>0. n \in Nat \ {0}
  BY FilterConstants
<1>1. \A i \in 1..n : n - i \in 0..(n - 1) /\ PlaceOf(x, n - i) \in 1..n
  BY <1>0 DEF PlaceOf
<1>2. p \in [1..n -> 1..n] /\ \A i \in 1..n : p[i] = PlaceOf(x, n - i)
  BY <1>1
<1>3. \A i, j \in 1..n : PlaceOf(x, n - i) = PlaceOf(x, n - j) => i = j
  <2> SUFFICES ASSUME NEW i \in 1..n, NEW j \in 1..n, PlaceOf(x, n - i) = PlaceOf(x, n - j)
               PROVE  i = j
    OBVIOUS
  <2>1. n - i < x - 1 <=> n - j < x - 1
    BY <1>0 DEF PlaceOf
  <2>2. CASE n - i < x - 1
    <3>1. x - 1 - (n - i) = x - 1 - (n - j)
      BY <2>1, <2>2 DEF PlaceOf
    <3> QED BY <1>0, <3>1
  <2>3. CASE ~(n - i < x - 1)
    <3>1. x - 1 - (n - i) + n = x - 1 - (n - j) + n
      BY <2>1, <2>3 DEF PlaceOf
    <3> QED BY <1>0, <3>1
  <2> QED BY <2>2, <2>3
<1>4. ASSUME NEW j \in 1..n PROVE \E i \in 1..n : PlaceOf(x, n - i) = j
  <2>1. CASE j < x
    <3>1. n - (x - 1 - j) \in 1..n /\ PlaceOf(x, n - (n - (x - 1 - j))) = j
      BY <1>0, <2>1 DEF PlaceOf
    <3> QED BY <3>1
  <2>2. CASE j >= x
    <3>1. j - x + 1 \in 1..n /\ PlaceOf(x, n - (j - x + 1)) = j
      BY <1>0, <2>2 DEF PlaceOf
    <3> QED BY <3>1
  <2> QED BY <1>0, <2>1, <2>2
<1>5. \A i \in 1..n : s[i] = a[p[i]]
  BY <1>1, <1>2 DEF InRing, IsRecent
<1> HIDE DEF p
<1>6. \A i, j \in 1..n : p[i] = p[j] => i = j
  BY <1>2, <1>3
<1>7. \A j \in 1..n : \E i \in 1..n : p[i] = j
  BY <1>2, <1>4
<1>8. a \in [1..n -> Int] /\ s \in [1..n -> Int]
  OBVIOUS
<1>9. n \in Nat /\ Permutes(p, n) /\ Rearranged(a, s, p, n)
  BY <1>0, <1>2, <1>5, <1>6, <1>7, Zenon DEF Permutes, Rearranged
<1>10. F!Sum(s) = F!Sum(a)
  <2> HIDE DEF n
  <2> QED BY <1>8, <1>9, SumInAnyOrder, Zenon
<1> QED BY <1>10

\* A value that is far from the last ones, which do not differ, has been rejected as often.
Rejected(v, c, h) ==
  \A k \in 1..(Limit + 1) : F!Distance(v, h[0]) > MDiff /\ Lasts(h, k) => k <= c

\* A far value that comes again is turned down once more, or taken.
LEMMA RejectedKept ==
  ASSUME NEW v \in Nat, NEW v2 \in Nat, NEW c \in 0..Limit, NEW c2 \in 0..Limit, NEW u \in Nat,
         NEW h \in [Ages -> Nat], NEW h2 \in [Ages -> Nat], Moves(h, h2, u), Rejected(v, c, h),
         IF F!Distance(v, u) > MDiff /\ c < Limit THEN c2 = c + 1 /\ v2 = v ELSE c2 = 0 /\ v2 = u
  PROVE  Rejected(v2, c2, h2)
<1>0. Limit \in Nat \ {0} /\ MDiff \in Nat
  BY FilterConstants, MoreFilterConstants
<1> SUFFICES ASSUME NEW k \in 1..(Limit + 1), F!Distance(v2, h2[0]) > MDiff, Lasts(h2, k)
             PROVE  k <= c2
  BY DEF Rejected
<1>1. h2[0] = u
  BY DEF Moves
<1>2. v2 # u
  BY <1>0, <1>1 DEF F!Distance
<1>3. c2 = c + 1 /\ v2 = v /\ c < Limit
  BY <1>2
<1>4. CASE k = 1
  BY <1>3, <1>4
<1>5. CASE k # 1
  <2>1. k - 1 \in 1..(Limit + 1) /\ \A i \in 0..(k - 2) : i + 1 \in 0..(k - 1) /\ i + 1 \in 1..(F!Span - 1)
    BY <1>0, <1>5, SpanCovers
  <2>2. \A i \in 0..(k - 2) : h2[i + 1] = h[i] /\ h2[i + 1] = u
    <3> TAKE i \in 0..(k - 2)
    <3>1. h2[i + 1] = h[(i + 1) - 1] /\ (i + 1) - 1 = i
      BY <2>1 DEF Moves
    <3>2. h2[i + 1] = h2[0]
      BY <2>1, Zenon DEF Lasts
    <3> QED BY <1>1, <3>1, <3>2
  <2>3. h[0] = u /\ Lasts(h, k - 1)
    <3>1. 0 \in 0..(k - 2) /\ (k - 1) - 1 = k - 2
      BY <1>5
    <3>2. h[0] = u
      BY <2>2, <3>1
    <3> QED BY <2>2, <3>1, <3>2 DEF Lasts
  <2>4. k - 1 <= c
    BY <1>1, <1>3, <2>1, <2>3 DEF Rejected
  <2> QED BY <1>3, <2>4
<1> QED BY <1>4, <1>5

\* What Shifted leaves of a buffer, place by place.
LEMMA ShiftedIs ==
  ASSUME NEW n \in Nat \ {0}, NEW a \in Seq(Held), Len(a) = n, NEW u \in Held
  PROVE  /\ Append(Tail(a), u)[n] = u
         /\ \A i \in 1..n : i < n => Append(Tail(a), u)[i] = a[i + 1]
OBVIOUS

\* The values of the FIR filter are the last ones.
LEMMA FirKept ==
  ASSUME NEW a, Buffer(a, 3), NEW u \in Held,
         NEW h, NEW h2, Moves(h, h2, u), IsRecent(a, h, 3)
  PROVE  IsRecent(Append(Tail(a), u), h2, 3)
<1> DEFINE b == Append(Tail(a), u)
<1>1. b[1] = a[2] /\ b[2] = a[3] /\ b[3] = u
  <2>1. b[3] = u /\ \A i \in 1..3 : i < 3 => b[i] = a[i + 1]
    <3>1. a \in Seq(Held) /\ Len(a) = 3 /\ 3 \in Nat \ {0}
      BY DEF Buffer
    <3> QED BY <3>1, ShiftedIs, Zenon
  <2> HIDE DEF b
  <2>2. 1 \in 1..3 /\ 2 \in 1..3 /\ 1 < 3 /\ 2 < 3 /\ 1 + 1 = 2 /\ 2 + 1 = 3
    OBVIOUS
  <2>3. b[1] = a[1 + 1] /\ b[2] = a[2 + 1]
    BY <2>1, <2>2, Zenon
  <2> QED BY <2>1, <2>2, <2>3
<1>2. a[2] = h[1] /\ a[3] = h[0]
  <2>1. \A i \in 1..3 : a[i] = h[3 - i]
    BY DEF IsRecent
  <2>2. 2 \in 1..3 /\ 3 \in 1..3 /\ 3 - 2 = 1 /\ 3 - 3 = 0
    OBVIOUS
  <2> QED BY <2>1, <2>2
<1>3. h2[0] = u /\ h2[1] = h[0] /\ h2[2] = h[1]
  <2>1. 1 \in 1..(F!Span - 1) /\ 2 \in 1..(F!Span - 1) /\ 1 - 1 = 0 /\ 2 - 1 = 1
    BY SpanCovers
  <2> QED BY <2>1 DEF Moves
<1> HIDE DEF b
<1>4. \A i \in 1..3 : b[i] = h2[3 - i]
  <2> TAKE i \in 1..3
  <2>1. i = 1 \/ i = 2 \/ i = 3
    OBVIOUS
  <2> QED BY <1>1, <1>2, <1>3, <2>1
<1> QED BY <1>4 DEF IsRecent, b

\* The gains of the FIR filter add up.
LEMMA LevelWeighs ==
  ASSUME NEW v \in Nat, NEW a, a[1] = v, a[2] = v, a[3] = v
  PROVE  F!Weighted(a) = 2 * Scale * v
<1>1. Scale \in Nat /\ FirGain \in Nat
  BY MoreFilterConstants
<1>2. (Scale - FirGain) * v = Scale * v - FirGain * v
  BY <1>1
<1>3. 2 * FirGain * v = 2 * (FirGain * v) /\ 2 * Scale * v = 2 * (Scale * v)
  BY <1>1
<1>4. FirGain * v \in Int /\ Scale * v \in Int
  BY <1>1
<1> QED BY <1>2, <1>3, <1>4 DEF F!Weighted

\* How buffers and outputs follow from the updates before, h.
Follows(m, a, x, v, c, f, o, h, rises) ==
  /\ F!InOrder(m) /\ Copies(m, h) /\ Leveled(m, h)
  /\ rises => Falls(h) /\ IsRecent(m, h, MedSize)
  /\ InRing(a, x, h) /\ IsRecent(f, h, 3) /\ Rejected(v, c, h)
  /\ o = [median |-> m[F!Middle], sum |-> F!Sum(a), outlier |-> v, fir |-> F!Weighted(f)]

HistoryInv ==
  /\ Buffer(recent, F!Span)
  /\ Follows(mArray, aArray, aIndex, ofValue, ofCount, fValue, out, Ago, rising)

\* The middle is a place in the buffer.
LEMMA MiddleIs == F!Middle \in 1..MedSize
<1>1. MedSize \in Nat \ {0} /\ (MedSize \div 2) + 1 \in 1..MedSize
  BY FilterConstants
<1> QED BY <1>1 DEF F!Middle

\* After a reset.
LEMMA ZerosFollow ==
  ASSUME NEW h \in [Ages -> Nat], \A k \in Ages : h[k] = 0
  PROVE  Follows(F!Zeros(MedSize), F!Zeros(AvgSize), 1, 0, 0, F!Zeros(3), F!NoOutput, h, TRUE)
<1> DEFINE m == F!Zeros(MedSize)
           a == F!Zeros(AvgSize)
           f == F!Zeros(3)
<1>0. /\ MedSize \in Nat \ {0} /\ AvgSize \in Nat \ {0} /\ Limit \in Nat \ {0} /\ MDiff \in Nat
      /\ h[0] = 0 /\ h[1] = 0
  BY FilterConstants, MoreFilterConstants, SpanCovers DEF Ages
<1>1. /\ \A i \in 1..MedSize : m[i] = 0
      /\ \A i \in 1..AvgSize : a[i] = 0
      /\ f[1] = 0 /\ f[2] = 0 /\ f[3] = 0 /\ DOMAIN m = 1..MedSize
  BY DEF F!Zeros
<1>2. F!Sum(a) = 0
  BY <1>0, SumOfZeros
<1> HIDE DEF m, a, f
<1>3. F!InOrder(m)
  BY <1>1 DEF F!InOrder
<1>4. Copies(m, h)
  <2> SUFFICES ASSUME NEW k \in 1..MedSize
               PROVE  \E p \in 0..(MedSize - k) :
                        \A i \in 1..MedSize : p < i /\ i <= p + k => m[i] = h[0]
    BY DEF Copies
  <2>1. 0 \in 0..(MedSize - k)
    BY <1>0
  <2> QED BY <1>0, <1>1, <2>1
<1>5. Leveled(m, h)
  BY <1>0, <1>1 DEF Leveled
<1>6. Falls(h)
  BY DEF Falls
<1>7. IsRecent(m, h, MedSize)
  <2> SUFFICES ASSUME NEW i \in 1..MedSize PROVE m[i] = h[MedSize - i]
    BY DEF IsRecent
  <2>1. MedSize - i \in Ages
    BY <1>0, SpanCovers DEF Ages
  <2> QED BY <1>1, <2>1
<1>8. InRing(a, 1, h)
  <2> SUFFICES ASSUME NEW k \in 0..(AvgSize - 1) PROVE h[k] = a[PlaceOf(1, k)]
    BY DEF InRing
  <2>1. k \in Ages /\ PlaceOf(1, k) \in 1..AvgSize
    BY <1>0, SpanCovers DEF Ages, PlaceOf
  <2> QED BY <1>1, <2>1
<1>9. IsRecent(f, h, 3)
  <2> SUFFICES ASSUME NEW i \in 1..3 PROVE f[i] = h[3 - i]
    BY DEF IsRecent
  <2>1. 3 - i \in Ages /\ (i = 1 \/ i = 2 \/ i = 3)
    BY SpanCovers DEF Ages
  <2> QED BY <1>1, <2>1
<1>10. Rejected(0, 0, h)
  <2>1. F!Distance(0, h[0]) = 0
    BY <1>0 DEF F!Distance
  <2>2. ~(F!Distance(0, h[0]) > MDiff)
    BY <1>0, <2>1
  <2> QED BY <2>2, Zenon DEF Rejected
<1>11. F!NoOutput = [median |-> m[F!Middle], sum |-> F!Sum(a), outlier |-> 0,
                     fir |-> F!Weighted(f)]
  <2>1. F!Weighted(f) = 2 * Scale * 0
    BY <1>1, LevelWeighs
  <2>2. 2 * Scale * 0 = 0
    BY MoreFilterConstants
  <2>3. m[F!Middle] = 0
    BY <1>1, MiddleIs
  <2> QED BY <1>2, <2>1, <2>2, <2>3, Zenon DEF F!NoOutput
<1> QED BY <1>3, <1>4, <1>5, <1>6, <1>7, <1>8, <1>9, <1>10, <1>11, Zenon DEF Follows, m, a, f

\* At the beginning and after a reset all updates were zeros.
LEMMA HistoryInit == F!Init => HistoryInv
<1> SUFFICES ASSUME F!Init PROVE HistoryInv
  OBVIOUS
<1>1. /\ mArray = F!Zeros(MedSize) /\ aArray = F!Zeros(AvgSize) /\ aIndex = 1
      /\ ofValue = 0 /\ ofCount = 0 /\ fValue = F!Zeros(3) /\ out = F!NoOutput
      /\ recent = F!Zeros(F!Span) /\ rising = TRUE
  BY Zenon DEF F!Init
<1>2. Buffer(recent, F!Span)
  BY <1>1, SpanCovers, ZerosAre
<1>3. \A k \in Ages : Ago[k] = 0
  <2> TAKE k \in Ages
  <2>1. Ago[k] = recent[F!Span - k] /\ F!Span - k \in 1..F!Span
    BY <1>2, AgoIs, SpanCovers DEF Ages
  <2> QED BY <1>1, <2>1 DEF F!Zeros
<1>4. Ago \in [Ages -> Nat]
  BY <1>2, AgoIs
<1> QED BY <1>1, <1>2, <1>3, <1>4, ZerosFollow DEF HistoryInv

LEMMA HistoryReset == F!Reset => HistoryInv'
<1> SUFFICES ASSUME F!Reset PROVE HistoryInv'
  OBVIOUS
<1>1. /\ mArray' = F!Zeros(MedSize) /\ aArray' = F!Zeros(AvgSize) /\ aIndex' = 1
      /\ ofValue' = 0 /\ ofCount' = 0 /\ fValue' = F!Zeros(3) /\ out' = F!NoOutput
      /\ recent' = F!Zeros(F!Span) /\ rising' = TRUE
  BY Zenon DEF F!Reset
<1>2. F!Span' = F!Span
  BY DEF F!Span, F!Max
<1>3. Buffer(recent', F!Span)
  BY <1>1, SpanCovers, ZerosAre
<1>4. Ago' = [k \in Ages |-> recent'[F!Span - k]]
  BY <1>2 DEF Ago, Ages
<1>5. \A k \in Ages : Ago'[k] = 0
  <2> TAKE k \in Ages
  <2>1. Ago'[k] = recent'[F!Span - k] /\ F!Span - k \in 1..F!Span
    BY <1>4, SpanCovers DEF Ages
  <2> QED BY <1>1, <2>1 DEF F!Zeros
<1>6. Ago' \in [Ages -> Nat]
  BY <1>4, <1>5
<1>7. Follows(mArray', aArray', aIndex', ofValue', ofCount', fValue', out', Ago', rising')
  BY <1>1, <1>5, <1>6, ZerosFollow
<1> QED BY <1>2, <1>3, <1>7 DEF HistoryInv, Buffer, Held, Follows, F!InOrder, Copies, Leveled

\* Functions with the same values are the same.
LEMMA SameFunction ==
  ASSUME NEW n, NEW f \in [1..n -> Nat], NEW g \in [1..n -> Nat],
         \A i \in 1..n : f[i] = g[i]
  PROVE  f = g
<1>1. f = [i \in 1..n |-> f[i]] /\ g = [i \in 1..n |-> g[i]]
  OBVIOUS
<1>2. [i \in 1..n |-> f[i]] = [i \in 1..n |-> g[i]]
  OBVIOUS
<1> QED BY <1>1, <1>2, Zenon

\* The update of all four filters.
LEMMA HistoryUpdate ==
  ASSUME FilterTypes, HistoryInv, NEW u \in Values, F!Update(u)
  PROVE  HistoryInv'
<1>0. /\ u \in Held /\ u \in Nat /\ MedSize \in Nat \ {0} /\ AvgSize \in Nat \ {0}
      /\ Limit \in Nat \ {0} /\ F!Span \in Nat \ {0} /\ Held \subseteq Nat
  BY FilterConstants, SpanCovers DEF Held
<1>1. /\ mArray' = F!MedianUpdate(mArray, u)
      /\ aArray' = [aArray EXCEPT ![aIndex] = u] /\ aIndex' = F!NextIndex(aIndex)
      /\ IF F!IsOutlier(u) THEN ofCount' = ofCount + 1 /\ ofValue' = ofValue
                           ELSE ofCount' = 0 /\ ofValue' = u
      /\ fValue' = Append(Tail(fValue), u)
      /\ out' = [median |-> mArray'[F!Middle], sum |-> F!Sum(aArray'), outlier |-> ofValue',
                 fir |-> F!Weighted(fValue')]
      /\ recent' = Append(Tail(recent), u)
      /\ rising' = (rising /\ u >= F!Last(recent))
  BY Zenon DEF F!Update
<1>2. /\ Buffer(mArray, MedSize) /\ Buffer(aArray, AvgSize) /\ Buffer(fValue, 3)
      /\ aIndex \in 1..AvgSize /\ ofValue \in Held /\ ofCount \in 0..Limit
  BY DEF FilterTypes
<1>3. /\ Buffer(recent, F!Span)
      /\ F!InOrder(mArray) /\ Copies(mArray, Ago) /\ Leveled(mArray, Ago)
      /\ rising => Falls(Ago) /\ IsRecent(mArray, Ago, MedSize)
      /\ InRing(aArray, aIndex, Ago) /\ IsRecent(fValue, Ago, 3) /\ Rejected(ofValue, ofCount, Ago)
  BY DEF HistoryInv, Follows
<1>4. F!Span' = F!Span
  BY DEF F!Span, F!Max
<1>5. Buffer(recent', F!Span)
  BY <1>0, <1>1, <1>3, Shifted
<1> DEFINE h2 == Ago'
<1>6. Moves(Ago, h2, u)
  BY <1>0, <1>1, <1>3, AgoMoves
<1>7. Ago \in [Ages -> Nat] /\ F!Last(recent) = Ago[0]
  BY <1>3, AgoIs
<1>8. h2 \in [Ages -> Nat]
  <2>1. Ages' = Ages
    BY <1>4 DEF Ages
  <2>2. Ago' = [k \in Ages |-> recent'[F!Span - k]]
    BY <1>4, <2>1 DEF Ago
  <2>3. recent' \in [1..F!Span -> Nat]
    BY <1>0, <1>5, BufferIs
  <2>4. \A k \in Ages : F!Span - k \in 1..F!Span
    BY <1>0 DEF Ages
  <2> QED BY <2>2, <2>3, <2>4
<1> HIDE DEF h2
<1>9. Buffer(mArray', MedSize) /\ Inserted(mArray, mArray', u)
  BY <1>0, <1>1, <1>2, MedianUpdateIs, MedianInserts
<1>10. mArray \in [1..MedSize -> Nat] /\ mArray' \in [1..MedSize -> Nat]
  BY <1>0, <1>2, <1>9, BufferIs
<1>11. F!InOrder(mArray')
  BY <1>0, <1>3, <1>9, <1>10, OrderKept
<1>12. Copies(mArray', h2)
  BY <1>0, <1>3, <1>6, <1>7, <1>8, <1>9, <1>10, CopiesKept
<1>13. Leveled(mArray', h2)
  BY <1>0, <1>3, <1>6, <1>7, <1>8, <1>9, <1>10, LeveledAfter
<1>14. rising' => Falls(h2) /\ IsRecent(mArray', h2, MedSize)
  <2> SUFFICES ASSUME rising' PROVE Falls(h2) /\ IsRecent(mArray', h2, MedSize)
    OBVIOUS
  <2>1. rising /\ u >= Ago[0]
    BY <1>1, <1>7, Zenon
  <2>2. Falls(Ago) /\ IsRecent(mArray, Ago, MedSize)
    BY <1>3, <2>1, Zenon
  <2> QED BY <1>0, <1>6, <1>7, <1>8, <1>9, <1>10, <2>1, <2>2, RisingKept
<1>15. InRing(aArray', aIndex', h2)
  <2>1. aArray \in [1..AvgSize -> Nat]
    BY <1>0, <1>2, BufferIs
  <2>2. /\ aArray' \in [1..AvgSize -> Nat] /\ aArray'[aIndex] = u
        /\ \A j \in 1..AvgSize : j # aIndex => aArray'[j] = aArray[j]
    BY <1>0, <1>1, <1>2, <2>1
  <2>3. InRing(aArray', F!NextIndex(aIndex), h2)
    BY <1>0, <1>2, <1>3, <1>6, <2>1, <2>2, RingKept, Zenon
  <2> QED BY <1>1, <2>3
<1>16. IsRecent(fValue', h2, 3)
  BY <1>0, <1>1, <1>2, <1>3, <1>6, FirKept
<1>17. Rejected(ofValue', ofCount', h2)
  <2>1. IF F!Distance(ofValue, u) > MDiff /\ ofCount < Limit
          THEN ofCount' = ofCount + 1 /\ ofValue' = ofValue ELSE ofCount' = 0 /\ ofValue' = u
    BY <1>1 DEF F!IsOutlier
  <2>2. ofCount' \in 0..Limit /\ ofValue' \in Nat /\ ofValue \in Nat
    BY <1>0, <1>2, <2>1
  <2> QED BY <1>0, <1>2, <1>3, <1>6, <1>7, <1>8, <2>1, <2>2, RejectedKept, Zenon
<1>18. Follows(mArray', aArray', aIndex', ofValue', ofCount', fValue', out', h2, rising')
  BY <1>1, <1>11, <1>12, <1>13, <1>14, <1>15, <1>16, <1>17, Zenon DEF Follows
<1> QED BY <1>4, <1>5, <1>18 DEF HistoryInv, Buffer, Held, h2

LEMMA HistoryStep == ASSUME FilterTypes, HistoryInv, F!Next \/ UNCHANGED F!vars PROVE HistoryInv'
<1>1. CASE F!Next
  BY <1>1, HistoryReset, HistoryUpdate DEF F!Next
<1>2. CASE UNCHANGED F!vars
  <2>1. F!Span' = F!Span
    BY DEF F!Span, F!Max
  <2>2. UNCHANGED <<mArray, aArray, aIndex, ofValue, ofCount, fValue, out, recent, rising>>
    BY <1>2 DEF F!vars
  <2>3. Ago' = Ago
    BY <2>1, <2>2 DEF Ago, Ages
  <2>4. HistoryInv' = HistoryInv
    BY <2>1, <2>2, <2>3 DEF HistoryInv, Buffer, Held
  <2> QED BY <2>4
<1> QED BY <1>1, <1>2

\* A constant end of the history is one that lasts.
LEMMA ConstantLasts ==
  ASSUME Buffer(recent, F!Span), NEW n \in 1..F!Span, F!IsConstant(n)
  PROVE  Lasts(Ago, n)
<1>1. /\ F!Last(recent) = Ago[0] /\ \A i \in 1..n : F!LastOf(n)[i] = Ago[n - i]
  BY AgoIs
<1>2. \A i \in 1..n : Ago[n - i] = Ago[0]
  BY <1>1 DEF F!IsConstant
<1> SUFFICES ASSUME NEW i \in 0..(n - 1) PROVE Ago[i] = Ago[0]
  BY DEF Lasts
<1>3. n - i \in 1..n /\ n - (n - i) = i
  BY SpanCovers
<1> QED BY <1>2, <1>3

\* What the history promises of the outputs.
LEMMA HistoryPromise ==
  ASSUME FilterTypes, HistoryInv
  PROVE  /\ F!MedianOfRising /\ F!MedianTakesLevel /\ F!AverageOfLast /\ F!FirKeepsLevel
         /\ F!LevelIsTaken
<1>0. /\ MedSize \in Nat \ {0} /\ AvgSize \in Nat \ {0} /\ Limit \in Nat \ {0}
      /\ F!Span \in Nat /\ MedSize \in 1..F!Span /\ AvgSize \in 1..F!Span
      /\ Limit + 1 \in 1..F!Span /\ 3 \in 1..F!Span
  BY FilterConstants, SpanCovers
<1>1. /\ Buffer(mArray, MedSize) /\ Buffer(aArray, AvgSize) /\ aIndex \in 1..AvgSize
      /\ ofCount \in 0..Limit
  BY DEF FilterTypes
<1>2. /\ Buffer(recent, F!Span)
      /\ F!InOrder(mArray) /\ Copies(mArray, Ago) /\ Leveled(mArray, Ago)
      /\ rising => IsRecent(mArray, Ago, MedSize)
      /\ InRing(aArray, aIndex, Ago) /\ IsRecent(fValue, Ago, 3) /\ Rejected(ofValue, ofCount, Ago)
      /\ out = [median |-> mArray[F!Middle], sum |-> F!Sum(aArray), outlier |-> ofValue,
                fir |-> F!Weighted(fValue)]
  BY DEF HistoryInv, Follows
<1>3. /\ out.median = mArray[F!Middle] /\ out.sum = F!Sum(aArray) /\ out.outlier = ofValue
      /\ out.fir = F!Weighted(fValue)
  BY <1>2
<1>4. /\ Ago \in [Ages -> Nat] /\ F!Last(recent) = Ago[0]
      /\ \A n \in 1..F!Span : /\ F!LastOf(n) \in [1..n -> Nat]
                              /\ \A i \in 1..n : F!LastOf(n)[i] = Ago[n - i]
      /\ \A k \in Ages : Ago[k] = recent[F!Span - k]
  BY <1>2, AgoIs
<1>5. mArray \in [1..MedSize -> Nat] /\ aArray \in [1..AvgSize -> Nat]
  BY <1>0, <1>1, BufferIs
<1>6. F!MedianOfRising
  <2>1. ASSUME rising PROVE F!IsMedian(out.median, F!LastOf(MedSize))
    <3>1. \A i \in 1..MedSize : F!LastOf(MedSize)[i] = mArray[i]
      <4>1. \A i \in 1..MedSize : F!LastOf(MedSize)[i] = Ago[MedSize - i]
        BY <1>0, <1>4, Zenon
      <4>2. \A i \in 1..MedSize : mArray[i] = Ago[MedSize - i]
        BY <1>2, <2>1, Zenon DEF IsRecent
      <4> QED BY <4>1, <4>2, Zenon
    <3>2. F!LastOf(MedSize) = mArray
      <4>1. F!LastOf(MedSize) \in [1..MedSize -> Nat]
        BY <1>0, <1>4, Zenon
      <4> DEFINE s == F!LastOf(MedSize)
      <4>2. s \in [1..MedSize -> Nat] /\ \A i \in 1..MedSize : s[i] = mArray[i]
        BY <3>1, <4>1
      <4> HIDE DEF s
      <4>3. s = mArray
        BY <1>5, <4>2, SameFunction, Zenon
      <4> QED BY <4>3 DEF s
    <3>3. F!IsMedian(mArray[F!Middle], mArray)
      BY <1>2, <1>5, MiddleIsMedian
    <3> QED BY <1>3, <3>2, <3>3
  <2> QED BY <1>2, <2>1, Zenon DEF F!MedianOfRising
<1>7. F!MedianTakesLevel
  <2>1. ASSUME F!IsConstant(MedSize) PROVE out.median = F!Last(recent)
    <3>1. Lasts(Ago, MedSize) /\ MedSize \in 1..MedSize
      BY <1>0, <1>2, <2>1, ConstantLasts
    <3>2. PICK p \in 0..(MedSize - MedSize) :
            \A i \in 1..MedSize : p < i /\ i <= p + MedSize => mArray[i] = Ago[0]
      BY <1>2, <3>1, Zenon DEF Copies
    <3>3. \A i \in 1..MedSize : mArray[i] = Ago[0]
      BY <1>0, <3>2
    <3> QED BY <1>3, <1>4, <3>3, MiddleIs
  <2>2. ASSUME MedSize > 2, \A i \in 1..MedSize : recent[F!Span - i] = recent[F!Span - 1]
        PROVE  out.median = recent[F!Span - 1]
    <3>1. \A i \in 1..MedSize : i \in Ages /\ 1 \in Ages
      BY <1>0, SpanCovers DEF Ages
    <3>2. \A i \in 1..MedSize : Ago[i] = Ago[1]
      BY <1>4, <2>2, <3>1
    <3>3. F!Middle \in 2..(MedSize - 1)
      <4>1. (MedSize \div 2) + 1 \in 2..(MedSize - 1)
        BY <1>0, <2>2
      <4> QED BY <4>1 DEF F!Middle
    <3>4. mArray[F!Middle] = Ago[1]
      BY <1>2, <3>2, <3>3, Zenon DEF Leveled
    <3>5. Ago[1] = recent[F!Span - 1]
      <4>1. 1 \in Ages
        BY SpanCovers DEF Ages
      <4> QED BY <1>4, <4>1, Zenon
    <3> QED BY <1>3, <3>4, <3>5
  <2> QED BY <2>1, <2>2, Zenon DEF F!MedianTakesLevel
<1>8. F!AverageOfLast
  <2>1. /\ F!LastOf(AvgSize) \in [1..AvgSize -> Nat]
        /\ \A i \in 1..AvgSize : F!LastOf(AvgSize)[i] = Ago[AvgSize - i]
    BY <1>0, <1>4, Zenon
  <2>2. F!Sum(aArray) = F!Sum(F!LastOf(AvgSize))
    <3> DEFINE s == F!LastOf(AvgSize)
               h == Ago
    <3>1. s \in [1..AvgSize -> Nat] /\ IsRecent(s, h, AvgSize)
      BY <2>1, Zenon DEF IsRecent
    <3>2. InRing(aArray, aIndex, h)
      BY <1>2, Zenon
    <3> HIDE DEF s, h
    <3>3. aArray \in [1..AvgSize -> Nat] /\ aIndex \in 1..AvgSize
      BY <1>1, <1>5, Zenon
    <3>4. F!Sum(aArray) = F!Sum(s)
      BY <3>1, <3>2, <3>3, RingSum
    <3> QED BY <3>4 DEF s
  <2> QED BY <1>3, <2>2 DEF F!AverageOfLast
<1>9. F!FirKeepsLevel
  <2> SUFFICES ASSUME F!IsConstant(3) PROVE out.fir = 2 * Scale * F!Last(recent)
    BY Zenon DEF F!FirKeepsLevel
  <2>1. Lasts(Ago, 3)
    BY <1>0, <1>2, ConstantLasts
  <2>2. Ago[2] = Ago[0] /\ Ago[1] = Ago[0]
    <3>1. 1 \in 0..(3 - 1) /\ 2 \in 0..(3 - 1)
      OBVIOUS
    <3> QED BY <2>1, <3>1, Zenon DEF Lasts
  <2>3. fValue[1] = Ago[0] /\ fValue[2] = Ago[0] /\ fValue[3] = Ago[0]
    <3>1. 1 \in 1..3 /\ 2 \in 1..3 /\ 3 \in 1..3 /\ 3 - 1 = 2 /\ 3 - 2 = 1 /\ 3 - 3 = 0
      OBVIOUS
    <3>2. \A i \in 1..3 : fValue[i] = Ago[3 - i]
      BY <1>2 DEF IsRecent
    <3> QED BY <2>2, <3>1, <3>2
  <2>4. Ago[0] \in Nat
    BY <1>4, SpanCovers DEF Ages
  <2>5. F!Weighted(fValue) = 2 * Scale * Ago[0]
    BY <2>3, <2>4, LevelWeighs
  <2> QED BY <1>3, <1>4, <2>5
<1>10. F!LevelIsTaken
  <2> SUFFICES ASSUME F!IsConstant(Limit + 1)
               PROVE  F!Distance(out.outlier, F!Last(recent)) <= MDiff
    BY Zenon DEF F!LevelIsTaken
  <2>1. Lasts(Ago, Limit + 1) /\ Limit + 1 \in 1..(Limit + 1)
    BY <1>0, <1>2, ConstantLasts
  <2>2. F!Distance(ofValue, Ago[0]) > MDiff => Limit + 1 <= ofCount
    BY <1>2, <2>1, Zenon DEF Rejected
  <2>3. ~(F!Distance(ofValue, Ago[0]) > MDiff)
    BY <1>0, <1>1, <2>2
  <2>4. F!Distance(ofValue, Ago[0]) \in Int /\ MDiff \in Int
    <3>1. ofValue \in Nat /\ Ago[0] \in Nat
      BY <1>4, FilterConstants, SpanCovers DEF Ages, FilterTypes, Held
    <3> QED BY <3>1, MoreFilterConstants DEF F!Distance
  <2> QED BY <1>3, <1>4, <2>3, <2>4
<1> QED BY <1>6, <1>7, <1>8, <1>9, <1>10

\* outlier_filter_update takes a far value only once Limit of them were turned down.
LEMMA FarIsLate ==
  ASSUME FilterTypes, F!Next \/ UNCHANGED F!vars
  PROVE  [F!Distance(ofValue, ofValue') > MDiff => ofCount = Limit \/ count' = 0]_(F!vars)
<1>0. ofValue \in Nat /\ ofCount \in 0..Limit /\ Limit \in Nat /\ MDiff \in Nat
  BY FilterConstants, MoreFilterConstants DEF FilterTypes, Held
<1>1. CASE F!Reset
  BY <1>1 DEF F!Reset
<1>2. ASSUME NEW u \in Values, F!Update(u), F!Distance(ofValue, ofValue') > MDiff
      PROVE  ofCount = Limit
  <2>1. IF F!Distance(ofValue, u) > MDiff /\ ofCount < Limit THEN ofValue' = ofValue
                                                             ELSE ofValue' = u
    BY <1>2 DEF F!Update, F!IsOutlier
  <2>2. ofValue' # ofValue
    BY <1>0, <1>2 DEF F!Distance
  <2>3. ~(ofCount < Limit)
    BY <1>2, <2>1, <2>2
  <2> QED BY <1>0, <2>3
<1> QED BY <1>1, <1>2, Zenon DEF F!Next

FilterInv == FilterTypes /\ HistoryInv

LEMMA FilterInit == F!Init => FilterInv
BY FilterTypesInit, HistoryInit DEF FilterInv

LEMMA FilterStep == ASSUME FilterInv, F!Next \/ UNCHANGED F!vars PROVE FilterInv'
BY FilterTypesStep, HistoryStep DEF FilterInv

LEMMA FilterPromise ==
  FilterInv => /\ F!TypeOK /\ F!MedianOfRising /\ F!MedianTakesLevel /\ F!AverageOfLast
               /\ F!FirKeepsLevel /\ F!LevelIsTaken
BY FilterTypesPromise, HistoryPromise, Zenon DEF FilterInv

-----------------------------------------------------------------------------
(***************************************************************************)
(* OriginalLoop.  A tilt that is no longer the y controller's has been so  *)
(* for no longer than its cadence.                                         *)
(***************************************************************************)
\* The parts of the assumption about the constants.
LEMMA OriginalConstants ==
  /\ Samples \subseteq Int /\ Commands \subseteq Int
  /\ TiltLimit \in Nat /\ OriginalThreshold \in Nat /\ MotorMax \in Nat /\ LiftOff \in Nat
  /\ PosGain \in Nat \ {0} /\ RevStep \in Nat \ {0}
BY GumstixConstantsOK DEF O!OriginalConstantsOK

\* A quotient is no more than what is divided.
LEMMA QuotientBound ==
  ASSUME NEW n \in Nat, NEW d \in Nat \ {0}
  PROVE  n \div d <= n
<1>1. /\ n \div d \in Int /\ n % d \in 0..(d - 1)
      /\ n = d * (n \div d) + (n % d)
  OBVIOUS
<1>2. SUFFICES ASSUME n \div d >= n + 1 PROVE FALSE
  BY <1>1
<1>3. d * (n \div d) >= n \div d
  BY <1>1, <1>2
<1> QED BY <1>1, <1>2, <1>3

\* A flight is never settled; until a new place comes the offset is the last one; and
\* a tilt that is not the y controller's is no older than its cadence counter.
FlyingIsUnsettled == pos_heli_state = "flying" => ~pos_heli_settled
OffsetIsLastPlace == ~moved => last_sensor_y = data_offset_y
TiltIsYoung == cmd_roll \in -TiltLimit..TiltLimit \/ regulated <= delay_roll

OriginalInv ==
  /\ O!TypeOK /\ O!StartsLevel /\ O!TakeOffReadsZero
  /\ FlyingIsUnsettled /\ OffsetIsLastPlace /\ TiltIsYoung

LEMMA OriginalInit == O!Init => OriginalInv
<1> SUFFICES ASSUME O!Init PROVE OriginalInv
  OBVIOUS
<1> USE DEF O!Init
<1>1. O!TypeOK
  <2>1. pos_heli_settled \in BOOLEAN /\ moved \in BOOLEAN
    BY Zenon
  <2>2. /\ motor_signals \in (1 - RevStep)..MotorMax
        /\ motor_speed_revving \in 0..(LiftOff + RevStep - 1)
        /\ pos_command_data_delay \in 0..(OriginalThreshold + 1)
        /\ delay_roll \in 0..(PosGain - 1) /\ regulated \in 0..PosGain
        /\ 0 \in -TiltLimit..TiltLimit
    BY OriginalConstants
  <2> QED BY <2>1, <2>2 DEF O!TypeOK
<1>2. O!StartsLevel /\ O!TakeOffReadsZero
  BY DEF O!StartsLevel, O!TakeOffReadsZero
<1>3. FlyingIsUnsettled /\ OffsetIsLastPlace /\ TiltIsYoung
  BY DEF FlyingIsUnsettled, OffsetIsLastPlace, TiltIsYoung
<1> QED BY <1>1, <1>2, <1>3 DEF OriginalInv

\* What the y controller puts out is within the limit.
LEMMA ClampIs ==
  ASSUME NEW v \in Int, NEW lo \in Int, NEW hi \in Int, lo <= hi
  PROVE  O!Clamp(v, lo, hi) \in lo..hi
BY DEF O!Clamp

\* The first half of compute_motor_signals: the tilt to fly.
LEMMA TiltStep ==
  ASSUME OriginalInv, O!ComputeTilt
  PROVE  /\ cmd_roll' \in Commands \cup (-TiltLimit..TiltLimit)
         /\ delay_roll' \in 0..(PosGain - 1) /\ regulated' \in 0..PosGain
         /\ TiltIsYoung'
<1> USE DEF OriginalInv
<1>1. /\ delay_roll \in 0..(PosGain - 1) /\ regulated \in 0..PosGain /\ command_roll \in Int
      /\ command_roll \in Commands \cup (-TiltLimit..TiltLimit)
      /\ cmd_roll \in Commands \cup (-TiltLimit..TiltLimit)
      /\ PosGain \in Nat \ {0} /\ TiltLimit \in Nat /\ Samples \subseteq Int
  BY OriginalConstants DEF O!TypeOK
<1>2. CASE heli_mode # "position"
  BY <1>1, <1>2 DEF O!ComputeTilt, TiltIsYoung
<1>3. CASE heli_mode = "position"
  <2>1. regulated' = O!Clamp(regulated + 1, 0, PosGain)
    BY <1>3 DEF O!ComputeTilt
  <2>2. regulated' \in 0..PosGain /\ regulated' <= regulated + 1
    BY <1>1, <2>1 DEF O!Clamp
  <2>3. PICK estimate \in Samples :
          IF O!Due(estimate)
          THEN /\ delay_roll' = 0
               /\ \E u \in SomeTilts : cmd_roll' = O!Clamp(u, -TiltLimit, TiltLimit)
          ELSE delay_roll' = delay_roll + 1 /\ UNCHANGED cmd_roll
    BY <1>3 DEF O!ComputeTilt
  <2>4. CASE O!Due(estimate)
    <3>1. cmd_roll' \in -TiltLimit..TiltLimit
      BY <1>1, <2>3, <2>4 DEF O!Clamp, SomeTilts
    <3> QED BY <1>1, <2>2, <2>3, <2>4, <3>1 DEF TiltIsYoung
  <2>5. CASE ~O!Due(estimate)
    <3> DEFINE d == O!Distance(command_roll, estimate) + 1
    <3>1. d \in Nat \ {0}
      BY <1>1 DEF O!Distance
    <3>2. ~(delay_roll + 1 >= PosGain \div d)
      BY <2>5 DEF O!Due
    <3> HIDE DEF d
    <3>3. PosGain \div d <= PosGain /\ PosGain \div d \in Int
      BY <1>1, <3>1, QuotientBound
    <3>4. delay_roll' = delay_roll + 1 /\ delay_roll' \in 0..(PosGain - 1)
      BY <1>1, <2>3, <2>5, <3>2, <3>3
    <3> QED BY <1>1, <2>2, <2>3, <2>5, <3>4 DEF TiltIsYoung
  <2> QED BY <2>4, <2>5
<1> QED BY <1>2, <1>3

\* An iteration ends: the rotors go down, stop, or are those of a flight.
LEMMA OriginalAct ==
  ASSUME OriginalInv, O!Act PROVE OriginalInv'
<1>1. /\ at' = "send"
      /\ UNCHANGED <<pos_heli_state, heli_mode, pos_command_data_delay, last_sensor_y,
                     data_offset_y, position, moved>>
  BY DEF O!Act, O!placeVars
<1>2. /\ O!TypeOK /\ O!StartsLevel /\ O!TakeOffReadsZero
      /\ FlyingIsUnsettled /\ OffsetIsLastPlace /\ TiltIsYoung
  BY DEF OriginalInv
<1>3. O!TakeOffReadsZero' /\ OffsetIsLastPlace'
  BY <1>1, <1>2 DEF O!TakeOffReadsZero, OffsetIsLastPlace
<1>4. CASE O!ResetMotors /\ pos_heli_state # "flying" /\ regulated' = 0
           /\ UNCHANGED <<command_roll, delay_roll>>
  <2>1. O!TypeOK'
    BY <1>1, <1>2, <1>4, OriginalConstants DEF O!TypeOK, O!ResetMotors
  <2>2. O!StartsLevel' /\ FlyingIsUnsettled'
    BY <1>1, <1>4 DEF O!StartsLevel, FlyingIsUnsettled, O!ResetMotors
  <2>3. TiltIsYoung'
    BY <1>4, OriginalConstants DEF TiltIsYoung, O!ResetMotors
  <2> QED BY <1>3, <2>1, <2>2, <2>3 DEF OriginalInv
<1>5. CASE /\ O!PerformGroundActions /\ motor_signals > 0
  <2>1. /\ motor_signals' = motor_signals - RevStep /\ regulated' = 0
        /\ UNCHANGED <<motor_speed_revving, motor_speed_liftoff, pos_heli_settled, cmd_roll,
                       command_roll, delay_roll>>
    BY <1>5 DEF O!PerformGroundActions
  <2>2. O!TypeOK'
    BY <1>1, <1>2, <1>5, <2>1, OriginalConstants DEF O!TypeOK
  <2>3. O!StartsLevel' /\ FlyingIsUnsettled' /\ TiltIsYoung'
    BY <1>1, <1>2, <1>5, <2>1, OriginalConstants
      DEF O!TypeOK, O!StartsLevel, FlyingIsUnsettled, TiltIsYoung
  <2> QED BY <1>3, <2>2, <2>3 DEF OriginalInv
<1>6. CASE O!ComputeMotorSignals
  <2>1. /\ cmd_roll' \in Commands \cup (-TiltLimit..TiltLimit)
        /\ delay_roll' \in 0..(PosGain - 1) /\ regulated' \in 0..PosGain
        /\ TiltIsYoung'
    BY <1>6, TiltStep DEF O!ComputeMotorSignals
  <2>2. /\ ~pos_heli_settled' /\ command_roll' = cmd_roll'
        /\ UNCHANGED <<motor_speed_liftoff, pos_heli_settled>>
    BY <1>2, <1>6 DEF O!ComputeMotorSignals, FlyingIsUnsettled
  <2>3. /\ motor_signals' \in (1 - RevStep)..MotorMax
        /\ motor_speed_revving' \in 0..(LiftOff + RevStep - 1)
    <3>1. CASE motor_speed_revving < motor_speed_liftoff
      <4>1. /\ motor_speed_revving' = motor_speed_revving + RevStep
            /\ motor_signals' = O!Clamp(motor_speed_revving', 0, MotorMax)
        BY <1>6, <3>1 DEF O!ComputeMotorSignals
      <4>2. motor_speed_revving' \in 0..(LiftOff + RevStep - 1)
        BY <1>2, <3>1, <4>1, OriginalConstants DEF O!TypeOK
      <4> QED BY <4>1, <4>2, OriginalConstants DEF O!Clamp
    <3>2. CASE ~(motor_speed_revving < motor_speed_liftoff)
      BY <1>2, <1>6, <3>2, OriginalConstants DEF O!ComputeMotorSignals, O!TypeOK
    <3> QED BY <3>1, <3>2
  <2>4. O!TypeOK'
    BY <1>1, <1>2, <2>1, <2>2, <2>3 DEF O!TypeOK
  <2> QED BY <1>3, <2>1, <2>2, <2>4 DEF OriginalInv, O!StartsLevel, FlyingIsUnsettled
<1>7. \/ O!ResetMotors /\ pos_heli_state # "flying" /\ regulated' = 0
           /\ UNCHANGED <<command_roll, delay_roll>>
      \/ O!PerformGroundActions /\ motor_signals > 0
      \/ O!ComputeMotorSignals
  BY DEF O!Act, O!PerformGroundActions, O!PerformShutDown
<1> QED BY <1>4, <1>5, <1>6, <1>7

\* check_terminal_connection and get_command_data.
LEMMA OriginalCommands ==
  ASSUME OriginalInv, O!TakeCommands PROVE OriginalInv'
<1>1. /\ at' = "prepare" /\ heli_mode' \in {"manual", "position"}
      /\ UNCHANGED <<motor_signals, motor_speed_revving, motor_speed_liftoff, cmd_roll,
                     delay_roll, regulated, last_sensor_y, data_offset_y, position, moved>>
  BY DEF O!TakeCommands, O!ModeSwitch, O!motorVars, O!tiltVars, O!placeVars
<1>2. /\ O!TypeOK /\ O!StartsLevel /\ O!TakeOffReadsZero
      /\ FlyingIsUnsettled /\ OffsetIsLastPlace /\ TiltIsYoung
  BY DEF OriginalInv
<1>3. PICK fresh \in BOOLEAN, state1 \in {"shutdown", pos_heli_state} :
        /\ pos_command_data_delay' = O!NextDelay(fresh)
        /\ O!GetCommandData(state1) \/ O!NoCommand(state1)
  BY DEF O!TakeCommands
<1>4. pos_command_data_delay' \in 0..(OriginalThreshold + 1)
  BY <1>2, <1>3, OriginalConstants DEF O!NextDelay, O!Clamp, O!TypeOK
<1>5. /\ pos_heli_state' \in {"ground", "flying", "shutdown"}
      /\ pos_heli_settled' \in BOOLEAN
      /\ pos_heli_settled' => pos_heli_settled
      /\ command_roll' \in Commands \cup {command_roll}
      /\ FlyingIsUnsettled'
  <2>1. CASE O!NoCommand(state1)
    BY <1>2, <2>1 DEF O!NoCommand, FlyingIsUnsettled, O!TypeOK
  <2>2. CASE O!GetCommandData(state1)
    <3>1. CASE /\ pos_heli_state' \in {"shutdown", state1}
               /\ command_roll' \in Commands \cup {command_roll}
               /\ pos_heli_settled' = pos_heli_settled
      BY <1>2, <3>1 DEF FlyingIsUnsettled, O!TypeOK
    <3>2. CASE /\ pos_heli_state' = O!Switched(state1) /\ command_roll' = command_roll
               /\ pos_heli_settled' = (pos_heli_settled /\ pos_heli_state' # "flying")
      <4>1. CASE pos_heli_state' = "flying"
        BY <3>2, <4>1, Zenon DEF FlyingIsUnsettled
      <4>2. CASE pos_heli_state' = "ground"
        <5>1. pos_heli_settled' = pos_heli_settled
          BY <1>2, <3>2, <4>2 DEF O!TypeOK
        <5> QED BY <1>2, <3>2, <4>2, <5>1 DEF FlyingIsUnsettled, O!TypeOK
      <4> QED BY <3>2, <4>1, <4>2 DEF O!Switched
    <3> QED BY <2>2, <3>1, <3>2, Zenon DEF O!GetCommandData
  <2> QED BY <1>3, <2>1, <2>2
<1>6. O!TypeOK'
  BY <1>1, <1>2, <1>4, <1>5 DEF O!TypeOK
<1>7. O!StartsLevel' /\ O!TakeOffReadsZero' /\ OffsetIsLastPlace' /\ TiltIsYoung'
  BY <1>1, <1>2, <1>5 DEF O!StartsLevel, O!TakeOffReadsZero, OffsetIsLastPlace, TiltIsYoung
<1> QED BY <1>5, <1>6, <1>7 DEF OriginalInv

\* prepare_sensor_data.
LEMMA OriginalPrepare ==
  ASSUME OriginalInv, O!PrepareSensorData PROVE OriginalInv'
<1>1. /\ at' = "act"
      /\ UNCHANGED <<pos_heli_state, heli_mode, pos_heli_settled, motor_signals,
                     motor_speed_revving, motor_speed_liftoff, pos_command_data_delay,
                     command_roll, cmd_roll, delay_roll, regulated>>
  BY DEF O!PrepareSensorData, O!motorVars, O!commandVars, O!tiltVars
<1>2. /\ O!TypeOK /\ O!StartsLevel /\ O!TakeOffReadsZero
      /\ FlyingIsUnsettled /\ OffsetIsLastPlace /\ TiltIsYoung
  BY DEF OriginalInv
<1>3. PICK place \in Samples \cup {last_sensor_y} :
        /\ last_sensor_y' = place /\ O!ZeroAdjust(place)
        /\ moved' \in BOOLEAN
        /\ \/ moved' = ~pos_heli_settled
           \/ place = last_sensor_y /\ moved' = (moved /\ ~pos_heli_settled)
  <2>1. CASE \E sample \in Samples :
               last_sensor_y' = sample /\ O!ZeroAdjust(sample) /\ moved' = ~pos_heli_settled
    BY <1>2, <2>1 DEF O!TypeOK
  <2>2. CASE /\ O!ZeroAdjust(O!LastPlace) /\ moved' = (moved /\ ~pos_heli_settled)
             /\ UNCHANGED last_sensor_y
    BY <1>2, <2>2 DEF O!LastPlace, O!TypeOK
  <2> QED BY <2>1, <2>2 DEF O!PrepareSensorData
<1>4. /\ last_sensor_y \in Samples \cup {0} /\ data_offset_y \in Samples \cup {0}
      /\ Samples \subseteq Int /\ pos_heli_settled \in BOOLEAN /\ moved \in BOOLEAN
  BY <1>2, OriginalConstants DEF O!TypeOK
<1>5. /\ data_offset_y' \in Samples \cup {0} /\ last_sensor_y' \in Samples \cup {0}
      /\ position' \in Int
  BY <1>3, <1>4 DEF O!ZeroAdjust
<1>6. O!TakeOffReadsZero' /\ OffsetIsLastPlace'
  BY <1>2, <1>3, <1>4 DEF O!ZeroAdjust, O!TakeOffReadsZero, OffsetIsLastPlace
<1>7. O!TypeOK'
  BY <1>1, <1>2, <1>3, <1>5 DEF O!TypeOK
<1>8. O!StartsLevel' /\ FlyingIsUnsettled' /\ TiltIsYoung'
  BY <1>1, <1>2 DEF O!StartsLevel, FlyingIsUnsettled, TiltIsYoung
<1> QED BY <1>6, <1>7, <1>8 DEF OriginalInv

LEMMA OriginalStep ==
  ASSUME OriginalInv, O!Next \/ UNCHANGED O!vars PROVE OriginalInv'
<1>1. /\ O!TypeOK /\ O!StartsLevel /\ O!TakeOffReadsZero
      /\ FlyingIsUnsettled /\ OffsetIsLastPlace /\ TiltIsYoung
  BY DEF OriginalInv
<1>2. CASE /\ at' \in {at, "recv", "exit", "command"}
           /\ UNCHANGED <<pos_heli_state, heli_mode, pos_heli_settled, O!motorVars,
                          O!commandVars, O!tiltVars, O!placeVars>>
  <2>1. UNCHANGED <<pos_heli_state, heli_mode, pos_heli_settled, motor_signals,
                    motor_speed_revving, motor_speed_liftoff, pos_command_data_delay,
                    command_roll, cmd_roll, delay_roll, regulated, last_sensor_y,
                    data_offset_y, position, moved>>
    BY <1>2 DEF O!motorVars, O!commandVars, O!tiltVars, O!placeVars
  <2>2. O!TypeOK'
    BY <1>1, <1>2, <2>1 DEF O!TypeOK
  <2> QED BY <1>1, <2>1, <2>2 DEF OriginalInv, O!StartsLevel, O!TakeOffReadsZero,
                               FlyingIsUnsettled, OffsetIsLastPlace, TiltIsYoung
<1>3. CASE O!GetDataFails
  <2>1. /\ at' = "exit" /\ pos_heli_state' = "shutdown" /\ regulated' = 0
        /\ motor_signals' = 0 /\ motor_speed_revving' = 0 /\ motor_speed_liftoff' = LiftOff
        /\ pos_heli_settled' = TRUE /\ cmd_roll' = 0
        /\ UNCHANGED <<heli_mode, pos_command_data_delay, command_roll, delay_roll,
                       last_sensor_y, data_offset_y, position, moved>>
    BY <1>3 DEF O!GetDataFails, O!ResetMotors, O!commandVars, O!placeVars
  <2>2. O!TypeOK'
    BY <1>1, <2>1, OriginalConstants DEF O!TypeOK
  <2>3. TiltIsYoung'
    BY <2>1, OriginalConstants DEF TiltIsYoung
  <2> QED BY <1>1, <2>1, <2>2, <2>3 DEF OriginalInv, O!StartsLevel, O!TakeOffReadsZero,
                                     FlyingIsUnsettled, OffsetIsLastPlace
<1>4. CASE O!TakeCommands
  BY <1>4, OriginalCommands
<1>5. CASE O!PrepareSensorData
  BY <1>5, OriginalPrepare
<1>6. CASE O!Act
  BY <1>6, OriginalAct
<1>7. \/ /\ at' \in {at, "recv", "exit", "command"}
         /\ UNCHANGED <<pos_heli_state, heli_mode, pos_heli_settled, O!motorVars,
                        O!commandVars, O!tiltVars, O!placeVars>>
      \/ O!GetDataFails \/ O!TakeCommands \/ O!PrepareSensorData \/ O!Act
  BY DEF O!Next, O!SendMotorSignals, O!GetData, O!vars
<1> QED BY <1>2, <1>3, <1>4, <1>5, <1>6, <1>7

\* What is promised follows.
LEMMA OriginalPromise == OriginalInv => O!TypeOK /\ PositionModeSettles
<1> SUFFICES ASSUME OriginalInv PROVE O!TypeOK /\ PositionModeSettles
  OBVIOUS
<1>1. O!TypeOK /\ O!StartsLevel /\ O!TakeOffReadsZero /\ TiltIsYoung
  BY DEF OriginalInv
<1>2. O!TiltIsRegulated
  BY <1>1, OriginalConstants DEF O!TypeOK, TiltIsYoung, O!TiltIsRegulated
<1> QED BY <1>1, <1>2 DEF PositionModeSettles

-----------------------------------------------------------------------------
(***************************************************************************)
(* TerminalParams.  Who holds the lock, and whether the flag is set, tells *)
(* how much of which packet is in the gains and in the copy.               *)
(***************************************************************************)
LEMMA ParamsConstants ==
  Fields \in Nat \ {0} /\ MaxPackets \in Nat /\ Multiplier \in Nat \ {0}
BY GumstixConstantsOK DEF P!TerminalConstantsOK

\* The kinds of gains, in the order in which the loop asks for them.
LEMMA KindsAre ==
  /\ Len(P!Asked) = 3
  /\ \A a \in 1..3 : P!Asked[a] \in P!Kinds
  /\ \A c \in P!Controllers : P!Of(c) \in P!Kinds
  /\ P!Of("roll") = P!Of("pitch")
BY DEF P!Asked, P!Kinds, P!Controllers, P!Of

OneSet(g) == \A f \in 1..Fields : g[f] = g[1]

\* Who holds the lock, and what the packet and the flag are then.
LockIsHeld ==
  /\ par_step = "copy" <=> lock = "control"
  /\ lock = "terminal" => /\ packet # << >> /\ newParams[packet[1].kind]
                          /\ ~packet[1].whole => stored = 0
  /\ lock # "terminal" /\ packet # << >> => stored = 0

\* Stored gains are those of one packet, but for the ones being stored.
ParamsAreWhole ==
  \A k \in P!Kinds :
    IF lock = "terminal" /\ packet[1].kind = k /\ stored > 0
    THEN \A f \in 1..stored : params[k][f] = packet[1].number
    ELSE OneSet(params[k])

\* What has been copied, and that nothing newer is overwritten unseen.
CopyIsWhole ==
  /\ par_step = "copy" => \A f \in 1..copied : copy[f] = params[P!Kind][f]
  /\ par_step = "set" => OneSet(copy) /\ (newParams[P!Kind] \/ copy = params[P!Kind])

GainsFollow ==
  \A c \in P!Controllers :
    newParams[P!Of(c)] \/ gains[c] = params[P!Of(c)] \/ (par_step = "set" /\ P!SetBoth(c))

ParamsInv ==
  /\ P!TypeOK /\ P!GainsAreOneSet
  /\ LockIsHeld /\ ParamsAreWhole /\ CopyIsWhole /\ GainsFollow

LEMMA ParamsInit == P!Init => ParamsInv
<1> SUFFICES ASSUME P!Init PROVE ParamsInv
  OBVIOUS
<1> USE DEF P!Init
<1>1. /\ P!Set(0) \in P!Gains /\ \A f \in 1..Fields : P!Set(0)[f] = 0
      /\ 1 \in 1..Fields /\ 0 \in 0..Fields /\ 0 \in 0..MaxPackets /\ 1 \in 1..Multiplier
  BY ParamsConstants DEF P!Set, P!Gains
<1>2. P!TypeOK
  <2>1. params \in [P!Kinds -> P!Gains] /\ gains \in [P!Controllers -> P!Gains]
    BY <1>1
  <2>2. newParams \in [P!Kinds -> BOOLEAN]
    BY Zenon
  <2>3. asks \in 1..Len(P!Asked)
    BY KindsAre
  <2> QED BY <1>1, <2>1, <2>2, <2>3 DEF P!TypeOK
<1>3. P!GainsAreOneSet /\ ParamsAreWhole
  BY <1>1 DEF P!GainsAreOneSet, P!Controllers, ParamsAreWhole, OneSet
<1>4. LockIsHeld /\ CopyIsWhole
  BY DEF LockIsHeld, CopyIsWhole
<1>5. GainsFollow
  BY KindsAre DEF GainsFollow
<1> QED BY <1>2, <1>3, <1>4, <1>5 DEF ParamsInv

\* The types, as far as the packet is concerned.
LEMMA PacketIs ==
  ASSUME P!TypeOK, packet # << >>
  PROVE  /\ packet[1].kind \in P!Kinds /\ packet[1].number \in 0..MaxPackets
         /\ packet[1].whole \in BOOLEAN
<1>1. PICK p \in [kind : P!Kinds, number : 1..MaxPackets, whole : BOOLEAN] : packet = <<p>>
  BY DEF P!TypeOK
<1>2. packet[1] = p
  BY <1>1
<1> QED BY <1>1, <1>2, ParamsConstants

\* Gains of which one is changed, and gains that are the same.
LEMMA GainsWith ==
  ASSUME NEW g \in P!Gains, NEW a \in 1..Fields, NEW n
  PROVE  \A f \in 1..Fields : [g EXCEPT ![a] = n][f] = IF f = a THEN n ELSE g[f]
BY DEF P!Gains

LEMMA SameGains ==
  ASSUME NEW g \in P!Gains, NEW h \in P!Gains, \A f \in 1..Fields : g[f] = h[f]
  PROVE  g = h
<1> DEFINE D == 1..Fields
<1> HIDE DEF D
<1>1. g \in [D -> 0..MaxPackets] /\ h \in [D -> 0..MaxPackets] /\ \A f \in D : g[f] = h[f]
  BY DEF P!Gains, D
<1>2. g = [f \in D |-> g[f]] /\ h = [f \in D |-> h[f]]
  BY <1>1
<1>3. [f \in D |-> g[f]] = [f \in D |-> h[f]]
  BY <1>1
<1> QED BY <1>2, <1>3

\* terminal_thread gets a packet.
LEMMA ReceiveStep == ASSUME ParamsInv, P!Receive PROVE ParamsInv'
<1>0. /\ P!TypeOK /\ P!GainsAreOneSet
      /\ LockIsHeld /\ ParamsAreWhole /\ CopyIsWhole /\ GainsFollow
  BY DEF ParamsInv
<1>1. /\ packet = << >> /\ number < MaxPackets /\ number' = number + 1 /\ stored' = 0
      /\ UNCHANGED <<lock, params, newParams, par_step, asks, copy, copied, gains, counter>>
  BY DEF P!Receive, P!portVars, P!loopVars
<1>2. PICK k \in P!Kinds, whole \in BOOLEAN :
        packet' = <<[kind |-> k, number |-> number', whole |-> whole]>>
  BY DEF P!Receive
<1>3. number' \in 1..MaxPackets /\ stored' \in 0..Fields
  BY <1>0, <1>1, ParamsConstants DEF P!TypeOK
<1>4. P!TypeOK'
  <2>1. [kind |-> k, number |-> number', whole |-> whole]
          \in [kind : P!Kinds, number : 1..MaxPackets, whole : BOOLEAN]
    BY <1>3
  <2> QED BY <1>0, <1>1, <1>2, <1>3, <2>1 DEF P!TypeOK
<1>5. lock # "terminal"
  BY <1>0, <1>1 DEF LockIsHeld
<1>6. LockIsHeld' /\ ParamsAreWhole'
  BY <1>0, <1>1, <1>5 DEF LockIsHeld, ParamsAreWhole, OneSet
<1>7. P!GainsAreOneSet' /\ CopyIsWhole' /\ GainsFollow'
  BY <1>0, <1>1 DEF P!GainsAreOneSet, CopyIsWhole, GainsFollow, OneSet, P!Kind, P!SetBoth
<1> QED BY <1>4, <1>6, <1>7 DEF ParamsInv

\* parse_r_p_params_packet, ...: the flag is set first.
LEMMA ParsePacketStep == ASSUME ParamsInv, P!ParsePacket PROVE ParamsInv'
<1>0. /\ P!TypeOK /\ P!GainsAreOneSet
      /\ LockIsHeld /\ ParamsAreWhole /\ CopyIsWhole /\ GainsFollow
  BY DEF ParamsInv
<1>1. /\ packet # << >> /\ lock = "none" /\ lock' = "terminal"
      /\ newParams' = [newParams EXCEPT ![packet[1].kind] = TRUE]
      /\ UNCHANGED <<packet, stored, number, params, par_step, asks, copy, copied, gains,
                     counter>>
  BY DEF P!ParsePacket, P!termVars, P!loopVars
<1>2. packet[1].kind \in P!Kinds
  BY <1>0, <1>1, PacketIs
<1>3. /\ newParams' \in [P!Kinds -> BOOLEAN] /\ newParams'[packet[1].kind]
      /\ \A k \in P!Kinds : newParams[k] => newParams'[k]
  BY <1>0, <1>1, <1>2, Zenon DEF P!TypeOK
<1>4. P!TypeOK'
  BY <1>0, <1>1, <1>3 DEF P!TypeOK
<1>5. LockIsHeld' /\ ParamsAreWhole'
  BY <1>0, <1>1, <1>3 DEF LockIsHeld, ParamsAreWhole, OneSet
<1>6. P!Kind \in P!Kinds /\ P!Kind' = P!Kind
  BY <1>0, <1>1, KindsAre DEF P!TypeOK, P!Kind
<1>7. CopyIsWhole' /\ GainsFollow'
  BY <1>0, <1>1, <1>3, <1>6, KindsAre DEF CopyIsWhole, GainsFollow, OneSet, P!SetBoth
<1>8. P!GainsAreOneSet'
  BY <1>0, <1>1 DEF P!GainsAreOneSet
<1> QED BY <1>4, <1>5, <1>7, <1>8 DEF ParamsInv

\* One more gain is stored.
LEMMA StoreFieldStep == ASSUME ParamsInv, P!StoreField PROVE ParamsInv'
<1>0. /\ P!TypeOK /\ P!GainsAreOneSet
      /\ LockIsHeld /\ ParamsAreWhole /\ CopyIsWhole /\ GainsFollow
  BY DEF ParamsInv
<1> DEFINE k == packet[1].kind
           n == packet[1].number
<1>1. /\ lock = "terminal" /\ packet[1].whole /\ stored < Fields /\ stored' = stored + 1
      /\ params' = [params EXCEPT ![k][stored + 1] = n]
      /\ UNCHANGED <<lock, newParams, packet, number, par_step, asks, copy, copied, gains,
                     counter>>
  BY DEF P!StoreField, P!loopVars
<1>2. k \in P!Kinds /\ n \in 0..MaxPackets /\ newParams[k] /\ par_step # "copy"
  BY <1>0, <1>1, PacketIs DEF LockIsHeld
<1>3. stored + 1 \in 1..Fields /\ stored \in 0..Fields
  BY <1>0, <1>1, ParamsConstants DEF P!TypeOK
<1>4. /\ params \in [P!Kinds -> P!Gains] /\ params' \in [P!Kinds -> P!Gains]
      /\ params'[k] = [params[k] EXCEPT ![stored + 1] = n]
      /\ \A j \in P!Kinds \ {k} : params'[j] = params[j]
  BY <1>0, <1>1, <1>2, <1>3 DEF P!TypeOK, P!Gains
<1>5. P!TypeOK'
  BY <1>0, <1>1, <1>3, <1>4 DEF P!TypeOK
<1>6. LockIsHeld'
  BY <1>0, <1>1 DEF LockIsHeld
<1>7. ParamsAreWhole'
  <2> SUFFICES ASSUME NEW j \in P!Kinds
               PROVE  IF lock' = "terminal" /\ packet'[1].kind = j /\ stored' > 0
                      THEN \A f \in 1..stored' : params'[j][f] = packet'[1].number
                      ELSE OneSet(params'[j])
    BY DEF ParamsAreWhole, OneSet
  <2>1. CASE j # k
    BY <1>0, <1>1, <1>4, <2>1 DEF ParamsAreWhole
  <2>2. CASE j = k
    <3>1. \A f \in 1..stored : params[k][f] = n
      BY <1>0, <1>1, <1>2, <1>3 DEF ParamsAreWhole
    <3>2. \A f \in 1..(stored + 1) : f = stored + 1 \/ f \in 1..stored
      BY <1>3, ParamsConstants
    <3>3. \A f \in 1..Fields : params'[k][f] = IF f = stored + 1 THEN n ELSE params[k][f]
      <4>1. params[k] \in P!Gains
        BY <1>2, <1>4
      <4>2. \A f \in 1..Fields : [params[k] EXCEPT ![stored + 1] = n][f]
                                = IF f = stored + 1 THEN n ELSE params[k][f]
        <5> DEFINE g == params[k]
                   a == stored + 1
        <5>1. g \in P!Gains /\ a \in 1..Fields
          BY <1>3, <4>1
        <5> HIDE DEF g, a, k, n
        <5>2. \A f \in 1..Fields : [g EXCEPT ![a] = n][f] = IF f = a THEN n ELSE g[f]
          BY <5>1, GainsWith
        <5> QED BY <5>2 DEF g, a
      <4> QED BY <1>4, <4>2
    <3>4. \A f \in 1..(stored + 1) : f \in 1..Fields
      BY <1>3, ParamsConstants
    <3> QED BY <1>1, <1>3, <2>2, <3>1, <3>2, <3>3, <3>4
  <2> QED BY <2>1, <2>2
<1>8. P!GainsAreOneSet'
  BY <1>0, <1>1 DEF P!GainsAreOneSet
<1>9. P!Kind \in P!Kinds /\ P!Kind' = P!Kind
  BY <1>0, <1>1, KindsAre DEF P!TypeOK, P!Kind
<1>10. CopyIsWhole'
  BY <1>0, <1>1, <1>2, <1>4, <1>9 DEF CopyIsWhole, OneSet
<1>11. GainsFollow'
  BY <1>0, <1>1, <1>2, <1>4, <1>9, KindsAre DEF GainsFollow, P!SetBoth
<1> QED BY <1>5, <1>6, <1>7, <1>8, <1>10, <1>11 DEF ParamsInv

\* The packet is done with.
LEMMA UnlockStep == ASSUME ParamsInv, P!Unlock PROVE ParamsInv'
<1>0. /\ P!TypeOK /\ P!GainsAreOneSet
      /\ LockIsHeld /\ ParamsAreWhole /\ CopyIsWhole /\ GainsFollow
  BY DEF ParamsInv
<1>1. /\ lock = "terminal" /\ (stored = Fields \/ ~packet[1].whole)
      /\ lock' = "none" /\ packet' = << >>
      /\ UNCHANGED <<params, newParams, stored, number, par_step, asks, copy, copied, gains,
                     counter>>
  BY DEF P!Unlock, P!loopVars
<1>2. P!TypeOK'
  BY <1>0, <1>1 DEF P!TypeOK
<1>3. LockIsHeld'
  BY <1>0, <1>1 DEF LockIsHeld
<1>4. ParamsAreWhole'
  <2>1. 1 \in 1..Fields
    BY ParamsConstants
  <2>2. \A j \in P!Kinds : OneSet(params[j])
    BY <1>0, <1>1, <2>1 DEF ParamsAreWhole, LockIsHeld, OneSet
  <2> QED BY <1>1, <2>2 DEF ParamsAreWhole, OneSet
<1>5. P!GainsAreOneSet' /\ CopyIsWhole' /\ GainsFollow'
  BY <1>0, <1>1 DEF P!GainsAreOneSet, CopyIsWhole, GainsFollow, OneSet, P!Kind, P!SetBoth
<1> QED BY <1>2, <1>3, <1>4, <1>5 DEF ParamsInv

\* The control thread asks for the next kind.
LEMMA AskIs ==
  ASSUME P!TypeOK, P!Ask(asks)
  PROVE  par_step' \in {"ask", "report"} /\ asks' \in 1..Len(P!Asked)
BY KindsAre DEF P!Ask, P!TypeOK

\* The steps of the control thread outside the lock.
LEMMA AskStep == ASSUME ParamsInv, P!AskForParams \/ P!SendReport PROVE ParamsInv'
<1>0. /\ P!TypeOK /\ P!GainsAreOneSet
      /\ LockIsHeld /\ ParamsAreWhole /\ CopyIsWhole /\ GainsFollow
  BY DEF ParamsInv
<1>1. /\ par_step \notin {"copy", "set"} /\ par_step' \in {"lock", "ask", "report"}
      /\ asks' \in 1..Len(P!Asked) /\ counter' \in 1..Multiplier
      /\ UNCHANGED <<packet, stored, number, lock, params, newParams, copy, copied, gains>>
  <2>1. CASE P!AskForParams
    BY <1>0, <2>1, AskIs DEF P!AskForParams, P!TypeOK, P!termVars, P!portVars
  <2>2. CASE P!SendReport
    <3>1. counter' \in 1..Multiplier
      BY <1>0, <2>2, ParamsConstants DEF P!SendReport, P!TypeOK
    <3> QED BY <1>0, <2>2, <3>1 DEF P!SendReport, P!TypeOK, P!termVars, P!portVars
  <2> QED BY <2>1, <2>2
<1>2. P!TypeOK'
  BY <1>0, <1>1 DEF P!TypeOK
<1>3. LockIsHeld' /\ ParamsAreWhole' /\ P!GainsAreOneSet'
  BY <1>0, <1>1 DEF LockIsHeld, ParamsAreWhole, P!GainsAreOneSet, OneSet
<1>4. CopyIsWhole' /\ GainsFollow'
  BY <1>0, <1>1 DEF CopyIsWhole, GainsFollow, P!SetBoth
<1> QED BY <1>2, <1>3, <1>4 DEF ParamsInv

LEMMA LockParamsStep == ASSUME ParamsInv, P!LockParams PROVE ParamsInv'
<1>0. /\ P!TypeOK /\ P!GainsAreOneSet
      /\ LockIsHeld /\ ParamsAreWhole /\ CopyIsWhole /\ GainsFollow
  BY DEF ParamsInv
<1>1. /\ par_step = "lock" /\ lock = "none" /\ lock' = "control" /\ par_step' = "copy"
      /\ copied' = 0
      /\ UNCHANGED <<packet, stored, number, params, newParams, asks, copy, gains, counter>>
  BY DEF P!LockParams, P!TakeLock, P!termVars
<1>2. P!TypeOK'
  BY <1>0, <1>1, ParamsConstants DEF P!TypeOK
<1>3. LockIsHeld' /\ ParamsAreWhole' /\ P!GainsAreOneSet'
  BY <1>0, <1>1 DEF LockIsHeld, ParamsAreWhole, P!GainsAreOneSet, OneSet
<1>4. CopyIsWhole' /\ GainsFollow'
  BY <1>0, <1>1 DEF CopyIsWhole, GainsFollow, P!SetBoth
<1> QED BY <1>2, <1>3, <1>4 DEF ParamsInv

\* One more gain is copied.
LEMMA CopyFieldStep == ASSUME ParamsInv, P!CopyField PROVE ParamsInv'
<1>0. /\ P!TypeOK /\ P!GainsAreOneSet
      /\ LockIsHeld /\ ParamsAreWhole /\ CopyIsWhole /\ GainsFollow
  BY DEF ParamsInv
<1>1. /\ par_step = "copy" /\ copied < Fields /\ copied' = copied + 1
      /\ copy' = [copy EXCEPT ![copied + 1] = params[P!Kind][copied + 1]]
      /\ UNCHANGED <<packet, stored, number, lock, params, newParams, par_step, asks, gains,
                     counter>>
  BY DEF P!CopyField, P!termVars, P!portVars
<1>2. P!Kind \in P!Kinds /\ P!Kind' = P!Kind
  BY <1>0, <1>1, KindsAre DEF P!TypeOK, P!Kind
<1>3. copied + 1 \in 1..Fields /\ copied \in 0..Fields
  BY <1>0, <1>1, ParamsConstants DEF P!TypeOK
<1>4. params[P!Kind] \in P!Gains /\ copy \in P!Gains
  BY <1>0, <1>2 DEF P!TypeOK
<1>5. /\ copy' \in P!Gains
      /\ \A f \in 1..Fields : copy'[f] = IF f = copied + 1 THEN params[P!Kind][f] ELSE copy[f]
  BY <1>1, <1>3, <1>4 DEF P!Gains
<1>6. P!TypeOK'
  BY <1>0, <1>1, <1>3, <1>5 DEF P!TypeOK
<1>7. LockIsHeld' /\ ParamsAreWhole' /\ P!GainsAreOneSet'
  BY <1>0, <1>1 DEF LockIsHeld, ParamsAreWhole, P!GainsAreOneSet, OneSet
<1>8. CopyIsWhole'
  <2>1. \A f \in 1..(copied + 1) : f \in 1..Fields /\ (f = copied + 1 \/ f \in 1..copied)
    BY <1>3, ParamsConstants
  <2>2. \A f \in 1..copied : copy[f] = params[P!Kind][f]
    BY <1>0, <1>1 DEF CopyIsWhole
  <2> QED BY <1>1, <1>2, <1>5, <2>1, <2>2 DEF CopyIsWhole
<1>9. GainsFollow'
  BY <1>0, <1>1, <1>2 DEF GainsFollow, P!SetBoth
<1> QED BY <1>6, <1>7, <1>8, <1>9 DEF ParamsInv

\* All are copied: the flag is cleared, still under the lock.
LEMMA ClearFlagStep == ASSUME ParamsInv, P!ClearFlag PROVE ParamsInv'
<1>0. /\ P!TypeOK /\ P!GainsAreOneSet
      /\ LockIsHeld /\ ParamsAreWhole /\ CopyIsWhole /\ GainsFollow
  BY DEF ParamsInv
<1>1. /\ par_step = "copy" /\ lock = "control" /\ copied = Fields /\ par_step' = "set"
      /\ newParams' = [newParams EXCEPT ![P!Kind] = FALSE] /\ lock' = "none"
      /\ UNCHANGED <<packet, stored, number, params, asks, copy, copied, gains, counter>>
  BY <1>0 DEF P!ClearFlag, P!termVars, LockIsHeld
<1>2. P!Kind \in P!Kinds /\ P!Kind' = P!Kind
  BY <1>0, <1>1, KindsAre DEF P!TypeOK, P!Kind
<1>3. /\ newParams' \in [P!Kinds -> BOOLEAN]
      /\ \A k \in P!Kinds : k # P!Kind => newParams'[k] = newParams[k]
  BY <1>0, <1>1, <1>2, Zenon DEF P!TypeOK
<1>4. P!TypeOK'
  BY <1>0, <1>1, <1>3 DEF P!TypeOK
<1>5. LockIsHeld' /\ ParamsAreWhole' /\ P!GainsAreOneSet'
  BY <1>0, <1>1 DEF LockIsHeld, ParamsAreWhole, P!GainsAreOneSet, OneSet
<1>6. CopyIsWhole'
  <2>1. params[P!Kind] \in P!Gains /\ copy \in P!Gains
    BY <1>0, <1>2 DEF P!TypeOK
  <2>2. \A f \in 1..Fields : copy[f] = params[P!Kind][f]
    BY <1>0, <1>1 DEF CopyIsWhole
  <2>3. copy = params[P!Kind]
    BY <2>1, <2>2, SameGains
  <2>4. OneSet(params[P!Kind])
    BY <1>0, <1>1, <1>2 DEF ParamsAreWhole
  <2> QED BY <1>1, <1>2, <2>3, <2>4 DEF CopyIsWhole, OneSet
<1>7. GainsFollow'
  <2> SUFFICES ASSUME NEW c \in P!Controllers
               PROVE  newParams'[P!Of(c)] \/ gains'[c] = params'[P!Of(c)]
                        \/ (par_step' = "set" /\ P!Of(c) = P!Kind')
    BY DEF GainsFollow, P!SetBoth
  <2>1. P!Of(c) \in P!Kinds
    BY KindsAre
  <2> QED BY <1>0, <1>1, <1>2, <1>3, <2>1 DEF GainsFollow
<1> QED BY <1>4, <1>5, <1>6, <1>7 DEF ParamsInv

\* controller_set_params: roll and pitch get the same.
LEMMA SetControlParamsStep == ASSUME ParamsInv, P!SetControlParams PROVE ParamsInv'
<1>0. /\ P!TypeOK /\ P!GainsAreOneSet
      /\ LockIsHeld /\ ParamsAreWhole /\ CopyIsWhole /\ GainsFollow
  BY DEF ParamsInv
<1>1. /\ par_step = "set" /\ P!Ask(asks)
      /\ gains' = [c \in P!Controllers |-> IF P!Of(c) = P!Kind THEN copy ELSE gains[c]]
      /\ UNCHANGED <<packet, stored, number, lock, params, newParams, copy, copied, counter>>
  BY DEF P!SetControlParams, P!SetBoth, P!termVars, P!portVars
<1>2. par_step' \in {"ask", "report"} /\ asks' \in 1..Len(P!Asked)
  BY <1>0, <1>1, AskIs
<1>3. /\ gains' \in [P!Controllers -> P!Gains]
      /\ \A c \in P!Controllers : gains'[c] = IF P!Of(c) = P!Kind THEN copy ELSE gains[c]
  BY <1>0, <1>1 DEF P!TypeOK
<1>4. P!TypeOK'
  BY <1>0, <1>1, <1>2, <1>3 DEF P!TypeOK
<1>5. LockIsHeld' /\ ParamsAreWhole' /\ CopyIsWhole'
  BY <1>0, <1>1, <1>2 DEF LockIsHeld, ParamsAreWhole, CopyIsWhole, OneSet
<1>6. P!GainsAreOneSet'
  <2>1. {"roll", "pitch"} \subseteq P!Controllers
    BY DEF P!Controllers
  <2>2. gains'["roll"] = gains'["pitch"]
    BY <1>0, <1>3, <2>1, KindsAre DEF P!GainsAreOneSet
  <2>3. ASSUME NEW c \in P!Controllers, NEW f \in 1..Fields PROVE gains'[c][f] = gains'[c][1]
    BY <1>0, <1>1, <1>3 DEF P!GainsAreOneSet, CopyIsWhole, OneSet
  <2> QED BY <2>2, <2>3 DEF P!GainsAreOneSet
<1>7. GainsFollow'
  <2> SUFFICES ASSUME NEW c \in P!Controllers
               PROVE  newParams'[P!Of(c)] \/ gains'[c] = params'[P!Of(c)]
    BY DEF GainsFollow
  <2>1. CASE P!Of(c) = P!Kind
    BY <1>0, <1>1, <1>3, <2>1 DEF CopyIsWhole
  <2>2. CASE P!Of(c) # P!Kind
    BY <1>0, <1>1, <1>3, <2>2 DEF GainsFollow, P!SetBoth
  <2> QED BY <2>1, <2>2
<1> QED BY <1>4, <1>5, <1>6, <1>7 DEF ParamsInv

LEMMA ParamsStep == ASSUME ParamsInv, P!Next \/ UNCHANGED P!vars PROVE ParamsInv'
<1>1. CASE UNCHANGED P!vars
  <2>1. UNCHANGED <<packet, stored, number, lock, params, newParams, par_step, asks, copy,
                    copied, gains, counter>>
    BY <1>1 DEF P!vars, P!termVars, P!portVars, P!loopVars
  <2> QED BY <2>1 DEF ParamsInv, P!TypeOK, P!GainsAreOneSet, LockIsHeld, ParamsAreWhole,
                      CopyIsWhole, GainsFollow, OneSet, P!Kind, P!SetBoth
<1>2. CASE P!Next
  BY <1>2, ReceiveStep, ParsePacketStep, StoreFieldStep, UnlockStep, AskStep, LockParamsStep,
     CopyFieldStep, ClearFlagStep, SetControlParamsStep
    DEF P!Next, P!TerminalThread, P!ControlThread
<1> QED BY <1>1, <1>2

LEMMA ParamsPromise == ParamsInv => P!TypeOK /\ P!GainsAreOneSet /\ P!GainsAreCurrent
BY DEF ParamsInv, GainsFollow, P!GainsAreCurrent

-----------------------------------------------------------------------------
(***************************************************************************)
(* AttitudeTrim.  What a trim is worth, and that its bound is kept by the  *)
(* requests that are not served yet.                                       *)
(***************************************************************************)
LEMMA TrimConstants == Attitudes \subseteq Int /\ MaxStores \in Nat
BY GumstixConstantsOK DEF A!TrimConstantsOK

\* What a trim of at most one attitude is worth.
IsSum(t) == (t.stores = 0 => t.value = 0) /\ (t.stores = 1 => t.value = t.of)

\* A request that is not served yet was made below the bound.
StoresAreBounded ==
  store_trim \/ (seen /\ phase = "storeRead") => trim.stores < MaxStores

\* The angle that is flown with is trimmed, or the program has just started.
RollIsTrimmed == phase = "scale" => roll = raw - trim.value \/ (raw = 0 /\ roll = 0)

TrimIsSaved == phase = "off" /\ ~trim_killed => saved = trim

TrimInv ==
  /\ A!TypeOK /\ IsSum(trim) /\ IsSum(saved)
  /\ StoresAreBounded /\ RollIsTrimmed /\ TrimIsSaved

LEMMA TrimInit == A!Init => TrimInv
<1> SUFFICES ASSUME A!Init PROVE TrimInv
  OBVIOUS
<1> USE DEF A!Init
<1>1. A!NoTrim \in A!Trims /\ IsSum(A!NoTrim)
  BY TrimConstants DEF A!NoTrim, A!Trims, IsSum
<1>2. /\ store_trim \in BOOLEAN /\ clear_trim \in BOOLEAN /\ seen \in BOOLEAN
      /\ trim_killed \in BOOLEAN
  BY Zenon
<1>3. A!TypeOK
  BY <1>1, <1>2 DEF A!TypeOK
<1>4. StoresAreBounded /\ RollIsTrimmed /\ TrimIsSaved
  BY DEF StoresAreBounded, RollIsTrimmed, TrimIsSaved
<1> QED BY <1>1, <1>3, <1>4 DEF TrimInv

\* A flag is set by the terminal, or read by the control thread.
LEMMA FlagStep ==
  ASSUME TrimInv,
         A!SetStoreTrim \/ A!SetClearTrim \/ A!ScaleAngle \/ A!ReadStoreTrim \/ A!ReadClearTrim
         \/ A!LoopEnds \/ A!Killed \/ UNCHANGED A!vars
  PROVE  TrimInv'
<1> USE DEF TrimInv
<1> USE DEF A!flagVars, A!angleVars, A!fileVars
<1>1. UNCHANGED <<trim, saved, roll>>
  BY DEF A!SetStoreTrim, A!SetClearTrim, A!ScaleAngle, A!ReadStoreTrim, A!ReadClearTrim,
         A!LoopEnds, A!Killed, A!vars
<1>2. /\ store_trim' \in BOOLEAN /\ clear_trim' \in BOOLEAN /\ seen' \in BOOLEAN
      /\ trim_killed' \in BOOLEAN
  BY Zenon DEF A!TypeOK, A!SetStoreTrim, A!SetClearTrim, A!ScaleAngle, A!ReadStoreTrim,
               A!ReadClearTrim, A!LoopEnds, A!Killed, A!vars
<1>3. raw' \in Attitudes \cup {0} /\ (phase' = "scale" => phase = "scale" /\ raw' = raw)
  BY DEF A!TypeOK, A!SetStoreTrim, A!SetClearTrim, A!ScaleAngle, A!ReadStoreTrim,
         A!ReadClearTrim, A!LoopEnds, A!Killed, A!vars
<1>4. phase' \in {"scale", "store", "storeRead", "clear", "clearRead", "apply", "save", "off"}
  BY DEF A!TypeOK, A!SetStoreTrim, A!SetClearTrim, A!ScaleAngle, A!ReadStoreTrim,
         A!ReadClearTrim, A!LoopEnds, A!Killed, A!vars
<1>5. A!TypeOK'
  BY <1>1, <1>2, <1>3, <1>4 DEF A!TypeOK, A!Trims
<1>6. IsSum(trim)' /\ IsSum(saved)' /\ RollIsTrimmed'
  BY <1>1, <1>3 DEF IsSum, RollIsTrimmed
<1>7. \/ store_trim' = store_trim /\ (phase' = "storeRead" /\ seen' =>
              store_trim \/ (seen /\ phase = "storeRead"))
      \/ trim.stores < MaxStores
  BY DEF A!SetStoreTrim, A!SetClearTrim, A!ScaleAngle, A!ReadStoreTrim, A!ReadClearTrim,
         A!LoopEnds, A!Killed, A!vars
<1>8. StoresAreBounded'
  BY <1>1, <1>7 DEF StoresAreBounded
<1>9. TrimIsSaved'
  <2>1. phase' = "off" /\ ~trim_killed' => phase = "off" /\ ~trim_killed
    BY DEF A!SetStoreTrim, A!SetClearTrim, A!ScaleAngle, A!ReadStoreTrim, A!ReadClearTrim,
           A!LoopEnds, A!Killed, A!vars
  <2> QED BY <1>1, <2>1 DEF TrimIsSaved
<1> QED BY <1>5, <1>6, <1>8, <1>9

\* The trim itself changes, is used, or is saved.
LEMMA ValueStep ==
  ASSUME TrimInv,
         A!StoreTrim \/ A!ClearTrim \/ A!ApplyTrim \/ A!SaveConfiguration \/ A!Restart
  PROVE  TrimInv'
<1>0. /\ A!TypeOK /\ IsSum(trim) /\ IsSum(saved)
      /\ StoresAreBounded /\ RollIsTrimmed /\ TrimIsSaved
  BY DEF TrimInv
<1> USE DEF A!flagVars, A!angleVars, A!fileVars
<1>1. /\ A!NoTrim \in A!Trims /\ IsSum(A!NoTrim) /\ A!NoTrim.stores = 0
      /\ trim \in A!Trims /\ saved \in A!Trims
      /\ trim.value \in Int /\ trim.stores \in 0..MaxStores /\ trim.of \in Attitudes \cup {0}
      /\ raw \in Attitudes \cup {0} /\ raw \in Int /\ roll \in Int
  BY <1>0, TrimConstants DEF A!NoTrim, A!Trims, IsSum, A!TypeOK
<1>2. /\ store_trim' \in BOOLEAN /\ clear_trim' \in BOOLEAN /\ seen' \in BOOLEAN
      /\ trim_killed' \in BOOLEAN
  BY <1>0, Zenon DEF A!TypeOK, A!StoreTrim, A!ClearTrim, A!ApplyTrim, A!SaveConfiguration,
                     A!Restart
<1>3. phase' \in {"scale", "store", "storeRead", "clear", "clearRead", "apply", "save", "off"}
  BY DEF A!StoreTrim, A!ClearTrim, A!ApplyTrim, A!SaveConfiguration, A!Restart
<1>4. /\ trim' \in A!Trims /\ saved' \in A!Trims /\ IsSum(trim') /\ IsSum(saved')
      /\ raw' \in Attitudes \cup {0} /\ roll' \in Int
  <2>1. CASE A!StoreTrim /\ seen
    <3> DEFINE t == [value |-> A!Sum, stores |-> trim.stores + 1, of |-> raw]
    <3>1. trim' = t /\ UNCHANGED <<saved, raw, roll>>
      BY <2>1 DEF A!StoreTrim
    <3>2. trim.stores + 1 \in 0..MaxStores
      BY <1>0, <1>1, <2>1, TrimConstants DEF StoresAreBounded, A!StoreTrim
    <3>3. t \in A!Trims
      BY <1>1, <3>2 DEF A!Trims, A!Sum
    <3>4. IsSum(t)
      BY <1>0, <1>1, TrimConstants DEF IsSum, A!Sum
    <3> HIDE DEF t
    <3> QED BY <1>0, <1>1, <3>1, <3>3, <3>4
  <2>2. CASE A!StoreTrim /\ ~seen
    BY <1>0, <1>1, <2>2 DEF A!StoreTrim
  <2>3. CASE A!ClearTrim
    BY <1>0, <1>1, <2>3 DEF A!ClearTrim, A!Forget
  <2>4. CASE A!ApplyTrim
    BY <1>0, <1>1, <2>4 DEF A!ApplyTrim
  <2>5. CASE A!SaveConfiguration
    <3>1. saved' \in {saved, trim} /\ UNCHANGED <<trim, raw, roll>>
      BY <2>5 DEF A!SaveConfiguration, A!Saved
    <3> QED BY <1>0, <1>1, <3>1
  <2>6. CASE A!Restart
    BY <1>0, <1>1, <2>6 DEF A!Restart
  <2> QED BY <2>1, <2>2, <2>3, <2>4, <2>5, <2>6
<1>5. A!TypeOK'
  BY <1>2, <1>3, <1>4 DEF A!TypeOK, A!Trims
<1>6. IsSum(trim)' /\ IsSum(saved)'
  BY <1>4 DEF IsSum
<1>7. RollIsTrimmed'
  BY DEF RollIsTrimmed, A!StoreTrim, A!ClearTrim, A!ApplyTrim, A!SaveConfiguration, A!Restart
<1>8. TrimIsSaved'
  BY DEF TrimIsSaved, A!StoreTrim, A!ClearTrim, A!ApplyTrim, A!SaveConfiguration, A!Restart,
         A!Saved
<1>9. StoresAreBounded'
  <2>1. phase' # "storeRead"
    BY DEF A!StoreTrim, A!ClearTrim, A!ApplyTrim, A!SaveConfiguration, A!Restart
  <2>2. CASE A!StoreTrim \/ A!Restart
    BY <2>1, <2>2 DEF StoresAreBounded, A!StoreTrim, A!Restart
  <2>3. CASE A!ApplyTrim \/ A!SaveConfiguration
    BY <1>0, <2>1, <2>3 DEF StoresAreBounded, A!ApplyTrim, A!SaveConfiguration
  <2>4. CASE A!ClearTrim
    <3>1. store_trim' = store_trim /\ trim'.stores \in {0, trim.stores}
      BY <1>1, <2>4 DEF A!ClearTrim, A!Forget
    <3> QED BY <1>0, <1>1, <2>1, <3>1, TrimConstants DEF StoresAreBounded
  <2> QED BY <2>2, <2>3, <2>4
<1> QED BY <1>5, <1>6, <1>7, <1>8, <1>9 DEF TrimInv

LEMMA TrimStep ==
  ASSUME TrimInv, A!Next \/ UNCHANGED A!vars
  PROVE  TrimInv' /\ (phase = "off" /\ ~trim_killed /\ phase' = "scale" => trim' = trim)
<1>1. TrimInv'
  BY FlagStep, ValueStep DEF A!Next, A!ControlThread
<1>2. phase = "off" /\ phase' = "scale" => A!Restart
  BY DEF A!Next, A!ControlThread, A!SetStoreTrim, A!SetClearTrim, A!ScaleAngle, A!ReadStoreTrim,
         A!StoreTrim, A!ReadClearTrim, A!ClearTrim, A!ApplyTrim, A!SaveConfiguration, A!LoopEnds,
         A!Killed, A!Restart, A!vars
<1>3. phase = "off" /\ ~trim_killed => saved = trim
  BY DEF TrimInv, TrimIsSaved
<1> QED BY <1>1, <1>2, <1>3 DEF A!Restart

LEMMA TrimPromise == TrimInv => A!TypeOK /\ A!LevelAtStoredAttitude
<1> SUFFICES ASSUME TrimInv PROVE A!TypeOK /\ A!LevelAtStoredAttitude
  OBVIOUS
<1>1. A!TypeOK /\ IsSum(trim) /\ RollIsTrimmed
  BY DEF TrimInv
<1>2. raw \in Int
  BY <1>1, TrimConstants DEF A!TypeOK
<1>3. raw - raw = 0
  BY <1>2
<1> QED BY <1>1, <1>2, <1>3 DEF A!LevelAtStoredAttitude, IsSum, RollIsTrimmed

-----------------------------------------------------------------------------
(***************************************************************************)
(* UdpChannel.  Where comm_recv_packet can be after so many bytes of the   *)
(* second and of a later datagram of a session.                            *)
(***************************************************************************)
LEMMA UdpConstants ==
  Ports \subseteq Nat \ {0} /\ MaxInbox \in Nat \ {0} /\ MaxRestarts \in Nat
BY GumstixConstantsOK DEF U!UdpConstantsOK

\* Where comm_recv_packet can be after k bytes of a datagram that it begins anywhere: in
\* step with it, or so far out of step that the rest has no mark to begin with.
SecondFits(k, s, n) ==
  \/ s = 0
  \/ k = 1 /\ s # 3
  \/ k = 2 /\ s \notin {3, 4}
  \/ k = 3 /\ s \in {3, 6}
  \/ k \in 4..6 /\ s = k /\ n = U!Size

\* From the third datagram on it is in step.
ThirdFits(k) ==
  IF k = U!Size THEN state = 0
                ELSE state = k /\ from = buf /\ (k > 3 => need = U!Size)

InStep ==
  /\ streak = 2 => SecondFits(idx, state, need) /\ (idx = U!Size => state = 0)
  /\ streak = 3 => ThirdFits(idx)

\* The types one by one; comm_recv_packet is never past the size of its packet.
PacketTypes ==
  state \in 0..6 /\ need \in {6, 7} /\ from \in {-1, 0, 1, 2} /\ state < need

UdpTypes ==
  /\ udp_connected \in BOOLEAN /\ (udp_connected => peer # 0)
  /\ idx \in 1..7 /\ buf \in {0, 1, 2}
  /\ udp_thread \in {"poll", "receive"} /\ udp_control \in {"idle", "write", "close"}
  /\ PacketTypes
  /\ peer \in Ports \cup {0} /\ port \in Ports /\ restarts \in 0..MaxRestarts
  /\ inbox \in Seq([port : Ports, number : {0, 1, 2}]) /\ Len(inbox) <= MaxInbox
  /\ refused \in BOOLEAN /\ udp_next \in {0, 1, 2} /\ streak \in 0..3
  /\ delivered \in {-1, 0, 1, 2}

UdpInv == UdpTypes /\ InStep

LEMMA UdpTypesAre == U!TypeOK /\ state < need <=> UdpTypes
<1>1. 0..2 = {0, 1, 2} /\ {0, 1, 2} \cup {-1} = {-1, 0, 1, 2} /\ 7 - 1 = 6
  OBVIOUS
<1>2. /\ U!Numbers = {0, 1, 2} /\ U!Numbers \cup {U!Mixed, U!None} = {-1, 0, 1, 2}
      /\ U!Numbers \cup {U!None} = {-1, 0, 1, 2} /\ U!Size = 7 /\ U!Size - 1 = 6
  BY <1>1 DEF U!Numbers, U!Mixed, U!None, U!Size
<1> QED BY <1>2 DEF U!TypeOK, PacketTypes, UdpTypes

LEMMA UdpInit == U!Init => UdpInv
<1> SUFFICES ASSUME U!Init PROVE UdpInv
  OBVIOUS
<1>1. udp_connected \in BOOLEAN /\ refused \in BOOLEAN
  BY Zenon DEF U!Init
<1>2. UdpTypes
  BY <1>1, UdpConstants DEF UdpTypes, U!Init, U!Size, U!None, PacketTypes
<1> QED BY <1>2 DEF UdpInv, InStep, U!Init

\* The byte at place k: the packet stays one that can be received, and the thread is where
\* it can be.
LEMMA TakeByteTypes ==
  ASSUME PacketTypes, NEW d \in {0, 1, 2}, NEW k \in 0..6, U!TakeByte(d, k),
         udp_thread \in {"poll", "receive"}, delivered \in {-1, 0, 1, 2}
  PROVE  /\ PacketTypes'
         /\ udp_thread' \in {"poll", "receive"} /\ delivered' \in {-1, 0, 1, 2}
<1> USE DEF PacketTypes, U!Size, U!Mixed, U!None, U!IsMark
<1>1. U!Carry(d, k) \in {-1, 0, 1, 2}
  BY DEF U!Carry
<1>2. CASE U!Mark1(d, k)
  BY <1>2 DEF U!Mark1
<1>3. CASE U!Mark2(d, k)
  BY <1>1, <1>3 DEF U!Mark2
<1>4. CASE U!Type(d, k)
  BY <1>1, <1>4 DEF U!Type
<1>5. CASE U!SizeByte(d, k)
  BY <1>1, <1>5 DEF U!SizeByte
<1>6. CASE U!Middle(d, k)
  BY <1>1, <1>6 DEF U!Middle
<1>7. CASE U!Sum2(d, k)
  BY <1>1, <1>7 DEF U!Sum2
<1> QED BY <1>2, <1>3, <1>4, <1>5, <1>6, <1>7 DEF U!TakeByte

\* A datagram that comm_recv_packet begins in step ends in step, and is delivered.
LEMMA InStepByte ==
  ASSUME PacketTypes, NEW d \in {0, 1, 2}, NEW k \in 0..6, U!TakeByte(d, k), state = k,
         k > 0 => from = d, k > 3 => need = 7
  PROVE  IF k = 6 THEN state' = 0 /\ delivered' = d
                  ELSE state' = k + 1 /\ from' = d /\ (k > 2 => need' = 7)
<1> USE DEF PacketTypes, U!Size, U!Mixed, U!None, U!IsMark
<1>2. CASE U!Mark1(d, k)
  BY <1>2 DEF U!Mark1
<1>3. CASE U!Mark2(d, k)
  <2>1. k = 1 /\ state = 1
    BY <1>3 DEF U!Mark2
  <2>2. from' = d /\ state' = 2
    BY <1>3, <2>1 DEF U!Mark2, U!Carry
  <2> QED BY <2>1, <2>2
<1>4. CASE U!Type(d, k)
  <2>1. k = 2 /\ state = 2
    BY <1>4 DEF U!Type
  <2>2. from' = d /\ state' = 3
    BY <1>4, <2>1 DEF U!Type, U!Carry
  <2> QED BY <2>1, <2>2
<1>5. CASE U!SizeByte(d, k)
  <2>1. k = 3 /\ state = 3
    BY <1>5 DEF U!SizeByte
  <2>2. from' = d /\ state' = 4 /\ need' = 7
    BY <1>5, <2>1 DEF U!SizeByte, U!Carry
  <2> QED BY <2>1, <2>2
<1>6. CASE U!Middle(d, k)
  BY <1>6 DEF U!Middle, U!Carry
<1>7. CASE U!Sum2(d, k)
  BY <1>7 DEF U!Sum2, U!Carry
<1> QED BY <1>2, <1>3, <1>4, <1>5, <1>6, <1>7 DEF U!TakeByte

\* A datagram that it begins anywhere ends where the next one can begin.
LEMMA AnyByte ==
  ASSUME PacketTypes, NEW d \in {0, 1, 2}, NEW k \in 0..6, U!TakeByte(d, k),
         k = 0 \/ SecondFits(k, state, need)
  PROVE  IF k = 6 THEN state' = 0 ELSE SecondFits(k + 1, state', need')
<1> USE DEF PacketTypes, U!Size, U!IsMark, SecondFits
<1>2. CASE U!Mark1(d, k)
  BY <1>2 DEF U!Mark1
<1>3. CASE U!Mark2(d, k)
  BY <1>3 DEF U!Mark2
<1>4. CASE U!Type(d, k)
  BY <1>4 DEF U!Type
<1>5. CASE U!SizeByte(d, k)
  BY <1>5 DEF U!SizeByte
<1>6. CASE U!Middle(d, k)
  BY <1>6 DEF U!Middle
<1>7. CASE U!Sum2(d, k)
  BY <1>7 DEF U!Sum2
<1> QED BY <1>2, <1>3, <1>4, <1>5, <1>6, <1>7 DEF U!TakeByte

\* The terminal, select and the control thread leave the packet alone.
LEMMA QuietStep ==
  ASSUME UdpInv,
         U!TerminalSends \/ U!TerminalRestarts \/ U!Poll \/ U!ReceiveRefused
           \/ U!ControlThread \/ UNCHANGED U!vars
  PROVE  UdpInv' /\ idx' = idx
<1> USE DEF U!conVars, U!packetVars, U!socketVars, U!termVars, U!vars
<1>0. UdpTypes /\ InStep
  BY DEF UdpInv
<1>1. UNCHANGED <<idx, buf, state, need, from, delivered>>
  BY DEF U!TerminalSends, U!TerminalRestarts, U!Poll, U!ReceiveRefused, U!NoByte,
         U!ControlThread, U!Transmit, U!Write, U!CloseConnection
<1>2. streak' \in {0, streak}
  BY DEF U!TerminalSends, U!TerminalRestarts, U!Poll, U!ReceiveRefused,
         U!ControlThread, U!Transmit, U!Write, U!CloseConnection
<1>3. InStep'
  BY <1>0, <1>1, <1>2 DEF InStep, SecondFits, ThirdFits, U!Size
<1>4. udp_connected' \in BOOLEAN /\ refused' \in BOOLEAN
  <2>1. refused \in BOOLEAN /\ udp_connected \in BOOLEAN
    BY <1>0 DEF UdpTypes
  <2> QED BY <2>1, Zenon
          DEF U!TerminalSends, U!TerminalRestarts, U!Poll, U!ReceiveRefused,
              U!ControlThread, U!Transmit, U!Write, U!CloseConnection
<1>5. /\ udp_thread' \in {"poll", "receive"} /\ udp_control' \in {"idle", "write", "close"}
      /\ port' \in Ports /\ restarts' \in 0..MaxRestarts
      /\ peer' = peer /\ (udp_connected' => udp_connected)
  <2>1. /\ udp_thread \in {"poll", "receive"} /\ udp_control \in {"idle", "write", "close"}
        /\ port \in Ports /\ restarts \in 0..MaxRestarts
    BY <1>0 DEF UdpTypes
  <2>2. /\ udp_thread' \in {udp_thread, "poll", "receive"}
        /\ udp_control' \in {udp_control, "idle", "write", "close"}
    BY DEF U!TerminalSends, U!TerminalRestarts, U!Poll, U!ReceiveRefused, U!NoByte,
           U!ControlThread, U!Transmit, U!Write, U!CloseConnection
  <2>3. peer' = peer /\ (udp_connected' => udp_connected)
    <3>1. CASE U!TerminalSends \/ U!TerminalRestarts \/ U!Poll \/ UNCHANGED U!vars
      BY <3>1 DEF U!TerminalSends, U!TerminalRestarts, U!Poll
    <3>2. CASE U!ReceiveRefused
      BY <3>2, Zenon DEF U!ReceiveRefused
    <3>3. CASE U!Transmit \/ U!Write
      <4>1. peer' = peer /\ udp_connected' = udp_connected
        BY <3>3, Zenon DEF U!Transmit, U!Write
      <4> QED BY <4>1
    <3>4. CASE U!CloseConnection
      BY <3>4, Zenon DEF U!CloseConnection
    <3> QED BY <3>1, <3>2, <3>3, <3>4 DEF U!ControlThread
  <2>4. CASE U!TerminalRestarts
    BY <2>1, <2>2, <2>3, <2>4, UdpConstants DEF U!TerminalRestarts
  <2>5. CASE ~U!TerminalRestarts
    <3>1. UNCHANGED <<port, restarts>>
      BY <2>5 DEF U!TerminalSends, U!Poll, U!ReceiveRefused, U!ControlThread, U!Transmit,
                  U!Write, U!CloseConnection
    <3> QED BY <2>1, <2>2, <2>3, <3>1
  <2> QED BY <2>4, <2>5
<1>6. /\ inbox' \in Seq([port : Ports, number : {0, 1, 2}]) /\ Len(inbox') <= MaxInbox
      /\ udp_next' \in {0, 1, 2}
  <2>1. CASE U!TerminalSends
    <3>1. [port |-> port, number |-> udp_next] \in [port : Ports, number : {0, 1, 2}]
      BY <1>0 DEF UdpTypes
    <3> DEFINE m == [port |-> port, number |-> udp_next]
               M == [port : Ports, number : {0, 1, 2}]
    <3>2. inbox \in Seq(M) /\ Len(inbox) \in Nat /\ Len(inbox) < MaxInbox
      BY <1>0, <2>1 DEF UdpTypes, U!TerminalSends
    <3>3. inbox' \in {Append(inbox, m), inbox} /\ udp_next' = (udp_next + 1) % 3
      BY <2>1 DEF U!TerminalSends
    <3>4. udp_next' \in {0, 1, 2}
      BY <1>0, <3>3 DEF UdpTypes
    <3> HIDE DEF m, M
    <3>5. m \in M
      BY <3>1 DEF m, M
    <3>6. Append(inbox, m) \in Seq(M) /\ Len(Append(inbox, m)) = Len(inbox) + 1
      BY <3>2, <3>5
    <3>7. Len(Append(inbox, m)) <= MaxInbox /\ Len(inbox) <= MaxInbox
      BY <3>2, <3>6, UdpConstants
    <3>8. inbox' \in Seq(M) /\ Len(inbox') <= MaxInbox
      BY <3>2, <3>3, <3>6, <3>7
    <3> QED BY <3>4, <3>8 DEF M
  <2>2. CASE ~U!TerminalSends
    <3>1. UNCHANGED <<inbox, udp_next>>
      BY <2>2 DEF U!TerminalRestarts, U!Poll, U!ReceiveRefused, U!ControlThread, U!Transmit,
                  U!Write, U!CloseConnection
    <3> QED BY <1>0, <3>1 DEF UdpTypes
  <2> QED BY <2>1, <2>2
<1>7. UdpTypes'
  <2>1. streak' \in 0..3
    BY <1>0, <1>2 DEF UdpTypes
  <2> QED BY <1>0, <1>1, <1>4, <1>5, <1>6, <2>1 DEF UdpTypes, PacketTypes
<1> QED BY <1>1, <1>3, <1>7 DEF UdpInv

\* The first datagram of the inbox, and the others.
LEMMA InboxIs ==
  ASSUME UdpInv, inbox # << >>
  PROVE  /\ Head(inbox).port \in Ports /\ Head(inbox).number \in {0, 1, 2}
         /\ Tail(inbox) \in Seq([port : Ports, number : {0, 1, 2}])
         /\ Len(Tail(inbox)) <= MaxInbox
<1> DEFINE M == [port : Ports, number : {0, 1, 2}]
<1>1. inbox \in Seq(M) /\ Len(inbox) <= MaxInbox
  BY DEF UdpTypes, UdpInv
<1> HIDE DEF M
<1>2. Head(inbox) \in M /\ Tail(inbox) \in Seq(M) /\ Len(Tail(inbox)) <= Len(inbox)
      /\ Len(inbox) \in Nat /\ Len(Tail(inbox)) \in Nat
  BY <1>1
<1> QED BY <1>1, <1>2, UdpConstants DEF M

\* What the steps that take a byte have in common.
LEMMA ByteTypes ==
  ASSUME UdpInv, NEW d \in {0, 1, 2}, NEW k \in 0..6, U!TakeByte(d, k),
         UNCHANGED <<udp_control, refused, port, udp_next, restarts>>,
         udp_connected' \in BOOLEAN, udp_connected' => peer' # 0, peer' \in Ports \cup {0},
         idx' \in 1..7, buf' \in {0, 1, 2}, streak' \in 0..3,
         inbox' \in Seq([port : Ports, number : {0, 1, 2}]), Len(inbox') <= MaxInbox
  PROVE  UdpTypes'
<1>1. PacketTypes /\ udp_thread \in {"poll", "receive"} /\ delivered \in {-1, 0, 1, 2}
  BY DEF UdpTypes, UdpInv
<1>2. PacketTypes' /\ udp_thread' \in {"poll", "receive"} /\ delivered' \in {-1, 0, 1, 2}
  BY <1>1, TakeByteTypes
<1>3. /\ udp_control' \in {"idle", "write", "close"} /\ refused' \in BOOLEAN
      /\ port' \in Ports /\ udp_next' \in {0, 1, 2} /\ restarts' \in 0..MaxRestarts
  BY DEF UdpTypes, UdpInv
<1> QED BY <1>2, <1>3 DEF UdpTypes

\* recvfrom connects; the packet takes a byte out of step.
LEMMA ReceiveFirstStep == ASSUME UdpInv, U!ReceiveFirst PROVE UdpInv' /\ idx' = idx
<1>1. /\ inbox # << >> /\ inbox' = Tail(inbox)
      /\ peer' = Head(inbox).port /\ udp_connected' = TRUE /\ streak' = 1
      /\ U!TakeByte(Head(inbox).number, 0)
      /\ UNCHANGED <<idx, buf, udp_control, refused, port, udp_next, restarts>>
  BY DEF U!ReceiveFirst, U!Connect, U!termVars
<1>2. /\ Head(inbox).port \in Ports /\ Head(inbox).port # 0 /\ Head(inbox).number \in {0, 1, 2}
      /\ Tail(inbox) \in Seq([port : Ports, number : {0, 1, 2}]) /\ Len(Tail(inbox)) <= MaxInbox
  BY <1>1, InboxIs, UdpConstants
<1>3. udp_connected' \in BOOLEAN
  BY <1>1, Zenon
<1>4. idx' \in 1..7 /\ buf' \in {0, 1, 2} /\ streak' \in 0..3 /\ 0 \in 0..6
  BY <1>1 DEF UdpTypes, UdpInv
<1>5. UdpTypes'
  BY <1>1, <1>2, <1>3, <1>4, ByteTypes
<1>6. InStep'
  BY <1>1 DEF InStep
<1> QED BY <1>1, <1>5, <1>6 DEF UdpInv

\* connect() fails: a datagram is lost.
LEMMA ConnectFailsStep == ASSUME UdpInv, U!ConnectFails PROVE UdpInv' /\ idx' = idx
<1>1. /\ inbox # << >> /\ inbox' = Tail(inbox) /\ udp_thread' = "poll"
      /\ UNCHANGED <<udp_connected, idx, buf, state, need, from, udp_control, peer, refused,
                     port, udp_next, restarts, delivered, streak>>
  BY DEF U!ConnectFails, U!NoByte, U!conVars, U!packetVars, U!termVars
<1>2. Tail(inbox) \in Seq([port : Ports, number : {0, 1, 2}]) /\ Len(Tail(inbox)) <= MaxInbox
  BY <1>1, InboxIs
<1>3. UdpTypes'
  BY <1>1, <1>2 DEF UdpInv, UdpTypes, PacketTypes
<1>4. InStep'
  BY <1>1 DEF UdpInv, InStep, SecondFits, ThirdFits
<1> QED BY <1>1, <1>3, <1>4 DEF UdpInv

\* udp_read fetches the next datagram of the session.
LEMMA ReadDatagramStep == ASSUME UdpInv, U!ReadDatagram PROVE UdpInv' /\ idx = 7 /\ idx' = 1
<1>1. /\ inbox # << >> /\ inbox' = Tail(inbox) /\ buf' = Head(inbox).number
      /\ streak' = (IF streak < 3 THEN streak + 1 ELSE 3)
      /\ idx = 7 /\ idx' = 1 /\ U!TakeByte(buf', 0)
      /\ UNCHANGED <<udp_connected, udp_control, peer, refused, port, udp_next, restarts>>
  BY DEF U!ReadDatagram, U!Fetch, U!termVars, U!Size
<1>2. /\ buf' \in {0, 1, 2}
      /\ Tail(inbox) \in Seq([port : Ports, number : {0, 1, 2}]) /\ Len(Tail(inbox)) <= MaxInbox
  BY <1>1, InboxIs
<1>3. /\ udp_connected' \in BOOLEAN /\ (udp_connected' => peer' # 0) /\ peer' \in Ports \cup {0}
      /\ streak \in 0..3 /\ PacketTypes
  BY <1>1 DEF UdpTypes, UdpInv
<1>4. idx' \in 1..7 /\ streak' \in 0..3 /\ 0 \in 0..6
  BY <1>1, <1>3
<1>5. UdpTypes'
  BY <1>1, <1>2, <1>3, <1>4, ByteTypes
<1>6. InStep'
  <2>1. CASE streak' = 2
    <3>1. SecondFits(0 + 1, state', need')
      BY <1>1, <1>2, <1>3, <1>4, AnyByte
    <3> QED BY <1>1, <2>1, <3>1 DEF InStep, SecondFits, U!Size
  <2>2. CASE streak' = 3
    <3>1. state = 0
      BY <1>1, <1>3, <2>2 DEF UdpInv, InStep, ThirdFits, U!Size
    <3>2. state' = 1 /\ from' = buf'
      BY <1>1, <1>2, <1>3, <1>4, <3>1, InStepByte
    <3> QED BY <1>1, <2>2, <3>2 DEF InStep, ThirdFits, U!Size
  <2>3. CASE streak' \notin {2, 3}
    BY <2>3 DEF InStep
  <2> QED BY <2>1, <2>2, <2>3
<1> QED BY <1>1, <1>5, <1>6 DEF UdpInv

\* udp_read takes a byte of the datagram there is; with the last one of a datagram after
\* the second the packet is complete.
LEMMA ReadBufferStep ==
  ASSUME UdpInv, U!ReadBuffer
  PROVE  UdpInv' /\ (streak = 3 /\ idx' = 7 => delivered' = buf)
<1>1. /\ idx < 7 /\ idx' = idx + 1 /\ U!TakeByte(buf, idx)
      /\ UNCHANGED <<udp_connected, buf, udp_control, peer, inbox, refused, port, udp_next,
                     restarts, streak>>
  BY DEF U!ReadBuffer, U!socketVars, U!termVars, U!Size
<1>2. /\ udp_connected' \in BOOLEAN /\ (udp_connected' => peer' # 0) /\ peer' \in Ports \cup {0}
      /\ inbox' \in Seq([port : Ports, number : {0, 1, 2}]) /\ Len(inbox') <= MaxInbox
      /\ streak' \in 0..3 /\ buf \in {0, 1, 2} /\ buf' \in {0, 1, 2} /\ PacketTypes
      /\ idx \in 1..7
  BY <1>1 DEF UdpTypes, UdpInv
<1>3. idx \in 0..6 /\ idx' \in 1..7
  BY <1>1, <1>2
<1>4. UdpTypes'
  BY <1>1, <1>2, <1>3, ByteTypes
<1>5. InStep /\ streak' = streak
  BY <1>1 DEF UdpInv
<1>6. CASE streak = 2
  <2>1. SecondFits(idx, state, need)
    BY <1>5, <1>6 DEF InStep
  <2>2. IF idx = 6 THEN state' = 0 ELSE SecondFits(idx + 1, state', need')
    BY <1>1, <1>2, <1>3, <2>1, AnyByte
  <2>3. SecondFits(idx', state', need') /\ (idx' = 7 => state' = 0)
    BY <1>1, <1>2, <2>2 DEF SecondFits, U!Size
  <2> QED BY <1>4, <1>5, <1>6, <2>3 DEF UdpInv, InStep, U!Size
<1>7. CASE streak = 3
  <2>1. state = idx /\ from = buf /\ (idx > 3 => need = 7)
    BY <1>1, <1>5, <1>7 DEF InStep, ThirdFits, U!Size
  <2>2. IF idx = 6 THEN state' = 0 /\ delivered' = buf
                   ELSE state' = idx + 1 /\ from' = buf /\ (idx > 2 => need' = 7)
    BY <1>1, <1>2, <1>3, <2>1, InStepByte
  <2>3. ThirdFits(idx)'
    BY <1>1, <1>2, <2>2 DEF ThirdFits, U!Size
  <2> QED BY <1>1, <1>2, <1>4, <1>5, <1>7, <2>2, <2>3 DEF UdpInv, InStep, U!Size
<1>8. CASE streak \notin {2, 3}
  BY <1>4, <1>5, <1>8 DEF UdpInv, InStep
<1> QED BY <1>6, <1>7, <1>8

LEMMA UdpStep ==
  ASSUME UdpInv, U!Next \/ UNCHANGED U!vars
  PROVE  UdpInv' /\ (streak = 3 /\ idx # U!Size /\ idx' = U!Size => delivered' = buf)
<1>1. CASE U!ReceiveFirst
  BY <1>1, ReceiveFirstStep
<1>5. CASE U!ConnectFails
  BY <1>5, ConnectFailsStep DEF U!Size
<1>2. CASE U!ReadDatagram
  BY <1>2, ReadDatagramStep DEF U!Size
<1>3. CASE U!ReadBuffer
  BY <1>3, ReadBufferStep DEF U!Size
<1>4. CASE U!TerminalSends \/ U!TerminalRestarts \/ U!Poll \/ U!ReceiveRefused
             \/ U!ControlThread \/ UNCHANGED U!vars
  BY <1>4, QuietStep
<1> QED BY <1>1, <1>2, <1>3, <1>4, <1>5 DEF U!Next, U!TerminalThread

LEMMA UdpPromise == UdpInv => U!TypeOK
BY UdpTypesAre DEF UdpInv

-----------------------------------------------------------------------------
(***************************************************************************)
(* TcpServer.  But for a mishap, what terminal_thread has open is what it  *)
(* has noted, from the accept to the close.                                *)
(***************************************************************************)
LEMMA TcpConstants == FDs \subseteq Nat \ {0} /\ MaxConns \in Nat \ {0}
BY GumstixConstantsOK DEF T!TcpConstantsOK

NoneOpen == \A f \in FDs : files[f] = 0

\* Without a mishap the control thread closes nothing, and what terminal_thread has open
\* is the descriptor in tcp_connection_t, from the accept to the close.
FileIsKnown ==
  /\ tcp_control \in {"idle", "write"}
  /\ \A f \in FDs : files[f] # 0 => f = fd
  /\ tcp_thread = "read" => tcp_connected
  /\ tcp_thread \in {"accept", "accepting", "closing", "closed"} => NoneOpen
  /\ tcp_thread \in {"poll", "receive"} /\ ~tcp_connected => NoneOpen

TcpInv == T!TypeOK /\ (mishap \/ FileIsKnown)

LEMMA TcpInit == T!Init => TcpInv
<1> SUFFICES ASSUME T!Init PROVE TcpInv
  OBVIOUS
<1> USE DEF T!Init
<1>1. {tcp_killed, heard, mishap} \subseteq BOOLEAN /\ tcp_connected \in BOOLEAN
  BY Zenon
<1>2. T!TypeOK
  BY <1>1, TcpConstants DEF T!TypeOK, T!Conns
<1>3. FileIsKnown
  BY DEF FileIsKnown, NoneOpen
<1> QED BY <1>2, <1>3 DEF TcpInv

\* What the types say one by one, and together.
LEMMA TcpTypes ==
  T!TypeOK <=> /\ fd \in FDs \cup {0, T!Closed}
               /\ tcp_thread \in {"poll", "receive", "accept", "accepting", "accepted", "read",
                                  "close", "closing", "closed"}
               /\ tcp_control \in {"idle", "write", "close", "closing", "closed"}
               /\ wfd \in FDs \cup {0, T!Closed}
               /\ files \in [FDs -> {0} \cup T!Conns]
               /\ line \in [T!Conns -> {"none", "open", "fin", "reset", "gone"}]
               /\ backlog \subseteq T!Conns /\ made \in 0..MaxConns
               /\ tcp_connected \in BOOLEAN /\ tcp_killed \in BOOLEAN
               /\ heard \in BOOLEAN /\ mishap \in BOOLEAN
BY Zenon DEF T!TypeOK

LEMMA TerminalStep ==
  ASSUME TcpInv, T!TerminalConnects \/ T!TerminalCloses \/ UNCHANGED T!vars
  PROVE  TcpInv'
<1> USE DEF T!tcVars, T!netVars, T!vars
<1>0. T!TypeOK /\ (mishap \/ FileIsKnown)
  BY DEF TcpInv
<1>1. UNCHANGED <<fd, tcp_connected, tcp_thread, tcp_control, wfd, files, tcp_killed, heard,
                  mishap>>
  BY DEF T!TerminalConnects, T!TerminalCloses
<1>2. FileIsKnown => FileIsKnown'
  BY <1>1 DEF FileIsKnown, NoneOpen
<1>3. /\ line' \in [T!Conns -> {"none", "open", "fin", "reset", "gone"}]
      /\ backlog' \subseteq T!Conns /\ made' \in 0..MaxConns
  <2>1. CASE T!TerminalConnects
    <3>1. made + 1 \in T!Conns /\ made + 1 \in 0..MaxConns
      BY <1>0, <2>1, TcpTypes, TcpConstants DEF T!TerminalConnects, T!Conns
    <3> QED BY <1>0, <2>1, <3>1, TcpTypes DEF T!TerminalConnects
  <2>2. CASE T!TerminalCloses
    BY <1>0, <2>2, TcpTypes DEF T!TerminalCloses
  <2>3. CASE UNCHANGED T!vars
    BY <1>0, <2>3, TcpTypes
  <2> QED BY <2>1, <2>2, <2>3
<1>4. T!TypeOK'
  <2>1. T!Conns' = T!Conns
    BY DEF T!Conns
  <2> QED BY <1>0, <1>1, <1>3, <2>1, TcpTypes DEF T!TypeOK, T!Conns, T!Closed
<1> QED BY <1>0, <1>1, <1>2, <1>4 DEF TcpInv

\* close( f ).
LEMMA CloseIs ==
  ASSUME T!TypeOK, NEW f \in FDs \cup {0, T!Closed}, T!Close(f)
  PROVE  /\ files' \in [FDs -> {0} \cup T!Conns]
         /\ line' \in [T!Conns -> {"none", "open", "fin", "reset", "gone"}]
         /\ \A g \in FDs : files'[g] = IF g = f THEN 0 ELSE files[g]
<1>1. /\ files \in [FDs -> {0} \cup T!Conns]
      /\ line \in [T!Conns -> {"none", "open", "fin", "reset", "gone"}]
  BY TcpTypes
<1>2. CASE T!IsOpen(f)
  BY <1>1, <1>2 DEF T!Close, T!IsOpen, T!Peer
<1>3. CASE ~T!IsOpen(f)
  BY <1>1, <1>3 DEF T!Close, T!IsOpen
<1> QED BY <1>2, <1>3

\* terminal_thread: what it does with the descriptor.
LEMMA ThreadStep ==
  ASSUME TcpInv, T!TerminalThread
  PROVE  TcpInv'
<1> USE DEF T!tcVars, T!netVars
<1>0. /\ T!TypeOK /\ (mishap \/ FileIsKnown) /\ files \in [FDs -> {0} \cup T!Conns]
      /\ fd \in FDs \cup {0, T!Closed} /\ tcp_connected \in BOOLEAN
      /\ line \in [T!Conns -> {"none", "open", "fin", "reset", "gone"}]
      /\ backlog \subseteq T!Conns
  BY TcpTypes DEF TcpInv
<1>1. UNCHANGED <<tcp_control, wfd, made, tcp_killed>>
  BY DEF T!TerminalThread, T!Poll, T!Receive, T!Accept, T!Accepting, T!SetConnected, T!Read,
         T!ThreadCloses
<1>2. heard' \in BOOLEAN /\ tcp_connected' \in BOOLEAN /\ mishap' \in BOOLEAN
      /\ (mishap => mishap')
  BY <1>0, TcpTypes, Zenon DEF T!TerminalThread, T!Poll, T!Receive, T!Accept, T!Accepting,
         T!SetConnected, T!Accepted, T!Read, T!ThreadCloses
<1>3. tcp_thread' \in {"poll", "receive", "accept", "accepting", "accepted", "read",
                       "close", "closing", "closed"}
  BY DEF T!TerminalThread, T!Poll, T!Receive, T!Accept, T!Accepting,
         T!SetConnected, T!Accepted, T!Read, T!ThreadCloses
<1>4. T!TypeOK' <=> /\ fd' \in FDs \cup {0, T!Closed}
                    /\ files' \in [FDs -> {0} \cup T!Conns]
                    /\ line' \in [T!Conns -> {"none", "open", "fin", "reset", "gone"}]
                    /\ backlog' \subseteq T!Conns
  BY <1>0, <1>1, <1>2, <1>3, TcpTypes, Zenon DEF T!TypeOK, T!Conns, T!Closed
<1>5. CASE T!Poll \/ T!Receive \/ T!Accept \/ T!SetConnected \/ T!Read
  <2>0. mishap' \/ mishap' = mishap
    BY <1>5 DEF T!Poll, T!Receive, T!Accept, T!SetConnected, T!Accepted, T!Read
  <2>1. UNCHANGED <<fd, files, line, backlog>>
    BY <1>5 DEF T!Poll, T!Receive, T!Accept, T!SetConnected, T!Read
  <2>2. mishap' \/ (FileIsKnown => FileIsKnown')
    BY <1>1, <1>5, <2>1 DEF FileIsKnown, NoneOpen, T!Poll, T!Receive, T!Accept, T!SetConnected,
                            T!Accepted, T!Read
  <2> QED BY <1>0, <1>1, <1>2, <1>4, <2>1, <2>2 DEF TcpInv
<1>6. CASE T!Accepting
  <2>1. PICK f \in FDs, c \in backlog :
          /\ fd' = f /\ files' = [files EXCEPT ![f] = c] /\ backlog' = backlog \ {c}
          /\ tcp_thread = "accepting" /\ tcp_thread' = "accepted" /\ UNCHANGED <<line, mishap>>
    BY <1>6 DEF T!Accepting
  <2>2. c \in T!Conns /\ files' \in [FDs -> {0} \cup T!Conns] /\ backlog' \subseteq T!Conns
    BY <1>0, <2>1
  <2>3. FileIsKnown => FileIsKnown'
    BY <1>0, <1>1, <2>1 DEF FileIsKnown, NoneOpen
  <2> QED BY <1>0, <1>1, <1>4, <2>1, <2>2, <2>3 DEF TcpInv
<1>7. CASE T!ThreadCloses
  <2>1. CASE tcp_thread = "close"
    <3>1. /\ T!Close(fd) /\ tcp_thread' = "closing"
          /\ UNCHANGED <<fd, tcp_connected, backlog, mishap>>
      BY <1>7, <2>1 DEF T!ThreadCloses, T!CloseFile
    <3>2. /\ files' \in [FDs -> {0} \cup T!Conns]
          /\ line' \in [T!Conns -> {"none", "open", "fin", "reset", "gone"}]
          /\ \A g \in FDs : files'[g] = IF g = fd THEN 0 ELSE files[g]
      BY <1>0, <3>1, CloseIs
    <3>3. FileIsKnown => FileIsKnown'
      BY <1>1, <3>1, <3>2 DEF FileIsKnown, NoneOpen
    <3> QED BY <1>0, <1>1, <1>4, <3>1, <3>2, <3>3 DEF TcpInv
  <2>2. CASE tcp_thread # "close"
    <3>1. /\ UNCHANGED <<files, line, backlog, mishap>> /\ fd' \in {fd, T!Closed}
          /\ \/ tcp_thread = "closing" /\ tcp_thread' = "closed"
             \/ tcp_thread = "closed" /\ tcp_thread' = "poll"
      BY <1>7, <2>2 DEF T!ThreadCloses
    <3>2. FileIsKnown => FileIsKnown'
      BY <1>1, <3>1 DEF FileIsKnown, NoneOpen
    <3> QED BY <1>0, <1>1, <1>4, <3>1, <3>2 DEF TcpInv
  <2> QED BY <2>1, <2>2
<1> QED BY <1>5, <1>6, <1>7 DEF T!TerminalThread

\* The control thread: it only gets to close after a mishap.
LEMMA ControlStep ==
  ASSUME TcpInv, T!ControlThread
  PROVE  TcpInv'
<1> USE DEF T!tcVars, T!netVars
<1>0. /\ T!TypeOK /\ (mishap \/ FileIsKnown) /\ files \in [FDs -> {0} \cup T!Conns]
      /\ fd \in FDs \cup {0, T!Closed} /\ wfd \in FDs \cup {0, T!Closed}
      /\ tcp_connected \in BOOLEAN
      /\ line \in [T!Conns -> {"none", "open", "fin", "reset", "gone"}]
  BY TcpTypes DEF TcpInv
<1>1. UNCHANGED <<tcp_thread, backlog, made, heard>>
  BY DEF T!ControlThread, T!Transmit, T!Write, T!ControlCloses
<1>2. /\ tcp_killed' \in BOOLEAN /\ mishap' \in BOOLEAN /\ tcp_connected' \in BOOLEAN
      /\ mishap => mishap'
  BY <1>0, TcpTypes, Zenon DEF T!ControlThread, T!Transmit, T!Write, T!ControlCloses
<1>3. tcp_control' \in {"idle", "write", "close", "closing", "closed"}
  BY <1>0, TcpTypes DEF T!ControlThread, T!Transmit, T!Write, T!ControlCloses
<1>4. T!TypeOK' <=> /\ fd' \in FDs \cup {0, T!Closed} /\ wfd' \in FDs \cup {0, T!Closed}
                    /\ files' \in [FDs -> {0} \cup T!Conns]
                    /\ line' \in [T!Conns -> {"none", "open", "fin", "reset", "gone"}]
  BY <1>0, <1>1, <1>2, <1>3, TcpTypes, Zenon DEF T!TypeOK, T!Conns, T!Closed
<1>5. CASE T!Transmit
  <2>1. wfd' = fd /\ tcp_control' = "write"
        /\ UNCHANGED <<fd, tcp_connected, files, line, mishap>>
    BY <1>5 DEF T!Transmit
  <2>2. FileIsKnown => FileIsKnown'
    BY <1>1, <2>1 DEF FileIsKnown, NoneOpen
  <2> QED BY <1>0, <1>4, <2>1, <2>2 DEF TcpInv
<1>6. CASE T!Write
  <2>1. UNCHANGED <<fd, tcp_connected, files, wfd>> /\ tcp_control = "write"
        /\ (mishap' \/ tcp_control' \in {"idle", "write"})
    BY <1>6 DEF T!Write
  <2>2. line' \in [T!Conns -> {"none", "open", "fin", "reset", "gone"}]
    BY <1>0, <1>6 DEF T!Write
  <2>3. mishap' \/ (FileIsKnown => FileIsKnown')
    BY <1>1, <2>1 DEF FileIsKnown, NoneOpen
  <2> QED BY <1>0, <1>2, <1>4, <2>1, <2>2, <2>3 DEF TcpInv
<1>7. CASE T!ControlCloses
  <2>1. mishap /\ mishap' = mishap /\ wfd' = wfd
    BY <1>0, <1>7 DEF FileIsKnown, T!ControlCloses
  <2>2. T!Close(fd) \/ UNCHANGED <<files, line>>
    BY <1>7 DEF T!ControlCloses
  <2>3. fd' \in {fd, T!Closed}
    BY <1>7 DEF T!ControlCloses
  <2>4. /\ files' \in [FDs -> {0} \cup T!Conns]
        /\ line' \in [T!Conns -> {"none", "open", "fin", "reset", "gone"}]
    BY <1>0, <2>2, CloseIs
  <2> QED BY <1>0, <1>4, <2>1, <2>3, <2>4 DEF TcpInv
<1> QED BY <1>5, <1>6, <1>7 DEF T!ControlThread

LEMMA TcpStep == ASSUME TcpInv, T!Next \/ UNCHANGED T!vars PROVE TcpInv'
BY TerminalStep, ThreadStep, ControlStep DEF T!Next

LEMMA TcpPromise == TcpInv => T!TypeOK /\ T!NoLeak
BY DEF TcpInv, FileIsKnown, T!NoLeak, T!IsOpen

-----------------------------------------------------------------------------
(***************************************************************************)
(* The parts together: each takes a step of its own, or none.              *)
(***************************************************************************)
AllInv ==
  /\ TimingInv /\ HeadingInv /\ FilterInv /\ OriginalInv
  /\ ParamsInv /\ TrimInv /\ UdpInv /\ TcpInv

LEMMA AllBegin == AllInit => AllInv
BY TimingInit, HeadingInit, FilterInit, OriginalInit, ParamsInit, TrimInit, UdpInit, TcpInit
   DEF AllInit, AllInv

\* What a step of the programs is for each part.
LEMMA StepOfParts ==
  ASSUME [AllNext]_allVars
  PROVE  /\ [Next]_vars
         /\ H!Next \/ UNCHANGED H!vars
         /\ F!Next \/ UNCHANGED F!vars
         /\ O!Next \/ UNCHANGED O!vars
         /\ P!Next \/ UNCHANGED P!vars
         /\ A!Next \/ UNCHANGED A!vars
         /\ U!Next \/ UNCHANGED U!vars
         /\ T!Next \/ UNCHANGED T!vars
<1>1. /\ UNCHANGED timingVars => UNCHANGED vars
      /\ UNCHANGED yawVars => UNCHANGED H!vars
      /\ UNCHANGED filVars => UNCHANGED F!vars
      /\ UNCHANGED posVars => UNCHANGED O!vars
      /\ UNCHANGED parVars => UNCHANGED P!vars
      /\ UNCHANGED trimVars => UNCHANGED A!vars
      /\ UNCHANGED udpVars => UNCHANGED U!vars
      /\ UNCHANGED tcpVars => UNCHANGED T!vars
  BY DEF timingVars, vars, yawVars, H!vars, H!imuVars, H!cmdVars, filVars, F!vars, posVars,
         O!vars, O!motorVars, O!commandVars, O!tiltVars, O!placeVars, parVars, P!vars,
         P!termVars, P!portVars, P!loopVars, trimVars, A!vars, A!flagVars, A!angleVars,
         A!fileVars, udpVars, U!vars, U!conVars, U!packetVars, U!socketVars, U!termVars,
         tcpVars, T!vars, T!tcVars, T!netVars
<1>2. \/ UNCHANGED allVars
      \/ Next /\ UNCHANGED <<yawVars, filVars, posVars, parVars, trimVars, udpVars, tcpVars>>
      \/ H!Next /\ UNCHANGED <<timingVars, filVars, posVars, parVars, trimVars, udpVars, tcpVars>>
      \/ F!Next /\ UNCHANGED <<timingVars, yawVars, posVars, parVars, trimVars, udpVars, tcpVars>>
      \/ O!Next /\ UNCHANGED <<timingVars, yawVars, filVars, parVars, trimVars, udpVars, tcpVars>>
      \/ P!Next /\ UNCHANGED <<timingVars, yawVars, filVars, posVars, trimVars, udpVars, tcpVars>>
      \/ A!Next /\ UNCHANGED <<timingVars, yawVars, filVars, posVars, parVars, udpVars, tcpVars>>
      \/ U!Next /\ UNCHANGED <<timingVars, yawVars, filVars, posVars, parVars, trimVars, tcpVars>>
      \/ T!Next /\ UNCHANGED <<timingVars, yawVars, filVars, posVars, parVars, trimVars, udpVars>>
  BY Zenon DEF AllNext
<1>3. UNCHANGED allVars
        => /\ UNCHANGED timingVars /\ UNCHANGED yawVars /\ UNCHANGED filVars
           /\ UNCHANGED posVars /\ UNCHANGED parVars /\ UNCHANGED trimVars
           /\ UNCHANGED udpVars /\ UNCHANGED tcpVars
  BY DEF allVars
<1> QED BY <1>1, <1>2, <1>3

LEMMA AllStep == AllInv /\ [AllNext]_allVars => AllInv'
<1> SUFFICES ASSUME AllInv, [AllNext]_allVars PROVE AllInv'
  OBVIOUS
<1>1. TimingInv'
  BY StepOfParts, TimingStep, Zenon DEF AllInv
<1>2. HeadingInv'
  BY StepOfParts, HeadingStep, Zenon DEF AllInv
<1>3. FilterInv'
  BY StepOfParts, FilterStep, Zenon DEF AllInv
<1>4. OriginalInv'
  BY StepOfParts, OriginalStep, Zenon DEF AllInv
<1>5. ParamsInv'
  BY StepOfParts, ParamsStep, Zenon DEF AllInv
<1>6. TrimInv'
  BY StepOfParts, TrimStep, Zenon DEF AllInv
<1>7. UdpInv'
  BY StepOfParts, UdpStep, Zenon DEF AllInv
<1>8. TcpInv'
  BY StepOfParts, TcpStep, Zenon DEF AllInv
<1> QED BY <1>1, <1>2, <1>3, <1>4, <1>5, <1>6, <1>7, <1>8, Zenon DEF AllInv

LEMMA TimingPromise == TimingInv => TypeOK /\ AliveIsNotBroken
BY DEF TimingInv

LEMMA HeadingPromise == HeadingInv => H!TypeOK /\ H!HeadingFollowsTruth
BY DEF HeadingInv

-----------------------------------------------------------------------------
\* The types of all parts: indices, windings and tilts keep their ranges, gains are of
\* packets that were sent, and a UDP socket that is connected has an address.
THEOREM TypesCorrect == AllSpec => []AllTypesOK
<1>1. AllInv => AllTypesOK
  BY TimingPromise, HeadingPromise, FilterPromise, OriginalPromise, ParamsPromise, TrimPromise,
     UdpPromise, TcpPromise, Zenon DEF AllInv, AllTypesOK
<1> QED BY <1>1, AllBegin, AllStep, PTL DEF AllSpec

\* A terminal that keeps sending is not taken for gone, however long the loop is held up,
\* unless the loop took its last command data further behind than MaxBehind: with
\* TimingAssumption that leaves it Threshold iterations to catch up
\* (check_terminal_connection, wait_for_next_period).
THEOREM AliveTerminalIsKept == AllSpec => []AliveIsNotBroken
<1>1. AllInv => AliveIsNotBroken
  BY TimingPromise DEF AllInv
<1> QED BY <1>1, AllBegin, AllStep, PTL DEF AllSpec

\* A flight begins level and at place 0, whatever places the position tracking gives, and
\* Gain iterations in position mode bring the tilt within its limit, whenever the pilot
\* switches to it (control_loop_original.c).  Nothing is said of the iterations before,
\* nor of a switch back to manual mode.
THEOREM TiltSettles == AllSpec => []PositionModeSettles
<1>1. AllInv => PositionModeSettles
  BY OriginalPromise DEF AllInv
<1> QED BY <1>1, AllBegin, AllStep, PTL DEF AllSpec

\* The controllers get the angle the helicopter has turned since it last stood, however
\* often the IMU wraps around, and no fresh command asks for more than half a turn
\* (prepare_sensor_data, get_command_data).
THEOREM HeadingIsTrue == AllSpec => HeadingFollowsTruth
<1>1. AllInv => (part = "heading" => H!HeadingFollowsTruth)
  BY HeadingPromise DEF AllInv
<1>2. AllInv /\ [AllNext]_allVars
        => [~yaw_heli_settled => H!Target' - H!Target \in -Half..Half]_(H!vars)
  BY StepOfParts, HeadingStep DEF AllInv
<1> QED BY <1>1, <1>2, AllBegin, AllStep, PTL
        DEF AllSpec, HeadingFollowsTruth, H!CommandTakesShortWay

\* The filters follow their signal: the median of one that rises is its median, a level that
\* lasts comes out as it is, a sum is that of the last updates, and a far value is taken
\* late but in the end, whatever the sizes (median_filter.c, average_filter.c,
\* outlier_filter.c, fir_lp_filter.c).
THEOREM FiltersAreTrue == AllSpec => FiltersFollow
<1>1. AllInv => /\ F!MedianOfRising /\ F!MedianTakesLevel /\ F!AverageOfLast
                /\ F!FirKeepsLevel /\ F!LevelIsTaken
  BY FilterPromise DEF AllInv
<1>2. AllInv /\ [AllNext]_allVars
        => [F!Distance(ofValue, ofValue') > MDiff => ofCount = Limit \/ count' = 0]_(F!vars)
  BY StepOfParts, FarIsLate DEF AllInv, FilterInv
<1> QED BY <1>1, <1>2, AllBegin, AllStep, PTL
        DEF AllSpec, FiltersFollow, F!OutliersAreFew

\* Gains are used whole and as they were sent, by roll and pitch alike, and a trim levels
\* the attitude it was stored at, also in the next run of the program (terminal_port.c,
\* control_loop.c, main.c, control_loop_original.c).
THEOREM SettingsArrive == AllSpec => SettingsAreKept
<1>1. AllInv => P!GainsAreOneSet /\ P!GainsAreCurrent /\ A!LevelAtStoredAttitude
  BY ParamsPromise, TrimPromise DEF AllInv
<1>2. AllInv /\ [AllNext]_allVars
        => [phase = "off" /\ ~trim_killed /\ phase' = "scale" => trim' = trim]_(A!vars)
  BY StepOfParts, TrimStep DEF AllInv
<1> QED BY <1>1, <1>2, AllBegin, AllStep, PTL
        DEF AllSpec, SettingsAreKept, A!TrimOutlivesTheProgram

\* No descriptor of the TCP server is lost between its two threads, but for the one race
\* and a failing setsockopt, and from the third datagram of a UDP session on every one is
\* delivered by the time it has been read (tcp_socket_channel.c, udp_socket_channel.c).
THEOREM SessionsHold == AllSpec => SessionsAreKept
<1>1. AllInv => (part = "tcp" => T!NoLeak)
  BY TcpPromise DEF AllInv
<1>2. AllInv /\ [AllNext]_allVars
        => [streak = 3 /\ idx # U!Size /\ idx' = U!Size => delivered' = buf]_(U!vars)
  BY StepOfParts, UdpStep DEF AllInv
<1> QED BY <1>1, <1>2, AllBegin, AllStep, PTL DEF AllSpec, SessionsAreKept, U!SessionSettles
=================================================================================
