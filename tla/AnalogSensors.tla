---------------------------- MODULE AnalogSensors ----------------------------
(***************************************************************************)
(* The analog sensors of Robostix 1: the converter with its one waiting    *)
(* request (adc.c), the sonar with its trigger (minia.c), and the part of  *)
(* the main loop of robo1.c that requests and fetches conversions and tests*)
(* the sonar value for outliers.                                           *)
(*                                                                         *)
(* Nothing here is interrupt-driven but the trigger; the converter and the *)
(* pulse of the sonar change under the feet of the loop, so every look at  *)
(* one of them is a step of its own.  Time is counted in rounds of the     *)
(* loop: a conversion takes at most ConvRounds of them (104 us), motor     *)
(* packets are at least PacketGap apart (more than 1 ms on the line), and  *)
(* each phase of the pulse lasts MinPhase.                                 *)
(*                                                                         *)
(* A definition named X_Variant is not part of the model: it is X with a   *)
(* plausible slip in the code, kept to see that a property notices it.     *)
(***************************************************************************)
EXTENDS Integers, Sequences

CONSTANTS
  Samples,      \* sonar values that occur
  Near,         \* a sample nearer than this to the last value is no outlier (15)
  ConvRounds,   \* bound on a conversion, in rounds of the main loop
  PacketGap,    \* least number of rounds between two motor packets
  MinPhase      \* least number of rounds the pulse stays low or high

AnalogConstantsOK ==
  /\ Samples \subseteq 0..1023
  /\ Near \in Nat \ {0} /\ ConvRounds \in Nat
  /\ PacketGap \in Nat /\ 2 * (ConvRounds + 1) <= PacketGap
  /\ MinPhase \in Nat /\ ConvRounds + 1 < MinPhase

VARIABLES
  at,                 \* where the main loop is
  current_ch,         \* channel being converted, or "none"
  waiting_ch,         \* channel to be converted next, or "none"
  mux,                \* channel the hardware is connected to (ADMUX)
  adif,               \* the converter has finished
  conv_age,           \* rounds since the conversion was started
  data_buf, new_data, \* result and new-data indicator of each channel
  pulse_low,          \* the PWM clock pin of the sonar
  phase_age,          \* rounds since the pin changed, up to MinPhase
  packet_age,         \* rounds since the last motor packet, up to PacketGap
  already_converted, outlier_count,
  sonar,              \* javiator_data.sonar
  sensors_enabled, toie2, trigger,   \* the sonar is on, T2 interrupt, trigger pin
  owed,               \* history: pulses not yet answered by a sample
  recent              \* history: the last three sonar samples

adcVars   == <<current_ch, waiting_ch, mux, adif, conv_age, data_buf, new_data>>
pinVars   == <<pulse_low, phase_age, owed>>
sonarVars == <<already_converted, outlier_count, sonar, recent>>
minia     == <<sensors_enabled, toie2, trigger>>
vars      == <<at, packet_age, adcVars, pinVars, sonarVars, minia>>

Channels == {"sonar", "batt"}
Steps == {"packet", "stop", "pulse", "pulse2", "sonar", "batt", "round"}

Init ==
  /\ at = "packet"
  /\ current_ch = "none" /\ waiting_ch = "none" /\ mux = "none"
  /\ adif = FALSE /\ conv_age = 0
  /\ data_buf = [c \in Channels |-> [from |-> c, value |-> 0]]
  /\ new_data = [c \in Channels |-> FALSE]
  /\ pulse_low = FALSE /\ phase_age = 0 /\ packet_age = PacketGap
  /\ already_converted = FALSE /\ outlier_count = 0 /\ sonar = 0
  /\ sensors_enabled = FALSE /\ toie2 = FALSE /\ trigger = TRUE
  /\ owed = 0 /\ recent = << >>

(***************************************************************************)
(* adc.c                                                                   *)
(***************************************************************************)
Start(channel) == current_ch' = channel /\ mux' = channel /\ conv_age' = 0

\* adc_convert: while a conversion runs, the request waits (and -1 is returned).
AdcConvert_Drops(channel) ==
  /\ IF current_ch # "none"
     THEN UNCHANGED <<current_ch, waiting_ch, mux, conv_age>>
     ELSE Start(channel) /\ UNCHANGED waiting_ch
  /\ UNCHANGED <<adif, data_buf, new_data>>
AdcConvert(channel) ==
  /\ IF current_ch # "none"
     THEN waiting_ch' = channel /\ UNCHANGED <<current_ch, mux, conv_age>>
     ELSE Start(channel) /\ UNCHANGED waiting_ch
  /\ UNCHANGED <<adif, data_buf, new_data>>

\* The waiting conversion is started, if there is one.
StartWaiting_SameInput ==
  IF waiting_ch # "none"
  THEN current_ch' = waiting_ch /\ conv_age' = 0 /\ waiting_ch' = "none" /\ UNCHANGED mux
  ELSE current_ch' = "none" /\ UNCHANGED <<waiting_ch, mux, conv_age>>
StartWaiting ==
  IF waiting_ch # "none"
  THEN Start(waiting_ch) /\ waiting_ch' = "none"
  ELSE current_ch' = "none" /\ UNCHANGED <<waiting_ch, mux, conv_age>>

\* adc_is_new_data( channel ) and, if it returns 1, adc_get_data.  The converter
\* holds v if it has finished.
Result(v) == [from |-> mux, value |-> IF mux = "sonar" THEN v ELSE 0]
Buffer(v) == IF adif THEN [data_buf EXCEPT ![current_ch] = Result(v)] ELSE data_buf
Flags     == IF adif THEN [new_data EXCEPT ![current_ch] = TRUE] ELSE new_data

AdcGetData(channel, v) ==
  /\ IF adif THEN adif' = FALSE /\ StartWaiting
             ELSE UNCHANGED <<adif, current_ch, waiting_ch, mux, conv_age>>
  /\ data_buf' = Buffer(v)
  /\ new_data' = [Flags EXCEPT ![channel] = FALSE]

\* The hardware.
ConversionEnds ==
  /\ current_ch # "none" /\ ~adif
  /\ adif' = TRUE
  /\ UNCHANGED <<at, packet_age, current_ch, waiting_ch, mux, conv_age, data_buf,
                 new_data, pinVars, sonarVars, minia>>

(***************************************************************************)
(* minia.c: the trigger, and the pulse that answers it.                    *)
(***************************************************************************)
T2Overflow ==
  /\ toie2
  /\ trigger' = ~trigger
  /\ UNCHANGED <<at, packet_age, adcVars, pinVars, sonarVars, sensors_enabled, toie2>>

PulseChanges ==
  /\ phase_age = MinPhase
  /\ pulse_low \/ toie2
  /\ pulse_low' = ~pulse_low /\ phase_age' = 0
  /\ owed' = IF pulse_low THEN owed ELSE owed + 1
  /\ UNCHANGED <<at, packet_age, adcVars, sonarVars, minia>>

MiniaStart == trigger' = FALSE /\ toie2' = TRUE
\* minia_stop: the first of its two halves, and the second.
StopHalf_Swapped(first) ==
  IF first THEN trigger' = TRUE /\ UNCHANGED toie2 ELSE toie2' = FALSE /\ UNCHANGED trigger
StopHalf(first) ==
  IF first THEN toie2' = FALSE /\ UNCHANGED trigger ELSE trigger' = TRUE /\ UNCHANGED toie2

(***************************************************************************)
(* The main loop.                                                          *)
(***************************************************************************)
\* send_javiator_data, at the end of process_motor_signals
MotorPacket ==
  /\ at = "packet" /\ packet_age = PacketGap
  /\ packet_age' = 0
  /\ AdcConvert("batt")
  /\ at' = "pulse"
  /\ UNCHANGED <<pinVars, sonarVars, minia>>

\* No motor packet in this round; another packet, or a silent period, may change
\* the sensors' status (enable_sensors).
EnableSensors ==
  \/ ~sensors_enabled /\ sensors_enabled' = TRUE /\ MiniaStart /\ at' = "pulse"
  \/ sensors_enabled /\ UNCHANGED sensors_enabled /\ StopHalf(TRUE) /\ at' = "stop"

NoMotorPacket ==
  /\ at = "packet"
  /\ EnableSensors \/ (UNCHANGED minia /\ at' = "pulse")
  /\ UNCHANGED <<packet_age, adcVars, pinVars, sonarVars>>

FinishStop ==
  /\ at = "stop" /\ at' = "pulse"
  /\ StopHalf(FALSE) /\ sensors_enabled' = FALSE
  /\ UNCHANGED <<packet_age, adcVars, pinVars, sonarVars>>

LookAtPulse ==
  /\ at = "pulse"
  /\ IF pulse_low /\ ~already_converted
     THEN AdcConvert("sonar") /\ already_converted' = TRUE /\ at' = "sonar"
     ELSE UNCHANGED <<adcVars, already_converted>> /\ at' = "pulse2"
  /\ UNCHANGED <<packet_age, pinVars, outlier_count, sonar, recent, minia>>

NextPulse_Forgotten == already_converted
NextPulse == IF pulse_low THEN already_converted ELSE FALSE

LookAgain ==
  /\ at = "pulse2" /\ at' = "sonar"
  /\ already_converted' = NextPulse
  /\ UNCHANGED <<packet_age, adcVars, pinVars, outlier_count, sonar, recent, minia>>

Distance(a, b) == IF a < b THEN b - a ELSE a - b

\* The outlier test: the third sample in a row that is far away is taken.
Accepted_OneTooEarly(v) == Distance(sonar, v) < Near \/ outlier_count > 0
Accepted(v) == Distance(sonar, v) < Near \/ outlier_count > 1

TestSample(v) ==
  /\ IF Accepted(v) THEN sonar' = v /\ outlier_count' = 0
                    ELSE outlier_count' = outlier_count + 1 /\ UNCHANGED sonar
  /\ recent' = LET all == Append(recent, v) IN IF Len(all) > 3 THEN Tail(all) ELSE all
  /\ owed' = owed - 1

FetchSonar ==
  /\ at = "sonar" /\ at' = "batt"
  /\ \E v \in Samples :
       /\ AdcGetData("sonar", v)
       /\ IF Flags["sonar"] THEN TestSample(Buffer(v)["sonar"].value)
                            ELSE UNCHANGED <<outlier_count, sonar, recent, owed>>
  /\ UNCHANGED <<packet_age, pulse_low, phase_age, already_converted, minia>>

FetchBattery ==
  /\ at = "batt" /\ at' = "round"
  /\ \E v \in Samples : AdcGetData("batt", v)
  /\ UNCHANGED <<packet_age, pinVars, sonarVars, minia>>

\* Time passes from one round to the next; no conversion is overdue.
Older(age, max) == IF age < max THEN age + 1 ELSE max

NextRound ==
  /\ at = "round" /\ at' = "packet"
  /\ current_ch = "none" \/ adif \/ conv_age < ConvRounds
  /\ conv_age' = IF current_ch = "none" THEN 0 ELSE Older(conv_age, ConvRounds)
  /\ phase_age' = Older(phase_age, MinPhase)
  /\ packet_age' = Older(packet_age, PacketGap)
  /\ UNCHANGED <<current_ch, waiting_ch, mux, adif, data_buf, new_data, pulse_low, owed,
                 sonarVars, minia>>

Loop == MotorPacket \/ NoMotorPacket \/ FinishStop \/ LookAtPulse \/ LookAgain
          \/ FetchSonar \/ FetchBattery \/ NextRound
Next == Loop \/ ConversionEnds \/ T2Overflow \/ PulseChanges
Spec == Init /\ [][Next]_vars

TypeOK ==
  /\ at \in Steps
  /\ {current_ch, waiting_ch, mux} \subseteq Channels \cup {"none"}
  /\ adif \in BOOLEAN /\ conv_age \in 0..ConvRounds
  /\ data_buf \in [Channels -> [from : Channels \cup {"none"}, value : Samples \cup {0}]]
  /\ new_data \in [Channels -> BOOLEAN]
  /\ pulse_low \in BOOLEAN /\ phase_age \in 0..MinPhase /\ packet_age \in 0..PacketGap
  /\ already_converted \in BOOLEAN /\ outlier_count \in 0..2
  /\ sonar \in Samples \cup {0} /\ sensors_enabled \in BOOLEAN
  /\ toie2 \in BOOLEAN /\ trigger \in BOOLEAN
  /\ owed \in Int /\ recent \in Seq(Samples \cup {0})

\* Every pulse of the sonar is answered by one sample, before the next pulse
\* ends; none is lost in the waiting slot of adc_convert (adc.c 82-86), and none
\* is converted twice (robo1.c 473-484).
OnePerPulse == owed \in 0..1

\* A result is filed under the channel the converter was connected to, also
\* when the conversion had to wait (adc.c 118-136).
OwnChannel == \A c \in Channels : data_buf[c].from = c

\* A stopped sonar rests with its trigger high: no interrupt toggles it after
\* minia_stop has set it (minia.c 82-89, robo1.c 359-378).
StoppedSonarRests == ~sensors_enabled => trigger /\ ~toie2

Far(a, b) == Distance(a, b) >= Near

\* One or two wild samples never move the reported sonar value far, and a value
\* that stays is followed after the third (robo1.c 490-498).
SonarJumpsLate ==
  [][Far(sonar, sonar') => Len(recent') = 3 /\ \A i \in 1..3 : Far(recent'[i], sonar)]_vars
SonarFollows ==
  Len(recent) = 3 /\ Distance(recent[1], recent[2]) = 0 /\ Distance(recent[2], recent[3]) = 0
    => ~Far(sonar, recent[3])
==============================================================================
