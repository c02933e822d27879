----------------------------- MODULE Drivers_proofs -----------------------------
(***************************************************************************)
(* What MCDrivers checks of the drivers of the two Robostix boards on a    *)
(* small instance, for all values of their constants.  One section per     *)
(* driver gives its inductive invariant, that the driver keeps it, and     *)
(* what it promises; the theorems are at the end.                          *)
(***************************************************************************)
EXTENDS MCDrivers, SequenceTheorems, TLAPS

-----------------------------------------------------------------------------
(***************************************************************************)
(* AnalogSensors.  A conversion takes at most ConvRounds rounds, and when a *)
(* motor packet asks for the battery the converter is through with the     *)
(* request of the packet before: so the one waiting slot never holds a     *)
(* request of the sonar that another overwrites.  And Phase, the rounds    *)
(* since the pulse fell, bounds where its sample may still be on its way:  *)
(* it is fetched before the pulse falls again.                             *)
(***************************************************************************)
LEMMA AnalogConstants ==
  /\ ConvRounds \in Nat /\ PacketGap \in Nat /\ MinPhase \in Nat
  /\ 2 * (ConvRounds + 1) <= PacketGap /\ ConvRounds + 1 < MinPhase
  /\ Near \in Nat \ {0} /\ Samples \subseteq 0..1023
BY DriversConstantsOK DEF A!AnalogConstantsOK

\* The rounds a conversion has taken: one that has ended is fetched in the next.
Early == {"packet", "stop", "pulse", "pulse2", "sonar"}
Elapsed == IF adif /\ conv_age = ConvRounds /\ adc_at \in Early THEN conv_age + 1 ELSE conv_age
Phase == IF pulse_low THEN phase_age ELSE MinPhase + phase_age
One(b) == IF b THEN 1 ELSE 0
SonarIsNew == adc_new_data["sonar"] = TRUE

ConverterInv ==
  /\ current_ch # "none" => mux = current_ch
  /\ current_ch = "none" => waiting_ch = "none" /\ ~adif
  /\ waiting_ch # "none" => waiting_ch # current_ch
  /\ \A c \in A!Channels : data_buf[c].from = c
PacketInv ==
  /\ adc_at = "packet" /\ current_ch # "none" => Elapsed >= 1
  /\ current_ch = "sonar" /\ waiting_ch = "batt" => packet_age < Elapsed
  /\ current_ch = "batt" => packet_age <= Elapsed + ConvRounds
PulseInv ==
  /\ pulse_low /\ ~already_converted =>
       phase_age = 0 \/ (phase_age = 1 /\ adc_at \in {"packet", "stop", "pulse"})
  /\ ~pulse_low /\ already_converted =>
       phase_age = 0 \/ (phase_age = 1 /\ adc_at \in {"packet", "stop", "pulse", "pulse2"})
  /\ waiting_ch = "sonar" => Phase <= Elapsed + 1
  /\ current_ch = "sonar" => Phase <= Elapsed + ConvRounds + 2
  /\ SonarIsNew => /\ adc_at # "batt" /\ Phase <= 2 * ConvRounds + 3
                   /\ adc_at = "round" => Phase <= 2 * ConvRounds + 2
OwedInv ==
  /\ adc_owed = One(pulse_low /\ ~already_converted) + One(waiting_ch = "sonar")
                  + One(current_ch = "sonar") + One(SonarIsNew)
  /\ adc_owed <= 1
TimingInv == PacketInv /\ PulseInv /\ OwedInv

TriggerInv ==
  /\ adc_at = "stop" => sensors_enabled /\ ~adc_toie2
  /\ A!StoppedSonarRests

\* The last samples are the wild ones; before them is the value that is reported.
RecentInv ==
  /\ outlier_count <= Len(recent) /\ Len(recent) <= 3
  /\ \A j \in 0..2 : j < outlier_count => A!Far(recent[Len(recent) - j], sonar)
  /\ outlier_count < Len(recent) => sonar = recent[Len(recent) - outlier_count]

Values == Samples \cup {0}
AnalogFlagTypes ==
  /\ adif \in BOOLEAN /\ pulse_low \in BOOLEAN /\ already_converted \in BOOLEAN
  /\ sensors_enabled \in BOOLEAN /\ adc_toie2 \in BOOLEAN /\ trigger \in BOOLEAN
  /\ adc_new_data \in [A!Channels -> BOOLEAN]
ConverterTypes ==
  /\ current_ch \in {"sonar", "batt", "none"} /\ waiting_ch \in {"sonar", "batt", "none"}
  /\ mux \in {"sonar", "batt", "none"} /\ conv_age \in 0..ConvRounds
  /\ data_buf \in [A!Channels -> [from : A!Channels \cup {"none"}, value : Values]]
LoopTypes ==
  /\ adc_at \in A!Steps /\ phase_age \in 0..MinPhase /\ packet_age \in 0..PacketGap
  /\ outlier_count \in 0..2 /\ sonar \in Values /\ recent \in Seq(Values)
AnalogTypes == AnalogFlagTypes /\ ConverterTypes /\ LoopTypes
AnalogInv == AnalogTypes /\ ConverterInv /\ TimingInv /\ TriggerInv /\ RecentInv

LEMMA AnalogInit == A!Init => AnalogInv
<1> SUFFICES ASSUME A!Init PROVE AnalogInv
  OBVIOUS
<1> USE DEF A!Init
<1>1. AnalogFlagTypes
  BY Zenon DEF AnalogFlagTypes, A!Channels
<1>2. ConverterTypes
  BY AnalogConstants DEF ConverterTypes, A!Channels, Values
<1>3. LoopTypes
  <2>1. << >> \in Seq(Values)
    OBVIOUS
  <2> QED BY <2>1, AnalogConstants DEF LoopTypes, A!Steps, Values
<1>4. ConverterInv
  BY DEF ConverterInv, A!Channels
<1>5. ~SonarIsNew
  BY Zenon DEF SonarIsNew, A!Channels
<1>6. TimingInv
  BY <1>5 DEF TimingInv, PacketInv, PulseInv, OwedInv, One
<1>7. TriggerInv
  BY Zenon DEF TriggerInv, A!StoppedSonarRests
<1>8. RecentInv
  BY DEF RecentInv
<1> QED BY <1>1, <1>2, <1>3, <1>4, <1>6, <1>7, <1>8 DEF AnalogInv, AnalogTypes

LEMMA AnalogFlagStep ==
  ASSUME AnalogFlagTypes, ConverterTypes, ConverterInv, A!Next \/ UNCHANGED A!vars
  PROVE  AnalogFlagTypes'
<1> USE DEF AnalogFlagTypes, A!adcVars, A!pinVars, A!sonarVars, A!minia
<1>1. CASE A!MotorPacket
  BY <1>1, Zenon DEF A!MotorPacket, A!AdcConvert
<1>2. CASE A!NoMotorPacket
  BY <1>2, Zenon DEF A!NoMotorPacket, A!EnableSensors, A!MiniaStart, A!StopHalf
<1>3. CASE A!FinishStop
  BY <1>3, Zenon DEF A!FinishStop, A!StopHalf
<1>4. CASE A!LookAtPulse
  BY <1>4, Zenon DEF A!LookAtPulse, A!AdcConvert
<1>5. CASE A!LookAgain
  BY <1>5, Zenon DEF A!LookAgain, A!NextPulse
<1>6. CASE A!FetchSonar \/ A!FetchBattery
  <2>1. /\ UNCHANGED <<pulse_low, sensors_enabled, adc_toie2, trigger, already_converted>>
        /\ \E c \in A!Channels : \E v \in Samples : A!AdcGetData(c, v)
    BY <1>6, Zenon DEF A!FetchSonar, A!FetchBattery, A!Channels
  <2>2. PICK c \in A!Channels : \E v \in Samples : A!AdcGetData(c, v)
    BY <2>1, Zenon
  <2>3. adif' \in BOOLEAN
    BY <2>2, Zenon DEF A!AdcGetData
  <2>4. A!Flags \in [A!Channels -> BOOLEAN]
    <3>1. CASE adif
      <4>1. current_ch \in A!Channels
        BY <3>1 DEF ConverterInv, ConverterTypes, A!Channels
      <4>2. [adc_new_data EXCEPT ![current_ch] = TRUE] \in [A!Channels -> BOOLEAN]
        BY <4>1
      <4> QED BY <3>1, <4>2, Zenon DEF A!Flags
    <3>2. CASE ~adif
      BY <3>2, Zenon DEF A!Flags
    <3> QED BY <3>1, <3>2, Zenon
  <2>5. adc_new_data' = [A!Flags EXCEPT ![c] = FALSE]
    BY <2>2, Zenon DEF A!AdcGetData
  <2>6. adc_new_data' \in [A!Channels -> BOOLEAN]
    <3>1. [A!Flags EXCEPT ![c] = FALSE] \in [A!Channels -> BOOLEAN]
      BY <2>4
    <3> QED BY <2>5, <3>1, Zenon
  <2> QED BY <2>1, <2>3, <2>6, Zenon
<1>7. CASE A!NextRound \/ A!T2Overflow \/ A!PulseChanges \/ A!ConversionEnds \/ UNCHANGED A!vars
  BY <1>7, Zenon DEF A!NextRound, A!T2Overflow, A!PulseChanges, A!ConversionEnds, A!vars
<1> QED BY <1>1, <1>2, <1>3, <1>4, <1>5, <1>6, <1>7 DEF A!Next, A!Loop

\* What adc_convert and adc_get_data do.
ConverterSound == ConverterTypes /\ ConverterInv
ConverterRests == UNCHANGED <<current_ch, waiting_ch, mux, adif, conv_age>>

LEMMA ConvertFacts ==
  ASSUME ConverterSound, NEW c \in A!Channels, A!AdcConvert(c), c # current_ch
  PROVE  /\ ConverterSound'
         /\ UNCHANGED <<adif, data_buf, adc_new_data>>
         /\ current_ch # "none" => waiting_ch' = c /\ UNCHANGED <<current_ch, conv_age>>
         /\ current_ch = "none" => /\ current_ch' = c /\ conv_age' = 0 /\ UNCHANGED waiting_ch
                                   /\ ~adif
<1> USE DEF ConverterSound, ConverterTypes, ConverterInv
<1>1. CASE current_ch # "none"
  <2>1. waiting_ch' = c /\ UNCHANGED <<current_ch, mux, conv_age, adif, data_buf, adc_new_data>>
    BY <1>1, Zenon DEF A!AdcConvert
  <2> QED BY <1>1, <2>1 DEF A!Channels
<1>2. CASE current_ch = "none"
  <2>1. /\ current_ch' = c /\ mux' = c /\ conv_age' = 0
        /\ UNCHANGED <<waiting_ch, adif, data_buf, adc_new_data>>
    BY <1>2, Zenon DEF A!AdcConvert, A!Start
  <2> QED BY <1>2, <2>1, AnalogConstants DEF A!Channels
<1> QED BY <1>1, <1>2

LEMMA GetFacts ==
  ASSUME AnalogFlagTypes, ConverterSound, NEW c \in A!Channels, NEW v \in Samples,
         A!AdcGetData(c, v)
  PROVE  /\ ConverterSound'
         /\ ~adif => ConverterRests
         /\ adif => /\ current_ch \in A!Channels /\ ~adif'
                    /\ current_ch' = waiting_ch /\ waiting_ch' = "none"
                    /\ waiting_ch # "none" => conv_age' = 0
         /\ SonarIsNew' <=> c # "sonar" /\ (SonarIsNew \/ (adif /\ current_ch = "sonar"))
         /\ A!Flags["sonar"] <=> SonarIsNew \/ (adif /\ current_ch = "sonar")
         /\ A!Buffer(v)["sonar"].value \in Values
<1> USE DEF ConverterSound, ConverterTypes
<1>1. adc_new_data' = [A!Flags EXCEPT ![c] = FALSE] /\ data_buf' = A!Buffer(v)
  BY Zenon DEF A!AdcGetData
<1>2. CASE ~adif
  <2>1. ConverterRests
    BY <1>2, Zenon DEF A!AdcGetData, ConverterRests
  <2>2. A!Flags = adc_new_data /\ A!Buffer(v) = data_buf
    BY <1>2, Zenon DEF A!Flags, A!Buffer
  <2>3. ConverterSound'
    BY <1>1, <2>1, <2>2 DEF ConverterRests, ConverterInv
  <2>4. SonarIsNew' <=> c # "sonar" /\ SonarIsNew
    BY <1>1, <2>2 DEF SonarIsNew, AnalogFlagTypes, A!Channels
  <2>5. A!Flags["sonar"] <=> SonarIsNew
    BY <2>2, Zenon DEF SonarIsNew, AnalogFlagTypes, A!Channels
  <2>6. A!Buffer(v)["sonar"].value \in Values
    BY <2>2 DEF A!Channels
  <2> QED BY <1>2, <2>1, <2>3, <2>4, <2>5, <2>6
<1>3. CASE adif
  <2>1. current_ch \in A!Channels /\ mux = current_ch
    BY <1>3 DEF ConverterInv, A!Channels
  <2>2. adif' = FALSE /\ A!StartWaiting
    BY <1>3, Zenon DEF A!AdcGetData
  <2>3. /\ current_ch' = waiting_ch /\ waiting_ch' = "none"
        /\ waiting_ch # "none" => conv_age' = 0 /\ mux' = waiting_ch
        /\ waiting_ch = "none" => UNCHANGED <<conv_age, mux>>
    BY <2>2, Zenon DEF A!StartWaiting, A!Start
  <2>4. ~adif'
    BY <2>2, Zenon
  <2>5. /\ A!Flags = [adc_new_data EXCEPT ![current_ch] = TRUE]
        /\ A!Buffer(v) = [data_buf EXCEPT ![current_ch] = A!Result(v)]
    BY <1>3, Zenon DEF A!Flags, A!Buffer
  <2>6. A!Result(v) \in [from : A!Channels \cup {"none"}, value : Values]
        /\ A!Result(v).from = current_ch
    BY <2>1 DEF A!Result, Values, A!Channels
  <2>7. /\ A!Buffer(v) \in [A!Channels -> [from : A!Channels \cup {"none"}, value : Values]]
        /\ \A d \in A!Channels : A!Buffer(v)[d].from = d
    <3> HIDE DEF ConverterSound
    <3>1. \A d \in A!Channels : A!Buffer(v)[d] = IF d = current_ch THEN A!Result(v) ELSE data_buf[d]
      BY <2>5 DEF ConverterSound
    <3>2. A!Buffer(v) \in [A!Channels -> [from : A!Channels \cup {"none"}, value : Values]]
      BY <2>1, <2>5, <2>6 DEF ConverterSound
    <3> QED BY <2>1, <2>6, <3>1, <3>2 DEF ConverterSound, ConverterInv
  <2>8. ConverterSound'
    BY <1>1, <2>3, <2>4, <2>7, AnalogConstants DEF ConverterInv
  <2>9. A!Flags["sonar"] <=> SonarIsNew \/ current_ch = "sonar"
    BY <2>1, <2>5 DEF SonarIsNew, AnalogFlagTypes, A!Channels
  <2>10. SonarIsNew' <=> c # "sonar" /\ (SonarIsNew \/ current_ch = "sonar")
    BY <1>1, <2>1, <2>5 DEF SonarIsNew, AnalogFlagTypes, A!Channels
  <2>11. A!Buffer(v)["sonar"].value \in Values
    BY <2>7 DEF A!Channels
  <2> QED BY <1>3, <2>1, <2>3, <2>4, <2>8, <2>9, <2>10, <2>11
<1> QED BY <1>2, <1>3

\* The last three samples, with one that is new.
Kept(r, v) == LET all == Append(r, v) IN IF Len(all) > 3 THEN Tail(all) ELSE all

LEMMA KeptAre ==
  ASSUME NEW V, NEW r \in Seq(V), Len(r) <= 3, NEW v \in V
  PROVE  /\ Kept(r, v) \in Seq(V)
         /\ Len(Kept(r, v)) = IF Len(r) < 3 THEN Len(r) + 1 ELSE 3
         /\ Kept(r, v)[Len(Kept(r, v))] = v
         /\ \A j \in 1..2 : j < Len(Kept(r, v)) =>
              Kept(r, v)[Len(Kept(r, v)) - j] = r[Len(r) + 1 - j]
<1> DEFINE all == Append(r, v)  n == Len(r)  kept == Kept(r, v)  m == Len(kept)
<1>1. /\ all \in Seq(V) /\ Len(all) = n + 1 /\ n \in Nat
      /\ \A i \in 1..(n + 1) : all[i] = IF i <= n THEN r[i] ELSE v
  OBVIOUS
<1>2. n \in 0..3
  <2>1. n <= 3
    OBVIOUS
  <2> HIDE DEF n
  <2> QED BY <1>1, <2>1
<1>3. kept = IF Len(all) > 3 THEN Tail(all) ELSE all
  BY Zenon DEF Kept
<1> SUFFICES /\ kept \in Seq(V)
             /\ m = IF n < 3 THEN n + 1 ELSE 3
             /\ kept[m] = v
             /\ \A j \in 1..2 : j < m => kept[m - j] = r[n + 1 - j]
  OBVIOUS
<1>4. CASE n = 3
  <2>1. Len(all) = 4 /\ all # << >>
    <3>1. Len(all) = 4
      <4> HIDE DEF n, all
      <4> QED BY <1>1, <1>4
    <3> QED BY <3>1
  <2>2. kept = Tail(all)
    <3> HIDE DEF all
    <3> QED BY <1>3, <2>1
  <2>3. /\ Tail(all) \in Seq(V) /\ Len(Tail(all)) = Len(all) - 1
        /\ \A i \in 1..Len(Tail(all)) : Tail(all)[i] = all[i + 1]
    BY <1>1, <2>1, HeadTailProperties, Zenon
  <2>4. kept \in Seq(V) /\ m = 3 /\ \A i \in 1..3 : kept[i] = all[i + 1]
    <3>1. 4 - 1 = 3
      OBVIOUS
    <3> QED BY <2>1, <2>2, <2>3, <3>1, Zenon
  <2> HIDE DEF all, n, kept, m
  <2>5. kept[3] = v /\ kept[2] = r[3] /\ kept[1] = r[2]
    BY <1>1, <1>4, <2>4
  <2> QED BY <1>4, <2>4, <2>5
<1>5. CASE n < 3
  <2>1. kept = all /\ m = n + 1
    <3>1. ~(Len(all) > 3)
      <4> HIDE DEF n, all
      <4> QED BY <1>1, <1>2, <1>5
    <3> QED BY <1>1, <1>3, <3>1, Zenon
  <2> HIDE DEF all, n, kept, m
  <2> QED BY <1>1, <1>2, <1>5, <2>1
<1>6. n = 3 \/ n < 3
  <2> HIDE DEF n
  <2> QED BY <1>2
<1> QED BY <1>4, <1>5, <1>6, Zenon

\* The outlier test: a sample is taken, or it is one more wild one.
LEMMA TestFacts ==
  ASSUME LoopTypes, RecentInv, NEW v \in Values, A!TestSample(v)
  PROVE  /\ recent' \in Seq(Values) /\ sonar' \in Values /\ outlier_count' \in 0..2 /\ RecentInv'
         /\ A!Far(sonar, sonar') => Len(recent') = 3 /\ \A i \in 1..3 : A!Far(recent'[i], sonar)
<1> DEFINE r == recent  k == Kept(recent, v)  n == Len(r)  m == Len(k)  oc == outlier_count
<1>1. /\ k \in Seq(Values) /\ m = IF n < 3 THEN n + 1 ELSE 3
      /\ k[m] = v /\ \A j \in 1..2 : j < m => k[m - j] = r[n + 1 - j]
  <2>1. recent \in Seq(Values) /\ Len(recent) <= 3
    BY DEF LoopTypes, RecentInv
  <2> QED BY <2>1, KeptAre, Zenon
<1>2. recent' = k /\ m = Len(recent')
  BY DEF A!TestSample, Kept
<1>3. /\ n \in Nat /\ n <= 3 /\ oc \in 0..2 /\ oc <= n
      /\ \A j \in 0..2 : j < oc => A!Far(r[n - j], sonar)
      /\ oc < n => sonar = r[n - oc]
  BY DEF LoopTypes, RecentInv
<1>4. v \in 0..1023 /\ sonar \in 0..1023 /\ Near \in Nat \ {0}
  BY AnalogConstants DEF LoopTypes, Values
<1>5. A!Far(v, sonar) <=> A!Far(sonar, v)
  BY <1>4 DEF A!Far, A!Distance
<1>6. A!Distance(sonar, v) < Near <=> ~A!Far(sonar, v)
  BY <1>4 DEF A!Far, A!Distance
<1>7. /\ A!Accepted(v) => sonar' = v /\ outlier_count' = 0
      /\ ~A!Accepted(v) => outlier_count' = oc + 1 /\ sonar' = sonar
  BY DEF A!TestSample
<1>8. A!Accepted(v) <=> ~A!Far(sonar, v) \/ oc > 1
  BY <1>6, Zenon DEF A!Accepted
<1>9. recent' \in Seq(Values) /\ sonar' \in Values
  BY <1>1, <1>2, <1>7 DEF LoopTypes
<1>10. m \in 1..3
  <2> HIDE DEF m, n
  <2> QED BY <1>1, <1>3
<1>11. RecentInv' <=> /\ outlier_count' <= m /\ m <= 3
                      /\ \A j \in 0..2 : j < outlier_count' => A!Far(k[m - j], sonar')
                      /\ outlier_count' < m => sonar' = k[m - outlier_count']
  BY <1>2 DEF RecentInv, A!Far, A!Distance
<1> HIDE DEF r, k, n, m, oc
<1>12. CASE A!Accepted(v)
  <2>1. RecentInv' /\ outlier_count' \in 0..2
    BY <1>1, <1>7, <1>10, <1>11, <1>12
  <2>2. ASSUME A!Far(sonar, sonar')
        PROVE  Len(recent') = 3 /\ \A i \in 1..3 : A!Far(recent'[i], sonar)
    <3>1. oc = 2 /\ A!Far(v, sonar)
      BY <1>3, <1>5, <1>7, <1>8, <1>12, <2>2
    <3>2. A!Far(r[n], sonar) /\ A!Far(r[n - 1], sonar)
      <4>1. n - 0 = n
        BY <1>3
      <4> QED BY <1>3, <3>1, <4>1
    <3>3. m = 3 /\ k[3] = v /\ k[2] = r[n] /\ k[1] = r[n - 1]
      <4>1. m = 3
        BY <1>1, <1>3, <3>1
      <4>2. 3 - 1 = 2 /\ 3 - 2 = 1 /\ n + 1 - 1 = n /\ n + 1 - 2 = n - 1 /\ 1 < 3 /\ 2 < 3
        BY <1>3
      <4>3. k[m - 1] = r[n + 1 - 1] /\ k[m - 2] = r[n + 1 - 2]
        <5>1. 1 \in 1..2 /\ 2 \in 1..2 /\ 1 < m /\ 2 < m
          BY <4>1
        <5> QED BY <1>1, <5>1, Zenon
      <4> QED BY <1>1, <4>1, <4>2, <4>3, Zenon
    <3>4. \A i \in 1..3 : i = 1 \/ i = 2 \/ i = 3
      OBVIOUS
    <3> QED BY <1>2, <3>1, <3>2, <3>3, <3>4, Zenon
  <2> QED BY <1>9, <2>1, <2>2, Zenon
<1>13. CASE ~A!Accepted(v)
  <2>1. /\ outlier_count' = oc + 1 /\ sonar' = sonar /\ oc \in 0..1 /\ A!Far(v, sonar)
    BY <1>3, <1>5, <1>7, <1>8, <1>13
  <2>2. ~A!Far(sonar, sonar')
    BY <1>4, <2>1 DEF A!Far, A!Distance
  <2>3. outlier_count' <= m /\ m <= 3 /\ outlier_count' \in 0..2
    BY <1>1, <1>3, <2>1
  <2>4. ASSUME NEW j \in 0..2, j < outlier_count' PROVE A!Far(k[m - j], sonar')
    <3>1. CASE j = 0
      <4>1. m - 0 = m
        BY <1>10
      <4> QED BY <1>1, <2>1, <3>1, <4>1, Zenon
    <3>2. CASE j = 1
      <4>1. oc = 1 /\ 1 < m /\ n + 1 - 1 = n - 0 /\ 0 < 1
        BY <1>1, <1>3, <2>1, <2>4, <3>2
      <4>2. k[m - 1] = r[n + 1 - 1]
        BY <1>1, <4>1
      <4>3. A!Far(r[n - 0], sonar)
        BY <1>3, <4>1
      <4> QED BY <2>1, <3>2, <4>1, <4>2, <4>3, Zenon
    <3>3. j = 0 \/ j = 1
      BY <2>1, <2>4
    <3> QED BY <3>1, <3>2, <3>3
  <2>5. ASSUME outlier_count' < m PROVE sonar' = k[m - outlier_count']
    <3>1. oc < n /\ oc + 1 \in 1..2 /\ oc + 1 < m /\ n + 1 - (oc + 1) = n - oc
      BY <1>1, <1>3, <2>1, <2>5
    <3>2. k[m - (oc + 1)] = r[n + 1 - (oc + 1)]
      BY <1>1, <3>1, Zenon
    <3>3. sonar = r[n - oc]
      BY <1>3, <3>1, Zenon
    <3> QED BY <2>1, <3>1, <3>2, <3>3, Zenon
  <2>6. RecentInv'
    BY <1>11, <2>3, <2>4, <2>5, Zenon
  <2> QED BY <1>9, <2>2, <2>3, <2>6, Zenon
<1> QED BY <1>12, <1>13, Zenon

\* The rest of the loop, and the sonar value.
LEMMA AnalogLoopStep ==
  ASSUME AnalogFlagTypes, ConverterTypes, ConverterInv, LoopTypes, RecentInv,
         A!Next \/ UNCHANGED A!vars
  PROVE  /\ LoopTypes' /\ RecentInv'
         /\ A!Far(sonar, sonar') => Len(recent') = 3 /\ \A i \in 1..3 : A!Far(recent'[i], sonar)
<1> USE DEF A!pinVars, A!sonarVars
<1>1. ASSUME UNCHANGED <<outlier_count, sonar, recent>>
      PROVE  /\ RecentInv' /\ ~A!Far(sonar, sonar')
             /\ recent' \in Seq(Values) /\ sonar' \in Values /\ outlier_count' \in 0..2
  <2>1. RecentInv'
    BY <1>1 DEF RecentInv, A!Far, A!Distance
  <2>2. ~A!Far(sonar, sonar')
    <3>1. sonar \in 0..1023
      BY AnalogConstants DEF LoopTypes, Values
    <3> QED BY <1>1, <3>1, AnalogConstants DEF A!Far, A!Distance
  <2> QED BY <1>1, <2>1, <2>2 DEF LoopTypes
<1>2. CASE A!FetchSonar
  <2>1. PICK v \in Samples :
          /\ A!AdcGetData("sonar", v)
          /\ IF A!Flags["sonar"] THEN A!TestSample(A!Buffer(v)["sonar"].value)
                                 ELSE UNCHANGED <<outlier_count, sonar, recent, adc_owed>>
    BY <1>2, Zenon DEF A!FetchSonar
  <2>2. adc_at' \in A!Steps /\ UNCHANGED <<packet_age, phase_age>>
    BY <1>2 DEF A!FetchSonar, A!Steps
  <2>3. A!Buffer(v)["sonar"].value \in Values
    BY <2>1, GetFacts DEF ConverterSound, A!Channels
  <2>4. /\ recent' \in Seq(Values) /\ sonar' \in Values /\ outlier_count' \in 0..2 /\ RecentInv'
        /\ A!Far(sonar, sonar') => Len(recent') = 3 /\ \A i \in 1..3 : A!Far(recent'[i], sonar)
    <3>1. CASE A!Flags["sonar"]
      BY <2>1, <2>3, <3>1, TestFacts, Zenon
    <3>2. CASE ~A!Flags["sonar"]
      <4>1. UNCHANGED <<outlier_count, sonar, recent>>
        BY <2>1, <3>2
      <4> QED BY <1>1, <4>1, Zenon
    <3> QED BY <3>1, <3>2
  <2> QED BY <2>2, <2>4 DEF LoopTypes
<1>3. CASE ~A!FetchSonar
  <2>1. UNCHANGED <<outlier_count, sonar, recent>>
    BY <1>3 DEF A!Next, A!Loop, A!MotorPacket, A!NoMotorPacket, A!FinishStop, A!LookAtPulse,
       A!LookAgain, A!FetchBattery, A!NextRound, A!ConversionEnds, A!T2Overflow, A!PulseChanges,
       A!vars
  <2>2. adc_at' \in A!Steps
    BY <1>3 DEF A!Next, A!Loop, A!MotorPacket, A!NoMotorPacket, A!EnableSensors, A!FinishStop,
       A!LookAtPulse, A!LookAgain, A!FetchBattery, A!NextRound, A!ConversionEnds, A!T2Overflow,
       A!PulseChanges, A!vars, A!Steps, LoopTypes
  <2>3. /\ phase_age' = phase_age \/ phase_age' = 0 \/ phase_age' = A!Older(phase_age, MinPhase)
        /\ \/ packet_age' = packet_age \/ packet_age' = 0
           \/ packet_age' = A!Older(packet_age, PacketGap)
    BY <1>3, Zenon DEF A!Next, A!Loop, A!MotorPacket, A!NoMotorPacket, A!FinishStop, A!LookAtPulse,
       A!LookAgain, A!FetchBattery, A!NextRound, A!ConversionEnds, A!T2Overflow, A!PulseChanges,
       A!vars
  <2>4. phase_age' \in 0..MinPhase /\ packet_age' \in 0..PacketGap
    BY <2>3, AnalogConstants DEF LoopTypes, A!Older
  <2> QED BY <1>1, <2>1, <2>2, <2>4 DEF LoopTypes
<1> QED BY <1>2, <1>3

\* What of it matters for the time.
Requests ==
  /\ current_ch \in {"sonar", "batt", "none"} /\ waiting_ch \in {"sonar", "batt", "none"}
  /\ conv_age \in 0..ConvRounds
  /\ current_ch = "none" => waiting_ch = "none" /\ ~adif
  /\ waiting_ch # "none" => waiting_ch # current_ch

LEMMA RequestsAre == ConverterSound => Requests
BY DEF ConverterSound, ConverterTypes, ConverterInv, Requests
LEMMA RequestsAreNext == ConverterSound' => Requests'
BY DEF ConverterSound, ConverterTypes, ConverterInv, Requests

LEMMA ElapsedIs ==
  ASSUME Requests
  PROVE  /\ Elapsed \in Nat /\ conv_age <= Elapsed /\ Elapsed <= ConvRounds + 1 /\ conv_age \in Nat
         /\ ~adif \/ adc_at \notin Early => Elapsed = conv_age /\ Elapsed <= ConvRounds
         /\ adif /\ adc_at \in Early /\ conv_age = ConvRounds => Elapsed = ConvRounds + 1
<1>1. conv_age \in 0..ConvRounds
  BY DEF Requests
<1>2. CASE adif /\ adc_at \in Early /\ conv_age = ConvRounds
  <2>1. Elapsed = conv_age + 1
    BY <1>2, Zenon DEF Elapsed
  <2> QED BY <1>1, <1>2, <2>1, AnalogConstants
<1>3. CASE ~(adif /\ adc_at \in Early /\ conv_age = ConvRounds)
  <2>1. Elapsed = conv_age
    BY <1>3, Zenon DEF Elapsed
  <2> QED BY <1>1, <1>3, <2>1, AnalogConstants
<1> QED BY <1>2, <1>3

LEMMA ElapsedIsNext ==
  ASSUME Requests'
  PROVE  /\ Elapsed' \in Nat /\ conv_age' <= Elapsed' /\ Elapsed' <= ConvRounds + 1
         /\ conv_age' \in Nat
         /\ ~adif' \/ adc_at' \notin Early => Elapsed' = conv_age' /\ Elapsed' <= ConvRounds
         /\ adif' /\ adc_at' \in Early /\ conv_age' = ConvRounds => Elapsed' = ConvRounds + 1
<1>1. conv_age' \in 0..ConvRounds
  BY DEF Requests
<1>2. CASE adif' /\ adc_at' \in Early /\ conv_age' = ConvRounds
  <2>1. Elapsed' = conv_age' + 1
    BY <1>2, Zenon DEF Elapsed, Early
  <2> QED BY <1>1, <1>2, <2>1, AnalogConstants
<1>3. CASE ~(adif' /\ adc_at' \in Early /\ conv_age' = ConvRounds)
  <2>1. Elapsed' = conv_age'
    BY <1>3, Zenon DEF Elapsed, Early
  <2> QED BY <1>1, <1>3, <2>1, AnalogConstants
<1> QED BY <1>2, <1>3

LEMMA ElapsedStays ==
  ASSUME UNCHANGED <<adif, conv_age>>, adc_at' \in Early <=> adc_at \in Early
  PROVE  UNCHANGED Elapsed
BY Zenon DEF Elapsed, Early

LEMMA PhaseIs ==
  ASSUME LoopTypes
  PROVE  /\ Phase \in Nat /\ phase_age \in Nat /\ packet_age \in Nat
         /\ pulse_low => Phase = phase_age
         /\ ~pulse_low => Phase = MinPhase + phase_age
BY AnalogConstants DEF LoopTypes, Phase

LEMMA PhaseIsNext ==
  ASSUME LoopTypes'
  PROVE  /\ Phase' \in Nat /\ phase_age' \in Nat /\ packet_age' \in Nat
         /\ pulse_low' => Phase' = phase_age'
         /\ ~pulse_low' => Phase' = MinPhase + phase_age'
<1>1. phase_age' \in Nat /\ packet_age' \in Nat
  BY AnalogConstants DEF LoopTypes
<1>2. MinPhase + phase_age' \in Nat
  <2>1. MinPhase \in Nat /\ \A m, n \in Nat : m + n \in Nat
    BY AnalogConstants
  <2> QED BY <1>1, <2>1, Zenon
<1>3. /\ pulse_low' => Phase' = phase_age'
      /\ ~pulse_low' => Phase' = MinPhase + phase_age'
  BY Zenon DEF Phase
<1> QED BY <1>1, <1>2, <1>3, Zenon

LEMMA OwedIs ==
  ASSUME OwedInv
  PROVE  /\ adc_owed \in 0..1
         /\ pulse_low /\ ~already_converted =>
              adc_owed = 1 /\ waiting_ch # "sonar" /\ current_ch # "sonar" /\ ~SonarIsNew
         /\ waiting_ch = "sonar" =>
              /\ adc_owed = 1 /\ (pulse_low => already_converted)
              /\ current_ch # "sonar" /\ ~SonarIsNew
         /\ current_ch = "sonar" =>
              /\ adc_owed = 1 /\ (pulse_low => already_converted)
              /\ waiting_ch # "sonar" /\ ~SonarIsNew
         /\ SonarIsNew =>
              /\ adc_owed = 1 /\ (pulse_low => already_converted) /\ waiting_ch # "sonar"
              /\ current_ch # "sonar"
<1> DEFINE p == pulse_low /\ ~already_converted  w == waiting_ch = "sonar"
           c == current_ch = "sonar"
<1>1. /\ adc_owed = One(p) + One(w) + One(c) + One(SonarIsNew)
      /\ adc_owed <= 1
  BY DEF OwedInv
<1> HIDE DEF p, w, c
<1>2. /\ adc_owed \in 0..1
      /\ p => adc_owed = 1 /\ ~w /\ ~c /\ ~SonarIsNew
      /\ w => adc_owed = 1 /\ ~p /\ ~c /\ ~SonarIsNew
      /\ c => adc_owed = 1 /\ ~p /\ ~w /\ ~SonarIsNew
      /\ SonarIsNew => adc_owed = 1 /\ ~p /\ ~w /\ ~c
  BY <1>1 DEF One
<1> QED BY <1>2, Zenon DEF p, w, c

\* The requests and the results, and the time they take.
LEMMA AnalogTimingStep ==
  ASSUME AnalogTypes, ConverterInv, TimingInv, LoopTypes', A!Next \/ UNCHANGED A!vars
  PROVE  ConverterTypes' /\ ConverterInv' /\ TimingInv'
<1> USE DEF A!pinVars
<1>0. /\ AnalogFlagTypes /\ ConverterSound /\ LoopTypes /\ PacketInv /\ PulseInv /\ OwedInv
      /\ Requests
  BY RequestsAre DEF AnalogTypes, ConverterSound, TimingInv
<1> SUFFICES ConverterSound' /\ TimingInv'
  BY DEF ConverterSound
<1>n. /\ Elapsed \in Nat /\ conv_age <= Elapsed /\ Elapsed <= ConvRounds + 1 /\ conv_age \in Nat
      /\ Phase \in Nat /\ phase_age \in Nat /\ packet_age \in Nat
      /\ Phase' \in Nat /\ phase_age' \in Nat /\ packet_age' \in Nat
      /\ ConvRounds \in Nat
  BY <1>0, ElapsedIs, PhaseIs, PhaseIsNext, AnalogConstants
<1>m. ConverterSound' => Requests' /\ Elapsed' \in Nat
  BY RequestsAreNext, ElapsedIsNext
<1>1. CASE A!MotorPacket
  <2>1. /\ adc_at = "packet" /\ adc_at' = "pulse" /\ packet_age = PacketGap /\ packet_age' = 0
        /\ A!AdcConvert("batt") /\ UNCHANGED <<pulse_low, phase_age, adc_owed, already_converted>>
    BY <1>1 DEF A!MotorPacket, A!sonarVars
  <2>2. current_ch # "batt"
    BY <1>0, <1>n, <2>1, AnalogConstants DEF PacketInv
  <2>3. /\ ConverterSound' /\ UNCHANGED <<adif, adc_new_data>>
        /\ current_ch # "none" => waiting_ch' = "batt" /\ UNCHANGED <<current_ch, conv_age>>
        /\ current_ch = "none" => /\ current_ch' = "batt" /\ conv_age' = 0 /\ UNCHANGED waiting_ch
                                  /\ ~adif
    BY <1>0, <2>1, <2>2, ConvertFacts DEF A!Channels
  <2>4. (SonarIsNew' <=> SonarIsNew) /\ UNCHANGED Phase
    BY <2>1, <2>3, Zenon DEF SonarIsNew, Phase
  <2>5. current_ch # "none" => UNCHANGED Elapsed
    BY <2>1, <2>3, ElapsedStays DEF Early
  <2>6. /\ current_ch # "none" => /\ current_ch = "sonar" /\ waiting_ch # "sonar"
                                  /\ current_ch' = "sonar" /\ waiting_ch' = "batt"
        /\ current_ch = "none" => /\ current_ch' = "batt"
                                  /\ waiting_ch = "none" /\ waiting_ch' = "none"
    BY <1>0, <2>2, <2>3 DEF Requests
  <2>7. PacketInv'
    BY <1>0, <1>n, <1>m, <2>1, <2>3, <2>5, <2>6 DEF PacketInv
  <2>8. PulseInv'
    BY <1>0, <2>1, <2>4, <2>5, <2>6 DEF PulseInv
  <2>9. OwedInv'
    BY <1>0, <2>1, <2>4, <2>6 DEF OwedInv, One
  <2> QED BY <2>3, <2>7, <2>8, <2>9 DEF TimingInv
<1>2. CASE A!LookAtPulse /\ pulse_low /\ ~already_converted
  <2>1. /\ adc_at = "pulse" /\ adc_at' = "sonar" /\ A!AdcConvert("sonar") /\ already_converted'
        /\ UNCHANGED <<pulse_low, phase_age, packet_age, adc_owed>>
    BY <1>2, Zenon DEF A!LookAtPulse
  <2>2. waiting_ch # "sonar" /\ current_ch # "sonar" /\ ~SonarIsNew /\ adc_owed = 1
    BY <1>0, <1>2, OwedIs
  <2>3. /\ ConverterSound' /\ UNCHANGED <<adif, adc_new_data>>
        /\ current_ch # "none" => waiting_ch' = "sonar" /\ UNCHANGED <<current_ch, conv_age>>
        /\ current_ch = "none" => /\ current_ch' = "sonar" /\ conv_age' = 0 /\ UNCHANGED waiting_ch
                                  /\ ~adif
    BY <1>0, <2>1, <2>2, ConvertFacts DEF A!Channels
  <2>4. ~SonarIsNew' /\ Phase' = phase_age /\ pulse_low'
    BY <1>2, <2>1, <2>2, <2>3, Zenon DEF SonarIsNew, Phase
  <2>5. current_ch # "none" => UNCHANGED Elapsed
    BY <2>1, <2>3, ElapsedStays DEF Early
  <2>6. /\ current_ch # "none" => /\ current_ch = "batt"
                                  /\ current_ch' = "batt" /\ waiting_ch' = "sonar"
        /\ current_ch = "none" => current_ch' = "sonar" /\ waiting_ch' = "none"
    BY <1>0, <2>2, <2>3 DEF Requests
  <2>7. PacketInv'
    BY <1>0, <2>1, <2>5, <2>6 DEF PacketInv
  <2>8. phase_age = 0 \/ phase_age = 1
    BY <1>0, <1>2 DEF PulseInv
  <2>9. PulseInv'
    BY <1>n, <1>m, <2>1, <2>3, <2>4, <2>6, <2>8 DEF PulseInv
  <2>10. OwedInv'
    BY <2>1, <2>2, <2>4, <2>6 DEF OwedInv, One
  <2> QED BY <2>3, <2>7, <2>9, <2>10 DEF TimingInv
<1>3. CASE (A!LookAtPulse /\ ~(pulse_low /\ ~already_converted)) \/ A!LookAgain
           \/ A!NoMotorPacket \/ A!FinishStop \/ A!T2Overflow \/ UNCHANGED A!vars
  <2>1. /\ ConverterRests /\ UNCHANGED <<data_buf, adc_new_data, pulse_low, phase_age,
                                         packet_age, adc_owed>>
    BY <1>3, Zenon DEF A!LookAtPulse, A!LookAgain, A!NoMotorPacket, A!FinishStop, A!T2Overflow,
       A!adcVars, A!vars, ConverterRests
  <2>2. \/ adc_at' = adc_at /\ UNCHANGED already_converted
        \/ /\ adc_at = "packet" \/ adc_at = "stop"
           /\ adc_at' = "stop" \/ adc_at' = "pulse"
           /\ UNCHANGED already_converted
        \/ adc_at = "pulse" /\ adc_at' = "pulse2" /\ ~(pulse_low /\ ~already_converted)
           /\ UNCHANGED already_converted
        \/ /\ adc_at = "pulse2" /\ adc_at' = "sonar"
           /\ pulse_low => UNCHANGED already_converted
           /\ ~pulse_low => ~already_converted'
    <3>1. CASE A!LookAgain
      BY <3>1, Zenon DEF A!LookAgain, A!NextPulse
    <3>2. CASE A!LookAtPulse /\ ~(pulse_low /\ ~already_converted)
      BY <3>2, Zenon DEF A!LookAtPulse
    <3>3. CASE A!NoMotorPacket \/ A!FinishStop
      BY <3>3, Zenon DEF A!NoMotorPacket, A!EnableSensors, A!FinishStop, A!sonarVars
    <3>4. CASE A!T2Overflow \/ UNCHANGED A!vars
      BY <3>4, Zenon DEF A!T2Overflow, A!vars, A!sonarVars
    <3> QED BY <1>3, <3>1, <3>2, <3>3, <3>4
  <2>3. ConverterSound'
    BY <1>0, <2>1 DEF ConverterRests, ConverterSound, ConverterTypes, ConverterInv
  <2>4. (SonarIsNew' <=> SonarIsNew) /\ UNCHANGED Phase
    BY <2>1, Zenon DEF SonarIsNew, Phase
  <2>5. adc_at' # "packet" \/ adc_at = "packet"
    BY <2>2
  <2>6. UNCHANGED Elapsed
    <3>1. adc_at' \in Early <=> adc_at \in Early
      BY <2>2 DEF Early
    <3> QED BY <2>1, <3>1, ElapsedStays, Zenon DEF ConverterRests
  <2>7. UNCHANGED <<current_ch, waiting_ch>>
    BY <2>1 DEF ConverterRests
  <2>8. PacketInv'
    BY <1>0, <2>1, <2>5, <2>6, <2>7 DEF PacketInv
  <2>9. PulseInv'
    BY <1>0, <2>1, <2>2, <2>4, <2>6, <2>7 DEF PulseInv
  <2>10. OwedInv'
    BY <1>0, <2>1, <2>2, <2>4, <2>7 DEF OwedInv, One
  <2> QED BY <2>3, <2>8, <2>9, <2>10 DEF TimingInv
<1>4. CASE A!FetchSonar
  <2>1. PICK v \in Samples : /\ A!AdcGetData("sonar", v)
                             /\ IF A!Flags["sonar"] THEN A!TestSample(A!Buffer(v)["sonar"].value)
                                                    ELSE UNCHANGED adc_owed
    BY <1>4, Zenon DEF A!FetchSonar
  <2>2. /\ adc_at = "sonar" /\ adc_at' = "batt"
        /\ UNCHANGED <<packet_age, pulse_low, phase_age, already_converted>>
    BY <1>4 DEF A!FetchSonar
  <2>3. /\ ConverterSound' /\ ~SonarIsNew'
        /\ ~adif => ConverterRests
        /\ adif => /\ current_ch \in A!Channels /\ ~adif'
                   /\ current_ch' = waiting_ch /\ waiting_ch' = "none"
                   /\ waiting_ch # "none" => conv_age' = 0
        /\ A!Flags["sonar"] <=> SonarIsNew \/ (adif /\ current_ch = "sonar")
    BY <1>0, <2>1, GetFacts DEF A!Channels
  <2>4. /\ SonarIsNew \/ (adif /\ current_ch = "sonar") => adc_owed' = adc_owed - 1
        /\ ~(SonarIsNew \/ (adif /\ current_ch = "sonar")) => adc_owed' = adc_owed
    BY <2>1, <2>3, Zenon DEF A!TestSample
  <2>5. UNCHANGED Phase
    BY <2>2, Zenon DEF Phase
  <2>6. PacketInv' /\ PulseInv' /\ OwedInv'
    <3>1. CASE ~adif
      <4>1. UNCHANGED <<current_ch, waiting_ch, conv_age>> /\ ~adif'
        <5>1. UNCHANGED <<current_ch, waiting_ch, conv_age, adif>>
          BY <2>3, <3>1 DEF ConverterRests
        <5> QED BY <3>1, <5>1, Zenon
      <4>2. UNCHANGED Elapsed
        BY <3>1, <4>1, Zenon DEF Elapsed
      <4>3. PacketInv' /\ PulseInv'
        BY <1>0, <2>2, <2>3, <2>5, <4>1, <4>2 DEF PacketInv, PulseInv
      <4>4. OwedInv'
        BY <1>0, <2>2, <2>3, <2>4, <3>1, <4>1, OwedIs DEF OwedInv, One
      <4> QED BY <4>3, <4>4
    <3>2. CASE adif /\ waiting_ch # "none"
      <4>1. current_ch' = waiting_ch /\ waiting_ch' = "none" /\ conv_age' = 0 /\ ~adif'
        BY <2>3, <3>2
      <4>2. \/ current_ch = "sonar" /\ waiting_ch = "batt"
            \/ current_ch = "batt" /\ waiting_ch = "sonar"
        BY <1>0, <3>2 DEF Requests
      <4>3. PacketInv' /\ PulseInv'
        BY <1>0, <1>n, <1>m, <2>2, <2>3, <2>5, <4>1, <4>2 DEF PacketInv, PulseInv
      <4>4. OwedInv'
        BY <1>0, <2>2, <2>3, <2>4, <3>2, <4>1, <4>2, OwedIs DEF OwedInv, One
      <4> QED BY <4>3, <4>4
    <3>3. CASE adif /\ waiting_ch = "none"
      <4>1. current_ch' = "none" /\ waiting_ch' = "none"
        BY <2>3, <3>3
      <4>2. PacketInv' /\ PulseInv'
        BY <1>0, <2>2, <2>3, <4>1 DEF PacketInv, PulseInv
      <4>3. OwedInv'
        BY <1>0, <2>2, <2>3, <2>4, <3>3, <4>1, OwedIs DEF OwedInv, One
      <4> QED BY <4>2, <4>3
    <3> QED BY <3>1, <3>2, <3>3
  <2> QED BY <2>3, <2>6 DEF TimingInv
<1>5. CASE A!FetchBattery
  <2>1. PICK v \in Samples : A!AdcGetData("batt", v)
    BY <1>5, Zenon DEF A!FetchBattery
  <2>2. /\ adc_at = "batt" /\ adc_at' = "round"
        /\ UNCHANGED <<packet_age, pulse_low, phase_age, already_converted, adc_owed>>
    BY <1>5 DEF A!FetchBattery, A!sonarVars
  <2>3. /\ ConverterSound'
        /\ ~adif => ConverterRests
        /\ adif => /\ current_ch \in A!Channels /\ ~adif'
                   /\ current_ch' = waiting_ch /\ waiting_ch' = "none"
                   /\ waiting_ch # "none" => conv_age' = 0
        /\ SonarIsNew' <=> SonarIsNew \/ (adif /\ current_ch = "sonar")
    BY <1>0, <2>1, GetFacts DEF A!Channels
  <2>4. UNCHANGED Phase /\ ~SonarIsNew
    BY <1>0, <2>2 DEF Phase, PulseInv
  <2>5. Elapsed <= ConvRounds
    BY <1>0, <2>2, ElapsedIs DEF Early
  <2>6. PacketInv' /\ PulseInv' /\ OwedInv'
    <3>1. CASE ~adif
      <4>1. UNCHANGED <<current_ch, waiting_ch, conv_age>> /\ ~adif' /\ ~SonarIsNew'
        <5>1. UNCHANGED <<current_ch, waiting_ch, conv_age, adif>>
          BY <2>3, <3>1 DEF ConverterRests
        <5> QED BY <2>3, <2>4, <3>1, <5>1, Zenon
      <4>2. UNCHANGED Elapsed
        BY <3>1, <4>1, Zenon DEF Elapsed
      <4>3. PacketInv' /\ PulseInv'
        BY <1>0, <2>2, <2>4, <4>1, <4>2 DEF PacketInv, PulseInv
      <4>4. OwedInv'
        BY <1>0, <2>2, <2>4, <4>1 DEF OwedInv, One
      <4> QED BY <4>3, <4>4
    <3>2. CASE adif /\ waiting_ch # "none"
      <4>1. /\ current_ch' = waiting_ch /\ waiting_ch' = "none" /\ conv_age' = 0 /\ ~adif'
            /\ SonarIsNew' <=> current_ch = "sonar"
        BY <2>3, <2>4, <3>2
      <4>2. \/ current_ch = "sonar" /\ waiting_ch = "batt"
            \/ current_ch = "batt" /\ waiting_ch = "sonar"
        BY <1>0, <3>2 DEF Requests
      <4>3. PacketInv' /\ PulseInv'
        BY <1>0, <1>n, <1>m, <2>2, <2>3, <2>4, <2>5, <4>1, <4>2 DEF PacketInv, PulseInv
      <4>4. OwedInv'
        BY <1>0, <2>2, <2>4, <4>1, <4>2 DEF OwedInv, One
      <4> QED BY <4>3, <4>4
    <3>3. CASE adif /\ waiting_ch = "none"
      <4>1. /\ current_ch' = "none" /\ waiting_ch' = "none"
            /\ SonarIsNew' <=> current_ch = "sonar"
        BY <2>3, <2>4, <3>3
      <4>2. PacketInv' /\ PulseInv'
        BY <1>0, <1>n, <2>2, <2>4, <2>5, <4>1 DEF PacketInv, PulseInv
      <4>3. OwedInv'
        BY <1>0, <2>2, <2>4, <3>3, <4>1 DEF OwedInv, One
      <4> QED BY <4>2, <4>3
    <3> QED BY <3>1, <3>2, <3>3
  <2> QED BY <2>3, <2>6 DEF TimingInv
<1>6. CASE A!NextRound
  <2>1. /\ adc_at = "round" /\ adc_at' = "packet"
        /\ current_ch = "none" \/ adif \/ conv_age < ConvRounds
        /\ conv_age' = IF current_ch = "none" THEN 0 ELSE A!Older(conv_age, ConvRounds)
        /\ phase_age' = A!Older(phase_age, MinPhase)
        /\ packet_age' = A!Older(packet_age, PacketGap)
        /\ UNCHANGED <<current_ch, waiting_ch, mux, adif, data_buf, adc_new_data, pulse_low,
                       adc_owed, already_converted>>
    BY <1>6 DEF A!NextRound, A!sonarVars
  <2>2. (SonarIsNew' <=> SonarIsNew) /\ (adif' <=> adif)
    BY <2>1, Zenon DEF SonarIsNew
  <2>3. ConverterSound'
    BY <1>0, <2>1, AnalogConstants DEF ConverterSound, ConverterTypes, ConverterInv, A!Older
  <2>4. Elapsed = conv_age /\ conv_age \in 0..ConvRounds
    BY <1>0, <2>1, ElapsedIs DEF Early, Requests
  <2>5. current_ch # "none" => Elapsed' >= Elapsed + 1
    <3>1. CASE current_ch # "none" /\ conv_age = ConvRounds
      <4>1. adif /\ conv_age' = ConvRounds
        BY <1>n, <2>1, <3>1 DEF A!Older
      <4>2. Elapsed' = ConvRounds + 1
        BY <1>m, <2>1, <2>2, <2>3, <4>1, ElapsedIsNext DEF Early
      <4> QED BY <1>n, <2>4, <3>1, <4>2
    <3>2. CASE current_ch # "none" /\ conv_age # ConvRounds
      <4>1. conv_age' = conv_age + 1
        BY <1>n, <2>1, <2>4, <3>2 DEF A!Older
      <4>2. conv_age' <= Elapsed' /\ Elapsed' \in Nat
        BY <1>m, <2>3, ElapsedIsNext
      <4> QED BY <1>n, <2>4, <4>1, <4>2
    <3> QED BY <3>1, <3>2
  <2>6. /\ packet_age' <= packet_age + 1 /\ phase_age' <= phase_age + 1
        /\ phase_age = 0 => phase_age' = 1
    BY <1>0, <2>1, AnalogConstants DEF A!Older, LoopTypes
  <2>7. Phase' <= Phase + 1
    BY <1>0, <1>n, <2>1, <2>6, PhaseIs, PhaseIsNext, AnalogConstants
  <2>8. PacketInv'
    BY <1>0, <1>n, <1>m, <2>1, <2>3, <2>5, <2>6 DEF PacketInv
  <2>9. waiting_ch = "sonar" => current_ch # "none"
    BY <1>0 DEF Requests
  <2>10. PulseInv'
    BY <1>0, <1>n, <1>m, <2>1, <2>2, <2>3, <2>5, <2>6, <2>7, <2>9 DEF PulseInv
  <2>11. OwedInv'
    BY <1>0, <2>1, <2>2 DEF OwedInv, One
  <2> QED BY <2>3, <2>8, <2>10, <2>11 DEF TimingInv
<1>7. CASE A!ConversionEnds
  <2>1. /\ current_ch # "none" /\ adif'
        /\ UNCHANGED <<adc_at, packet_age, current_ch, waiting_ch, mux, conv_age, data_buf,
                       adc_new_data, pulse_low, phase_age, adc_owed, already_converted>>
    BY <1>7, Zenon DEF A!ConversionEnds, A!sonarVars
  <2>2. ConverterSound'
    BY <1>0, <2>1 DEF ConverterSound, ConverterTypes, ConverterInv
  <2>3. Elapsed' >= Elapsed
    <3>1. Elapsed = conv_age
      BY <1>7, Zenon DEF A!ConversionEnds, Elapsed
    <3>2. conv_age' <= Elapsed' /\ Elapsed' \in Nat
      BY <1>m, <2>2, ElapsedIsNext
    <3> QED BY <1>n, <2>1, <3>1, <3>2
  <2>4. (SonarIsNew' <=> SonarIsNew) /\ UNCHANGED Phase
    BY <2>1, Zenon DEF SonarIsNew, Phase
  <2>5. PacketInv'
    BY <1>0, <1>n, <1>m, <2>1, <2>2, <2>3 DEF PacketInv
  <2>6. PulseInv'
    BY <1>0, <1>n, <1>m, <2>1, <2>2, <2>3, <2>4 DEF PulseInv
  <2>7. OwedInv'
    BY <1>0, <2>1, <2>4 DEF OwedInv, One
  <2> QED BY <2>2, <2>5, <2>6, <2>7 DEF TimingInv
<1>8. CASE A!PulseChanges
  <2>1. /\ ConverterRests
        /\ UNCHANGED <<adc_at, packet_age, data_buf, adc_new_data, already_converted>>
        /\ phase_age = MinPhase /\ phase_age' = 0
        /\ pulse_low' = ~pulse_low /\ adc_owed' = IF pulse_low THEN adc_owed ELSE adc_owed + 1
    BY <1>8, Zenon DEF A!PulseChanges, A!adcVars, A!sonarVars, ConverterRests
  <2>2. ConverterSound'
    BY <1>0, <2>1 DEF ConverterRests, ConverterSound, ConverterTypes, ConverterInv
  <2>3. (SonarIsNew' <=> SonarIsNew) /\ UNCHANGED <<current_ch, waiting_ch>>
    BY <2>1, Zenon DEF SonarIsNew, ConverterRests
  <2>4. UNCHANGED Elapsed
    BY <2>1, ElapsedStays, Zenon DEF ConverterRests
  <2>5. PacketInv'
    BY <1>0, <2>1, <2>3, <2>4 DEF PacketInv
  <2>6. CASE pulse_low
    <3>1. ~pulse_low' /\ adc_owed' = adc_owed
      BY <2>1, <2>6, Zenon
    <3>2. UNCHANGED Phase
      BY <1>0, <1>n, <2>1, <2>6, <3>1, PhaseIs, PhaseIsNext, AnalogConstants
    <3>3. already_converted
      BY <1>0, <2>1, <2>6, AnalogConstants DEF PulseInv
    <3>4. PulseInv'
      BY <1>0, <2>1, <2>3, <2>4, <3>1, <3>2, <3>3 DEF PulseInv
    <3>5. OwedInv'
      BY <1>0, <2>1, <2>3, <2>6, <3>1, <3>3 DEF OwedInv, One
    <3> QED BY <2>2, <2>5, <3>4, <3>5 DEF TimingInv
  <2>7. CASE ~pulse_low
    <3>1. pulse_low' /\ adc_owed' = adc_owed + 1
      BY <2>1, <2>7, Zenon
    <3>2. Phase = MinPhase + MinPhase
      BY <1>0, <2>1, <2>7, PhaseIs
    <3>3. ~already_converted
      BY <1>0, <2>1, <2>7, AnalogConstants DEF PulseInv
    <3>4. waiting_ch # "sonar" /\ current_ch # "sonar" /\ ~SonarIsNew
      BY <1>0, <1>n, <3>2, AnalogConstants DEF PulseInv
    <3>5. PulseInv'
      BY <2>1, <2>3, <3>1, <3>4 DEF PulseInv
    <3>6. OwedInv'
      BY <1>0, <2>1, <2>3, <2>7, <3>1, <3>3, <3>4 DEF OwedInv, One
    <3> QED BY <2>2, <2>5, <3>5, <3>6 DEF TimingInv
  <2> QED BY <2>6, <2>7
<1> QED BY <1>1, <1>2, <1>3, <1>4, <1>5, <1>6, <1>7, <1>8 DEF A!Next, A!Loop

\* The trigger of the sonar.
LEMMA AnalogTriggerStep ==
  ASSUME AnalogFlagTypes, TriggerInv, A!Next \/ UNCHANGED A!vars
  PROVE  TriggerInv'
<1> USE DEF A!minia, TriggerInv, A!StoppedSonarRests
<1>1. CASE A!NoMotorPacket
  <2>1. CASE ~sensors_enabled /\ sensors_enabled' = TRUE /\ A!MiniaStart /\ adc_at' = "pulse"
    <3>1. sensors_enabled'
      BY <2>1, Zenon
    <3> QED BY <2>1, <3>1
  <2>2. CASE sensors_enabled /\ UNCHANGED sensors_enabled /\ A!StopHalf(TRUE) /\ adc_at' = "stop"
    <3>1. adc_toie2' = FALSE
      BY <2>2, Zenon DEF A!StopHalf
    <3> QED BY <2>2, <3>1, Zenon
  <2>3. CASE UNCHANGED A!minia /\ adc_at' = "pulse"
    BY <2>3
  <2> QED BY <1>1, <2>1, <2>2, <2>3, Zenon DEF A!NoMotorPacket, A!EnableSensors
<1>2. CASE A!FinishStop
  <2>1. adc_at = "stop" /\ adc_at' = "pulse" /\ trigger' = TRUE /\ UNCHANGED adc_toie2
    BY <1>2, Zenon DEF A!FinishStop, A!StopHalf
  <2>2. trigger'
    BY <2>1, Zenon
  <2> QED BY <2>1, <2>2
<1>3. CASE A!T2Overflow
  <2>1. adc_toie2 /\ UNCHANGED <<adc_at, sensors_enabled, adc_toie2>>
    BY <1>3 DEF A!T2Overflow
  <2> QED BY <2>1
<1>4. CASE A!MotorPacket \/ A!LookAtPulse \/ A!LookAgain \/ A!FetchSonar \/ A!FetchBattery
           \/ A!NextRound \/ A!ConversionEnds \/ A!PulseChanges \/ UNCHANGED A!vars
  <2>1. UNCHANGED <<sensors_enabled, adc_toie2, trigger>> /\ (adc_at' = adc_at \/ adc_at' # "stop")
    BY <1>4 DEF A!MotorPacket, A!LookAtPulse, A!LookAgain, A!FetchSonar, A!FetchBattery,
       A!NextRound, A!ConversionEnds, A!PulseChanges, A!vars
  <2> QED BY <2>1
<1> QED BY <1>1, <1>2, <1>3, <1>4 DEF A!Next, A!Loop

LEMMA AnalogStep ==
  ASSUME AnalogInv, A!Next \/ UNCHANGED A!vars
  PROVE  AnalogInv'
<1>1. /\ AnalogTypes /\ AnalogFlagTypes /\ ConverterTypes /\ LoopTypes /\ ConverterInv
      /\ TimingInv /\ TriggerInv /\ RecentInv
  BY DEF AnalogInv, AnalogTypes
<1>2. LoopTypes' /\ RecentInv'
  BY <1>1, AnalogLoopStep, Zenon
<1>3. AnalogFlagTypes'
  BY <1>1, AnalogFlagStep, Zenon
<1>4. ConverterTypes' /\ ConverterInv' /\ TimingInv'
  BY <1>1, <1>2, AnalogTimingStep, Zenon
<1>5. TriggerInv'
  BY <1>1, AnalogTriggerStep, Zenon
<1> QED BY <1>2, <1>3, <1>4, <1>5 DEF AnalogInv, AnalogTypes

LEMMA AnalogTypesAre == AnalogInv => A!TypeOK
<1> SUFFICES ASSUME AnalogInv PROVE A!TypeOK
  OBVIOUS
<1>1. AnalogFlagTypes /\ ConverterTypes /\ LoopTypes /\ adc_owed \in 0..1
  BY OwedIs DEF AnalogInv, AnalogTypes, TimingInv
<1>2. {current_ch, waiting_ch, mux} \subseteq A!Channels \cup {"none"}
  BY <1>1 DEF ConverterTypes, A!Channels
<1>3. adc_owed \in Int
  BY <1>1
<1> QED BY <1>1, <1>2, <1>3, Zenon
        DEF A!TypeOK, AnalogFlagTypes, ConverterTypes, LoopTypes, Values

LEMMA DistanceIs ==
  \A a, b \in Values : (A!Distance(a, b) = 0 => a = b) /\ ~A!Far(a, a)
<1> SUFFICES ASSUME NEW a \in Values, NEW b \in Values
             PROVE  (A!Distance(a, b) = 0 => a = b) /\ ~A!Far(a, a)
  OBVIOUS
<1>1. a \in 0..1023 /\ b \in 0..1023
  BY AnalogConstants DEF Values
<1> QED BY <1>1, AnalogConstants DEF A!Distance, A!Far

LEMMA SonarFollowsIs == LoopTypes /\ RecentInv => A!SonarFollows
<1> SUFFICES ASSUME LoopTypes, RecentInv, Len(recent) = 3,
                    A!Distance(recent[1], recent[2]) = 0, A!Distance(recent[2], recent[3]) = 0
             PROVE  ~A!Far(sonar, recent[3])
  BY DEF A!SonarFollows
<1>1. recent[1] \in Values /\ recent[2] \in Values /\ recent[3] \in Values
  <2>1. recent \in Seq(Values)
    BY DEF LoopTypes
  <2>2. 1 \in 1..3 /\ 2 \in 1..3 /\ 3 \in 1..3
    OBVIOUS
  <2> QED BY <2>1, <2>2, ElementOfSeq, Zenon
<1>2. outlier_count < 3 /\ (outlier_count = 0 \/ outlier_count = 1 \/ outlier_count = 2)
  BY DEF LoopTypes
<1>3. sonar = recent[3 - outlier_count]
  BY <1>2, Zenon DEF RecentInv
<1>4. recent[1] = recent[3] /\ recent[2] = recent[3]
  BY <1>1, DistanceIs, Zenon
<1>5. sonar = recent[3]
  <2>1. 3 - 0 = 3 /\ 3 - 1 = 2 /\ 3 - 2 = 1
    OBVIOUS
  <2> QED BY <1>2, <1>3, <1>4, <2>1, Zenon
<1> QED BY <1>1, <1>5, DistanceIs, Zenon

LEMMA AnalogPromise ==
  /\ AnalogInv => /\ A!TypeOK /\ A!OwnChannel
                  /\ A!OnePerPulse /\ A!SonarFollows /\ A!StoppedSonarRests
  /\ AnalogInv /\ (A!Next \/ UNCHANGED A!vars) =>
       (A!Far(sonar, sonar') => Len(recent') = 3 /\ \A i \in 1..3 : A!Far(recent'[i], sonar))
<1>1. ASSUME AnalogInv
      PROVE  /\ A!OwnChannel /\ A!OnePerPulse /\ A!SonarFollows /\ A!StoppedSonarRests
             /\ AnalogFlagTypes /\ ConverterTypes /\ ConverterInv /\ LoopTypes /\ RecentInv
  <2>1. A!OwnChannel
    BY <1>1 DEF AnalogInv, ConverterInv, A!OwnChannel
  <2>2. A!OnePerPulse
    BY <1>1, OwedIs DEF AnalogInv, TimingInv, A!OnePerPulse
  <2>3. A!SonarFollows
    BY <1>1, SonarFollowsIs DEF AnalogInv, AnalogTypes
  <2> QED BY <1>1, <2>1, <2>2, <2>3 DEF AnalogInv, AnalogTypes, TriggerInv
<1> QED BY <1>1, AnalogTypesAre, AnalogLoopStep, Zenon

-----------------------------------------------------------------------------
(***************************************************************************)
(* ImuPort.  The main loop writes at tx_items while the interrupt may reset *)
(* it: what keeps them apart is that a command is on the line and its      *)
(* stream ended two byte times after the request, long before the next.    *)
(***************************************************************************)
LEMMA ImuConstants ==
  /\ FrameSize \in Nat /\ FrameSize > 1 /\ ImuTxSize \in Nat /\ ImuTxSize > 0
  /\ RequestGap \in Nat /\ RequestGap > 1 /\ RequestGap <= FrameSize + 3
  /\ I!ReplyTime = FrameSize + 3 /\ MaxLost \in Nat
  /\ LookAlikes \subseteq 1..(FrameSize - 1)
BY DriversConstantsOK DEF I!ImuConstantsOK, I!ReplyTime

\* How far the request, its command and the interrupt have come.
RequestInv ==
  /\ imu_at # "loop" =>
       /\ ~imu_udrie /\ imu_udr = "none" /\ slot = 0 /\ imu_tx_index = 0 /\ imu_owed = 1
       /\ request_age = 0
       /\ imu_tx_items = IF imu_at \in {"counted", "stored"} THEN 1 ELSE 0
       /\ imu_at \in {"half", "stored"} => imu_tx_buf[0] = "command"
  /\ imu_at = "loop" /\ ~imu_udrie =>
       imu_tx_items = 0 /\ imu_tx_index = 0 /\ imu_udr = "none" /\ imu_owed = 0
  /\ imu_udrie =>
       /\ imu_tx_items = 1 /\ request_age <= 1
       /\ \/ imu_tx_index = 0 /\ imu_tx_buf[0] = "command" /\ imu_owed = 1
             /\ imu_udr = "none" /\ request_age = 0
          \/ imu_tx_index = 1 /\ imu_owed = 0 /\ (imu_udr # "none" => request_age = 0)
ImuInv == I!TypeOK /\ RequestInv /\ I!SampleIsOneReply

\* The types of the transmitter, and those of the sensor, the line and the receiver.
ImuTxTypes ==
  /\ imu_at \in {"loop", "read", "counted", "half", "stored"} /\ slot \in 0..ImuTxSize
  /\ imu_tx_items \in 0..ImuTxSize /\ imu_tx_index \in 0..ImuTxSize
  /\ imu_tx_buf \in [0..(ImuTxSize - 1) -> {"zero", "command"}]
  /\ imu_udrie \in BOOLEAN /\ imu_udr \in {"none", "zero", "command"}
  /\ request_age \in 0..I!ReplyTime /\ imu_owed \in Int
ImuLineTypes ==
  /\ imu_pos \in 0..FrameSize /\ reply \in I!Replies
  /\ likes \subseteq LookAlikes /\ disturbed \in BOOLEAN /\ lost \in 0..MaxLost
  /\ fifo \in Seq(I!Bytes) /\ imu_calm \in 0..3
ImuRxTypes ==
  /\ imu_rx_index \in 0..(FrameSize - 1)
  /\ imu_rx_buf \in [0..(FrameSize - 1) -> I!Bytes]
  /\ imu_sample \in [0..(FrameSize - 1) -> I!Bytes]

LEMMA ImuTypes == I!TypeOK <=> ImuTxTypes /\ ImuLineTypes /\ ImuRxTypes
BY Zenon DEF I!TypeOK, ImuTxTypes, ImuLineTypes, ImuRxTypes

LEMMA ImuTypesNext == I!TypeOK' <=> ImuTxTypes' /\ ImuLineTypes' /\ ImuRxTypes'
BY Zenon DEF I!TypeOK, ImuTxTypes, ImuLineTypes, ImuRxTypes, I!Bytes, I!Replies

LEMMA ImuInit == I!Init => ImuInv
<1> SUFFICES ASSUME I!Init PROVE ImuInv
  OBVIOUS
<1> USE DEF I!Init
<1>1. ImuTxTypes
  <2>1. imu_udrie \in BOOLEAN /\ disturbed \in BOOLEAN
    BY Zenon
  <2> QED BY <2>1, ImuConstants DEF ImuTxTypes
<1>2. ImuLineTypes
  <2>1. imu_pos \in 0..FrameSize /\ lost \in 0..MaxLost
    BY ImuConstants
  <2>2. fifo \in Seq(I!Bytes) /\ disturbed \in BOOLEAN
    BY EmptySeq, Zenon
  <2> QED BY <2>1, <2>2 DEF ImuLineTypes, I!Replies
<1>3. ImuRxTypes /\ I!SampleIsOneReply
  <2>1. I!Empty \in I!Bytes
    BY ImuConstants DEF I!Empty, I!Bytes, I!Replies
  <2>2. imu_rx_buf \in [0..(FrameSize - 1) -> I!Bytes]
    BY <2>1
  <2>3. imu_rx_index \in 0..(FrameSize - 1)
    BY ImuConstants
  <2> QED BY <2>2, <2>3 DEF ImuRxTypes, I!SampleIsOneReply
<1>4. RequestInv
  BY ImuConstants DEF RequestInv
<1> QED BY <1>1, <1>2, <1>3, <1>4, ImuTypes DEF ImuInv

\* What the transmitter does.
LEMMA ImuTransmitStep ==
  ASSUME ImuTxTypes, RequestInv,
         I!Request \/ I!WriteCommand \/ I!EnableInterrupt \/ I!DataRegisterEmpty
  PROVE  ImuTxTypes' /\ RequestInv'
<1> USE DEF ImuTxTypes, RequestInv
<1>1. CASE I!Request
  BY <1>1, ImuConstants DEF I!Request
<1>2. CASE I!WriteCommand
  BY <1>2, ImuConstants DEF I!WriteCommand, I!CountItem, I!StoreCommand, I!lineVars
<1>3. CASE I!EnableInterrupt
  BY <1>3, ImuConstants DEF I!EnableInterrupt, I!lineVars
<1>4. CASE I!DataRegisterEmpty
  <2>1. CASE imu_tx_index = imu_tx_items
    <3>1. ~imu_udrie' /\ imu_udrie' \in BOOLEAN
      BY <1>4, <2>1, Zenon DEF I!DataRegisterEmpty, I!EndOfStream
    <3> QED BY <1>4, <2>1, <3>1, ImuConstants DEF I!DataRegisterEmpty, I!EndOfStream, I!lineVars
  <2>2. CASE imu_tx_index # imu_tx_items
    BY <1>4, <2>2, ImuConstants DEF I!DataRegisterEmpty, I!SendItem, I!lineVars
  <2> QED BY <2>1, <2>2
<1> QED BY <1>1, <1>2, <1>3, <1>4

\* A byte time: the command reaches the sensor, or a byte of the reply the receiver.
LEMMA ImuByteStep ==
  ASSUME ImuInv, I!ByteTime
  PROVE  ImuInv'
<1>0. ImuTxTypes /\ ImuLineTypes /\ ImuRxTypes /\ RequestInv /\ I!SampleIsOneReply
  BY ImuTypes DEF ImuInv
<1>1. ImuTxTypes' /\ RequestInv'
  BY <1>0, ImuConstants DEF ImuTxTypes, RequestInv, I!ByteTime, I!Older
<1>2. ImuRxTypes' /\ I!SampleIsOneReply'
  BY <1>0 DEF ImuRxTypes, I!SampleIsOneReply, I!ByteTime, I!Bytes, I!Replies
<1>3. ImuLineTypes'
  <2> USE DEF ImuLineTypes
  <2>1. CASE I!Answers
    <3>1. 0 \in 0..FrameSize /\ (reply + 1) % 3 \in I!Replies
      BY <1>0, ImuConstants DEF I!Replies
    <3> QED BY <1>0, <2>1, <3>1 DEF I!ByteTime, I!Answers, I!Bytes, I!Replies
  <2>2. CASE I!Silent /\ UNCHANGED <<reply, likes>>
    BY <1>0, <2>2 DEF I!ByteTime, I!Silent, I!Bytes, I!Replies
  <2>3. CASE I!Sends /\ UNCHANGED <<reply, likes>>
    <3>1. I!Arriving \in I!Bytes
      BY <1>0, <2>3, ImuConstants DEF I!Sends, I!Arriving, I!Bytes
    <3>2. fifo' \in Seq(I!Bytes)
      BY <1>0, <2>3, <3>1 DEF I!Sends
    <3>3. disturbed' \in BOOLEAN
      BY <1>0, <2>3, Zenon DEF I!Sends
    <3>4. imu_pos' \in 0..FrameSize /\ lost' \in 0..MaxLost
      BY <1>0, <2>3, ImuConstants DEF I!Sends
    <3> QED BY <1>0, <2>3, <3>2, <3>3, <3>4 DEF I!ByteTime, I!Bytes, I!Replies
  <2> QED BY <2>1, <2>2, <2>3 DEF I!ByteTime
<1> QED BY <1>1, <1>2, <1>3, ImuTypesNext DEF ImuInv

\* dm3gx1_is_new_data: only a valid frame is copied, and that is of one reply.
LEMMA ImuReceiveStep ==
  ASSUME ImuInv, I!TakeByte
  PROVE  ImuInv'
<1>0. ImuTxTypes /\ ImuLineTypes /\ ImuRxTypes /\ RequestInv /\ I!SampleIsOneReply
  BY ImuTypes DEF ImuInv
<1>1. ImuTxTypes' /\ RequestInv'
  BY <1>0 DEF ImuTxTypes, RequestInv, I!TakeByte, I!txVars, I!lineVars
<1>2. Head(fifo) \in I!Bytes /\ Tail(fifo) \in Seq(I!Bytes)
  BY <1>0 DEF ImuLineTypes, I!TakeByte
<1>3. ImuLineTypes'
  BY <1>0, <1>2 DEF ImuLineTypes, I!TakeByte, I!lineVars, I!Bytes, I!Replies
<1>4. I!Stored \in [0..(FrameSize - 1) -> I!Bytes]
  BY <1>0, <1>2 DEF ImuRxTypes, I!Stored
<1>5. imu_rx_index' \in 0..(FrameSize - 1) /\ imu_rx_buf' = I!Stored
      /\ (imu_sample' = imu_sample \/ (imu_sample' = I!Stored /\ I!IsValid(I!Stored)))
  BY <1>0, ImuConstants DEF ImuRxTypes, I!TakeByte, I!EndOfFrame
<1>6. ImuRxTypes'
  BY <1>0, <1>4, <1>5 DEF ImuRxTypes, I!Bytes, I!Replies
<1>7. I!SampleIsOneReply'
  <2>1. CASE imu_sample' = imu_sample
    BY <1>0, <2>1 DEF I!SampleIsOneReply
  <2>2. CASE imu_sample' = I!Stored /\ I!IsValid(I!Stored)
    BY <2>2 DEF I!SampleIsOneReply, I!IsValid
  <2> QED BY <1>5, <2>1, <2>2
<1> QED BY <1>1, <1>3, <1>6, <1>7, ImuTypesNext DEF ImuInv

LEMMA ImuStep == ASSUME ImuInv, I!Next \/ UNCHANGED I!vars PROVE ImuInv'
<1>0. ImuTxTypes /\ ImuLineTypes /\ ImuRxTypes /\ RequestInv /\ I!SampleIsOneReply
  BY ImuTypes DEF ImuInv
<1>1. CASE I!Request \/ I!WriteCommand \/ I!EnableInterrupt \/ I!DataRegisterEmpty
  <2>1. UNCHANGED <<imu_pos, reply, likes, disturbed, lost, fifo, imu_rx_index, imu_rx_buf,
                    imu_sample>>
    BY <1>1 DEF I!Request, I!WriteCommand, I!EnableInterrupt, I!DataRegisterEmpty,
                I!lineVars, I!rxVars
  <2>2. imu_calm' \in 0..3
    BY <1>0, <1>1 DEF ImuLineTypes, I!Request, I!WriteCommand, I!EnableInterrupt,
                      I!DataRegisterEmpty, I!lineVars
  <2>3. ImuLineTypes' /\ ImuRxTypes' /\ I!SampleIsOneReply'
    BY <1>0, <2>1, <2>2 DEF ImuLineTypes, ImuRxTypes, I!SampleIsOneReply, I!Bytes, I!Replies
  <2> QED BY <1>0, <1>1, <2>3, ImuTransmitStep, ImuTypesNext DEF ImuInv
<1>2. CASE UNCHANGED I!vars
  <2>1. ImuTxTypes' /\ RequestInv'
    BY <1>0, <1>2 DEF ImuTxTypes, RequestInv, I!vars, I!txVars, I!lineVars
  <2>2. ImuLineTypes' /\ ImuRxTypes' /\ I!SampleIsOneReply'
    BY <1>0, <1>2 DEF ImuLineTypes, ImuRxTypes, I!SampleIsOneReply, I!Bytes, I!Replies, I!vars,
                      I!lineVars, I!rxVars
  <2> QED BY <2>1, <2>2, ImuTypesNext DEF ImuInv
<1> QED BY <1>1, <1>2, ImuByteStep, ImuReceiveStep DEF I!Next

LEMMA ImuPromise == ImuInv => I!TypeOK /\ I!OneCommandPerRequest /\ I!SampleIsOneReply
<1>1. ASSUME ImuTxTypes, RequestInv PROVE I!OneCommandPerRequest
  BY <1>1, ImuConstants DEF ImuTxTypes, RequestInv, I!OneCommandPerRequest
<1> QED BY <1>1, ImuTypes DEF ImuInv

-----------------------------------------------------------------------------
(***************************************************************************)
(* ParallelLink.  As long as no board is ahead of the other, the turn to   *)
(* change a RDY line goes back and forth between them; the place of the    *)
(* receiver in the packet follows that of the sender, so both agree on     *)
(* where a packet ends and who may begin the next.                         *)
(***************************************************************************)
LEMMA LinkConstants ==
  /\ Overhead \in Nat /\ PacketSize \in Nat /\ ParBufSize \in Nat
  /\ 6 <= Overhead /\ Overhead <= PacketSize /\ PacketSize <= ParBufSize
BY DriversConstantsOK DEF P!LinkConstantsOK

\* What the receiver makes of a byte that is in its turn.
Expected(i) == IF i = 0 THEN 0 ELSE IF i <= 3 THEN Overhead ELSE PacketSize

\* Whatever byte is taken, the receiver stays within its buffer or at its end.
LEMMA ReceiverTypes ==
  ASSUME NEW i \in 0..(ParBufSize - 1), NEW items \in 0..ParBufSize, NEW byte \in 0..PacketSize,
         NEW total \in P!Totals(byte, items)
  PROVE  /\ P!Awaited(i, byte, items, total) \in 0..ParBufSize
         /\ P!NextIndex(i, byte, total, P!Awaited(i, byte, items, total)) \in 0..ParBufSize
<1>1. P!Awaited(i, byte, items, total) \in {0, Overhead, items, total}
      /\ (~(total <= ParBufSize) => P!Awaited(i, byte, items, total) \in {0, Overhead, items})
  BY Zenon DEF P!Awaited
<1>2. P!Totals(byte, items) \in {{items + PacketSize - Overhead},
                                {IF items = 0 THEN ParBufSize + 1 ELSE items - 1},
                                0..(ParBufSize + 1)}
  BY Zenon DEF P!Totals
<1>3. total \in Nat
  BY <1>2, LinkConstants
<1>4. P!Awaited(i, byte, items, total) \in 0..ParBufSize
  BY <1>1, <1>3, LinkConstants
<1>5. P!NextIndex(i, byte, total, P!Awaited(i, byte, items, total)) \in {0, i, i + 1}
  BY Zenon DEF P!NextIndex
<1> QED BY <1>4, <1>5, LinkConstants

\* The next byte of a packet is taken for what it is.
LEMMA ReceiverInTurn ==
  ASSUME NEW i \in 0..(PacketSize - 1), NEW total \in P!Totals(i, Expected(i))
  PROVE  /\ P!Awaited(i, i, Expected(i), total) = Expected(i + 1)
         /\ P!NextIndex(i, i, total, Expected(i + 1)) = i + 1
<1>1. Expected(i + 1) > 0 /\ Expected(i + 1) = IF i < 3 THEN Overhead ELSE PacketSize
  BY LinkConstants DEF Expected
<1>2. CASE i < 2
  <2>1. ~P!Rejected(i, i, total) /\ P!IsMark(i) /\ i # 3
    BY <1>2 DEF P!Rejected, P!IsMark
  <2>2. CASE i = 0
    <3>1. P!Awaited(i, i, Expected(i), total) = Overhead
      <4>1. i # 3
        BY <2>2
      <4> QED BY <2>1, <2>2, <4>1, Zenon DEF P!Awaited
    <3> QED BY <1>1, <2>1, <2>2, <3>1 DEF P!NextIndex
  <2>3. CASE i = 1
    <3>1. P!Awaited(i, i, Expected(i), total) = Expected(i)
      <4>1. i # 0 /\ i # 3
        BY <2>3
      <4> QED BY <2>1, <4>1, Zenon DEF P!Awaited
    <3> QED BY <1>1, <2>1, <2>3, <3>1 DEF P!NextIndex, Expected
  <2> QED BY <1>2, <2>2, <2>3
<1>3. CASE i = 3
  <2>1. P!Totals(i, Expected(i)) = {Expected(i) + PacketSize - Overhead}
    <3>1. ~P!IsMark(i)
      BY <1>3 DEF P!IsMark
    <3> QED BY <1>3, <3>1, Zenon DEF P!Totals
  <2>2. Expected(i) = Overhead
    BY <1>3 DEF Expected
  <2>3. total = PacketSize
    BY <2>1, <2>2, LinkConstants
  <2>4. total <= ParBufSize /\ ~P!Rejected(i, i, total) /\ i # 0
    BY <1>3, <2>3, LinkConstants DEF P!Rejected
  <2>5. P!Awaited(i, i, Expected(i), total) = total
    BY <1>3, <2>4, Zenon DEF P!Awaited
  <2> QED BY <1>1, <1>3, <2>3, <2>4, <2>5 DEF P!NextIndex
<1>4. CASE i >= 2 /\ i # 3
  <2>1. ~P!Rejected(i, i, total) /\ ~P!IsMark(i) /\ i # 3 /\ i # 0
    BY <1>4 DEF P!Rejected, P!IsMark
  <2>2. P!Awaited(i, i, Expected(i), total) = Expected(i)
    BY <2>1, Zenon DEF P!Awaited
  <2> QED BY <1>1, <1>4, <2>1, <2>2 DEF P!NextIndex, Expected
<1> QED BY <1>2, <1>3, <1>4

\* What a board that sends, and one that does not, has in its transmitter.
Modes ==
  \A b \in {1, 2} : /\ sending[b] => par_tx_items[b] = PacketSize
                    /\ ~sending[b] => par_tx_index[b] = 0

\* No transfer is under way, and not both boards want to begin one.
Quiet ==
  /\ \A b \in {1, 2} : /\ ~sending[b] /\ ~if_ready[b] /\ driven[b] = PacketSize
                       /\ par_rx_index[b] = 0 /\ par_rx_items[b] = 0
  /\ par_tx_items[1] = 0 \/ par_tx_items[2] = 0

\* b sends to o, and either o has not yet seen the last byte, or b not yet that it has.
Sends(b, o) ==
  /\ sending[b] /\ ~sending[o] /\ driven[o] = PacketSize
  /\ par_rx_index[b] = 0 /\ par_rx_items[b] = 0
  /\ par_tx_index[b] > 0 /\ driven[b] = par_tx_index[b] - 1
  /\ par_rx_items[o] = Expected(par_rx_index[o])
  /\ \/ if_ready[o] /\ ~if_ready[b] /\ par_rx_index[o] = par_tx_index[b] - 1
     \/ /\ if_ready[b] /\ ~if_ready[o]
        /\ par_rx_index[o] = IF par_tx_index[b] = PacketSize THEN 0 ELSE par_tx_index[b]

InTurn == Quiet \/ Sends(1, 2) \/ Sends(2, 1)
ParallelInv == P!TypeOK /\ Modes /\ (~upset => InTurn)

LEMMA LinkTypes ==
  P!TypeOK <=> /\ if_ready \in [{1, 2} -> BOOLEAN] /\ sending \in [{1, 2} -> BOOLEAN]
               /\ par_tx_items \in [{1, 2} -> {0, PacketSize}]
               /\ par_tx_index \in [{1, 2} -> 0..PacketSize]
               /\ driven \in [{1, 2} -> 0..PacketSize]
               /\ par_rx_items \in [{1, 2} -> 0..ParBufSize]
               /\ par_rx_index \in [{1, 2} -> 0..ParBufSize]
               /\ intact \in [{1, 2} -> BOOLEAN]
               /\ flag_new_request \in BOOLEAN /\ waiting \in BOOLEAN /\ upset \in BOOLEAN
BY Zenon DEF P!TypeOK, P!Boards

LEMMA LinkTypesNext ==
  P!TypeOK' <=> /\ if_ready' \in [{1, 2} -> BOOLEAN] /\ sending' \in [{1, 2} -> BOOLEAN]
                /\ par_tx_items' \in [{1, 2} -> {0, PacketSize}]
                /\ par_tx_index' \in [{1, 2} -> 0..PacketSize]
                /\ driven' \in [{1, 2} -> 0..PacketSize]
                /\ par_rx_items' \in [{1, 2} -> 0..ParBufSize]
                /\ par_rx_index' \in [{1, 2} -> 0..ParBufSize]
                /\ intact' \in [{1, 2} -> BOOLEAN]
                /\ flag_new_request' \in BOOLEAN /\ waiting' \in BOOLEAN /\ upset' \in BOOLEAN
BY Zenon DEF P!TypeOK, P!Boards

LEMMA ParallelInit == P!Init => ParallelInv
<1> SUFFICES ASSUME P!Init PROVE ParallelInv
  OBVIOUS
<1> USE DEF P!Init, P!Boards
<1>1. flag_new_request \in BOOLEAN /\ waiting \in BOOLEAN /\ upset \in BOOLEAN
  BY Zenon
<1>2. if_ready \in [{1, 2} -> BOOLEAN] /\ sending \in [{1, 2} -> BOOLEAN]
      /\ intact \in [{1, 2} -> BOOLEAN]
  OBVIOUS
<1>3. /\ par_tx_items \in [{1, 2} -> {0, PacketSize}]
      /\ par_tx_index \in [{1, 2} -> 0..PacketSize] /\ driven \in [{1, 2} -> 0..PacketSize]
      /\ par_rx_items \in [{1, 2} -> 0..ParBufSize] /\ par_rx_index \in [{1, 2} -> 0..ParBufSize]
  BY LinkConstants DEF P!None
<1>4. Modes /\ Quiet
  BY DEF Modes, Quiet, P!None
<1> QED BY <1>1, <1>2, <1>3, <1>4, LinkTypes DEF ParallelInv, InTurn

\* The history of what came too early, and of a change of RDY, of board b with o the other.
LEMMA RdyChanges ==
  ASSUME P!TypeOK, NEW b \in {1, 2}, NEW o \in {1, 2}, o # b,
         NEW drives \in BOOLEAN, P!ChangeRdy(b, drives)
  PROVE  /\ if_ready' \in [{1, 2} -> BOOLEAN] /\ upset' \in BOOLEAN
         /\ if_ready'[b] = FALSE /\ if_ready'[o] = TRUE
         /\ upset' = (upset \/ if_ready[o] \/ (drives /\ driven[o] # PacketSize))
<1>1. P!Other(b) = o
  BY DEF P!Other
<1>2. if_ready' = [if_ready EXCEPT ![b] = FALSE, ![o] = TRUE]
      /\ upset' = (upset \/ if_ready[o] \/ (drives /\ driven[o] # PacketSize))
  BY <1>1 DEF P!ChangeRdy, P!None
<1>3. if_ready \in [{1, 2} -> BOOLEAN]
  BY LinkTypes
<1>4. upset' \in BOOLEAN
  BY <1>2, Zenon
<1> QED BY <1>2, <1>3, <1>4

\* Board b puts its next byte on the lines.
LEMMA WritesByte ==
  ASSUME P!TypeOK, NEW b \in {1, 2}, NEW o \in {1, 2}, o # b, par_tx_index[b] < PacketSize,
         P!WriteByte(b)
  PROVE  /\ driven' \in [{1, 2} -> 0..PacketSize] /\ par_tx_index' \in [{1, 2} -> 0..PacketSize]
         /\ if_ready' \in [{1, 2} -> BOOLEAN] /\ upset' \in BOOLEAN
         /\ driven'[b] = par_tx_index[b] /\ driven'[o] = driven[o]
         /\ par_tx_index'[b] = par_tx_index[b] + 1 /\ par_tx_index'[o] = par_tx_index[o]
         /\ ~if_ready'[b] /\ if_ready'[o] = TRUE
         /\ upset' = (upset \/ if_ready[o] \/ driven[o] # PacketSize)
<1>1. driven \in [{1, 2} -> 0..PacketSize] /\ par_tx_index \in [{1, 2} -> 0..PacketSize]
  BY LinkTypes
<1>2. driven' = [driven EXCEPT ![b] = par_tx_index[b]]
      /\ par_tx_index' = [par_tx_index EXCEPT ![b] = par_tx_index[b] + 1]
  BY DEF P!WriteByte
<1>3. P!ChangeRdy(b, TRUE)
  BY DEF P!WriteByte
<1>4. /\ if_ready' \in [{1, 2} -> BOOLEAN] /\ upset' \in BOOLEAN
      /\ if_ready'[b] = FALSE /\ if_ready'[o] = TRUE
      /\ upset' = (upset \/ if_ready[o] \/ (TRUE /\ driven[o] # PacketSize))
  BY <1>3, RdyChanges
<1> QED BY <1>1, <1>2, <1>4, LinkConstants

\* parallel_is_new_data, when a packet is to be begun.
LEMMA ParallelBeginStep ==
  ASSUME ParallelInv, NEW b \in {1, 2}, NEW o \in {1, 2}, o # b, P!BeginSending(b)
  PROVE  ParallelInv'
<1>0. P!TypeOK /\ Modes /\ (~upset => InTurn)
  BY DEF ParallelInv
<1>1. /\ ~if_ready[b] /\ ~sending[b] /\ par_tx_items[b] > 0 /\ P!WriteByte(b)
      /\ sending' = [sending EXCEPT ![b] = TRUE]
      /\ UNCHANGED <<par_tx_items, par_rx_items, par_rx_index, intact, flag_new_request, waiting>>
  BY DEF P!BeginSending, P!rxVars
<1>2. par_tx_index[b] = 0 /\ 0 < PacketSize /\ par_tx_items[b] = PacketSize
  BY <1>0, <1>1, LinkConstants, LinkTypes DEF Modes
<1>3. /\ driven' \in [{1, 2} -> 0..PacketSize] /\ par_tx_index' \in [{1, 2} -> 0..PacketSize]
      /\ if_ready' \in [{1, 2} -> BOOLEAN] /\ upset' \in BOOLEAN
      /\ driven'[b] = 0 /\ driven'[o] = driven[o]
      /\ par_tx_index'[b] = 1 /\ par_tx_index'[o] = par_tx_index[o]
      /\ ~if_ready'[b] /\ if_ready'[o] = TRUE
      /\ upset' = (upset \/ if_ready[o] \/ driven[o] # PacketSize)
  <2>1. par_tx_index[b] < PacketSize /\ P!TypeOK /\ P!WriteByte(b)
    BY <1>0, <1>1, <1>2
  <2>2. /\ driven' \in [{1, 2} -> 0..PacketSize] /\ par_tx_index' \in [{1, 2} -> 0..PacketSize]
        /\ if_ready' \in [{1, 2} -> BOOLEAN] /\ upset' \in BOOLEAN
        /\ driven'[b] = par_tx_index[b] /\ par_tx_index'[b] = par_tx_index[b] + 1
        /\ driven'[o] = driven[o] /\ par_tx_index'[o] = par_tx_index[o]
        /\ ~if_ready'[b] /\ if_ready'[o] = TRUE
        /\ upset' = (upset \/ if_ready[o] \/ driven[o] # PacketSize)
    BY <2>1, WritesByte
  <2> QED BY <1>2, <2>2
<1>4. sending' \in [{1, 2} -> BOOLEAN] /\ sending'[b] = TRUE /\ sending'[o] = sending[o]
  BY <1>0, <1>1, LinkTypes
<1>5. P!TypeOK'
  BY <1>0, <1>1, <1>3, <1>4, LinkTypes, LinkTypesNext
<1>6. Modes'
  BY <1>0, <1>1, <1>2, <1>3, <1>4 DEF Modes
<1>7. ASSUME ~upset' PROVE InTurn'
  <2>1. ~upset
    BY <1>3, <1>7
  <2>2. Quiet
    BY <1>0, <1>1, <1>3, <1>7, <2>1, LinkTypes, LinkConstants DEF InTurn, Sends
  <2>3. Sends(b, o)'
    BY <1>1, <1>3, <1>4, <2>2 DEF Quiet, Sends, Expected
  <2> QED BY <2>3 DEF InTurn
<1> QED BY <1>5, <1>6, <1>7, Zenon DEF ParallelInv

\* do_send_data
LEMMA ParallelSendStep ==
  ASSUME ParallelInv, NEW b \in {1, 2}, NEW o \in {1, 2}, o # b, P!DoSendData(b)
  PROVE  ParallelInv'
<1>0. P!TypeOK /\ Modes /\ (~upset => InTurn)
  BY DEF ParallelInv
<1>1. /\ if_ready[b] /\ sending[b]
      /\ UNCHANGED <<par_rx_items, par_rx_index, intact, flag_new_request, waiting>>
  BY DEF P!DoSendData, P!rxVars
<1>2. par_tx_items[b] = PacketSize /\ par_tx_index[b] \in 0..PacketSize
  BY <1>0, <1>1, LinkTypes DEF Modes
<1>3. ASSUME ~upset PROVE Sends(b, o) /\ ~if_ready[o]
  BY <1>0, <1>1, <1>3 DEF InTurn, Quiet, Sends
<1>4. CASE par_tx_index[b] = par_tx_items[b]
  <2>1. /\ par_tx_items' = [par_tx_items EXCEPT ![b] = 0]
        /\ par_tx_index' = [par_tx_index EXCEPT ![b] = 0]
        /\ sending' = [sending EXCEPT ![b] = FALSE]
        /\ driven' = [driven EXCEPT ![b] = PacketSize]
        /\ if_ready' = [if_ready EXCEPT ![b] = FALSE] /\ UNCHANGED upset
    BY <1>4 DEF P!DoSendData, P!EndSending, P!None
  <2>2. P!TypeOK'
    BY <1>0, <1>1, <2>1, LinkConstants, LinkTypes, LinkTypesNext
  <2>3. Modes'
    BY <1>0, <2>1, LinkTypes DEF Modes
  <2>4. ASSUME ~upset' PROVE InTurn'
    <3>1. Sends(b, o) /\ ~if_ready[o]
      BY <1>3, <2>1, <2>4
    <3>2. Quiet'
      BY <1>0, <1>1, <1>2, <1>4, <2>1, <3>1, LinkTypes, LinkConstants DEF Sends, Quiet, Expected
    <3> QED BY <3>2 DEF InTurn
  <2> QED BY <2>2, <2>3, <2>4, Zenon DEF ParallelInv
<1>5. CASE par_tx_index[b] # par_tx_items[b]
  <2>1. P!WriteByte(b) /\ UNCHANGED <<sending, par_tx_items>>
    BY <1>5 DEF P!DoSendData
  <2>2. par_tx_index[b] < PacketSize
    BY <1>2, <1>5, LinkConstants
  <2>3. /\ driven' \in [{1, 2} -> 0..PacketSize] /\ par_tx_index' \in [{1, 2} -> 0..PacketSize]
        /\ if_ready' \in [{1, 2} -> BOOLEAN] /\ upset' \in BOOLEAN
        /\ driven'[b] = par_tx_index[b] /\ par_tx_index'[b] = par_tx_index[b] + 1
        /\ driven'[o] = driven[o] /\ par_tx_index'[o] = par_tx_index[o]
        /\ ~if_ready'[b] /\ if_ready'[o] = TRUE
        /\ upset' = (upset \/ if_ready[o] \/ driven[o] # PacketSize)
    BY <1>0, <2>1, <2>2, WritesByte
  <2>4. P!TypeOK'
    BY <1>0, <1>1, <2>1, <2>3, LinkTypes, LinkTypesNext
  <2>5. Modes'
    BY <1>0, <1>1, <2>1, <2>3 DEF Modes
  <2>6. ASSUME ~upset' PROVE InTurn'
    <3>1. Sends(b, o) /\ ~if_ready[o]
      BY <1>3, <2>3, <2>6
    <3>2. Sends(b, o)'
      BY <1>1, <1>2, <2>1, <2>2, <2>3, <3>1 DEF Sends, Expected
    <3> QED BY <3>2 DEF InTurn
  <2> QED BY <2>4, <2>5, <2>6, Zenon DEF ParallelInv
<1> QED BY <1>4, <1>5

\* do_recv_data and what comes of a packet.
LEMMA ParallelReceiverStep ==
  ASSUME ParallelInv, NEW b \in {1, 2}, NEW o \in {1, 2}, o # b, P!DoRecvData(b)
  PROVE  ParallelInv'
<1> DEFINE awaited(byte, total) == P!Awaited(par_rx_index[b], byte, par_rx_items[b], total)
           next(byte, total) == P!NextIndex(par_rx_index[b], byte, total, awaited(byte, total))
           whole(byte, total) == awaited(byte, total) > 0 /\ next(byte, total) = awaited(byte, total)
<1>0. P!TypeOK /\ Modes /\ (~upset => InTurn)
  BY DEF ParallelInv
<1>1. PICK byte \in P!BytesRead(b) : \E total \in P!Totals(byte, par_rx_items[b]) :
        /\ par_rx_items' = [par_rx_items EXCEPT
                              ![b] = IF whole(byte, total) THEN 0 ELSE awaited(byte, total)]
        /\ par_rx_index' = [par_rx_index EXCEPT
                              ![b] = IF whole(byte, total) THEN 0 ELSE next(byte, total)]
  BY Zenon DEF P!DoRecvData
<1>2. PICK total \in P!Totals(byte, par_rx_items[b]) :
        /\ par_rx_items' = [par_rx_items EXCEPT
                              ![b] = IF whole(byte, total) THEN 0 ELSE awaited(byte, total)]
        /\ par_rx_index' = [par_rx_index EXCEPT
                              ![b] = IF whole(byte, total) THEN 0 ELSE next(byte, total)]
  BY <1>1
<1>3. /\ if_ready[b] /\ ~sending[b] /\ par_rx_index[b] < ParBufSize /\ P!ChangeRdy(b, FALSE)
      /\ UNCHANGED <<sending, par_tx_index, driven>>
  BY DEF P!DoRecvData
<1>4. /\ if_ready' \in [{1, 2} -> BOOLEAN] /\ upset' \in BOOLEAN
      /\ if_ready'[b] = FALSE /\ if_ready'[o] = TRUE /\ upset' = (upset \/ if_ready[o])
  BY <1>0, <1>3, RdyChanges
<1>5. /\ par_tx_items' \in [{1, 2} -> {0, PacketSize}]
      /\ \A c \in {1, 2} : par_tx_items[c] = PacketSize => par_tx_items'[c] = PacketSize
  <2>1. UNCHANGED par_tx_items \/ P!QueuePacket(2)
    BY DEF P!DoRecvData, P!Process, P!ProcessSensorData
  <2> QED BY <1>0, <2>1, LinkTypes DEF P!QueuePacket
<1>6. flag_new_request' \in BOOLEAN /\ waiting' \in BOOLEAN
  BY <1>0, LinkTypes, Zenon DEF P!DoRecvData, P!Process, P!ProcessSensorData
<1>7. intact' \in [{1, 2} -> BOOLEAN]
  <2>1. PICK inOrder, more : intact' = [intact EXCEPT ![b] = inOrder /\ more]
    BY Zenon DEF P!DoRecvData
  <2>2. (inOrder /\ more) \in BOOLEAN
    BY Zenon
  <2> QED BY <1>0, <2>1, <2>2, LinkTypes, Zenon
<1>8. /\ par_rx_items \in [{1, 2} -> 0..ParBufSize] /\ par_rx_index \in [{1, 2} -> 0..ParBufSize]
      /\ par_rx_index[b] \in 0..(ParBufSize - 1) /\ par_rx_items[b] \in 0..ParBufSize
  BY <1>0, <1>3, LinkTypes, LinkConstants
<1>9. byte \in 0..PacketSize
  <2>1. driven[o] \in 0..PacketSize /\ P!Other(b) = o
    BY <1>0, LinkTypes DEF P!Other
  <2> QED BY <1>1, <2>1, LinkConstants DEF P!BytesRead
<1>10. awaited(byte, total) \in 0..ParBufSize /\ next(byte, total) \in 0..ParBufSize
  BY <1>2, <1>8, <1>9, ReceiverTypes
<1>11. /\ par_rx_items' \in [{1, 2} -> 0..ParBufSize] /\ par_rx_index' \in [{1, 2} -> 0..ParBufSize]
       /\ par_rx_items'[o] = par_rx_items[o] /\ par_rx_index'[o] = par_rx_index[o]
       /\ par_rx_items'[b] = IF whole(byte, total) THEN 0 ELSE awaited(byte, total)
       /\ par_rx_index'[b] = IF whole(byte, total) THEN 0 ELSE next(byte, total)
  <2> HIDE DEF awaited, next, whole
  <2>1. 0 \in 0..ParBufSize
    BY LinkConstants
  <2> QED BY <1>2, <1>8, <1>10, <2>1
<1>12. P!TypeOK'
  BY <1>0, <1>3, <1>4, <1>5, <1>6, <1>7, <1>11, LinkTypes, LinkTypesNext
<1>13. Modes'
  BY <1>0, <1>3, <1>5 DEF Modes
<1>14. ASSUME ~upset' PROVE InTurn'
  <2>1. Sends(o, b) /\ ~if_ready[o]
    BY <1>0, <1>3, <1>4, <1>14 DEF InTurn, Quiet, Sends
  <2>2. /\ par_tx_index[o] \in 1..PacketSize /\ driven[o] = par_tx_index[o] - 1
        /\ par_rx_index[b] = driven[o] /\ driven[o] # PacketSize
        /\ par_rx_items[b] = Expected(par_rx_index[b])
    BY <1>0, <1>3, <2>1, LinkTypes, LinkConstants DEF Sends
  <2>3. byte = par_rx_index[b] /\ par_rx_index[b] \in 0..(PacketSize - 1)
    <3>1. P!Other(b) = o
      BY DEF P!Other
    <3> QED BY <1>1, <2>2, <3>1, LinkConstants DEF P!BytesRead, P!None
  <2>4. total \in P!Totals(par_rx_index[b], Expected(par_rx_index[b]))
    BY <1>2, <2>2, <2>3
  <2>5. /\ awaited(byte, total) = Expected(par_tx_index[o])
        /\ next(byte, total) = par_tx_index[o]
    <3>1. par_rx_index[b] + 1 = par_tx_index[o]
      BY <2>2
    <3>2. /\ P!Awaited(par_rx_index[b], par_rx_index[b], Expected(par_rx_index[b]), total)
               = Expected(par_rx_index[b] + 1)
          /\ P!NextIndex(par_rx_index[b], par_rx_index[b], total, Expected(par_rx_index[b] + 1))
               = par_rx_index[b] + 1
      BY <2>3, <2>4, ReceiverInTurn
    <3> QED BY <2>2, <2>3, <3>1, <3>2
  <2>6. whole(byte, total) <=> par_tx_index[o] = PacketSize
    <3> HIDE DEF awaited, next
    <3> QED BY <2>2, <2>5, LinkConstants DEF Expected
  <2>7. /\ par_rx_index'[b] = IF par_tx_index[o] = PacketSize THEN 0 ELSE par_tx_index[o]
        /\ par_rx_items'[b] = Expected(par_rx_index'[b])
    <3> HIDE DEF awaited, next, whole
    <3> QED BY <1>11, <2>2, <2>5, <2>6, LinkConstants DEF Expected
  <2>8. Sends(o, b)'
    BY <1>3, <1>4, <1>11, <2>1, <2>7 DEF Sends, Expected
  <2> QED BY <2>8 DEF InTurn
<1> HIDE DEF awaited, next, whole
<1> QED BY <1>12, <1>13, <1>14, Zenon DEF ParallelInv

\* A request: board 2 has begun its last answer, or has none, or they are out of turn.
LEMMA ParallelRequestStep ==
  ASSUME ParallelInv, P!Request
  PROVE  ParallelInv'
<1>0. P!TypeOK /\ Modes /\ (~upset => InTurn)
  BY DEF ParallelInv
<1>1. /\ par_tx_items[1] = 0
      /\ par_tx_items' = [par_tx_items EXCEPT ![1] = PacketSize] /\ waiting' = TRUE
      /\ upset' = (upset \/ (par_tx_items[2] > 0 /\ ~sending[2]))
      /\ UNCHANGED <<if_ready, sending, par_tx_index, driven, par_rx_items, par_rx_index, intact,
                     flag_new_request>>
  BY DEF P!Request, P!QueuePacket, P!rxVars
<1>2. /\ par_tx_items' \in [{1, 2} -> {0, PacketSize}] /\ par_tx_items'[1] = PacketSize
      /\ par_tx_items'[2] = par_tx_items[2] /\ par_tx_items[2] \in {0, PacketSize}
  BY <1>0, <1>1, LinkTypes
<1>3. upset' \in BOOLEAN
  BY <1>1, Zenon
<1>4. P!TypeOK'
  BY <1>0, <1>1, <1>2, <1>3, LinkTypes, LinkTypesNext
<1>5. Modes'
  BY <1>0, <1>1, <1>2, LinkConstants DEF Modes
<1>6. ASSUME ~upset' PROVE InTurn'
  <2>1. ~sending[1] /\ ~upset /\ ~(par_tx_items[2] > 0 /\ ~sending[2])
    <3>1. ~upset /\ ~(par_tx_items[2] > 0 /\ ~sending[2])
      BY <1>1, <1>6, Zenon
    <3> QED BY <1>0, <1>1, <3>1, LinkConstants DEF Modes
  <2>2. CASE Quiet
    <3>1. par_tx_items[2] = 0
      BY <1>2, <2>1, <2>2, LinkConstants DEF Quiet
    <3> QED BY <1>0, <1>1, <1>2, <2>2, <3>1 DEF Quiet, InTurn
  <2>3. CASE Sends(2, 1)
    BY <1>1, <2>3 DEF Sends, InTurn, Expected
  <2> QED BY <1>0, <2>1, <2>2, <2>3 DEF InTurn, Sends
<1> QED BY <1>4, <1>5, <1>6, Zenon DEF ParallelInv

\* check_receive_delay: a reset that finds nothing under way changes nothing.
LEMMA ParallelDelayStep ==
  ASSUME ParallelInv, P!CheckReceiveDelay
  PROVE  ParallelInv'
<1>0. P!TypeOK /\ Modes /\ (~upset => InTurn)
  BY DEF ParallelInv
<1>1. flag_new_request' = FALSE /\ UNCHANGED waiting
  BY DEF P!CheckReceiveDelay
<1>2. CASE flag_new_request
  <2>1. UNCHANGED <<if_ready, sending, par_tx_items, par_tx_index, driven, par_rx_items,
                    par_rx_index, intact, upset>>
    BY <1>2 DEF P!CheckReceiveDelay, P!txVars, P!rxVars
  <2>2. P!TypeOK'
    BY <1>0, <1>1, <2>1, LinkTypes, LinkTypesNext
  <2> QED BY <1>0, <1>1, <2>1, <2>2 DEF ParallelInv, Modes, InTurn, Quiet, Sends, Expected
<1>3. CASE ~flag_new_request
  <2>1. /\ if_ready' = [if_ready EXCEPT ![2] = FALSE] /\ sending' = [sending EXCEPT ![2] = FALSE]
        /\ par_tx_items' = [par_tx_items EXCEPT ![2] = 0]
        /\ par_tx_index' = [par_tx_index EXCEPT ![2] = 0]
        /\ driven' = [driven EXCEPT ![2] = PacketSize]
        /\ par_rx_items' = [par_rx_items EXCEPT ![2] = 0]
        /\ par_rx_index' = [par_rx_index EXCEPT ![2] = 0]
        /\ intact' = [intact EXCEPT ![2] = FALSE]
        /\ upset' = (upset \/ if_ready[2] \/ par_tx_items[2] > 0 \/ par_rx_index[2] > 0)
    BY <1>3 DEF P!CheckReceiveDelay, P!ParallelReset, P!None
  <2>2. upset' \in BOOLEAN
    BY <2>1, Zenon
  <2>3. P!TypeOK'
    <3>1. /\ if_ready' \in [{1, 2} -> BOOLEAN] /\ sending' \in [{1, 2} -> BOOLEAN]
          /\ intact' \in [{1, 2} -> BOOLEAN]
      BY <1>0, <2>1, LinkTypes
    <3>2. /\ par_tx_items' \in [{1, 2} -> {0, PacketSize}]
          /\ par_tx_index' \in [{1, 2} -> 0..PacketSize]
          /\ driven' \in [{1, 2} -> 0..PacketSize]
      BY <1>0, <2>1, LinkConstants, LinkTypes
    <3>3. /\ par_rx_items' \in [{1, 2} -> 0..ParBufSize]
          /\ par_rx_index' \in [{1, 2} -> 0..ParBufSize]
      BY <1>0, <2>1, LinkConstants, LinkTypes
    <3>4. flag_new_request' \in BOOLEAN
      BY <1>1, Zenon
    <3> QED BY <1>0, <1>1, <2>2, <3>1, <3>2, <3>3, <3>4, LinkTypes, LinkTypesNext
  <2>4. Modes'
    BY <1>0, <2>1, LinkTypes DEF Modes
  <2>5. ASSUME ~upset' PROVE InTurn'
    <3>1. ~upset /\ ~if_ready[2] /\ par_tx_items[2] = 0 /\ par_rx_index[2] = 0
      <4>1. ~upset /\ ~if_ready[2] /\ ~(par_tx_items[2] > 0) /\ ~(par_rx_index[2] > 0)
        BY <2>1, <2>5, Zenon
      <4> QED BY <1>0, <4>1, LinkTypes, LinkConstants
    <3>2. ~sending[2] /\ (Quiet \/ Sends(1, 2))
      BY <1>0, <3>1, LinkConstants DEF Modes, InTurn, Sends
    <3>3. par_tx_index[2] = 0 /\ driven[2] = PacketSize /\ par_rx_items[2] = 0
      BY <1>0, <3>1, <3>2 DEF Modes, Quiet, Sends, Expected
    <3>4. UNCHANGED <<if_ready, sending, par_tx_items, par_tx_index, driven, par_rx_items,
                      par_rx_index>>
      BY <1>0, <2>1, <3>1, <3>2, <3>3, LinkTypes
    <3> QED BY <3>2, <3>4 DEF InTurn, Quiet, Sends, Expected
  <2> QED BY <2>3, <2>4, <2>5, Zenon DEF ParallelInv
<1> QED BY <1>2, <1>3

LEMMA ParallelStep == ASSUME ParallelInv, P!Next \/ UNCHANGED P!vars PROVE ParallelInv'
<1>1. CASE \E b \in {1, 2} : P!Board(b)
  <2>1. PICK b \in {1, 2} : P!Board(b)
    BY <1>1
  <2>2. 3 - b \in {1, 2} /\ 3 - b # b
    OBVIOUS
  <2> QED BY <2>1, <2>2, ParallelBeginStep, ParallelSendStep, ParallelReceiverStep DEF P!Board
<1>2. CASE UNCHANGED P!vars
  <2>1. UNCHANGED <<if_ready, sending, par_tx_items, par_tx_index, driven, par_rx_items,
                    par_rx_index, intact, flag_new_request, waiting, upset>>
    BY <1>2 DEF P!txVars, P!rxVars, P!history, P!vars
  <2>2. P!TypeOK'
    BY <2>1, LinkTypes, LinkTypesNext DEF ParallelInv
  <2> QED BY <2>1, <2>2 DEF ParallelInv, Modes, InTurn, Quiet, Sends, Expected
<1> QED BY <1>1, <1>2, ParallelRequestStep, ParallelDelayStep DEF P!Next, P!Boards

LEMMA ParallelPromise == ParallelInv => P!TypeOK /\ P!BytesInOrder
<1>1. ASSUME P!TypeOK, ~upset, InTurn, NEW b \in {1, 2}, if_ready[b], ~sending[b]
      PROVE  driven[P!Other(b)] = par_rx_index[b]
  <2>1. CASE b = 1
    BY <1>1, <2>1, LinkConstants, LinkTypes DEF InTurn, Quiet, Sends, P!Other
  <2>2. CASE b = 2
    BY <1>1, <2>2, LinkConstants, LinkTypes DEF InTurn, Quiet, Sends, P!Other
  <2> QED BY <2>1, <2>2
<1> QED BY <1>1, Zenon DEF ParallelInv, P!BytesInOrder, P!Boards

-----------------------------------------------------------------------------
(***************************************************************************)
(* Bmu09a.  A sensor that is on waits for the conversion of the chip that  *)
(* the next byte is from, or fetches that byte, which is in one place only. *)
(***************************************************************************)
LEMMA BmuConstants ==
  /\ MapsSize \in Nat /\ MapsSize > 0 /\ TempSize \in Nat /\ TempSize > 0
  /\ BattSize \in Nat /\ BattSize > 0
  /\ B!Total = MapsSize + TempSize + BattSize
BY DriversConstantsOK DEF B!BmuConstantsOK, B!Total

\* The converter that byte i is read from.
ChipOf(i) == IF i < MapsSize THEN "maps" ELSE IF i < MapsSize + TempSize THEN "temp" ELSE "batt"

Awaiting ==
  /\ poll_eoc = ChipOf(bmu_rx_index) /\ spdr = << >> /\ ~spif /\ ~bmu_spi_if
  /\ bmu_rx_index \in {0, MapsSize, MapsSize + TempSize}
  /\ cs = IF poll_eoc = "maps" THEN {} ELSE {poll_eoc}
Transferring ==
  /\ poll_eoc = "none" /\ cs = {ChipOf(bmu_rx_index)}
  /\ \/ spdr = <<cs>> /\ ~spif /\ ~bmu_spi_if
     \/ spdr = << >> /\ spif /\ arrived = cs /\ ~bmu_spi_if
     \/ spdr = << >> /\ ~spif /\ bmu_spi_if /\ bmu_spi_rx = cs

Chain ==
  /\ bmu_sample = B!Expected
  /\ spie = bmu_enabled
  /\ bmu_enabled => Awaiting \/ Transferring
  /\ ~bmu_enabled => cs = {} /\ poll_eoc = "none" /\ ~bmu_spi_if /\ bmu_rx_index = 0
  /\ \A i \in 0..(B!Total - 1) : i < bmu_rx_index => bmu_rx_buf[i] = {ChipOf(i)}
BmuInv == B!TypeOK /\ (tainted \/ Chain)

\* The types of the two halves of the state: what is a choice, and what is a buffer.
BmuFlagTypes ==
  /\ bmu_at \in {"enable", "poll", "byte"} /\ bmu_enabled \in BOOLEAN
  /\ spie \in BOOLEAN /\ spif \in BOOLEAN /\ bmu_spi_if \in BOOLEAN
  /\ fresh \in BOOLEAN /\ tainted \in BOOLEAN
BmuBufferTypes ==
  /\ spdr \in {<< >>} \cup { <<c>> : c \in SUBSET B!Chips }
  /\ arrived \subseteq B!Chips /\ cs \subseteq B!Chips /\ poll_eoc \in B!Chips \cup {"none"}
  /\ bmu_spi_rx \subseteq B!Chips
  /\ bmu_rx_buf \in [0..(B!Total - 1) -> SUBSET B!Chips] /\ bmu_rx_index \in 0..(B!Total - 1)
  /\ bmu_sample \in [0..(B!Total - 1) -> SUBSET B!Chips]

LEMMA BmuTypes == B!TypeOK <=> BmuFlagTypes /\ BmuBufferTypes
BY Zenon DEF B!TypeOK, BmuFlagTypes, BmuBufferTypes

LEMMA BmuTypesNext == B!TypeOK' <=> BmuFlagTypes' /\ BmuBufferTypes'
BY Zenon DEF B!TypeOK, BmuFlagTypes, BmuBufferTypes, B!Chips, B!Total

LEMMA ChipIsOne == \A i \in Int : ChipOf(i) \in B!Chips /\ ChipOf(i) # "none"
BY DEF ChipOf, B!Chips

LEMMA ExpectedIs ==
  /\ B!Expected \in [0..(B!Total - 1) -> SUBSET B!Chips]
  /\ \A i \in 0..(B!Total - 1) : B!Expected[i] = {ChipOf(i)}
BY BmuConstants DEF B!Expected, ChipOf, B!Chips

LEMMA BmuInit == B!Init => BmuInv
<1> SUFFICES ASSUME B!Init PROVE BmuInv
  OBVIOUS
<1> USE DEF B!Init
<1>1. BmuFlagTypes /\ ~bmu_enabled /\ ~bmu_spi_if /\ spie = bmu_enabled
  BY Zenon DEF BmuFlagTypes
<1>2. BmuBufferTypes
  <2>1. bmu_rx_buf \in [0..(B!Total - 1) -> SUBSET B!Chips] /\ bmu_rx_index \in 0..(B!Total - 1)
    BY BmuConstants
  <2> QED BY <2>1, ExpectedIs DEF BmuBufferTypes
<1>3. Chain
  BY <1>1, BmuConstants DEF Chain
<1> QED BY <1>1, <1>2, <1>3, BmuTypes DEF BmuInv

\* Every step: the flags, and that a tainted run stays so.
LEMMA BmuFlagStep ==
  ASSUME BmuFlagTypes, B!Next
  PROVE  BmuFlagTypes' /\ (tainted => tainted')
<1> USE DEF BmuFlagTypes, B!spiVars
<1>1. bmu_at' \in {"enable", "poll", "byte"}
  BY Zenon DEF B!Next, B!Loop, B!EnableSensors, B!LeaveSensors, B!PollConversion,
       B!NotConverted, B!TakeByte, B!TransferEnds, B!SpiInterrupt
<1>2. CASE B!EnableSensors
  BY <1>1, <1>2, Zenon DEF B!EnableSensors, B!BmuStart, B!BmuStop
<1>3. CASE B!TakeByte
  <2>1. fresh' \in BOOLEAN /\ bmu_spi_if' \in BOOLEAN
    BY <1>3, Zenon DEF B!TakeByte, B!AfterByte
  <2> QED BY <1>1, <1>3, <2>1, Zenon DEF B!TakeByte
<1>4. CASE B!LeaveSensors \/ B!PollConversion \/ B!NotConverted \/ B!TransferEnds \/ B!SpiInterrupt
  BY <1>1, <1>4, Zenon DEF B!LeaveSensors, B!PollConversion, B!NotConverted, B!TransferEnds,
       B!SpiInterrupt, B!Convert
<1> QED BY <1>2, <1>3, <1>4 DEF B!Next, B!Loop

\* enable_sensors: a start that finds no transfer pending begins the chain anew.
LEMMA BmuEnableStep ==
  ASSUME BmuInv, B!EnableSensors
  PROVE  BmuInv'
<1> USE DEF B!EnableSensors
<1>0. BmuFlagTypes /\ BmuBufferTypes /\ (tainted \/ Chain)
  BY BmuTypes DEF BmuInv
<1>1. BmuFlagTypes' /\ (tainted => tainted')
  BY <1>0, BmuFlagStep DEF B!Next
<1>2. BmuBufferTypes'
  BY <1>0, BmuConstants DEF BmuBufferTypes, B!BmuStart, B!BmuStop, B!Chips, B!Total
<1>3. ASSUME ~tainted' PROVE Chain'
  <2>1. Chain /\ UNCHANGED <<bmu_rx_buf, bmu_sample>>
    BY <1>0, <1>1, <1>3
  <2>2. CASE B!BmuStart
    <3>1. ~spif /\ spdr = << >>
      BY <1>3, <2>2, Zenon DEF B!BmuStart
    <3>2. bmu_enabled' /\ bmu_enabled' = TRUE /\ spie' = TRUE
      BY <2>2, Zenon DEF B!BmuStart
    <3>3. /\ ~bmu_enabled /\ poll_eoc' = "maps" /\ ~spif' /\ spdr' = << >> /\ ~bmu_spi_if'
          /\ cs' = {} /\ bmu_rx_index' = 0
      BY <2>1, <2>2, <3>1 DEF B!BmuStart, Chain
    <3>4. ChipOf(0) = "maps"
      BY BmuConstants DEF ChipOf
    <3>5. Awaiting'
      BY <3>3, <3>4 DEF Awaiting, ChipOf
    <3> QED BY <2>1, <3>2, <3>3, <3>5 DEF Chain, B!Total, B!Expected, ChipOf
  <2>3. CASE B!BmuStop
    <3>1. ~bmu_enabled' /\ spie' = bmu_enabled' /\ ~bmu_spi_if'
      BY <2>3, Zenon DEF B!BmuStop
    <3>2. cs' = {} /\ poll_eoc' = "none" /\ bmu_rx_index' = 0
      BY <2>3 DEF B!BmuStop
    <3> QED BY <2>1, <3>1, <3>2 DEF Chain, B!Total, B!Expected, ChipOf
  <2> QED BY <2>2, <2>3
<1> QED BY <1>1, <1>2, <1>3, BmuTypesNext DEF BmuInv

\* The hardware and the interrupt handler pass the byte on.
LEMMA BmuTransferStep ==
  ASSUME BmuInv, B!TransferEnds \/ B!SpiInterrupt
  PROVE  BmuInv'
<1>0. BmuFlagTypes /\ BmuBufferTypes /\ (tainted \/ Chain)
  BY BmuTypes DEF BmuInv
<1>1. BmuFlagTypes' /\ (tainted => tainted')
  BY <1>0, BmuFlagStep DEF B!Next
<1>2. BmuBufferTypes'
  <2>1. CASE B!TransferEnds
    <3>1. PICK c \in SUBSET B!Chips : spdr = <<c>>
      BY <1>0, <2>1 DEF BmuBufferTypes, B!TransferEnds
    <3>2. arrived' = c /\ spdr' = << >>
      BY <2>1, <3>1 DEF B!TransferEnds
    <3> QED BY <1>0, <2>1, <3>2 DEF BmuBufferTypes, B!TransferEnds, B!Chips, B!Total
  <2>2. CASE B!SpiInterrupt
    BY <1>0, <2>2 DEF BmuBufferTypes, B!SpiInterrupt, B!Chips, B!Total
  <2> QED BY <2>1, <2>2
<1>3. ASSUME ~tainted' PROVE Chain'
  <2>1. Chain /\ UNCHANGED <<bmu_rx_buf, bmu_sample, bmu_enabled, spie, cs, poll_eoc, bmu_rx_index>>
    BY <1>0, <1>1, <1>3 DEF B!TransferEnds, B!SpiInterrupt
  <2>2. (bmu_enabled => Transferring') /\ (~bmu_enabled => ~bmu_spi_if')
    <3>1. CASE B!TransferEnds
      <4>1. spdr # << >> /\ spdr' = << >> /\ arrived' = spdr[1] /\ UNCHANGED bmu_spi_if
        BY <3>1 DEF B!TransferEnds
      <4>2. spif'
        BY <3>1, Zenon DEF B!TransferEnds
      <4>3. bmu_enabled => Transferring /\ spdr = <<cs>> /\ ~bmu_spi_if
        BY <2>1, <4>1 DEF Chain, Awaiting, Transferring
      <4> QED BY <2>1, <4>1, <4>2, <4>3 DEF Chain, Transferring, ChipOf
    <3>2. CASE B!SpiInterrupt
      <4>1. spie /\ spif /\ bmu_spi_rx' = arrived /\ UNCHANGED spdr
        BY <3>2 DEF B!SpiInterrupt
      <4>2. ~spif' /\ bmu_spi_if'
        BY <3>2, Zenon DEF B!SpiInterrupt
      <4>3. bmu_enabled
        BY <2>1, <4>1 DEF Chain
      <4>4. Transferring /\ spdr = << >> /\ arrived = cs
        BY <2>1, <4>1, <4>3 DEF Chain, Awaiting, Transferring
      <4> QED BY <2>1, <4>1, <4>2, <4>3, <4>4 DEF Transferring, ChipOf
    <3> QED BY <3>1, <3>2
  <2> QED BY <2>1, <2>2 DEF Chain, B!Total, B!Expected, ChipOf
<1> QED BY <1>1, <1>2, <1>3, BmuTypesNext DEF BmuInv

\* The main loop does not look at the sensor, or finds no conversion ended.
LEMMA BmuPassStep ==
  ASSUME BmuInv, B!LeaveSensors \/ B!NotConverted \/ UNCHANGED B!vars
  PROVE  BmuInv'
<1>0. BmuFlagTypes /\ BmuBufferTypes /\ (tainted \/ Chain)
  BY BmuTypes DEF BmuInv
<1>1. UNCHANGED <<bmu_enabled, spie, spif, spdr, arrived, bmu_spi_rx, bmu_spi_if, cs, poll_eoc,
                  bmu_rx_buf, bmu_rx_index, bmu_sample, fresh, tainted>>
  BY DEF B!LeaveSensors, B!NotConverted, B!vars, B!spiVars
<1>2. bmu_at' \in {"enable", "poll", "byte"}
  BY <1>0 DEF BmuFlagTypes, B!LeaveSensors, B!NotConverted, B!vars
<1>3. BmuFlagTypes' /\ BmuBufferTypes'
  BY <1>0, <1>1, <1>2 DEF BmuFlagTypes, BmuBufferTypes, B!Chips, B!Total
<1>4. Chain => Chain'
  BY <1>1 DEF Chain, Awaiting, Transferring, ChipOf, B!Expected, B!Total
<1> QED BY <1>0, <1>1, <1>3, <1>4, BmuTypesNext DEF BmuInv

\* The end of a conversion: the first byte of the chip is fetched.
LEMMA BmuConvertStep ==
  ASSUME BmuInv, B!PollConversion
  PROVE  BmuInv'
<1>0. BmuFlagTypes /\ BmuBufferTypes /\ (tainted \/ Chain)
  BY BmuTypes DEF BmuInv
<1>1. BmuFlagTypes' /\ (tainted => tainted')
  BY <1>0, BmuFlagStep DEF B!Next, B!Loop
<1>2. /\ UNCHANGED <<bmu_enabled, spie, spif, arrived, bmu_spi_rx, bmu_spi_if, bmu_rx_buf,
                     bmu_rx_index, bmu_sample, fresh, tainted>>
      /\ poll_eoc # "none" /\ poll_eoc' = "none"
      /\ cs' = IF poll_eoc = "maps" THEN cs \cup {"maps"} ELSE cs
      /\ spdr' = IF spdr # << >> THEN spdr ELSE IF tainted THEN <<{}>> ELSE <<cs'>>
  BY DEF B!PollConversion, B!Convert, B!StartTransfer
<1>3. BmuBufferTypes'
  <2>1. cs' \subseteq B!Chips
    BY <1>0, <1>2 DEF BmuBufferTypes, B!Chips
  <2>2. spdr' \in {<< >>} \cup { <<c>> : c \in SUBSET B!Chips }
    BY <1>0, <1>2, <2>1, Zenon DEF BmuBufferTypes
  <2> QED BY <1>0, <1>2, <2>1, <2>2 DEF BmuBufferTypes, B!Chips, B!Total
<1>4. ASSUME ~tainted' PROVE Chain'
  <2>1. Chain
    BY <1>0, <1>2, <1>4
  <2>2. bmu_enabled /\ Awaiting
    BY <1>2, <2>1 DEF Chain, Transferring
  <2>3. cs' = {ChipOf(bmu_rx_index)}
    BY <1>2, <2>2 DEF Awaiting
  <2>4. Transferring'
    BY <1>2, <1>4, <2>2, <2>3 DEF Awaiting, Transferring, ChipOf
  <2> QED BY <1>2, <2>1, <2>2, <2>4 DEF Chain, B!Total, B!Expected, ChipOf
<1> QED BY <1>1, <1>3, <1>4, BmuTypesNext DEF BmuInv

\* A byte is taken: it is the byte at rx_index, and the next is of the next chip, of the
\* same, or the first of a new sample.
LEMMA BmuByteStep ==
  ASSUME BmuInv, B!TakeByte
  PROVE  BmuInv'
<1>0. BmuFlagTypes /\ BmuBufferTypes /\ (tainted \/ Chain)
  BY BmuTypes DEF BmuInv
<1>1. BmuFlagTypes' /\ UNCHANGED <<bmu_enabled, spie, spif, arrived, bmu_spi_rx, tainted>>
  BY <1>0, BmuFlagStep DEF B!Next, B!Loop, B!TakeByte
<1>2. CASE ~bmu_spi_if
  <2>1. UNCHANGED <<bmu_spi_if, spdr, cs, poll_eoc, bmu_rx_buf, bmu_rx_index, bmu_sample>>
    BY <1>2 DEF B!TakeByte
  <2>2. BmuBufferTypes'
    BY <1>0, <1>1, <2>1 DEF BmuBufferTypes, B!Chips, B!Total
  <2>3. Chain => Chain'
    BY <1>1, <2>1 DEF Chain, Awaiting, Transferring, ChipOf, B!Expected, B!Total
  <2> QED BY <1>0, <1>1, <2>2, <2>3, BmuTypesNext DEF BmuInv
<1>3. CASE bmu_spi_if
  <2> DEFINE i == bmu_rx_index
  <2>1. bmu_rx_buf' = [bmu_rx_buf EXCEPT ![i] = bmu_spi_rx] /\ B!AfterByte(i)
    BY <1>3 DEF B!TakeByte
  <2>2. ~bmu_spi_if'
    BY <1>3, Zenon DEF B!TakeByte
  <2>3. i \in 0..(B!Total - 1) /\ bmu_rx_buf' \in [0..(B!Total - 1) -> SUBSET B!Chips]
        /\ bmu_rx_buf'[i] = bmu_spi_rx
        /\ \A k \in 0..(B!Total - 1) : k # i => bmu_rx_buf'[k] = bmu_rx_buf[k]
    BY <1>0, <2>1 DEF BmuBufferTypes
  <2>4. /\ bmu_rx_index' \in 0..(B!Total - 1) /\ cs' \subseteq B!Chips
        /\ poll_eoc' \in B!Chips \cup {"none"}
        /\ bmu_sample' = bmu_sample \/ bmu_sample' = bmu_rx_buf'
    BY <1>0, <2>1, <2>3, BmuConstants
       DEF B!AfterByte, B!SelectNext, BmuBufferTypes, B!Chips
  <2>5. spdr' \in {<< >>} \cup { <<c>> : c \in SUBSET B!Chips }
    <3>1. spdr' = spdr \/ spdr' = <<{}>> \/ spdr' = <<cs'>>
      BY <2>1, Zenon DEF B!AfterByte, B!StartTransfer
    <3> QED BY <1>0, <2>4, <3>1, Zenon DEF BmuBufferTypes
  <2>6. BmuBufferTypes'
    <3>1. UNCHANGED <<arrived, bmu_spi_rx>>
      BY <1>1
    <3> QED BY <1>0, <2>3, <2>4, <2>5, <3>1 DEF BmuBufferTypes, B!Chips, B!Total
  <2>7. ASSUME ~tainted' PROVE Chain'
    <3>1. Chain /\ ~tainted
      BY <1>0, <1>1, <2>7
    <3>2. bmu_enabled /\ Transferring /\ spdr = << >> /\ ~spif /\ bmu_spi_rx = {ChipOf(i)}
          /\ cs = {ChipOf(i)} /\ poll_eoc = "none"
      BY <1>3, <3>1 DEF Chain, Awaiting, Transferring
    <3>3. \A k \in 0..(B!Total - 1) : k <= i => bmu_rx_buf'[k] = {ChipOf(k)}
      BY <2>3, <3>1, <3>2 DEF Chain
    <3>4. i \in Nat /\ MapsSize \in Nat /\ TempSize \in Nat /\ BattSize \in Nat
          /\ MapsSize > 0 /\ TempSize > 0 /\ BattSize > 0
          /\ B!Total = MapsSize + TempSize + BattSize
      BY <2>3, BmuConstants
    <3>5. CASE i + 1 = MapsSize
      <4>1. ChipOf(i) = "maps" /\ ChipOf(i + 1) = "temp"
        BY <3>4, <3>5 DEF ChipOf
      <4>2. /\ cs' = (cs \ {"maps"}) \cup {"temp"} /\ poll_eoc' = "temp"
            /\ bmu_rx_index' = i + 1 /\ UNCHANGED <<spdr, bmu_sample>>
        BY <2>1, <3>4, <3>5 DEF B!AfterByte, B!SelectNext
      <4>3. cs' = {"temp"}
        BY <3>2, <4>1, <4>2
      <4>4. Awaiting'
        BY <1>1, <2>2, <3>2, <3>4, <3>5, <4>1, <4>2, <4>3 DEF Awaiting, ChipOf
      <4> QED BY <1>1, <3>1, <3>2, <3>3, <3>4, <4>2, <4>4 DEF Chain, B!Total, B!Expected, ChipOf
    <3>6. CASE i + 1 = MapsSize + TempSize
      <4>1. ChipOf(i) = "temp" /\ ChipOf(i + 1) = "batt"
        BY <3>4, <3>6 DEF ChipOf
      <4>2. /\ cs' = (cs \ {"temp"}) \cup {"batt"} /\ poll_eoc' = "batt"
            /\ bmu_rx_index' = i + 1 /\ UNCHANGED <<spdr, bmu_sample>>
        BY <2>1, <3>4, <3>6 DEF B!AfterByte, B!SelectNext
      <4>3. cs' = {"batt"}
        BY <3>2, <4>1, <4>2
      <4>4. Awaiting'
        BY <1>1, <2>2, <3>2, <3>4, <3>6, <4>1, <4>2, <4>3 DEF Awaiting, ChipOf
      <4> QED BY <1>1, <3>1, <3>2, <3>3, <3>4, <4>2, <4>4 DEF Chain, B!Total, B!Expected, ChipOf
    <3>7. CASE i + 1 = B!Total
      <4>1. ChipOf(i) = "batt" /\ ChipOf(0) = "maps"
        BY <3>4, <3>7 DEF ChipOf
      <4>2. /\ cs' = cs \ {"batt"} /\ poll_eoc' = "maps" /\ bmu_rx_index' = 0
            /\ UNCHANGED spdr /\ bmu_sample' = bmu_rx_buf'
        BY <2>1, <3>4, <3>7 DEF B!AfterByte
      <4>3. cs' = {}
        BY <3>2, <4>1, <4>2
      <4>4. Awaiting'
        BY <1>1, <2>2, <3>2, <3>4, <4>1, <4>2, <4>3 DEF Awaiting, ChipOf
      <4>5. bmu_rx_buf' = B!Expected
        <5>1. \A k \in 0..(B!Total - 1) : bmu_rx_buf'[k] = B!Expected[k]
          <6>1. SUFFICES ASSUME NEW k \in 0..(B!Total - 1)
                         PROVE  bmu_rx_buf'[k] = B!Expected[k]
            OBVIOUS
          <6>2. k <= i
            BY <3>4, <3>7
          <6> QED BY <3>3, <6>2, ExpectedIs
        <5> DEFINE D == 0..(B!Total - 1)
        <5>2. bmu_rx_buf' \in [D -> SUBSET B!Chips] /\ B!Expected \in [D -> SUBSET B!Chips]
              /\ \A k \in D : bmu_rx_buf'[k] = B!Expected[k]
          BY <2>3, <5>1, ExpectedIs
        <5> HIDE DEF D
        <5> QED BY <5>2
      <4> QED BY <1>1, <3>1, <3>2, <3>4, <4>2, <4>4, <4>5 DEF Chain, B!Total, B!Expected, ChipOf
    <3>8. CASE i + 1 \notin {MapsSize, MapsSize + TempSize, B!Total}
      <4>1. ChipOf(i + 1) = ChipOf(i)
        BY <3>4, <3>8 DEF ChipOf
      <4>2. UNCHANGED <<cs, poll_eoc, bmu_sample>> /\ B!StartTransfer /\ bmu_rx_index' = i + 1
        BY <2>1, <3>8 DEF B!AfterByte
      <4>3. spdr' = <<cs'>>
        BY <3>1, <3>2, <4>2 DEF B!StartTransfer
      <4>4. Transferring'
        BY <1>1, <2>2, <3>2, <4>1, <4>2, <4>3 DEF Transferring, ChipOf
      <4> QED BY <1>1, <3>1, <3>2, <3>3, <3>4, <4>2, <4>4 DEF Chain, B!Total, B!Expected, ChipOf
    <3> QED BY <3>5, <3>6, <3>7, <3>8
  <2> QED BY <1>1, <2>6, <2>7, BmuTypesNext DEF BmuInv
<1> QED BY <1>2, <1>3

LEMMA BmuStep == ASSUME BmuInv, B!Next \/ UNCHANGED B!vars PROVE BmuInv'
BY BmuEnableStep, BmuTransferStep, BmuPassStep, BmuConvertStep, BmuByteStep DEF B!Next, B!Loop

LEMMA BmuPromise == BmuInv => B!TypeOK /\ B!SampleFromItsChips
BY DEF BmuInv, Chain, B!SampleFromItsChips

-----------------------------------------------------------------------------
(***************************************************************************)
(* LaserPort.  The stores of lsm215_start and lsm215_stop begin at tx_items,*)
(* which the interrupt resets at the end of the stream: a command is out    *)
(* three byte times after it was written, before there can be another.     *)
(***************************************************************************)
LEMMA LaserConstants ==
  /\ LineSize \in Nat /\ ErrorSize \in Nat /\ 1 < ErrorSize /\ ErrorSize < LineSize
  /\ LaserTxSize = 3 /\ CommandGap \in Nat /\ 4 <= CommandGap
BY DriversConstantsOK DEF L!LaserConstantsOK

CommandBytes == {"h", "c", "cr", "lf"}

\* A stream is over, or the byte times since its command count the bytes sent.
StreamInv ==
  /\ command \in Seq(CommandBytes)
  /\ ~lsm_udrie => lsm_tx_items = 0 /\ lsm_tx_index = 0 /\ lsm_udr = "none"
  /\ lsm_udrie => /\ lsm_tx_items = 3
                  /\ age = IF lsm_udr = "none" THEN lsm_tx_index ELSE lsm_tx_index - 1
LaserInv == L!TypeOK /\ StreamInv

LEMMA LaserInit == L!Init => LaserInv
<1> SUFFICES ASSUME L!Init PROVE LaserInv
  OBVIOUS
<1> USE DEF L!Init
<1>1. lsm_enabled \in BOOLEAN /\ lsm_udrie \in BOOLEAN /\ lsm_udrie /\ laser_on \in BOOLEAN
  BY Zenon
<1>2. lsm_tx_buf \in [0..(LaserTxSize - 1) -> CommandBytes]
  BY LaserConstants DEF CommandBytes, L!Stop
<1>3. command \in Seq(CommandBytes)
  BY EmptySeq, Zenon
<1>4. Len(command) <= 2 /\ Len(received) <= 1
  OBVIOUS
<1> QED BY <1>1, <1>2, <1>3, <1>4, LaserConstants
        DEF LaserInv, StreamInv, L!TypeOK, L!SizeOf, CommandBytes

LEMMA LaserCommandStep ==
  ASSUME LaserInv, L!EnableSensors
  PROVE  LaserInv'
<1> USE DEF LaserInv, StreamInv, L!TypeOK
<1>1. ~lsm_udrie /\ lsm_tx_items = 0 /\ lsm_tx_index = 0 /\ lsm_udr = "none"
  BY LaserConstants DEF L!EnableSensors
<1>2. PICK cmd \in {L!Start, L!Stop} :
        lsm_tx_buf' = L!Append3(lsm_tx_buf, 0, cmd) /\ lsm_tx_items' = 3
  BY <1>1 DEF L!EnableSensors, L!WriteCommand
<1>3. \A k \in 1..3 : cmd[k] \in CommandBytes
  BY DEF CommandBytes, L!Start, L!Stop
<1>4. DOMAIN lsm_tx_buf = 0..2
  BY LaserConstants
<1>5. lsm_tx_buf' \in [0..(LaserTxSize - 1) -> CommandBytes]
  BY <1>2, <1>3, <1>4, LaserConstants DEF L!Append3
<1>6. lsm_enabled' \in BOOLEAN /\ lsm_udrie' \in BOOLEAN /\ lsm_udrie'
  BY Zenon DEF L!EnableSensors, L!WriteCommand
<1> QED BY <1>1, <1>2, <1>5, <1>6, LaserConstants
        DEF L!EnableSensors, CommandBytes, L!rxVars, L!SizeOf

LEMMA LaserInterruptStep ==
  ASSUME LaserInv, L!DataRegisterEmpty
  PROVE  LaserInv'
<1> USE DEF LaserInv, StreamInv, L!TypeOK
<1>1. UNCHANGED <<lsm_enabled, lsm_tx_buf, age, command, laser_on, line, lsm_pos, undisturbed,
                  received, lsm_rx_index>>
  BY DEF L!DataRegisterEmpty, L!rxVars
<1>2. CASE lsm_tx_index = lsm_tx_items
  <2>1. lsm_udrie' \in BOOLEAN /\ ~lsm_udrie'
    BY <1>2, Zenon DEF L!DataRegisterEmpty, L!EndOfStream
  <2>2. lsm_tx_items' = 0 /\ lsm_tx_index' = 0 /\ lsm_udr' = "none"
    BY <1>2 DEF L!DataRegisterEmpty, L!EndOfStream
  <2> QED BY <1>1, <2>1, <2>2, LaserConstants DEF L!SizeOf
<1>3. CASE lsm_tx_index # lsm_tx_items
  <2>1. /\ lsm_udrie /\ lsm_udr = "none" /\ UNCHANGED <<lsm_tx_items, lsm_udrie>>
        /\ lsm_tx_index' = lsm_tx_index + 1 /\ lsm_udr' = lsm_tx_buf[lsm_tx_index]
    BY <1>3 DEF L!DataRegisterEmpty
  <2>2. lsm_tx_index \in 0..2
    BY <1>3, <2>1, LaserConstants
  <2>3. lsm_udr' \in CommandBytes
    BY <2>1, <2>2, LaserConstants DEF CommandBytes
  <2> QED BY <1>1, <2>1, <2>2, <2>3, LaserConstants DEF L!SizeOf, CommandBytes
<1> QED BY <1>2, <1>3

LEMMA LaserTimeStep ==
  ASSUME LaserInv, L!ByteTime
  PROVE  LaserInv'
<1> USE DEF LaserInv, StreamInv, L!TypeOK
<1>1. UNCHANGED <<lsm_enabled, lsm_tx_buf, lsm_tx_items, lsm_tx_index, lsm_udrie, lsm_rx_index>>
      /\ lsm_udr' = "none"
  BY DEF L!ByteTime, L!txVars
<1>2. /\ age' \in 0..CommandGap
      /\ ~lsm_udrie => lsm_tx_items = 0 /\ lsm_tx_index = 0
      /\ lsm_udrie => age' = lsm_tx_index
  BY LaserConstants DEF L!ByteTime
<1>3. command' \in Seq(CommandBytes) /\ Len(command') <= 2
  <2> DEFINE heard == IF lsm_udr = "none" THEN command ELSE Append(command, lsm_udr)
  <2>1. heard \in Seq(CommandBytes) /\ Len(heard) <= 3 /\ Len(heard) \in Nat
    BY DEF CommandBytes
  <2>2. command' = IF Len(heard) = 3 THEN << >> ELSE heard
    BY DEF L!ByteTime, L!Hear
  <2> HIDE DEF heard
  <2>3. CASE Len(heard) = 3
    <3>1. << >> \in Seq(CommandBytes) /\ Len(<< >>) <= 2
      OBVIOUS
    <3> QED BY <2>2, <2>3, <3>1, Zenon
  <2>4. CASE Len(heard) # 3
    <3>1. command' = heard
      BY <2>2, <2>4
    <3>2. Len(heard) <= 2
      <4>1. \A n \in Nat : n <= 3 /\ n # 3 => n <= 2
        OBVIOUS
      <4> QED BY <2>1, <2>4, <4>1, Zenon
    <3> QED BY <2>1, <3>1, <3>2, Zenon
  <2> QED BY <2>3, <2>4
<1>4. laser_on' \in BOOLEAN
  <2> DEFINE heard == IF lsm_udr = "none" THEN command ELSE Append(command, lsm_udr)
  <2>1. laser_on' = CASE heard = L!Start -> TRUE [] heard = L!Stop -> FALSE [] OTHER -> laser_on
    BY DEF L!ByteTime, L!Hear
  <2>2. (heard = L!Start /\ laser_on' = TRUE) \/ (heard = L!Stop /\ laser_on' = FALSE)
          \/ laser_on' = laser_on
    <3>1. L!Start # L!Stop
      BY DEF L!Start, L!Stop
    <3> HIDE DEF heard
    <3> QED BY <2>1, <3>1
  <2> HIDE DEF heard
  <2> QED BY <2>2, Zenon
<1>5. /\ line' \in {"data", "error"} /\ lsm_pos' \in 0..(L!SizeOf(line') - 1)
      /\ undisturbed' \in 0..2
  BY LaserConstants DEF L!ByteTime, L!Measure, L!SizeOf
<1>6. Len(received') <= 1
  <2>1. received' = received \/ received' = <<L!ByteOf(line, lsm_pos)>>
    BY Zenon DEF L!ByteTime, L!Measure
  <2>2. Len(<<L!ByteOf(line, lsm_pos)>>) = 1
    OBVIOUS
  <2>3. received = << >> /\ Len(<< >>) = 0
    BY DEF L!ByteTime
  <2>4. Len(received') = 0 \/ Len(received') = 1
    BY <2>1, <2>2, <2>3, Zenon
  <2>5. 0 <= 1 /\ 1 <= 1
    OBVIOUS
  <2> QED BY <2>4, <2>5, Zenon
<1> QED BY <1>1, <1>2, <1>3, <1>4, <1>5, <1>6 DEF L!SizeOf

LEMMA LaserStep == ASSUME LaserInv, L!Next \/ UNCHANGED L!vars PROVE LaserInv'
<1>1. CASE L!TakeByte
  <2> USE DEF LaserInv, StreamInv, L!TypeOK
  <2>1. lsm_rx_index' \in 0..(LineSize - 1)
    BY <1>1, LaserConstants DEF L!TakeByte, L!EndsLine
  <2>2. Len(received') <= 1
    BY <1>1 DEF L!TakeByte
  <2> QED BY <1>1, <2>1, <2>2 DEF L!TakeByte, L!txVars, L!laserVars, L!SizeOf
<1>2. CASE UNCHANGED L!vars
  BY <1>2 DEF LaserInv, StreamInv, L!TypeOK, L!vars, L!txVars, L!laserVars, L!rxVars, L!SizeOf
<1> QED BY <1>1, <1>2, LaserCommandStep, LaserInterruptStep, LaserTimeStep DEF L!Next

LEMMA LaserPromise == LaserInv => L!TypeOK
BY DEF LaserInv

-----------------------------------------------------------------------------
(***************************************************************************)
(* Srf10.  The timer begins a transfer only when the one before is over, so *)
(* its step tells what is on the bus.  While no transfer has failed since a *)
(* ranging was commanded, the register that is read is the result, and the *)
(* buffer holds the result of this ranging or of the one before - but for  *)
(* the time between its two bytes, when nothing is offered to the reader.  *)
(***************************************************************************)
LEMMA SrfConstants ==
  /\ Periods \subseteq Nat \ {0} /\ DefPeriod \in Periods
  /\ MaxSettings \in Nat /\ DefAddress \in Addresses /\ "none" \notin Addresses
BY DriversConstantsOK DEF S!Srf10ConstantsOK

\* The commands of the driver, known by their first byte.
Messages == {<<"1", "2", "3", a>> : a \in Addresses}
            \cup {<<"range", "value">>, <<"gain", "value">>, <<"register">>, <<"command", "cm">>}

Result(n, i) == [ranging |-> n, byte |-> i]
Good(n) == srf_rx_buf[0] = Result(n, 0) /\ srf_rx_buf[1] = Result(n, 1)
CommandOut == i2c_state = "tx" /\ srf_tx_buf[1] = "command"

\* What is on the bus in each step of the timer.
BusInv ==
  /\ i2c_state # "idle" => step \in {0, 1, 3, 5, 10, 11}
  /\ step = 5 => i2c_state # "tx"
  /\ i2c_state = "rx" => step = 5
  /\ i2c_state = "tx" =>
       /\ srf_tx_buf \in Messages
       /\ step = 3 <=> srf_tx_buf[1] = "register"
       /\ step \in {0, 10, 11} => srf_tx_buf[1] = "command"
  /\ twi = "address" /\ i2c_state = "tx" => srf_tx_index = 0
  /\ twi = "data" => i2c_state = "tx" /\ srf_tx_index \in 1..Len(srf_tx_buf)
  /\ twi \in {"first", "last"} => i2c_state = "rx"

\* Nothing is offered half received, and who has seen an offer before is marked.
OfferInv == twi = "last" => ~srf_new_data /\ (checked => raced)

\* No transfer has failed since the last ranging was commanded.
CalmInv ==
  /\ step \in 4..9 => register = "result"
  /\ step = 3 /\ i2c_state = "idle" => register = "result"
  /\ twi = "last" => srf_rx_buf[0] = Result(number, 0)
  /\ (step = 5 /\ i2c_state = "idle") \/ step = 6 => new_result
  /\ (step = 5 /\ i2c_state = "idle") \/ step \in 6..9 \/ CommandOut => Good(number)
SampleInv ==
  /\ srf_calm > 0 => CalmInv
  /\ srf_calm = 2 /\ twi # "last" => Good(number) \/ Good((number + 2) % 3)

SrfFlagTypes ==
  /\ srf_toie2 \in BOOLEAN /\ new_range \in BOOLEAN /\ new_gain \in BOOLEAN
  /\ srf_new_data \in BOOLEAN /\ new_result \in BOOLEAN /\ checked \in BOOLEAN
  /\ ranging \in BOOLEAN /\ raced \in BOOLEAN /\ misled \in BOOLEAN
SrfBusTypes ==
  /\ step \in 0..11 /\ (step = 11 \/ ticks = 0)
  /\ \E p \in Periods : ticks \in 0..(p - 1)
  /\ i2c_state \in {"idle", "tx", "rx"}
  /\ twi \in {"off", "start", "address", "data", "first", "last"}
  /\ i2c_state = "idle" <=> twi = "off"
  /\ srf_tx_index \in 0..4
SrfDataTypes ==
  /\ srf_rx_buf \in [0..1 -> [ranging : 0..2, byte : 0..2]]
  /\ srf10_addr \in Addresses /\ address \in Addresses /\ new_addr \in Addresses \cup {"none"}
  /\ srf10_period \in Periods /\ settings \in 0..MaxSettings
  /\ register \in {"result", "other"} /\ number \in 0..2 /\ srf_calm \in 0..2

SrfTypes == SrfFlagTypes /\ SrfBusTypes /\ SrfDataTypes
SrfInv == SrfTypes /\ BusInv /\ OfferInv /\ SampleInv

LEMMA SrfTypesAre == SrfTypes => S!TypeOK
<1>1. SrfFlagTypes => {new_range, new_gain, srf_new_data, new_result, checked, ranging, raced,
                       misled} \subseteq BOOLEAN
  BY Zenon DEF SrfFlagTypes
<1>2. SrfDataTypes => {srf10_addr, address} \subseteq Addresses
  BY DEF SrfDataTypes
<1> QED BY <1>1, <1>2, Zenon DEF SrfTypes, SrfFlagTypes, SrfBusTypes, SrfDataTypes, S!TypeOK

LEMMA MessagesAre ==
  /\ \A m \in Messages :
       /\ Len(m) \in 1..4 /\ m[1] \in {"1", "range", "gain", "register", "command"}
       /\ m[1] = "1" => m[4] \in Addresses
  /\ \A a \in Addresses : <<"1", "2", "3", a>> \in Messages
  /\ <<"range", "value">> \in Messages /\ <<"gain", "value">> \in Messages
  /\ <<"register">> \in Messages /\ <<"command", "cm">> \in Messages
BY DEF Messages

LEMMA SrfInit == S!Init => SrfInv
<1> SUFFICES ASSUME S!Init PROVE SrfInv
  OBVIOUS
<1> USE DEF S!Init
<1>1. SrfFlagTypes
  BY Zenon DEF SrfFlagTypes
<1>2. SrfBusTypes
  <2>1. ticks \in 0..(DefPeriod - 1)
    BY SrfConstants
  <2> QED BY <2>1, SrfConstants DEF SrfBusTypes
<1>3. SrfDataTypes
  BY SrfConstants DEF SrfDataTypes
<1>4. BusInv /\ OfferInv /\ SampleInv
  BY DEF BusInv, OfferInv, SampleInv
<1> QED BY <1>1, <1>2, <1>3, <1>4 DEF SrfInv, SrfTypes

\* The flags, whatever is done.
LEMMA SrfFlagStep ==
  ASSUME SrfFlagTypes, S!Next \/ UNCHANGED S!vars
  PROVE  SrfFlagTypes'
<1> USE DEF SrfFlagTypes, S!settingVars, S!addrVars, S!busVars, S!dataVars, S!sonarVars
<1>1. CASE S!RangingEnds \/ S!StartStop \/ S!CheckNewData \/ S!CopyData \/ UNCHANGED S!vars
  BY <1>1, Zenon DEF S!RangingEnds, S!StartStop, S!CheckNewData, S!CopyData, S!vars
<1>2. CASE S!Set
  BY <1>2, Zenon DEF S!Set
<1>3. CASE S!TimerOverflow
  <2>1. UNCHANGED <<srf_toie2, checked, raced, misled>>
    BY <1>3 DEF S!TimerOverflow
  <2>2. /\ new_range' \in BOOLEAN /\ new_gain' \in BOOLEAN /\ srf_new_data' \in BOOLEAN
        /\ new_result' \in BOOLEAN /\ ranging' \in BOOLEAN
    BY <1>3, Zenon DEF S!TimerOverflow, S!AwaitIdle, S!ChangeScaler, S!PrepareTransmit,
         S!PrepareReceive, S!AwaitResult, S!Notify, S!CommandRanging, S!CountPeriod
  <2> QED BY <2>1, <2>2
<1>4. CASE S!TwiInterrupt
  <2>1. UNCHANGED <<srf_toie2, new_range, new_gain, checked>>
    BY <1>4 DEF S!TwiInterrupt
  <2>2. srf_new_data' \in BOOLEAN /\ new_result' \in BOOLEAN /\ raced' \in BOOLEAN
    BY <1>4, Zenon DEF S!TwiInterrupt, S!StartSent, S!AddressAnswered, S!NotAnswered,
         S!TransferFails, S!DataSent, S!FirstReceived, S!LastReceived
  <2>3. ranging' = ranging \/ ranging' = TRUE
    BY <1>4, Zenon DEF S!TwiInterrupt, S!StartSent, S!AddressAnswered, S!NotAnswered,
         S!TransferFails, S!DataSent, S!FirstReceived, S!LastReceived, S!Obey
  <2>4. misled' \in BOOLEAN
    BY <1>4, Zenon DEF S!TwiInterrupt, S!StartSent, S!AddressAnswered, S!NotAnswered,
         S!TransferFails, S!DataSent, S!FirstReceived, S!LastReceived, S!AddressIsSet
  <2> QED BY <2>1, <2>2, <2>3, <2>4, Zenon
<1> QED BY <1>1, <1>2, <1>3, <1>4 DEF S!Next

\* The calls of the main loop, and the end of a ranging.
LEMMA SrfCallStep ==
  ASSUME SrfInv,
         S!RangingEnds \/ S!StartStop \/ S!Set \/ S!CheckNewData \/ S!CopyData \/ UNCHANGED S!vars
  PROVE  SrfInv'
<1> USE DEF S!settingVars, S!addrVars, S!busVars, S!dataVars, S!sonarVars
<1>0. SrfFlagTypes /\ SrfBusTypes /\ SrfDataTypes /\ BusInv /\ OfferInv /\ SampleInv
  BY DEF SrfInv, SrfTypes
<1>1. SrfFlagTypes'
  BY <1>0, SrfFlagStep DEF S!Next
<1>2. /\ UNCHANGED <<step, ticks, srf10_addr, i2c_state, twi, srf_tx_buf, srf_tx_index,
                     srf_rx_buf, new_result, address, register, number, srf_calm>>
      /\ srf10_period' \in Periods /\ settings' \in 0..MaxSettings
      /\ new_addr' \in Addresses \cup {"none"}
  <2>1. CASE S!Set
    BY <1>0, <2>1, SrfConstants DEF S!Set, SrfDataTypes
  <2>2. CASE ~S!Set
    BY <1>0, <2>2 DEF S!RangingEnds, S!StartStop, S!CheckNewData, S!CopyData, S!vars, SrfDataTypes
  <2> QED BY <2>1, <2>2
<1>3. SrfBusTypes' /\ SrfDataTypes' /\ BusInv' /\ SampleInv'
  BY <1>0, <1>2
     DEF SrfBusTypes, SrfDataTypes, BusInv, SampleInv, CalmInv, Good, Result, CommandOut, Messages
<1>4. OfferInv'
  <2>1. CASE S!CheckNewData
    BY <1>0, <1>2, <2>1 DEF OfferInv, S!CheckNewData
  <2>2. CASE S!CopyData
    <3>1. ~checked' /\ ~srf_new_data'
      BY <2>2, Zenon DEF S!CopyData
    <3> QED BY <3>1 DEF OfferInv
  <2>3. CASE S!RangingEnds \/ S!StartStop \/ S!Set \/ UNCHANGED S!vars
    <3>1. UNCHANGED <<twi, srf_new_data, checked, raced>>
      BY <2>3 DEF S!RangingEnds, S!StartStop, S!Set, S!vars
    <3> QED BY <1>0, <3>1 DEF OfferInv
  <2> QED BY <2>1, <2>2, <2>3
<1> QED BY <1>1, <1>3, <1>4 DEF SrfInv, SrfTypes

\* The timer: a transfer begins in steps where the bus is idle.
LEMMA SrfTimerStep ==
  ASSUME SrfInv, S!TimerOverflow
  PROVE  SrfInv'
<1> USE DEF S!busVars, S!addrVars
<1>0. SrfFlagTypes /\ SrfBusTypes /\ SrfDataTypes /\ BusInv /\ OfferInv /\ SampleInv
  BY DEF SrfInv, SrfTypes
<1>1. SrfFlagTypes'
  BY <1>0, SrfFlagStep DEF S!Next
<1>2. UNCHANGED <<srf10_period, settings, srf10_addr, new_addr, misled, srf_rx_buf, checked, raced,
                  address, register, number, srf_calm>>
  BY DEF S!TimerOverflow
<1>3. SrfDataTypes'
  BY <1>0, <1>2 DEF SrfDataTypes
<1>4. CASE S!AwaitIdle \/ S!ChangeScaler \/ S!AwaitResult \/ S!Notify
  <2>1. /\ UNCHANGED <<ticks, i2c_state, twi, srf_tx_buf, srf_tx_index>>
        /\ step' \in 0..11 /\ step # 11 /\ step' # 0
    BY <1>0, <1>4 DEF S!AwaitIdle, S!ChangeScaler, S!AwaitResult, S!Notify, SrfBusTypes
  <2>2. SrfBusTypes'
    BY <1>0, <2>1 DEF SrfBusTypes
  <2>3. CASE S!AwaitIdle \/ S!ChangeScaler
    <3>1. /\ \/ step \in {1, 3, 5, 8} /\ i2c_state = "idle"
             \/ step \in {0, 10}
          /\ step' = step + 1 /\ UNCHANGED <<new_result, srf_new_data>>
      BY <2>3 DEF S!AwaitIdle, S!ChangeScaler
    <3>2. BusInv'
      BY <1>0, <2>1, <3>1 DEF BusInv, Messages
    <3>3. OfferInv'
      BY <1>0, <1>2, <2>1, <3>1 DEF OfferInv
    <3>4. SampleInv'
      BY <1>0, <1>2, <2>1, <3>1 DEF SampleInv, CalmInv, Good, Result, CommandOut, BusInv
    <3> QED BY <1>1, <1>3, <2>2, <3>2, <3>3, <3>4 DEF SrfInv, SrfTypes
  <2>4. CASE S!AwaitResult
    <3>1. /\ step = 6 /\ step' = IF new_result THEN 7 ELSE 4
          /\ UNCHANGED srf_new_data
      BY <2>4 DEF S!AwaitResult
    <3>2. BusInv'
      BY <1>0, <2>1, <3>1 DEF BusInv, Messages
    <3>3. OfferInv'
      BY <1>0, <1>2, <2>1, <3>1 DEF OfferInv
    <3>4. SampleInv'
      BY <1>0, <1>2, <2>1, <3>1 DEF SampleInv, CalmInv, Good, Result, CommandOut, BusInv
    <3> QED BY <1>1, <1>3, <2>2, <3>2, <3>3, <3>4 DEF SrfInv, SrfTypes
  <2>5. CASE S!Notify
    <3>1. step = 7 /\ step' = 8 /\ UNCHANGED new_result
      BY <2>5 DEF S!Notify
    <3>2. i2c_state = "idle" /\ twi = "off"
      BY <1>0, <3>1 DEF BusInv, SrfBusTypes
    <3>3. BusInv' /\ OfferInv'
      BY <1>0, <2>1, <3>1, <3>2 DEF BusInv, OfferInv
    <3>4. SampleInv'
      BY <1>0, <1>2, <2>1, <3>1, <3>2 DEF SampleInv, CalmInv, Good, Result, CommandOut
    <3> QED BY <1>1, <1>3, <2>2, <3>3, <3>4 DEF SrfInv, SrfTypes
  <2> QED BY <1>4, <2>3, <2>4, <2>5
<1>5. CASE S!PrepareTransmit
  <2>1. /\ step = 2 /\ step' \in {1, 3} /\ i2c_state' = "tx" /\ twi' = "start"
        /\ UNCHANGED <<ticks, srf_tx_index, new_result, srf_new_data>>
    BY <1>5 DEF S!PrepareTransmit, S!Begin, S!AfterSetting
  <2>2. /\ srf_tx_buf' \in Messages /\ srf_tx_buf'[1] # "command"
        /\ step' = 3 <=> srf_tx_buf'[1] = "register"
    <3>1. \/ new_addr # "none" /\ srf_tx_buf' = <<"1", "2", "3", new_addr>> /\ step' = 1
          \/ srf_tx_buf' = <<"range", "value">> /\ step' = 1
          \/ srf_tx_buf' = <<"gain", "value">> /\ step' = 1
          \/ srf_tx_buf' = <<"register">> /\ step' = 3
      BY <1>5, Zenon DEF S!PrepareTransmit, S!AfterSetting
    <3>2. new_addr \in Addresses \cup {"none"}
      BY <1>0 DEF SrfDataTypes
    <3>3. /\ <<"1", "2", "3", new_addr>>[1] = "1" /\ <<"range", "value">>[1] = "range"
          /\ <<"gain", "value">>[1] = "gain" /\ <<"register">>[1] = "register"
      OBVIOUS
    <3>4. srf_tx_buf' \in Messages
      BY <3>1, <3>2, MessagesAre, Zenon
    <3>5. \/ srf_tx_buf'[1] \in {"1", "range", "gain"} /\ step' = 1
          \/ srf_tx_buf'[1] = "register" /\ step' = 3
      BY <3>1, <3>3, Zenon
    <3> QED BY <3>4, <3>5
  <2>3. SrfBusTypes'
    BY <1>0, <2>1 DEF SrfBusTypes
  <2>4. BusInv' /\ OfferInv'
    BY <2>1, <2>2 DEF BusInv, OfferInv, Messages
  <2>5. SampleInv'
    BY <1>0, <1>2, <2>1, <2>2 DEF SampleInv, CalmInv, Good, Result, CommandOut, SrfBusTypes, BusInv
  <2> QED BY <1>1, <1>3, <2>3, <2>4, <2>5 DEF SrfInv, SrfTypes
<1>6. CASE S!PrepareReceive
  <2>1. /\ step = 4 /\ step' = 5 /\ i2c_state' = "rx" /\ twi' = "start"
        /\ UNCHANGED <<ticks, srf_tx_buf, srf_tx_index, new_result, srf_new_data>>
    BY <1>6 DEF S!PrepareReceive, S!Begin
  <2>2. SrfBusTypes'
    BY <1>0, <2>1 DEF SrfBusTypes
  <2>3. BusInv' /\ OfferInv'
    BY <2>1 DEF BusInv, OfferInv
  <2>4. SampleInv'
    BY <1>0, <1>2, <2>1 DEF SampleInv, CalmInv, Good, Result, CommandOut, SrfBusTypes, BusInv
  <2> QED BY <1>1, <1>3, <2>2, <2>3, <2>4 DEF SrfInv, SrfTypes
<1>7. CASE S!CommandRanging
  <2>1. /\ step = 9 /\ step' = 10 /\ i2c_state' = "tx" /\ twi' = "start"
        /\ srf_tx_buf' = <<"command", "cm">>
        /\ UNCHANGED <<ticks, srf_tx_index, new_result, srf_new_data>>
    BY <1>7 DEF S!CommandRanging, S!Begin
  <2>2. srf_tx_buf' \in Messages /\ srf_tx_buf'[1] = "command"
    <3>1. <<"command", "cm">>[1] = "command"
      OBVIOUS
    <3> QED BY <2>1, <3>1, MessagesAre, Zenon
  <2>3. SrfBusTypes'
    BY <1>0, <2>1 DEF SrfBusTypes
  <2>4. BusInv' /\ OfferInv'
    BY <2>1, <2>2 DEF BusInv, OfferInv, Messages
  <2>5. SampleInv'
    BY <1>0, <1>2, <2>1, <2>2 DEF SampleInv, CalmInv, Good, Result, CommandOut, SrfBusTypes, BusInv
  <2> QED BY <1>1, <1>3, <2>3, <2>4, <2>5 DEF SrfInv, SrfTypes
<1>8. CASE S!CountPeriod
  <2>1. /\ step = 11 /\ UNCHANGED <<i2c_state, twi, srf_tx_buf, srf_tx_index, new_result,
                                    srf_new_data>>
        /\ \/ ticks' = 0 /\ step' = 0
           \/ ~(ticks + 1 >= srf10_period) /\ ticks' = ticks + 1 /\ step' = 11
    BY <1>8 DEF S!CountPeriod, S!PeriodEnds
  <2>2. PICK p \in Periods : ticks \in 0..(p - 1)
    BY <1>0 DEF SrfBusTypes
  <2>3. p \in Nat \ {0} /\ srf10_period \in Periods /\ srf10_period \in Nat \ {0}
    BY <1>0, SrfConstants DEF SrfDataTypes
  <2>4. ticks' \in 0..(p - 1) \/ ticks' \in 0..(srf10_period - 1)
    BY <2>1, <2>2, <2>3
  <2>5. SrfBusTypes'
    <3>1. \E q \in Periods : ticks' \in 0..(q - 1)
      BY <2>3, <2>4
    <3> QED BY <1>0, <2>1, <3>1 DEF SrfBusTypes
  <2>6. BusInv' /\ OfferInv'
    BY <1>0, <1>2, <2>1 DEF BusInv, OfferInv, Messages
  <2>7. SampleInv'
    BY <1>0, <1>2, <2>1 DEF SampleInv, CalmInv, Good, Result, CommandOut
  <2> QED BY <1>1, <1>3, <2>5, <2>6, <2>7 DEF SrfInv, SrfTypes
<1> QED BY <1>4, <1>5, <1>6, <1>7, <1>8 DEF S!TimerOverflow

\* The two-wire bus: a command is sent whole, or a result is received.
LEMMA SrfBusStep ==
  ASSUME SrfInv, S!TwiInterrupt
  PROVE  SrfInv'
<1> USE DEF S!settingVars, S!addrVars, S!busVars, S!dataVars, S!sonarVars
<1>0. SrfFlagTypes /\ SrfBusTypes /\ SrfDataTypes /\ BusInv /\ OfferInv /\ SampleInv
  BY DEF SrfInv, SrfTypes
<1>1. SrfFlagTypes'
  BY <1>0, SrfFlagStep DEF S!Next
<1>2. UNCHANGED <<step, ticks, srf10_period, settings, checked>>
  BY DEF S!TwiInterrupt
<1>3. CASE S!StartSent \/ S!AddressAnswered
  <2>1. /\ UNCHANGED <<i2c_state, srf_tx_buf, srf_rx_buf, new_result, srf10_addr, new_addr,
                       address, register, number, srf_calm>>
        /\ twi # "last" /\ twi' # "last" /\ twi # "off" /\ twi' # "off"
    BY <1>3 DEF S!StartSent, S!AddressAnswered
  <2>2. /\ twi' \in {"address", "data", "first"} /\ srf_tx_index' \in 0..4
        /\ twi' = "address" => (i2c_state = "tx" => srf_tx_index' = 0)
        /\ twi' = "data" => i2c_state = "tx" /\ srf_tx_index' = 1
        /\ twi' = "first" => i2c_state # "tx"
    BY <1>0, <1>3 DEF S!StartSent, S!AddressAnswered, BusInv, SrfBusTypes
  <2>3. SrfBusTypes'
    BY <1>0, <1>2, <2>1, <2>2 DEF SrfBusTypes
  <2>4. SrfDataTypes'
    BY <1>0, <1>2, <2>1 DEF SrfDataTypes
  <2>5. i2c_state = "tx" => Len(srf_tx_buf) \in 1..4
    BY <1>0, MessagesAre DEF BusInv
  <2>6. BusInv'
    BY <1>0, <1>2, <2>1, <2>2, <2>5 DEF BusInv, SrfBusTypes, Messages
  <2>7. OfferInv' /\ SampleInv'
    BY <1>0, <1>2, <2>1 DEF OfferInv, SampleInv, CalmInv, Good, Result, CommandOut
  <2> QED BY <1>1, <2>3, <2>4, <2>6, <2>7 DEF SrfInv, SrfTypes
<1>4. CASE S!NotAnswered \/ S!TransferFails
  <2>1. /\ UNCHANGED <<srf_tx_buf, srf_tx_index, srf_rx_buf, srf10_addr, new_addr, address,
                       register, number>>
        /\ i2c_state' = "idle" /\ twi' = "off" /\ srf_calm' = 0
    BY <1>4 DEF S!NotAnswered, S!TransferFails, S!ToIdle
  <2>2. SrfBusTypes' /\ SrfDataTypes'
    BY <1>0, <1>2, <2>1 DEF SrfBusTypes, SrfDataTypes
  <2>3. BusInv' /\ OfferInv' /\ SampleInv'
    BY <2>1 DEF BusInv, OfferInv, SampleInv
  <2> QED BY <1>1, <2>2, <2>3 DEF SrfInv, SrfTypes
<1>5. CASE S!DataSent
  <2>1. /\ UNCHANGED <<srf_tx_buf, srf_rx_buf, new_result>>
        /\ i2c_state = "tx" /\ twi = "data" /\ srf_tx_index \in 1..Len(srf_tx_buf)
        /\ srf_tx_buf \in Messages /\ Len(srf_tx_buf) \in 1..4
    BY <1>0, <1>5, MessagesAre DEF S!DataSent, BusInv
  <2>2. CASE srf_tx_index # Len(srf_tx_buf)
    <3>1. /\ srf_tx_index' = srf_tx_index + 1
          /\ UNCHANGED <<twi, i2c_state, srf10_addr, new_addr, address, register, number, srf_calm>>
      BY <1>5, <2>2 DEF S!DataSent
    <3>2. srf_tx_index' \in 1..Len(srf_tx_buf) /\ srf_tx_index' \in 0..4
      <4>1. \A k \in 1..4 : \A i \in 1..k : i # k => i + 1 \in 1..k /\ i + 1 \in 0..4
        OBVIOUS
      <4> QED BY <2>1, <2>2, <3>1, <4>1, Zenon
    <3>3. SrfBusTypes' /\ SrfDataTypes'
      BY <1>0, <1>2, <2>1, <3>1, <3>2 DEF SrfBusTypes, SrfDataTypes
    <3>4. BusInv'
      BY <1>0, <1>2, <2>1, <3>1, <3>2 DEF BusInv, Messages
    <3>5. OfferInv' /\ SampleInv'
      BY <1>0, <1>2, <2>1, <3>1 DEF OfferInv, SampleInv, CalmInv, Good, Result, CommandOut
    <3> QED BY <1>1, <3>3, <3>4, <3>5 DEF SrfInv, SrfTypes
  <2>3. CASE srf_tx_index = Len(srf_tx_buf)
    <3>1. /\ S!Obey /\ S!AddressIsSet /\ UNCHANGED srf_tx_index
          /\ i2c_state' = "idle" /\ twi' = "off"
          /\ srf_calm' = IF srf_tx_buf[1] = "command" /\ srf_calm < 2 THEN srf_calm + 1
                                                                     ELSE srf_calm
      BY <1>5, <2>3 DEF S!DataSent, S!ToIdle
    <3>2. SrfBusTypes'
      BY <1>0, <1>2, <3>1 DEF SrfBusTypes
    <3>3. srf10_addr' \in Addresses /\ new_addr' \in Addresses \cup {"none"}
      BY <1>0, <3>1 DEF S!AddressIsSet, SrfDataTypes
    <3>4. /\ srf_tx_buf[1] = "command" => number' = (number + 1) % 3 /\ UNCHANGED address
          /\ srf_tx_buf[1] # "command" => UNCHANGED number
          /\ srf_tx_buf[1] = "register" => register' = "result"
          /\ register' \in {"result", "other"}
      BY <1>0, <3>1 DEF S!Obey, SrfDataTypes
    <3>5. address' \in Addresses
      <4>1. srf_tx_buf[1] = "1" => srf_tx_buf[4] \in Addresses
        BY <2>1, MessagesAre
      <4> QED BY <1>0, <3>1, <4>1 DEF S!Obey, SrfDataTypes
    <3>6. number' \in 0..2 /\ srf_calm' \in 0..2
      BY <1>0, <3>1, <3>4 DEF SrfDataTypes
    <3>7. SrfDataTypes'
      BY <1>0, <1>2, <2>1, <3>3, <3>4, <3>5, <3>6 DEF SrfDataTypes
    <3>8. BusInv' /\ OfferInv'
      BY <3>1 DEF BusInv, OfferInv
    <3>9. /\ step \in {0, 1, 3, 10, 11}
          /\ step = 3 <=> srf_tx_buf[1] = "register"
      BY <1>0, <2>1 DEF BusInv
    <3>10. srf_calm' > 0 => CalmInv'
      BY <1>2, <3>1, <3>4, <3>9 DEF CalmInv, CommandOut
    <3>11. srf_calm' = 2 => (Good(number) \/ Good((number + 2) % 3))'
      <4>1. CASE srf_tx_buf[1] = "command"
        <5>1. srf_calm' = 2 => srf_calm > 0
          BY <1>0, <3>1 DEF SrfDataTypes
        <5>2. srf_calm' = 2 => Good(number)
          BY <1>0, <2>1, <4>1, <5>1 DEF SampleInv, CalmInv, CommandOut
        <5>3. (number' + 2) % 3 = number
          BY <1>0, <3>4, <4>1 DEF SrfDataTypes
        <5> QED BY <2>1, <5>2, <5>3 DEF Good, Result
      <4>2. CASE srf_tx_buf[1] # "command"
        BY <1>0, <2>1, <3>1, <3>4, <4>2 DEF SampleInv, Good, Result
      <4> QED BY <4>1, <4>2
    <3>12. SampleInv'
      BY <3>10, <3>11 DEF SampleInv
    <3> QED BY <1>1, <3>2, <3>7, <3>8, <3>12 DEF SrfInv, SrfTypes
  <2> QED BY <2>2, <2>3
<1>6. CASE S!FirstReceived \/ S!LastReceived
  <2>1. /\ UNCHANGED <<srf_tx_buf, srf_tx_index, srf10_addr, new_addr, address, register, number,
                       srf_calm>>
        /\ i2c_state = "rx" /\ step = 5
    BY <1>0, <1>6 DEF S!FirstReceived, S!LastReceived, BusInv
  <2>2. srf_rx_buf' \in [0..1 -> [ranging : 0..2, byte : 0..2]]
    <3>1. \E i \in 0..1 : S!ReceivedByte(i)
      BY <1>6 DEF S!FirstReceived, S!LastReceived
    <3>2. PICK i \in 0..1 : S!ReceivedByte(i)
      BY <3>1
    <3>3. PICK b \in [ranging : 0..2, byte : 0..2] : srf_rx_buf' = [srf_rx_buf EXCEPT ![i] = b]
      <4> DEFINE read == IF register = "result" THEN [ranging |-> number, byte |-> i]
                                                ELSE [ranging |-> 0, byte |-> 2]
      <4>1. read \in [ranging : 0..2, byte : 0..2]
        BY <1>0 DEF SrfDataTypes
      <4> QED BY <3>2, <4>1, Zenon DEF S!ReceivedByte
    <3> QED BY <1>0, <3>3 DEF SrfDataTypes
  <2>3. SrfDataTypes'
    BY <1>0, <1>2, <2>1, <2>2 DEF SrfDataTypes
  <2>4. register = "result" =>
          /\ S!FirstReceived => srf_rx_buf'[0] = Result(number, 0)
          /\ S!LastReceived => srf_rx_buf'[1] = Result(number, 1) /\ srf_rx_buf'[0] = srf_rx_buf[0]
    BY <1>0 DEF S!FirstReceived, S!LastReceived, S!ReceivedByte, SrfDataTypes, Result
  <2>5. srf_calm > 0 => register = "result"
    BY <1>0, <2>1 DEF SampleInv, CalmInv
  <2>6. CASE S!FirstReceived
    <3>1. twi' = "last" /\ UNCHANGED <<i2c_state, new_result>>
      BY <2>6 DEF S!FirstReceived
    <3>2. SrfBusTypes'
      BY <1>0, <1>2, <2>1, <3>1 DEF SrfBusTypes
    <3>3. BusInv'
      BY <1>0, <1>2, <2>1, <3>1 DEF BusInv
    <3>4. ~srf_new_data' /\ (checked' => raced')
      <4>1. srf_new_data' = FALSE /\ raced' = (raced \/ checked)
        BY <2>6, Zenon DEF S!FirstReceived
      <4> QED BY <1>2, <4>1, Zenon
    <3>5. OfferInv'
      BY <3>4, Zenon DEF OfferInv
    <3>6. SampleInv'
      BY <1>2, <2>1, <2>4, <2>5, <2>6, <3>1 DEF SampleInv, CalmInv, CommandOut, Result
    <3> QED BY <1>1, <2>3, <3>2, <3>3, <3>5, <3>6 DEF SrfInv, SrfTypes
  <2>7. CASE S!LastReceived
    <3>1. twi = "last" /\ twi' = "off" /\ i2c_state' = "idle"
      BY <2>7 DEF S!LastReceived, S!ToIdle
    <3>2. SrfBusTypes'
      BY <1>0, <1>2, <2>1, <3>1 DEF SrfBusTypes
    <3>3. BusInv' /\ OfferInv'
      BY <1>0, <1>2, <2>1, <3>1 DEF BusInv, OfferInv
    <3>4. new_result'
      <4>1. new_result' = TRUE
        BY <2>7, Zenon DEF S!LastReceived
      <4> QED BY <4>1, Zenon
    <3>5. srf_calm > 0 => Good(number)'
      BY <1>0, <2>1, <2>4, <2>5, <2>7, <3>1 DEF SampleInv, CalmInv, Good, Result
    <3>6. SampleInv'
      BY <1>0, <1>2, <2>1, <2>5, <3>1, <3>4, <3>5 DEF SampleInv, CalmInv, CommandOut, SrfDataTypes
    <3> QED BY <1>1, <2>3, <3>2, <3>3, <3>6 DEF SrfInv, SrfTypes
  <2> QED BY <1>6, <2>6, <2>7
<1> QED BY <1>3, <1>4, <1>5, <1>6 DEF S!TwiInterrupt

LEMMA SrfStep ==
  ASSUME SrfInv, S!Next \/ UNCHANGED S!vars
  PROVE  SrfInv'
BY SrfCallStep, SrfTimerStep, SrfBusStep DEF S!Next

\* What the reader copies, if nothing was received since it saw the offer.
LEMMA SrfSample ==
  ASSUME SrfInv, checked, srf_calm = 2, ~raced
  PROVE  S!IsOneRanging
<1>1. twi # "last"
  BY DEF SrfInv, OfferInv
<1>2. Good(number) \/ Good((number + 2) % 3)
  BY <1>1 DEF SrfInv, SampleInv
<1>3. ASSUME NEW n, Good(n)
      PROVE  \A i \in 0..1 : srf_rx_buf[i] = [ranging |-> n, byte |-> i]
  BY <1>3 DEF Good, Result
<1> QED BY <1>2, <1>3, Zenon DEF S!IsOneRanging

LEMMA SrfPromise ==
  /\ SrfInv => S!TypeOK
  /\ SrfInv /\ (S!Next \/ UNCHANGED S!vars) =>
       (checked /\ ~checked' /\ srf_calm = 2 /\ ~raced => S!IsOneRanging)
<1>1. SrfInv => S!TypeOK
  BY SrfTypesAre, Zenon DEF SrfInv
<1>2. ASSUME SrfInv, checked, srf_calm = 2, ~raced
      PROVE  S!IsOneRanging
  BY <1>2, SrfSample, Zenon
<1> QED BY <1>1, <1>2, Zenon

-----------------------------------------------------------------------------
(***************************************************************************)
(* Ltc24.  Unless a stop has left a transfer under way, at most the chip   *)
(* whose turn it is is selected, and then the byte that is fetched, or has *)
(* just been, is the one rx_index waits for.                               *)
(***************************************************************************)
LEMMA LtcConstants ==
  /\ LTC24_NUM \in Nat /\ LTC24_NUM > 0
  /\ RX_DATA_SIZE \in Nat /\ RX_DATA_SIZE > 1
BY DriversConstantsOK DEF T!Ltc24ConstantsOK

ByteAt(id, i) == [chips |-> {id}, place |-> i]

\* The value of converter id is being read.
Reading(id) ==
  /\ selected = {id} /\ ~timer_if /\ ltc_rx_index < RX_DATA_SIZE
  /\ \A j \in 0..(RX_DATA_SIZE - 1) : j < ltc_rx_index => ltc_rx_buf[j] = ByteAt(id, j)
  /\ \/ transfer = <<ByteAt(id, ltc_rx_index)>> /\ ~ltc_spi_if
     \/ transfer = << >> /\ ltc_spi_if /\ ltc_spi_rx = ByteAt(id, ltc_rx_index)
Resting == selected = {} /\ transfer = << >> /\ ~ltc_spi_if

Turn ==
  /\ value = T!ValueOf((taken + LTC24_NUM - 1) % LTC24_NUM)
  /\ started => ltc24_id = taken /\ (Resting \/ Reading(ltc24_id))
  /\ ~started => ltc24_id = 0 /\ Resting /\ ~timer_if

\* A byte fetched with another one under way is the stray one of an earlier start.
NoOverrun == ltc_spi_if /\ transfer # << >> => ltc_rx_index = 0
LtcInv == T!TypeOK /\ NoOverrun /\ (stray \/ Turn)

LtcFlagTypes ==
  /\ ltc_at \in {"enable", "poll", "byte"} /\ started \in BOOLEAN
  /\ timer_if \in BOOLEAN /\ ltc_spi_if \in BOOLEAN /\ stray \in BOOLEAN
LtcDataTypes ==
  /\ selected \subseteq T!Ids /\ ltc24_id \in T!Ids /\ taken \in T!Ids
  /\ ltc_rx_buf \in [0..(RX_DATA_SIZE - 1) -> T!Bytes] /\ ltc_spi_rx \in T!Bytes
  /\ ltc_rx_index \in 0..RX_DATA_SIZE /\ transfer \in {<< >>} \cup { <<b>> : b \in T!Bytes }
InBuffer == ltc_spi_if \/ transfer # << >> => ltc_rx_index < RX_DATA_SIZE

LEMMA LtcTypes == T!TypeOK <=> LtcFlagTypes /\ LtcDataTypes /\ InBuffer
BY Zenon DEF T!TypeOK, LtcFlagTypes, LtcDataTypes, InBuffer

LEMMA LtcTypesNext == T!TypeOK' <=> LtcFlagTypes' /\ LtcDataTypes' /\ InBuffer'
BY Zenon DEF T!TypeOK, LtcFlagTypes, LtcDataTypes, InBuffer, T!Ids, T!Bytes

LEMMA LtcDataNext ==
  LtcDataTypes' <=>
    /\ selected' \subseteq T!Ids /\ ltc24_id' \in T!Ids /\ taken' \in T!Ids
    /\ ltc_rx_buf' \in [0..(RX_DATA_SIZE - 1) -> T!Bytes] /\ ltc_spi_rx' \in T!Bytes
    /\ ltc_rx_index' \in 0..RX_DATA_SIZE /\ transfer' \in {<< >>} \cup { <<b>> : b \in T!Bytes }
BY Zenon DEF LtcDataTypes, T!Ids, T!Bytes

LEMMA LtcBytes ==
  /\ T!idle \in T!Bytes
  /\ \A id \in T!Ids, i \in 0..(RX_DATA_SIZE - 1) : ByteAt(id, i) \in T!Bytes
BY LtcConstants DEF T!idle, T!Bytes, T!Ids, ByteAt

\* The turn after a value was taken, and the value that was.
LEMMA NextTurn ==
  ASSUME NEW t \in T!Ids
  PROVE  /\ (t + 1) % LTC24_NUM = IF t + 1 = LTC24_NUM THEN 0 ELSE t + 1
         /\ (((t + 1) % LTC24_NUM) + LTC24_NUM - 1) % LTC24_NUM = t
<1>1. t \in Nat /\ t < LTC24_NUM /\ LTC24_NUM \in Nat /\ LTC24_NUM > 0
  BY LtcConstants DEF T!Ids
<1>2. CASE t + 1 = LTC24_NUM
  <2>1. LTC24_NUM % LTC24_NUM = 0
    BY <1>1
  <2>2. (0 + LTC24_NUM - 1) % LTC24_NUM = LTC24_NUM - 1
    BY <1>1
  <2> QED BY <1>1, <1>2, <2>1, <2>2
<1>3. CASE t + 1 < LTC24_NUM
  <2>1. (t + 1) % LTC24_NUM = t + 1
    BY <1>1, <1>3
  <2>2. t + 1 + LTC24_NUM - 1 = t + LTC24_NUM
    BY <1>1
  <2>3. (t + LTC24_NUM) % LTC24_NUM = t
    BY <1>1
  <2> QED BY <1>1, <1>3, <2>1, <2>2, <2>3
<1> QED BY <1>1, <1>2, <1>3

LEMMA LtcInit == T!Init => LtcInv
<1> SUFFICES ASSUME T!Init PROVE LtcInv
  OBVIOUS
<1> USE DEF T!Init
<1>1. LtcFlagTypes /\ ~ltc_spi_if /\ ~started /\ ~timer_if
  BY Zenon DEF LtcFlagTypes
<1>2. LtcDataTypes
  BY LtcConstants, LtcBytes DEF LtcDataTypes, T!Ids
<1>3. InBuffer /\ NoOverrun
  BY <1>1 DEF InBuffer, NoOverrun
<1>4. Turn
  <2>1. (0 + LTC24_NUM - 1) % LTC24_NUM = LTC24_NUM - 1
    BY LtcConstants
  <2> QED BY <1>1, <2>1 DEF Turn, Resting
<1> QED BY <1>1, <1>2, <1>3, <1>4, LtcTypes DEF LtcInv

\* The flags, whatever is done.
LEMMA LtcFlagStep ==
  ASSUME LtcFlagTypes, T!Next
  PROVE  LtcFlagTypes' /\ (stray => stray')
<1> USE DEF LtcFlagTypes, T!busVars
<1>1. ltc_at' \in {"enable", "poll", "byte"}
  BY Zenon DEF T!Next, T!Enable, T!PollConversion, T!PollByte, T!InputCapture, T!SpiInterrupt
<1>2. CASE T!Enable
  BY <1>1, <1>2, Zenon DEF T!Enable, T!Start, T!Stop, T!Leave
<1>3. CASE T!PollConversion
  BY <1>1, <1>3, Zenon DEF T!PollConversion, T!Converted, T!NotConverted
<1>4. CASE T!PollByte
  BY <1>1, <1>4, Zenon DEF T!PollByte, T!TakeByte
<1>5. CASE T!InputCapture \/ T!SpiInterrupt
  BY <1>1, <1>5, Zenon DEF T!InputCapture, T!SpiInterrupt
<1> QED BY <1>2, <1>3, <1>4, <1>5 DEF T!Next

\* The main loop starts or stops the converters, or leaves them.
LEMMA LtcEnableStep ==
  ASSUME LtcInv, T!Enable
  PROVE  LtcInv'
<1> USE DEF T!Enable, T!busVars
<1>0. LtcFlagTypes /\ LtcDataTypes /\ InBuffer /\ NoOverrun /\ (stray \/ Turn)
  BY LtcTypes DEF LtcInv
<1>1. LtcFlagTypes' /\ (stray => stray')
  BY <1>0, LtcFlagStep DEF T!Next
<1>2. CASE T!Start
  <2>1. /\ ~started /\ taken' = 0 /\ value' = T!ValueOf(LTC24_NUM - 1)
        /\ UNCHANGED <<selected, ltc24_id, ltc_rx_index, ltc_rx_buf, timer_if, ltc_spi_if,
                       ltc_spi_rx, transfer, stray>>
    BY <1>2 DEF T!Start
  <2>2. LtcDataTypes' /\ InBuffer' /\ NoOverrun'
    <3>1. 0 \in T!Ids
      BY LtcConstants DEF T!Ids
    <3> QED BY <1>0, <2>1, <3>1, LtcDataNext DEF LtcDataTypes, InBuffer, NoOverrun
  <2>3. stray' \/ Turn'
    <3>1. (0 + LTC24_NUM - 1) % LTC24_NUM = LTC24_NUM - 1
      BY LtcConstants
    <3>2. started'
      BY <1>2, Zenon DEF T!Start
    <3>3. Turn => ltc24_id = 0 /\ Resting
      BY <2>1 DEF Turn
    <3> QED BY <1>0, <2>1, <3>1, <3>2, <3>3 DEF Turn, Resting, T!ValueOf
  <2> QED BY <1>1, <2>2, <2>3, LtcTypesNext DEF LtcInv
<1>3. CASE T!Stop
  <2>1. /\ started /\ selected' = selected \ {ltc24_id} /\ ltc24_id' = 0 /\ ltc_rx_index' = 0
        /\ ltc_spi_rx' = T!idle /\ UNCHANGED <<ltc_rx_buf, transfer, value, taken>>
    BY <1>3 DEF T!Stop
  <2>2. /\ ~ltc_spi_if' /\ ~timer_if' /\ ~started'
        /\ stray' = (stray \/ transfer # << >>)
    BY <1>3, Zenon DEF T!Stop
  <2>3. LtcDataTypes' /\ InBuffer' /\ NoOverrun'
    <3>1. 0 \in T!Ids /\ 0 \in 0..RX_DATA_SIZE /\ 0 < RX_DATA_SIZE
      BY LtcConstants DEF T!Ids
    <3> QED BY <1>0, <2>1, <2>2, <3>1, LtcBytes, LtcDataNext
            DEF LtcDataTypes, InBuffer, NoOverrun
  <2>4. stray' \/ Turn'
    <3>1. SUFFICES ASSUME ~stray' PROVE Turn'
      OBVIOUS
    <3>2. Turn /\ transfer = << >>
      BY <1>0, <2>2, <3>1, Zenon
    <3>3. selected' = {}
      BY <2>1, <3>2 DEF Turn, Resting, Reading
    <3> QED BY <2>1, <2>2, <3>2, <3>3 DEF Turn, Resting, T!ValueOf
  <2> QED BY <1>1, <2>3, <2>4, LtcTypesNext DEF LtcInv
<1>4. CASE T!Leave
  <2>1. UNCHANGED <<started, selected, ltc24_id, ltc_rx_buf, ltc_rx_index, timer_if, ltc_spi_if,
                    ltc_spi_rx, transfer, value, taken, stray>>
    BY <1>4 DEF T!Leave
  <2>2. LtcDataTypes' /\ InBuffer' /\ NoOverrun'
    BY <1>0, <2>1 DEF LtcDataTypes, InBuffer, NoOverrun, T!Ids, T!Bytes
  <2>3. Turn => Turn'
    BY <2>1 DEF Turn, Resting, Reading, ByteAt, T!ValueOf
  <2> QED BY <1>0, <1>1, <2>1, <2>2, <2>3, LtcTypesNext DEF LtcInv
<1> QED BY <1>2, <1>3, <1>4

\* The two interrupts.
LEMMA LtcInterruptStep ==
  ASSUME LtcInv, T!InputCapture \/ T!SpiInterrupt
  PROVE  LtcInv'
<1>0. LtcFlagTypes /\ LtcDataTypes /\ InBuffer /\ NoOverrun /\ (stray \/ Turn)
  BY LtcTypes DEF LtcInv
<1>1. LtcFlagTypes' /\ (stray => stray')
  BY <1>0, LtcFlagStep DEF T!Next
<1>2. CASE T!InputCapture
  <2>1. /\ started /\ (stray \/ (transfer = << >> /\ ~ltc_spi_if /\ selected = {}))
        /\ UNCHANGED <<started, selected, ltc24_id, ltc_rx_buf, ltc_rx_index, ltc_spi_if,
                       ltc_spi_rx, transfer, value, taken, stray>>
    BY <1>2 DEF T!InputCapture
  <2>2. LtcDataTypes' /\ InBuffer' /\ NoOverrun'
    BY <1>0, <2>1 DEF LtcDataTypes, InBuffer, NoOverrun, T!Ids, T!Bytes
  <2>3. ~stray => Turn'
    BY <1>0, <2>1 DEF Turn, Resting, T!ValueOf
  <2> QED BY <1>1, <2>1, <2>2, <2>3, LtcTypesNext DEF LtcInv
<1>3. CASE T!SpiInterrupt
  <2>1. /\ transfer # << >> /\ transfer' = << >> /\ ltc_spi_rx' = transfer[1]
        /\ UNCHANGED <<started, selected, ltc24_id, ltc_rx_buf, ltc_rx_index, timer_if, value,
                       taken, stray>>
    BY <1>3 DEF T!SpiInterrupt
  <2>2. ltc_spi_if'
    BY <1>3, Zenon DEF T!SpiInterrupt
  <2>3. PICK b \in T!Bytes : transfer = <<b>>
    BY <1>0, <2>1 DEF LtcDataTypes
  <2>4. ltc_spi_rx' = b
    BY <2>1, <2>3
  <2>5. LtcDataTypes' /\ InBuffer' /\ NoOverrun'
    BY <1>0, <2>1, <2>4 DEF LtcDataTypes, InBuffer, NoOverrun, T!Ids, T!Bytes
  <2>6. ~stray => Turn'
    <3>1. SUFFICES ASSUME ~stray PROVE Turn'
      OBVIOUS
    <3>2. Turn /\ started /\ Reading(ltc24_id) /\ transfer = <<ByteAt(ltc24_id, ltc_rx_index)>>
      BY <1>0, <2>1, <3>1 DEF Turn, Resting, Reading
    <3>3. ltc_spi_rx' = ByteAt(ltc24_id, ltc_rx_index)
      BY <2>1, <3>2
    <3>4. Reading(ltc24_id)'
      BY <2>1, <2>2, <3>2, <3>3 DEF Reading, ByteAt
    <3> QED BY <2>1, <3>2, <3>4 DEF Turn, T!ValueOf
  <2> QED BY <1>1, <2>1, <2>5, <2>6, LtcTypesNext DEF LtcInv
<1> QED BY <1>2, <1>3

\* A write to SPDR.
LEMMA LtcTransferBegins ==
  ASSUME LtcDataTypes, T!StartTransfer, selected' \subseteq T!Ids,
         ltc_rx_index' \in 0..(RX_DATA_SIZE - 1)
  PROVE  transfer' \in {<< >>} \cup { <<b>> : b \in T!Bytes }
<1>1. [chips |-> selected', place |-> ltc_rx_index'] \in T!Bytes
  BY DEF T!Bytes
<1>2. transfer' = transfer \/ transfer' = <<T!idle>>
      \/ transfer' = <<[chips |-> selected', place |-> ltc_rx_index']>>
  BY DEF T!StartTransfer
<1> QED BY <1>1, <1>2, LtcBytes, Zenon DEF LtcDataTypes

\* The first half of ltc24_is_new_data: a chip that has converted is read from its start.
LEMMA LtcConversionStep ==
  ASSUME LtcInv, T!PollConversion
  PROVE  LtcInv'
<1>0. LtcFlagTypes /\ LtcDataTypes /\ InBuffer /\ NoOverrun /\ (stray \/ Turn)
  BY LtcTypes DEF LtcInv
<1>1. /\ LtcFlagTypes'
      /\ UNCHANGED <<started, ltc24_id, ltc_rx_buf, ltc_spi_if, ltc_spi_rx, value, taken, stray>>
  BY <1>0, LtcFlagStep DEF T!Next, T!PollConversion
<1>2. CASE T!Converted
  <2>1. timer_if /\ selected' = selected \cup {ltc24_id} /\ ltc_rx_index' = 0
        /\ T!StartTransfer
    BY <1>2 DEF T!Converted
  <2>2. ~timer_if'
    BY <1>2, Zenon DEF T!Converted
  <2>3. selected' \subseteq T!Ids /\ ltc_rx_index' \in 0..(RX_DATA_SIZE - 1)
    BY <1>0, <2>1, LtcConstants DEF LtcDataTypes
  <2>4. LtcDataTypes' /\ InBuffer' /\ NoOverrun'
    <3>1. transfer' \in {<< >>} \cup { <<b>> : b \in T!Bytes }
      BY <1>0, <2>1, <2>3, LtcTransferBegins
    <3> QED BY <1>0, <1>1, <2>1, <2>3, <3>1, LtcConstants
            DEF LtcDataTypes, InBuffer, NoOverrun, T!Ids, T!Bytes
  <2>5. ~stray => Turn'
    <3>1. SUFFICES ASSUME ~stray PROVE Turn'
      OBVIOUS
    <3>2. Turn /\ started /\ Resting
      BY <1>0, <2>1, <3>1 DEF Turn, Reading
    <3>3. selected' = {ltc24_id}
      BY <2>1, <3>2 DEF Resting
    <3>4. transfer' = <<ByteAt(ltc24_id, 0)>>
      BY <2>1, <3>1, <3>2, <3>3 DEF Resting, T!StartTransfer, ByteAt
    <3>5. Reading(ltc24_id)'
      BY <1>1, <2>1, <2>2, <3>2, <3>3, <3>4, LtcConstants DEF Reading, Resting, ByteAt
    <3> QED BY <1>1, <3>2, <3>5 DEF Turn, T!ValueOf
  <2> QED BY <1>1, <2>4, <2>5, LtcTypesNext DEF LtcInv
<1>3. CASE T!NotConverted
  <2>1. /\ selected' = IF timer_if THEN selected \ {ltc24_id} ELSE selected
        /\ UNCHANGED <<timer_if, ltc_rx_index, transfer>>
    BY <1>3 DEF T!NotConverted
  <2>2. LtcDataTypes' /\ InBuffer' /\ NoOverrun'
    BY <1>0, <1>1, <2>1 DEF LtcDataTypes, InBuffer, NoOverrun, T!Ids, T!Bytes
  <2>3. Turn => Turn'
    BY <1>1, <2>1 DEF Turn, Resting, Reading, ByteAt, T!ValueOf
  <2> QED BY <1>0, <1>1, <2>2, <2>3, LtcTypesNext DEF LtcInv
<1> QED BY <1>2, <1>3 DEF T!PollConversion

\* The second half: a byte is taken, which may be the last of its value.
LEMMA LtcByteStep ==
  ASSUME LtcInv, T!PollByte
  PROVE  LtcInv'
<1>0. LtcFlagTypes /\ LtcDataTypes /\ InBuffer /\ NoOverrun /\ (stray \/ Turn)
  BY LtcTypes DEF LtcInv
<1>1. LtcFlagTypes' /\ UNCHANGED <<started, timer_if, ltc_spi_rx, stray>>
  BY <1>0, LtcFlagStep DEF T!Next, T!PollByte
<1>2. CASE ~ltc_spi_if
  <2>1. UNCHANGED <<ltc_spi_if, ltc_rx_buf, ltc_rx_index, selected, ltc24_id, value, taken,
                    transfer>>
    BY <1>2 DEF T!PollByte
  <2>2. LtcDataTypes' /\ InBuffer' /\ NoOverrun'
    BY <1>0, <1>1, <2>1 DEF LtcDataTypes, InBuffer, NoOverrun, T!Ids, T!Bytes
  <2>3. Turn => Turn'
    BY <1>1, <2>1 DEF Turn, Resting, Reading, ByteAt, T!ValueOf
  <2> QED BY <1>0, <1>1, <2>2, <2>3, LtcTypesNext DEF LtcInv
<1>3. CASE ltc_spi_if
  <2>1. T!TakeByte
    BY <1>3 DEF T!PollByte
  <2>2. ~ltc_spi_if'
    BY <2>1, Zenon DEF T!TakeByte
  <2>3. ltc_rx_index \in 0..(RX_DATA_SIZE - 1)
    BY <1>0, <1>3, LtcConstants DEF InBuffer, LtcDataTypes
  <2>4. /\ ltc_rx_index' = ltc_rx_index + 1
        /\ ltc_rx_buf' = [ltc_rx_buf EXCEPT ![ltc_rx_index] = ltc_spi_rx]
        /\ ltc_rx_buf' \in [0..(RX_DATA_SIZE - 1) -> T!Bytes]
        /\ ltc_rx_buf'[ltc_rx_index] = ltc_spi_rx
        /\ \A j \in 0..(RX_DATA_SIZE - 1) :
             j # ltc_rx_index => ltc_rx_buf'[j] = ltc_rx_buf[j]
    BY <1>0, <2>1, <2>3 DEF T!TakeByte, LtcDataTypes
  <2>5. ASSUME ~stray
        PROVE  /\ Turn /\ started /\ Reading(ltc24_id) /\ ltc24_id = taken
               /\ transfer = << >> /\ ltc_spi_rx = ByteAt(ltc24_id, ltc_rx_index)
               /\ \A j \in 0..(RX_DATA_SIZE - 1) :
                    j <= ltc_rx_index => ltc_rx_buf'[j] = ByteAt(ltc24_id, j)
    <3>1. Turn /\ started /\ Reading(ltc24_id) /\ ltc24_id = taken
      BY <1>0, <1>3, <2>5 DEF Turn, Resting
    <3>2. transfer = << >> /\ ltc_spi_rx = ByteAt(ltc24_id, ltc_rx_index)
      BY <1>3, <3>1 DEF Reading
    <3>3. ASSUME NEW j \in 0..(RX_DATA_SIZE - 1), j <= ltc_rx_index
          PROVE  ltc_rx_buf'[j] = ByteAt(ltc24_id, j)
      <4>1. CASE j = ltc_rx_index
        BY <2>4, <3>2, <4>1
      <4>2. CASE j # ltc_rx_index
        <5>1. j < ltc_rx_index
          BY <2>3, <3>3, <4>2
        <5> QED BY <2>4, <3>1, <4>2, <5>1 DEF Reading
      <4> QED BY <4>1, <4>2
    <3> QED BY <3>1, <3>2, <3>3
  <2>6. CASE ltc_rx_index + 1 = RX_DATA_SIZE
    <3>1. /\ selected' = selected \ {ltc24_id} /\ value' = ltc_rx_buf'
          /\ ltc24_id' = IF ltc24_id + 1 = LTC24_NUM THEN 0 ELSE ltc24_id + 1
          /\ taken' = (taken + 1) % LTC24_NUM /\ UNCHANGED transfer
      BY <2>1, <2>4, <2>6 DEF T!TakeByte, T!EndOfValue, T!NextId
    <3>2. ltc24_id' \in T!Ids /\ taken' \in T!Ids
      BY <1>0, <3>1, LtcConstants, NextTurn DEF LtcDataTypes, T!Ids
    <3>3. LtcDataTypes'
      <4>1. ltc_rx_index' \in 0..RX_DATA_SIZE
        BY <2>3, <2>4, LtcConstants
      <4> QED BY <1>0, <1>1, <2>4, <3>1, <3>2, <4>1, LtcDataNext DEF LtcDataTypes
    <3>4. transfer' = << >>
      BY <1>0, <1>3, <2>6, <3>1, LtcConstants DEF NoOverrun
    <3>5. InBuffer' /\ NoOverrun'
      BY <2>2, <3>4 DEF InBuffer, NoOverrun
    <3>6. ~stray => Turn'
      <4>1. SUFFICES ASSUME ~stray PROVE Turn'
        OBVIOUS
      <4>2. taken \in T!Ids
        BY <1>0 DEF LtcDataTypes
      <4>3. ltc24_id' = taken' /\ (taken' + LTC24_NUM - 1) % LTC24_NUM = taken
        BY <2>5, <3>1, <4>1, <4>2, NextTurn
      <4>4. \A j \in 0..(RX_DATA_SIZE - 1) : ltc_rx_buf'[j] = ByteAt(taken, j)
        <5>1. \A j \in 0..(RX_DATA_SIZE - 1) : j <= ltc_rx_index
          BY <2>6, LtcConstants, <2>3
        <5> QED BY <2>5, <4>1, <5>1
      <4>5. value' = T!ValueOf(taken)
        <5> DEFINE D == 0..(RX_DATA_SIZE - 1)
        <5>1. ltc_rx_buf' \in [D -> T!Bytes] /\ T!ValueOf(taken) = [j \in D |-> ByteAt(taken, j)]
              /\ \A j \in D : ltc_rx_buf'[j] = ByteAt(taken, j)
          BY <2>4, <4>4, Zenon DEF T!ValueOf, ByteAt
        <5> HIDE DEF D
        <5>2. ltc_rx_buf' = T!ValueOf(taken)
          BY <5>1
        <5> QED BY <3>1, <5>2
      <4>6. Resting'
        BY <2>2, <2>5, <3>1, <3>4, <4>1 DEF Resting, Reading
      <4> QED BY <1>1, <2>5, <4>1, <4>3, <4>5, <4>6 DEF Turn, T!ValueOf
    <3> QED BY <1>1, <3>3, <3>5, <3>6, LtcTypesNext DEF LtcInv
  <2>7. CASE ltc_rx_index + 1 # RX_DATA_SIZE
    <3>1. UNCHANGED <<selected, ltc24_id, value, taken>> /\ T!StartTransfer
      BY <2>1, <2>4, <2>7 DEF T!TakeByte
    <3>2. ltc_rx_index' \in 0..(RX_DATA_SIZE - 1)
      BY <2>3, <2>4, <2>7, LtcConstants
    <3>3. LtcDataTypes'
      <4>1. selected' \subseteq T!Ids
        BY <1>0, <3>1 DEF LtcDataTypes
      <4>2. transfer' \in {<< >>} \cup { <<b>> : b \in T!Bytes }
        BY <1>0, <3>1, <3>2, <4>1, LtcTransferBegins
      <4>3. ltc_rx_index' \in 0..RX_DATA_SIZE
        BY <3>2, LtcConstants
      <4> QED BY <1>0, <1>1, <2>4, <3>1, <4>2, <4>3, LtcDataNext DEF LtcDataTypes
    <3>4. InBuffer' /\ NoOverrun'
      BY <2>2, <3>2, LtcConstants DEF InBuffer, NoOverrun
    <3>5. ~stray => Turn'
      <4>1. SUFFICES ASSUME ~stray PROVE Turn'
        OBVIOUS
      <4>2. transfer' = <<ByteAt(ltc24_id, ltc_rx_index')>>
        BY <2>5, <3>1, <4>1 DEF T!StartTransfer, Reading, ByteAt
      <4>3. \A j \in 0..(RX_DATA_SIZE - 1) :
              j < ltc_rx_index' => ltc_rx_buf'[j] = ByteAt(ltc24_id, j)
        BY <2>3, <2>4, <2>5, <4>1
      <4>4. Reading(ltc24_id)'
        BY <1>1, <2>2, <2>5, <3>1, <3>2, <4>1, <4>2, <4>3, LtcConstants DEF Reading, ByteAt
      <4> QED BY <1>1, <2>5, <3>1, <4>1, <4>4 DEF Turn, T!ValueOf
    <3> QED BY <1>1, <3>3, <3>4, <3>5, LtcTypesNext DEF LtcInv
  <2> QED BY <2>6, <2>7
<1> QED BY <1>2, <1>3

LEMMA LtcStep == ASSUME LtcInv, T!Next \/ UNCHANGED T!vars PROVE LtcInv'
<1>1. CASE UNCHANGED T!vars
  <2>1. UNCHANGED <<ltc_at, started, selected, ltc24_id, ltc_rx_buf, ltc_rx_index, timer_if,
                    ltc_spi_if, ltc_spi_rx, transfer, value, taken, stray>>
    BY <1>1 DEF T!vars, T!busVars
  <2>2. LtcFlagTypes' /\ LtcDataTypes' /\ InBuffer' /\ NoOverrun'
    BY <2>1, LtcTypes DEF LtcInv, LtcFlagTypes, LtcDataTypes, InBuffer, NoOverrun, T!Ids, T!Bytes
  <2>3. Turn => Turn'
    BY <2>1 DEF Turn, Resting, Reading, ByteAt, T!ValueOf
  <2> QED BY <2>1, <2>2, <2>3, LtcTypesNext DEF LtcInv
<1> QED BY <1>1, LtcEnableStep, LtcInterruptStep, LtcConversionStep, LtcByteStep DEF T!Next

LEMMA LtcPromise == LtcInv => T!TypeOK /\ T!ValuesComeInTurn
BY DEF LtcInv, Turn, T!ValuesComeInTurn

-----------------------------------------------------------------------------
(***************************************************************************)
(* All drivers.  They share nothing: a step is one of one driver, and the  *)
(* others stay as they are.                                                *)
(***************************************************************************)
DriversInv ==
  /\ AnalogInv /\ ImuInv /\ ParallelInv /\ BmuInv /\ LaserInv /\ SrfInv /\ LtcInv

LEMMA DriversBegin == Init => DriversInv
BY AnalogInit, ImuInit, ParallelInit, BmuInit, LaserInit, SrfInit, LtcInit, Zenon
   DEF Init, DriversInv

LEMMA StepOfDrivers ==
  ASSUME [Next]_vars
  PROVE  /\ A!Next \/ UNCHANGED A!vars
         /\ I!Next \/ UNCHANGED I!vars
         /\ P!Next \/ UNCHANGED P!vars
         /\ B!Next \/ UNCHANGED B!vars
         /\ L!Next \/ UNCHANGED L!vars
         /\ S!Next \/ UNCHANGED S!vars
         /\ T!Next \/ UNCHANGED T!vars
<1>1. /\ UNCHANGED adcVars => UNCHANGED A!vars
      /\ UNCHANGED imuVars => UNCHANGED I!vars
      /\ UNCHANGED parVars => UNCHANGED P!vars
      /\ UNCHANGED bmuVars => UNCHANGED B!vars
      /\ UNCHANGED lsmVars => UNCHANGED L!vars
      /\ UNCHANGED srfVars => UNCHANGED S!vars
      /\ UNCHANGED ltcVars => UNCHANGED T!vars
  BY DEF adcVars, A!vars, A!adcVars, A!pinVars, A!sonarVars, A!minia, imuVars, I!vars,
         I!txVars, I!lineVars, I!rxVars, parVars, P!vars, P!txVars, P!rxVars, P!history,
         bmuVars, B!vars, B!spiVars, lsmVars, L!vars, L!txVars, L!laserVars, L!rxVars,
         srfVars, S!vars, S!settingVars, S!addrVars, S!busVars, S!dataVars, S!sonarVars,
         ltcVars, T!vars, T!busVars
<1>2. \/ UNCHANGED vars
      \/ A!Next /\ UNCHANGED <<imuVars, parVars, bmuVars, lsmVars, srfVars, ltcVars>>
      \/ I!Next /\ UNCHANGED <<adcVars, parVars, bmuVars, lsmVars, srfVars, ltcVars>>
      \/ P!Next /\ UNCHANGED <<adcVars, imuVars, bmuVars, lsmVars, srfVars, ltcVars>>
      \/ B!Next /\ UNCHANGED <<adcVars, imuVars, parVars, lsmVars, srfVars, ltcVars>>
      \/ L!Next /\ UNCHANGED <<adcVars, imuVars, parVars, bmuVars, srfVars, ltcVars>>
      \/ S!Next /\ UNCHANGED <<adcVars, imuVars, parVars, bmuVars, lsmVars, ltcVars>>
      \/ T!Next /\ UNCHANGED <<adcVars, imuVars, parVars, bmuVars, lsmVars, srfVars>>
  BY Zenon DEF Next
<1>3. UNCHANGED vars
        => /\ UNCHANGED adcVars /\ UNCHANGED imuVars /\ UNCHANGED parVars
           /\ UNCHANGED bmuVars /\ UNCHANGED lsmVars /\ UNCHANGED srfVars
           /\ UNCHANGED ltcVars
  BY DEF vars
<1> QED BY <1>1, <1>2, <1>3

LEMMA DriversStep == DriversInv /\ [Next]_vars => DriversInv'
<1> SUFFICES ASSUME DriversInv, [Next]_vars PROVE DriversInv'
  OBVIOUS
<1>1. AnalogInv'
  BY StepOfDrivers, AnalogStep, Zenon DEF DriversInv
<1>2. ImuInv'
  BY StepOfDrivers, ImuStep, Zenon DEF DriversInv
<1>3. ParallelInv'
  BY StepOfDrivers, ParallelStep, Zenon DEF DriversInv
<1>4. BmuInv'
  BY StepOfDrivers, BmuStep, Zenon DEF DriversInv
<1>5. LaserInv'
  BY StepOfDrivers, LaserStep, Zenon DEF DriversInv
<1>6. SrfInv'
  BY StepOfDrivers, SrfStep, Zenon DEF DriversInv
<1>7. LtcInv'
  BY StepOfDrivers, LtcStep, Zenon DEF DriversInv
<1> QED BY <1>1, <1>2, <1>3, <1>4, <1>5, <1>6, <1>7, Zenon DEF DriversInv

LEMMA DriversAlways == FairSpec => []DriversInv
<1> QED BY DriversBegin, DriversStep, PTL DEF FairSpec, Spec

-----------------------------------------------------------------------------
\* The types of all drivers, and with them that every index stays in its buffer,
\* whatever interrupt comes late (adc.c, dm3gx1.c, bmu09a.c, lsm.c, srf10.c, ltc24.c).
\* The receivers of parallel.c are cut off at the end of their buffers, which their
\* index may reach: nothing is said of what the code does there.
THEOREM DriverTypesCorrect == FairSpec => []TypeOK
<1>1. DriversInv => TypeOK
  BY AnalogPromise, ImuPromise, ParallelPromise, BmuPromise, LaserPromise, SrfPromise, LtcPromise,
     Zenon DEF DriversInv, TypeOK
<1> QED BY <1>1, DriversAlways, PTL

\* Each request for a sample of the inertial sensor puts one command on the line, also
\* when the interrupt comes while the command is stored and when requests come faster
\* than replies (dm3gx1.c).  The bytes on the parallel lines are taken in their order
\* for as long as neither of the two free-running boards is ahead of the other; nothing
\* is said of what comes after (parallel.c).
THEOREM CommandsApart == FairSpec => []CommandsKeepApart
<1>1. DriversInv => CommandsKeepApart
  BY ImuPromise, ParallelPromise, Zenon DEF DriversInv, CommandsKeepApart
<1> QED BY <1>1, DriversAlways, PTL

\* What a main loop copies from a driver is one sample and what it is taken for (adc.c,
\* dm3gx1.c, bmu09a.c, ltc24.c, srf10.c), but for three windows that the formulas leave
\* out because the code tears samples in them: a BMU once started with a transfer of
\* before its stop pending (tainted), LTC24 converters stopped in the middle of a
\* transfer (stray), and the handler of the SRF10 between the check of new_data and cli
\* (raced).
THEOREM SamplesWhole == FairSpec => SamplesAreWhole
<1>1. DriversInv =>
        A!OwnChannel /\ I!SampleIsOneReply /\ B!SampleFromItsChips /\ T!ValuesComeInTurn
  BY AnalogPromise, ImuPromise, BmuPromise, LtcPromise, Zenon DEF DriversInv
<1>2. DriversInv /\ [Next]_vars =>
        [checked /\ ~checked' /\ srf_calm = 2 /\ ~raced => S!IsOneRanging]_(S!vars)
  <2> SUFFICES ASSUME DriversInv, [Next]_vars
               PROVE  checked /\ ~checked' /\ srf_calm = 2 /\ ~raced => S!IsOneRanging
    OBVIOUS
  <2> QED BY StepOfDrivers, SrfPromise, Zenon DEF DriversInv
<1> QED BY <1>1, <1>2, DriversAlways, PTL DEF FairSpec, Spec, SamplesAreWhole, S!SampleIsOneRanging

\* Each pulse of the sonar is converted once, whatever the battery asks of the converter
\* meanwhile; a wild sample or two never move the reported value and a steady one does;
\* and a stopped sonar rests (adc.c, minia.c, robo1.c).
THEOREM SonarPlausible == FairSpec => SonarIsPlausible
<1>1. DriversInv => A!OnePerPulse /\ A!SonarFollows /\ A!StoppedSonarRests
  BY AnalogPromise, Zenon DEF DriversInv
<1>2. DriversInv /\ [Next]_vars =>
        [A!Far(sonar, sonar') =>
           Len(recent') = 3 /\ \A i \in 1..3 : A!Far(recent'[i], sonar)]_(A!vars)
  <2> SUFFICES ASSUME DriversInv, [Next]_vars
               PROVE  A!Far(sonar, sonar') =>
                        Len(recent') = 3 /\ \A i \in 1..3 : A!Far(recent'[i], sonar)
    OBVIOUS
  <2> QED BY StepOfDrivers, AnalogPromise, Zenon DEF DriversInv
<1> QED BY <1>1, <1>2, DriversAlways, PTL DEF FairSpec, Spec, SonarIsPlausible, A!SonarJumpsLate
=================================================================================
