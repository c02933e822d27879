------------------------------ MODULE MCDrivers ------------------------------
(***************************************************************************)
(* Small instances of the drivers of the two Robostix boards, for TLC.     *)
(* They do not share anything: every behaviour is one of the driver chosen *)
(* at the beginning, and the others stay as they begin.                    *)
(***************************************************************************)
EXTENDS Integers, Sequences

CONSTANTS
  Samples, Near, ConvRounds, PacketGap, MinPhase,                       \* AnalogSensors
  FrameSize, ImuTxSize, RequestGap, LookAlikes, MaxLost,                \* ImuPort
  Overhead, PacketSize, ParBufSize,                                     \* ParallelLink
  MapsSize, TempSize, BattSize,                                         \* Bmu09a
  LineSize, ErrorSize, LaserTxSize, CommandGap,                         \* LaserPort
  Addresses, DefAddress, Periods, DefPeriod, RangingTime, MaxSettings,  \* Srf10
  LTC24_NUM, RX_DATA_SIZE                                               \* Ltc24

VARIABLES
  part,
  adc_at, current_ch, waiting_ch, mux, adif, conv_age, data_buf, adc_new_data,
  pulse_low, phase_age, packet_age, already_converted, outlier_count, sonar,
  sensors_enabled, adc_toie2, trigger, adc_owed, recent,
  imu_at, slot, imu_tx_items, imu_tx_index, imu_tx_buf, imu_udrie, imu_udr, request_age,
  imu_pos, reply, likes, disturbed, lost, fifo, imu_rx_index, imu_rx_buf, imu_sample,
  imu_owed, imu_calm,
  if_ready, sending, par_tx_items, par_tx_index, driven, par_rx_items, par_rx_index,
  intact, flag_new_request, waiting, upset,
  bmu_at, bmu_enabled, spie, spif, spdr, arrived, cs, poll_eoc, bmu_spi_rx, bmu_spi_if,
  bmu_rx_buf, bmu_rx_index, bmu_sample, fresh, tainted,
  lsm_enabled, lsm_tx_buf, lsm_tx_items, lsm_tx_index, lsm_udrie, lsm_udr, age, command,
  laser_on, line, lsm_pos, received, lsm_rx_buf, lsm_rx_index, lsm_sample, undisturbed,
  srf_toie2, step, ticks, i2c_state, twi, srf_tx_buf, srf_tx_index, srf_rx_buf,
  srf10_addr, srf10_period, new_addr, new_range, new_gain, srf_new_data, new_result,
  checked, address, register, ranging, number, settings, srf_calm, raced, misled,
  ltc_at, started, selected, ltc24_id, ltc_rx_buf, ltc_rx_index, timer_if, ltc_spi_if,
  ltc_spi_rx, transfer, value, taken, stray

A == INSTANCE AnalogSensors WITH at <- adc_at, new_data <- adc_new_data, toie2 <-
       adc_toie2, owed <- adc_owed
I == INSTANCE ImuPort WITH at <- imu_at, tx_items <- imu_tx_items, tx_index <-
       imu_tx_index, tx_buf <- imu_tx_buf, udrie <- imu_udrie, udr <- imu_udr, pos <-
       imu_pos, rx_index <- imu_rx_index, rx_buf <- imu_rx_buf, sample <- imu_sample,
       owed <- imu_owed, calm <- imu_calm, TxSize <- ImuTxSize
P == INSTANCE ParallelLink WITH tx_items <- par_tx_items, tx_index <- par_tx_index,
       rx_items <- par_rx_items, rx_index <- par_rx_index, BufSize <- ParBufSize
B == INSTANCE Bmu09a WITH at <- bmu_at, enabled <- bmu_enabled, spi_rx <- bmu_spi_rx,
       spi_if <- bmu_spi_if, rx_buf <- bmu_rx_buf, rx_index <- bmu_rx_index, sample <-
       bmu_sample
L == INSTANCE LaserPort WITH enabled <- lsm_enabled, tx_buf <- lsm_tx_buf, tx_items <-
       lsm_tx_items, tx_index <- lsm_tx_index, udrie <- lsm_udrie, udr <- lsm_udr, pos
       <- lsm_pos, rx_buf <- lsm_rx_buf, rx_index <- lsm_rx_index, sample <- lsm_sample,
       TxSize <- LaserTxSize
S == INSTANCE Srf10 WITH toie2 <- srf_toie2, tx_buf <- srf_tx_buf, tx_index <-
       srf_tx_index, rx_buf <- srf_rx_buf, new_data <- srf_new_data, calm <- srf_calm
T == INSTANCE Ltc24 WITH at <- ltc_at, rx_buf <- ltc_rx_buf, rx_index <- ltc_rx_index,
       spi_if <- ltc_spi_if, spi_rx <- ltc_spi_rx

ASSUME DriversConstantsOK ==
  /\ A!AnalogConstantsOK /\ I!ImuConstantsOK /\ P!LinkConstantsOK /\ B!BmuConstantsOK
  /\ L!LaserConstantsOK /\ S!Srf10ConstantsOK /\ T!Ltc24ConstantsOK

adcVars == <<adc_at, current_ch, waiting_ch, mux, adif, conv_age, data_buf,
            adc_new_data, pulse_low, phase_age, packet_age, already_converted,
            outlier_count, sonar, sensors_enabled, adc_toie2, trigger, adc_owed,
            recent>>
imuVars == <<imu_at, slot, imu_tx_items, imu_tx_index, imu_tx_buf, imu_udrie, imu_udr,
            request_age, imu_pos, reply, likes, disturbed, lost, fifo, imu_rx_index,
            imu_rx_buf, imu_sample, imu_owed, imu_calm>>
parVars == <<if_ready, sending, par_tx_items, par_tx_index, driven, par_rx_items,
            par_rx_index, intact, flag_new_request, waiting, upset>>
bmuVars == <<bmu_at, bmu_enabled, spie, spif, spdr, arrived, cs, poll_eoc, bmu_spi_rx,
            bmu_spi_if, bmu_rx_buf, bmu_rx_index, bmu_sample, fresh, tainted>>
lsmVars == <<lsm_enabled, lsm_tx_buf, lsm_tx_items, lsm_tx_index, lsm_udrie, lsm_udr,
            age, command, laser_on, line, lsm_pos, received, lsm_rx_buf, lsm_rx_index,
            lsm_sample, undisturbed>>
srfVars == <<srf_toie2, step, ticks, i2c_state, twi, srf_tx_buf, srf_tx_index,
            srf_rx_buf, srf10_addr, srf10_period, new_addr, new_range, new_gain,
            srf_new_data, new_result, checked, address, register, ranging, number,
            settings, srf_calm, raced, misled>>
ltcVars == <<ltc_at, started, selected, ltc24_id, ltc_rx_buf, ltc_rx_index, timer_if,
            ltc_spi_if, ltc_spi_rx, transfer, value, taken, stray>>
vars == <<part, adcVars, imuVars, parVars, bmuVars, lsmVars, srfVars, ltcVars>>

Init ==
  /\ part \in {"analog", "imu", "parallel", "bmu", "laser", "srf10", "ltc24"}
  /\ A!Init /\ I!Init /\ P!Init /\ B!Init /\ L!Init /\ S!Init /\ T!Init
  /\ part = "laser" \/ ~laser_on

Next ==
  /\ UNCHANGED part
  /\ \/ part = "analog" /\ A!Next
        /\ UNCHANGED <<imuVars, parVars, bmuVars, lsmVars, srfVars, ltcVars>>
     \/ part = "imu" /\ I!Next
        /\ UNCHANGED <<adcVars, parVars, bmuVars, lsmVars, srfVars, ltcVars>>
     \/ part = "parallel" /\ P!Next
        /\ UNCHANGED <<adcVars, imuVars, bmuVars, lsmVars, srfVars, ltcVars>>
     \/ part = "bmu" /\ B!Next
        /\ UNCHANGED <<adcVars, imuVars, parVars, lsmVars, srfVars, ltcVars>>
     \/ part = "laser" /\ L!Next
        /\ UNCHANGED <<adcVars, imuVars, parVars, bmuVars, srfVars, ltcVars>>
     \/ part = "srf10" /\ S!Next
        /\ UNCHANGED <<adcVars, imuVars, parVars, bmuVars, lsmVars, ltcVars>>
     \/ part = "ltc24" /\ T!Next
        /\ UNCHANGED <<adcVars, imuVars, parVars, bmuVars, lsmVars, srfVars>>

Spec == Init /\ [][Next]_vars

\* That of the drivers that promise something in the end; the analog sensors, the
\* inertial sensor and the LTC24 converters make none.
FairSpec ==
  /\ Spec
  /\ \A b \in P!Boards : WF_parVars(part = "parallel" /\ P!Board(b))
  /\ WF_bmuVars(part = "bmu" /\ B!Loop)
  /\ SF_bmuVars(part = "bmu" /\ B!PollConversion)
  /\ WF_bmuVars(part = "bmu" /\ B!TransferEnds)
  /\ WF_bmuVars(part = "bmu" /\ B!SpiInterrupt)
  /\ WF_lsmVars(part = "laser" /\ L!DataRegisterEmpty)
  /\ WF_lsmVars(part = "laser" /\ L!ByteTime)
  /\ WF_lsmVars(part = "laser" /\ L!TakeByte)
  /\ WF_srfVars(part = "srf10" /\ S!TimerOverflow)
  /\ WF_srfVars(part = "srf10" /\ S!TwiInterrupt)
  /\ WF_srfVars(part = "srf10" /\ S!RangingEnds)
  /\ SF_srfVars(part = "srf10" /\ S!CheckNewData)
  /\ WF_srfVars(part = "srf10" /\ S!CopyData)

-----------------------------------------------------------------------------
\* The types of all drivers, and with them that every index stays in its buffer and
\* is not moved by an interrupt that comes late; the index of parallel.c may reach the
\* end of its buffer, where the receiver is cut off.
TypeOK == A!TypeOK /\ I!TypeOK /\ P!TypeOK /\ B!TypeOK /\ L!TypeOK /\ S!TypeOK /\ T!TypeOK

\* What a main loop copies from a driver is one sample and what it is taken for: a
\* conversion is filed under its channel (adc.c), a reply of the inertial sensor is
\* never made of two (dm3gx1.c), the bytes of the BMU and of the LTC24 converters are
\* from the chips they are taken for (bmu09a.c, ltc24.c), a range has both its bytes
\* from one ranging (srf10.c).  Three windows are left out, in which the code does tear
\* a sample: the BMU was started, ever, with a transfer of before its stop pending
\* (bmu09a.c 132-146), the LTC24 converters were stopped in the middle of a transfer
\* (ltc24.c 165-182), and the handler of the SRF10 came in between the check of
\* new_data and cli (srf10.c 176-181).
SamplesAreWhole ==
  /\ [](A!OwnChannel /\ I!SampleIsOneReply /\ B!SampleFromItsChips /\ T!ValuesComeInTurn)
  /\ S!SampleIsOneRanging

\* The sonar of Robostix 1 (minia.c, robo1.c): each pulse is converted once, a wild
\* sample or two never move the value that is reported, a steady one does, and a
\* stopped sonar is not triggered by an interrupt that came in between.
SonarIsPlausible ==
  /\ [](A!OnePerPulse /\ A!SonarFollows /\ A!StoppedSonarRests)
  /\ A!SonarJumpsLate

\* A main loop and an interrupt handler, or two boards, that write to the same buffer
\* or lines: each request for a sample of the inertial sensor puts one command on the
\* line, though the handler resets the indices it is written with (dm3gx1.c); and the
\* bytes of the parallel lines are taken in their order up to the first time one board
\* is ahead of the other (parallel.c), which the free-running boards do not exclude.
CommandsKeepApart == I!OneCommandPerRequest /\ P!BytesInOrder

\* What a driver gets over: the BMU goes on giving samples while it is on, the SRF10
\* once transfers no longer fail, the laser obeys its last command and each of its
\* lines is taken, and the inertial sensor is back in step two replies after one that
\* was disturbed or cut off.  A request over the parallel lines is answered unless one
\* board is ahead of the other, or a reset cuts in.
DriversKeepGoing ==
  /\ part = "parallel" => P!RequestAnswered
  /\ part \in {"bmu", "laser"} => B!BmuKeepsSampling /\ L!LaserObeys /\ L!LaserRests
  /\ L!LinesAreTaken
  /\ part = "srf10" => S!SonarKeepsMeasuring
  /\ []I!ReplyIsTaken
=============================================================================
