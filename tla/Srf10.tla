--------------------------------- MODULE Srf10 ---------------------------------
(***************************************************************************)
(* The driver of the SRF10 sonar (srf10.c): a state machine that timer T2  *)
(* moves on, the handler of the two-wire bus, and the calls of a main loop *)
(* that may start, stop, set up and read the sonar whenever it likes.  No  *)
(* board uses the driver at present.                                       *)
(*                                                                         *)
(* The sonar at the other end is known by its address, by the register it  *)
(* is going to be read at and by the number of its last ranging.  It does  *)
(* not answer while it is ranging.  twi is what the bus does next; the     *)
(* hardware reports it to the handler.                                     *)
(*                                                                         *)
(* A definition named X_Variant is not part of the model: it is X with a   *)
(* plausible slip in the code, kept to see that a property notices it.     *)
(***************************************************************************)
EXTENDS Integers, Sequences

CONSTANTS
  Addresses,     \* SRF10_MIN_ADDR .. SRF10_MAX_ADDR
  DefAddress,    \* SRF10_DEF_ADDR
  Periods,       \* SRF10_MIN_PERIOD .. SRF10_MAX_PERIOD, that are tried
  DefPeriod,     \* SRF10_DEF_PERIOD
  RangingTime,   \* milliseconds the sonar is ranging
  MaxSettings    \* bound: calls of srf10_set_...

Srf10ConstantsOK ==
  /\ Periods \subseteq Nat \ {0} /\ DefPeriod \in Periods
  /\ RangingTime \in Nat /\ MaxSettings \in Nat /\ DefAddress \in Addresses /\ "none" \notin Addresses

VARIABLES
  toie2,                           \* T2 interrupt enabled
  step, ticks,                     \* state and ticks of SIG_OVERFLOW2
  i2c_state,                       \* "idle", "tx", "rx"
  twi,                             \* "off", "start", "address", "data", "first", "last"
  tx_buf, tx_index, rx_buf,        \* rx_index is told by twi
  srf10_addr, srf10_period,
  new_addr, new_range, new_gain,   \* new_addr: address or "none"
  new_data, new_result,
  checked,                         \* srf10_get_data is behind its check of new_data
  address, register, ranging, number,   \* the sonar
  settings,                        \* calls of srf10_set_... so far
  calm,                            \* history: rangings since a disturbance, up to 2
  raced, misled                    \* history: the handler stored a byte while checked; an
                                   \* address was taken as set that the sonar never got

settingVars == <<srf10_period, new_range, new_gain, settings>>
addrVars    == <<srf10_addr, new_addr, misled>>
busVars     == <<i2c_state, twi, tx_buf, tx_index>>
dataVars    == <<rx_buf, new_data, new_result, checked, raced>>
sonarVars   == <<address, register, ranging, number>>
vars == <<toie2, step, ticks, settingVars, addrVars, busVars, dataVars, sonarVars, calm>>

\* srf10_init; T2 waits a period first.
Init ==
  /\ toie2 = FALSE /\ step = 10 /\ ticks = 0
  /\ i2c_state = "idle" /\ twi = "off" /\ tx_buf = << >> /\ tx_index = 0
  /\ rx_buf = [i \in 0..1 |-> [ranging |-> 0, byte |-> i]]
  /\ srf10_addr = DefAddress /\ address = DefAddress
  /\ srf10_period = DefPeriod /\ new_addr = "none" /\ new_range = FALSE /\ new_gain = FALSE
  /\ new_data = FALSE /\ new_result = FALSE /\ checked = FALSE
  /\ register = "other" /\ ranging = FALSE /\ number = 0
  /\ settings = 0 /\ calm = 0 /\ raced = FALSE /\ misled = FALSE

(***************************************************************************)
(* Calls of the main loop.                                                 *)
(***************************************************************************)
StartStop ==
  /\ toie2' = ~toie2
  /\ UNCHANGED <<step, ticks, settingVars, addrVars, busVars, dataVars, sonarVars, calm>>

\* srf10_set_period, srf10_set_range, srf10_set_gain, srf10_set_addr
Set ==
  /\ settings < MaxSettings /\ settings' = settings + 1
  /\ \/ srf10_period' \in Periods /\ UNCHANGED <<new_range, new_gain, new_addr>>
     \/ new_range' = TRUE /\ UNCHANGED <<srf10_period, new_gain, new_addr>>
     \/ new_gain' = TRUE /\ UNCHANGED <<srf10_period, new_range, new_addr>>
     \/ new_addr' \in Addresses /\ UNCHANGED <<srf10_period, new_range, new_gain>>
  /\ UNCHANGED <<toie2, step, ticks, srf10_addr, misled, busVars, dataVars, sonarVars, calm>>

\* srf10_is_new_data and srf10_get_data, up to cli; CopyData copies rx_buf.
CheckNewData ==
  /\ new_data /\ ~checked /\ checked' = TRUE
  /\ UNCHANGED <<toie2, step, ticks, settingVars, addrVars, busVars, rx_buf, new_data,
                 new_result, raced, sonarVars, calm>>

CopyData ==
  /\ checked /\ checked' = FALSE
  /\ new_data' = FALSE /\ raced' = FALSE
  /\ UNCHANGED <<toie2, step, ticks, settingVars, addrVars, busVars, rx_buf, new_result,
                 sonarVars, calm>>

(***************************************************************************)
(* SIG_OVERFLOW2                                                           *)
(***************************************************************************)
Begin(mode) == i2c_state' = mode /\ twi' = "start"

\* States 0x01, 0x03, 0x05, 0x08: wait until the bus is idle.
AwaitIdle ==
  /\ step \in {1, 3, 5, 8} /\ i2c_state = "idle" /\ step' = step + 1
  /\ UNCHANGED <<ticks, new_range, new_gain, busVars, new_result, new_data, ranging>>

ChangeScaler ==
  /\ step \in {0, 10} /\ step' = step + 1
  /\ UNCHANGED <<ticks, new_range, new_gain, busVars, new_result, new_data, ranging>>

\* State 0x02: one of the new settings, and state 0x01 again, or the register of the
\* result.
AfterSetting_SkipsRegister == step' = 3
AfterSetting == step' = 1

PrepareTransmit ==
  /\ step = 2
  /\ \/ /\ new_addr # "none"
        /\ tx_buf' = <<"1", "2", "3", new_addr>> /\ AfterSetting
        /\ UNCHANGED <<new_range, new_gain>>
     \/ /\ new_addr = "none" /\ new_range /\ new_range' = FALSE
        /\ tx_buf' = <<"range", "value">> /\ AfterSetting /\ UNCHANGED new_gain
     \/ /\ new_addr = "none" /\ ~new_range /\ new_gain /\ new_gain' = FALSE
        /\ tx_buf' = <<"gain", "value">> /\ AfterSetting /\ UNCHANGED new_range
     \/ /\ new_addr = "none" /\ ~new_range /\ ~new_gain
        /\ tx_buf' = <<"register">> /\ step' = 3 /\ UNCHANGED <<new_range, new_gain>>
  /\ Begin("tx")
  /\ UNCHANGED <<ticks, tx_index, new_result, new_data, ranging>>

PrepareReceive ==
  /\ step = 4 /\ step' = 5 /\ Begin("rx")
  /\ UNCHANGED <<ticks, new_range, new_gain, tx_buf, tx_index, new_result, new_data, ranging>>

AwaitResult ==
  /\ step = 6 /\ new_result' = FALSE /\ step' = IF new_result THEN 7 ELSE 4
  /\ UNCHANGED <<ticks, new_range, new_gain, busVars, new_data, ranging>>

Notify ==
  /\ step = 7 /\ new_data' = TRUE /\ step' = 8
  /\ UNCHANGED <<ticks, new_range, new_gain, busVars, new_result, ranging>>

CommandRanging ==
  /\ step = 9 /\ tx_buf' = <<"command", "cm">> /\ Begin("tx") /\ step' = 10
  /\ UNCHANGED <<ticks, tx_index, new_range, new_gain, new_result, new_data, ranging>>

\* State 0x0B, a millisecond of the period, which srf10_set_period may have shortened;
\* the sonar ends its ranging at the latest after RangingTime of them.
PeriodEnds_OnTheTick == ticks + 1 = srf10_period
PeriodEnds == ticks + 1 >= srf10_period

CountPeriod ==
  /\ step = 11
  /\ ranging' = (ranging /\ ticks + 1 < RangingTime)
  /\ IF PeriodEnds THEN ticks' = 0 /\ step' = 0
                   ELSE ticks' = ticks + 1 /\ UNCHANGED step
  /\ UNCHANGED <<new_range, new_gain, busVars, new_result, new_data>>

TimerOverflow ==
  /\ toie2
  /\ \/ AwaitIdle \/ ChangeScaler \/ PrepareTransmit \/ PrepareReceive \/ AwaitResult
     \/ Notify \/ CommandRanging \/ CountPeriod
  /\ UNCHANGED <<toie2, srf10_period, settings, addrVars, rx_buf, checked, raced,
                 address, register, number, calm>>

(***************************************************************************)
(* The bus, and its handler SIG_2WIRE_SERIAL                               *)
(***************************************************************************)
ToIdle == twi' = "off" /\ i2c_state' = "idle"
Answers == ~ranging /\ srf10_addr = address

\* 0x08: the address is sent.
StartSent ==
  /\ twi = "start" /\ twi' = "address"
  /\ tx_index' = IF i2c_state = "tx" THEN 0 ELSE tx_index
  /\ UNCHANGED <<i2c_state, tx_buf, rx_buf, new_data, new_result, addrVars, sonarVars, raced,
                 calm>>

\* 0x18, 0x40: the sonar answers, data goes out or comes in.
AddressAnswered ==
  /\ twi = "address" /\ Answers
  /\ IF i2c_state = "tx" THEN twi' = "data" /\ tx_index' = tx_index + 1
                         ELSE twi' = "first" /\ UNCHANGED tx_index
  /\ UNCHANGED <<i2c_state, tx_buf, rx_buf, new_data, new_result, addrVars, sonarVars, raced,
                 calm>>

\* 0x20, 0x48: it does not.
NotAnswered_KeepsState ==
  /\ twi = "address" /\ ~Answers
  /\ twi' = "off" /\ calm' = 0
  /\ UNCHANGED <<i2c_state, tx_buf, tx_index, rx_buf, new_data, new_result, addrVars, sonarVars,
                 raced>>
NotAnswered ==
  /\ twi = "address" /\ ~Answers
  /\ ToIdle /\ calm' = 0
  /\ UNCHANGED <<tx_buf, tx_index, rx_buf, new_data, new_result, addrVars, sonarVars, raced>>

\* 0x10, 0x20 and 0x48 of a sonar that is not ranging, 0x30, 0x38 and the unexpected:
\* the transfer is given up.  That may happen any number of times in a row.
TransferFails ==
  /\ twi # "off"
  /\ ToIdle /\ calm' = 0
  /\ UNCHANGED <<tx_buf, tx_index, rx_buf, new_data, new_result, addrVars, sonarVars, raced>>

\* What the sonar makes of a whole command.
Obey ==
  CASE tx_buf[1] = "command" -> /\ ranging' = TRUE /\ number' = (number + 1) % 3
                                /\ register' = "other" /\ UNCHANGED address
    [] tx_buf[1] = "1"       -> address' = tx_buf[4] /\ UNCHANGED <<register, ranging, number>>
    [] OTHER                 -> /\ register' = IF tx_buf[1] = "register" THEN "result" ELSE "other"
                                /\ UNCHANGED <<address, ranging, number>>

\* 0x28: the next byte, or the end.
AddressIsSet ==
  IF new_addr # "none"
  THEN /\ srf10_addr' = new_addr /\ new_addr' = "none"
       /\ misled' = (misled \/ address' # new_addr)
  ELSE UNCHANGED addrVars

DataSent ==
  /\ twi = "data"
  /\ IF tx_index = Len(tx_buf)
     THEN /\ Obey /\ ToIdle /\ AddressIsSet /\ UNCHANGED tx_index
          /\ calm' = IF tx_buf[1] = "command" /\ calm < 2 THEN calm + 1 ELSE calm
     ELSE tx_index' = tx_index + 1 /\ UNCHANGED <<twi, i2c_state, addrVars, sonarVars, calm>>
  /\ UNCHANGED <<tx_buf, rx_buf, new_data, new_result, raced>>

\* 0x50, 0x58: a byte of the register the sonar is read at.
ReceivedByte(i) ==
  rx_buf' = [rx_buf EXCEPT ![i] = IF register = "result" THEN [ranging |-> number, byte |-> i]
                                                          ELSE [ranging |-> 0, byte |-> 2]]

FirstReceived_KeepsNewData ==
  /\ twi = "first" /\ twi' = "last" /\ ReceivedByte(0)
  /\ raced' = (raced \/ checked)
  /\ UNCHANGED <<i2c_state, tx_buf, tx_index, new_data, new_result, addrVars, sonarVars, calm>>
FirstReceived ==
  /\ twi = "first" /\ twi' = "last" /\ ReceivedByte(0)
  /\ new_data' = FALSE /\ raced' = (raced \/ checked)
  /\ UNCHANGED <<i2c_state, tx_buf, tx_index, new_result, addrVars, sonarVars, calm>>

LastReceived ==
  /\ twi = "last" /\ ToIdle /\ ReceivedByte(1)
  /\ new_data' = FALSE /\ new_result' = TRUE /\ raced' = (raced \/ checked)
  /\ UNCHANGED <<tx_buf, tx_index, addrVars, sonarVars, calm>>

TwiInterrupt ==
  /\ \/ StartSent \/ AddressAnswered \/ NotAnswered \/ TransferFails \/ DataSent
     \/ FirstReceived \/ LastReceived
  /\ UNCHANGED <<toie2, step, ticks, settingVars, checked>>

\* A sonar that is asked before its period is over is still ranging; it ends some time.
RangingEnds ==
  /\ ranging /\ ranging' = FALSE
  /\ UNCHANGED <<toie2, step, ticks, settingVars, addrVars, busVars, dataVars, address,
                 register, number, calm>>

Next == RangingEnds \/ StartStop \/ Set \/ CheckNewData \/ CopyData \/ TimerOverflow \/ TwiInterrupt
Spec == Init /\ [][Next]_vars

\* Interrupts come, and a sample that is there is copied; nothing makes the main loop
\* start or set up the sonar.
FairSpec == Spec /\ WF_vars(TimerOverflow) /\ WF_vars(TwiInterrupt)
              /\ WF_vars(RangingEnds)
              /\ SF_vars(CheckNewData) /\ WF_vars(CopyData)

TypeOK ==
  /\ toie2 \in BOOLEAN /\ step \in 0..11 /\ (step = 11 \/ ticks = 0)
  /\ \E p \in Periods : ticks \in 0..(p - 1)
  /\ i2c_state \in {"idle", "tx", "rx"}
  /\ twi \in {"off", "start", "address", "data", "first", "last"}
  /\ (i2c_state = "idle" <=> twi = "off") /\ tx_index \in 0..4
  /\ rx_buf \in [0..1 -> [ranging : 0..2, byte : 0..2]]
  /\ {srf10_addr, address} \subseteq Addresses /\ new_addr \in Addresses \cup {"none"}
  /\ srf10_period \in Periods /\ settings \in 0..MaxSettings
  /\ {new_range, new_gain, new_data, new_result, checked, ranging, raced, misled} \subseteq BOOLEAN
  /\ register \in {"result", "other"} /\ number \in 0..2 /\ calm \in 0..2

IsOneRanging ==
  \E n \in {number, (number + 2) % 3} : \A i \in 0..1 : rx_buf[i] = [ranging |-> n, byte |-> i]

\* From the second ranging on after a transfer failed, what srf10_get_data copies is one
\* result of the sonar, both its bytes, and of the last ranging or the one before - unless
\* the handler came in between the check of new_data and cli (srf10.c 176, 181), where the
\* code does tear it.
SampleIsOneRanging == [][checked /\ ~checked' /\ calm = 2 /\ ~raced => IsOneRanging]_vars

\* Whichever transfers fail, and however many of them in a row, a sonar that is on gives
\* samples again once they no longer do, unless the driver has lost its address.
SonarKeepsMeasuring == <>[]toie2 /\ <>[][~TransferFails]_vars /\ []~misled => []<>checked
==============================================================================
