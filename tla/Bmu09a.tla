-------------------------------- MODULE Bmu09a --------------------------------
(***************************************************************************)
(* The driver of the BMU-09A sensor on Robostix 2 (bmu09a.c): three        *)
(* converters for pressure, temperature and battery share one SPI bus, and *)
(* are read in turn, a byte per round of the main loop of robo2.c, which   *)
(* also starts and stops the sensor (enable_sensors).                      *)
(*                                                                         *)
(* A byte is known by the chips that were selected when its transfer was   *)
(* started.  A transfer that was under way when the sensor was stopped     *)
(* leaves its interrupt pending, and the next start lets it in.            *)
(*                                                                         *)
(* A definition named X_Variant is not part of the model: it is X with a   *)
(* plausible slip in the code, kept to see that a property notices it.     *)
(***************************************************************************)
EXTENDS Integers, Sequences

CONSTANTS MapsSize, TempSize, BattSize   \* RX_MAPS_SIZE (4), RX_TEMP_SIZE (2), RX_BATT_SIZE (2)
BmuConstantsOK == {MapsSize, TempSize, BattSize} \subseteq Nat \ {0}

VARIABLES
  at,                 \* "poll" or "byte", the halves of bmu09a_is_new_data; "enable"
  enabled,            \* sensors_enabled of robo2.c
  spie, spif,         \* SPI interrupt enabled, transfer-complete flag of the hardware
  spdr,               \* <<chips>> of the byte being transferred, or << >>
  arrived,            \* chips of the byte in the data register
  cs,                 \* selected chips
  poll_eoc,           \* whose end of conversion is being waited for
  spi_rx, spi_if,     \* set by the interrupt handler
  rx_buf, rx_index,
  sample,             \* what bmu09a_get_data copied last
  fresh,              \* history: it did so in the last round
  tainted             \* history: the sensor was started with a transfer pending

spiVars == <<spie, spif, spdr, arrived, spi_rx, spi_if>>
vars    == <<at, enabled, spiVars, cs, poll_eoc, rx_buf, rx_index, sample, fresh, tainted>>

Chips  == {"maps", "temp", "batt"}
Total  == MapsSize + TempSize + BattSize
\* The sample a reader of bmu09a_get_data expects: which chip each byte is from.
Expected == [i \in 0..(Total - 1) |-> { IF i < MapsSize THEN "maps"
                                        ELSE IF i < MapsSize + TempSize THEN "temp"
                                        ELSE "batt" }]

Init ==
  /\ at = "enable" /\ enabled = FALSE
  /\ spie = FALSE /\ spif = FALSE /\ spdr = << >> /\ arrived = {}
  /\ cs = {} /\ poll_eoc = "none" /\ spi_rx = {} /\ spi_if = FALSE
  /\ rx_buf = [i \in 0..(Total - 1) |-> {}] /\ rx_index = 0
  /\ sample = Expected /\ fresh = FALSE /\ tainted = FALSE

(***************************************************************************)
(* The SPI hardware and its interrupt handler.                             *)
(***************************************************************************)
\* A write to SPDR; it has no effect while a transfer is under way.  Where bytes are
\* from is not followed any further once a start found one pending.
StartTransfer ==
  spdr' = IF spdr # << >> THEN spdr ELSE IF tainted THEN <<{}>> ELSE <<cs'>>

TransferEnds ==
  /\ spdr # << >>
  /\ spdr' = << >> /\ arrived' = spdr[1] /\ spif' = TRUE
  /\ UNCHANGED <<at, enabled, spie, spi_rx, spi_if, cs, poll_eoc, rx_buf, rx_index,
                 sample, fresh, tainted>>

SpiInterrupt ==
  /\ spie /\ spif
  /\ spif' = FALSE /\ spi_rx' = arrived /\ spi_if' = TRUE
  /\ UNCHANGED <<at, enabled, spie, spdr, arrived, cs, poll_eoc, rx_buf, rx_index,
                 sample, fresh, tainted>>

(***************************************************************************)
(* enable_sensors: bmu09a_start, bmu09a_stop                               *)
(***************************************************************************)
BmuStart ==
  /\ ~enabled /\ enabled' = TRUE
  /\ spie' = TRUE /\ poll_eoc' = "maps"
  /\ tainted' = (tainted \/ spif \/ spdr # << >>)
  /\ UNCHANGED <<spif, spdr, arrived, spi_rx, spi_if, cs, rx_index>>

BmuStop_KeepsIndex ==
  /\ enabled /\ enabled' = FALSE
  /\ spie' = FALSE /\ cs' = {} /\ poll_eoc' = "none" /\ spi_rx' = {} /\ spi_if' = FALSE
  /\ UNCHANGED <<spif, spdr, arrived, tainted, rx_index>>
BmuStop ==
  /\ enabled /\ enabled' = FALSE
  /\ spie' = FALSE /\ cs' = {} /\ rx_index' = 0 /\ poll_eoc' = "none"
  /\ spi_rx' = {} /\ spi_if' = FALSE
  /\ UNCHANGED <<spif, spdr, arrived, tainted>>

EnableSensors ==
  /\ at = "enable"
  /\ BmuStart \/ BmuStop
  /\ at' = "poll"
  /\ UNCHANGED <<rx_buf, sample, fresh>>

LeaveSensors ==
  /\ at = "enable" /\ at' = "poll"
  /\ UNCHANGED <<enabled, spiVars, cs, poll_eoc, rx_buf, rx_index, sample, fresh, tainted>>

(***************************************************************************)
(* bmu09a_is_new_data, and bmu09a_get_data if it returns 1.                *)
(***************************************************************************)
\* The end of the conversion that is waited for, or still none of it.
Convert ==
  /\ poll_eoc # "none"
  /\ cs' = IF poll_eoc = "maps" THEN cs \cup {"maps"} ELSE cs
  /\ StartTransfer
  /\ poll_eoc' = "none"

PollConversion ==
  /\ at = "poll" /\ at' = "byte"
  /\ Convert
  /\ UNCHANGED <<enabled, spie, spif, arrived, spi_rx, spi_if, rx_buf, rx_index, sample,
                 fresh, tainted>>

NotConverted ==
  /\ at = "poll" /\ at' = "byte"
  /\ UNCHANGED <<enabled, spiVars, cs, poll_eoc, rx_buf, rx_index, sample, fresh, tainted>>

\* After the byte at index i: the next chip is selected and waited for, the sample is
\* complete, or the next byte is fetched.
SelectNext_KeepsOld(old, new) == cs' = cs \cup {new} /\ poll_eoc' = new
SelectNext_NotAwaited(old, new) == cs' = (cs \ {old}) \cup {new} /\ UNCHANGED poll_eoc
SelectNext(old, new) == cs' = (cs \ {old}) \cup {new} /\ poll_eoc' = new

AfterByte(i) ==
  \/ /\ i + 1 = MapsSize /\ SelectNext("maps", "temp")
     /\ rx_index' = i + 1 /\ UNCHANGED <<spdr, sample>> /\ fresh' = FALSE
  \/ /\ i + 1 = MapsSize + TempSize /\ SelectNext("temp", "batt")
     /\ rx_index' = i + 1 /\ UNCHANGED <<spdr, sample>> /\ fresh' = FALSE
  \/ /\ i + 1 = Total /\ cs' = cs \ {"batt"} /\ poll_eoc' = "maps"
     /\ rx_index' = 0 /\ UNCHANGED spdr /\ sample' = rx_buf' /\ fresh' = TRUE
  \/ /\ i + 1 \notin {MapsSize, MapsSize + TempSize, Total}
     /\ UNCHANGED <<cs, poll_eoc, sample>>
     /\ StartTransfer /\ rx_index' = i + 1 /\ fresh' = FALSE

TakeByte ==
  /\ at = "byte" /\ at' = "enable"
  /\ IF spi_if
     THEN /\ spi_if' = FALSE
          /\ rx_buf' = [rx_buf EXCEPT ![rx_index] = spi_rx]
          /\ AfterByte(rx_index)
     ELSE /\ fresh' = FALSE
          /\ UNCHANGED <<spi_if, spdr, cs, poll_eoc, rx_buf, rx_index, sample>>
  /\ UNCHANGED <<enabled, spie, spif, arrived, spi_rx, tainted>>

Loop == LeaveSensors \/ PollConversion \/ NotConverted \/ TakeByte
Next == Loop \/ EnableSensors \/ TransferEnds \/ SpiInterrupt
Spec == Init /\ [][Next]_vars

\* The loop runs for ever, transfers and conversions come to their end; nothing makes
\* the pilot's commands start or stop the sensor.
FairSpec == Spec /\ WF_vars(Loop) /\ SF_vars(PollConversion)
              /\ WF_vars(TransferEnds) /\ WF_vars(SpiInterrupt)

TypeOK ==
  /\ at \in {"enable", "poll", "byte"} /\ enabled \in BOOLEAN
  /\ spie \in BOOLEAN /\ spif \in BOOLEAN /\ spdr \in {<< >>} \cup { <<c>> : c \in SUBSET Chips }
  /\ arrived \subseteq Chips /\ cs \subseteq Chips /\ poll_eoc \in Chips \cup {"none"}
  /\ spi_rx \subseteq Chips /\ spi_if \in BOOLEAN
  /\ rx_buf \in [0..(Total - 1) -> SUBSET Chips] /\ rx_index \in 0..(Total - 1)
  /\ sample \in [0..(Total - 1) -> SUBSET Chips] /\ fresh \in BOOLEAN /\ tainted \in BOOLEAN

\* Every byte of a sample is from the converter it is taken for, whatever was stopped
\* and started before, unless a start found a transfer pending (bmu09a.c 132-146
\* leaves the flag of the hardware set).
SampleFromItsChips == tainted \/ sample = Expected

\* The chain of three converters never gets stuck: a sensor that stays on goes on
\* delivering samples.
BmuKeepsSampling == <>[]enabled => []<>fresh
===============================================================================
