--------------------------------- MODULE Ltc24 ---------------------------------
(***************************************************************************)
(* The driver of LTC24 converters (ltc24.c): up to six of them on one SPI  *)
(* bus, each asked in its turn after an interrupt of timer T1 and read     *)
(* byte by byte, with one call of ltc24_is_new_data per round of a main    *)
(* loop that also starts and stops the converters.  No board uses the      *)
(* driver at present.                                                      *)
(*                                                                         *)
(* A byte is known by the chips that were selected when its transfer was   *)
(* started, and its place in their data.  A transfer that was under way    *)
(* when the converters were stopped ends with an interrupt all the same.   *)
(*                                                                         *)
(* A definition named X_Variant is not part of the model: it is X with a   *)
(* plausible slip in the code, kept to see that a property notices it.     *)
(***************************************************************************)
EXTENDS Integers

CONSTANTS LTC24_NUM,     \* converters (1 .. 6)
          RX_DATA_SIZE   \* bytes of a value (3)
Ltc24ConstantsOK == LTC24_NUM \in Nat \ {0} /\ RX_DATA_SIZE \in Nat \ {0, 1}

VARIABLES
  at,                  \* "enable", or "poll" or "byte", the halves of ltc24_is_new_data
  started,             \* T1 interrupt enabled
  selected,            \* converters whose CS signal is low
  ltc24_id, rx_buf, rx_index,
  timer_if, spi_if, spi_rx,
  transfer,            \* the byte on the bus, or idle
  value,               \* what ltc24_get_data copied last
  taken,               \* history: values copied since the start, modulo LTC24_NUM
  stray                \* history: a stop left a transfer under way

busVars == <<timer_if, spi_if, spi_rx, transfer, stray>>
vars    == <<at, started, selected, ltc24_id, rx_buf, rx_index, busVars, value, taken>>

Ids   == 0..(LTC24_NUM - 1)
Bytes == [chips : SUBSET Ids, place : 0..(RX_DATA_SIZE - 1)]
idle  == [chips |-> {}, place |-> 0]
ValueOf(id) == [i \in 0..(RX_DATA_SIZE - 1) |-> [chips |-> {id}, place |-> i]]

Init ==
  /\ at = "enable" /\ started = FALSE /\ selected = {} /\ ltc24_id = 0
  /\ rx_buf = [i \in 0..(RX_DATA_SIZE - 1) |-> idle] /\ rx_index = 0
  /\ timer_if = FALSE /\ spi_if = FALSE /\ spi_rx = idle /\ transfer = << >>
  /\ value = ValueOf(LTC24_NUM - 1) /\ taken = 0 /\ stray = FALSE

(***************************************************************************)
(* The main loop may start or stop the converters between two rounds.      *)
(***************************************************************************)
Start ==
  /\ ~started /\ started' = TRUE
  /\ taken' = 0 /\ value' = ValueOf(LTC24_NUM - 1)
  /\ UNCHANGED <<selected, ltc24_id, rx_index, busVars>>

\* ltc24_stop; SPIE stays set, so a transfer still ends with an interrupt.
Stop_KeepsId ==
  /\ started /\ started' = FALSE
  /\ selected' = selected \ {ltc24_id} /\ rx_index' = 0
  /\ timer_if' = FALSE /\ spi_if' = FALSE /\ spi_rx' = idle
  /\ stray' = (stray \/ transfer # << >>)
  /\ UNCHANGED <<ltc24_id, transfer, value, taken>>
Stop ==
  /\ started /\ started' = FALSE
  /\ selected' = selected \ {ltc24_id} /\ ltc24_id' = 0 /\ rx_index' = 0
  /\ timer_if' = FALSE /\ spi_if' = FALSE /\ spi_rx' = idle
  /\ stray' = (stray \/ transfer # << >>)
  /\ UNCHANGED <<transfer, value, taken>>

Leave == UNCHANGED <<started, selected, ltc24_id, rx_index, busVars, value, taken>>

Enable ==
  /\ at = "enable" /\ at' = "poll"
  /\ Start \/ Stop \/ Leave
  /\ UNCHANGED rx_buf

(***************************************************************************)
(* SIG_INPUT_CAPTURE1, and SIG_SPI at the end of a transfer.  A period of  *)
(* the timer is long enough for the whole of a value.                      *)
(***************************************************************************)
InputCapture ==
  /\ started /\ (stray \/ (transfer = << >> /\ ~spi_if /\ selected = {}))
  /\ timer_if' = TRUE
  /\ UNCHANGED <<at, started, selected, ltc24_id, rx_buf, rx_index, spi_if, spi_rx, transfer,
                 value, taken, stray>>

SpiInterrupt ==
  /\ transfer # << >>
  /\ transfer' = << >> /\ spi_rx' = transfer[1] /\ spi_if' = TRUE
  /\ UNCHANGED <<at, started, selected, ltc24_id, rx_buf, rx_index, timer_if, value, taken,
                 stray>>

(***************************************************************************)
(* ltc24_is_new_data, and ltc24_get_data if it returns 1.                  *)
(***************************************************************************)
\* A write to SPDR has no effect while a transfer is under way.  Where bytes are from is
\* not followed any further after a stray transfer.
StartTransfer ==
  transfer' = IF transfer # << >> THEN transfer
              ELSE << IF stray THEN idle ELSE [chips |-> selected', place |-> rx_index'] >>

\* The conversion of the chip whose turn it is has ended: SDO is low.
Converted ==
  /\ timer_if /\ timer_if' = FALSE
  /\ selected' = selected \cup {ltc24_id}
  /\ rx_index' = 0 /\ StartTransfer

NotConverted ==
  /\ selected' = IF timer_if THEN selected \ {ltc24_id} ELSE selected
  /\ UNCHANGED <<timer_if, rx_index, transfer>>

PollConversion ==
  /\ at = "poll" /\ at' = "byte"
  /\ Converted \/ NotConverted
  /\ UNCHANGED <<started, ltc24_id, rx_buf, spi_if, spi_rx, value, taken, stray>>

NextId_OneTooFar == IF ltc24_id + 1 > LTC24_NUM THEN 0 ELSE ltc24_id + 1
NextId == IF ltc24_id + 1 = LTC24_NUM THEN 0 ELSE ltc24_id + 1

EndOfValue ==
  /\ selected' = selected \ {ltc24_id} /\ ltc24_id' = NextId
  /\ value' = rx_buf' /\ taken' = (taken + 1) % LTC24_NUM
  /\ UNCHANGED transfer

TakeByte ==
  /\ spi_if' = FALSE
  /\ rx_buf' = [rx_buf EXCEPT ![rx_index] = spi_rx]
  /\ rx_index' = rx_index + 1
  /\ IF rx_index' = RX_DATA_SIZE
     THEN EndOfValue
     ELSE UNCHANGED <<selected, ltc24_id, value, taken>> /\ StartTransfer

PollByte ==
  /\ at = "byte" /\ at' = "enable"
  /\ \/ spi_if /\ TakeByte
     \/ ~spi_if /\ UNCHANGED <<spi_if, rx_buf, rx_index, selected, ltc24_id, value, taken,
                                transfer>>
  /\ UNCHANGED <<started, timer_if, spi_rx, stray>>

Next == Enable \/ PollConversion \/ PollByte \/ InputCapture \/ SpiInterrupt
Spec == Init /\ [][Next]_vars

\* No byte is stored past the end of rx_buf: rx_index stays at its end between two values,
\* when no transfer may be left.
TypeOK ==
  /\ at \in {"enable", "poll", "byte"} /\ started \in BOOLEAN /\ selected \subseteq Ids
  /\ ltc24_id \in Ids /\ rx_buf \in [0..(RX_DATA_SIZE - 1) -> Bytes]
  /\ rx_index \in 0..RX_DATA_SIZE /\ (spi_if \/ transfer # << >> => rx_index < RX_DATA_SIZE)
  /\ timer_if \in BOOLEAN /\ spi_if \in BOOLEAN /\ spi_rx \in Bytes
  /\ transfer \in {<< >>} \cup { <<b>> : b \in Bytes }
  /\ taken \in Ids /\ stray \in BOOLEAN

\* A value does not tell which converter it is from: its reader has to count.  The k-th
\* value since the start is that of converter k, whole, unless a stop has left a transfer
\* under way, whose byte the next start lets in (ltc24.c 165-182, 300-304).
ValuesComeInTurn == stray \/ value = ValueOf((taken + LTC24_NUM - 1) % LTC24_NUM)
===============================================================================
