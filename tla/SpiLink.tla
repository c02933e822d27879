-------------------------------- MODULE SpiLink --------------------------------
(***************************************************************************)
(* The SPI line between the Gumstix, its master (spi_dma_channel.c), and a *)
(* Robostix, the slave (spi.c).  A byte goes out only when one comes in.   *)
(* The master clocks bytes until its packet is out and no packet of the    *)
(* slave is half in; the slave's interrupt handler exchanges bytes with    *)
(* its main loop, which takes part in the packets when it polls.           *)
(*                                                                         *)
(* A packet is two marks, a type, its size and the rest; an item is known  *)
(* by its place and by the number of its packet.  What lies behind the     *)
(* slave's buffer is not modelled: the slave takes no more bytes where the *)
(* code would write past rx_buf.                                           *)
(*                                                                         *)
(* A definition named X_Variant is not part of the model: it is X with a   *)
(* plausible slip in the code, kept to see that a property notices it.     *)
(***************************************************************************)
EXTENDS Integers, Sequences

CONSTANTS
  Overhead,                \* COMM_OVERHEAD, items of a packet without payload
  MasterSize, SlaveSize,   \* items of the packets of either side
  BufSize,                 \* COMM_BUF_SIZE
  MaxPackets,              \* bound: packets each side sends
  MaxLate                  \* bound: bytes clocked before the slave polled

SpiLinkConstantsOK ==
  /\ {Overhead, MasterSize, SlaveSize, BufSize, MaxPackets, MaxLate} \subseteq Nat
  /\ 6 <= Overhead /\ {MasterSize, SlaveSize} \subseteq Overhead..BufSize
  /\ MasterSize <= SlaveSize          \* MOTOR_SIGNALS_SIZE, JAVIATOR_SDAT_SIZE

VARIABLES
  m_number, m_transmits, m_tx_index,      \* spi_transmit of the master
  m_rx_buf, m_rx_items, m_rx_index, m_new_data,
  spdr,                                   \* data register of the slave
  spi_rx, spi_tx, spi_if,                 \* interrupt handler and main loop
  s_rx_buf, s_rx_items, s_rx_index, s_new_data,
  s_number, s_tx_items, s_tx_index,
  taken,                                  \* packet the slave's main loop took last
  got,                                    \* history: packet the master got last
  late,                                   \* history: bytes clocked before the slave polled
  inStep                                  \* history: none since the packet began

masterVars == <<m_number, m_transmits, m_tx_index, m_rx_buf, m_rx_items, m_rx_index, m_new_data>>
portVars   == <<spdr, spi_rx, spi_tx, spi_if>>
slaveRx    == <<s_rx_buf, s_rx_items, s_rx_index, s_new_data, taken>>
slaveTx    == <<s_number, s_tx_items, s_tx_index>>
vars       == <<masterVars, portVars, slaveRx, slaveTx, got, late, inStep>>

Item(n, i)    == [number |-> n, place |-> i]
Null          == Item(0, 0)
IsMark(x)     == x.place \in {1, 2}
Blank         == [i \in 1..BufSize |-> Null]
IsPacket(buf) == IsMark(buf[1]) /\ IsMark(buf[2])
Holds(buf, n, size) == \A i \in 1..size : buf[i] = Item(n, i)

\* spi_dma_channel_create and _init, spi_init
Init ==
  /\ m_number = 0 /\ m_transmits = FALSE /\ m_tx_index = 0
  /\ m_rx_buf = Blank /\ m_rx_items = 0 /\ m_rx_index = 0 /\ m_new_data = FALSE
  /\ spdr = Null /\ spi_rx = Null /\ spi_tx = Null /\ spi_if = FALSE
  /\ s_rx_buf = Blank /\ s_rx_items = 0 /\ s_rx_index = 0 /\ s_new_data = FALSE
  /\ s_number = 0 /\ s_tx_items = 0 /\ s_tx_index = 0
  /\ taken = 0 /\ got = 0 /\ late = 0 /\ inStep = TRUE

(***************************************************************************)
(* Both sides look for marks and size alike.  What is not the size and is  *)
(* taken for it may be any number, except that a mark is the largest byte  *)
(* and a null byte is 0.  A total that is rejected is 0.                   *)
(***************************************************************************)
MasterTotals(x) ==
  CASE x.place = 4 -> {SlaveSize}
    [] IsMark(x)   -> {0}
    [] x = Null    -> {Overhead}
    [] OTHER       -> {0} \cup (Overhead..BufSize)

\* The slave's rx_items is a uint8_t: with one of the Overhead largest bytes
\* for a size it comes round to less than Overhead and passes the check.
SlaveTotals(x) ==
  CASE x.place = 4 -> {MasterSize}
    [] IsMark(x)   -> {Overhead - 1}
    [] x = Null    -> {Overhead}
    [] OTHER       -> 0..BufSize

\* rx_items once the item x with the given index was looked at; total is the
\* number of items if x is a size, 0 if it is rejected.
Awaited(x, index, items, total) ==
  CASE index = 0 -> IF IsMark(x) THEN Overhead ELSE items
    [] index = 1 -> IF IsMark(x) THEN items ELSE 0
    [] index = 3 -> total
    [] OTHER     -> items

NextIndex(index, awaited) ==
  IF awaited > 0 THEN index + 1 ELSE IF index \in {1, 3} THEN 0 ELSE index

(***************************************************************************)
(* Master: spi_transmit                                                    *)
(***************************************************************************)
BeginTransmit ==
  /\ ~m_transmits /\ m_number < MaxPackets
  /\ m_number' = m_number + 1 /\ m_transmits' = TRUE /\ m_tx_index' = 0
  /\ m_rx_index' = 0 /\ m_new_data' = FALSE
  /\ inStep' = (s_rx_items = 0 /\ ~spi_if)
  /\ UNCHANGED <<m_rx_buf, m_rx_items, portVars, slaveRx, slaveTx, got, late>>

EndOfTransmission_WhenSent(sent, items) == sent = MasterSize
EndOfTransmission(sent, items) == sent = MasterSize /\ items = 0

\* One round of the loop, spi_tx_rx and the slave's SIG_SPI included.  If the
\* slave has not polled the last byte yet that byte is lost.
ClockByte ==
  /\ m_transmits
  /\ spi_if => late < MaxLate
  /\ late' = IF spi_if THEN late + 1 ELSE late
  /\ inStep' = (inStep /\ ~spi_if)
  /\ spdr' = spi_tx /\ spi_if' = TRUE
  /\ LET done == m_tx_index = MasterSize
     IN  /\ spi_rx' = IF done THEN Null ELSE Item(m_number, m_tx_index + 1)
         /\ m_tx_index' = IF done THEN m_tx_index ELSE m_tx_index + 1
  /\ m_rx_buf' = [m_rx_buf EXCEPT ![m_rx_index + 1] = spdr]
  /\ \E total \in MasterTotals(spdr) :
       LET awaited == Awaited(spdr, m_rx_index, m_rx_items, total)
           index   == NextIndex(m_rx_index, awaited)
       IN  /\ m_rx_items' = IF index = awaited THEN 0 ELSE awaited
           /\ m_new_data' = EndOfTransmission(m_tx_index', m_rx_items')
           /\ m_transmits' = ~m_new_data'
           /\ m_rx_index' = IF m_new_data' THEN 0 ELSE index
  /\ got' = IF m_new_data' /\ IsPacket(m_rx_buf') THEN m_rx_buf'[1].number ELSE got
  /\ UNCHANGED <<m_number, spi_tx, slaveRx, slaveTx>>

(***************************************************************************)
(* Slave: spi_is_new_data, spi_get_data, spi_send_data                     *)
(***************************************************************************)
IndexAfter_Kept(items, index) == index
IndexAfter(items, index) == IF items = 0 THEN 0 ELSE index

\* The marks are not stored when they come in, but written once there is a size.
\* An index that has passed the total, one of 1 to 3, goes on to the end.
ReceiveItem ==
  /\ s_rx_index < BufSize
  /\ s_rx_buf' = IF s_rx_index < 2 THEN s_rx_buf
                 ELSE [s_rx_buf EXCEPT ![s_rx_index + 1] = spi_rx,
                                       ![1] = Item(spi_rx.number, 1), ![2] = Item(spi_rx.number, 2)]
  /\ \E total \in SlaveTotals(spi_rx) :
       LET awaited == Awaited(spi_rx, s_rx_index, s_rx_items, total)
           index   == NextIndex(s_rx_index, awaited)
           whole   == awaited > 0 /\ index = awaited
       IN  /\ s_rx_items' = IF whole THEN 0 ELSE awaited
           /\ s_rx_index' = IndexAfter(s_rx_items', index)
           /\ s_new_data' = \/ whole /\ Holds(s_rx_buf', spi_rx.number, MasterSize)
                            \/ s_new_data /\ s_rx_index < 2

NextItem_TooLate == Item(s_number, s_tx_index)
NextItem == Item(s_number, s_tx_index + 1)

TransmitItem ==
  IF s_tx_items = 0 THEN spi_tx' = Null /\ UNCHANGED slaveTx
  ELSE /\ spi_tx' = NextItem
       /\ IF s_tx_index + 1 = s_tx_items THEN s_tx_items' = 0 /\ s_tx_index' = 0
                                         ELSE s_tx_index' = s_tx_index + 1 /\ UNCHANGED s_tx_items
       /\ UNCHANGED s_number

Poll ==
  /\ spi_if /\ spi_if' = FALSE
  /\ ReceiveItem /\ TransmitItem
  /\ UNCHANGED <<masterVars, spdr, spi_rx, taken, got, late, inStep>>

GetData ==
  /\ s_new_data /\ s_new_data' = FALSE /\ taken' = s_rx_buf[3].number
  /\ UNCHANGED <<masterVars, portVars, s_rx_buf, s_rx_items, s_rx_index, slaveTx, got, late, inStep>>

Accepts_Always == TRUE
Accepts == s_tx_items = 0

SendData ==
  /\ s_number < MaxPackets /\ Accepts
  /\ s_number' = s_number + 1 /\ s_tx_items' = SlaveSize
  /\ UNCHANGED <<masterVars, portVars, slaveRx, s_tx_index, got, late, inStep>>

Next == BeginTransmit \/ ClockByte \/ Poll \/ GetData \/ SendData
Spec == Init /\ [][Next]_vars

-----------------------------------------------------------------------------
Items == [number : 0..MaxPackets, place : 0..BufSize]
TypeOK ==
  /\ {m_number, s_number, taken, got} \subseteq 0..MaxPackets
  /\ {m_transmits, m_new_data, s_new_data, spi_if, inStep} \subseteq BOOLEAN
  /\ m_tx_index \in 0..MasterSize
  /\ {spdr, spi_rx, spi_tx} \subseteq Items
  /\ m_rx_buf \in [1..BufSize -> Items] /\ s_rx_buf \in [1..BufSize -> Items]
  /\ m_rx_items \in {0} \cup (Overhead..BufSize) /\ s_rx_items \in 0..BufSize
  /\ m_rx_index \in 0..(BufSize - 1) /\ s_rx_index \in 0..BufSize
  /\ s_tx_items \in {0, SlaveSize} /\ s_tx_index \in 0..(SlaveSize - 1)
  /\ late \in 0..MaxLate

\* A slave that polls every byte before the next one is clocked never takes
\* another byte for a size, so it stores none past the end of its buffer (spi.c
\* 124-127), between packets and across them.  One that was late does: the
\* counter comes round, and the "check for valid packet size" lets it pass.
IndexInBuffer == s_rx_index < BufSize
InTimeIndexInBuffer == late = 0 => IndexInBuffer

\* When the master has finished its packet, and the slave was in time for every
\* byte of it and in step at its beginning, the slave has got that packet.
PacketArrives ==
  inStep /\ ~m_transmits /\ ~spi_if /\ m_number > 0
    => taken = m_number \/ (s_new_data /\ Holds(s_rx_buf, m_number, MasterSize))

\* What begins with two marks in the master's buffer, when it is given out, is
\* one packet of the slave from its beginning to its end, though it may have
\* set out in an earlier exchange, as long as the slave is never late.
AnswerIsWhole ==
  late = 0 /\ m_new_data /\ IsPacket(m_rx_buf)
    => Holds(m_rx_buf, m_rx_buf[1].number, SlaveSize)

\* ... and the packets come one by one: none is skipped, or received twice.
AnswersInTurn ==
  [][ late' = 0 => got' \in {got, got + 1} ]_vars
=============================================================================
