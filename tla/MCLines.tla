------------------------------- MODULE MCLines -------------------------------
(***************************************************************************)
(* Small instances of what is at the two ends of a line, for TLC: the      *)
(* exchange of packets and answers (JaviatorLink), the receivers of the    *)
(* two sides (RobostixReceiver, GumstixReceiver), the SPI line (SpiLink)   *)
(* and the buffers of the SPI channel (SpiBuffers).  They do not share     *)
(* anything: every behaviour is one of the part chosen at the beginning,   *)
(* and the other parts stay as they begin.                                 *)
(***************************************************************************)
EXTENDS Integers, Sequences

CONSTANTS
  IdMod, MaxAttempts, LineCap,                 \* JaviatorLink
  ByteMod, BufSize, TypeLimit, Types,          \* Framing
  RobostixLosses, GumstixLosses,
  SpiOverhead, MasterSize, SlaveSize, SpiBufSize, MaxPackets, MaxLate,  \* SpiLink
  NumBuffers, PacketTypes, ItemsOfPacket, DevicePackets, MaxFailures \* SpiBuffers

VARIABLES
  part,
  step, attempts, local_id, data, warned, up, answering, down, data_state, lost, polled,
  sent, tx, received, disturbed, quiet, calm, losses,
  rx_buf, rx_items,
  state, type, size, payload, checksum,
  m_number, m_transmits, m_tx_index, m_rx_buf, m_rx_items, m_rx_index, m_new_data,
  spdr, spi_rx, spi_tx, spi_if,
  s_rx_buf, s_rx_items, s_rx_index, s_new_data, s_number, s_tx_items, s_tx_index,
  taken, got, late, inStep,
  list_free, list_pending, active, buffers, r_idx, buffer, data_read, device, failures, latest

\* Plain payloads, some of whose bytes pass for a type and for the largest size,
\* payloads of marks, and some of bytes that, wrongly taken for a size, are small.
Marks(b)         == {<< >>, <<3, 15>>, <<15, 15>>} \cup (b \X b)
RobostixPayloads == Marks({0, 2})
GumstixPayloads  == Marks({2, 8})

J == INSTANCE JaviatorLink WITH tx <- answering
\* At most BufSize - 3 zeros are skipped, then the longest false packet ends after
\* BufSize - 3 bytes (RobostixReceiver) and BufSize + 4 bytes (GumstixReceiver).
R == INSTANCE RobostixReceiver
       WITH Payloads <- RobostixPayloads, ResyncAfter <- 2 * BufSize - 6, MaxLosses <- RobostixLosses
G == INSTANCE GumstixReceiver
       WITH Payloads <- GumstixPayloads, ResyncAfter <- BufSize + 4, MaxLosses <- GumstixLosses
S == INSTANCE SpiLink WITH BufSize <- SpiBufSize, Overhead <- SpiOverhead
B == INSTANCE SpiBuffers
       WITH Items <- ItemsOfPacket, MaxPackets <- DevicePackets, rx_buf <- buffers, data <- buffer

ASSUME LinesConstantsOK ==
  /\ J!LinkConstantsOK
  /\ R!FramingConstantsOK /\ G!FramingConstantsOK
  /\ S!SpiLinkConstantsOK /\ B!SpiBuffersConstantsOK

jVars == <<step, attempts, local_id, data, warned, up, answering, down, data_state, lost, polled>>
sVars == <<m_number, m_transmits, m_tx_index, m_rx_buf, m_rx_items, m_rx_index, m_new_data,
           spdr, spi_rx, spi_tx, spi_if, s_rx_buf, s_rx_items, s_rx_index, s_new_data,
           s_number, s_tx_items, s_tx_index, taken, got, late, inStep>>
bufferVars == <<list_free, list_pending, active, buffers, r_idx, buffer, data_read, device,
                failures, latest>>
robostixVars == <<rx_buf, rx_items>>
gumstixVars  == <<state, type, size, payload, checksum>>
lineVars     == <<sent, tx, received, disturbed, quiet, calm, losses>>
vars == <<part, jVars, lineVars, robostixVars, gumstixVars, sVars, bufferVars>>

Init ==
  /\ part \in {"exchange", "robostix", "gumstix", "spi", "buffers"}
  /\ J!Init /\ S!Init /\ B!Init
  /\ R!ReceiverInit /\ G!ReceiverInit
  /\ IF part = "robostix" THEN R!LineInit ELSE G!LineInit

\* A bound on the packets of the SPI line, or of the device, is reached, or the
\* slave of the SPI line has left its buffer.
Spent ==
  /\ \/ part = "spi" /\ m_number = MaxPackets /\ ~m_transmits
     \/ part = "spi" /\ s_rx_index = SpiBufSize
     \/ part = "buffers" /\ device.number > DevicePackets
  /\ UNCHANGED vars

Next ==
  /\ UNCHANGED part
  /\ \/ part = "exchange" /\ J!Next
        /\ UNCHANGED <<lineVars, robostixVars, gumstixVars, sVars, bufferVars>>
     \/ part = "robostix" /\ R!Next /\ UNCHANGED <<jVars, gumstixVars, sVars, bufferVars>>
     \/ part = "gumstix" /\ G!Next /\ UNCHANGED <<jVars, robostixVars, sVars, bufferVars>>
     \/ part = "spi" /\ S!Next
        /\ UNCHANGED <<jVars, lineVars, robostixVars, gumstixVars, bufferVars>>
     \/ part = "buffers" /\ B!Next
        /\ UNCHANGED <<jVars, lineVars, robostixVars, gumstixVars, sVars>>
     \/ Spent

Spec == Init /\ [][Next]_vars

-----------------------------------------------------------------------------
\* The types of all five.  The receiver of serial.c and the slave of the SPI
\* line take no byte once the index has reached the end of the buffer, which is
\* itself within the type: that lost bytes can bring it there is the subject of
\* RobostixReceiver_overrun, and late ones bring the slave there as well.
TypeOK ==
  /\ J!TypeOK /\ S!TypeOK /\ B!TypeOK
  /\ part = "robostix" => R!TypeOK
  /\ part = "gumstix" => G!TypeOK

\* Answers are taken in the order in which their packets were sent and none is
\* taken twice: those of the motor packets across losses, refusals, polls and
\* the wrap-around of the ids (javiator_port.c), and those on the SPI line as
\* long as the slave is in time for every byte (spi_dma_channel.c), where none
\* is skipped either.  No packet is received after a newer one of its type
\* (spi_dev_channel.c).
AnswersInOrder == []J!AnswersInOrder /\ S!AnswersInTurn /\ B!NewerOnly

\* Without a loss and without a poll the control loop never warns of an answer
\* that is not the one expected (javiator_port.c:62), at any id.
WarningHasCause == J!WarningHasCause

\* On an undisturbed line every packet comes through as it was sent, once, even
\* one whose body looks like the header of another: to serial.c, to
\* communication.c, and over SPI both ways as long as the slave is in time, when
\* its index also stays in its buffer; the buffers of the SPI channel hold whole
\* packets as long as no read fails.
UndisturbedDelivery ==
  /\ part = "robostix" => R!UndisturbedDelivery
  /\ part = "gumstix" => G!UndisturbedDelivery
  /\ S!PacketArrives /\ S!AnswerIsWhole /\ S!InTimeIndexInBuffer /\ B!DeliveredWhole

\* Either receiver is back in step after one false packet, however bytes were
\* lost, packets cut off and receptions reset before.
ResyncedDelivery ==
  /\ part = "robostix" => R!ResyncedDelivery
  /\ part = "gumstix" => G!ResyncedDelivery

\* Each buffer of the SPI channel is in one place at any time, and one is free whenever
\* the reading thread needs it, though nobody may be receiving (spi_dev_channel.c).
BuffersConserved == B!BuffersConserved /\ B!FreeBufferForThread
=============================================================================
