----------------------------- MODULE ParallelLink -----------------------------
(***************************************************************************)
(* The parallel port between the two boards (parallel.c at both ends), and *)
(* the main loop of Robostix 2 (robo2.c) that answers every request with   *)
(* its sensor data.  Board 1 makes a request per motor packet; its calls   *)
(* are disabled in robo1.c (lines 97, 348, 460), so it stands for a caller *)
(* of parallel.c.                                                          *)
(*                                                                         *)
(* A byte is handed over by a change of the RDY line in one direction and  *)
(* acknowledged by a change in the other; all that remains of a change is  *)
(* the flag if_ready.  The two main loops run freely, so a board may change*)
(* its RDY line, or begin to drive the data lines, before the other has    *)
(* looked: the history upset says that it did.                             *)
(*                                                                         *)
(* A byte is known by its place in the packet.  Packets are plain: no byte *)
(* behind the two marks is a mark.  What lies behind a receive buffer is   *)
(* not modelled: a receiver takes no more bytes where the code would write *)
(* past rx_buf.                                                            *)
(*                                                                         *)
(* A definition named X_Variant is not part of the model: it is X with a   *)
(* plausible slip in the code, kept to see that a property notices it.     *)
(***************************************************************************)
EXTENDS Integers

CONSTANTS Overhead,    \* COMM_OVERHEAD
          PacketSize,  \* bytes of a packet with its overhead
          BufSize      \* COMM_BUF_SIZE

LinkConstantsOK ==
  /\ {Overhead, PacketSize, BufSize} \subseteq Nat
  /\ 6 <= Overhead /\ Overhead <= PacketSize /\ PacketSize <= BufSize

Boards == {1, 2}
Other(b) == 3 - b

VARIABLES
  if_ready,                      \* of each board: RDY changed since the last look
  sending, tx_items, tx_index,   \* of each board: transmitter
  driven,                        \* of each board: byte it drives the data lines with, or None
  rx_items, rx_index,            \* of each board: receiver
  intact,                        \* of each board: it has the bytes so far of one packet
  flag_new_request,              \* of board 2
  waiting,                       \* history: board 1 has made a request and not taken its answer
  upset                          \* history: a change of RDY fell on one not yet seen, both
                                 \* boards drove the data lines, parallel_reset came upon a
                                 \* transfer, or a request before the last answer had begun

rxVars   == <<rx_items, rx_index, intact>>
txVars   == <<sending, tx_items, tx_index, driven>>
history  == <<waiting, upset>>
vars     == <<if_ready, txVars, rxVars, flag_new_request, history>>

None == PacketSize    \* not the place of a byte

Init ==
  /\ if_ready = [b \in Boards |-> FALSE] /\ sending = [b \in Boards |-> FALSE]
  /\ tx_items = [b \in Boards |-> 0] /\ tx_index = [b \in Boards |-> 0]
  /\ driven = [b \in Boards |-> None]
  /\ rx_items = [b \in Boards |-> 0] /\ rx_index = [b \in Boards |-> 0]
  /\ intact = [b \in Boards |-> FALSE]
  /\ flag_new_request = FALSE
  /\ waiting = FALSE /\ upset = FALSE

\* Board b changes its RDY line, and drives the data lines or not.
ChangeRdy(b, drives) ==
  /\ if_ready' = [if_ready EXCEPT ![b] = FALSE, ![Other(b)] = TRUE]
  /\ upset' = (upset \/ if_ready[Other(b)] \/ (drives /\ driven[Other(b)] # None))

(***************************************************************************)
(* parallel_send_data; -1 while a packet is being sent.                    *)
(***************************************************************************)
QueuePacket(b) ==
  tx_items' = [tx_items EXCEPT ![b] = IF @ = 0 THEN PacketSize ELSE @]

Request ==
  /\ tx_items[1] = 0
  /\ QueuePacket(1) /\ waiting' = TRUE
  /\ upset' = (upset \/ (tx_items[2] > 0 /\ ~sending[2]))
  /\ UNCHANGED <<if_ready, sending, tx_index, driven, rxVars, flag_new_request>>

(***************************************************************************)
(* parallel_is_new_data                                                    *)
(***************************************************************************)
WriteByte(b) ==
  /\ driven' = [driven EXCEPT ![b] = tx_index[b]]
  /\ tx_index' = [tx_index EXCEPT ![b] = @ + 1]
  /\ ChangeRdy(b, TRUE)

BeginSending(b) ==
  /\ ~if_ready[b] /\ ~sending[b] /\ tx_items[b] > 0
  /\ sending' = [sending EXCEPT ![b] = TRUE]
  /\ WriteByte(b)
  /\ UNCHANGED <<tx_items, rxVars, flag_new_request, waiting>>

\* do_send_data
EndSending_KeepsIndex(b) ==
  /\ tx_items' = [tx_items EXCEPT ![b] = 0] /\ UNCHANGED tx_index
  /\ sending' = [sending EXCEPT ![b] = FALSE] /\ driven' = [driven EXCEPT ![b] = None]
  /\ if_ready' = [if_ready EXCEPT ![b] = FALSE]
  /\ UNCHANGED upset
EndSending(b) ==
  /\ tx_items' = [tx_items EXCEPT ![b] = 0] /\ tx_index' = [tx_index EXCEPT ![b] = 0]
  /\ sending' = [sending EXCEPT ![b] = FALSE] /\ driven' = [driven EXCEPT ![b] = None]
  /\ if_ready' = [if_ready EXCEPT ![b] = FALSE]
  /\ UNCHANGED upset

DoSendData(b) ==
  /\ if_ready[b] /\ sending[b]
  /\ IF tx_index[b] = tx_items[b]
     THEN EndSending(b)
     ELSE WriteByte(b) /\ UNCHANGED <<sending, tx_items>>
  /\ UNCHANGED <<rxVars, flag_new_request, waiting>>

\* do_recv_data.  Lines that nobody drives may read as any byte.
IsMark(p)     == p < 2
BytesRead(b)  == IF driven[Other(b)] # None THEN {driven[Other(b)]} ELSE 0..(PacketSize - 1)

\* What the 8-bit rx_items may be once the size was added to it; BufSize + 1 stands for
\* all that is more than COMM_BUF_SIZE.  A byte that is not the size and is taken for
\* it may be any number but a mark, the largest, which adds up to one less.
Totals(byte, items) ==
  CASE byte = 3     -> {items + PacketSize - Overhead}
    [] IsMark(byte) -> {IF items = 0 THEN BufSize + 1 ELSE items - 1}
    [] OTHER        -> 0..(BufSize + 1)

Rejected(i, byte, total) == (i = 1 /\ ~IsMark(byte)) \/ (i = 3 /\ total > BufSize)

Awaited(i, byte, items, total) ==
  CASE Rejected(i, byte, total) -> 0
    [] i = 0 /\ IsMark(byte)    -> Overhead
    [] i = 3 /\ total <= BufSize -> total
    [] OTHER                    -> items

NextIndex(i, byte, total, awaited) ==
  IF Rejected(i, byte, total) THEN 0 ELSE IF awaited > 0 THEN i + 1 ELSE i

\* What board 2 does with a request, and board 1 with an answer.
ProcessSensorData == flag_new_request' = TRUE /\ QueuePacket(2)
Process(b) ==
  IF b = 2 THEN ProcessSensorData /\ UNCHANGED waiting
           ELSE waiting' = FALSE /\ UNCHANGED <<flag_new_request, tx_items>>

\* A packet that is not one may pass the check of its checksum.
DoRecvData(b) ==
  /\ if_ready[b] /\ ~sending[b] /\ rx_index[b] < BufSize
  /\ ChangeRdy(b, FALSE)
  /\ \E byte \in BytesRead(b) : \E total \in Totals(byte, rx_items[b]) :
       LET i       == rx_index[b]
           awaited == Awaited(i, byte, rx_items[b], total)
           next    == NextIndex(i, byte, total, awaited)
           whole   == awaited > 0 /\ next = awaited
           inOrder == byte = i /\ (i = 0 \/ intact[b])
       IN  /\ rx_items' = [rx_items EXCEPT ![b] = IF whole THEN 0 ELSE awaited]
           /\ rx_index' = [rx_index EXCEPT ![b] = IF whole THEN 0 ELSE next]
           /\ intact' = [intact EXCEPT ![b] = inOrder /\ ~whole]
           /\ \/ whole /\ Process(b)
              \/ ~(whole /\ inOrder) /\ UNCHANGED <<waiting, flag_new_request, tx_items>>
  /\ UNCHANGED <<sending, tx_index, driven>>

(***************************************************************************)
(* robo2.c                                                                 *)
(***************************************************************************)
\* check_receive_delay, at the end of a period of the watchdog
ParallelReset ==
  /\ if_ready' = [if_ready EXCEPT ![2] = FALSE] /\ sending' = [sending EXCEPT ![2] = FALSE]
  /\ tx_items' = [tx_items EXCEPT ![2] = 0] /\ tx_index' = [tx_index EXCEPT ![2] = 0]
  /\ driven' = [driven EXCEPT ![2] = None]
  /\ rx_items' = [rx_items EXCEPT ![2] = 0] /\ rx_index' = [rx_index EXCEPT ![2] = 0]
  /\ intact' = [intact EXCEPT ![2] = FALSE]

CheckReceiveDelay ==
  /\ IF flag_new_request
     THEN UNCHANGED <<if_ready, txVars, rxVars, upset>>
     ELSE /\ ParallelReset
          /\ upset' = (upset \/ if_ready[2] \/ tx_items[2] > 0 \/ rx_index[2] > 0)
  /\ flag_new_request' = FALSE
  /\ UNCHANGED waiting

Board(b) == BeginSending(b) \/ DoSendData(b) \/ DoRecvData(b)
Next == Request \/ CheckReceiveDelay \/ \E b \in Boards : Board(b)
Spec == Init /\ [][Next]_vars

\* Both main loops poll for ever.
FairSpec == Spec /\ \A b \in Boards : WF_vars(Board(b))

TypeOK ==
  /\ if_ready \in [Boards -> BOOLEAN] /\ sending \in [Boards -> BOOLEAN]
  /\ tx_items \in [Boards -> {0, PacketSize}] /\ tx_index \in [Boards -> 0..PacketSize]
  /\ driven \in [Boards -> 0..PacketSize]
  /\ rx_items \in [Boards -> 0..BufSize] /\ rx_index \in [Boards -> 0..BufSize]
  /\ intact \in [Boards -> BOOLEAN]
  /\ flag_new_request \in BOOLEAN /\ waiting \in BOOLEAN /\ upset \in BOOLEAN

\* Until a change of RDY falls on one that was not seen yet, both boards drive the
\* data lines, a reset cuts a transfer off or a request comes before the last answer
\* has begun, the byte a board is about to take is the next one of the packet, and
\* the other board still drives the lines with it (parallel.c 86-130, 216-294).
BytesInOrder ==
  ~upset => \A b \in Boards : if_ready[b] /\ ~sending[b] => driven[Other(b)] = rx_index[b]

\* ... and until then every request is answered (robo2.c 152-212).  Afterwards it may be
\* left without an answer, and both boards wait for each other for ever.
RequestAnswered == waiting ~> (~waiting \/ upset)
==============================================================================
