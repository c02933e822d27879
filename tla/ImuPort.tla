------------------------------- MODULE ImuPort -------------------------------
(***************************************************************************)
(* The port of the 3DM-GX1 sensor on Robostix 1 (dm3gx1.c) with the sensor *)
(* at its other end, as the main loop of robo1.c uses it: every motor      *)
(* packet requests one reply, and every round takes one byte.              *)
(*                                                                         *)
(* A request is written in steps, between which the data-register-empty    *)
(* interrupt may come; which of the two stores of                          *)
(* tx_buf[ tx_items++ ] is done first is the compiler's choice.  ByteTime  *)
(* is the time of one byte on the line.  The checksum is taken to be       *)
(* perfect: it accepts exactly the bytes of one reply, in their order.     *)
(*                                                                         *)
(* Motor packets come over a serial line of the same speed (dm3gx1.c 123,  *)
(* serial.c 116), so two requests are at least the bytes of one packet     *)
(* apart, which is less than a reply takes: javiator_port.c 187-195 polls  *)
(* every millisecond.  A sensor that gets a request in the middle of a     *)
(* reply begins a new one, or does not hear it.                            *)
(*                                                                         *)
(* A definition named X_Variant is not part of the model: it is X with a   *)
(* plausible slip in the code, kept to see that a property notices it.     *)
(***************************************************************************)
EXTENDS Integers, Sequences

CONSTANTS
  FrameSize,    \* RX_DATA_SIZE, bytes of a reply (23)
  TxSize,       \* TX_DATA_SIZE (24)
  RequestGap,   \* least number of byte times between two motor packets, up to ReplyTime
  LookAlikes,   \* payload positions that may hold the value of the header (0x31)
  MaxLost       \* bound: replies that are disturbed on the line

ReplyTime == FrameSize + 3   \* byte times from a request to the end of its reply

ImuConstantsOK ==
  /\ FrameSize \in Nat /\ FrameSize > 1 /\ TxSize \in Nat \ {0}
  /\ RequestGap \in 3..ReplyTime
  /\ LookAlikes \subseteq 1..(FrameSize - 1) /\ MaxLost \in Nat

VARIABLES
  at,                            \* "loop", or how far dm3gx1_request has come
  slot,                          \* value of tx_items read by dm3gx1_request
  tx_items, tx_index, tx_buf,    \* transmit buffer
  udrie, udr,                    \* DRE interrupt enabled, byte in the data register
  request_age,                   \* byte times since the last request, up to ReplyTime
  pos, reply,                    \* next byte of the reply (FrameSize: none), its number
  likes, disturbed, lost,        \* of this reply: look-alikes, a byte lost; replies disturbed
  fifo,                          \* bytes in the receiver of the UART
  rx_index, rx_buf,              \* receive buffer
  sample,                        \* the bytes last copied by dm3gx1_get_data
  owed,                          \* history: requests no command was sent for
  calm                           \* history: undisturbed plain replies in a row that had the
                                 \* time of a reply, up to 3

txVars   == <<at, slot, tx_items, tx_index, tx_buf, udrie, udr, owed>>
lineVars == <<request_age, pos, reply, likes, disturbed, lost, calm>>
rxVars   == <<fifo, rx_index, rx_buf, sample>>
vars     == <<txVars, lineVars, rxVars>>

Replies == 0..2
Bytes   == [reply : Replies, pos : 0..(FrameSize - 1), header : BOOLEAN]
Empty   == [reply |-> 0, pos |-> FrameSize - 1, header |-> FALSE]

Init ==
  /\ at = "loop" /\ slot = 0
  /\ tx_items = 0 /\ tx_index = 0 /\ tx_buf = [i \in 0..(TxSize - 1) |-> "zero"]
  /\ udrie = FALSE /\ udr = "none" /\ owed = 0
  /\ request_age = ReplyTime /\ pos = FrameSize /\ reply = 0
  /\ likes = {} /\ disturbed = FALSE /\ lost = 0 /\ calm = 2
  /\ fifo = << >> /\ rx_index = 0
  /\ rx_buf = [i \in 0..(FrameSize - 1) |-> Empty] /\ sample = rx_buf

(***************************************************************************)
(* dm3gx1_request                                                          *)
(***************************************************************************)
Request ==
  /\ at = "loop" /\ request_age >= RequestGap
  /\ at' = "read" /\ slot' = tx_items
  /\ request_age' = 0 /\ owed' = owed + 1
  /\ calm' = IF disturbed \/ likes # {} \/ request_age < ReplyTime THEN 0
             ELSE IF calm < 3 THEN calm + 1 ELSE 3
  /\ UNCHANGED <<tx_items, tx_index, tx_buf, udrie, udr, pos, reply, likes, disturbed,
                 lost, rxVars>>

CountItem    == tx_items' = slot + 1 /\ UNCHANGED tx_buf
StoreCommand == tx_buf' = [tx_buf EXCEPT ![slot] = "command"] /\ UNCHANGED tx_items

WriteCommand ==
  /\ \/ at = "read" /\ at' = "counted" /\ CountItem
     \/ at = "read" /\ at' = "half" /\ StoreCommand
     \/ at = "counted" /\ at' = "stored" /\ StoreCommand
     \/ at = "half" /\ at' = "stored" /\ CountItem
  /\ UNCHANGED <<slot, tx_index, udrie, udr, owed, lineVars, rxVars>>

EnableInterrupt ==
  /\ at = "stored" /\ at' = "loop"
  /\ udrie' = TRUE
  /\ UNCHANGED <<slot, tx_items, tx_index, tx_buf, udr, owed, lineVars, rxVars>>

(***************************************************************************)
(* SIG_UARTn_DATA                                                          *)
(***************************************************************************)
EndOfStream_KeepsItems == udrie' = FALSE /\ UNCHANGED <<tx_items, tx_index, udr, owed>>
EndOfStream ==
  /\ udrie' = FALSE /\ tx_items' = 0 /\ tx_index' = 0
  /\ UNCHANGED <<udr, owed>>

SendItem ==
  /\ udr' = tx_buf[tx_index] /\ tx_index' = tx_index + 1
  /\ owed' = IF tx_buf[tx_index] = "command" THEN owed - 1 ELSE owed
  /\ UNCHANGED <<tx_items, udrie>>

DataRegisterEmpty ==
  /\ udrie /\ udr = "none"
  /\ IF tx_index = tx_items THEN EndOfStream ELSE SendItem
  /\ UNCHANGED <<at, slot, tx_buf, lineVars, rxVars>>

(***************************************************************************)
(* The line and the sensor.  An interrupt is served within a byte time, and*)
(* the main loop looks at the receiver at least once in a byte time.       *)
(***************************************************************************)
Older(age) == IF age < ReplyTime THEN age + 1 ELSE age
Arriving == [reply |-> reply, pos |-> pos, header |-> pos = 0 \/ pos \in likes]

Silent == pos = FrameSize /\ UNCHANGED <<pos, fifo, disturbed, lost>>
Sends ==
  /\ pos < FrameSize /\ pos' = pos + 1
  /\ \/ fifo' = Append(fifo, Arriving) /\ UNCHANGED <<disturbed, lost>>
     \/ /\ disturbed \/ lost < MaxLost
        /\ disturbed' = TRUE /\ lost' = IF disturbed THEN lost ELSE lost + 1
        /\ UNCHANGED fifo

Answers ==
  /\ pos' = 0 /\ reply' = (reply + 1) % 3
  /\ likes' \in SUBSET LookAlikes /\ disturbed' = FALSE
  /\ UNCHANGED <<fifo, lost>>

ByteTime ==
  /\ ~(udrie /\ udr = "none") /\ fifo = << >> /\ at = "loop"
  /\ request_age' = Older(request_age)
  /\ udr' = "none"
  /\ \/ udr = "command" /\ Answers
     \/ (udr = "command" => pos < FrameSize) /\ (Silent \/ Sends) /\ UNCHANGED <<reply, likes>>
  /\ UNCHANGED <<at, slot, tx_items, tx_index, tx_buf, udrie, owed, rx_index, rx_buf,
                 sample, calm>>

(***************************************************************************)
(* dm3gx1_is_new_data, and dm3gx1_get_data if it returns 1: new_data is set *)
(* and cleared in one round of the loop.                                   *)
(***************************************************************************)
Stored == [rx_buf EXCEPT ![rx_index] = Head(fifo)]
Unsynchronized == rx_index = 0 /\ ~Head(fifo).header

IsValid_Unchecked(buf) == TRUE
IsValid(buf) == \A i \in DOMAIN buf : buf[i].pos = i /\ buf[i].reply = buf[0].reply

EndOfFrame_KeepsIndex ==
  IF IsValid(Stored) THEN rx_index' = 0 /\ sample' = Stored
                     ELSE rx_index' = FrameSize - 1 /\ UNCHANGED sample
EndOfFrame ==
  /\ rx_index' = 0
  /\ sample' = IF IsValid(Stored) THEN Stored ELSE sample

TakeByte ==
  /\ fifo # << >> /\ at = "loop"
  /\ fifo' = Tail(fifo)
  /\ rx_buf' = Stored
  /\ IF Unsynchronized THEN UNCHANGED <<rx_index, sample>>
     ELSE IF rx_index + 1 = FrameSize THEN EndOfFrame
     ELSE rx_index' = rx_index + 1 /\ UNCHANGED sample
  /\ UNCHANGED <<txVars, lineVars>>

Next == Request \/ WriteCommand \/ EnableInterrupt \/ DataRegisterEmpty \/ ByteTime \/ TakeByte
Spec == Init /\ [][Next]_vars

TypeOK ==
  /\ at \in {"loop", "read", "counted", "half", "stored"} /\ slot \in 0..TxSize
  /\ tx_items \in 0..TxSize /\ tx_index \in 0..TxSize
  /\ tx_buf \in [0..(TxSize - 1) -> {"zero", "command"}]
  /\ udrie \in BOOLEAN /\ udr \in {"none", "zero", "command"}
  /\ request_age \in 0..ReplyTime /\ pos \in 0..FrameSize /\ reply \in Replies
  /\ likes \subseteq LookAlikes /\ disturbed \in BOOLEAN /\ lost \in 0..MaxLost
  /\ fifo \in Seq(Bytes) /\ rx_index \in 0..(FrameSize - 1)
  /\ rx_buf \in [0..(FrameSize - 1) -> Bytes] /\ sample \in [0..(FrameSize - 1) -> Bytes]
  /\ calm \in 0..3 /\ owed \in Int

\* Every request puts exactly one command on the line before the next one is made,
\* although the interrupt resets the indices the main loop writes with
\* (dm3gx1.c 141-148, 335-350).
OneCommandPerRequest == owed \in 0..1 /\ (request_age >= RequestGap => owed = 0)

\* What the main loop copies is one reply, never parts of two.
SampleIsOneReply == \A i, j \in DOMAIN sample : sample[i].reply = sample[j].reply

\* When a request is made, the reply to the one before has been copied, if the last
\* two replies were undisturbed, look like a header nowhere but at their start, and
\* no request came in between before they were over: a lost byte, or a run of polls
\* that cut replies off, costs two samples, not the stream.
ReplyIsTaken == request_age = 0 /\ calm >= 2 /\ at = "read" => sample[0].reply = reply
==============================================================================
