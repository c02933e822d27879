--------------------------- MODULE GumstixReceiver ---------------------------
(***************************************************************************)
(* comm_recv_packet (communication.c) at the end of the line from Robostix *)
(* 1: a state machine that takes up the stream where it left it when the   *)
(* channel had no more bytes.  One action per byte, for in whatever chunks *)
(* the channel hands the payload over, the next chunk goes behind the last.*)
(*                                                                         *)
(* A byte is read into a plain char, which is unsigned on the ARM of the   *)
(* Gumstix.  The transmitter is the one of serial.c, which serial_reset    *)
(* cuts off in the middle of a packet.                                     *)
(*                                                                         *)
(* A definition named X_Variant is not part of the model: it is X with a   *)
(* plausible slip in the code, kept to see that a property notices it.     *)
(***************************************************************************)
EXTENDS Framing

VARIABLES
  state,     \* packet->state; st_COMPLETE is left in the call that enters it
  type,      \* packet->type
  size,      \* packet->size
  payload,   \* packet->payload; its length is packet->bytes_in_payload
  checksum   \* packet->checksum

receiver == <<state, type, size, payload, checksum>>
vars     == <<lineVars, receiver>>

ReceiverInit ==
  /\ state = "MARK1"
  /\ type = 0 /\ size = 0 /\ checksum = 0
  /\ payload = << >>
Init == LineInit /\ ReceiverInit

\* packet->state = 0: the next call begins with an empty payload.
StartOver == state' = "MARK1" /\ payload' = << >>

\* One byte c in the state s, by which no packet comes to its end.
ReceiveIn(s, c) ==
  /\ state = s
  /\ tx # << >> /\ c = Head(tx)
  /\ Arrive(<< >>)

Mark1 == \E c \in Bytes :
  /\ ReceiveIn("MARK1", c)
  /\ state' = IF c = Mark THEN "MARK2" ELSE "MARK1"
  /\ UNCHANGED <<type, size, payload, checksum>>

Mark2 == \E c \in Bytes :
  /\ ReceiveIn("MARK2", c)
  /\ state' = IF c = Mark THEN "TYPE" ELSE "MARK1"
  /\ UNCHANGED <<type, size, payload, checksum>>

ValidType_BelowLimit(c) == c \in 1..(TypeLimit - 1)
ValidType(c) == c \in 1..TypeLimit

ReadType == \E c \in Bytes :
  /\ ReceiveIn("TYPE", c)
  /\ IF ValidType(c) THEN state' = "SIZE" /\ type' = c
                     ELSE state' = "MARK1" /\ UNCHANGED type
  /\ UNCHANGED <<size, payload, checksum>>

FitsBuffer_Unchecked(c) == TRUE
FitsBuffer(c) == c <= BufSize

ReadSize == \E c \in Bytes :
  /\ ReceiveIn("SIZE", c)
  /\ IF FitsBuffer(c)
     THEN state' = (IF c > 0 THEN "PAYLOAD" ELSE "SUM1") /\ size' = c
     ELSE state' = "MARK1" /\ UNCHANGED size
  /\ UNCHANGED <<type, payload, checksum>>

Payload == \E c \in Bytes :
  /\ ReceiveIn("PAYLOAD", c)
  /\ payload' = Append(payload, c)
  /\ state' = IF Len(payload') = size THEN "SUM1" ELSE "PAYLOAD"
  /\ UNCHANGED <<type, size, checksum>>

Sum1 == \E c \in Bytes :
  /\ ReceiveIn("SUM1", c)
  /\ checksum' = c * ByteMod
  /\ state' = "SUM2"
  /\ UNCHANGED <<type, size, payload>>

Packet == [type |-> type, payload |-> payload]

ChecksumError_KeepsPayload == state' = "MARK1" /\ UNCHANGED payload
ChecksumError == StartOver

Complete_KeepsPayload == state' = "MARK1" /\ UNCHANGED payload
Complete == StartOver

Sum2 ==
  /\ state = "SUM2"
  /\ tx # << >>
  /\ checksum' = checksum + Head(tx)
  /\ IF checksum' = Checksum(Body(Packet))
     THEN Arrive(<< Packet >>) /\ Complete
     ELSE Arrive(<< >>) /\ ChecksumError
  /\ UNCHANGED <<type, size>>

\* comm_recv_packet, however often it is called.
Receive == Mark1 \/ Mark2 \/ ReadType \/ ReadSize \/ Payload \/ Sum1 \/ Sum2

\* serial_reset: the rest of the packet is not sent.
CutOff ==
  /\ tx # << >> /\ tx' = << >>
  /\ Disturb
  /\ UNCHANGED <<sent, received, receiver>>

Next == \/ Receive
        \/ (SendPacket \/ LoseByte) /\ UNCHANGED receiver
        \/ CutOff

Spec == Init /\ [][Next]_vars

-----------------------------------------------------------------------------
TypeOK ==
  /\ LineTypeOK
  /\ state \in {"MARK1", "MARK2", "TYPE", "SIZE", "PAYLOAD", "SUM1", "SUM2"}
  /\ type \in 0..TypeLimit
  /\ size \in 0..BufSize
  /\ payload \in Seq(Bytes) /\ Len(payload) <= size
  /\ checksum \in 0..(ByteMod * ByteMod - 1)

\* On an undisturbed line every packet comes through as it was sent, once, even
\* one whose body looks like the header of another, and in whatever states the
\* calls of comm_recv_packet end.
UndisturbedDelivery == ~disturbed => Delivered

\* A receiver that lost bytes, or to which a packet was cut off, is back in
\* step after one false packet: with bodies that hold no mark it accepts every
\* packet that begins ResyncAfter undisturbed bytes later.  The longest false
\* packet has a type, a size, BufSize bytes and a sum.
ResyncedDelivery == calm => Delivered
=============================================================================
