--------------------------- MODULE RobostixReceiver ---------------------------
(***************************************************************************)
(* The receiver of Robostix 1 (serial.c) at the end of the line from the   *)
(* Gumstix.  serial_is_new_data takes one byte per round of the main loop; *)
(* a round that completes a packet also fetches it (serial_get_data).      *)
(*                                                                         *)
(* rx_buf holds the bytes stored so far, so its length is rx_index.  What  *)
(* lies behind the array is not modelled: the receiver takes no more bytes *)
(* where the code would write past rx_buf.                                 *)
(*                                                                         *)
(* A definition named X_Variant is not part of the model: it is X with a   *)
(* plausible slip in the code, kept to see that a property notices it.     *)
(***************************************************************************)
EXTENDS Framing

VARIABLES
  rx_buf,    \* bytes of the packet being received
  rx_items   \* bytes it will have, as far as known; 0 between packets

vars == <<lineVars, rx_buf, rx_items>>

rx_index == Len(rx_buf)

ReceiverInit == rx_buf = << >> /\ rx_items = 0
Init == LineInit /\ ReceiverInit

SizeFits_Strict(n) == n < BufSize
SizeFits_Unchecked(n) == TRUE
SizeFits(n) == n <= BufSize

\* rx_items after the checks of the byte c; it is a uint8_t.
Items(c) ==
  IF rx_index = 0 /\ c = Mark THEN Overhead
  ELSE IF rx_index = 3 THEN (rx_items + c) % ByteMod
  ELSE rx_items

Rejected_SecondMarkUnchecked(c) == rx_index = 3 /\ ~SizeFits(Items(c))
Rejected(c) == \/ rx_index = 1 /\ c # Mark
               \/ rx_index = 3 /\ ~SizeFits(Items(c))

\* A size of ByteMod - Overhead makes rx_items come round to 0 while rx_index
\* stays where it is: the next byte is taken for the size again.
Skipped(c) == ~Rejected(c) /\ Items(c) = 0

\* is_valid_data: the sum of type, size and payload is that of the packet.
IsValid(buf) ==
  LET n == Len(buf)
  IN Checksum(SubSeq(buf, 3, n - 2)) = buf[n - 1] * ByteMod + buf[n]

\* serial_get_data copies as many bytes as the size says.
Stale == -1   \* left in rx_buf by an earlier packet
Decoded(buf) ==
  [type |-> buf[3],
   payload |-> [i \in 1..buf[4] |-> IF i + 4 <= Len(buf) THEN buf[i + 4]
                                                         ELSE Stale]]

Clear == rx_buf' = << >> /\ rx_items' = 0

Finish(buf) ==
  /\ Arrive(IF IsValid(buf) THEN << Decoded(buf) >> ELSE << >>)
  /\ Clear

Store(c) ==
  LET buf == Append(rx_buf, c)
  IN IF Len(buf) = Items(c)
     THEN Finish(buf)
     ELSE Arrive(<< >>) /\ rx_buf' = buf /\ rx_items' = Items(c)

ReceiveByte ==
  /\ tx # << >>
  /\ rx_index < BufSize
  /\ LET c == Head(tx)
     IN \/ Rejected(c) /\ Arrive(<< >>) /\ Clear
        \/ Skipped(c) /\ Arrive(<< >>) /\ rx_items' = 0 /\ UNCHANGED rx_buf
        \/ ~Rejected(c) /\ ~Skipped(c) /\ Store(c)

\* serial_reset, called by check_receive_delay after a silent period.
Reset ==
  /\ Clear
  /\ Disturb
  /\ UNCHANGED <<sent, tx, received>>

Next == \/ (SendPacket \/ LoseByte) /\ UNCHANGED <<rx_buf, rx_items>>
        \/ ReceiveByte
        \/ Reset

Spec == Init /\ [][Next]_vars

-----------------------------------------------------------------------------
TypeOK ==
  /\ LineTypeOK
  /\ rx_buf \in Seq(Bytes)
  /\ rx_items \in 0..BufSize

\* serial.c:172 announces a "check for valid packet size": no byte is stored
\* past the end of rx_buf, whatever part of the stream is taken for a header.
IndexInBuffer == rx_index < BufSize

\* On an undisturbed line every packet comes through as it was sent, once, even
\* one whose body looks like the header of another.
UndisturbedDelivery == ~disturbed => Delivered

\* A receiver that lost bytes, or was reset in the middle of a packet, is back
\* in step after one false packet: with bodies that hold no mark it accepts
\* every packet that begins ResyncAfter undisturbed bytes later.  The longest
\* false packet has BufSize bytes, and before there is a size the receiver may take
\* all the zeros of a packet for it (Skipped).
ResyncedDelivery == calm => Delivered
=============================================================================
