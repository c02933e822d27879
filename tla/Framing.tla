------------------------------- MODULE Framing -------------------------------
(***************************************************************************)
(* Packets on a serial line (protocol.h), and the transmitter both sides   *)
(* use in the same form (comm_send_packet, serial_send_data): two marks,   *)
(* type, size, payload and a 16-bit sum.  A body may hold marks itself.    *)
(*                                                                         *)
(* The line hands over one byte at a time and may lose bytes.  The two     *)
(* receivers are in modules RobostixReceiver and GumstixReceiver, which    *)
(* extend this one with their state.                                       *)
(***************************************************************************)
EXTENDS Integers, Sequences

CONSTANTS
  ByteMod,      \* bytes are 0 .. ByteMod - 1 (256)
  BufSize,      \* COMM_BUF_SIZE (128)
  TypeLimit,    \* COMM_PACKET_LIMIT (22)
  Types,        \* the packet types that are sent
  Payloads,     \* the payloads that are sent
  ResyncAfter,  \* undisturbed bytes after which a receiver is in step again
  MaxLosses     \* bound: disturbances before the line calms down

Mark     == ByteMod - 1
Overhead == 6
Bytes    == 0..Mark

FramingConstantsOK ==
  /\ ByteMod \in Nat /\ BufSize \in Nat /\ TypeLimit \in Nat
  /\ ResyncAfter \in Nat /\ MaxLosses \in Nat
  /\ Overhead <= BufSize /\ BufSize < Mark
  /\ TypeLimit < Mark
  /\ Types \subseteq 1..TypeLimit
  /\ \A p \in Payloads : p \in Seq(Bytes) /\ Len(p) + Overhead <= BufSize

VARIABLES
  sent,       \* the packet sent last, if any
  tx,         \* those of its bytes that are still to come
  received,   \* packets accepted since its transmission began
  disturbed,  \* history: the line was disturbed at some time
  quiet,      \* history: bytes of plain packets since then, to ResyncAfter
  calm,       \* history: quiet had come to ResyncAfter when sent began
  losses      \* history: disturbances since the last calm packet began

lineVars == <<sent, tx, received, disturbed, quiet, calm, losses>>

Packets == [type : Types, payload : Payloads]

\* calc_checksum, is_valid_data: the sum of the bytes in 16 bits.
Checksum(bytes) ==
  LET sum[n \in 0..Len(bytes)] ==
        IF n = 0 THEN 0 ELSE (sum[n - 1] + bytes[n]) % (ByteMod * ByteMod)
  IN  sum[Len(bytes)]

Body(p)   == <<p.type, Len(p.payload)>> \o p.payload
Encode(p) == LET sum == Checksum(Body(p))
             IN  <<Mark, Mark>> \o Body(p) \o <<sum \div ByteMod, sum % ByteMod>>

\* No byte of the body is a mark, or a size too large to be rejected for sure.
Plain(p) ==
  LET bytes == Encode(p)
  IN  \A i \in 3..Len(bytes) : bytes[i] < ByteMod - Overhead

LineInit ==
  /\ sent = << >> /\ tx = << >> /\ received = << >>
  /\ disturbed = FALSE /\ quiet = ResyncAfter /\ calm = TRUE
  /\ losses = 0

\* The next packet is put into the buffer when the last is out.
SendPacket ==
  /\ tx = << >>
  /\ \E p \in Packets : sent' = << p >> /\ tx' = Encode(p)
  /\ received' = << >>
  /\ calm' = (quiet = ResyncAfter)
  /\ losses' = IF calm' THEN 0 ELSE losses
  /\ UNCHANGED <<disturbed, quiet>>

\* A byte gets through; the receiver accepts the packets of ps, if any.
Arrive(ps) ==
  /\ tx' = Tail(tx)
  /\ received' = received \o ps
  /\ quiet' = IF calm THEN quiet
              ELSE IF ~Plain(sent[1]) THEN 0
              ELSE IF quiet < ResyncAfter THEN quiet + 1 ELSE quiet
  /\ UNCHANGED <<sent, disturbed, calm, losses>>

Disturb ==
  /\ losses < MaxLosses /\ losses' = losses + 1
  /\ disturbed' = TRUE /\ quiet' = 0 /\ calm' = FALSE

LoseByte ==
  /\ tx # << >>
  /\ tx' = Tail(tx)
  /\ Disturb
  /\ UNCHANGED <<sent, received>>

LineTypeOK ==
  /\ sent \in Seq(Packets) /\ Len(sent) <= 1
  /\ tx \in Seq(Bytes) /\ Len(tx) <= BufSize
  /\ disturbed \in BOOLEAN
  /\ quiet \in 0..ResyncAfter
  /\ calm \in BOOLEAN
  /\ losses \in 0..MaxLosses

\* All of a packet is over the line and the receiver has accepted it, with its
\* contents, once and nothing else.
Delivered == tx = << >> => received = sent
=============================================================================
