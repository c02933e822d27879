--------------------------- MODULE Framing_proofs ---------------------------
(*****************************************************************************)
(* The two receivers of a serial line (RobostixReceiver, GumstixReceiver),   *)
(* for every size of bytes and buffers, every set of types and every         *)
(* number of losses, as MCLines has them.                                    *)
(*                                                                           *)
(* Either receiver is in step with the packet on the line, or once           *)
(* disturbed out of step. Then it is idle, or in the middle of a false       *)
(* packet of which no more bytes are to come than the line needs to be       *)
(* calm: so it is idle when the next packet begins on a calm line, and       *)
(* that is to be in step.                                                    *)
(*****************************************************************************)
EXTENDS Link_proofs

Byte == 0..(ByteMod - 1)

\* The packet that is sent, as both sides write it (Encode of Framing).
SumTo(bytes) ==
  LET sum[n \in 0..Len(bytes)] ==
        IF n = 0 THEN 0 ELSE (sum[n - 1] + bytes[n]) % (ByteMod * ByteMod)
  IN  sum

FrameBody(p) == <<p.type, Len(p.payload)>> \o p.payload

FrameSum(p)  == SumTo(FrameBody(p))[Len(FrameBody(p))]

Frame(p) ==
  <<ByteMod - 1, ByteMod - 1>> \o FrameBody(p)
    \o <<FrameSum(p) \div ByteMod, FrameSum(p) % ByteMod>>

PlainFrame(p) == \A i \in 3..Len(Frame(p)) : Frame(p)[i] < ByteMod - 6

\* How many of its bytes are gone.
Size == Len(Frame(sent[1]))

Gone == Size - Len(tx)

LinePlace ==
  /\ sent = << >> => tx = << >>
  /\ sent # << >> => /\ Len(tx) <= Size
                     /\ \A i \in 1..Len(tx) : tx[i] = Frame(sent[1])[Gone + i]

Between == sent = << >> \/ Gone \in {0, Size}

\* What comes of a packet that begins when the line has been calm long enough.
Received1 == IF tx = << >> THEN received = sent ELSE received = << >>

\* Robostix 1: the bytes in its buffer, and how many it awaits.
RobostixResync == 2 * BufSize - 6

BufferAt(n, items) ==
  /\ n \in 0..BufSize /\ items \in 0..BufSize
  /\ n = 0 => items = 0
  /\ n \in 1..2 => items = 6
  /\ n = 3 => items \in {0, 6}
  /\ n >= 4 => items > n \/ items \in 1..3

RobostixTypes == rx_buf \in Seq(Byte) /\ BufferAt(Len(rx_buf), rx_items)

RobostixInStep ==
  /\ Between => rx_buf = << >>
  /\ ~Between =>
       /\ Len(rx_buf) = Gone /\ \A i \in 1..Gone : rx_buf[i] = Frame(sent[1])[i]
       /\ rx_items = IF Gone < 4 THEN 6 ELSE Size

\* Once disturbed, it is idle until the marks of a packet come, or in the middle
\* of a false packet that ends before the line has been calm long enough.
LostAt(n, items, gone, q) ==
  \/ n = 0 /\ gone >= 1
  \/ n = 1 /\ gone = 2
  \/ n = 2 /\ BufSize - 2 + q <= RobostixResync
  \/ n = 3 /\ items = 6 /\ BufSize - 3 + q <= RobostixResync
  \/ n = 3 /\ items = 0 /\ q <= BufSize - 3 /\ (gone = 0 \/ q <= gone - 3)
  \/ n >= 4 /\ items > n /\ items - n + q <= RobostixResync
  \/ n >= 4 /\ items < 4 /\ BufSize - n + 1 + q <= RobostixResync

RobostixLost == sent # << >> /\ LostAt(Len(rx_buf), rx_items, Gone, quiet)

RobostixInv ==
  /\ R!LineTypeOK /\ LinePlace /\ RobostixTypes
  /\ ~disturbed => calm
  /\ calm => quiet = RobostixResync /\ RobostixInStep /\ Received1
  /\ ~calm => quiet = 0 \/ RobostixInStep \/ RobostixLost

\* The Gumstix: the state of comm_recv_packet.
GumstixResync == BufSize + 4

GumstixTypes ==
  /\ state \in {"MARK1", "MARK2", "TYPE", "SIZE", "PAYLOAD", "SUM1", "SUM2"}
  /\ type \in 0..TypeLimit /\ size \in 0..BufSize
  /\ payload \in Seq(Byte)
  /\ state \in {"MARK1", "MARK2", "TYPE", "SIZE"} => payload = << >>
  /\ state = "PAYLOAD" => Len(payload) < size
  /\ state \in {"SUM1", "SUM2"} => Len(payload) = size
  /\ checksum \in 0..(ByteMod * ByteMod - 1)
  /\ state = "SUM2" => \E c \in Byte : checksum = c * ByteMod

AtPlace(s, gone, n) ==
  \/ s = "MARK1" /\ gone \in {0, n}
  \/ s = "MARK2" /\ gone = 1
  \/ s = "TYPE"  /\ gone = 2
  \/ s = "SIZE"  /\ gone = 3
  \/ s = "PAYLOAD" /\ gone \in 4..(n - 3)
  \/ s = "SUM1" /\ gone = n - 2
  \/ s = "SUM2" /\ gone = n - 1

PacketSoFar ==
  /\ state \in {"SIZE", "PAYLOAD", "SUM1", "SUM2"} => type = sent[1].type
  /\ state \in {"PAYLOAD", "SUM1", "SUM2"} =>
       /\ size = Len(sent[1].payload)
       /\ state = "PAYLOAD" => Len(payload) = Gone - 4
       /\ \A i \in 1..Len(payload) : payload[i] = sent[1].payload[i]
  /\ state = "SUM2" => checksum = Frame(sent[1])[Size - 1] * ByteMod

GumstixInStep ==
  /\ sent = << >> => state = "MARK1"
  /\ sent # << >> => AtPlace(state, Gone, Size) /\ PacketSoFar

AstrayAt(s, left, gone, q) ==
  \/ s = "MARK1" /\ gone >= 1
  \/ s = "MARK2" /\ gone = 2
  \/ s = "TYPE"  /\ gone = 1
  \/ s = "SIZE"  /\ BufSize + 3 + q <= GumstixResync
  \/ s = "PAYLOAD" /\ left + 2 + q <= GumstixResync
  \/ s = "SUM1" /\ 2 + q <= GumstixResync
  \/ s = "SUM2" /\ 1 + q <= GumstixResync

GumstixLost == sent # << >> /\ AstrayAt(state, size - Len(payload), Gone, quiet)

GumstixInv ==
  /\ G!LineTypeOK /\ LinePlace /\ GumstixTypes
  /\ ~disturbed => calm
  /\ calm => quiet = GumstixResync /\ GumstixInStep /\ Received1
  /\ ~calm => quiet = 0 \/ GumstixInStep \/ GumstixLost

\* What is assumed of the constants of the line.
LEMMA FramingConstants ==
  /\ ByteMod \in Nat /\ BufSize \in Nat /\ TypeLimit \in Nat
  /\ RobostixLosses \in Nat /\ GumstixLosses \in Nat
  /\ 6 <= BufSize /\ BufSize < ByteMod - 1 /\ TypeLimit < ByteMod - 1
  /\ Types \subseteq 1..TypeLimit
  /\ \A p \in RobostixPayloads \cup GumstixPayloads : p \in Seq(Byte) /\ Len(p) + 6 <= BufSize
<1>1. R!FramingConstantsOK /\ G!FramingConstantsOK
  BY LinesConstantsOK
<1>2. R!Mark = ByteMod - 1 /\ G!Mark = ByteMod - 1 /\ R!Overhead = 6 /\ G!Overhead = 6
  BY DEF R!Mark, G!Mark, R!Overhead, G!Overhead
<1>3. R!Bytes = Byte /\ G!Bytes = Byte
  BY <1>2 DEF R!Bytes, G!Bytes, Byte
<1> HIDE DEF RobostixPayloads, GumstixPayloads
<1> QED BY <1>1, <1>2, <1>3 DEF R!FramingConstantsOK, G!FramingConstantsOK

\* Those of them that are numbers.
LEMMA FramingNumbers ==
  /\ ByteMod \in Nat /\ BufSize \in Nat /\ TypeLimit \in Nat
  /\ 6 <= BufSize /\ BufSize < ByteMod - 1 /\ TypeLimit < ByteMod - 1
BY FramingConstants

\* Two bytes are a number of 16 bits.
LEMMA PositionValue ==
  ASSUME NEW c \in Byte, NEW b \in Byte
  PROVE  c * ByteMod + b \in 0..(ByteMod * ByteMod - 1)
<1>1. ByteMod \in Nat /\ ByteMod > 0 /\ c \in Nat /\ b \in Nat /\ c <= ByteMod - 1 /\ b <= ByteMod - 1
  BY FramingConstants DEF Byte
<1>2. c * ByteMod \in Nat /\ ByteMod * ByteMod \in Nat
  BY <1>1
<1>3. (ByteMod - 1 - c) * ByteMod >= 0
  BY <1>1
<1>4. (ByteMod - 1 - c) * ByteMod = ByteMod * ByteMod - ByteMod - c * ByteMod
  BY <1>1
<1> QED BY <1>1, <1>2, <1>3, <1>4

\* The sum of 16 bits exists and is one.
LEMMA SumToIs ==
  ASSUME NEW bytes \in Seq(Byte)
  PROVE  \A n \in 0..Len(bytes) : SumTo(bytes)[n] \in 0..(ByteMod * ByteMod - 1)
<1> DEFINE N == Len(bytes)
           mm == ByteMod * ByteMod
           next(a, b) == (a + b) % mm
<1>1. N \in Nat /\ mm \in Nat /\ mm > 0 /\ \A i \in 1..N : bytes[i] \in Int
  <2>1. mm \in Nat /\ mm > 0
    BY FramingConstants
  <2>2. N \in Nat /\ \A i \in 1..N : bytes[i] \in Byte
    <3> HIDE DEF mm
    <3> QED OBVIOUS
  <2>3. Byte \subseteq Int
    BY FramingConstants DEF Byte
  <2> HIDE DEF mm
  <2> QED BY <2>1, <2>2, <2>3
<1> HIDE DEF mm
<1>2. \A a, b \in Int : next(a, b) \in 0..(mm - 1)
  BY <1>1
<1> HIDE DEF next
<1> DEFINE Upto(m) == \E f \in [0..m -> Int] :
                        f[0] = 0 /\ \A i \in 1..m : f[i] = next(f[i - 1], bytes[i])
           E == {m \in Nat : m <= N => Upto(m)}
<1>3. Nat \subseteq E
  <2>1. 0 \in E
    <3>1. [i \in 0..0 |-> 0] \in [0..0 -> Int] /\ [i \in 0..0 |-> 0][0] = 0 /\ 1..0 = {}
      OBVIOUS
    <3>2. Upto(0)
      BY <3>1
    <3> HIDE DEF Upto
    <3> QED BY <3>2
  <2>2. ASSUME NEW m \in Nat, m \in E PROVE m + 1 \in E
    <3> SUFFICES ASSUME m + 1 <= N PROVE Upto(m + 1)
      <4> HIDE DEF Upto
      <4> QED OBVIOUS
    <3>0. Upto(m)
      <4> HIDE DEF Upto
      <4> QED BY <1>1, <2>2
    <3>1. PICK f \in [0..m -> Int] : f[0] = 0 /\ \A i \in 1..m : f[i] = next(f[i - 1], bytes[i])
      BY <3>0
    <3> DEFINE g == [i \in 0..(m + 1) |-> IF i <= m THEN f[i] ELSE next(f[m], bytes[m + 1])]
    <3>2. next(f[m], bytes[m + 1]) \in Int
      <4>1. f[m] \in Int /\ bytes[m + 1] \in Int
        BY <1>1
      <4>2. 0..(mm - 1) \subseteq Int
        BY <1>1
      <4> QED BY <1>2, <4>1, <4>2
    <3>3. g \in [0..(m + 1) -> Int]
      BY <3>2
    <3>4. \A i \in 0..m : g[i] = f[i]
      OBVIOUS
    <3>5. g[m + 1] = next(f[m], bytes[m + 1])
      OBVIOUS
    <3> HIDE DEF g
    <3>6. \A i \in 1..(m + 1) : g[i] = next(g[i - 1], bytes[i])
      <4> TAKE i \in 1..(m + 1)
      <4>1. CASE i = m + 1
        BY <3>4, <3>5, <4>1
      <4>2. CASE i # m + 1
        <5>1. i \in 1..m /\ i - 1 \in 0..m /\ i \in 0..m
          BY <4>2
        <5> QED BY <3>1, <3>4, <5>1
      <4> QED BY <4>1, <4>2
    <3>7. g[0] = 0
      BY <3>1, <3>4
    <3> WITNESS g \in [0..(m + 1) -> Int]
    <3> QED BY <3>6, <3>7
  <2> HIDE DEF E
  <2> QED BY <2>1, <2>2, Induct
<1>4. PICK f \in [0..N -> Int] : f[0] = 0 /\ \A i \in 1..N : f[i] = next(f[i - 1], bytes[i])
  <2>1. Upto(N)
    <3> HIDE DEF Upto
    <3> QED BY <1>1, <1>3
  <2> QED BY <2>1
<1> DEFINE unfold(g) == [n \in 0..N |-> IF n = 0 THEN 0 ELSE next(g[n - 1], bytes[n])]
<1>5. f = unfold(f)
  BY <1>1, <1>4
<1>6. SumTo(bytes) = CHOOSE g : g = unfold(g)
  BY DEF SumTo, next, mm
<1> DEFINE S1 == SumTo(bytes)
<1>7. S1 = unfold(S1)
  <2>1. \E g : g = unfold(g)
    BY <1>5
  <2> HIDE DEF unfold
  <2> QED BY <1>6, <2>1
<1> HIDE DEF S1
<1>8. S1[0] = 0 /\ \A n \in 1..N : S1[n] = next(S1[n - 1], bytes[n])
  BY <1>1, <1>7
<1> HIDE DEF unfold
<1> DEFINE E2 == {m \in Nat : m <= N => S1[m] \in 0..(mm - 1)}
<1>9. Nat \subseteq E2
  <2>1. 0 \in E2
    BY <1>1, <1>8
  <2>2. ASSUME NEW m \in Nat, m \in E2 PROVE m + 1 \in E2
    <3> SUFFICES ASSUME m + 1 <= N PROVE S1[m + 1] \in 0..(mm - 1)
      OBVIOUS
    <3>1. S1[m] \in Int /\ m + 1 \in 1..N /\ bytes[m + 1] \in Int
      BY <1>1, <2>2
    <3>2. S1[m + 1] = next(S1[m], bytes[m + 1])
      BY <1>8, <3>1
    <3> QED BY <1>2, <3>1, <3>2
  <2> HIDE DEF E2
  <2> QED BY <2>1, <2>2, Induct
<1> QED BY <1>1, <1>9 DEF S1, mm

\* A packet that can be sent.
Sendable(p) ==
  /\ p.type \in Types /\ p.payload \in Seq(Byte) /\ Len(p.payload) + 6 <= BufSize
  /\ p = [type |-> p.type, payload |-> p.payload]

\* What is where in the bytes of a packet.
FrameFacts(p) ==
  /\ Frame(p) \in Seq(Byte) /\ Len(Frame(p)) = Len(p.payload) + 6
  /\ Len(Frame(p)) \in 6..BufSize
  /\ Frame(p)[1] = ByteMod - 1 /\ Frame(p)[2] = ByteMod - 1
  /\ Frame(p)[3] = p.type /\ Frame(p)[4] = Len(p.payload)
  /\ p.type \in 1..TypeLimit /\ p.type \in Byte
  /\ \A i \in 1..Len(p.payload) : Frame(p)[4 + i] = p.payload[i]
  /\ Frame(p)[Len(p.payload) + 5] * ByteMod + Frame(p)[Len(p.payload) + 6] = FrameSum(p)

\* The bytes the sum is taken of.
BodyFacts(p) ==
  /\ FrameBody(p) \in Seq(Byte) /\ Len(FrameBody(p)) = Len(p.payload) + 2
  /\ FrameBody(p)[1] = p.type /\ FrameBody(p)[2] = Len(p.payload)
  /\ \A i \in 1..Len(p.payload) : FrameBody(p)[2 + i] = p.payload[i]

\* The body of a packet.
LEMMA BodyIs == ASSUME NEW p, Sendable(p) PROVE BodyFacts(p)
<1> DEFINE q == p.payload
           m == Len(q)
           h == <<p.type, m>>
<1>1. q \in Seq(Byte) /\ m \in Nat /\ m + 6 <= BufSize
  BY DEF Sendable
<1>2. p.type \in Byte /\ m \in Byte
  <2>1. p.type \in 1..TypeLimit
    BY FramingConstants DEF Sendable
  <2> HIDE DEF m
  <2> QED BY <1>1, <2>1, FramingNumbers DEF Byte
<1>3. h \in Seq(Byte) /\ Len(h) = 2 /\ h[1] = p.type /\ h[2] = m
  BY <1>2, TwoIs
<1>4. FrameBody(p) = h \o q
  BY DEF FrameBody
<1> HIDE DEF h
<1>5. /\ h \o q \in Seq(Byte) /\ Len(h \o q) = Len(h) + Len(q)
      /\ \A i \in 1..Len(h) : (h \o q)[i] = h[i]
      /\ \A i \in 1..Len(q) : (h \o q)[Len(h) + i] = q[i]
  <2>1. h \in Seq(Byte) /\ q \in Seq(Byte)
    BY <1>1, <1>3
  <2> HIDE DEF q
  <2> QED BY <2>1, ConcatIs
<1>6. /\ FrameBody(p) \in Seq(Byte) /\ Len(FrameBody(p)) = m + 2
      /\ FrameBody(p)[1] = p.type /\ FrameBody(p)[2] = m
      /\ \A i \in 1..m : FrameBody(p)[2 + i] = q[i]
  <2> HIDE DEF q, m
  <2> QED BY <1>1, <1>3, <1>4, <1>5 DEF m
<1> QED BY <1>6 DEF BodyFacts, q, m

\* The bytes of a packet.
LEMMA FrameIs == ASSUME NEW p, Sendable(p) PROVE FrameFacts(p)
<1> DEFINE q == p.payload
           m == Len(q)
           body == FrameBody(p)
           marks == <<ByteMod - 1, ByteMod - 1>>
           sum == <<FrameSum(p) \div ByteMod, FrameSum(p) % ByteMod>>
<1>1. q \in Seq(Byte) /\ m \in Nat /\ m + 6 <= BufSize
  BY DEF Sendable
<1>2. p.type \in 1..TypeLimit /\ p.type \in Byte /\ m \in Byte /\ ByteMod - 1 \in Byte
  <2>1. p.type \in 1..TypeLimit
    BY FramingConstants DEF Sendable
  <2> HIDE DEF m
  <2> QED BY <1>1, <2>1, FramingNumbers DEF Byte
<1>3. /\ body \in Seq(Byte) /\ Len(body) = m + 2 /\ body[1] = p.type /\ body[2] = m
      /\ \A i \in 1..m : body[2 + i] = q[i]
  BY BodyIs DEF BodyFacts
<1> HIDE DEF body
<1>4. FrameSum(p) \in Nat /\ FrameSum(p) < ByteMod * ByteMod
  <2>1. FrameSum(p) \in 0..(ByteMod * ByteMod - 1)
    <3>1. Len(body) \in 0..Len(body)
      BY <1>1, <1>3
    <3> QED BY <1>3, <3>1, SumToIs DEF FrameSum, body
  <2>2. ByteMod * ByteMod \in Int
    BY FramingConstants
  <2> QED BY <2>1, <2>2
<1>5. /\ sum \in Seq(Byte) /\ Len(sum) = 2
      /\ sum[1] * ByteMod + sum[2] = FrameSum(p)
  <2>1. /\ FrameSum(p) \div ByteMod \in Byte /\ FrameSum(p) % ByteMod \in Byte
        /\ (FrameSum(p) \div ByteMod) * ByteMod + (FrameSum(p) % ByteMod) = FrameSum(p)
    <3> HIDE DEF FrameSum
    <3>1. ByteMod \in Nat /\ ByteMod > 0
      BY FramingNumbers
    <3> QED BY <1>4, <3>1, QuotientIs DEF Byte
  <2> QED BY <2>1, TwoIs
<1>6. marks \in Seq(Byte) /\ Len(marks) = 2 /\ marks[1] = ByteMod - 1 /\ marks[2] = ByteMod - 1
  BY <1>2, TwoIs
<1> HIDE DEF sum, marks
<1> DEFINE mb == marks \o body
<1>7. /\ mb \in Seq(Byte) /\ Len(mb) = m + 4
      /\ mb[1] = ByteMod - 1 /\ mb[2] = ByteMod - 1
      /\ \A i \in 1..(m + 2) : mb[2 + i] = body[i]
  <2>1. /\ mb \in Seq(Byte) /\ Len(mb) = Len(marks) + Len(body)
        /\ \A i \in 1..Len(marks) : mb[i] = marks[i]
        /\ \A i \in 1..Len(body) : mb[Len(marks) + i] = body[i]
    <3>1. marks \in Seq(Byte) /\ body \in Seq(Byte)
      BY <1>3, <1>6
    <3> QED BY <3>1, ConcatIs
  <2> HIDE DEF mb, m
  <2> QED BY <1>1, <1>3, <1>6, <2>1
<1> HIDE DEF mb
<1>8. Frame(p) = mb \o sum
  BY DEF Frame, mb, marks, body, sum
<1>9. /\ Frame(p) \in Seq(Byte) /\ Len(Frame(p)) = m + 6
      /\ \A i \in 1..(m + 4) : Frame(p)[i] = mb[i]
      /\ Frame(p)[m + 5] = sum[1] /\ Frame(p)[m + 6] = sum[2]
  <2>1. /\ mb \o sum \in Seq(Byte) /\ Len(mb \o sum) = Len(mb) + Len(sum)
        /\ \A i \in 1..Len(mb) : (mb \o sum)[i] = mb[i]
        /\ \A i \in 1..Len(sum) : (mb \o sum)[Len(mb) + i] = sum[i]
    <3>1. mb \in Seq(Byte) /\ sum \in Seq(Byte)
      BY <1>5, <1>7
    <3> QED BY <3>1, ConcatIs
  <2> HIDE DEF m
  <2>2. (mb \o sum)[(m + 4) + 1] = sum[1] /\ (mb \o sum)[(m + 4) + 2] = sum[2]
    BY <1>5, <1>7, <2>1
  <2>3. (m + 4) + 1 = m + 5 /\ (m + 4) + 2 = m + 6
    BY <1>1
  <2> QED BY <1>1, <1>5, <1>7, <1>8, <2>1, <2>2, <2>3
<1> HIDE DEF m
<1>10. /\ Frame(p)[1] = ByteMod - 1 /\ Frame(p)[2] = ByteMod - 1
       /\ Frame(p)[3] = p.type /\ Frame(p)[4] = m
       /\ \A i \in 1..m : Frame(p)[4 + i] = q[i]
  <2>1. \A i \in 1..(m + 2) : Frame(p)[2 + i] = body[i]
    <3> TAKE i \in 1..(m + 2)
    <3>1. 2 + i \in 1..(m + 4)
      BY <1>1
    <3> QED BY <1>7, <1>9, <3>1
  <2>2. Frame(p)[2 + 1] = body[1] /\ Frame(p)[2 + 2] = body[2]
    BY <1>1, <2>1
  <2>3. \A i \in 1..m : Frame(p)[4 + i] = q[i]
    <3> TAKE i \in 1..m
    <3>1. 2 + i \in 1..(m + 2) /\ 2 + (2 + i) = 4 + i
      BY <1>1
    <3> QED BY <1>3, <2>1, <3>1
  <2>4. 1 \in 1..(m + 4) /\ 2 \in 1..(m + 4)
    BY <1>1
  <2> QED BY <1>3, <1>7, <1>9, <2>2, <2>3, <2>4
<1>11. Len(Frame(p)) \in 6..BufSize
  BY <1>1, <1>9, FramingConstants
<1>12. Frame(p)[m + 5] * ByteMod + Frame(p)[m + 6] = FrameSum(p)
  BY <1>5, <1>9
<1> QED BY <1>2, <1>9, <1>10, <1>11, <1>12 DEF FrameFacts, m

-----------------------------------------------------------------------------
\* The line, as both receivers have it: resync is ResyncAfter, bound MaxLosses.
LineTypes(payloads, resync, bound) ==
  /\ sent \in Seq([type : Types, payload : payloads]) /\ Len(sent) <= 1
  /\ tx \in Seq(Byte) /\ Len(tx) <= BufSize
  /\ disturbed \in BOOLEAN /\ quiet \in 0..resync /\ calm \in BOOLEAN
  /\ losses \in 0..bound

Arrived(resync, ps) ==
  /\ tx' = Tail(tx) /\ received' = received \o ps
  /\ quiet' = IF calm THEN quiet
              ELSE IF ~PlainFrame(sent[1]) THEN 0
              ELSE IF quiet < resync THEN quiet + 1 ELSE quiet
  /\ UNCHANGED <<sent, disturbed, calm, losses>>

SentNext(payloads, resync) ==
  /\ tx = << >>
  /\ \E p \in [type : Types, payload : payloads] : sent' = << p >> /\ tx' = Frame(p)
  /\ received' = << >>
  /\ calm' = (quiet = resync)
  /\ losses' = (IF calm' THEN 0 ELSE losses)
  /\ UNCHANGED <<disturbed, quiet>>

Disturbed(bound) ==
  /\ losses < bound /\ losses' = losses + 1
  /\ disturbed' = TRUE /\ quiet' = 0 /\ calm' = FALSE
  /\ sent' = sent /\ (tx' = tx \/ tx' = << >> \/ (tx # << >> /\ tx' = Tail(tx)))

\* The byte that comes next.
NextByte ==
  /\ sent # << >> /\ FrameFacts(sent[1]) /\ Sendable(sent[1])
  /\ Size \in 6..BufSize /\ Gone \in 0..(Size - 1)
  /\ Head(tx) = Frame(sent[1])[Gone + 1] /\ Head(tx) \in Byte

\* What is sent can be sent.
LEMMA LineSendable ==
  ASSUME NEW payloads \in SUBSET (RobostixPayloads \cup GumstixPayloads),
         NEW p \in [type : Types, payload : payloads]
  PROVE  Sendable(p) /\ FrameFacts(p)
<1> HIDE DEF RobostixPayloads, GumstixPayloads
<1>1. p.type \in Types /\ p.payload \in payloads /\ p = [type |-> p.type, payload |-> p.payload]
  OBVIOUS
<1>2. p.payload \in Seq(Byte) /\ Len(p.payload) + 6 <= BufSize
  BY <1>1, FramingConstants
<1>3. Sendable(p)
  BY <1>1, <1>2 DEF Sendable
<1> QED BY <1>3, FrameIs

\* While bytes are to come, the next one is that of the packet.
LEMMA LineNext ==
  ASSUME NEW payloads \in SUBSET (RobostixPayloads \cup GumstixPayloads), NEW resync, NEW bound,
         LineTypes(payloads, resync, bound), LinePlace, tx # << >>
  PROVE  /\ NextByte /\ Len(tx) \in Nat /\ Len(tx) = Size - Gone
         /\ Tail(tx) \in Seq(Byte) /\ Len(Tail(tx)) = Len(tx) - 1
         /\ \A i \in 1..(Len(tx) - 1) : Tail(tx)[i] = tx[i + 1]
<1>1. sent # << >> /\ sent[1] \in [type : Types, payload : payloads]
  <2>1. sent # << >> /\ sent \in Seq([type : Types, payload : payloads])
    BY DEF LinePlace, LineTypes
  <2> QED BY <2>1, SeqFacts
<1>2. Sendable(sent[1]) /\ FrameFacts(sent[1])
  BY <1>1, LineSendable
<1>3. /\ Tail(tx) \in Seq(Byte) /\ Len(Tail(tx)) = Len(tx) - 1 /\ Len(tx) \in Nat \ {0}
      /\ \A i \in 1..(Len(tx) - 1) : Tail(tx)[i] = tx[i + 1]
      /\ Head(tx) = tx[1] /\ Head(tx) \in Byte
  <2>1. tx \in Seq(Byte)
    BY DEF LineTypes
  <2> QED BY <2>1, TailIs
<1>4. /\ Len(tx) <= Size /\ tx[1] = Frame(sent[1])[Gone + 1]
  BY <1>1, <1>3 DEF LinePlace
<1>5. Size \in 6..BufSize
  BY <1>2 DEF Size, FrameFacts
<1>6. Gone \in 0..(Size - 1) /\ Len(tx) = Size - Gone
  BY <1>3, <1>4, <1>5, FramingNumbers DEF Gone
<1> QED BY <1>1, <1>2, <1>3, <1>4, <1>5, <1>6 DEF NextByte

\* A byte arrives.
LEMMA LineArrive ==
  ASSUME NEW payloads \in SUBSET (RobostixPayloads \cup GumstixPayloads),
         NEW resync \in Nat, NEW bound, NEW ps,
         LineTypes(payloads, resync, bound), LinePlace, tx # << >>, Arrived(resync, ps)
  PROVE  /\ LineTypes(payloads, resync, bound)' /\ LinePlace'
         /\ Gone' = Gone + 1 /\ Size' = Size /\ (tx' = << >> <=> Gone + 1 = Size)
<1>1. /\ NextByte /\ Len(tx) \in Nat /\ Len(tx) = Size - Gone
      /\ Tail(tx) \in Seq(Byte) /\ Len(Tail(tx)) = Len(tx) - 1
      /\ \A i \in 1..(Len(tx) - 1) : Tail(tx)[i] = tx[i + 1]
  BY LineNext
<1>2. tx' = Tail(tx) /\ sent' = sent /\ UNCHANGED <<disturbed, calm, losses>>
  BY DEF Arrived
<1>3. Size' = Size /\ Size \in 6..BufSize /\ Gone \in 0..(Size - 1)
  BY <1>1, <1>2 DEF Size, NextByte
<1>4. Gone' = Gone + 1
  BY <1>1, <1>2, <1>3, FramingNumbers DEF Gone
<1>5. LinePlace'
  <2>1. Len(tx') <= Size'
    BY <1>1, <1>2, <1>3, FramingNumbers
  <2>2. ASSUME NEW i \in 1..Len(tx') PROVE tx'[i] = Frame(sent[1])[Gone + 1 + i]
    <3>1. i \in 1..(Len(tx) - 1) /\ i + 1 \in 1..Len(tx) /\ Gone + (i + 1) = Gone + 1 + i
      BY <1>1, <1>2, <1>3, <2>2
    <3> QED BY <1>1, <1>2, <3>1 DEF LinePlace, NextByte
  <2>3. sent' # << >>
    BY <1>1, <1>2 DEF NextByte
  <2> QED BY <1>2, <1>4, <2>1, <2>2, <2>3 DEF LinePlace
<1>6. quiet' \in 0..resync
  BY DEF Arrived, LineTypes
<1>7. Len(tx') <= BufSize /\ tx' \in Seq(Byte)
  BY <1>1, <1>2, <1>3, FramingNumbers
<1>8. tx' = << >> <=> Gone + 1 = Size
  <2>1. tx' = << >> <=> Len(tx') = 0
    BY <1>7
  <2> QED BY <1>1, <1>2, <1>3, <2>1, FramingNumbers
<1>9. LineTypes(payloads, resync, bound)'
  BY <1>2, <1>6, <1>7 DEF LineTypes
<1> QED BY <1>3, <1>4, <1>5, <1>8, <1>9

\* A packet is put on the line.
LEMMA LineSend ==
  ASSUME NEW payloads \in SUBSET (RobostixPayloads \cup GumstixPayloads),
         NEW resync \in Nat, NEW bound \in Nat,
         LineTypes(payloads, resync, bound), SentNext(payloads, resync)
  PROVE  /\ LineTypes(payloads, resync, bound)' /\ LinePlace'
         /\ Gone' = 0 /\ Size' \in 6..BufSize /\ sent' # << >> /\ tx' # << >>
<1>1. PICK p \in [type : Types, payload : payloads] : sent' = << p >> /\ tx' = Frame(p)
  BY DEF SentNext
<1>2. Frame(p) \in Seq(Byte) /\ Len(Frame(p)) \in 6..BufSize
  BY LineSendable DEF FrameFacts
<1>3. sent'[1] = p /\ sent' # << >> /\ Len(sent') = 1
      /\ sent' \in Seq([type : Types, payload : payloads])
  BY <1>1
<1>4. Size' = Len(Frame(p)) /\ Gone' = 0
  <2>1. Size' = Len(Frame(p)) /\ Len(tx') = Len(Frame(p))
    BY <1>1, <1>3 DEF Size
  <2> QED BY <1>2, <2>1, FramingNumbers DEF Gone
<1>5. LinePlace'
  <2>1. Len(tx') <= Size'
    BY <1>1, <1>2, <1>4, FramingNumbers
  <2>2. ASSUME NEW i \in 1..Len(tx') PROVE tx'[i] = Frame(sent'[1])[Gone' + i]
    <3>1. 0 + i = i
      BY <1>1, <1>2
    <3> QED BY <1>1, <1>3, <1>4, <3>1
  <2> QED BY <1>3, <2>1, <2>2 DEF LinePlace
<1>6. tx' # << >>
  BY <1>1, <1>2, FramingNumbers
<1>7. LineTypes(payloads, resync, bound)'
  <2>1. quiet' \in 0..resync /\ calm' \in BOOLEAN /\ losses' \in 0..bound /\ disturbed' \in BOOLEAN
    BY DEF LineTypes, SentNext
  <2>2. tx' \in Seq(Byte) /\ Len(tx') <= BufSize
    BY <1>1, <1>2, FramingNumbers
  <2> QED BY <1>3, <2>1, <2>2 DEF LineTypes
<1> QED BY <1>2, <1>3, <1>4, <1>5, <1>6, <1>7

\* The line loses bytes.
LEMMA LineDisturbed ==
  ASSUME NEW payloads \in SUBSET (RobostixPayloads \cup GumstixPayloads),
         NEW resync \in Nat, NEW bound \in Nat,
         LineTypes(payloads, resync, bound), LinePlace, Disturbed(bound)
  PROVE  LineTypes(payloads, resync, bound)' /\ LinePlace'
<1>1. quiet' \in 0..resync /\ calm' \in BOOLEAN /\ losses' \in 0..bound /\ disturbed' \in BOOLEAN
  <2>1. losses < bound /\ losses' = losses + 1 /\ losses \in 0..bound
    BY DEF LineTypes, Disturbed
  <2>2. losses' \in 0..bound
    BY <2>1
  <2>3. quiet' \in 0..resync
    BY DEF Disturbed
  <2>4. calm' \in BOOLEAN /\ disturbed' \in BOOLEAN
    BY Zenon DEF Disturbed
  <2> QED BY <2>2, <2>3, <2>4
<1>2. sent' = sent /\ sent \in Seq([type : Types, payload : payloads]) /\ Len(sent) <= 1
  BY DEF LineTypes, Disturbed
<1>3. CASE tx' = tx
  <2>1. LinePlace'
    BY <1>2, <1>3 DEF LinePlace, Size, Gone
  <2> QED BY <1>1, <1>2, <1>3, <2>1 DEF LineTypes
<1>4. CASE tx' = << >>
  <2>1. tx' \in Seq(Byte) /\ Len(tx') = 0
    BY <1>4
  <2>2. sent # << >> => Size \in 6..BufSize
    <3> SUFFICES ASSUME sent # << >> PROVE Size \in 6..BufSize
      OBVIOUS
    <3>1. sent[1] \in [type : Types, payload : payloads]
      BY <1>2, SeqFacts
    <3> QED BY <3>1, LineSendable DEF FrameFacts, Size
  <2>3. LinePlace'
    <3>1. Size' = Size
      BY <1>2 DEF Size
    <3>2. sent' # << >> => Len(tx') <= Size'
      BY <1>2, <2>1, <2>2, <3>1, FramingNumbers
    <3>3. 1..Len(tx') = {}
      BY <2>1
    <3> QED BY <1>2, <1>4, <3>2, <3>3 DEF LinePlace
  <2> QED BY <1>1, <1>2, <2>1, <2>3, FramingNumbers DEF LineTypes
<1>5. CASE tx # << >> /\ tx' = Tail(tx)
  <2>1. /\ NextByte /\ Len(tx) \in Nat /\ Len(tx) = Size - Gone
        /\ Tail(tx) \in Seq(Byte) /\ Len(Tail(tx)) = Len(tx) - 1
        /\ \A i \in 1..(Len(tx) - 1) : Tail(tx)[i] = tx[i + 1]
    BY <1>5, LineNext
  <2>2. Size' = Size /\ Size \in 6..BufSize /\ Gone \in 0..(Size - 1)
    BY <1>2, <2>1 DEF Size, NextByte
  <2>3. Gone' = Gone + 1
    BY <1>5, <2>1, <2>2, FramingNumbers DEF Gone
  <2>4. ASSUME NEW i \in 1..Len(tx') PROVE tx'[i] = Frame(sent[1])[Gone + 1 + i]
    <3>1. i \in 1..(Len(tx) - 1) /\ i + 1 \in 1..Len(tx) /\ Gone + (i + 1) = Gone + 1 + i
      BY <1>5, <2>1, <2>2, <2>4
    <3> QED BY <1>5, <2>1, <3>1 DEF LinePlace, NextByte
  <2>5. Len(tx') <= Size' /\ Len(tx') <= BufSize /\ tx' \in Seq(Byte)
    BY <1>5, <2>1, <2>2, FramingNumbers
  <2>6. LinePlace'
    BY <1>2, <2>1, <2>3, <2>4, <2>5 DEF LinePlace, NextByte
  <2> QED BY <1>1, <1>2, <2>5, <2>6 DEF LineTypes
<1> QED BY <1>3, <1>4, <1>5 DEF Disturbed

-----------------------------------------------------------------------------
\* The receiver of Robostix 1 is at the end of this line.
LEMMA RobostixCodec ==
  /\ \A b : R!Checksum(b) = SumTo(b)[Len(b)]
  /\ \A p : R!Body(p) = FrameBody(p) /\ R!Encode(p) = Frame(p) /\ (R!Plain(p) <=> PlainFrame(p))
<1>1. \A b : R!Checksum(b) = SumTo(b)[Len(b)]
  BY DEF R!Checksum, SumTo
<1>2. \A p : R!Body(p) = FrameBody(p)
  BY DEF R!Body, FrameBody
<1>3. \A p : R!Encode(p) = Frame(p)
  BY <1>1, <1>2 DEF R!Encode, R!Mark, Frame, FrameSum
<1>4. \A p : R!Plain(p) <=> PlainFrame(p)
  BY <1>3 DEF R!Plain, R!Overhead, PlainFrame
<1> QED BY <1>1, <1>2, <1>3, <1>4

\* The types of the line, with the bound of this receiver.
LEMMA RobostixLine ==
  R!LineTypeOK <=> LineTypes(RobostixPayloads, RobostixResync, RobostixLosses)
<1> HIDE DEF RobostixPayloads
<1>1. R!Bytes = Byte
  BY DEF R!Bytes, R!Mark, Byte
<1>2. R!Packets = [type : Types, payload : RobostixPayloads]
  BY DEF R!Packets
<1> QED BY <1>1, <1>2, Zenon DEF R!LineTypeOK, LineTypes, RobostixResync

\* After how many bytes Robostix 1 is in step.
LEMMA RobostixResyncs == RobostixResync \in Nat /\ RobostixResync = BufSize + (BufSize - 6)
BY FramingNumbers DEF RobostixResync

\* A byte arrives at Robostix 1.
LEMMA RobostixArrive ==
  ASSUME NEW ps, R!Arrive(ps) PROVE Arrived(RobostixResync, ps)
<1>1. R!Plain(sent[1]) <=> PlainFrame(sent[1])
  BY RobostixCodec
<1> QED BY <1>1, Zenon DEF R!Arrive, Arrived, RobostixResync

\* A packet is sent to Robostix 1.
LEMMA RobostixSend ==
  ASSUME R!SendPacket PROVE SentNext(RobostixPayloads, RobostixResync)
<1> HIDE DEF RobostixPayloads
<1>1. \E p \in [type : Types, payload : RobostixPayloads] : sent' = << p >> /\ tx' = Frame(p)
  BY RobostixCodec DEF R!SendPacket, R!Packets
<1> QED BY <1>1, Zenon DEF R!SendPacket, SentNext, RobostixResync

\* Bytes lost, or a reset.
LEMMA RobostixDisturb ==
  ASSUME R!LoseByte \/ R!Reset PROVE Disturbed(RobostixLosses)
BY Zenon DEF R!LoseByte, R!Reset, R!Disturb, Disturbed

-----------------------------------------------------------------------------
\* What a byte makes of n bytes and of rx_items, without the remainder.
NextItems(n, items, c) ==
  IF n = 0 THEN IF c = ByteMod - 1 THEN 6 ELSE 0
  ELSE IF n = 3 THEN IF items + c < ByteMod THEN items + c ELSE items + c - ByteMod
  ELSE items

ItemsAfter(c) == NextItems(Len(rx_buf), rx_items, c)

\* RobostixTypes, by its parts.
LEMMA BufferIs ==
  ASSUME RobostixTypes PROVE rx_buf \in Seq(Byte) /\ BufferAt(Len(rx_buf), rx_items)
BY DEF RobostixTypes

\* rx_items after a byte, as the receiver computes it.
LEMMA ItemsIs ==
  ASSUME RobostixTypes, NEW c \in Byte
  PROVE  R!Items(c) = ItemsAfter(c) /\ ItemsAfter(c) \in Nat
<1> DEFINE n == Len(rx_buf)
<1>1. R!Items(c) = IF n = 0 /\ c = ByteMod - 1 THEN 6
                   ELSE IF n = 3 THEN (rx_items + c) % ByteMod ELSE rx_items
  BY Zenon DEF R!Items, R!rx_index, R!Mark, R!Overhead
<1>2. BufferAt(n, rx_items)
  BY BufferIs
<1> HIDE DEF n
<1>3. /\ rx_items \in Nat /\ rx_items <= BufSize /\ c \in Nat /\ c < ByteMod /\ BufSize < ByteMod
      /\ ByteMod \in Nat /\ BufSize \in Nat /\ n \in Nat /\ (n = 0 => rx_items = 0)
  BY <1>2, FramingNumbers DEF BufferAt, Byte
<1>4. (rx_items + c) % ByteMod = IF rx_items + c < ByteMod THEN rx_items + c
                                                             ELSE rx_items + c - ByteMod
  <2>1. CASE rx_items + c < ByteMod
    BY <1>3, <2>1
  <2>2. CASE ByteMod <= rx_items + c
    <3> DEFINE x == rx_items + c
    <3>1. x \in Int /\ 0 <= x - ByteMod /\ x - ByteMod < ByteMod /\ ByteMod > 0
      BY <1>3, <2>2
    <3>2. 1 * ByteMod = ByteMod
      BY <1>3
    <3>3. x % ByteMod = x - 1 * ByteMod
      <4> HIDE DEF x
      <4> QED BY <1>3, <3>1, <3>2, RemainderIs
    <3> QED BY <1>3, <2>2, <3>2, <3>3
  <2> QED BY <1>3, <2>1, <2>2
<1>5. NextItems(n, rx_items, c) \in Nat
  BY <1>3 DEF NextItems
<1>6. R!Items(c) = NextItems(n, rx_items, c)
  <2>1. CASE n = 0
    BY <1>1, <1>3, <2>1 DEF NextItems
  <2>2. CASE n # 0
    BY <1>1, <1>4, <2>2, Zenon DEF NextItems
  <2> QED BY <2>1, <2>2
<1> QED BY <1>5, <1>6 DEF ItemsAfter, n

\* A byte is rejected, skipped, the last of a packet, or stored.
RejectsAt(n, items, c) == (n = 1 /\ c # ByteMod - 1) \/ (n = 3 /\ NextItems(n, items, c) > BufSize)

Rejects(c) == RejectsAt(Len(rx_buf), rx_items, c)

Rejecting(c) == Rejects(c) /\ rx_buf' = << >> /\ rx_items' = 0

Skipping(c) == ~Rejects(c) /\ ItemsAfter(c) = 0 /\ rx_buf' = rx_buf /\ rx_items' = 0

Finishing(c) ==
  ~Rejects(c) /\ ItemsAfter(c) = Len(rx_buf) + 1 /\ rx_buf' = << >> /\ rx_items' = 0

Storing(c) ==
  /\ ~Rejects(c) /\ ItemsAfter(c) # 0 /\ ItemsAfter(c) # Len(rx_buf) + 1
  /\ rx_buf' = Append(rx_buf, c) /\ rx_items' = ItemsAfter(c)

Accepted(c) ==
  LET buf == Append(rx_buf, c) IN IF R!IsValid(buf) THEN << R!Decoded(buf) >> ELSE << >>

ByteTaken(c) ==
  /\ Len(rx_buf) < BufSize
  /\ \/ (Rejecting(c) \/ Skipping(c) \/ Storing(c)) /\ Arrived(RobostixResync, << >>)
     \/ Finishing(c) /\ Arrived(RobostixResync, Accepted(c))

\* ReceiveByte is one of the four.
LEMMA ByteTakenIs ==
  ASSUME RobostixTypes, Head(tx) \in Byte, R!ReceiveByte
  PROVE  ByteTaken(Head(tx)) /\ tx # << >>
<1> DEFINE c == Head(tx)
<1>1. R!Items(c) = ItemsAfter(c)
  BY ItemsIs
<1>2. R!Rejected(c) <=> Rejects(c)
  <2>1. R!SizeFits(R!Items(c)) <=> ItemsAfter(c) <= BufSize
    BY <1>1 DEF R!SizeFits
  <2>2. ItemsAfter(c) <= BufSize <=> ~(ItemsAfter(c) > BufSize)
    BY ItemsIs, FramingNumbers
  <2> QED BY <2>1, <2>2, Zenon DEF R!Rejected, R!rx_index, R!Mark, Rejects, RejectsAt, ItemsAfter
<1>3. R!Skipped(c) <=> ~Rejects(c) /\ ItemsAfter(c) = 0
  BY <1>1, <1>2, Zenon DEF R!Skipped
<1>4. Len(Append(rx_buf, c)) = Len(rx_buf) + 1
  BY DEF RobostixTypes
<1>5. Len(rx_buf) < BufSize /\ tx # << >>
  BY Zenon DEF R!ReceiveByte, R!rx_index
<1> HIDE DEF c
<1>6. CASE R!Rejected(c) /\ R!Arrive(<< >>) /\ R!Clear
  <2>1. Rejecting(c)
    BY <1>2, <1>6 DEF R!Clear, Rejecting
  <2> QED BY <1>5, <1>6, <2>1, RobostixArrive, Zenon DEF ByteTaken, c
<1>7. CASE R!Skipped(c) /\ R!Arrive(<< >>) /\ rx_items' = 0 /\ UNCHANGED rx_buf
  <2>1. Skipping(c)
    BY <1>3, <1>7 DEF Skipping
  <2> QED BY <1>5, <1>7, <2>1, RobostixArrive, Zenon DEF ByteTaken, c
<1>8. CASE ~R!Rejected(c) /\ ~R!Skipped(c) /\ R!Store(c)
  <2>1. ~Rejects(c) /\ ItemsAfter(c) # 0
    BY <1>2, <1>3, <1>8
  <2>2. CASE Len(rx_buf) + 1 = ItemsAfter(c)
    <3>1. R!Finish(Append(rx_buf, c))
      BY <1>1, <1>4, <1>8, <2>2, Zenon DEF R!Store
    <3>2. R!Arrive(Accepted(c)) /\ R!Clear
      BY <3>1, Zenon DEF R!Finish, Accepted
    <3>3. Finishing(c)
      BY <2>1, <2>2, <3>2, Zenon DEF Finishing, R!Clear
    <3> QED BY <1>5, <3>2, <3>3, RobostixArrive, Zenon DEF ByteTaken, c
  <2>3. CASE ~(Len(rx_buf) + 1 = ItemsAfter(c))
    <3>1. R!Arrive(<< >>) /\ rx_buf' = Append(rx_buf, c) /\ rx_items' = ItemsAfter(c)
      BY <1>1, <1>4, <1>8, <2>3, Zenon DEF R!Store
    <3>2. Storing(c)
      BY <2>1, <2>3, <3>1, Zenon DEF Storing
    <3> QED BY <1>5, <3>1, <3>2, RobostixArrive, Zenon DEF ByteTaken, c
  <2> QED BY <2>2, <2>3
<1> QED BY <1>6, <1>7, <1>8, Zenon DEF R!ReceiveByte, c

\* The sum is taken of the body.
LEMMA FrameSlice ==
  ASSUME NEW p, Sendable(p)
  PROVE  SubSeq(Frame(p), 3, Len(Frame(p)) - 2) = FrameBody(p)
<1> DEFINE m == Len(p.payload)
           s == SubSeq(Frame(p), 3, m + 4)
           f == Frame(p)
           b == FrameBody(p)
<1>0. FrameFacts(p) /\ BodyFacts(p)
  BY FrameIs, BodyIs
<1>1. m \in Nat
  BY SeqFacts DEF Sendable
<1>2. /\ f \in Seq(Byte) /\ Len(f) = m + 6 /\ f[3] = p.type /\ f[4] = m
      /\ \A i \in 1..m : f[4 + i] = p.payload[i]
  BY <1>0 DEF FrameFacts
<1>3. /\ b \in Seq(Byte) /\ Len(b) = m + 2 /\ b[1] = p.type /\ b[2] = m
      /\ \A i \in 1..m : b[2 + i] = p.payload[i]
  BY <1>0 DEF BodyFacts
<1> HIDE DEF f, b, m
<1>4. /\ s \in Seq(Byte) /\ Len(s) = (m + 4) - 3 + 1
      /\ \A i \in 1..((m + 4) - 3 + 1) : s[i] = f[3 + i - 1]
  <2>1. 3 \in Nat /\ m + 4 \in Nat /\ 1 <= 3 /\ 3 <= m + 4 /\ m + 4 <= Len(f)
    BY <1>1, <1>2
  <2> QED BY <1>2, <2>1, SliceIs DEF f
<1> HIDE DEF s
<1>5. Len(s) = m + 2 /\ \A i \in 1..(m + 2) : s[i] = f[i + 2]
  <2>1. (m + 4) - 3 + 1 = m + 2
    BY <1>1
  <2>2. \A i \in 1..(m + 2) : 3 + i - 1 = i + 2
    BY <1>1
  <2> QED BY <1>4, <2>1, <2>2
<1>6. ASSUME NEW i \in 1..(m + 2) PROVE s[i] = b[i]
  <2>1. CASE i = 1
    BY <1>1, <1>2, <1>3, <1>5, <2>1
  <2>2. CASE i = 2
    BY <1>1, <1>2, <1>3, <1>5, <2>2
  <2>3. CASE i # 1 /\ i # 2
    <3>1. PICK j \in 1..m : i = j + 2
      <4>1. i - 2 \in 1..m /\ i = (i - 2) + 2
        BY <1>1, <1>6, <2>3
      <4> QED BY <4>1
    <3>2. s[i] = f[i + 2] /\ i + 2 = 4 + j /\ i = 2 + j
      BY <1>1, <1>5, <3>1
    <3> QED BY <1>2, <1>3, <3>2
  <2> QED BY <2>1, <2>2, <2>3
<1>7. s = b
  <2>1. Len(s) = Len(b) /\ \A i \in 1..Len(s) : s[i] = b[i]
    BY <1>3, <1>5, <1>6
  <2> QED BY <1>3, <1>4, <2>1, SameSeq
<1>8. Len(f) - 2 = m + 4
  BY <1>1, <1>2
<1> QED BY <1>7, <1>8 DEF s, f, b

\* A whole packet is valid, and what is read from the buffer is what was sent.
LEMMA FrameAccepted ==
  ASSUME NEW p, Sendable(p)
  PROVE  R!IsValid(Frame(p)) /\ R!Decoded(Frame(p)) = p
<1> DEFINE m == Len(p.payload)
           f == Frame(p)
<1>1. m \in Nat /\ p.payload \in Seq(Byte)
  BY SeqFacts DEF Sendable
<1>2. /\ f \in Seq(Byte) /\ Len(f) = m + 6 /\ f[3] = p.type /\ f[4] = m
      /\ \A i \in 1..m : f[4 + i] = p.payload[i]
      /\ f[m + 5] * ByteMod + f[m + 6] = FrameSum(p)
  BY FrameIs DEF FrameFacts
<1>3. R!Checksum(SubSeq(f, 3, Len(f) - 2)) = FrameSum(p)
  BY FrameSlice, RobostixCodec DEF FrameSum
<1> HIDE DEF f, m
<1>4. Len(f) - 1 = m + 5 /\ Len(f) = m + 6
  BY <1>1, <1>2
<1>5. R!IsValid(f)
  BY <1>2, <1>3, <1>4, Zenon DEF R!IsValid
<1>6. R!Decoded(f) = p
  <2>1. p.payload = [i \in 1..m |-> p.payload[i]]
    BY <1>1 DEF m
  <2>2. \A i \in 1..m : i + 4 <= Len(f) /\ f[i + 4] = p.payload[i]
    <3> TAKE i \in 1..m
    <3>1. i + 4 <= Len(f) /\ i + 4 = 4 + i
      BY <1>1, <1>2
    <3> QED BY <1>2, <3>1
  <2>3. [i \in 1..m |-> IF i + 4 <= Len(f) THEN f[i + 4] ELSE R!Stale]
          = [i \in 1..m |-> p.payload[i]]
    BY <2>2, Zenon
  <2>4. R!Decoded(f) = [type |-> p.type, payload |-> p.payload]
    BY <1>2, <2>1, <2>3, Zenon DEF R!Decoded
  <2> QED BY <2>4, Zenon DEF Sendable
<1> QED BY <1>5, <1>6 DEF f

\* Whatever byte comes, the buffer stays as it can be.
LEMMA BufferStep ==
  ASSUME NEW n, NEW items, NEW c \in Byte, BufferAt(n, items), n < BufSize,
         ~RejectsAt(n, items, c)
  PROVE  LET next == NextItems(n, items, c)
         IN  /\ next = 0 => BufferAt(n, 0)
             /\ next # 0 /\ next # n + 1 => BufferAt(n + 1, next)
<1>1. /\ n \in 0..(BufSize - 1) /\ items \in 0..BufSize /\ c \in 0..(ByteMod - 1)
      /\ BufSize \in Nat /\ ByteMod \in Nat /\ BufSize < ByteMod - 1 /\ 6 <= BufSize
  BY FramingNumbers DEF BufferAt, Byte
<1>2. CASE n = 0
  BY <1>1, <1>2 DEF BufferAt, NextItems
<1>3. CASE n = 3
  <2> DEFINE next == NextItems(n, items, c)
  <2>1. next \in 0..BufSize
    BY <1>1, <1>3 DEF BufferAt, NextItems, RejectsAt
  <2>2. next = 0 => BufferAt(n, 0)
    BY <1>1, <1>3 DEF BufferAt
  <2> HIDE DEF next
  <2>3. next # 0 /\ next # n + 1 => BufferAt(n + 1, next)
    BY <1>1, <1>3, <2>1 DEF BufferAt
  <2> QED BY <2>2, <2>3 DEF next
<1>4. CASE n # 0 /\ n # 3
  <2>1. NextItems(n, items, c) = items
    BY <1>4 DEF NextItems
  <2>2. items # 0
    BY <1>1, <1>4 DEF BufferAt
  <2>3. items # n + 1 => BufferAt(n + 1, items)
    BY <1>1, <1>4 DEF BufferAt
  <2> QED BY <2>1, <2>2, <2>3
<1> QED BY <1>2, <1>3, <1>4

\* Every byte keeps RobostixTypes.
LEMMA RobostixTypesStep ==
  ASSUME RobostixTypes, NEW c \in Byte, ByteTaken(c)
  PROVE  RobostixTypes'
<1>1. Len(rx_buf) < BufSize /\ BufferAt(Len(rx_buf), rx_items) /\ rx_buf \in Seq(Byte)
  BY BufferIs DEF ByteTaken
<1>2. CASE rx_buf' = << >> /\ rx_items' = 0
  <2>1. rx_buf' \in Seq(Byte) /\ Len(rx_buf') = 0
    BY <1>2
  <2>2. BufferAt(0, 0)
    BY FramingNumbers DEF BufferAt
  <2> QED BY <1>2, <2>1, <2>2 DEF RobostixTypes
<1>3. CASE Skipping(c)
  <2>1. BufferAt(Len(rx_buf), 0)
    BY <1>1, <1>3, BufferStep DEF Skipping, Rejects, ItemsAfter
  <2> QED BY <1>1, <1>3, <2>1 DEF Skipping, RobostixTypes
<1>4. CASE Storing(c)
  <2>1. rx_buf' \in Seq(Byte) /\ Len(rx_buf') = Len(rx_buf) + 1
    BY <1>1, <1>4, AppendIs DEF Storing
  <2>2. BufferAt(Len(rx_buf) + 1, rx_items')
    BY <1>1, <1>4, BufferStep DEF Storing, Rejects, ItemsAfter
  <2> QED BY <2>1, <2>2 DEF RobostixTypes
<1> QED BY <1>2, <1>3, <1>4 DEF ByteTaken, Rejecting, Finishing

\* In step with a packet, the receiver stores every byte of it but the last, and
\* accepts it with the last.
LEMMA RobostixInStepByte ==
  ASSUME RobostixTypes, RobostixInStep, NextByte, ByteTaken(Head(tx))
  PROVE  /\ Len(rx_buf) = Gone
         /\ Gone + 1 < Size => /\ Storing(Head(tx)) /\ Arrived(RobostixResync, << >>)
                               /\ rx_items' = IF Gone + 1 < 4 THEN 6 ELSE Size
         /\ Gone + 1 = Size => Finishing(Head(tx)) /\ Arrived(RobostixResync, << sent[1] >>)
<1> DEFINE c == Head(tx)
           p == sent[1]
<1>1. /\ FrameFacts(p) /\ Sendable(p) /\ sent # << >> /\ c = Frame(p)[Gone + 1] /\ c \in Byte
      /\ Size \in 6..BufSize /\ Gone \in 0..(Size - 1)
  BY DEF NextByte
<1>2. Size = Len(p.payload) + 6 /\ Len(p.payload) \in Nat
  BY <1>1, SeqFacts DEF Size, FrameFacts, Sendable
<1>3. /\ Len(rx_buf) = Gone /\ \A i \in 1..Gone : rx_buf[i] = Frame(p)[i]
      /\ Gone > 0 => rx_items = IF Gone < 4 THEN 6 ELSE Size
  <2>1. CASE Gone = 0
    <3>1. rx_buf = << >>
      BY <1>1, <2>1 DEF RobostixInStep, Between
    <3>2. Len(rx_buf) = 0
      BY <3>1
    <3> QED BY <2>1, <3>2
  <2>2. CASE Gone # 0
    <3>1. ~Between
      BY <1>1, <2>2 DEF Between
    <3> QED BY <3>1, Zenon DEF RobostixInStep
  <2> QED BY <2>1, <2>2
<1> HIDE DEF c
<1>4. ~Rejects(c) /\ ItemsAfter(c) = IF Gone < 3 THEN 6 ELSE Size
  <2>1. CASE Gone = 0
    <3>1. c = ByteMod - 1 /\ Len(rx_buf) = 0
      BY <1>1, <1>3, <2>1 DEF FrameFacts
    <3> QED BY <2>1, <3>1 DEF Rejects, RejectsAt, ItemsAfter, NextItems
  <2>2. CASE Gone = 1
    <3>1. c = ByteMod - 1 /\ Len(rx_buf) = 1 /\ rx_items = 6
      BY <1>1, <1>3, <2>2 DEF FrameFacts
    <3> QED BY <2>2, <3>1 DEF Rejects, RejectsAt, ItemsAfter, NextItems
  <2>3. CASE Gone = 2
    BY <1>3, <2>3 DEF Rejects, RejectsAt, ItemsAfter, NextItems
  <2>4. CASE Gone = 3
    <3>1. c = Len(p.payload) /\ Len(rx_buf) = 3 /\ rx_items = 6
      BY <1>1, <1>3, <2>4 DEF FrameFacts
    <3>2. rx_items + c = Size /\ Size < ByteMod /\ Size <= BufSize
      BY <1>1, <1>2, <3>1, FramingNumbers
    <3>3. ItemsAfter(c) = Size
      BY <3>1, <3>2 DEF ItemsAfter, NextItems
    <3>4. ~(Size > BufSize)
      BY <1>1, FramingNumbers
    <3> QED BY <2>4, <3>1, <3>3, <3>4 DEF Rejects, RejectsAt, ItemsAfter
  <2>5. CASE Gone > 3
    <3>1. rx_items = Size
      BY <1>1, <1>3, <2>5, FramingNumbers
    <3>2. Len(rx_buf) # 0 /\ Len(rx_buf) # 1 /\ Len(rx_buf) # 3 /\ ~(Gone < 3)
      BY <1>1, <1>3, <2>5, FramingNumbers
    <3> QED BY <3>1, <3>2 DEF Rejects, RejectsAt, ItemsAfter, NextItems
  <2> QED BY <1>1, <2>1, <2>2, <2>3, <2>4, <2>5, FramingNumbers
<1>5. ItemsAfter(c) # 0 /\ ~Rejecting(c) /\ ~Skipping(c)
  BY <1>1, <1>4, FramingNumbers DEF Rejecting, Skipping
<1>6. ASSUME Gone + 1 < Size
      PROVE  /\ Storing(c) /\ Arrived(RobostixResync, << >>)
             /\ rx_items' = IF Gone + 1 < 4 THEN 6 ELSE Size
  <2>1. ItemsAfter(c) # Len(rx_buf) + 1
    BY <1>1, <1>3, <1>4, <1>6, FramingNumbers
  <2>2. Storing(c) /\ Arrived(RobostixResync, << >>)
    BY <1>5, <2>1, Zenon DEF ByteTaken, Finishing, c
  <2>3. Gone < 3 <=> Gone + 1 < 4
    BY <1>1, FramingNumbers
  <2> QED BY <1>4, <2>2, <2>3, Zenon DEF Storing
<1>7. ASSUME Gone + 1 = Size
      PROVE  Finishing(c) /\ Arrived(RobostixResync, << p >>)
  <2>1. ItemsAfter(c) = Len(rx_buf) + 1
    BY <1>1, <1>3, <1>4, <1>7, FramingNumbers
  <2>2. Finishing(c) /\ Arrived(RobostixResync, Accepted(c))
    BY <1>5, <2>1, Zenon DEF ByteTaken, Storing, c
  <2>3. Append(rx_buf, c) = Frame(p)
    <3>1. rx_buf \in Seq(Byte) /\ c \in Byte
      BY <1>1 DEF RobostixTypes
    <3>2. /\ Append(rx_buf, c) \in Seq(Byte) /\ Len(Append(rx_buf, c)) = Len(rx_buf) + 1
          /\ \A i \in 1..Len(rx_buf) : Append(rx_buf, c)[i] = rx_buf[i]
          /\ Append(rx_buf, c)[Len(rx_buf) + 1] = c
      BY <3>1, AppendIs
    <3>3. Frame(p) \in Seq(Byte) /\ Len(Frame(p)) = Gone + 1
      BY <1>1, <1>7 DEF FrameFacts, Size
    <3>4. \A i \in 1..(Gone + 1) : Append(rx_buf, c)[i] = Frame(p)[i]
      <4> TAKE i \in 1..(Gone + 1)
      <4>1. i = Gone + 1 \/ i \in 1..Gone
        BY <1>1, FramingNumbers
      <4> QED BY <1>1, <1>3, <3>2, <4>1
    <3> QED BY <1>3, <3>2, <3>3, <3>4, SameSeq
  <2>4. Accepted(c) = << p >>
    BY <1>1, <2>3, FrameAccepted, Zenon DEF Accepted
  <2> QED BY <2>2, <2>4
<1> QED BY <1>3, <1>6, <1>7 DEF c, p

\* ... so it stays in step.
LEMMA RobostixStaysInStep ==
  ASSUME RobostixTypes, RobostixInStep, NextByte, ByteTaken(Head(tx)),
         Gone' = Gone + 1, Size' = Size, sent' = sent
  PROVE  RobostixInStep'
<1> DEFINE c == Head(tx)
           p == sent[1]
<1>1. /\ sent # << >> /\ c = Frame(p)[Gone + 1] /\ c \in Byte
      /\ Size \in 6..BufSize /\ Gone \in 0..(Size - 1)
  BY DEF NextByte
<1>2. CASE Gone + 1 = Size
  <2>1. rx_buf' = << >>
    BY <1>2, RobostixInStepByte DEF Finishing
  <2>2. Between'
    BY <1>2 DEF Between
  <2> QED BY <2>1, <2>2, Zenon DEF RobostixInStep
<1>3. CASE Gone + 1 < Size
  <2>1. Len(rx_buf) = Gone /\ Storing(c) /\ rx_items' = IF Gone + 1 < 4 THEN 6 ELSE Size
    BY <1>3, RobostixInStepByte
  <2>2. ~Between'
    BY <1>1, <1>3, FramingNumbers DEF Between
  <2>3. \A i \in 1..Gone : rx_buf[i] = Frame(p)[i]
    <3>1. CASE Gone = 0
      BY <3>1
    <3>2. CASE Gone # 0
      <4>1. ~Between
        BY <1>1, <3>2 DEF Between
      <4> QED BY <4>1, Zenon DEF RobostixInStep
    <3> QED BY <3>1, <3>2
  <2>4. /\ Len(rx_buf') = Gone + 1
        /\ \A i \in 1..Len(rx_buf) : rx_buf'[i] = rx_buf[i]
        /\ rx_buf'[Gone + 1] = c
    <3>1. rx_buf \in Seq(Byte) /\ rx_buf' = Append(rx_buf, c)
      BY <2>1 DEF RobostixTypes, Storing
    <3>2. /\ Append(rx_buf, c) \in Seq(Byte) /\ Len(Append(rx_buf, c)) = Len(rx_buf) + 1
          /\ \A i \in 1..Len(rx_buf) : Append(rx_buf, c)[i] = rx_buf[i]
          /\ Append(rx_buf, c)[Len(rx_buf) + 1] = c
      BY <1>1, <3>1, AppendIs
    <3> QED BY <2>1, <3>1, <3>2
  <2>5. \A i \in 1..(Gone + 1) : rx_buf'[i] = Frame(p)[i]
    <3> TAKE i \in 1..(Gone + 1)
    <3>1. i = Gone + 1 \/ i \in 1..Gone
      BY <1>1, FramingNumbers
    <3> QED BY <1>1, <2>1, <2>3, <2>4, <3>1
  <2> HIDE DEF c
  <2>6. /\ Len(rx_buf') = Gone' /\ (\A i \in 1..Gone' : rx_buf'[i] = Frame(sent'[1])[i])
        /\ rx_items' = IF Gone' < 4 THEN 6 ELSE Size'
    BY <2>1, <2>4, <2>5, Zenon
  <2> QED BY <2>2, <2>6, Zenon DEF RobostixInStep
<1> QED BY <1>1, <1>2, <1>3, FramingNumbers

-----------------------------------------------------------------------------
\* Out of step: what a byte of a plain packet makes of the false packet, when gone
\* bytes of the packet went before.
PlainByte(gone, c) ==
  /\ gone \in {0, 1} => c = ByteMod - 1
  /\ gone >= 2 => c < ByteMod - 6
  /\ gone = 2 => c >= 1

\* A false packet has no more bytes to come than before, in numbers.
LEMMA LostNumbers ==
  ASSUME NEW n, NEW items, NEW c \in Byte, NEW gone \in Nat, NEW q \in Nat, NEW next \in Nat,
         BufferAt(n, items), n < BufSize, gone < BufSize, PlainByte(gone, c),
         q = 0 \/ LostAt(n, items, gone, q), ~(n = 0 /\ gone = 0), ~RejectsAt(n, items, c)
  PROVE  LET after == NextItems(n, items, c)
         IN  /\ after = 0 /\ next <= q + 1 => LostAt(n, 0, gone + 1, next)
             /\ after # 0 /\ after # n + 1 /\ next <= q + 1 => LostAt(n + 1, after, gone + 1, next)
<1> DEFINE after == NextItems(n, items, c)
           r == RobostixResync
<1>1. /\ n \in 0..(BufSize - 1) /\ items \in 0..BufSize /\ c \in 0..(ByteMod - 1)
      /\ BufSize \in Nat /\ ByteMod \in Nat /\ BufSize < ByteMod - 1 /\ 6 <= BufSize
      /\ r = BufSize + (BufSize - 6) /\ r \in Nat
  BY FramingNumbers, RobostixResyncs DEF BufferAt, Byte
<1> HIDE DEF r
<1>2. CASE n = 0
  <2>1. gone >= 1
    BY <1>2
  <2>2. LostAt(n, 0, gone + 1, next)
    BY <1>2, <2>1 DEF LostAt
  <2>3. after # 0 => gone = 1
    BY <1>1, <1>2, <2>1 DEF NextItems, PlainByte
  <2>4. gone = 1 => LostAt(n + 1, after, gone + 1, next)
    <3> HIDE DEF after
    <3> QED BY <1>2 DEF LostAt
  <2> QED BY <2>2, <2>3, <2>4
<1>3. CASE n = 1
  <2>1. gone \in {0, 1} /\ after = 6
    <3>1. c = ByteMod - 1
      BY <1>3 DEF RejectsAt
    <3>2. after = items
      BY <1>3 DEF NextItems
    <3>3. items = 6
      BY <1>1, <1>3 DEF BufferAt
    <3>4. gone \in {0, 1}
      BY <1>1, <3>1 DEF PlainByte
    <3> QED BY <3>2, <3>3, <3>4
  <2>2. q = 0
    BY <1>3, <2>1 DEF LostAt
  <2>3. next <= q + 1 => LostAt(2, 6, gone + 1, next)
    BY <1>1, <2>2 DEF LostAt, r
  <2> HIDE DEF after
  <2> QED BY <1>3, <2>1, <2>3 DEF after
<1>4. CASE n = 2
  <2>1. after = 6
    <3>1. after = items
      BY <1>4 DEF NextItems
    <3>2. items = 6
      BY <1>1, <1>4 DEF BufferAt
    <3> QED BY <3>1, <3>2
  <2>2. BufSize - 2 + q <= r
    BY <1>1, <1>4 DEF LostAt, r
  <2>3. next <= q + 1 => LostAt(3, 6, gone + 1, next)
    BY <1>1, <2>2 DEF LostAt, r
  <2> HIDE DEF after
  <2> QED BY <1>4, <2>1, <2>3 DEF after
<1>5. CASE n = 3 /\ items = 6
  <2>1. BufSize - 3 + q <= r
    BY <1>1, <1>5 DEF LostAt, r
  <2>2. after # 0 /\ after \in Nat /\ after <= BufSize /\ (after # 4 => after > 4)
    <3>1. after = IF 6 + c < ByteMod THEN 6 + c ELSE 6 + c - ByteMod
      BY <1>5 DEF NextItems
    <3>2. gone \in {0, 1} => after = 5
      BY <1>1, <3>1 DEF PlainByte
    <3>3. gone >= 2 => after >= 6
      BY <1>1, <3>1 DEF PlainByte
    <3>4. after \in Nat
      BY <1>1, <3>1
    <3>5. ~(after > BufSize)
      BY <1>5 DEF RejectsAt
    <3> HIDE DEF after
    <3>6. gone \in {0, 1} \/ gone >= 2
      OBVIOUS
    <3> QED BY <1>1, <3>2, <3>3, <3>4, <3>5, <3>6
  <2> HIDE DEF after
  <2>3. after # 4 /\ next <= q + 1 => LostAt(4, after, gone + 1, next)
    BY <1>1, <2>1, <2>2 DEF LostAt, r
  <2> QED BY <1>5, <2>2, <2>3 DEF after
<1>6. CASE n = 3 /\ items = 0
  <2>1. after = c /\ after <= BufSize
    <3>1. after = c
      BY <1>1, <1>6 DEF NextItems
    <3>2. ~(after > BufSize)
      BY <1>6 DEF RejectsAt
    <3> HIDE DEF after
    <3> QED BY <1>1, <3>1, <3>2
  <2>2. gone >= 2
    BY <1>1, <2>1 DEF PlainByte
  <2>3. q <= BufSize - 3 /\ (q = 0 \/ q <= gone - 3)
    BY <1>1, <1>6, <2>2 DEF LostAt
  <2> HIDE DEF after
  <2>4. after = 0 /\ next <= q + 1 => LostAt(3, 0, gone + 1, next)
    <3> SUFFICES ASSUME after = 0, next <= q + 1 PROVE LostAt(3, 0, gone + 1, next)
      OBVIOUS
    <3>1. gone >= 3
      BY <1>1, <2>1, <2>2 DEF PlainByte
    <3> QED BY <1>1, <2>3, <3>1 DEF LostAt
  <2>5. after # 0 /\ after # 4 /\ next <= q + 1 => LostAt(4, after, gone + 1, next)
    <3> SUFFICES ASSUME after # 0, after # 4, next <= q + 1 PROVE LostAt(4, after, gone + 1, next)
      OBVIOUS
    <3>1. CASE after > 4
      BY <1>1, <2>1, <2>3, <3>1 DEF LostAt, r
    <3>2. CASE after < 4
      BY <1>1, <2>1, <2>3, <3>2 DEF LostAt, r
    <3> QED BY <1>1, <2>1, <3>1, <3>2
  <2> QED BY <1>6, <2>4, <2>5 DEF after
<1>7. CASE n >= 4
  <2>1. after = items
    BY <1>1, <1>7 DEF NextItems
  <2>2. items # 0
    BY <1>1, <1>7 DEF BufferAt
  <2>3. \/ items > n /\ (q = 0 \/ items - n + q <= r)
        \/ items \in 1..3 /\ (q = 0 \/ BufSize - n + 1 + q <= r)
    BY <1>1, <1>7 DEF BufferAt, LostAt, r
  <2>4. items # n + 1 /\ next <= q + 1 => LostAt(n + 1, items, gone + 1, next)
    BY <1>1, <1>7, <2>3 DEF LostAt, r
  <2> HIDE DEF after
  <2> QED BY <2>1, <2>2, <2>4 DEF after
<1>8. n \in {0, 1, 2} \/ (n = 3 /\ items = 6) \/ (n = 3 /\ items = 0) \/ n >= 4
  BY <1>1 DEF BufferAt
<1> QED BY <1>2, <1>3, <1>4, <1>5, <1>6, <1>7, <1>8

\* A byte of a plain packet.
LEMMA PlainByteIs ==
  ASSUME NextByte, PlainFrame(sent[1])
  PROVE  PlainByte(Gone, Head(tx)) /\ Gone \in Nat /\ Gone < BufSize
<1> DEFINE c == Head(tx)
           p == sent[1]
<1>1. /\ FrameFacts(p) /\ c = Frame(p)[Gone + 1] /\ c \in Byte
      /\ Size \in 6..BufSize /\ Gone \in 0..(Size - 1)
  BY DEF NextByte
<1>2. Gone \in {0, 1} => c = ByteMod - 1
  BY <1>1 DEF FrameFacts
<1>3. Gone >= 2 => c < ByteMod - 6
  <2> SUFFICES ASSUME Gone >= 2 PROVE c < ByteMod - 6
    OBVIOUS
  <2>1. Gone + 1 \in 3..Len(Frame(p))
    BY <1>1, FramingNumbers DEF Size
  <2> QED BY <1>1, <2>1 DEF PlainFrame
<1>4. Gone = 2 => c >= 1
  <2>1. Frame(p)[3] \in 1..TypeLimit
    BY <1>1 DEF FrameFacts
  <2> QED BY <1>1, <2>1, FramingNumbers
<1> HIDE DEF c
<1> QED BY <1>1, <1>2, <1>3, <1>4, FramingNumbers DEF PlainByte, c

\* Out of step, a byte leaves the receiver out of step for the same number of
\* bytes at most, or brings it back in step.
LEMMA RobostixLostByte ==
  ASSUME LineTypes(RobostixPayloads, RobostixResync, RobostixLosses), LinePlace, RobostixTypes,
         NextByte, ByteTaken(Head(tx)),
         ~calm, quiet = 0 \/ RobostixLost,
         Gone' = Gone + 1, Size' = Size, sent' = sent
  PROVE  quiet' = 0 \/ RobostixInStep' \/ RobostixLost'
<1> DEFINE c == Head(tx)
           n == Len(rx_buf)
<1>1. \E ps : Arrived(RobostixResync, ps)
  BY DEF ByteTaken
<1>2. /\ quiet' = IF ~PlainFrame(sent[1]) THEN 0
                   ELSE IF quiet < RobostixResync THEN quiet + 1 ELSE quiet
      /\ sent' # << >>
  BY <1>1 DEF Arrived, NextByte
<1> SUFFICES ASSUME PlainFrame(sent[1]) PROVE RobostixInStep' \/ RobostixLost'
  BY <1>2
<1>3. quiet \in Nat /\ quiet' \in Nat /\ quiet' <= quiet + 1
  <2>1. quiet \in 0..RobostixResync
    BY DEF LineTypes
  <2>2. quiet' = quiet + 1 \/ quiet' = quiet
    BY <1>2
  <2> QED BY <2>1, <2>2, RobostixResyncs
<1>4. PlainByte(Gone, c) /\ Gone \in Nat /\ Gone < BufSize /\ c \in Byte
  BY PlainByteIs DEF NextByte
<1>5. BufferAt(n, rx_items) /\ n < BufSize
  BY BufferIs DEF ByteTaken
<1>6. CASE n = 0 /\ Gone = 0
  <2>1. rx_buf = << >>
    BY <1>6, SeqFacts DEF RobostixTypes
  <2>2. Between
    BY <1>6 DEF Between
  <2>3. RobostixInStep
    BY <2>1, <2>2, Zenon DEF RobostixInStep
  <2> QED BY <2>3, RobostixStaysInStep
<1>7. CASE ~(n = 0 /\ Gone = 0)
  <2>1. CASE rx_buf' = << >>
    <3>1. Len(rx_buf') = 0
      BY <2>1
    <3>2. LostAt(0, rx_items', Gone + 1, quiet')
      BY <1>4 DEF LostAt
    <3> QED BY <1>2, <3>1, <3>2, Zenon DEF RobostixLost
  <2>2. quiet = 0 \/ LostAt(n, rx_items, Gone, quiet)
    BY DEF RobostixLost
  <2> HIDE DEF n, c
  <2>3. CASE Skipping(c)
    <3>1. LostAt(n, 0, Gone + 1, quiet')
      <4>1. ~RejectsAt(n, rx_items, c) /\ NextItems(n, rx_items, c) = 0
        BY <2>3 DEF Skipping, Rejects, ItemsAfter, n
      <4> QED BY <1>3, <1>4, <1>5, <1>7, <2>2, <4>1, LostNumbers
    <3>2. Len(rx_buf') = n /\ rx_items' = 0
      BY <2>3 DEF Skipping, n
    <3> QED BY <1>2, <3>1, <3>2, Zenon DEF RobostixLost
  <2>4. CASE Storing(c)
    <3>1. LostAt(n + 1, NextItems(n, rx_items, c), Gone + 1, quiet')
      <4>1. /\ ~RejectsAt(n, rx_items, c) /\ NextItems(n, rx_items, c) # 0
            /\ NextItems(n, rx_items, c) # n + 1
        BY <2>4 DEF Storing, Rejects, ItemsAfter, n
      <4> QED BY <1>3, <1>4, <1>5, <1>7, <2>2, <4>1, LostNumbers
    <3>2. Len(rx_buf') = n + 1 /\ rx_items' = NextItems(n, rx_items, c)
      <4>1. rx_buf \in Seq(Byte) /\ rx_buf' = Append(rx_buf, c)
        BY <2>4, BufferIs DEF Storing
      <4>2. Len(rx_buf') = Len(rx_buf) + 1
        BY <1>4, <4>1, AppendIs
      <4> QED BY <2>4, <4>2 DEF Storing, ItemsAfter, n
    <3> QED BY <1>2, <3>1, <3>2, Zenon DEF RobostixLost
  <2> QED BY <2>1, <2>3, <2>4 DEF ByteTaken, Rejecting, Finishing, c
<1> QED BY <1>6, <1>7

\* RobostixInv, by its parts, and from them.
LEMMA RobostixParts ==
  ASSUME RobostixInv
  PROVE  /\ LineTypes(RobostixPayloads, RobostixResync, RobostixLosses) /\ LinePlace /\ RobostixTypes
         /\ ~disturbed => calm
         /\ calm => quiet = RobostixResync /\ RobostixInStep /\ Received1
         /\ ~calm => quiet = 0 \/ RobostixInStep \/ RobostixLost
BY RobostixLine, Zenon DEF RobostixInv

\* RobostixInv from its parts.
LEMMA RobostixWhole ==
  ASSUME LineTypes(RobostixPayloads, RobostixResync, RobostixLosses)', LinePlace', RobostixTypes',
         (~disturbed => calm)',
         (calm => quiet = RobostixResync /\ RobostixInStep /\ Received1)',
         (~calm => quiet = 0 \/ RobostixInStep \/ RobostixLost)'
  PROVE  RobostixInv'
<1>1. R!LineTypeOK' <=> LineTypes(RobostixPayloads, RobostixResync, RobostixLosses)'
  BY RobostixLine, PTL
<1> QED BY <1>1, Zenon DEF RobostixInv

\* The payloads of either side are payloads.
LEMMA PayloadsIn ==
  RobostixPayloads \in SUBSET (RobostixPayloads \cup GumstixPayloads)
    /\ GumstixPayloads \in SUBSET (RobostixPayloads \cup GumstixPayloads)
<1> HIDE DEF RobostixPayloads, GumstixPayloads
<1> QED OBVIOUS

\* A byte comes to Robostix 1 (serial_is_new_data).
LEMMA RobostixByteStep == ASSUME RobostixInv, R!ReceiveByte PROVE RobostixInv'
<1> HIDE DEF RobostixPayloads, GumstixPayloads
<1>1. /\ LineTypes(RobostixPayloads, RobostixResync, RobostixLosses) /\ LinePlace /\ RobostixTypes
      /\ ~disturbed => calm
      /\ calm => quiet = RobostixResync /\ RobostixInStep /\ Received1
      /\ ~calm => quiet = 0 \/ RobostixInStep \/ RobostixLost
  BY RobostixParts
<1>2. tx # << >>
  BY Zenon DEF R!ReceiveByte
<1>3. NextByte
  BY <1>1, <1>2, PayloadsIn, LineNext
<1>4. Head(tx) \in Byte
  BY <1>3 DEF NextByte
<1>5. ByteTaken(Head(tx))
  BY <1>1, <1>4, ByteTakenIs
<1>6. PICK ps : Arrived(RobostixResync, ps)
  BY <1>5 DEF ByteTaken
<1>7. /\ LineTypes(RobostixPayloads, RobostixResync, RobostixLosses)' /\ LinePlace'
      /\ Gone' = Gone + 1 /\ Size' = Size /\ (tx' = << >> <=> Gone + 1 = Size)
  BY <1>1, <1>2, <1>6, PayloadsIn, LineArrive, RobostixResyncs
<1>8. UNCHANGED <<sent, disturbed, calm, losses>>
  BY <1>6 DEF Arrived
<1>9. RobostixTypes'
  BY <1>1, <1>4, <1>5, RobostixTypesStep
<1>10. RobostixInStep => RobostixInStep'
  BY <1>1, <1>3, <1>5, <1>7, <1>8, RobostixStaysInStep
<1>11. ASSUME calm
       PROVE  quiet' = RobostixResync /\ RobostixInStep' /\ Received1'
  <2>1. quiet' = quiet
    BY <1>6, <1>11 DEF Arrived
  <2>2. received = << >>
    BY <1>1, <1>2, <1>11 DEF Received1
  <2>3. Received1'
    <3>1. Size \in 6..BufSize /\ Gone \in 0..(Size - 1) /\ sent # << >>
      BY <1>3 DEF NextByte
    <3>2. CASE Gone + 1 = Size
      <4>1. received' = << >> \o << sent[1] >>
        BY <1>1, <1>3, <1>5, <1>11, <2>2, <3>2, RobostixInStepByte DEF Arrived
      <4>2. << >> \o << sent[1] >> = sent
        <5>1. sent \in Seq([type : Types, payload : RobostixPayloads]) /\ Len(sent) <= 1
          BY <1>1 DEF LineTypes
        <5> QED BY <3>1, <5>1, OneIs
      <4> QED BY <1>7, <1>8, <3>2, <4>1, <4>2 DEF Received1
    <3>3. CASE Gone + 1 < Size
      <4>1. received' = << >> \o << >>
        BY <1>1, <1>3, <1>5, <1>11, <2>2, <3>3, RobostixInStepByte DEF Arrived
      <4>2. tx' # << >>
        BY <1>7, <3>1, <3>3, FramingNumbers
      <4> QED BY <4>1, <4>2 DEF Received1
    <3> QED BY <3>1, <3>2, <3>3, FramingNumbers
  <2> QED BY <1>1, <1>10, <1>11, <2>1, <2>3
<1>12. ASSUME ~calm
       PROVE  quiet' = 0 \/ RobostixInStep' \/ RobostixLost'
  <2>1. CASE RobostixInStep
    BY <1>10, <2>1
  <2>2. CASE quiet = 0 \/ RobostixLost
    BY <1>1, <1>3, <1>5, <1>7, <1>8, <1>12, <2>2, RobostixLostByte
  <2> QED BY <1>1, <1>12, <2>1, <2>2
<1> QED BY <1>1, <1>7, <1>8, <1>9, <1>11, <1>12, RobostixWhole, RobostixResyncs, Zenon

\* A packet for it begins: if the line was calm, it is idle, hence in step.
LEMMA RobostixSendStep ==
  ASSUME RobostixInv, R!SendPacket, UNCHANGED <<rx_buf, rx_items>> PROVE RobostixInv'
<1> HIDE DEF RobostixPayloads, GumstixPayloads
<1>1. /\ LineTypes(RobostixPayloads, RobostixResync, RobostixLosses) /\ LinePlace /\ RobostixTypes
      /\ ~disturbed => calm
      /\ calm => quiet = RobostixResync /\ RobostixInStep /\ Received1
      /\ ~calm => quiet = 0 \/ RobostixInStep \/ RobostixLost
  BY RobostixParts
<1>2. SentNext(RobostixPayloads, RobostixResync)
  BY RobostixSend
<1>3. /\ LineTypes(RobostixPayloads, RobostixResync, RobostixLosses)' /\ LinePlace'
      /\ Gone' = 0 /\ Size' \in 6..BufSize /\ sent' # << >> /\ tx' # << >>
  BY <1>1, <1>2, PayloadsIn, LineSend, RobostixResyncs, FramingConstants
<1>4. RobostixTypes'
  BY <1>1 DEF RobostixTypes, BufferAt
<1>5. /\ tx = << >> /\ received' = << >> /\ (calm' <=> quiet = RobostixResync)
      /\ UNCHANGED <<disturbed, quiet>>
  BY <1>2 DEF SentNext
<1>6. Between
  <2>1. sent # << >> => Len(tx) = 0 /\ Size \in 6..BufSize
    <3> SUFFICES ASSUME sent # << >> PROVE Len(tx) = 0 /\ Size \in 6..BufSize
      OBVIOUS
    <3>1. sent[1] \in [type : Types, payload : RobostixPayloads]
      BY <1>1, SeqFacts DEF LineTypes
    <3>2. FrameFacts(sent[1])
      BY <3>1, PayloadsIn, LineSendable
    <3>3. Len(tx) = 0
      BY <1>5
    <3> QED BY <3>2, <3>3 DEF FrameFacts, Size
  <2> QED BY <2>1, FramingNumbers DEF Between, Gone
<1>7. rx_buf = << >> => RobostixInStep'
  <2>1. Between'
    BY <1>3 DEF Between
  <2> QED BY <2>1, Zenon DEF RobostixInStep
<1>8. RobostixInStep => rx_buf = << >>
  BY <1>6, Zenon DEF RobostixInStep
<1>9. RobostixLost => \/ rx_buf = << >>
                      \/ RobostixLost' /\ quiet # RobostixResync
  <2> SUFFICES ASSUME RobostixLost PROVE rx_buf = << >> \/ (RobostixLost' /\ quiet # RobostixResync)
    OBVIOUS
  <2> DEFINE n == Len(rx_buf)
  <2>1. LostAt(n, rx_items, Gone, quiet) /\ sent # << >>
    BY DEF RobostixLost
  <2>2. BufferAt(n, rx_items) /\ (n = 0 => rx_buf = << >>)
    BY <1>1, BufferIs
  <2>3. Gone \in 6..BufSize /\ quiet \in 0..RobostixResync
    <3>1. Gone = Size \/ Gone = 0
      BY <1>6, <2>1 DEF Between
    <3>2. sent[1] \in [type : Types, payload : RobostixPayloads]
      BY <1>1, <2>1, SeqFacts DEF LineTypes
    <3>3. Len(tx) = 0 /\ Size \in 6..BufSize
      BY <1>5, <3>2, PayloadsIn, LineSendable DEF FrameFacts, Size
    <3> QED BY <1>1, <3>3, FramingNumbers DEF Gone, LineTypes
  <2> HIDE DEF n
  <2>4. CASE n # 0
    <3>1. LostAt(n, rx_items, 0, quiet) /\ quiet # RobostixResync
      <4>1. n \in 1..BufSize /\ rx_items \in 0..BufSize
        BY <2>2, <2>4 DEF BufferAt
      <4> QED BY <2>1, <2>3, <4>1, FramingNumbers, RobostixResyncs DEF LostAt
    <3>2. Len(rx_buf') = n /\ rx_items' = rx_items
      BY DEF n
    <3> QED BY <1>3, <1>5, <3>1, <3>2, Zenon DEF RobostixLost
  <2> QED BY <2>2, <2>4
<1>10. calm' => rx_buf = << >>
  <2> SUFFICES ASSUME quiet = RobostixResync PROVE rx_buf = << >>
    BY <1>5
  <2>1. quiet # 0
    BY RobostixResyncs, FramingNumbers
  <2> QED BY <1>1, <1>8, <1>9, <2>1
<1>11. (calm => quiet = RobostixResync /\ RobostixInStep /\ Received1)'
  <2> SUFFICES ASSUME calm' PROVE quiet' = RobostixResync /\ RobostixInStep' /\ Received1'
    BY RobostixResyncs
  <2> QED BY <1>3, <1>5, <1>7, <1>10 DEF Received1
<1>12. (~calm => quiet = 0 \/ RobostixInStep \/ RobostixLost)'
  <2> SUFFICES ASSUME ~calm' PROVE quiet' = 0 \/ RobostixInStep' \/ RobostixLost'
    OBVIOUS
  <2> QED BY <1>1, <1>5, <1>7, <1>8, <1>9
<1>13. (~disturbed => calm)'
  BY <1>1, <1>5
<1> QED BY <1>1, <1>3, <1>4, <1>11, <1>12, <1>13, RobostixWhole

\* Bytes are lost, or the receiver is reset (serial_reset).
LEMMA RobostixDisturbStep ==
  ASSUME RobostixInv,
         \/ R!LoseByte /\ UNCHANGED <<rx_buf, rx_items>>
         \/ R!Reset
  PROVE RobostixInv'
<1> HIDE DEF RobostixPayloads, GumstixPayloads
<1>1. LineTypes(RobostixPayloads, RobostixResync, RobostixLosses) /\ LinePlace /\ RobostixTypes
  BY RobostixParts
<1>2. /\ losses < RobostixLosses /\ losses' = losses + 1
      /\ disturbed' = TRUE /\ quiet' = 0 /\ calm' = FALSE
      /\ sent' = sent /\ (tx' = tx \/ tx' = << >> \/ (tx # << >> /\ tx' = Tail(tx)))
  BY Zenon DEF R!LoseByte, R!Reset, R!Disturb
<1>3. LineTypes(RobostixPayloads, RobostixResync, RobostixLosses)' /\ LinePlace'
  BY <1>1, <1>2, PayloadsIn, LineDisturbed, RobostixResyncs, FramingConstants DEF Disturbed
<1>4. RobostixTypes'
  <2>1. UNCHANGED <<rx_buf, rx_items>> \/ (rx_buf' = << >> /\ rx_items' = 0)
    BY Zenon DEF R!Reset, R!Clear
  <2>2. CASE rx_buf' = << >> /\ rx_items' = 0
    <3>1. rx_buf' \in Seq(Byte) /\ Len(rx_buf') = 0
      BY <2>2
    <3>2. BufferAt(0, 0)
      BY FramingNumbers DEF BufferAt
    <3> QED BY <2>2, <3>1, <3>2 DEF RobostixTypes
  <2> QED BY <1>1, <2>1, <2>2 DEF RobostixTypes
<1> QED BY <1>2, <1>3, <1>4, RobostixWhole, Zenon

\* Robostix 1 begins in step.
LEMMA RobostixInvInit == R!Init => RobostixInv
<1> HIDE DEF RobostixPayloads, GumstixPayloads
<1> SUFFICES ASSUME R!Init PROVE RobostixInv
  OBVIOUS
<1>1. /\ sent = << >> /\ tx = << >> /\ received = << >> /\ disturbed = FALSE
      /\ quiet = RobostixResync /\ calm = TRUE /\ losses = 0
      /\ rx_buf = << >> /\ rx_items = 0
  BY Zenon DEF R!Init, R!LineInit, R!ReceiverInit, RobostixResync
<1>2. LineTypes(RobostixPayloads, RobostixResync, RobostixLosses)
  <2>1. quiet \in 0..RobostixResync /\ losses \in 0..RobostixLosses
    BY <1>1, RobostixResyncs, FramingConstants
  <2>2. sent \in Seq([type : Types, payload : RobostixPayloads]) /\ Len(sent) <= 1
    BY <1>1
  <2>3. tx \in Seq(Byte) /\ Len(tx) <= BufSize
    BY <1>1, FramingNumbers
  <2>4. disturbed \in BOOLEAN /\ calm \in BOOLEAN
    BY <1>1, Zenon
  <2> QED BY <2>1, <2>2, <2>3, <2>4 DEF LineTypes
<1>3. RobostixTypes
  <2>1. rx_buf \in Seq(Byte) /\ Len(rx_buf) = 0
    BY <1>1
  <2> QED BY <1>1, <2>1, FramingNumbers DEF RobostixTypes, BufferAt
<1>4. RobostixInStep /\ LinePlace /\ Received1
  BY <1>1 DEF RobostixInStep, Between, LinePlace, Received1
<1> QED BY <1>1, <1>2, <1>3, <1>4, RobostixLine, Zenon DEF RobostixInv

\* RobostixInv is inductive.
LEMMA RobostixInvStep ==
  ASSUME RobostixInv, R!Next \/ UNCHANGED R!vars PROVE RobostixInv'
<1>1. CASE R!Next
  BY <1>1, RobostixByteStep, RobostixSendStep, RobostixDisturbStep, Zenon DEF R!Next
<1>2. CASE UNCHANGED R!vars
  <2>1. UNCHANGED <<sent, tx, received, disturbed, quiet, calm, losses, rx_buf, rx_items>>
    BY <1>2, Zenon DEF R!vars, R!lineVars
  <2>2. LineTypes(RobostixPayloads, RobostixResync, RobostixLosses)'
    BY <2>1, RobostixParts DEF LineTypes
  <2>3. LinePlace' /\ RobostixTypes' /\ (RobostixInStep' <=> RobostixInStep)
        /\ (RobostixLost' <=> RobostixLost) /\ (Received1' <=> Received1)
    BY <2>1, RobostixParts, Zenon DEF LinePlace, Gone, Size, RobostixTypes, RobostixInStep, Between,
                               RobostixLost, Received1
  <2> QED BY <2>1, <2>2, <2>3, RobostixParts, RobostixWhole, Zenon
<1> QED BY <1>1, <1>2

\* What the receiver of Robostix 1 delivers.
LEMMA RobostixDelivers ==
  ASSUME RobostixInv PROVE R!TypeOK /\ R!UndisturbedDelivery /\ R!ResyncedDelivery
<1>1. /\ ~disturbed => calm
      /\ calm => Received1
      /\ RobostixTypes /\ R!LineTypeOK
  BY Zenon DEF RobostixInv
<1>2. R!Bytes = Byte
  BY DEF R!Bytes, R!Mark, Byte
<1>3. rx_buf \in Seq(Byte) /\ rx_items \in 0..BufSize
  BY <1>1 DEF RobostixTypes, BufferAt
<1>4. R!TypeOK
  BY <1>1, <1>2, <1>3, Zenon DEF R!TypeOK
<1>5. calm => R!Delivered
  BY <1>1 DEF R!Delivered, Received1
<1> QED BY <1>1, <1>4, <1>5 DEF R!UndisturbedDelivery, R!ResyncedDelivery

-----------------------------------------------------------------------------
\* The Gumstix is at the end of that line.
LEMMA GumstixCodec ==
  /\ \A b : G!Checksum(b) = SumTo(b)[Len(b)]
  /\ \A p : G!Body(p) = FrameBody(p) /\ G!Encode(p) = Frame(p) /\ (G!Plain(p) <=> PlainFrame(p))
<1>1. \A b : G!Checksum(b) = SumTo(b)[Len(b)]
  BY DEF G!Checksum, SumTo
<1>2. \A p : G!Body(p) = FrameBody(p)
  BY DEF G!Body, FrameBody
<1>3. \A p : G!Encode(p) = Frame(p)
  BY <1>1, <1>2 DEF G!Encode, G!Mark, Frame, FrameSum
<1>4. \A p : G!Plain(p) <=> PlainFrame(p)
  BY <1>3 DEF G!Plain, G!Overhead, PlainFrame
<1> QED BY <1>1, <1>2, <1>3, <1>4

\* The types of the line, with the bound of this receiver.
LEMMA GumstixLine ==
  G!LineTypeOK <=> LineTypes(GumstixPayloads, GumstixResync, GumstixLosses)
<1> HIDE DEF GumstixPayloads
<1>1. G!Bytes = Byte
  BY DEF G!Bytes, G!Mark, Byte
<1>2. G!Packets = [type : Types, payload : GumstixPayloads]
  BY DEF G!Packets
<1> QED BY <1>1, <1>2, Zenon DEF G!LineTypeOK, LineTypes, GumstixResync

\* After how many bytes the Gumstix is in step.
LEMMA GumstixResyncs == GumstixResync \in Nat /\ GumstixResync = BufSize + 4
BY FramingNumbers DEF GumstixResync

\* A byte arrives at the Gumstix.
LEMMA GumstixArrive ==
  ASSUME NEW ps, G!Arrive(ps) PROVE Arrived(GumstixResync, ps)
<1>1. G!Plain(sent[1]) <=> PlainFrame(sent[1])
  BY GumstixCodec
<1> QED BY <1>1, Zenon DEF G!Arrive, Arrived, GumstixResync

\* A packet is sent to the Gumstix.
LEMMA GumstixSend ==
  ASSUME G!SendPacket PROVE SentNext(GumstixPayloads, GumstixResync)
<1> HIDE DEF GumstixPayloads
<1>1. \E p \in [type : Types, payload : GumstixPayloads] : sent' = << p >> /\ tx' = Frame(p)
  BY GumstixCodec DEF G!SendPacket, G!Packets
<1> QED BY <1>1, Zenon DEF G!SendPacket, SentNext, GumstixResync

-----------------------------------------------------------------------------
\* What a byte c does in each state of the receiver.
Mark1Takes(c) ==
  /\ state = "MARK1" /\ state' = (IF c = ByteMod - 1 THEN "MARK2" ELSE "MARK1")
  /\ UNCHANGED <<type, size, payload, checksum>>

Mark2Takes(c) ==
  /\ state = "MARK2" /\ state' = (IF c = ByteMod - 1 THEN "TYPE" ELSE "MARK1")
  /\ UNCHANGED <<type, size, payload, checksum>>

TypeTakes(c) ==
  /\ state = "TYPE"
  /\ \/ c \in 1..TypeLimit /\ state' = "SIZE" /\ type' = c
     \/ c \notin 1..TypeLimit /\ state' = "MARK1" /\ type' = type
  /\ UNCHANGED <<size, payload, checksum>>

SizeTakes(c) ==
  /\ state = "SIZE"
  /\ \/ c <= BufSize /\ c > 0 /\ state' = "PAYLOAD" /\ size' = c
     \/ c <= BufSize /\ ~(c > 0) /\ state' = "SUM1" /\ size' = c
     \/ ~(c <= BufSize) /\ state' = "MARK1" /\ size' = size
  /\ UNCHANGED <<type, payload, checksum>>

PayloadTakes(c) ==
  /\ state = "PAYLOAD" /\ payload' = Append(payload, c)
  /\ state' = (IF Len(payload') = size THEN "SUM1" ELSE "PAYLOAD")
  /\ UNCHANGED <<type, size, checksum>>

Sum1Takes(c) ==
  /\ state = "SUM1" /\ state' = "SUM2" /\ checksum' = c * ByteMod
  /\ UNCHANGED <<type, size, payload>>

Sum2Takes(c) ==
  /\ state = "SUM2" /\ state' = "MARK1" /\ checksum' = checksum + c /\ payload' = << >>
  /\ UNCHANGED <<type, size>>

AcceptedPacket ==
  IF checksum' = G!Checksum(G!Body(G!Packet)) THEN << G!Packet >> ELSE << >>

TakesByte(c) ==
  \/ /\ \/ Mark1Takes(c) \/ Mark2Takes(c) \/ TypeTakes(c) \/ SizeTakes(c)
        \/ PayloadTakes(c) \/ Sum1Takes(c)
     /\ Arrived(GumstixResync, << >>)
  \/ Sum2Takes(c) /\ Arrived(GumstixResync, AcceptedPacket)

\* Every byte is taken in one of the seven states.
LEMMA TakesByteIs == ASSUME G!Receive PROVE TakesByte(Head(tx)) /\ tx # << >>
<1> DEFINE c == Head(tx)
<1>1. ASSUME NEW s, NEW d, G!ReceiveIn(s, d)
      PROVE  d = c /\ state = s /\ tx # << >> /\ Arrived(GumstixResync, << >>)
  BY <1>1, GumstixArrive, Zenon DEF G!ReceiveIn
<1> HIDE DEF c
<1>2. G!Mark = ByteMod - 1
  BY DEF G!Mark
<1>3. CASE G!Mark1
  <2>1. PICK d \in G!Bytes :
         /\ G!ReceiveIn("MARK1", d)
         /\ state' = (IF d = G!Mark THEN "MARK2" ELSE "MARK1")
         /\ UNCHANGED <<type, size, payload, checksum>>
    BY <1>3, Zenon DEF G!Mark1
  <2>2. d = c /\ state = "MARK1" /\ tx # << >> /\ Arrived(GumstixResync, << >>)
    BY <1>1, <2>1, Zenon
  <2>3. Mark1Takes(c)
    BY <1>2, <2>1, <2>2, Zenon DEF Mark1Takes
  <2> QED BY <2>2, <2>3, Zenon DEF TakesByte, c
<1>4. CASE G!Mark2
  <2>1. PICK d \in G!Bytes :
         /\ G!ReceiveIn("MARK2", d)
         /\ state' = (IF d = G!Mark THEN "TYPE" ELSE "MARK1")
         /\ UNCHANGED <<type, size, payload, checksum>>
    BY <1>4, Zenon DEF G!Mark2
  <2>2. d = c /\ state = "MARK2" /\ tx # << >> /\ Arrived(GumstixResync, << >>)
    BY <1>1, <2>1, Zenon
  <2>3. Mark2Takes(c)
    BY <1>2, <2>1, <2>2, Zenon DEF Mark2Takes
  <2> QED BY <2>2, <2>3, Zenon DEF TakesByte, c
<1>5. CASE G!ReadType
  <2>1. PICK d \in G!Bytes :
         /\ G!ReceiveIn("TYPE", d)
         /\ IF d \in 1..TypeLimit THEN state' = "SIZE" /\ type' = d
                                  ELSE state' = "MARK1" /\ UNCHANGED type
         /\ UNCHANGED <<size, payload, checksum>>
    BY <1>5, Zenon DEF G!ReadType, G!ValidType
  <2>2. d = c /\ state = "TYPE" /\ tx # << >> /\ Arrived(GumstixResync, << >>)
    BY <1>1, <2>1, Zenon
  <2>3. TypeTakes(c)
    BY <1>2, <2>1, <2>2, Zenon DEF TypeTakes
  <2> QED BY <2>2, <2>3, Zenon DEF TakesByte, c
<1>6. CASE G!ReadSize
  <2>1. PICK d \in G!Bytes :
         /\ G!ReceiveIn("SIZE", d)
         /\ IF d <= BufSize
            THEN state' = (IF d > 0 THEN "PAYLOAD" ELSE "SUM1") /\ size' = d
            ELSE state' = "MARK1" /\ UNCHANGED size
         /\ UNCHANGED <<type, payload, checksum>>
    BY <1>6, Zenon DEF G!ReadSize, G!FitsBuffer
  <2>2. d = c /\ state = "SIZE" /\ tx # << >> /\ Arrived(GumstixResync, << >>)
    BY <1>1, <2>1, Zenon
  <2>3. SizeTakes(c)
    BY <1>2, <2>1, <2>2, Zenon DEF SizeTakes
  <2> QED BY <2>2, <2>3, Zenon DEF TakesByte, c
<1>7. CASE G!Payload
  <2>1. PayloadTakes(c) /\ Arrived(GumstixResync, << >>) /\ tx # << >>
    BY <1>1, <1>7, Zenon DEF G!Payload, PayloadTakes
  <2> QED BY <2>1, Zenon DEF TakesByte, c
<1>8. CASE G!Sum1
  <2>1. Sum1Takes(c) /\ Arrived(GumstixResync, << >>) /\ tx # << >>
    BY <1>1, <1>8, Zenon DEF G!Sum1, Sum1Takes
  <2> QED BY <2>1, Zenon DEF TakesByte, c
<1>9. CASE G!Sum2
  <2>1. Sum2Takes(c) /\ tx # << >>
    BY <1>9, Zenon DEF G!Sum2, G!Complete, G!ChecksumError, G!StartOver, Sum2Takes, c
  <2>2. G!Arrive(AcceptedPacket)
    BY <1>9, Zenon DEF G!Sum2, AcceptedPacket
  <2> QED BY <2>1, <2>2, GumstixArrive, Zenon DEF TakesByte, c
<1> QED BY <1>3, <1>4, <1>5, <1>6, <1>7, <1>8, <1>9, Zenon DEF G!Receive

\* Every byte keeps GumstixTypes.
LEMMA GumstixTypesStep ==
  ASSUME GumstixTypes, NEW c \in Byte, TakesByte(c)
  PROVE  GumstixTypes'
<1>0. /\ BufSize \in Nat /\ ByteMod \in Nat /\ TypeLimit \in Nat /\ c \in 0..(ByteMod - 1)
      /\ payload \in Seq(Byte) /\ Len(payload) \in Nat /\ size \in 0..BufSize
      /\ type \in 0..TypeLimit /\ checksum \in 0..(ByteMod * ByteMod - 1)
  BY FramingNumbers, SeqFacts DEF Byte, GumstixTypes
<1>1. << >> \in Seq(Byte) /\ Len(<< >>) = 0
  OBVIOUS
<1>2. CASE Mark1Takes(c) \/ Mark2Takes(c) \/ TypeTakes(c)
  <2>1. /\ state \in {"MARK1", "MARK2", "TYPE"} /\ state' \in {"MARK1", "MARK2", "TYPE", "SIZE"}
        /\ UNCHANGED <<size, payload, checksum>> /\ (type' = type \/ type' \in 1..TypeLimit)
    BY <1>2 DEF Mark1Takes, Mark2Takes, TypeTakes
  <2>2. type' \in 0..TypeLimit
    BY <1>0, <2>1
  <2> QED BY <2>1, <2>2, Zenon DEF GumstixTypes
<1>3. CASE SizeTakes(c)
  <2>1. /\ state = "SIZE" /\ UNCHANGED <<type, payload, checksum>>
        /\ \/ c <= BufSize /\ c > 0 /\ state' = "PAYLOAD" /\ size' = c
           \/ c <= BufSize /\ ~(c > 0) /\ state' = "SUM1" /\ size' = c
           \/ ~(c <= BufSize) /\ state' = "MARK1" /\ size' = size
    BY <1>3 DEF SizeTakes
  <2>2. payload = << >>
    BY <2>1 DEF GumstixTypes
  <2>3. size' \in 0..BufSize
    BY <1>0, <2>1
  <2>4. state' \in {"MARK1", "PAYLOAD", "SUM1"} /\ payload' = << >> /\ Len(payload') = 0
    BY <1>1, <2>1, <2>2
  <2>5. /\ state' = "PAYLOAD" => 0 < size'
        /\ state' = "SUM1" => 0 = size'
    BY <1>0, <2>1
  <2> QED BY <1>0, <1>1, <2>1, <2>3, <2>4, <2>5 DEF GumstixTypes
<1>4. CASE PayloadTakes(c)
  <2>1. /\ payload' \in Seq(Byte) /\ Len(payload') = Len(payload) + 1
    BY <1>0, <1>4, AppendIs DEF PayloadTakes
  <2>2. /\ state = "PAYLOAD" /\ state' = (IF Len(payload') = size THEN "SUM1" ELSE "PAYLOAD")
        /\ UNCHANGED <<type, size, checksum>>
    BY <1>4 DEF PayloadTakes
  <2>3. Len(payload) < size
    BY <2>2 DEF GumstixTypes
  <2>4. state' \in {"PAYLOAD", "SUM1"} /\ (state' = "PAYLOAD" => Len(payload') < size')
        /\ (state' = "SUM1" => Len(payload') = size')
    <3>1. Len(payload') = size \/ Len(payload') < size
      BY <1>0, <2>1, <2>3
    <3> QED BY <2>2, <3>1
  <2> QED BY <1>0, <2>1, <2>2, <2>4 DEF GumstixTypes
<1>5. CASE Sum1Takes(c)
  <2>1. /\ state = "SUM1" /\ state' = "SUM2" /\ checksum' = c * ByteMod
        /\ UNCHANGED <<type, size, payload>>
    BY <1>5 DEF Sum1Takes
  <2>2. checksum' \in 0..(ByteMod * ByteMod - 1)
    <3>1. 0 \in Byte
      BY FramingNumbers DEF Byte
    <3>2. c * ByteMod + 0 \in 0..(ByteMod * ByteMod - 1)
      BY <3>1, PositionValue
    <3>3. c * ByteMod + 0 = c * ByteMod
      <4>1. c * ByteMod \in Int
        BY <1>0
      <4> QED BY <4>1
    <3> QED BY <2>1, <3>2, <3>3
  <2>3. \E d \in Byte : checksum' = d * ByteMod
    BY <2>1
  <2> QED BY <2>1, <2>2, <2>3, Zenon DEF GumstixTypes
<1>6. CASE Sum2Takes(c)
  <2>1. /\ state = "SUM2" /\ state' = "MARK1" /\ checksum' = checksum + c /\ payload' = << >>
        /\ UNCHANGED <<type, size>>
    BY <1>6 DEF Sum2Takes
  <2>2. PICK d \in Byte : checksum = d * ByteMod
    BY <2>1 DEF GumstixTypes
  <2>3. checksum' \in 0..(ByteMod * ByteMod - 1)
    BY <2>1, <2>2, PositionValue
  <2> QED BY <1>0, <1>1, <2>1, <2>3 DEF GumstixTypes
<1> QED BY <1>2, <1>3, <1>4, <1>5, <1>6 DEF TakesByte

\* The bytes of a packet, as the states of the receiver meet them.
LEMMA NextByteIs ==
  ASSUME NextByte
  PROVE  /\ Len(sent[1].payload) \in Nat /\ Size = Len(sent[1].payload) + 6 /\ Size <= BufSize
         /\ Gone \in 0..(Size - 1)
         /\ sent[1].payload \in Seq(Byte) /\ Head(tx) \in Byte
         /\ Gone \in {0, 1} => Head(tx) = ByteMod - 1
         /\ Gone = 2 => Head(tx) = sent[1].type /\ Head(tx) \in 1..TypeLimit
         /\ Gone = 3 => Head(tx) = Len(sent[1].payload)
         /\ Gone \in 4..(Size - 3) => Head(tx) = sent[1].payload[Gone - 3]
         /\ Gone = Size - 2 => Head(tx) = Frame(sent[1])[Size - 1]
         /\ Gone = Size - 1 => Frame(sent[1])[Size - 1] * ByteMod + Head(tx) = FrameSum(sent[1])
<1> DEFINE c == Head(tx)
           p == sent[1]
           m == Len(p.payload)
<1>1. /\ FrameFacts(p) /\ Sendable(p) /\ sent # << >> /\ c = Frame(p)[Gone + 1] /\ c \in Byte
      /\ Size \in 6..BufSize /\ Gone \in 0..(Size - 1)
  BY DEF NextByte
<1>2. /\ p.payload \in Seq(Byte) /\ m \in Nat
      /\ Size = m + 6
      /\ Frame(p)[1] = ByteMod - 1 /\ Frame(p)[2] = ByteMod - 1
      /\ Frame(p)[3] = p.type /\ Frame(p)[4] = m /\ p.type \in 1..TypeLimit
      /\ \A i \in 1..m : Frame(p)[4 + i] = p.payload[i]
      /\ Frame(p)[m + 5] * ByteMod + Frame(p)[m + 6] = FrameSum(p)
  BY <1>1, SeqFacts DEF FrameFacts, Sendable, Size
<1>3. Size <= BufSize
  BY <1>1, FramingNumbers
<1> HIDE DEF m, c
<1>4. Gone \in {0, 1} => c = ByteMod - 1
  BY <1>1, <1>2
<1>5. Gone = 2 => c = p.type /\ c \in 1..TypeLimit
  BY <1>1, <1>2
<1>6. Gone = 3 => c = m
  BY <1>1, <1>2
<1>7. Gone \in 4..(Size - 3) => c = p.payload[Gone - 3]
  <2> SUFFICES ASSUME Gone \in 4..(Size - 3) PROVE c = p.payload[Gone - 3]
    OBVIOUS
  <2>1. Gone - 3 \in 1..m /\ 4 + (Gone - 3) = Gone + 1
    BY <1>2
  <2> QED BY <1>1, <1>2, <2>1
<1>8. Gone = Size - 2 => c = Frame(p)[Size - 1]
  <2>1. Gone = Size - 2 => Gone + 1 = Size - 1
    BY <1>2
  <2> QED BY <1>1, <2>1
<1>9. Gone = Size - 1 => Frame(p)[Size - 1] * ByteMod + c = FrameSum(p)
  <2>1. Size - 1 = m + 5 /\ (Size - 1) + 1 = m + 6
    BY <1>2
  <2> QED BY <1>1, <1>2, <2>1
<1> QED BY <1>1, <1>2, <1>3, <1>4, <1>5, <1>6, <1>7, <1>8, <1>9 DEF c, m, p

\* In step with a packet, every byte but the last brings the receiver to its next
\* place in it; with the last it accepts the packet.
GumstixFollows ==
  /\ AtPlace(state', Gone + 1, Size) /\ PacketSoFar'
  /\ Gone + 1 < Size => Arrived(GumstixResync, << >>)
  /\ Gone + 1 = Size => Arrived(GumstixResync, << sent[1] >>)

\* ... for every state.
LEMMA GumstixFollowsIs ==
  ASSUME GumstixTypes, AtPlace(state, Gone, Size), PacketSoFar, NextByte, TakesByte(Head(tx)),
         Gone' = Gone + 1, Size' = Size, sent' = sent
  PROVE  GumstixFollows
<1> DEFINE c == Head(tx)
           p == sent[1]
           m == Len(p.payload)
           g == Gone
<1>1. /\ m \in Nat /\ Size = m + 6 /\ g \in 0..(Size - 1) /\ Size <= BufSize
      /\ p.payload \in Seq(Byte) /\ c \in Byte
      /\ g \in {0, 1} => c = ByteMod - 1
      /\ g = 2 => c = p.type /\ c \in 1..TypeLimit
      /\ g = 3 => c = m
      /\ g \in 4..(Size - 3) => c = p.payload[g - 3]
      /\ g = Size - 2 => c = Frame(p)[Size - 1]
      /\ g = Size - 1 => Frame(p)[Size - 1] * ByteMod + c = FrameSum(p)
  BY NextByteIs
<1>2. sent'[1] = p /\ Gone' = g + 1 /\ Size' = Size
  OBVIOUS
<1> HIDE DEF c, m, g
<1>3. CASE state \in {"MARK1", "MARK2", "TYPE", "SIZE"}
  <2>0. \/ state = "MARK1" /\ g = 0
        \/ state = "MARK2" /\ g = 1
        \/ state = "TYPE" /\ g = 2
        \/ state = "SIZE" /\ g = 3
    <3>1. g # Size
      BY <1>1
    <3> QED BY <1>3, <3>1 DEF AtPlace, g
  <2>1. CASE state = "MARK1" /\ g = 0
    <3>1. state' = "MARK2" /\ Arrived(GumstixResync, << >>)
      BY <1>1, <2>1 DEF TakesByte, Mark1Takes, Mark2Takes, TypeTakes, SizeTakes, PayloadTakes,
                        Sum1Takes, Sum2Takes, c
    <3>2. AtPlace(state', Gone + 1, Size)
      BY <2>1, <3>1 DEF AtPlace, g
    <3> QED BY <1>1, <2>1, <3>1, <3>2 DEF GumstixFollows, PacketSoFar, g
  <2>2. CASE state = "MARK2" /\ g = 1
    <3>1. state' = "TYPE" /\ Arrived(GumstixResync, << >>)
      BY <1>1, <2>2 DEF TakesByte, Mark1Takes, Mark2Takes, TypeTakes, SizeTakes, PayloadTakes,
                        Sum1Takes, Sum2Takes, c
    <3>2. AtPlace(state', Gone + 1, Size)
      BY <2>2, <3>1 DEF AtPlace, g
    <3> QED BY <1>1, <2>2, <3>1, <3>2 DEF GumstixFollows, PacketSoFar, g
  <2>3. CASE state = "TYPE" /\ g = 2
    <3>1. state' = "SIZE" /\ type' = p.type /\ Arrived(GumstixResync, << >>)
      BY <1>1, <2>3 DEF TakesByte, Mark1Takes, Mark2Takes, TypeTakes, SizeTakes, PayloadTakes,
                        Sum1Takes, Sum2Takes, c
    <3>2. AtPlace(state', Gone + 1, Size)
      BY <2>3, <3>1 DEF AtPlace, g
    <3> QED BY <1>1, <1>2, <2>3, <3>1, <3>2 DEF GumstixFollows, PacketSoFar, g
  <2>4. CASE state = "SIZE" /\ g = 3
    <3>1. /\ SizeTakes(c) /\ Arrived(GumstixResync, << >>) /\ c = m
      BY <1>1, <2>4 DEF TakesByte, Mark1Takes, Mark2Takes, TypeTakes, PayloadTakes,
                        Sum1Takes, Sum2Takes, c
    <3>2. c <= BufSize
      BY <1>1, <3>1, FramingNumbers
    <3>3. /\ size' = m /\ state' = (IF m > 0 THEN "PAYLOAD" ELSE "SUM1")
          /\ UNCHANGED <<type, payload, checksum>>
      BY <3>1, <3>2 DEF SizeTakes
    <3>4. payload' = << >> /\ Len(payload') = 0 /\ type' = p.type
      <4>1. payload' = << >> /\ type' = p.type
        BY <2>4, <3>3 DEF GumstixTypes, PacketSoFar
      <4> QED BY <4>1
    <3>5. AtPlace(state', Gone + 1, Size)
      <4>1. CASE m > 0
        BY <1>1, <2>4, <3>3, <4>1 DEF AtPlace, g
      <4>2. CASE m = 0
        BY <1>1, <2>4, <3>3, <4>2 DEF AtPlace, g
      <4> QED BY <1>1, <4>1, <4>2
    <3>6. PacketSoFar'
      <4>1. state' \in {"PAYLOAD", "SUM1"} /\ Len(payload') = Gone' - 4
        BY <1>2, <2>4, <3>3, <3>4
      <4>2. \A i \in 1..Len(payload') : payload'[i] = p.payload[i]
        BY <3>4
      <4> QED BY <1>2, <3>3, <3>4, <4>1, <4>2 DEF PacketSoFar, m
    <3> QED BY <1>1, <2>4, <3>1, <3>5, <3>6 DEF GumstixFollows, g
  <2> QED BY <2>0, <2>1, <2>2, <2>3, <2>4
<1>4. CASE state = "PAYLOAD"
  <2>1. g \in 4..(Size - 3) /\ c = p.payload[g - 3]
    BY <1>1, <1>4 DEF AtPlace, g
  <2>2. /\ type = p.type /\ size = m /\ Len(payload) = g - 4
        /\ \A i \in 1..Len(payload) : payload[i] = p.payload[i]
    BY <1>4 DEF PacketSoFar, m, g
  <2>3. /\ payload' = Append(payload, c)
        /\ state' = (IF Len(payload') = size THEN "SUM1" ELSE "PAYLOAD")
        /\ UNCHANGED <<type, size, checksum>> /\ Arrived(GumstixResync, << >>)
    BY <1>4 DEF TakesByte, Mark1Takes, Mark2Takes, TypeTakes, SizeTakes, PayloadTakes,
                Sum1Takes, Sum2Takes, c
  <2>4. /\ Len(payload') = Len(payload) + 1 /\ Len(payload) \in Nat
        /\ \A i \in 1..Len(payload) : payload'[i] = payload[i]
        /\ payload'[Len(payload) + 1] = c
    <3>1. payload \in Seq(Byte) /\ c \in Byte
      BY <1>1 DEF GumstixTypes
    <3> QED BY <2>3, <3>1, AppendIs
  <2>5. Len(payload') = g - 3
    BY <1>1, <2>1, <2>2, <2>4
  <2>6. \A i \in 1..Len(payload') : payload'[i] = p.payload[i]
    <3> TAKE i \in 1..Len(payload')
    <3>1. i \in 1..Len(payload) \/ i = Len(payload) + 1
      BY <2>4
    <3>2. Len(payload) + 1 = g - 3
      BY <2>4, <2>5
    <3> QED BY <2>1, <2>2, <2>4, <3>1, <3>2
  <2>7. AtPlace(state', Gone + 1, Size)
    <3>1. CASE g - 3 = m
      <4>1. state' = "SUM1" /\ g + 1 = Size - 2
        BY <1>1, <2>2, <2>3, <2>5, <3>1
      <4> QED BY <4>1 DEF AtPlace, g
    <3>2. CASE g - 3 # m
      <4>1. state' = "PAYLOAD" /\ g + 1 \in 4..(Size - 3)
        BY <1>1, <2>1, <2>2, <2>3, <2>5, <3>2
      <4> QED BY <4>1 DEF AtPlace, g
    <3> QED BY <3>1, <3>2
  <2>8. PacketSoFar'
    <3>1. state' \in {"PAYLOAD", "SUM1"} /\ type' = p.type /\ size' = m
      BY <2>2, <2>3
    <3>2. Len(payload') = Gone' - 4
      BY <1>1, <1>2, <2>5
    <3> QED BY <1>2, <2>6, <3>1, <3>2 DEF PacketSoFar, m
  <2> QED BY <1>1, <2>1, <2>3, <2>7, <2>8 DEF GumstixFollows, g
<1>5. CASE state = "SUM1"
  <2>1. g = Size - 2 /\ c = Frame(p)[Size - 1]
    BY <1>1, <1>5 DEF AtPlace, g
  <2>2. /\ type = p.type /\ size = m
        /\ \A i \in 1..Len(payload) : payload[i] = p.payload[i]
    BY <1>5 DEF PacketSoFar, m
  <2>3. /\ state' = "SUM2" /\ checksum' = c * ByteMod
        /\ UNCHANGED <<type, size, payload>> /\ Arrived(GumstixResync, << >>)
    BY <1>5 DEF TakesByte, Mark1Takes, Mark2Takes, TypeTakes, SizeTakes, PayloadTakes,
                Sum1Takes, Sum2Takes, c
  <2>4. AtPlace(state', Gone + 1, Size)
    <3>1. g + 1 = Size - 1
      BY <1>1, <2>1
    <3> QED BY <2>3, <3>1 DEF AtPlace, g
  <2>5. PacketSoFar'
    BY <1>2, <2>1, <2>2, <2>3 DEF PacketSoFar, m
  <2>6. g + 1 # Size
    BY <1>1, <2>1
  <2> QED BY <2>3, <2>4, <2>5, <2>6 DEF GumstixFollows, g
<1>6. CASE state = "SUM2"
  <2>1. g = Size - 1 /\ Frame(p)[Size - 1] * ByteMod + c = FrameSum(p)
    BY <1>1, <1>6 DEF AtPlace, g
  <2>2. /\ type = p.type /\ size = m
        /\ \A i \in 1..Len(payload) : payload[i] = p.payload[i]
        /\ checksum = Frame(p)[Size - 1] * ByteMod
    BY <1>6 DEF PacketSoFar, m
  <2>3. /\ state' = "MARK1" /\ checksum' = checksum + c
        /\ Arrived(GumstixResync, AcceptedPacket)
    BY <1>6 DEF TakesByte, Mark1Takes, Mark2Takes, TypeTakes, SizeTakes, PayloadTakes,
                Sum1Takes, Sum2Takes, c
  <2>4. G!Packet = p
    <3>1. payload \in Seq(Byte) /\ Len(payload) = size
      BY <1>6 DEF GumstixTypes
    <3>2. payload = p.payload
      <4>1. Len(payload) = Len(p.payload)
        BY <2>2, <3>1 DEF m
      <4> QED BY <1>1, <2>2, <3>1, <4>1, SameSeq
    <3>3. p = [type |-> p.type, payload |-> p.payload]
      BY DEF NextByte, Sendable
    <3> QED BY <2>2, <3>2, <3>3, Zenon DEF G!Packet
  <2>5. AcceptedPacket = << p >>
    <3>1. checksum' = FrameSum(p)
      BY <2>1, <2>2, <2>3
    <3>2. G!Checksum(G!Body(G!Packet)) = FrameSum(p)
      BY <2>4, GumstixCodec, Zenon DEF FrameSum
    <3> QED BY <2>4, <3>1, <3>2, Zenon DEF AcceptedPacket
  <2>6. g + 1 = Size
    BY <1>1, <2>1
  <2>7. AtPlace(state', Gone + 1, Size) /\ PacketSoFar'
    BY <2>3, <2>6 DEF AtPlace, PacketSoFar, g
  <2>8. ~(g + 1 < Size)
    BY <1>1, <2>6
  <2> QED BY <2>3, <2>5, <2>6, <2>7, <2>8, Zenon DEF GumstixFollows, g
<1> QED BY <1>3, <1>4, <1>5, <1>6 DEF GumstixTypes

\* Out of step, a byte of a plain packet leaves the receiver out of step for no
\* more bytes than before.
LEMMA AstrayNumbers ==
  ASSUME GumstixTypes, NEW c \in Byte, TakesByte(c),
         NEW gone \in Nat, NEW q \in Nat, NEW next \in Nat, next <= q + 1, PlainByte(gone, c),
         q = 0 \/ AstrayAt(state, size - Len(payload), gone, q),
         ~(state = "MARK1" /\ gone = 0), ~(state = "MARK2" /\ gone = 1)
  PROVE  AstrayAt(state', size' - Len(payload'), gone + 1, next)
<1>1. /\ BufSize \in Nat /\ ByteMod \in Nat /\ TypeLimit \in Nat /\ c \in 0..(ByteMod - 1)
      /\ 6 <= BufSize /\ BufSize < ByteMod - 1 /\ TypeLimit < ByteMod - 1
      /\ GumstixResync = BufSize + 4
      /\ payload \in Seq(Byte) /\ Len(payload) \in Nat /\ size \in 0..BufSize
  BY FramingNumbers, GumstixResyncs, SeqFacts DEF Byte, GumstixTypes
<1>2. state' = "MARK1" => AstrayAt(state', size' - Len(payload'), gone + 1, next)
  BY DEF AstrayAt
<1>3. CASE Mark1Takes(c)
  <2>1. gone >= 1 /\ state' \in {"MARK1", "MARK2"} /\ (state' = "MARK2" => c = ByteMod - 1)
    BY <1>3 DEF Mark1Takes
  <2>2. state' = "MARK2" => gone + 1 = 2
    BY <1>1, <2>1 DEF PlainByte
  <2> QED BY <1>2, <2>1, <2>2 DEF AstrayAt
<1>4. CASE Mark2Takes(c)
  <2>1. /\ state = "MARK2" /\ state' \in {"MARK1", "TYPE"} /\ (state' = "TYPE" => c = ByteMod - 1)
    BY <1>4 DEF Mark2Takes
  <2>2. state' = "TYPE" => gone \in {0, 1}
    BY <1>1, <2>1 DEF PlainByte
  <2>3. gone # 1
    BY <2>1
  <2> QED BY <1>2, <2>1, <2>2, <2>3 DEF AstrayAt
<1>5. CASE TypeTakes(c)
  <2>1. state = "TYPE" /\ state' \in {"MARK1", "SIZE"} /\ (state' = "SIZE" => c \in 1..TypeLimit)
    BY <1>5 DEF TypeTakes
  <2>2. q = 0 \/ gone = 1
    BY <2>1 DEF AstrayAt
  <2>3. state' = "SIZE" => q = 0
    <3>1. c \in 1..TypeLimit => gone # 1
      BY <1>1 DEF PlainByte
    <3> QED BY <2>1, <2>2, <3>1
  <2>4. q = 0 => BufSize + 3 + next <= GumstixResync
    BY <1>1
  <2> QED BY <1>2, <2>1, <2>3, <2>4 DEF AstrayAt
<1>6. CASE SizeTakes(c)
  <2>1. /\ state = "SIZE" /\ payload' = payload
        /\ \/ c <= BufSize /\ c > 0 /\ state' = "PAYLOAD" /\ size' = c
           \/ c <= BufSize /\ ~(c > 0) /\ state' = "SUM1" /\ size' = c
           \/ ~(c <= BufSize) /\ state' = "MARK1" /\ size' = size
    BY <1>6 DEF SizeTakes
  <2>2. q <= 1
    <3>1. q = 0 \/ BufSize + 3 + q <= GumstixResync
      BY <2>1 DEF AstrayAt
    <3> QED BY <1>1, <3>1
  <2>3. Len(payload') = 0
    <3>1. payload = << >>
      BY <2>1 DEF GumstixTypes
    <3> QED BY <2>1, <3>1
  <2>4. state' = "PAYLOAD" => size' - Len(payload') + 2 + next <= GumstixResync
    BY <1>1, <2>1, <2>2, <2>3
  <2>5. 2 + next <= GumstixResync
    BY <1>1, <2>2
  <2> QED BY <1>2, <2>1, <2>4, <2>5 DEF AstrayAt
<1>7. CASE PayloadTakes(c)
  <2>1. /\ state = "PAYLOAD" /\ payload' = Append(payload, c)
        /\ state' = (IF Len(payload') = size THEN "SUM1" ELSE "PAYLOAD") /\ size' = size
    BY <1>7 DEF PayloadTakes
  <2>2. Len(payload') = Len(payload) + 1
    BY <1>1, <2>1, AppendIs
  <2>3. Len(payload) < size
    BY <2>1 DEF GumstixTypes
  <2>4. size - Len(payload) + 2 + q <= GumstixResync
    <3>1. q = 0 \/ size - Len(payload) + 2 + q <= GumstixResync
      BY <2>1 DEF AstrayAt
    <3> QED BY <1>1, <3>1
  <2>5. size' - Len(payload') + 2 + next <= GumstixResync /\ 2 + next <= GumstixResync
    BY <1>1, <2>1, <2>2, <2>3, <2>4
  <2> QED BY <2>1, <2>5 DEF AstrayAt
<1>8. CASE Sum1Takes(c)
  <2>1. state = "SUM1" /\ state' = "SUM2"
    BY <1>8 DEF Sum1Takes
  <2>2. q = 0 \/ 2 + q <= GumstixResync
    BY <2>1 DEF AstrayAt
  <2>3. 1 + next <= GumstixResync
    BY <1>1, <2>2
  <2> QED BY <2>1, <2>3 DEF AstrayAt
<1>9. CASE Sum2Takes(c)
  BY <1>2, <1>9 DEF Sum2Takes
<1> QED BY <1>3, <1>4, <1>5, <1>6, <1>7, <1>8, <1>9 DEF TakesByte

\* A byte that comes out of step.
LEMMA GumstixLostByte ==
  ASSUME LineTypes(GumstixPayloads, GumstixResync, GumstixLosses), LinePlace, GumstixTypes,
         NextByte, TakesByte(Head(tx)),
         ~calm, quiet = 0 \/ GumstixLost,
         Gone' = Gone + 1, Size' = Size, sent' = sent
  PROVE  quiet' = 0 \/ GumstixInStep' \/ GumstixLost'
<1> DEFINE c == Head(tx)
<1>1. \E ps : Arrived(GumstixResync, ps)
  BY DEF TakesByte
<1>2. /\ quiet' = IF ~PlainFrame(sent[1]) THEN 0
                   ELSE IF quiet < GumstixResync THEN quiet + 1 ELSE quiet
      /\ sent' # << >> /\ sent # << >>
  BY <1>1 DEF Arrived, NextByte
<1> SUFFICES ASSUME PlainFrame(sent[1]) PROVE GumstixInStep' \/ GumstixLost'
  BY <1>2
<1>3. quiet \in Nat /\ quiet' \in Nat /\ quiet' <= quiet + 1
  <2>1. quiet \in 0..GumstixResync
    BY DEF LineTypes
  <2>2. quiet' = quiet + 1 \/ quiet' = quiet
    BY <1>2
  <2> QED BY <2>1, <2>2, GumstixResyncs
<1>4. PlainByte(Gone, c) /\ Gone \in Nat /\ c \in Byte
  BY PlainByteIs DEF NextByte
<1>5. quiet = 0 \/ AstrayAt(state, size - Len(payload), Gone, quiet)
  BY DEF GumstixLost
<1>6. CASE (state = "MARK1" /\ Gone = 0) \/ (state = "MARK2" /\ Gone = 1)
  <2>1. AtPlace(state, Gone, Size) /\ PacketSoFar
    BY <1>6 DEF AtPlace, PacketSoFar
  <2>2. GumstixFollows
    BY <2>1, GumstixFollowsIs
  <2> QED BY <1>2, <2>2, Zenon DEF GumstixFollows, GumstixInStep
<1>7. CASE ~(state = "MARK1" /\ Gone = 0) /\ ~(state = "MARK2" /\ Gone = 1)
  <2>1. TakesByte(c)
    OBVIOUS
  <2> HIDE DEF c
  <2>2. AstrayAt(state', size' - Len(payload'), Gone + 1, quiet')
    BY <1>3, <1>4, <1>5, <1>7, <2>1, AstrayNumbers
  <2> QED BY <1>2, <2>2, Zenon DEF GumstixLost
<1> QED BY <1>6, <1>7

\* GumstixInv, by its parts.
LEMMA GumstixParts ==
  ASSUME GumstixInv
  PROVE  /\ LineTypes(GumstixPayloads, GumstixResync, GumstixLosses) /\ LinePlace /\ GumstixTypes
         /\ ~disturbed => calm
         /\ calm => quiet = GumstixResync /\ GumstixInStep /\ Received1
         /\ ~calm => quiet = 0 \/ GumstixInStep \/ GumstixLost
BY GumstixLine, Zenon DEF GumstixInv

\* GumstixInv from its parts.
LEMMA GumstixWhole ==
  ASSUME LineTypes(GumstixPayloads, GumstixResync, GumstixLosses)', LinePlace', GumstixTypes',
         (~disturbed => calm)',
         (calm => quiet = GumstixResync /\ GumstixInStep /\ Received1)',
         (~calm => quiet = 0 \/ GumstixInStep \/ GumstixLost)'
  PROVE  GumstixInv'
<1>1. G!LineTypeOK' <=> LineTypes(GumstixPayloads, GumstixResync, GumstixLosses)'
  BY GumstixLine, PTL
<1> QED BY <1>1, Zenon DEF GumstixInv

\* A byte comes to the Gumstix (comm_recv_packet).
LEMMA GumstixByteStep == ASSUME GumstixInv, G!Receive PROVE GumstixInv'
<1> HIDE DEF RobostixPayloads, GumstixPayloads
<1>1. /\ LineTypes(GumstixPayloads, GumstixResync, GumstixLosses) /\ LinePlace /\ GumstixTypes
      /\ ~disturbed => calm
      /\ calm => quiet = GumstixResync /\ GumstixInStep /\ Received1
      /\ ~calm => quiet = 0 \/ GumstixInStep \/ GumstixLost
  BY GumstixParts
<1>2. tx # << >> /\ TakesByte(Head(tx))
  BY TakesByteIs
<1>3. NextByte
  BY <1>1, <1>2, PayloadsIn, LineNext
<1>4. Head(tx) \in Byte /\ sent # << >>
  BY <1>3 DEF NextByte
<1>6. PICK ps : Arrived(GumstixResync, ps)
  BY <1>2 DEF TakesByte
<1>7. /\ LineTypes(GumstixPayloads, GumstixResync, GumstixLosses)' /\ LinePlace'
      /\ Gone' = Gone + 1 /\ Size' = Size /\ (tx' = << >> <=> Gone + 1 = Size)
  BY <1>1, <1>2, <1>6, PayloadsIn, LineArrive, GumstixResyncs
<1>8. UNCHANGED <<sent, disturbed, calm, losses>>
  BY <1>6 DEF Arrived
<1>9. GumstixTypes'
  BY <1>1, <1>2, <1>4, GumstixTypesStep
<1>10. GumstixInStep => GumstixInStep' /\ GumstixFollows
  <2> SUFFICES ASSUME GumstixInStep PROVE GumstixInStep' /\ GumstixFollows
    OBVIOUS
  <2>1. AtPlace(state, Gone, Size) /\ PacketSoFar
    BY <1>4 DEF GumstixInStep
  <2>2. GumstixFollows
    BY <1>1, <1>2, <1>3, <1>7, <1>8, <2>1, GumstixFollowsIs
  <2>3. GumstixInStep'
    BY <1>4, <1>7, <1>8, <2>2, Zenon DEF GumstixFollows, GumstixInStep
  <2> QED BY <2>2, <2>3
<1>11. ASSUME calm
       PROVE  quiet' = GumstixResync /\ GumstixInStep' /\ Received1'
  <2>1. quiet' = quiet
    BY <1>6, <1>11 DEF Arrived
  <2>2. received = << >>
    BY <1>1, <1>2, <1>11 DEF Received1
  <2>3. Received1'
    <3>1. Size \in 6..BufSize /\ Gone \in 0..(Size - 1)
      BY <1>3 DEF NextByte
    <3>2. CASE Gone + 1 = Size
      <4>1. received' = << >> \o << sent[1] >>
        BY <1>1, <1>10, <1>11, <2>2, <3>2 DEF GumstixFollows, Arrived
      <4>2. << >> \o << sent[1] >> = sent
        <5>1. sent \in Seq([type : Types, payload : GumstixPayloads]) /\ Len(sent) <= 1
          BY <1>1 DEF LineTypes
        <5> QED BY <1>4, <5>1, OneIs
      <4> QED BY <1>7, <1>8, <3>2, <4>1, <4>2 DEF Received1
    <3>3. CASE Gone + 1 < Size
      <4>1. received' = << >> \o << >>
        BY <1>1, <1>10, <1>11, <2>2, <3>3 DEF GumstixFollows, Arrived
      <4>2. tx' # << >>
        BY <1>7, <3>1, <3>3, FramingNumbers
      <4> QED BY <4>1, <4>2 DEF Received1
    <3> QED BY <3>1, <3>2, <3>3, FramingNumbers
  <2> QED BY <1>1, <1>10, <1>11, <2>1, <2>3
<1>12. ASSUME ~calm
       PROVE  quiet' = 0 \/ GumstixInStep' \/ GumstixLost'
  <2>1. CASE GumstixInStep
    BY <1>10, <2>1
  <2>2. CASE quiet = 0 \/ GumstixLost
    BY <1>1, <1>2, <1>3, <1>7, <1>8, <1>12, <2>2, GumstixLostByte
  <2> QED BY <1>1, <1>12, <2>1, <2>2
<1> QED BY <1>1, <1>7, <1>8, <1>9, <1>11, <1>12, GumstixWhole, Zenon

\* A packet for it begins: if the line was calm, it awaits marks, hence is in step.
LEMMA GumstixSendStep ==
  ASSUME GumstixInv, G!SendPacket, UNCHANGED <<state, type, size, payload, checksum>>
  PROVE  GumstixInv'
<1> HIDE DEF RobostixPayloads, GumstixPayloads
<1>1. /\ LineTypes(GumstixPayloads, GumstixResync, GumstixLosses) /\ LinePlace /\ GumstixTypes
      /\ ~disturbed => calm
      /\ calm => quiet = GumstixResync /\ GumstixInStep /\ Received1
      /\ ~calm => quiet = 0 \/ GumstixInStep \/ GumstixLost
  BY GumstixParts
<1>2. SentNext(GumstixPayloads, GumstixResync)
  BY GumstixSend
<1>3. /\ LineTypes(GumstixPayloads, GumstixResync, GumstixLosses)' /\ LinePlace'
      /\ Gone' = 0 /\ Size' \in 6..BufSize /\ sent' # << >> /\ tx' # << >>
  BY <1>1, <1>2, PayloadsIn, LineSend, GumstixResyncs, FramingConstants
<1>4. GumstixTypes'
  BY <1>1, Zenon DEF GumstixTypes
<1>5. /\ tx = << >> /\ received' = << >> /\ (calm' <=> quiet = GumstixResync)
      /\ UNCHANGED <<disturbed, quiet>>
  BY <1>2 DEF SentNext
<1>6. sent # << >> => Gone = Size /\ Size \in 6..BufSize
  <2> SUFFICES ASSUME sent # << >> PROVE Gone = Size /\ Size \in 6..BufSize
    OBVIOUS
  <2>1. sent[1] \in [type : Types, payload : GumstixPayloads]
    BY <1>1, SeqFacts DEF LineTypes
  <2>2. FrameFacts(sent[1])
    BY <2>1, PayloadsIn, LineSendable
  <2>3. Len(tx) = 0
    BY <1>5
  <2> QED BY <2>2, <2>3, FramingNumbers DEF FrameFacts, Size, Gone
<1>7. state = "MARK1" => GumstixInStep'
  <2> SUFFICES ASSUME state = "MARK1" PROVE GumstixInStep'
    OBVIOUS
  <2>1. state' = "MARK1" /\ AtPlace(state', Gone', Size')
    BY <1>3 DEF AtPlace
  <2> QED BY <2>1 DEF GumstixInStep, PacketSoFar
<1>8. GumstixInStep => state = "MARK1"
  <2> SUFFICES ASSUME GumstixInStep, sent # << >> PROVE state = "MARK1"
    BY DEF GumstixInStep
  <2>1. AtPlace(state, Gone, Size)
    BY DEF GumstixInStep
  <2> DEFINE g == Gone
             n == Size
  <2>2. g = n /\ n \in 6..BufSize
    BY <1>6
  <2> HIDE DEF g, n
  <2>3. AtPlace(state, g, n)
    BY <2>1 DEF g, n
  <2> QED BY <2>2, <2>3, FramingNumbers DEF AtPlace
<1>9. GumstixLost => \/ state = "MARK1"
                     \/ GumstixLost' /\ quiet # GumstixResync
  <2> SUFFICES ASSUME GumstixLost, state # "MARK1" PROVE GumstixLost' /\ quiet # GumstixResync
    OBVIOUS
  <2>1. AstrayAt(state, size - Len(payload), Gone, quiet) /\ sent # << >>
    BY DEF GumstixLost
  <2> DEFINE left == size - Len(payload)
  <2>2. state = "PAYLOAD" => left >= 1 /\ left \in Int
    <3> SUFFICES ASSUME state = "PAYLOAD" PROVE left >= 1 /\ left \in Int
      OBVIOUS
    <3>1. Len(payload) \in Nat /\ Len(payload) < size /\ size \in 0..BufSize
      BY <1>1, SeqFacts DEF GumstixTypes
    <3> QED BY <3>1, FramingNumbers
  <2>3. Gone \in 6..BufSize /\ quiet \in 0..GumstixResync
    BY <1>1, <1>6, <2>1 DEF LineTypes
  <2> HIDE DEF left
  <2>4. AstrayAt(state, left, 0, quiet) /\ quiet # GumstixResync
    <3>1. AstrayAt(state, left, Gone, quiet)
      BY <2>1 DEF left
    <3> DEFINE g == Gone
    <3>2. g # 1 /\ g # 2
      BY <2>3, FramingNumbers
    <3> HIDE DEF g
    <3>3. AstrayAt(state, left, g, quiet)
      BY <3>1 DEF g
    <3>4. AstrayAt(state, left, 0, quiet)
      BY <3>2, <3>3 DEF AstrayAt
    <3>5. quiet # GumstixResync
      BY <2>2, <2>3, <3>2, <3>3, FramingNumbers, GumstixResyncs DEF AstrayAt
    <3> QED BY <3>4, <3>5
  <2>5. state' = state /\ (size - Len(payload))' = left
    BY DEF left
  <2> QED BY <1>3, <1>5, <2>4, <2>5, Zenon DEF GumstixLost
<1>10. calm' => state = "MARK1"
  <2> SUFFICES ASSUME quiet = GumstixResync PROVE state = "MARK1"
    BY <1>5
  <2>1. quiet # 0
    BY GumstixResyncs, FramingNumbers
  <2> QED BY <1>1, <1>8, <1>9, <2>1
<1>11. (calm => quiet = GumstixResync /\ GumstixInStep /\ Received1)'
  <2> SUFFICES ASSUME calm' PROVE quiet' = GumstixResync /\ GumstixInStep' /\ Received1'
    BY GumstixResyncs
  <2> QED BY <1>3, <1>5, <1>7, <1>10 DEF Received1
<1>12. (~calm => quiet = 0 \/ GumstixInStep \/ GumstixLost)'
  <2> SUFFICES ASSUME ~calm' PROVE quiet' = 0 \/ GumstixInStep' \/ GumstixLost'
    OBVIOUS
  <2> QED BY <1>1, <1>5, <1>7, <1>8, <1>9
<1>13. (~disturbed => calm)'
  BY <1>1, <1>5
<1> QED BY <1>1, <1>3, <1>4, <1>11, <1>12, <1>13, GumstixWhole

\* Bytes are lost, or the packet is cut off.
LEMMA GumstixDisturbStep ==
  ASSUME GumstixInv,
         \/ G!LoseByte /\ UNCHANGED <<state, type, size, payload, checksum>>
         \/ G!CutOff
  PROVE GumstixInv'
<1> HIDE DEF RobostixPayloads, GumstixPayloads
<1>1. LineTypes(GumstixPayloads, GumstixResync, GumstixLosses) /\ LinePlace /\ GumstixTypes
  BY GumstixParts
<1>2. /\ losses < GumstixLosses /\ losses' = losses + 1
      /\ disturbed' = TRUE /\ quiet' = 0 /\ calm' = FALSE
      /\ sent' = sent /\ (tx' = tx \/ tx' = << >> \/ (tx # << >> /\ tx' = Tail(tx)))
      /\ UNCHANGED <<state, type, size, payload, checksum>>
  BY Zenon DEF G!LoseByte, G!CutOff, G!Disturb, G!receiver
<1>3. LineTypes(GumstixPayloads, GumstixResync, GumstixLosses)' /\ LinePlace'
  BY <1>1, <1>2, PayloadsIn, LineDisturbed, GumstixResyncs, FramingConstants DEF Disturbed
<1>4. GumstixTypes'
  BY <1>1, <1>2, Zenon DEF GumstixTypes
<1> QED BY <1>2, <1>3, <1>4, GumstixWhole, Zenon

\* The Gumstix begins in step.
LEMMA GumstixInvInit == G!Init => GumstixInv
<1> HIDE DEF RobostixPayloads, GumstixPayloads
<1> SUFFICES ASSUME G!Init PROVE GumstixInv
  OBVIOUS
<1>1. /\ sent = << >> /\ tx = << >> /\ received = << >> /\ disturbed = FALSE
      /\ quiet = GumstixResync /\ calm = TRUE /\ losses = 0
      /\ state = "MARK1" /\ type = 0 /\ size = 0 /\ checksum = 0 /\ payload = << >>
  BY Zenon DEF G!Init, G!LineInit, G!ReceiverInit, GumstixResync
<1>2. LineTypes(GumstixPayloads, GumstixResync, GumstixLosses)
  <2>1. quiet \in 0..GumstixResync /\ losses \in 0..GumstixLosses
    BY <1>1, GumstixResyncs, FramingConstants
  <2>2. sent \in Seq([type : Types, payload : GumstixPayloads]) /\ Len(sent) <= 1
    BY <1>1
  <2>3. tx \in Seq(Byte) /\ Len(tx) <= BufSize
    BY <1>1, FramingNumbers
  <2>4. disturbed \in BOOLEAN /\ calm \in BOOLEAN
    BY <1>1, Zenon
  <2> QED BY <2>1, <2>2, <2>3, <2>4 DEF LineTypes
<1>3. GumstixTypes
  <2>1. payload \in Seq(Byte)
    BY <1>1
  <2>2. type \in 0..TypeLimit /\ size \in 0..BufSize
    BY <1>1, FramingNumbers
  <2>3. checksum \in 0..(ByteMod * ByteMod - 1)
    <3>1. 0 \in Byte
      BY FramingNumbers DEF Byte
    <3>2. 0 * ByteMod + 0 \in 0..(ByteMod * ByteMod - 1)
      BY <3>1, PositionValue
    <3>3. 0 * ByteMod + 0 = 0
      BY FramingNumbers
    <3> QED BY <1>1, <3>2, <3>3
  <2> QED BY <1>1, <2>1, <2>2, <2>3 DEF GumstixTypes
<1>4. GumstixInStep /\ LinePlace /\ Received1
  BY <1>1 DEF GumstixInStep, LinePlace, Received1
<1> QED BY <1>1, <1>2, <1>3, <1>4, GumstixLine, Zenon DEF GumstixInv

\* GumstixInv is inductive.
LEMMA GumstixInvStep ==
  ASSUME GumstixInv, G!Next \/ UNCHANGED G!vars PROVE GumstixInv'
<1>1. CASE G!Next
  BY <1>1, GumstixByteStep, GumstixSendStep, GumstixDisturbStep, Zenon DEF G!Next, G!receiver
<1>2. CASE UNCHANGED G!vars
  <2>1. UNCHANGED <<sent, tx, received, disturbed, quiet, calm, losses, state, type, size,
                    payload, checksum>>
    BY <1>2, Zenon DEF G!vars, G!lineVars, G!receiver
  <2>2. LineTypes(GumstixPayloads, GumstixResync, GumstixLosses)'
    BY <2>1, GumstixParts DEF LineTypes
  <2>3. LinePlace' /\ GumstixTypes' /\ (GumstixInStep' <=> GumstixInStep)
        /\ (GumstixLost' <=> GumstixLost) /\ (Received1' <=> Received1)
    BY <2>1, GumstixParts, Zenon DEF LinePlace, Gone, Size, GumstixTypes, GumstixInStep, PacketSoFar,
                               GumstixLost, Received1
  <2> QED BY <2>1, <2>2, <2>3, GumstixParts, GumstixWhole, Zenon
<1> QED BY <1>1, <1>2

\* What the Gumstix delivers.
LEMMA GumstixDelivers ==
  ASSUME GumstixInv PROVE G!TypeOK /\ G!UndisturbedDelivery /\ G!ResyncedDelivery
<1>1. /\ ~disturbed => calm
      /\ calm => Received1
      /\ GumstixTypes /\ G!LineTypeOK
  BY Zenon DEF GumstixInv
<1>2. G!Bytes = Byte
  BY DEF G!Bytes, G!Mark, Byte
<1>3. Len(payload) <= size
  <2>1. Len(payload) \in Nat /\ size \in 0..BufSize
    BY <1>1, SeqFacts DEF GumstixTypes
  <2>2. Len(payload) = 0 \/ Len(payload) < size \/ Len(payload) = size
    BY <1>1 DEF GumstixTypes
  <2> QED BY <2>1, <2>2, FramingNumbers
<1>4. G!TypeOK
  BY <1>1, <1>2, <1>3, Zenon DEF G!TypeOK, GumstixTypes
<1>5. calm => G!Delivered
  BY <1>1 DEF G!Delivered, Received1
<1> QED BY <1>1, <1>4, <1>5 DEF G!UndisturbedDelivery, G!ResyncedDelivery
=============================================================================
