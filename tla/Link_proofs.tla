----------------------------- MODULE Link_proofs ----------------------------
(*****************************************************************************)
(* The exchange of packets and answers (JaviatorLink), for every number of   *)
(* ids, every length of the line and every number of attempts, as MCLines    *)
(* has it.                                                                   *)
(*                                                                           *)
(* LinkInv says how old every id under way is: how many packets were sent    *)
(* after it. Ages never come to IdMod, so none is mistaken for another,      *)
(* and what is behind on the line is always the younger one. The proof has   *)
(* one lemma per action.                                                     *)
(*                                                                           *)
(* In front are facts about sequences and numbers that the other proofs      *)
(* about the lines use too.                                                  *)
(*****************************************************************************)
EXTENDS MCLines, WellFoundedInduction, TLAPS

\* The length and the first element of a sequence.
LEMMA SeqFacts ==
  ASSUME NEW E, NEW s \in Seq(E)
  PROVE  /\ Len(s) \in Nat
         /\ s # << >> => Len(s) >= 1 /\ s[1] \in E
         /\ s = << >> => Len(s) = 0
OBVIOUS

\* What Tail and Head of a sequence are.
LEMMA TailIs ==
  ASSUME NEW E, NEW s \in Seq(E), s # << >>
  PROVE  /\ Tail(s) \in Seq(E) /\ Len(Tail(s)) = Len(s) - 1 /\ Len(s) \in Nat \ {0}
         /\ \A i \in 1..(Len(s) - 1) : Tail(s)[i] = s[i + 1]
         /\ Head(s) = s[1] /\ Head(s) \in E
OBVIOUS

\* A sequence followed by another.
LEMMA ConcatIs ==
  ASSUME NEW E, NEW s \in Seq(E), NEW t \in Seq(E)
  PROVE  /\ s \o t \in Seq(E) /\ Len(s \o t) = Len(s) + Len(t)
         /\ \A i \in 1..Len(s) : (s \o t)[i] = s[i]
         /\ \A i \in 1..Len(t) : (s \o t)[Len(s) + i] = t[i]
OBVIOUS

\* Appending one byte.
LEMMA AppendIs ==
  ASSUME NEW E, NEW s \in Seq(E), NEW e \in E
  PROVE  /\ Append(s, e) \in Seq(E) /\ Len(Append(s, e)) = Len(s) + 1 /\ Len(s) \in Nat
         /\ \A i \in 1..Len(s) : Append(s, e)[i] = s[i]
         /\ Append(s, e)[Len(s) + 1] = e
OBVIOUS

\* Slices of a sequence, and when two are the same.
LEMMA SliceIs ==
  ASSUME NEW E, NEW s \in Seq(E), NEW a \in Nat, NEW b \in Nat, 1 <= a, a <= b, b <= Len(s)
  PROVE  /\ SubSeq(s, a, b) \in Seq(E) /\ Len(SubSeq(s, a, b)) = b - a + 1
         /\ \A i \in 1..(b - a + 1) : SubSeq(s, a, b)[i] = s[a + i - 1]
OBVIOUS

\* Sequences of the same elements are the same.
LEMMA SameSeq ==
  ASSUME NEW E, NEW s \in Seq(E), NEW t \in Seq(E), Len(s) = Len(t),
         \A i \in 1..Len(s) : s[i] = t[i]
  PROVE  s = t
OBVIOUS

\* A sequence of one element.
LEMMA OneIs ==
  ASSUME NEW E, NEW s \in Seq(E), s # << >>, Len(s) <= 1
  PROVE  << >> \o << s[1] >> = s
<1>1. Len(s) = 1 /\ s[1] \in E
  <2>1. Len(s) \in Nat /\ Len(s) >= 1 /\ s[1] \in E
    BY SeqFacts
  <2> DEFINE n == Len(s)
  <2>2. n \in Nat /\ n >= 1 /\ n <= 1
    BY <2>1
  <2> HIDE DEF n
  <2>3. n = 1
    BY <2>2
  <2> QED BY <2>1, <2>3 DEF n
<1>2. << >> \o << s[1] >> = << s[1] >>
  OBVIOUS
<1>3. << s[1] >> \in Seq(E) /\ Len(<< s[1] >>) = 1 /\ << s[1] >>[1] = s[1]
  BY <1>1
<1>4. << s[1] >> = s
  BY <1>1, <1>3, SameSeq
<1> QED BY <1>2, <1>4

\* A sequence of two.
LEMMA TwoIs ==
  ASSUME NEW E, NEW a \in E, NEW b \in E
  PROVE  <<a, b>> \in Seq(E) /\ Len(<<a, b>>) = 2 /\ <<a, b>>[1] = a /\ <<a, b>>[2] = b
OBVIOUS

\* The remainder is what is left of the right multiple.
LEMMA RemainderIs ==
  ASSUME NEW x \in Int, NEW n \in Nat, n > 0, NEW k \in Int,
         0 <= x - k * n, x - k * n < n
  PROVE  x % n = x - k * n
<1> DEFINE q == x \div n
           r == x % n
<1>1. q \in Int /\ r \in Int /\ 0 <= r /\ r < n /\ x = q * n + r
  BY Z3
<1> HIDE DEF q, r
<1>2. (q - k) * n = q * n - k * n /\ q * n \in Int /\ k * n \in Int /\ q - k \in Int
  BY <1>1
<1>3. CASE q > k
  <2>1. (q - k) * n >= n
    BY <1>1, <1>3
  <2> QED BY <1>1, <1>2, <2>1
<1>4. CASE q < k
  <2>1. (q - k) * n <= -n
    BY <1>1, <1>4
  <2> QED BY <1>1, <1>2, <2>1
<1>5. CASE q = k
  BY <1>1, <1>5 DEF r
<1> QED BY <1>1, <1>3, <1>4, <1>5

\* Quotient and remainder are the digits of a number.
LEMMA QuotientIs ==
  ASSUME NEW x \in Nat, NEW n \in Nat, n > 0, x < n * n
  PROVE  /\ x \div n \in 0..(n - 1) /\ x % n \in 0..(n - 1)
         /\ (x \div n) * n + (x % n) = x
<1> DEFINE q == x \div n
           r == x % n
<1>1. q \in Int /\ r \in Int /\ 0 <= r /\ r < n /\ x = q * n + r
  BY Z3
<1> HIDE DEF q, r
<1>2. q * n \in Int /\ n * n \in Int /\ (q - n) * n = q * n - n * n /\ q - n \in Int
  BY <1>1
<1>3. q < n
  <2> SUFFICES ASSUME q >= n PROVE FALSE
    BY <1>1
  <2>1. (q - n) * n >= 0
    BY <1>1
  <2> QED BY <1>1, <1>2, <2>1
<1>4. q >= 0
  <2> SUFFICES ASSUME q <= -1 PROVE FALSE
    BY <1>1
  <2>1. q * n <= -n
    BY <1>1
  <2> QED BY <1>1, <1>2, <2>1
<1> QED BY <1>1, <1>3, <1>4 DEF q, r

\* Every set of numbers that is not empty has a least element.
LEMMA LeastIs ==
  ASSUME NEW T \in SUBSET Nat, T # {}
  PROVE  \E i \in T : \A j \in T : i <= j
<1>1. PICK i \in T : \A j \in T : ~ (<<j, i>> \in OpToRel(<, Nat))
  BY NatLessThanWellFounded, WFMin, Zenon
<1>2. \A j \in T : ~ (j < i)
  BY <1>1 DEF OpToRel
<1> QED BY <1>2

\* Induction, on a set.
LEMMA Induct ==
  ASSUME NEW E, 0 \in E, \A n \in Nat : n \in E => n + 1 \in E
  PROVE  Nat \subseteq E
<1> DEFINE T == Nat \ E
<1> SUFFICES ASSUME T # {} PROVE FALSE
  OBVIOUS
<1>1. PICK i \in T : \A j \in T : i <= j
  BY LeastIs
<1>2. i # 0 /\ i - 1 \in Nat
  BY <1>1
<1>3. i - 1 \in E
  BY <1>1, <1>2
<1> QED BY <1>1, <1>2, <1>3

-----------------------------------------------------------------------------
\* The ids are more than those that can be under way.
LEMMA LinkConstants ==
  /\ IdMod \in Nat /\ LineCap \in Nat \ {0} /\ MaxAttempts \in Nat
  /\ IdMod > 2 * (LineCap + MaxAttempts) + 1
BY LinesConstantsOK DEF J!LinkConstantsOK

\* The age of the id i when l is the last one: Age of JaviatorLink.
AgeTo(l, i) == (l - i) % IdMod

\* The age of an id without the remainder.
LEMMA AgeIs ==
  ASSUME NEW l \in J!Ids, NEW i \in J!Ids
  PROVE  /\ AgeTo(l, i) = IF i <= l THEN l - i ELSE l - i + IdMod
         /\ AgeTo(l, i) \in 0..(IdMod - 1)
<1>1. /\ IdMod \in Nat /\ IdMod > 0 /\ l \in Int /\ i \in Int
      /\ 0 <= l /\ l < IdMod /\ 0 <= i /\ i < IdMod
  BY LinkConstants DEF J!Ids
<1>2. CASE i <= l
  BY <1>1, <1>2, RemainderIs DEF AgeTo
<1>3. CASE i > l
  <2>1. (l - i) - (-1) * IdMod = l - i + IdMod
    BY <1>1
  <2> QED BY <1>1, <1>3, <2>1, RemainderIs DEF AgeTo
<1> QED BY <1>1, <1>2, <1>3

\* The next id, without the remainder.
LEMMA NextIdIs ==
  ASSUME NEW l \in J!Ids
  PROVE  /\ (l + 1) % IdMod = IF l + 1 = IdMod THEN 0 ELSE l + 1
         /\ (l + 1) % IdMod \in J!Ids
BY LinkConstants DEF J!Ids

\* A packet more makes every id older by one, as long as none is as old as there
\* are ids; the new one has age 0.
LEMMA AgeAfterSend ==
  ASSUME NEW l \in J!Ids, NEW m \in J!Ids, m = (l + 1) % IdMod
  PROVE  /\ AgeTo(m, m) = 0
         /\ \A i \in J!Ids : AgeTo(l, i) < IdMod - 1 => AgeTo(m, i) = AgeTo(l, i) + 1
<1>1. m = IF l + 1 = IdMod THEN 0 ELSE l + 1
  BY NextIdIs
<1>2. AgeTo(m, m) = m - m
  BY AgeIs DEF J!Ids
<1>3. ASSUME NEW i \in J!Ids, AgeTo(l, i) < IdMod - 1
      PROVE  AgeTo(m, i) = AgeTo(l, i) + 1
  <2>1. /\ AgeTo(l, i) = IF i <= l THEN l - i ELSE l - i + IdMod
        /\ AgeTo(m, i) = IF i <= m THEN m - i ELSE m - i + IdMod
    BY AgeIs
  <2> QED BY <1>1, <1>3, <2>1, LinkConstants DEF J!Ids
<1> QED BY <1>2, <1>3 DEF J!Ids

\* The answer the control loop expects has age 1.
LEMMA ExpectedIsAgeOne ==
  ASSUME NEW l \in J!Ids, NEW i \in J!Ids, AgeTo(l, i) = 1
  PROVE  (i + 1) % IdMod = l
<1>1. AgeTo(l, i) = IF i <= l THEN l - i ELSE l - i + IdMod
  BY AgeIs
<1>2. (i + 1) % IdMod = IF i + 1 = IdMod THEN 0 ELSE i + 1
  BY NextIdIs
<1> QED BY <1>1, <1>2, LinkConstants DEF J!Ids

\* Packets the Gumstix can still send before an answer that is being
\* transmitted, the answer down[i], or the next one, is taken.
SendsBeforeTx ==
  IF step = "send" THEN 1 + Len(down) + MaxAttempts
  ELSE IF step = "get" THEN IF down = << >> THEN MaxAttempts - attempts
                                            ELSE Len(down) + MaxAttempts
  ELSE 0

SendsBefore(i) == IF step = "send" THEN i ELSE IF step = "get" THEN i - 1 ELSE 0

SendsBeforeNext ==
  IF step = "send" THEN 1 + MaxAttempts
  ELSE IF step = "get" THEN MaxAttempts - attempts ELSE 0

MaxAge == 2 * LineCap + MaxAttempts

UpAges == \A k \in 1..Len(up) : AgeTo(local_id, up[k]) = Len(up) - k

TxAge ==
  answering # << >> =>
    /\ AgeTo(local_id, answering[1].id) >= Len(up)
    /\ AgeTo(local_id, answering[1].id) + SendsBeforeTx <= MaxAge

DownAges ==
  \A i \in 1..Len(down) :
    /\ AgeTo(local_id, down[i].id) >= Len(up)
    /\ AgeTo(local_id, down[i].id) + SendsBefore(i) <= MaxAge
    /\ answering # << >> => AgeTo(local_id, down[i].id) > AgeTo(local_id, answering[1].id)
    /\ \A j \in 1..Len(down) : i < j => AgeTo(local_id, down[i].id) > AgeTo(local_id, down[j].id)

DataAge ==
  /\ AgeTo(local_id, data.id) >= Len(up)
  /\ AgeTo(local_id, data.id) + SendsBeforeNext <= MaxAge + 1 + MaxAttempts
  /\ answering # << >> => AgeTo(local_id, data.id) > AgeTo(local_id, answering[1].id)
  /\ \A i \in 1..Len(down) : AgeTo(local_id, data.id) > AgeTo(local_id, down[i].id)

Undisturbed ==
  ~lost /\ ~polled /\ step # "exit" =>
    /\ Len(down) + Len(answering) + Len(up) = IF step = "send" THEN 1 ELSE 2
    /\ answering # << >> => AgeTo(local_id, answering[1].id) = Len(up)
    /\ \A i \in 1..Len(down) :
         AgeTo(local_id, down[i].id) = Len(down) - i + Len(answering) + Len(up)

LinkInv == /\ J!TypeOK
           /\ UpAges /\ TxAge /\ DownAges /\ DataAge
           /\ Undisturbed
           /\ J!WarningHasCause

\* The exchange begins in step.
LEMMA LinkInvInit == J!Init => LinkInv
<1> SUFFICES ASSUME J!Init PROVE LinkInv
  OBVIOUS
<1>1. local_id \in J!Ids /\ 0 \in J!Ids /\ 1 \in J!Ids
  BY LinkConstants DEF J!Init, J!Ids
<1>2. AgeTo(local_id, 1) = 0 /\ AgeTo(local_id, 0) = 1
  BY <1>1, AgeIs DEF J!Init
<1>3. J!TypeOK
  <2>1. data \in J!Answers /\ answering \in Seq(J!Answers) /\ down \in Seq(J!Answers)
    BY <1>1 DEF J!Init, J!Answers
  <2>2. up \in Seq(J!Ids) /\ Len(up) = 1 /\ Len(answering) = 0 /\ Len(down) = 0
    BY <1>1 DEF J!Init
  <2>3. LineCap >= 1 /\ attempts \in 0..MaxAttempts
    BY LinkConstants DEF J!Init
  <2>4. warned \in BOOLEAN /\ lost \in BOOLEAN /\ polled \in BOOLEAN /\ data_state \subseteq J!DataBits
    BY DEF J!Init
  <2>5. step \in {"send", "get", "exit"} /\ Len(up) <= LineCap /\ Len(down) <= LineCap /\ Len(answering) <= 1
    BY <2>2, <2>3, LinkConstants DEF J!Init
  <2> HIDE DEF J!Answers
  <2> QED BY <1>1, <2>1, <2>2, <2>3, <2>4, <2>5 DEF J!TypeOK
<1>4. Len(up) = 1 /\ up[1] = 1 /\ Len(down) = 0 /\ Len(answering) = 0 /\ data.id = 0
  BY DEF J!Init
<1> QED BY <1>2, <1>3, <1>4, LinkConstants
  DEF J!Init, LinkInv, UpAges, TxAge, DownAges, DataAge, Undisturbed, J!WarningHasCause,
      SendsBeforeNext, MaxAge

\* Every step keeps the types.
LEMMA LinkTypeStep == J!TypeOK /\ J!Next => J!TypeOK'
<1> SUFFICES ASSUME J!TypeOK, J!Next PROVE J!TypeOK'
  OBVIOUS
<1> USE DEF J!TypeOK, J!gumVars, J!boardVars
<1>1. J!NextId \in J!Ids
  BY NextIdIs DEF J!NextId
<1>2. CASE J!SendMotorSignals
  BY <1>1, <1>2, LinkConstants DEF J!SendMotorSignals, J!Send
<1>3. CASE J!PollAgain
  BY <1>1, <1>3, LinkConstants DEF J!PollAgain, J!Send
<1>4. CASE J!GiveUp
  BY <1>4 DEF J!GiveUp
<1>5. CASE J!TakeAnswer
  BY <1>5, LinkConstants DEF J!TakeAnswer
<1>6. CASE J!AnswerMotorSignals
  <2>1. up' \in Seq(J!Ids) /\ Len(up') = Len(up) - 1
    BY <1>6 DEF J!AnswerMotorSignals
  <2>2. Head(up) \in J!Ids /\ data_state \in SUBSET J!DataBits
    BY <1>6 DEF J!AnswerMotorSignals
  <2>3. [id |-> Head(up), new |-> data_state] \in J!Answers
    BY <2>2 DEF J!Answers
  <2>4. answering' \in Seq(J!Answers) /\ Len(answering') <= 1 /\ lost' \in BOOLEAN
    <3>1. CASE answering = << >>
      <4>1. answering' = << [id |-> Head(up), new |-> data_state] >> /\ lost' = lost
        BY <1>6, <3>1 DEF J!AnswerMotorSignals, J!Reply
      <4> QED BY <2>3, <4>1
    <3>2. CASE answering # << >>
      <4>1. answering' = answering /\ lost' = TRUE
        BY <1>6, <3>2, Zenon DEF J!AnswerMotorSignals, J!Reply
      <4> QED BY <4>1
    <3> QED BY <3>1, <3>2
  <2> QED BY <1>6, <2>1, <2>4, LinkConstants DEF J!AnswerMotorSignals
<1>7. CASE J!TransmitEnds
  <2>1. down' \in Seq(J!Answers) /\ Len(down') = Len(down) + Len(answering)
    BY <1>7 DEF J!TransmitEnds
  <2>2. Len(answering) \in Nat /\ Len(answering) <= 1 /\ Len(down) < LineCap
    BY <1>7 DEF J!TransmitEnds
  <2> QED BY <1>7, <2>1, <2>2, LinkConstants DEF J!TransmitEnds
<1>8. ASSUME NEW d \in J!DataBits, J!NewData(d) PROVE J!TypeOK'
  BY <1>8 DEF J!NewData
<1>9. CASE J!LosePacket
  BY <1>9, LinkConstants DEF J!LosePacket
<1>10. CASE J!LoseAnswer
  BY <1>10 DEF J!LoseAnswer
<1> QED BY <1>2, <1>3, <1>4, <1>5, <1>6, <1>7, <1>8, <1>9, <1>10
  DEF J!Next, J!Gumstix, J!Board

\* What the ids of a typed state are.
LEMMA LinkIds ==
  ASSUME J!TypeOK
  PROVE  /\ local_id \in J!Ids /\ data.id \in J!Ids
         /\ \A k \in 1..Len(up) : up[k] \in J!Ids
         /\ \A i \in 1..Len(down) : down[i].id \in J!Ids
         /\ answering # << >> => Len(answering) = 1 /\ answering[1].id \in J!Ids
         /\ answering = << >> => Len(answering) = 0
         /\ Len(up) \in Nat /\ Len(down) \in Nat /\ Len(answering) \in Nat
<1>1. data.id \in J!Ids /\ \A a \in J!Answers : a.id \in J!Ids
  BY DEF J!TypeOK, J!Answers
<1>2. /\ up \in Seq(J!Ids) /\ down \in Seq(J!Answers) /\ answering \in Seq(J!Answers)
      /\ Len(answering) <= 1 /\ local_id \in J!Ids
  BY DEF J!TypeOK
<1>3. \A i \in 1..Len(down) : down[i] \in J!Answers
  BY <1>2
<1>4. answering # << >> => Len(answering) = 1 /\ answering[1] \in J!Answers
  <2> SUFFICES ASSUME answering # << >>
               PROVE  Len(answering) = 1 /\ answering[1] \in J!Answers
    OBVIOUS
  <2>1. Len(answering) \in Nat /\ Len(answering) >= 1 /\ answering[1] \in J!Answers
    BY <1>2, SeqFacts
  <2>2. Len(answering) <= 1
    BY <1>2
  <2>3. Len(answering) = 1
    BY <2>1, <2>2
  <2> QED BY <2>1, <2>3
<1> QED BY <1>1, <1>2, <1>3, <1>4

\* A packet more that goes out: what is younger than a whole turn of the ids
\* becomes older by one.
LEMMA LinkSend ==
  ASSUME J!TypeOK, UpAges, J!Send
  PROVE  /\ Len(up') = Len(up) + 1
         /\ UpAges'
         /\ \A i \in J!Ids : AgeTo(local_id, i) <= 2 * (LineCap + MaxAttempts)
                               => AgeTo(local_id', i) = AgeTo(local_id, i) + 1
<1>1. local_id' = (local_id + 1) % IdMod /\ up' = Append(up, local_id') /\ Len(up) < LineCap
  BY DEF J!Send, J!NextId
<1>2. local_id \in J!Ids /\ Len(up) \in Nat /\ (\A k \in 1..Len(up) : up[k] \in J!Ids)
  BY LinkIds
<1>3. local_id' \in J!Ids
  BY <1>1, <1>2, NextIdIs
<1>4. \A i \in J!Ids : AgeTo(local_id, i) <= 2 * (LineCap + MaxAttempts)
                         => AgeTo(local_id', i) = AgeTo(local_id, i) + 1
  BY <1>1, <1>2, <1>3, AgeAfterSend, AgeIs, LinkConstants
<1>5. AgeTo(local_id', local_id') = 0
  BY <1>1, <1>2, <1>3, AgeAfterSend
<1>6. up' \in Seq(J!Ids) /\ Len(up') = Len(up) + 1 /\ up'[Len(up) + 1] = local_id'
      /\ \A k \in 1..Len(up) : up'[k] = up[k]
  BY <1>1, <1>3 DEF J!TypeOK
<1>7. UpAges'
  <2> SUFFICES ASSUME NEW k \in 1..(Len(up) + 1)
               PROVE  AgeTo(local_id', up'[k]) = Len(up) + 1 - k
    BY <1>6 DEF UpAges
  <2>1. CASE k = Len(up) + 1
    BY <1>2, <1>5, <1>6, <2>1
  <2>2. CASE k \in 1..Len(up)
    <3>1. up'[k] = up[k] /\ up[k] \in J!Ids /\ AgeTo(local_id, up[k]) = Len(up) - k
      BY <1>2, <1>6, <2>2 DEF UpAges
    <3>2. Len(up) - k <= 2 * (LineCap + MaxAttempts)
      BY <1>1, <1>2, <2>2, LinkConstants
    <3> QED BY <1>2, <1>4, <2>2, <3>1, <3>2
  <2> QED BY <1>2, <2>1, <2>2
<1> QED BY <1>4, <1>6, <1>7

\* How old answers can be at most.
LEMMA LinkAges ==
  ASSUME LinkInv
  PROVE  /\ answering # << >> => AgeTo(local_id, answering[1].id) \in 0..(2 * LineCap + MaxAttempts)
         /\ \A i \in 1..Len(down) : AgeTo(local_id, down[i].id) \in 0..(2 * LineCap + MaxAttempts)
         /\ AgeTo(local_id, data.id) \in 0..(2 * (LineCap + MaxAttempts) + 1)
<1>1. attempts \in 0..MaxAttempts /\ step \in {"send", "get", "exit"}
  BY DEF LinkInv, J!TypeOK
<1>2. SendsBeforeTx \in Nat /\ SendsBeforeNext \in Nat /\ \A i \in 1..Len(down) : SendsBefore(i) \in Nat
  BY <1>1, LinkIds, LinkConstants DEF LinkInv, SendsBeforeTx, SendsBeforeNext, SendsBefore
<1>3. local_id \in J!Ids /\ data.id \in J!Ids /\ (answering # << >> => answering[1].id \in J!Ids)
      /\ \A i \in 1..Len(down) : down[i].id \in J!Ids
  BY LinkIds DEF LinkInv
<1>4. /\ AgeTo(local_id, data.id) \in Nat
      /\ answering # << >> => AgeTo(local_id, answering[1].id) \in Nat
      /\ \A i \in 1..Len(down) : AgeTo(local_id, down[i].id) \in Nat
  BY <1>3, AgeIs, LinkConstants
<1>5. answering # << >> => AgeTo(local_id, answering[1].id) \in 0..(2 * LineCap + MaxAttempts)
  BY <1>2, <1>4, LinkConstants DEF LinkInv, TxAge, MaxAge
<1>6. \A i \in 1..Len(down) : AgeTo(local_id, down[i].id) \in 0..(2 * LineCap + MaxAttempts)
  BY <1>2, <1>4, LinkConstants DEF LinkInv, DownAges, MaxAge
<1>7. AgeTo(local_id, data.id) \in 0..(2 * (LineCap + MaxAttempts) + 1)
  BY <1>2, <1>4, LinkConstants DEF LinkInv, DataAge, MaxAge
<1> QED BY <1>5, <1>6, <1>7

\* What a packet more does to the ages of the invariant.
LEMMA LinkSendAges ==
  ASSUME LinkInv, J!Send, UNCHANGED <<data, down, answering>>
  PROVE  /\ Len(up') = Len(up) + 1 /\ UpAges'
         /\ answering # << >> =>
              AgeTo(local_id', answering[1].id) = AgeTo(local_id, answering[1].id) + 1
         /\ \A i \in 1..Len(down) : AgeTo(local_id', down[i].id) = AgeTo(local_id, down[i].id) + 1
         /\ AgeTo(local_id, data.id) <= 2 * (LineCap + MaxAttempts) =>
              AgeTo(local_id', data.id) = AgeTo(local_id, data.id) + 1
<1>1. J!TypeOK /\ UpAges
  BY DEF LinkInv
<1>2. \A n \in Int : n <= 2 * LineCap + MaxAttempts => n <= 2 * (LineCap + MaxAttempts)
  BY LinkConstants
<1>3. answering # << >> => AgeTo(local_id, answering[1].id) <= 2 * (LineCap + MaxAttempts)
  BY <1>2, LinkAges
<1>4. \A i \in 1..Len(down) : AgeTo(local_id, down[i].id) <= 2 * (LineCap + MaxAttempts)
  BY <1>2, LinkAges
<1> QED BY <1>1, <1>3, <1>4, LinkSend, LinkIds

\* The numbers of a state of the invariant.
LinkNumbers ==
  /\ Len(up) \in Nat /\ Len(down) \in Nat /\ Len(answering) \in Nat
  /\ attempts \in 0..MaxAttempts /\ step \in {"send", "get", "exit"}
  /\ answering # << >> => Len(answering) = 1 /\ AgeTo(local_id, answering[1].id) \in Nat
  /\ answering = << >> => Len(answering) = 0
  /\ down = << >> <=> Len(down) = 0
  /\ \A i \in 1..Len(down) : AgeTo(local_id, down[i].id) \in Nat
  /\ AgeTo(local_id, data.id) \in Nat

\* LinkInv, as far as it is about numbers.
LEMMA LinkInvNumbers == ASSUME LinkInv PROVE LinkNumbers
<1>1. J!TypeOK
  BY DEF LinkInv
<1>2. down \in Seq(J!Answers)
  BY <1>1 DEF J!TypeOK
<1>3. down = << >> <=> Len(down) = 0
  BY <1>2
<1>4. attempts \in 0..MaxAttempts /\ step \in {"send", "get", "exit"}
  BY <1>1 DEF J!TypeOK
<1>5. \A n \in Int : n \in 0..(2 * LineCap + MaxAttempts)
                     \/ n \in 0..(2 * (LineCap + MaxAttempts) + 1) => n \in Nat
  BY LinkConstants
<1> QED BY <1>1, <1>3, <1>4, <1>5, LinkIds, LinkAges DEF LinkNumbers

\* The parts of the invariant.
LEMMA LinkInvParts ==
  ASSUME LinkInv
  PROVE  /\ J!TypeOK /\ UpAges /\ TxAge /\ DownAges /\ DataAge /\ Undisturbed
         /\ J!WarningHasCause /\ LinkNumbers
BY LinkInvNumbers DEF LinkInv

\* javiator_port_send_motor_signals.
LEMMA SendMotorSignalsStep ==
  ASSUME LinkInv, J!SendMotorSignals PROVE LinkInv'
<1>0. TxAge /\ DownAges /\ DataAge /\ Undisturbed /\ LinkNumbers
  BY LinkInvParts
<1>1. J!TypeOK'
  BY LinkTypeStep DEF LinkInv, J!Next, J!Gumstix
<1>2. /\ step = "send" /\ step' = "get" /\ attempts' = 0 /\ J!Send
      /\ UNCHANGED <<data, warned, polled, answering, data_state, down, lost>>
  BY DEF J!SendMotorSignals, J!boardVars
<1>3. AgeTo(local_id, data.id) <= 2 * (LineCap + MaxAttempts)
  BY <1>0, <1>2, LinkConstants DEF LinkNumbers, DataAge, SendsBeforeNext, MaxAge
<1> DEFINE aTx == AgeTo(local_id, answering[1].id)
           bTx == AgeTo(local_id', answering[1].id)
           aDown(i) == AgeTo(local_id, down[i].id)
           bDown(i) == AgeTo(local_id', down[i].id)
           aData == AgeTo(local_id, data.id)
           bData == AgeTo(local_id', data.id)
<1>4. /\ Len(up') = Len(up) + 1 /\ UpAges'
      /\ answering # << >> => bTx = aTx + 1
      /\ \A i \in 1..Len(down) : bDown(i) = aDown(i) + 1
      /\ bData = aData + 1
  BY <1>2, <1>3, LinkSendAges
<1>5. TxAge'
  BY <1>0, <1>2, <1>4, LinkConstants, SMTT(30) DEF LinkNumbers, TxAge, SendsBeforeTx, MaxAge
<1>6. DownAges'
  <2> SUFFICES ASSUME NEW i \in 1..Len(down)
               PROVE  /\ bDown(i) >= Len(up')
                      /\ bDown(i) + (i - 1) <= MaxAge
                      /\ answering # << >> => bDown(i) > bTx
                      /\ \A j \in 1..Len(down) : i < j => bDown(i) > bDown(j)
    BY <1>2 DEF DownAges, SendsBefore, MaxAge
  <2>1. /\ aDown(i) >= Len(up)
        /\ aDown(i) + i <= MaxAge
        /\ answering # << >> => aDown(i) > aTx
        /\ \A j \in 1..Len(down) : i < j => aDown(i) > aDown(j)
    BY <1>0, <1>2 DEF DownAges, SendsBefore
  <2> QED BY <1>0, <1>4, <2>1, LinkConstants, SMTT(30) DEF LinkNumbers, MaxAge
<1>7. DataAge'
  BY <1>0, <1>2, <1>4, LinkConstants DEF LinkNumbers, DataAge, SendsBeforeNext, MaxAge
<1>8. Undisturbed'
  BY <1>0, <1>2, <1>4, LinkConstants DEF LinkNumbers, Undisturbed
<1>9. J!WarningHasCause'
  BY <1>2, LinkInvParts DEF J!WarningHasCause
<1> QED BY <1>1, <1>4, <1>5, <1>6, <1>7, <1>8, <1>9 DEF LinkInv

\* javiator_port_get_data polls again.
LEMMA PollAgainStep ==
  ASSUME LinkInv, J!PollAgain PROVE LinkInv'
<1>0. TxAge /\ DownAges /\ DataAge /\ Undisturbed /\ LinkNumbers
  BY LinkInvParts
<1>1. J!TypeOK'
  BY LinkTypeStep DEF LinkInv, J!Next, J!Gumstix
<1>2. /\ step = "get" /\ down = << >> /\ attempts < MaxAttempts /\ attempts' = attempts + 1
      /\ J!Send /\ polled' = TRUE
      /\ UNCHANGED <<step, data, warned, answering, data_state, down, lost>>
  BY DEF J!PollAgain, J!boardVars
<1>3. AgeTo(local_id, data.id) <= 2 * (LineCap + MaxAttempts)
  <2> DEFINE a == AgeTo(local_id, data.id)
  <2>1. a \in Nat /\ a + (MaxAttempts - attempts) <= 2 * LineCap + MaxAttempts + 1 + MaxAttempts
    BY <1>0, <1>2, Zenon DEF LinkNumbers, DataAge, SendsBeforeNext, MaxAge
  <2>2. attempts \in 0..MaxAttempts /\ attempts < MaxAttempts
    BY <1>0, <1>2 DEF LinkNumbers
  <2> HIDE DEF a
  <2>3. a <= 2 * (LineCap + MaxAttempts)
    BY <2>1, <2>2, LinkConstants
  <2> QED BY <2>3 DEF a
<1> DEFINE aTx == AgeTo(local_id, answering[1].id)
           bTx == AgeTo(local_id', answering[1].id)
           aData == AgeTo(local_id, data.id)
           bData == AgeTo(local_id', data.id)
<1>4. /\ Len(up') = Len(up) + 1 /\ UpAges'
      /\ answering # << >> => bTx = aTx + 1
      /\ bData = aData + 1
  BY <1>2, <1>3, LinkSendAges
<1>5. TxAge'
  BY <1>0, <1>2, <1>4, LinkConstants, SMTT(30) DEF LinkNumbers, TxAge, SendsBeforeTx, MaxAge
<1>6. DownAges'
  BY <1>0, <1>2 DEF LinkNumbers, DownAges
<1>7. DataAge'
  BY <1>0, <1>2, <1>4, LinkConstants DEF LinkNumbers, DataAge, SendsBeforeNext, MaxAge
<1>8. Undisturbed' /\ J!WarningHasCause'
  BY <1>2 DEF Undisturbed, J!WarningHasCause
<1> QED BY <1>1, <1>4, <1>5, <1>6, <1>7, <1>8 DEF LinkInv

\* javiator_port_get_data gives up.
LEMMA GiveUpStep ==
  ASSUME LinkInv, J!GiveUp PROVE LinkInv'
<1>0. UpAges /\ TxAge /\ DownAges /\ DataAge /\ J!WarningHasCause /\ LinkNumbers
  BY LinkInvParts
<1>1. J!TypeOK'
  BY LinkTypeStep DEF LinkInv, J!Next, J!Gumstix
<1>2. /\ step = "get" /\ down = << >> /\ attempts = MaxAttempts /\ step' = "exit"
      /\ UNCHANGED <<local_id, data, warned, polled, answering, data_state, up, down, lost>>
  BY DEF J!GiveUp, J!boardVars
<1>3. TxAge' /\ DataAge'
  BY <1>0, <1>2, LinkConstants
    DEF LinkNumbers, TxAge, DataAge, SendsBeforeTx, SendsBeforeNext, MaxAge
<1>4. UpAges' /\ DownAges'
  BY <1>0, <1>2 DEF LinkNumbers, UpAges, DownAges
<1>5. Undisturbed' /\ J!WarningHasCause'
  BY <1>0, <1>2 DEF Undisturbed, J!WarningHasCause
<1> QED BY <1>1, <1>3, <1>4, <1>5 DEF LinkInv

\* javiator_port_get_data takes an answer.
LEMMA TakeAnswerStep ==
  ASSUME LinkInv, J!TakeAnswer PROVE LinkInv'
<1>0. UpAges /\ TxAge /\ DownAges /\ DataAge /\ Undisturbed /\ J!WarningHasCause /\ LinkNumbers
  BY LinkInvParts
<1>1. J!TypeOK /\ J!TypeOK'
  BY LinkTypeStep DEF LinkInv, J!Next, J!Gumstix
<1>2. /\ step = "get" /\ down # << >> /\ step' = "send"
      /\ data' = Head(down) /\ down' = Tail(down) /\ warned' = ~J!IsExpected(Head(down))
      /\ UNCHANGED <<attempts, local_id, polled, answering, data_state, up, lost>>
  BY DEF J!TakeAnswer, J!boardVars
<1>3. down \in Seq(J!Answers)
  BY <1>1 DEF J!TypeOK
<1>4. /\ Len(down') = Len(down) - 1 /\ Len(down) \in Nat \ {0}
      /\ \A i \in 1..(Len(down) - 1) : down'[i] = down[i + 1]
      /\ data' = down[1]
  BY <1>2, <1>3, TailIs
<1>5. UpAges'
  BY <1>0, <1>2 DEF UpAges
<1>6. TxAge'
  BY <1>0, <1>2, <1>4, LinkConstants DEF LinkNumbers, TxAge, SendsBeforeTx, MaxAge
<1> DEFINE aTx == AgeTo(local_id, answering[1].id)
           aDown(i) == AgeTo(local_id, down[i].id)
<1>7. \A i \in 1..Len(down) :
        /\ aDown(i) \in Nat /\ aDown(i) >= Len(up)
        /\ aDown(i) + (i - 1) <= MaxAge
        /\ answering # << >> => aDown(i) > aTx
        /\ \A j \in 1..Len(down) : i < j => aDown(i) > aDown(j)
  BY <1>0, <1>2 DEF LinkNumbers, DownAges, SendsBefore
<1>8. DownAges'
  <2> DEFINE n == Len(down) - 1
             bDown(i) == AgeTo(local_id, down'[i].id)
  <2>1. \A i \in 1..n : bDown(i) = aDown(i + 1)
    BY <1>4
  <2> SUFFICES ASSUME NEW i \in 1..n
               PROVE  /\ bDown(i) >= Len(up)
                      /\ bDown(i) + i <= MaxAge
                      /\ answering # << >> => bDown(i) > aTx
                      /\ \A j \in 1..n : i < j => bDown(i) > bDown(j)
    BY <1>2, <1>4 DEF DownAges, SendsBefore, MaxAge
  <2>2. i + 1 \in 1..Len(down) /\ (i + 1) - 1 = i
    BY <1>4
  <2>3. \A j \in 1..n : i < j => j + 1 \in 1..Len(down) /\ i + 1 < j + 1
    BY <1>4
  <2> HIDE DEF aDown, bDown, aTx
  <2> QED BY <1>7, <2>1, <2>2, <2>3
<1>9. DataAge'
  <2>1. 1 \in 1..Len(down)
    BY <1>4
  <2>2. aDown(1) \in Nat /\ aDown(1) >= Len(up) /\ aDown(1) + (1 - 1) <= MaxAge
        /\ (answering # << >> => aDown(1) > aTx)
    BY <1>7, <2>1
  <2>3. \A i \in 1..(Len(down) - 1) : aDown(1) > aDown(i + 1)
    <3> SUFFICES ASSUME NEW i \in 1..(Len(down) - 1) PROVE aDown(1) > aDown(i + 1)
      OBVIOUS
    <3>1. i + 1 \in 1..Len(down) /\ 1 < i + 1
      BY <1>4
    <3> QED BY <1>7, <2>1, <3>1
  <2>4. aDown(1) + (1 + MaxAttempts) <= MaxAge + 1 + MaxAttempts
    <3> HIDE DEF aDown
    <3> QED BY <2>2, LinkConstants DEF MaxAge
  <2> QED BY <1>2, <1>4, <2>2, <2>3, <2>4 DEF DataAge, SendsBeforeNext, MaxAge
<1>10. ASSUME ~lost, ~polled
       PROVE  /\ Len(down) + Len(answering) + Len(up) = 2
              /\ answering # << >> => aTx = Len(up)
              /\ \A i \in 1..Len(down) : aDown(i) = Len(down) - i + Len(answering) + Len(up)
  BY <1>0, <1>2, <1>10 DEF Undisturbed
<1>11. Undisturbed'
  <2> SUFFICES ASSUME ~lost, ~polled
               PROVE  /\ (Len(down) - 1) + Len(answering) + Len(up) = 1
                      /\ answering # << >> => aTx = Len(up)
                      /\ \A i \in 1..(Len(down) - 1) :
                           aDown(i + 1) = (Len(down) - 1) - i + Len(answering) + Len(up)
    BY <1>2, <1>4 DEF Undisturbed
  <2>1. (Len(down) - 1) + Len(answering) + Len(up) = 1
    BY <1>0, <1>4, <1>10 DEF LinkNumbers
  <2>2. ASSUME NEW i \in 1..(Len(down) - 1)
        PROVE  aDown(i + 1) = (Len(down) - 1) - i + Len(answering) + Len(up)
    <3>1. i + 1 \in 1..Len(down) /\ Len(down) - (i + 1) = (Len(down) - 1) - i
      BY <1>4
    <3> QED BY <1>10, <3>1
  <2> QED BY <1>10, <2>1, <2>2
<1>12. J!WarningHasCause'
  <2> SUFFICES ASSUME ~lost, ~polled PROVE J!IsExpected(Head(down))
    BY <1>2 DEF J!WarningHasCause
  <2>1. aDown(1) = Len(down) - 1 + Len(answering) + Len(up) /\ aDown(1) = 1
    <3>1. 1 \in 1..Len(down)
      BY <1>4
    <3>2. aDown(1) = Len(down) - 1 + Len(answering) + Len(up)
      BY <1>10, <3>1
    <3>3. Len(down) - 1 + Len(answering) + Len(up) = 1
      BY <1>0, <1>4, <1>10 DEF LinkNumbers
    <3> QED BY <3>2, <3>3
  <2>2. (down[1].id + 1) % IdMod = local_id
    <3>1. local_id \in J!Ids /\ down[1].id \in J!Ids
      BY <1>1, <1>4, LinkIds
    <3> QED BY <2>1, <3>1, ExpectedIsAgeOne
  <2> QED BY <1>2, <1>4, <2>2 DEF J!IsExpected
<1> QED BY <1>1, <1>5, <1>6, <1>8, <1>9, <1>11, <1>12 DEF LinkInv

\* A packet less on its way: the ages of the others are as they were.
LEMMA UpTail ==
  ASSUME LinkInv, up # << >>, up' = Tail(up), local_id' = local_id
  PROVE  /\ Len(up') = Len(up) - 1 /\ Len(up) \in Nat \ {0} /\ Len(up) <= LineCap
         /\ AgeTo(local_id, Head(up)) = Len(up) - 1
         /\ UpAges'
<1>1. UpAges /\ up \in Seq(J!Ids) /\ Len(up) <= LineCap
  BY DEF LinkInv, J!TypeOK
<1>2. /\ Len(up') = Len(up) - 1 /\ Len(up) \in Nat \ {0} /\ Head(up) = up[1]
      /\ \A i \in 1..(Len(up) - 1) : up'[i] = up[i + 1]
  BY <1>1, TailIs
<1>3. AgeTo(local_id, up[1]) = Len(up) - 1
  BY <1>1, <1>2 DEF UpAges
<1>4. ASSUME NEW k \in 1..(Len(up) - 1)
      PROVE  AgeTo(local_id, up[k + 1]) = (Len(up) - 1) - k
  <2>1. k + 1 \in 1..Len(up) /\ Len(up) - (k + 1) = (Len(up) - 1) - k
    BY <1>2
  <2> QED BY <1>1, <2>1 DEF UpAges
<1>5. UpAges'
  BY <1>2, <1>4 DEF UpAges
<1> QED BY <1>1, <1>2, <1>3, <1>5

\* Robostix 1 answers.
LEMMA AnswerMotorSignalsStep ==
  ASSUME LinkInv, J!AnswerMotorSignals PROVE LinkInv'
<1>0. TxAge /\ DownAges /\ DataAge /\ Undisturbed /\ J!WarningHasCause /\ LinkNumbers
  BY LinkInvParts
<1>1. J!TypeOK /\ J!TypeOK'
  BY LinkTypeStep DEF LinkInv, J!Next, J!Board
<1>2. /\ up # << >> /\ up' = Tail(up) /\ J!Reply
      /\ UNCHANGED <<step, attempts, local_id, data, warned, polled, down>>
  BY DEF J!AnswerMotorSignals, J!gumVars
<1>3. /\ Len(up') = Len(up) - 1 /\ Len(up) \in Nat \ {0} /\ Len(up) <= LineCap
      /\ AgeTo(local_id, Head(up)) = Len(up) - 1
      /\ UpAges'
  BY <1>2, UpTail
<1> DEFINE aTx == AgeTo(local_id, answering[1].id)
           bTx == AgeTo(local_id, answering'[1].id)
           aDown(i) == AgeTo(local_id, down[i].id)
           aData == AgeTo(local_id, data.id)
<1>4. /\ \A i \in 1..Len(down) : aDown(i) \in Nat /\ aDown(i) >= Len(up)
      /\ aData \in Nat /\ aData >= Len(up)
      /\ Len(down) \in Nat /\ Len(down) <= LineCap
  BY <1>0, <1>1 DEF LinkNumbers, DownAges, DataAge, J!TypeOK
<1>5. CASE answering = << >>
  <2>1. answering' = << [id |-> Head(up), new |-> data_state] >> /\ lost' = lost
    BY <1>2, <1>5 DEF J!Reply
  <2>2. answering' # << >> /\ Len(answering') = 1 /\ bTx = Len(up) - 1
    BY <1>3, <2>1
  <2>3. TxAge'
    <3>1. SendsBeforeTx \in 0..(1 + Len(down) + MaxAttempts)
      BY <1>0, <1>4, LinkConstants DEF LinkNumbers, SendsBeforeTx
    <3>2. SendsBeforeTx' = SendsBeforeTx
      BY <1>2 DEF SendsBeforeTx
    <3>3. Len(up) - 1 + SendsBeforeTx <= MaxAge
      BY <1>3, <1>4, <3>1, LinkConstants DEF MaxAge
    <3> QED BY <1>2, <1>3, <2>2, <3>2, <3>3, LinkConstants DEF TxAge, MaxAge
  <2>4. DownAges'
    <3>1. \A i \in 1..Len(down) : aDown(i) > bTx /\ aDown(i) >= Len(up')
      <4> HIDE DEF aDown, bTx
      <4> QED BY <1>3, <1>4, <2>2
    <3> QED BY <1>0, <1>2, <3>1 DEF DownAges, SendsBefore, MaxAge
  <2>5. DataAge'
    <3>1. aData > bTx /\ aData >= Len(up')
      BY <1>3, <1>4, <2>2
    <3> QED BY <1>0, <1>2, <3>1 DEF DataAge, SendsBeforeNext, MaxAge
  <2>6. Undisturbed'
    <3> SUFFICES ASSUME ~lost, ~polled, step # "exit"
                 PROVE  /\ Len(down) + 1 + (Len(up) - 1) = IF step = "send" THEN 1 ELSE 2
                        /\ bTx = Len(up) - 1
                        /\ \A i \in 1..Len(down) :
                             aDown(i) = Len(down) - i + 1 + (Len(up) - 1)
      BY <1>2, <1>3, <2>1, <2>2 DEF Undisturbed
    <3>1. /\ Len(down) + 0 + Len(up) = IF step = "send" THEN 1 ELSE 2
          /\ \A i \in 1..Len(down) : aDown(i) = Len(down) - i + 0 + Len(up)
      BY <1>0, <1>5 DEF Undisturbed, LinkNumbers
    <3> QED BY <1>3, <1>4, <2>2, <3>1
  <2>7. J!WarningHasCause'
    BY <1>0, <1>2, <2>1 DEF J!WarningHasCause
  <2> QED BY <1>1, <1>3, <2>3, <2>4, <2>5, <2>6, <2>7 DEF LinkInv
<1>6. CASE answering # << >>
  <2>1. answering' = answering /\ lost' = TRUE
    BY <1>2, <1>6, Zenon DEF J!Reply
  <2>2. TxAge'
    BY <1>0, <1>2, <1>3, <1>6, <2>1 DEF LinkNumbers, TxAge, SendsBeforeTx, MaxAge
  <2>3. DownAges'
    <3>1. \A i \in 1..Len(down) : aDown(i) >= Len(up')
      BY <1>3, <1>4
    <3> QED BY <1>0, <1>2, <2>1, <3>1 DEF DownAges, SendsBefore, MaxAge
  <2>4. DataAge'
    <3>1. aData >= Len(up')
      BY <1>3, <1>4
    <3> QED BY <1>0, <1>2, <2>1, <3>1 DEF DataAge, SendsBeforeNext, MaxAge
  <2>5. Undisturbed' /\ J!WarningHasCause'
    BY <2>1 DEF Undisturbed, J!WarningHasCause
  <2> QED BY <1>1, <1>3, <2>2, <2>3, <2>4, <2>5 DEF LinkInv
<1> QED BY <1>5, <1>6

\* A packet is lost, or refused.
LEMMA LosePacketStep ==
  ASSUME LinkInv, J!LosePacket PROVE LinkInv'
<1>0. TxAge /\ DownAges /\ DataAge /\ LinkNumbers
  BY LinkInvParts
<1>1. J!TypeOK /\ J!TypeOK'
  BY LinkTypeStep DEF LinkInv, J!Next
<1>2. /\ up # << >> /\ up' = Tail(up) /\ lost' = TRUE
      /\ UNCHANGED <<step, attempts, local_id, data, warned, polled, answering, down>>
  BY DEF J!LosePacket, J!gumVars, J!boardVars
<1>3. /\ Len(up') = Len(up) - 1 /\ Len(up) \in Nat \ {0} /\ UpAges'
  BY <1>2, UpTail
<1>4. TxAge'
  BY <1>0, <1>2, <1>3 DEF LinkNumbers, TxAge, SendsBeforeTx, MaxAge
<1>5. DownAges'
  <2>1. \A i \in 1..Len(down) : AgeTo(local_id, down[i].id) >= Len(up')
    BY <1>0, <1>3 DEF LinkNumbers, DownAges
  <2> QED BY <1>0, <1>2, <2>1 DEF DownAges, SendsBefore, MaxAge
<1>6. DataAge'
  <2>1. AgeTo(local_id, data.id) >= Len(up')
    BY <1>0, <1>3 DEF LinkNumbers, DataAge
  <2> QED BY <1>0, <1>2, <2>1 DEF DataAge, SendsBeforeNext, MaxAge
<1>7. Undisturbed' /\ J!WarningHasCause'
  BY <1>2 DEF Undisturbed, J!WarningHasCause
<1> QED BY <1>1, <1>3, <1>4, <1>5, <1>6, <1>7 DEF LinkInv

\* An answer is lost.
LEMMA LoseAnswerStep ==
  ASSUME LinkInv, J!LoseAnswer PROVE LinkInv'
<1>0. UpAges /\ DownAges /\ DataAge
  BY LinkInvParts
<1>1. J!TypeOK'
  BY LinkTypeStep DEF LinkInv, J!Next
<1>2. /\ answering' = << >> /\ lost' = TRUE
      /\ UNCHANGED <<step, attempts, local_id, data, warned, polled, up, down>>
  BY DEF J!LoseAnswer, J!gumVars
<1>3. UpAges' /\ TxAge'
  BY <1>0, <1>2 DEF UpAges, TxAge
<1>4. DownAges' /\ DataAge'
  BY <1>0, <1>2 DEF DownAges, SendsBefore, DataAge, SendsBeforeNext, MaxAge
<1>5. Undisturbed' /\ J!WarningHasCause'
  BY <1>2 DEF Undisturbed, J!WarningHasCause
<1> QED BY <1>1, <1>3, <1>4, <1>5 DEF LinkInv

\* New sensor data on the board.
LEMMA NewDataStep ==
  ASSUME LinkInv, NEW d \in J!DataBits, J!NewData(d) PROVE LinkInv'
<1>1. J!TypeOK'
  BY LinkTypeStep DEF LinkInv, J!Next, J!Board
<1>2. UNCHANGED <<step, attempts, local_id, data, warned, polled, answering, up, down, lost>>
  BY DEF J!NewData, J!gumVars
<1> QED BY <1>1, <1>2 DEF LinkInv, UpAges, TxAge, DownAges, DataAge, Undisturbed,
                         J!WarningHasCause, SendsBeforeTx, SendsBefore, SendsBeforeNext, MaxAge

\* The last byte of an answer is out.
LEMMA TransmitEndsStep ==
  ASSUME LinkInv, J!TransmitEnds PROVE LinkInv'
<1>0. UpAges /\ TxAge /\ DownAges /\ DataAge /\ Undisturbed /\ J!WarningHasCause /\ LinkNumbers
  BY LinkInvParts
<1>1. J!TypeOK /\ J!TypeOK'
  BY LinkTypeStep DEF LinkInv, J!Next, J!Board
<1>2. /\ answering # << >> /\ down' = down \o answering /\ answering' = << >>
      /\ UNCHANGED <<step, attempts, local_id, data, warned, polled, data_state, up, lost>>
  BY DEF J!TransmitEnds, J!gumVars
<1> DEFINE n == Len(down)
           aTx == AgeTo(local_id, answering[1].id)
           aDown(i) == AgeTo(local_id, down[i].id)
           bDown(i) == AgeTo(local_id, down'[i].id)
           aData == AgeTo(local_id, data.id)
<1>3. /\ Len(down') = n + 1 /\ n \in Nat
      /\ \A i \in 1..n : bDown(i) = aDown(i)
      /\ bDown(n + 1) = aTx
      /\ Len(answering) = 1 /\ Len(answering') = 0
  <2>1. down \in Seq(J!Answers) /\ answering \in Seq(J!Answers) /\ Len(answering) = 1
    BY <1>0, <1>1, <1>2 DEF LinkNumbers, J!TypeOK
  <2>2. /\ Len(down \o answering) = n + Len(answering)
        /\ \A i \in 1..n : (down \o answering)[i] = down[i]
        /\ \A i \in 1..Len(answering) : (down \o answering)[n + i] = answering[i]
    <3> HIDE <1>0, <1>1, <1>2
    <3>1. down \in Seq(J!Answers) /\ answering \in Seq(J!Answers)
      BY <2>1
    <3> QED BY <3>1, ConcatIs
  <2>3. n \in Nat
    BY <2>1
  <2> QED BY <1>2, <2>1, <2>2, <2>3
<1>4. /\ aTx \in Nat /\ aTx >= Len(up) /\ aTx + SendsBeforeTx <= MaxAge
      /\ \A i \in 1..n : aDown(i) > aTx
      /\ aData > aTx
  BY <1>0, <1>2 DEF LinkNumbers, TxAge, DownAges, DataAge
<1>5. UpAges' /\ TxAge' /\ J!WarningHasCause'
  BY <1>0, <1>2 DEF UpAges, TxAge, J!WarningHasCause
<1>6. DownAges'
  <2>1. SendsBefore(n + 1) <= SendsBeforeTx /\ SendsBefore(n + 1) \in Nat /\ SendsBeforeTx \in Nat
    BY <1>0, <1>3, LinkConstants DEF LinkNumbers, SendsBefore, SendsBeforeTx
  <2>2. aTx + SendsBefore(n + 1) <= MaxAge
    BY <1>4, <2>1, LinkConstants DEF MaxAge
  <2>3. \A i \in 1..n :
          /\ aDown(i) >= Len(up)
          /\ aDown(i) + SendsBefore(i) <= MaxAge
          /\ \A j \in 1..n : i < j => aDown(i) > aDown(j)
    BY <1>0 DEF DownAges
  <2> SUFFICES ASSUME NEW i \in 1..(n + 1)
               PROVE  /\ bDown(i) >= Len(up)
                      /\ bDown(i) + SendsBefore(i) <= MaxAge
                      /\ \A j \in 1..(n + 1) : i < j => bDown(i) > bDown(j)
    BY <1>2, <1>3 DEF DownAges, SendsBefore, MaxAge
  <2>4. CASE i = n + 1
    <3>1. \A j \in 1..(n + 1) : ~(i < j)
      BY <1>3, <2>4
    <3> QED BY <1>3, <1>4, <2>2, <2>4, <3>1
  <2>5. CASE i \in 1..n
    <3>1. \A j \in 1..(n + 1) : i < j => bDown(i) > bDown(j)
      <4> SUFFICES ASSUME NEW j \in 1..(n + 1), i < j PROVE bDown(i) > bDown(j)
        OBVIOUS
      <4>1. CASE j = n + 1
        BY <1>3, <1>4, <2>5, <4>1
      <4>2. CASE j \in 1..n
        BY <1>3, <2>3, <2>5, <4>2
      <4>3. n \in Nat
        BY <1>3
      <4>4. j \in 1..n \/ j = n + 1
        BY <4>3
      <4> QED BY <4>1, <4>2, <4>4
    <3> QED BY <1>3, <2>3, <2>5, <3>1
  <2> QED BY <1>3, <2>4, <2>5
<1>7. DataAge'
  <2>1. \A i \in 1..(n + 1) : aData > bDown(i)
    <3> SUFFICES ASSUME NEW i \in 1..(n + 1) PROVE aData > bDown(i)
      OBVIOUS
    <3>1. CASE i = n + 1
      BY <1>3, <1>4, <3>1
    <3>2. CASE i \in 1..n
      BY <1>0, <1>3, <3>2 DEF DataAge
    <3> QED BY <1>3, <3>1, <3>2
  <2> QED BY <1>0, <1>2, <1>3, <2>1 DEF DataAge, SendsBeforeNext, MaxAge
<1>8. Undisturbed'
  <2> SUFFICES ASSUME ~lost, ~polled, step # "exit"
               PROVE  /\ (n + 1) + 0 + Len(up) = IF step = "send" THEN 1 ELSE 2
                      /\ \A i \in 1..(n + 1) : bDown(i) = (n + 1) - i + 0 + Len(up)
    BY <1>2, <1>3 DEF Undisturbed
  <2>1. /\ n + 1 + Len(up) = IF step = "send" THEN 1 ELSE 2
        /\ aTx = Len(up)
        /\ \A i \in 1..n : aDown(i) = n - i + 1 + Len(up)
    BY <1>0, <1>2, <1>3 DEF Undisturbed
  <2>2. \A i \in 1..(n + 1) : bDown(i) = (n + 1) - i + 0 + Len(up)
    <3> SUFFICES ASSUME NEW i \in 1..(n + 1) PROVE bDown(i) = (n + 1) - i + 0 + Len(up)
      OBVIOUS
    <3>1. Len(up) \in Nat
      BY <1>0 DEF LinkNumbers
    <3>2. CASE i = n + 1
      BY <1>3, <2>1, <3>1, <3>2
    <3>3. CASE i \in 1..n
      BY <1>3, <2>1, <3>1, <3>3
    <3> QED BY <1>3, <3>2, <3>3
  <2>3. (n + 1) + 0 + Len(up) = n + 1 + Len(up)
    BY <1>0, <1>3 DEF LinkNumbers
  <2> QED BY <2>1, <2>2, <2>3
<1> QED BY <1>1, <1>5, <1>6, <1>7, <1>8 DEF LinkInv

\* LinkInv is inductive.
LEMMA LinkInvStep == LinkInv /\ (J!Next \/ UNCHANGED J!vars) => LinkInv'
<1> SUFFICES ASSUME LinkInv, J!Next \/ UNCHANGED J!vars PROVE LinkInv'
  OBVIOUS
<1>1. CASE J!Next
  BY <1>1, SendMotorSignalsStep, PollAgainStep, GiveUpStep, TakeAnswerStep,
     AnswerMotorSignalsStep, TransmitEndsStep, NewDataStep, LosePacketStep, LoseAnswerStep
    DEF J!Next, J!Gumstix, J!Board
<1>2. CASE UNCHANGED J!vars
  <2>1. UNCHANGED <<step, attempts, local_id, data, warned, polled, answering, data_state, up,
                    down, lost>>
    BY <1>2 DEF J!vars, J!gumVars, J!boardVars
  <2> QED BY <2>1 DEF LinkInv, J!TypeOK, UpAges, TxAge, DownAges, DataAge, Undisturbed,
                      J!WarningHasCause, SendsBeforeTx, SendsBefore, SendsBeforeNext, MaxAge
<1> QED BY <1>1, <1>2

\* What a sequence followed by another is.
\* Everything under way, by its age: what comes later is younger.
LEMMA LinkInOrder == ASSUME LinkInv PROVE J!AnswersInOrder
<1>0. UpAges /\ TxAge /\ DownAges /\ DataAge /\ LinkNumbers /\ J!TypeOK
  BY LinkInvParts
<1> DEFINE d == Len(down)
           x == Len(answering)
           u == Len(up)
           idsDown == J!IdsOf(down)
           idsTx == J!IdsOf(answering)
           p == J!Pipeline
           a(i) == AgeTo(local_id, p[i])
<1>1. d \in Nat /\ x \in {0, 1} /\ u \in Nat
  BY <1>0 DEF LinkNumbers
<1>2. /\ idsDown \in Seq(J!Ids) /\ Len(idsDown) = d /\ \A i \in 1..d : idsDown[i] = down[i].id
      /\ idsTx \in Seq(J!Ids) /\ Len(idsTx) = x /\ \A i \in 1..x : idsTx[i] = answering[i].id
      /\ up \in Seq(J!Ids) /\ data.id \in J!Ids
  <2>1. \A i \in 1..x : answering[i].id \in J!Ids
    BY <1>0, <1>1, LinkIds
  <2>2. \A i \in 1..d : down[i].id \in J!Ids
    BY <1>0, LinkIds
  <2> QED BY <1>0, <1>1, <2>1, <2>2, LinkIds DEF J!IdsOf, J!TypeOK
<1>3. /\ Len(p) = 1 + d + x + u
      /\ p[1] = data.id
      /\ \A i \in 1..d : p[1 + i] = down[i].id
      /\ \A i \in 1..x : p[1 + d + i] = answering[i].id
      /\ \A i \in 1..u : p[1 + d + x + i] = up[i]
  <2> DEFINE first == << data.id >>
             two == first \o idsDown
             three == two \o idsTx
  <2>1. first \in Seq(J!Ids) /\ Len(first) = 1 /\ first[1] = data.id
    BY <1>2
  <2> HIDE DEF idsDown, idsTx, first
  <2>2. /\ two \in Seq(J!Ids) /\ Len(two) = 1 + d
        /\ two[1] = data.id /\ \A i \in 1..d : two[1 + i] = down[i].id
    BY <1>1, <1>2, <2>1, ConcatIs, SMTT(30)
  <2> HIDE DEF two
  <2>3. /\ three \in Seq(J!Ids) /\ Len(three) = 1 + d + x
        /\ \A i \in 1..(1 + d) : three[i] = two[i]
        /\ \A i \in 1..x : three[1 + d + i] = answering[i].id
    <3>0. two \in Seq(J!Ids) /\ idsTx \in Seq(J!Ids)
      BY <1>2, <2>2
    <3>1. /\ three \in Seq(J!Ids) /\ Len(three) = Len(two) + Len(idsTx)
          /\ \A i \in 1..Len(two) : three[i] = two[i]
          /\ \A i \in 1..Len(idsTx) : three[Len(two) + i] = idsTx[i]
      BY <3>0, ConcatIs
    <3> HIDE DEF three
    <3> QED BY <1>1, <1>2, <2>2, <3>1
  <2> HIDE DEF three
  <2>4. p = three \o up
    BY DEF J!Pipeline, three, two, first, idsDown, idsTx
  <2>5. /\ Len(p) = 1 + d + x + u
        /\ \A i \in 1..(1 + d + x) : p[i] = three[i]
        /\ \A i \in 1..u : p[1 + d + x + i] = up[i]
    <3>0. three \in Seq(J!Ids) /\ up \in Seq(J!Ids)
      BY <1>2, <2>3
    <3>1. /\ Len(three \o up) = Len(three) + Len(up)
          /\ \A i \in 1..Len(three) : (three \o up)[i] = three[i]
          /\ \A i \in 1..Len(up) : (three \o up)[Len(three) + i] = up[i]
      BY <3>0, ConcatIs
    <3> HIDE DEF p
    <3> QED BY <1>1, <2>3, <2>4, <3>1
  <2> HIDE DEF p
  <2>6. p[1] = data.id
    BY <1>1, <2>2, <2>3, <2>5
  <2>7. \A i \in 1..d : p[1 + i] = down[i].id
    <3>1. \A i \in 1..d : 1 + i \in 1..(1 + d) /\ 1 + i \in 1..(1 + d + x)
      BY <1>1
    <3> QED BY <2>2, <2>3, <2>5, <3>1
  <2>8. \A i \in 1..x : p[1 + d + i] = answering[i].id
    <3>1. \A i \in 1..x : 1 + d + i \in 1..(1 + d + x)
      BY <1>1
    <3> QED BY <2>3, <2>5, <3>1
  <2> QED BY <2>5, <2>6, <2>7, <2>8
<1> DEFINE aData == AgeTo(local_id, data.id)
           aDown(i) == AgeTo(local_id, down[i].id)
           aTx == AgeTo(local_id, answering[1].id)
<1>4. /\ a(1) = aData
      /\ \A i \in 2..(1 + d) : i - 1 \in 1..d /\ a(i) = aDown(i - 1)
      /\ x = 1 => a(1 + d + 1) = aTx
      /\ \A i \in (2 + d + x)..(1 + d + x + u) : a(i) = u - (i - 1 - d - x)
  <2> HIDE DEF p
  <2>1. \A i \in 2..(1 + d) : i - 1 \in 1..d /\ 1 + (i - 1) = i
    BY <1>1
  <2>2. \A i \in (2 + d + x)..(1 + d + x + u) :
          i - 1 - d - x \in 1..u /\ 1 + d + x + (i - 1 - d - x) = i
    BY <1>1
  <2>3. \A i \in 2..(1 + d) : i - 1 \in 1..d /\ a(i) = aDown(i - 1)
    BY <1>3, <2>1
  <2>4. x = 1 => a(1 + d + 1) = aTx
    BY <1>3
  <2>5. \A i \in (2 + d + x)..(1 + d + x + u) : a(i) = u - (i - 1 - d - x)
    <3> SUFFICES ASSUME NEW i \in (2 + d + x)..(1 + d + x + u)
                 PROVE  a(i) = u - (i - 1 - d - x)
      OBVIOUS
    <3> DEFINE k == i - 1 - d - x
    <3>1. k \in 1..u /\ 1 + d + x + k = i
      BY <2>2
    <3> HIDE DEF k
    <3>2. p[i] = up[k]
      BY <1>3, <3>1
    <3>3. a(i) = u - k
      BY <1>0, <3>1, <3>2 DEF UpAges
    <3> QED BY <3>3 DEF k
  <2> QED BY <1>3, <2>3, <2>4, <2>5
<1>5. /\ aData \in Nat /\ aData >= u
      /\ \A i \in 1..d : /\ aDown(i) \in Nat /\ aDown(i) >= u /\ aData > aDown(i)
                         /\ x = 1 => aDown(i) > aTx
                         /\ \A j \in 1..d : i < j => aDown(i) > aDown(j)
      /\ x = 1 => aTx \in Nat /\ aTx >= u /\ aData > aTx
  BY <1>0 DEF LinkNumbers, TxAge, DownAges, DataAge
<1>6. ASSUME NEW i \in 1..(1 + d + x + u), NEW j \in 1..(1 + d + x + u), i < j
      PROVE  a(i) > a(j)
  <2> HIDE DEF a, aData, aDown, aTx, d, x, u
  <2>1. CASE j \in 2..(1 + d)
    <3>1. i = 1 \/ i \in 2..(1 + d)
      BY <1>1, <1>6, <2>1
    <3>2. i \in 2..(1 + d) => i - 1 < j - 1
      BY <1>1, <1>6, <2>1
    <3> QED BY <1>4, <1>5, <2>1, <3>1, <3>2
  <2>2. CASE x = 1 /\ j = 1 + d + 1
    <3>1. i = 1 \/ i \in 2..(1 + d)
      BY <1>1, <1>6, <2>2
    <3> QED BY <1>4, <1>5, <2>2, <3>1
  <2>3. CASE j \in (2 + d + x)..(1 + d + x + u)
    <3>1. a(j) = u - (j - 1 - d - x) /\ j - 1 - d - x >= 1
      BY <1>1, <1>4, <2>3
    <3>2. \/ i = 1
          \/ i \in 2..(1 + d)
          \/ x = 1 /\ i = 1 + d + 1
          \/ i \in (2 + d + x)..(1 + d + x + u) /\ i - 1 - d - x < j - 1 - d - x
      BY <1>1, <1>6, <2>3
    <3>3. a(j) < u
      BY <1>1, <2>3, <3>1
    <3>4. CASE i \in (2 + d + x)..(1 + d + x + u)
      <4>1. a(i) = u - (i - 1 - d - x)
        BY <1>4, <3>4
      <4> QED BY <1>1, <1>6, <2>3, <3>1, <3>4, <4>1
    <3>5. CASE ~(i \in (2 + d + x)..(1 + d + x + u))
      <4>1. a(i) \in Nat /\ a(i) >= u
        BY <1>4, <1>5, <3>2, <3>5
      <4> QED BY <1>1, <2>3, <3>1, <3>3, <4>1
    <3> QED BY <3>4, <3>5
  <2>4. \/ j \in 2..(1 + d)
        \/ x = 1 /\ j = 1 + d + 1
        \/ j \in (2 + d + x)..(1 + d + x + u)
    BY <1>1, <1>6
  <2> QED BY <2>1, <2>2, <2>3, <2>4
<1> QED BY <1>3, <1>6 DEF J!AnswersInOrder, J!Age, AgeTo
=============================================================================
