---------------------------- MODULE Lines_proofs ----------------------------
(*****************************************************************************)
(* The SPI line (SpiLink) and the buffers of its channel (SpiBuffers), for   *)
(* every size of packets and every number of buffers, and then the           *)
(* properties of MCLines as theorems, from the invariants of its five        *)
(* parts.                                                                    *)
(*                                                                           *)
(* SpiInv follows the packets of master and slave byte by byte. BuffersInv   *)
(* says where each buffer is and, as long as no read failed, that what       *)
(* waits are whole packets, one of each type and newer than what was         *)
(* received.                                                                 *)
(*****************************************************************************)
EXTENDS Framing_proofs, FiniteSetTheorems

-----------------------------------------------------------------------------
(* The SPI line *)

HeaderOrWhole(index, whole) == IF index < 4 THEN SpiOverhead ELSE whole

\* Where the index of a receiver can be while it awaits items and while it does not.
MasterTypes ==
  /\ m_rx_items # 0 => m_transmits /\ m_rx_index \in 1..(m_rx_items - 1)
  /\ m_rx_items = 0 =>
       \/ m_rx_index = 0
       \/ m_rx_index >= SpiOverhead /\ m_rx_index <= m_tx_index /\ m_transmits
  /\ m_rx_index <= m_tx_index \/ m_tx_index = MasterSize
  /\ m_rx_items = 0 /\ m_transmits => m_tx_index < MasterSize
  /\ m_number > 0 /\ ~m_transmits => m_tx_index = MasterSize

SlaveTypes ==
  /\ s_rx_items = 0 => s_rx_index = 0
  /\ s_tx_items = 0 => s_tx_index = 0
  /\ s_tx_items # 0 => s_number > 0
  /\ m_number = 0 => ~spi_if /\ ~m_transmits /\ m_tx_index = 0

\* The slave has taken the first k items of the master's packet.
Received(k) ==
  /\ k = 0 => s_rx_index = 0 /\ s_rx_items = 0
  /\ k \in 1..(MasterSize - 1) =>
       /\ s_rx_index = k /\ s_rx_items = HeaderOrWhole(k, MasterSize)
       /\ k >= 3 => S!Holds(s_rx_buf, m_number, k)
  /\ k = MasterSize =>
       /\ s_rx_index = 0 /\ s_rx_items = 0
       /\ \/ ~s_new_data /\ taken = m_number
          \/ s_new_data /\ S!Holds(s_rx_buf, m_number, MasterSize)

\* The items of the master's packet that the slave has taken when it is in step.
SlaveInStep ==
  inStep /\ m_number > 0 =>
    /\ ~spi_if => Received(m_tx_index)
    /\ spi_if => \/ /\ m_tx_index >= 1 /\ spi_rx = S!Item(m_number, m_tx_index)
                    /\ Received(m_tx_index - 1)
                 \/ /\ m_tx_index = MasterSize /\ spi_rx = S!Null
                    /\ Received(MasterSize)

\* Where the slave is in the master's packet, or in the one before it, as long as
\* it polled every byte in time; it may still have to poll the last byte of a
\* packet when the next one begins.
SlaveAt(k) ==
  /\ k \in {0, MasterSize} => s_rx_index = 0 /\ s_rx_items = 0
  /\ k \in 1..(MasterSize - 1) =>
       s_rx_index = k /\ s_rx_items = HeaderOrWhole(k, MasterSize)

SlaveInTime ==
  /\ ~spi_if => SlaveAt(m_tx_index)
  /\ spi_if =>
       \/ m_tx_index \in {0, MasterSize} /\ spi_rx = S!Null /\ SlaveAt(0)
       \/ \E n \in 0..MaxPackets, k \in 0..(MasterSize - 1) :
            /\ spi_rx = S!Item(n, k + 1) /\ SlaveAt(k)
            /\ m_tx_index = k + 1 \/ (m_tx_index = 0 /\ k + 1 = MasterSize)

\* The slave's packet of which the last item was given to the interrupt handler,
\* or would be if there were one.
LastOf == IF s_tx_items # 0 /\ s_tx_index = 0 THEN s_number - 1 ELSE s_number

Begun == IF ~spi_if /\ spi_tx.place = 1 THEN LastOf - 1 ELSE LastOf

GotSoFar == IF m_rx_items # 0 \/ spdr.place = 1 THEN Begun - 1 ELSE Begun

\* The items of the slave in their order.
Follows(x, y) ==
  \/ x = S!Null /\ (y = S!Null \/ y.place = 1)
  \/ /\ x # S!Null /\ x.place < SlaveSize /\ y = S!Item(x.number, x.place + 1)
  \/ /\ x # S!Null /\ x.place = SlaveSize /\ (y = S!Null \/ y = S!Item(x.number + 1, 1))

Stream ==
  /\ s_tx_index > 0 => spi_tx = S!Item(s_number, s_tx_index)
  /\ s_tx_index = 0 => spi_tx = S!Null \/ spi_tx = S!Item(LastOf, SlaveSize)
  /\ spi_tx # S!Null => spi_tx.number > 0
  /\ spi_if => spdr = spi_tx
  /\ ~spi_if => Follows(spdr, spi_tx)
  /\ spdr # S!Null => spdr.number > 0 /\ spdr.number = Begun /\ spdr.place \in 1..SlaveSize

MasterInStep ==
  /\ m_rx_items # 0 =>
       /\ \E n \in 1..MaxPackets : /\ spdr = S!Item(n, m_rx_index + 1)
                                   /\ S!Holds(m_rx_buf, n, m_rx_index)
       /\ m_rx_items = HeaderOrWhole(m_rx_index, SlaveSize)
  /\ m_rx_items = 0 => m_rx_index = 0 /\ (spdr = S!Null \/ spdr.place = 1)
  /\ got = GotSoFar
  /\ m_new_data =>
       /\ ~m_transmits
       /\ m_rx_buf[1] = S!Null \/ S!Holds(m_rx_buf, m_rx_buf[1].number, SlaveSize)

SpiInv ==
  /\ S!TypeOK /\ MasterTypes /\ SlaveTypes
  /\ SlaveInStep
  /\ late = 0 => Stream /\ MasterInStep /\ SlaveInTime

\* What is assumed of the constants of the SPI line.
LEMMA SpiConstants ==
  /\ SpiOverhead \in Nat /\ SpiOverhead >= 6
  /\ SpiBufSize \in Nat /\ MaxPackets \in Nat /\ MaxLate \in Nat
  /\ MasterSize \in SpiOverhead..SpiBufSize /\ SlaveSize \in SpiOverhead..SpiBufSize
  /\ MasterSize <= SlaveSize
BY LinesConstantsOK DEF S!SpiLinkConstantsOK

\* An item.
LEMMA ItemIs ==
  ASSUME NEW n \in Int, NEW i \in Int
  PROVE  /\ S!Item(n, i).number = n /\ S!Item(n, i).place = i
         /\ n \in 0..MaxPackets /\ i \in 0..SpiBufSize => S!Item(n, i) \in S!Items
BY DEF S!Item, S!Items

\* Every item is one.
LEMMA ItemOf ==
  ASSUME NEW x \in S!Items
  PROVE  /\ x.number \in 0..MaxPackets /\ x.place \in 0..SpiBufSize
         /\ x = S!Item(x.number, x.place)
BY DEF S!Item, S!Items

\* The item that is none.
LEMMA NullIs == S!Null \in S!Items /\ S!Null.number = 0 /\ S!Null.place = 0
BY SpiConstants, ItemIs DEF S!Null

\* The type invariant, variable by variable.
SpiTypes ==
  /\ m_number \in 0..MaxPackets /\ s_number \in 0..MaxPackets
  /\ taken \in 0..MaxPackets /\ got \in 0..MaxPackets
  /\ m_transmits \in BOOLEAN /\ m_new_data \in BOOLEAN /\ s_new_data \in BOOLEAN
  /\ spi_if \in BOOLEAN /\ inStep \in BOOLEAN
  /\ m_tx_index \in 0..MasterSize
  /\ spdr \in S!Items /\ spi_rx \in S!Items /\ spi_tx \in S!Items
  /\ m_rx_buf \in [1..SpiBufSize -> S!Items] /\ s_rx_buf \in [1..SpiBufSize -> S!Items]
  /\ m_rx_items \in {0} \cup (SpiOverhead..SpiBufSize)
  /\ s_rx_items \in 0..SpiBufSize
  /\ m_rx_index \in 0..(SpiBufSize - 1) /\ s_rx_index \in 0..SpiBufSize
  /\ s_tx_items \in {0, SlaveSize} /\ s_tx_index \in 0..(SlaveSize - 1)
  /\ late \in 0..MaxLate

\* It is that of the module.
LEMMA SpiTypesAre == S!TypeOK <=> SpiTypes
BY Zenon DEF S!TypeOK, SpiTypes

\* The SPI line begins in step.
LEMMA SpiInit == S!Init => SpiInv
<1> SUFFICES ASSUME S!Init PROVE SpiInv
  OBVIOUS
<1>1. S!Blank \in [1..SpiBufSize -> S!Items]
  BY NullIs DEF S!Blank
<1>2. S!TypeOK
  <2>1. /\ {0} \subseteq 0..MaxPackets \cap 0..MasterSize \cap 0..(SpiBufSize - 1) \cap 0..SpiBufSize
        /\ {0} \subseteq 0..(SlaveSize - 1) \cap 0..MaxLate
    BY SpiConstants
  <2> QED BY <1>1, <2>1, NullIs, SpiTypesAre, Zenon DEF S!Init, SpiTypes
<1>3. MasterTypes /\ SlaveTypes /\ SlaveInStep
  BY SpiConstants DEF S!Init, MasterTypes, SlaveTypes, SlaveInStep
<1>4. Stream /\ MasterInStep
  BY NullIs DEF S!Init, Stream, MasterInStep, Follows, Begun, LastOf, GotSoFar
<1>5. SlaveInTime
  BY SpiConstants DEF S!Init, SlaveInTime, SlaveAt
<1> QED BY <1>2, <1>3, <1>4, <1>5 DEF SpiInv

\* What a receiver that looked at an item awaits: an index stays inside what is awaited.
Index(k, items) ==
  /\ items # 0 => k \in 1..(items - 1)
  /\ items = 0 => k = 0 \/ k >= SpiOverhead

\* How many items a receiver awaits.
LEMMA TotalsAre ==
  ASSUME NEW x \in S!Items
  PROVE  /\ S!MasterTotals(x) \subseteq {0} \cup (SpiOverhead..SpiBufSize)
         /\ S!SlaveTotals(x) \subseteq 0..SpiBufSize
         /\ x.place = 4 => /\ S!MasterTotals(x) = {SlaveSize}
                           /\ S!SlaveTotals(x) = {MasterSize}
<1>1. x = S!Null => x.place = 0
  BY NullIs
<1>2. CASE x.place = 4
  BY <1>1, <1>2, SpiConstants DEF S!MasterTotals, S!SlaveTotals, S!IsMark
<1>3. CASE x.place # 4
  BY <1>1, <1>3, SpiConstants DEF S!MasterTotals, S!SlaveTotals, S!IsMark
<1> QED BY <1>2, <1>3

\* What awaiting an item tells.
LEMMA AwaitedIs ==
  ASSUME NEW x, NEW k \in 0..(SpiBufSize - 1), NEW items \in {0} \cup (SpiOverhead..SpiBufSize),
         NEW total \in {0} \cup (SpiOverhead..SpiBufSize), NEW A, NEW N,
         Index(k, items), A = S!Awaited(x, k, items, total), N = S!NextIndex(k, A)
  PROVE  /\ A \in {0} \cup (SpiOverhead..SpiBufSize)
         /\ A # 0 => N = k + 1 /\ N \in 1..A
         /\ A = 0 => N = 0 \/ (N = k /\ items = 0 /\ k >= SpiOverhead)
<1>1. A \in {0} \cup (SpiOverhead..SpiBufSize)
  BY SpiConstants DEF S!Awaited
<1>2. CASE A # 0
  <2>1. A > 0 /\ N = k + 1
    BY <1>1, <1>2, SpiConstants DEF S!NextIndex
  <2>2. k + 1 <= A
    BY <1>2, SpiConstants DEF S!Awaited, Index
  <2> QED BY <1>1, <1>2, <2>1, <2>2
<1>3. CASE A = 0
  <2>1. N = IF k \in {1, 3} THEN 0 ELSE k
    BY <1>3 DEF S!NextIndex
  <2>2. k = 0 \/ k \in {1, 3} \/ (items = 0 /\ k >= SpiOverhead)
    BY <1>3, SpiConstants DEF S!Awaited, Index
  <2> QED BY <1>1, <1>3, <2>1, <2>2
<1> QED BY <1>1, <1>2, <1>3

\* The items of a packet in their order are taken one by one.
LEMMA InSequence ==
  ASSUME NEW full \in SpiOverhead..SpiBufSize, NEW n \in 0..MaxPackets, NEW k \in 0..(full - 1),
         NEW total, k = 3 => total = full, NEW items, NEW A, NEW N,
         items = IF k = 0 THEN 0 ELSE HeaderOrWhole(k, full),
         A = S!Awaited(S!Item(n, k + 1), k, items, total), N = S!NextIndex(k, A)
  PROVE  /\ A = HeaderOrWhole(k + 1, full) /\ A > 0 /\ N = k + 1
         /\ N = A <=> k + 1 = full
<1>1. S!Item(n, k + 1).place = k + 1 /\ S!Item(n, k + 1) \in S!Items
  BY SpiConstants, ItemIs
<1>2. S!IsMark(S!Item(n, k + 1)) <=> k \in {0, 1}
  BY <1>1 DEF S!IsMark
<1>4. A = HeaderOrWhole(k + 1, full)
  BY <1>2, SpiConstants DEF S!Awaited, HeaderOrWhole
<1>5. A > 0
  BY <1>4, SpiConstants DEF HeaderOrWhole
<1>6. N = k + 1
  BY <1>5 DEF S!NextIndex
<1> QED BY <1>4, <1>5, <1>6, SpiConstants DEF HeaderOrWhole

\* A step of the master's loop, item by item.
ByteClocked(total, A, N) ==
  /\ total \in S!MasterTotals(spdr)
  /\ A = S!Awaited(spdr, m_rx_index, m_rx_items, total)
  /\ N = S!NextIndex(m_rx_index, A)
  /\ m_transmits /\ (spi_if => late < MaxLate)
  /\ late' = (IF spi_if THEN late + 1 ELSE late)
  /\ inStep' = (inStep /\ ~spi_if) /\ spdr' = spi_tx /\ spi_if' = TRUE
  /\ spi_rx' = (IF m_tx_index = MasterSize THEN S!Null ELSE S!Item(m_number, m_tx_index + 1))
  /\ m_tx_index' = (IF m_tx_index = MasterSize THEN m_tx_index ELSE m_tx_index + 1)
  /\ m_rx_buf' = [m_rx_buf EXCEPT ![m_rx_index + 1] = spdr]
  /\ m_rx_items' = (IF N = A THEN 0 ELSE A)
  /\ m_new_data' = (m_tx_index' = MasterSize /\ m_rx_items' = 0)
  /\ m_transmits' = ~m_new_data'
  /\ m_rx_index' = (IF m_new_data' THEN 0 ELSE N)
  /\ got' = (IF m_new_data' /\ S!IsPacket(m_rx_buf') THEN m_rx_buf'[1].number ELSE got)
  /\ UNCHANGED <<m_number, spi_tx, s_rx_buf, s_rx_items, s_rx_index, s_new_data, taken,
                 s_number, s_tx_items, s_tx_index>>

\* ClockByte, by its parts.
LEMMA ByteClockedIs ==
  ASSUME S!ClockByte
  PROVE  \E total, A, N : ByteClocked(total, A, N)
<1>1. PICK total \in S!MasterTotals(spdr) :
        LET awaited == S!Awaited(spdr, m_rx_index, m_rx_items, total)
            index   == S!NextIndex(m_rx_index, awaited)
        IN  /\ m_rx_items' = IF index = awaited THEN 0 ELSE awaited
            /\ m_new_data' = S!EndOfTransmission(m_tx_index', m_rx_items')
            /\ m_transmits' = ~m_new_data'
            /\ m_rx_index' = IF m_new_data' THEN 0 ELSE index
  BY Zenon DEF S!ClockByte
<1> QED
  BY <1>1, Zenon
  DEF S!ClockByte, S!EndOfTransmission, S!slaveRx, S!slaveTx, ByteClocked

\* The types of the master's variables after a byte.
LEMMA ClockByteTypes ==
  ASSUME SpiTypes, MasterTypes, NEW total, NEW A, NEW N, ByteClocked(total, A, N)
  PROVE  SpiTypes' /\ MasterTypes'
<1>1. /\ A \in {0} \cup (SpiOverhead..SpiBufSize)
      /\ A # 0 => N = m_rx_index + 1 /\ N \in 1..A
      /\ A = 0 => N = 0 \/ (N = m_rx_index /\ m_rx_items = 0 /\ m_rx_index >= SpiOverhead)
  <2>1. Index(m_rx_index, m_rx_items)
    BY SpiConstants DEF SpiTypes, MasterTypes, Index
  <2>2. total \in {0} \cup (SpiOverhead..SpiBufSize)
    BY TotalsAre, SpiConstants DEF SpiTypes, ByteClocked
  <2> QED BY <2>1, <2>2, AwaitedIs DEF SpiTypes, ByteClocked
<1>2. MasterTypes'
  <2>1. /\ m_rx_index \in Nat /\ m_tx_index \in Nat /\ m_tx_index <= MasterSize
        /\ MasterSize \in Nat /\ A \in Nat /\ N \in Nat
    BY <1>1, SpiConstants DEF SpiTypes
  <2>2. /\ m_tx_index' = (IF m_tx_index = MasterSize THEN m_tx_index ELSE m_tx_index + 1)
        /\ m_rx_items' = (IF N = A THEN 0 ELSE A)
        /\ m_new_data' = (m_tx_index' = MasterSize /\ m_rx_items' = 0)
        /\ m_transmits' = ~m_new_data'
        /\ m_rx_index' = (IF m_new_data' THEN 0 ELSE N)
        /\ m_transmits
    BY Zenon DEF ByteClocked
  <2>3. /\ m_rx_index <= m_tx_index \/ m_tx_index = MasterSize
        /\ m_rx_items = 0 => m_tx_index < MasterSize
    BY <2>2, Zenon DEF MasterTypes
  <2>4. m_tx_index' \in Nat /\ m_tx_index' <= MasterSize /\ m_tx_index' >= m_tx_index
    BY <2>1, <2>2
  <2>5. m_rx_index' = 0 \/ m_rx_index' <= m_tx_index' \/ m_tx_index' = MasterSize
    BY <1>1, <2>1, <2>2, <2>3
  <2>6. m_rx_items' # 0 => m_transmits' /\ m_rx_index' \in 1..(m_rx_items' - 1)
    <3> SUFFICES ASSUME m_rx_items' # 0 PROVE m_transmits' /\ m_rx_index' \in 1..(m_rx_items' - 1)
      OBVIOUS
    <3>1. m_new_data' = FALSE /\ m_rx_items' = A /\ N # A /\ m_rx_index' = N /\ A # 0
      BY <2>2
    <3>2. N \in 1..A /\ m_transmits'
      BY <1>1, <2>2, <3>1
    <3> QED BY <2>1, <3>1, <3>2
  <2>7. m_rx_items' = 0 /\ m_transmits' => m_tx_index' < MasterSize
    <3> SUFFICES ASSUME m_rx_items' = 0, m_transmits' PROVE m_tx_index' # MasterSize
      BY <2>1, <2>4
    <3> QED BY <2>2
  <2>8. m_rx_items' = 0 =>
          \/ m_rx_index' = 0
          \/ m_rx_index' >= SpiOverhead /\ m_rx_index' <= m_tx_index' /\ m_transmits'
    <3> SUFFICES ASSUME m_rx_items' = 0, m_rx_index' # 0
                 PROVE  m_rx_index' >= SpiOverhead /\ m_rx_index' <= m_tx_index' /\ m_transmits'
      OBVIOUS
    <3>1. m_new_data' = FALSE /\ m_rx_index' = N /\ m_tx_index' # MasterSize /\ m_transmits'
      BY <2>2
    <3>2. N >= SpiOverhead
      BY <1>1, <2>2, <3>1, SpiConstants
    <3> QED BY <2>5, <3>1, <3>2
  <2>9. m_rx_index' <= m_tx_index' \/ m_tx_index' = MasterSize
    BY <2>4, <2>5
  <2>10. ~m_transmits' => m_tx_index' = MasterSize
    BY <2>2
  <2> QED BY <2>6, <2>7, <2>8, <2>9, <2>10, Zenon DEF MasterTypes
<1>3. m_rx_items' \in {0} \cup (SpiOverhead..SpiBufSize) /\ m_rx_index' \in 0..(SpiBufSize - 1)
  BY <1>1, <1>2, SpiConstants DEF SpiTypes, MasterTypes, ByteClocked
<1>4. m_tx_index' \in 0..MasterSize /\ late' \in 0..MaxLate
  BY SpiConstants DEF SpiTypes, ByteClocked
<1>5. spi_rx' \in S!Items
  BY NullIs, ItemIs, SpiConstants DEF SpiTypes, ByteClocked
<1>6. m_rx_buf' \in [1..SpiBufSize -> S!Items]
  BY DEF SpiTypes, ByteClocked
<1>7. got' \in 0..MaxPackets
  BY <1>6, ItemOf, SpiConstants DEF SpiTypes, ByteClocked
<1>8. /\ m_transmits' \in BOOLEAN /\ m_new_data' \in BOOLEAN /\ spi_if' \in BOOLEAN
      /\ inStep' \in BOOLEAN
  BY DEF ByteClocked
<1>9. /\ spdr' \in S!Items /\ spi_tx' \in S!Items /\ m_number' \in 0..MaxPackets
      /\ UNCHANGED <<s_rx_buf, s_rx_items, s_rx_index, s_new_data, taken,
                     s_number, s_tx_items, s_tx_index>>
  BY DEF SpiTypes, ByteClocked
<1> QED
  BY <1>2, <1>3, <1>4, <1>5, <1>6, <1>7, <1>8, <1>9, Zenon DEF SpiTypes

\* What the slave has taken stays, and the byte that the master sends it is the next one.
LEMMA ClockByteSlave ==
  ASSUME SpiTypes, MasterTypes, SlaveTypes, SlaveInStep,
         NEW total, NEW A, NEW N, ByteClocked(total, A, N)
  PROVE  SlaveTypes' /\ SlaveInStep'
<1>1. SlaveTypes'
  BY DEF SlaveTypes, ByteClocked, MasterTypes, SpiTypes
<1>2. \A k : Received(k) => Received(k)'
  BY DEF Received, S!Holds, ByteClocked
<1>3. ASSUME inStep', m_number' > 0 PROVE Received(m_tx_index) /\ m_number > 0
  BY <1>3 DEF SlaveInStep, ByteClocked
<1>4. SlaveInStep'
  <2> SUFFICES ASSUME inStep', m_number' > 0
               PROVE  (\/ /\ m_tx_index >= 1 /\ spi_rx = S!Item(m_number, m_tx_index)
                          /\ Received(m_tx_index - 1)
                       \/ /\ m_tx_index = MasterSize /\ spi_rx = S!Null
                          /\ Received(MasterSize))'
    BY DEF SlaveInStep, ByteClocked
  <2> PICK k : k = m_tx_index
    OBVIOUS
  <2>1. Received(k)'
    BY <1>2, <1>3
  <2>2. CASE k = MasterSize
    BY <2>1, <2>2 DEF ByteClocked
  <2>3. CASE k # MasterSize
    <3>1. m_tx_index' = k + 1 /\ m_tx_index' >= 1 /\ m_tx_index' - 1 = k
      BY <2>3, SpiConstants DEF SpiTypes, ByteClocked
    <3>2. spi_rx' = S!Item(m_number', m_tx_index')
      BY <2>3, <3>1 DEF ByteClocked
    <3>3. Received(m_tx_index - 1)'
      BY <2>1, <3>1
    <3> QED BY <3>1, <3>2, <3>3
  <2> QED BY <2>2, <2>3
<1> QED BY <1>1, <1>4

\* A slave in time has the byte before the one that the master sends.
LEMMA ClockByteInTime ==
  ASSUME SpiTypes, MasterTypes, SlaveTypes, SlaveInTime, ~spi_if,
         NEW total, NEW A, NEW N, ByteClocked(total, A, N)
  PROVE  SlaveInTime'
<1> PICK k : k = m_tx_index
  OBVIOUS
<1>1. k \in 0..MasterSize /\ m_number \in 0..MaxPackets /\ SlaveAt(k)
  BY DEF SpiTypes, SlaveInTime
<1>2. \A i : SlaveAt(i) => SlaveAt(i)'
  BY DEF SlaveAt, ByteClocked
<1>3. spi_if' = TRUE
  BY DEF ByteClocked
<1>4. CASE k = MasterSize
  <2>1. m_tx_index' = MasterSize /\ spi_rx' = S!Null
    BY <1>4 DEF ByteClocked
  <2>2. SlaveAt(0)
    BY <1>1, <1>4, SpiConstants DEF SlaveAt
  <2>3. SlaveAt(0)'
    BY <1>2, <2>2
  <2> QED BY <1>3, <2>1, <2>3 DEF SlaveInTime
<1>5. CASE k # MasterSize
  <2>1. k \in 0..(MasterSize - 1)
    BY <1>1, <1>5, SpiConstants
  <2>2. m_tx_index' = k + 1 /\ spi_rx' = S!Item(m_number, k + 1)
    BY <1>5 DEF ByteClocked
  <2>3. SlaveAt(k)'
    BY <1>1, <1>2
  <2> QED BY <1>1, <1>3, <2>1, <2>2, <2>3 DEF SlaveInTime
<1> QED BY <1>4, <1>5

\* As long as the slave is in time the bytes of its packets come in their order.
LEMMA ClockByteStream ==
  ASSUME SpiTypes, SlaveTypes, Stream, ~spi_if,
         NEW total, NEW A, NEW N, ByteClocked(total, A, N)
  PROVE  /\ Stream' /\ LastOf' = LastOf /\ Begun' = LastOf
         /\ spdr' # S!Null => spdr'.number = LastOf /\ spdr'.place \in 1..SlaveSize
         /\ spdr # S!Null =>
              \E n \in 0..MaxPackets, p \in 1..SlaveSize :
                /\ spdr = S!Item(n, p) /\ n = Begun
                /\ p < SlaveSize => spdr' = S!Item(n, p + 1) /\ LastOf = n
                /\ p = SlaveSize => IF spdr' = S!Null THEN LastOf = n
                                   ELSE spdr' = S!Item(n + 1, 1) /\ LastOf = n + 1
         /\ spdr = S!Null => IF spdr' = S!Null THEN Begun = LastOf
                            ELSE spdr'.place = 1 /\ Begun = LastOf - 1
<1>1. /\ spdr' = spi_tx /\ spi_tx' = spi_tx /\ spi_if' = TRUE
      /\ UNCHANGED <<s_number, s_tx_items, s_tx_index>>
  BY DEF ByteClocked
<1>2. LastOf' = LastOf /\ Begun' = LastOf
  BY <1>1 DEF LastOf, Begun
<1>3. LastOf \in Int
  BY DEF LastOf, SpiTypes
<1>4. spi_tx # S!Null => spi_tx.number = LastOf /\ spi_tx.place \in 1..SlaveSize
  <2>1. CASE s_tx_index > 0
    <3>1. LastOf = s_number
      BY <2>1 DEF LastOf
    <3>2. spi_tx = S!Item(s_number, s_tx_index)
      BY <2>1 DEF Stream
    <3> QED BY <2>1, <3>1, <3>2, ItemIs, SpiConstants DEF SpiTypes
  <2>2. CASE s_tx_index = 0 /\ spi_tx # S!Null
    <3>1. spi_tx = S!Item(LastOf, SlaveSize)
      BY <2>2 DEF Stream
    <3> QED BY <1>3, <3>1, ItemIs, SpiConstants
  <2> QED BY <2>1, <2>2, SpiConstants DEF SpiTypes
<1>5. Stream'
  BY <1>1, <1>2, <1>4 DEF Stream
<1>6. ASSUME spdr # S!Null
      PROVE  \E n \in 0..MaxPackets, p \in 1..SlaveSize :
                /\ spdr = S!Item(n, p) /\ n = Begun
                /\ p < SlaveSize => spdr' = S!Item(n, p + 1) /\ LastOf = n
                /\ p = SlaveSize => IF spdr' = S!Null THEN LastOf = n
                                   ELSE spdr' = S!Item(n + 1, 1) /\ LastOf = n + 1
  <2> DEFINE n == spdr.number
             p == spdr.place
  <2>1. n \in 0..MaxPackets /\ p \in 1..SlaveSize /\ spdr = S!Item(n, p) /\ n = Begun
    BY <1>6, ItemOf DEF SpiTypes, Stream
  <2>2. Follows(spdr, spi_tx)
    BY DEF Stream
  <2>3. ASSUME p < SlaveSize PROVE spdr' = S!Item(n, p + 1) /\ LastOf = n
    <3>1. spi_tx = S!Item(n, p + 1)
      BY <1>6, <2>1, <2>2, <2>3, SpiConstants DEF Follows
    <3>2. spi_tx.number = n /\ spi_tx.place = p + 1 /\ spi_tx # S!Null
      BY <2>1, <3>1, ItemIs, NullIs, SpiConstants
    <3> QED BY <1>1, <1>4, <3>1, <3>2
  <2>4. ASSUME p = SlaveSize
        PROVE  IF spdr' = S!Null THEN LastOf = n
               ELSE spdr' = S!Item(n + 1, 1) /\ LastOf = n + 1
    <3>1. spi_tx = S!Null \/ spi_tx = S!Item(n + 1, 1)
      BY <1>6, <2>1, <2>2, <2>4, SpiConstants DEF Follows
    <3>2. CASE spi_tx = S!Null
      BY <1>1, <2>1, <3>2, NullIs DEF Begun
    <3>3. CASE spi_tx = S!Item(n + 1, 1)
      <4>1. spi_tx.number = n + 1 /\ spi_tx.place = 1 /\ spi_tx # S!Null
        BY <2>1, <3>3, ItemIs, NullIs
      <4> QED BY <1>1, <1>4, <3>3, <4>1
    <3> QED BY <3>1, <3>2, <3>3
  <2> QED BY <2>1, <2>3, <2>4
<1>7. ASSUME spdr = S!Null
      PROVE  IF spdr' = S!Null THEN Begun = LastOf
             ELSE spdr'.place = 1 /\ Begun = LastOf - 1
  <2>1. spi_tx = S!Null \/ spi_tx.place = 1
    BY <1>7 DEF Stream, Follows
  <2> QED BY <1>1, <2>1, NullIs DEF Begun
<1> QED
  BY <1>1, <1>2, <1>4, <1>5, <1>6, <1>7

\* ... and the master takes them in that order.
LEMMA ClockByteMaster ==
  ASSUME SpiTypes, MasterTypes, SlaveTypes, Stream, MasterInStep, ~spi_if,
         NEW total, NEW A, NEW N, ByteClocked(total, A, N)
  PROVE  MasterInStep' /\ got' \in {got, got + 1}
<1> DEFINE k == m_rx_index
<1>1. /\ LastOf' = LastOf /\ Begun' = LastOf
      /\ spdr' # S!Null => spdr'.number = LastOf /\ spdr'.place \in 1..SlaveSize
      /\ spdr # S!Null =>
              \E n \in 0..MaxPackets, p \in 1..SlaveSize :
                /\ spdr = S!Item(n, p) /\ n = Begun
                /\ p < SlaveSize => spdr' = S!Item(n, p + 1) /\ LastOf = n
                /\ p = SlaveSize => IF spdr' = S!Null THEN LastOf = n
                                   ELSE spdr' = S!Item(n + 1, 1) /\ LastOf = n + 1
      /\ spdr = S!Null => IF spdr' = S!Null THEN Begun = LastOf
                         ELSE spdr'.place = 1 /\ Begun = LastOf - 1
  BY ClockByteStream
<1>2. /\ k \in 0..(SpiBufSize - 1)
      /\ m_rx_buf' = [m_rx_buf EXCEPT ![k + 1] = spdr]
      /\ m_rx_buf'[k + 1] = spdr
      /\ \A j \in 1..SpiBufSize : j # k + 1 => m_rx_buf'[j] = m_rx_buf[j]
  <2>1. /\ m_rx_buf' = [m_rx_buf EXCEPT ![k + 1] = spdr]
        /\ k \in 0..(SpiBufSize - 1) /\ m_rx_buf \in [1..SpiBufSize -> S!Items]
    BY Zenon DEF SpiTypes, ByteClocked
  <2> QED BY <2>1, SpiConstants
<1>3. got = GotSoFar /\ Begun \in Int /\ LastOf \in Int /\ got \in Int
  BY DEF MasterInStep, SpiTypes, Begun, LastOf
<1>4. CASE spdr = S!Null
  <2>1. m_rx_items = 0 /\ k = 0
    <3>1. m_rx_items = 0
      <4> SUFFICES ASSUME m_rx_items # 0 PROVE FALSE
        OBVIOUS
      <4>1. PICK n \in 1..MaxPackets : spdr = S!Item(n, k + 1)
        BY DEF MasterInStep
      <4> QED BY <1>2, <1>4, <4>1, ItemIs, NullIs
    <3> QED BY <3>1 DEF MasterInStep
  <2>2. A = 0 /\ N = 0
    BY <1>4, <2>1, NullIs DEF ByteClocked, S!Awaited, S!NextIndex, S!IsMark
  <2>3. m_rx_items' = 0 /\ m_rx_index' = 0
    BY <2>2 DEF ByteClocked
  <2>4. ~S!IsPacket(m_rx_buf') /\ m_rx_buf'[1] = S!Null
    BY <1>2, <1>4, <2>1, NullIs DEF S!IsPacket, S!IsMark
  <2>5. got' = got
    BY <2>4 DEF ByteClocked
  <2>6. got' = GotSoFar'
    BY <1>1, <1>3, <1>4, <2>1, <2>3, <2>5, NullIs DEF GotSoFar
  <2>7. spdr' = S!Null \/ spdr'.place = 1
    BY <1>1, <1>4
  <2>8. m_new_data' => ~m_transmits'
    BY DEF ByteClocked
  <2> QED BY <2>3, <2>4, <2>5, <2>6, <2>7, <2>8 DEF MasterInStep
<1>5. CASE spdr # S!Null
  <2>1. PICK n \in 0..MaxPackets, p \in 1..SlaveSize :
                /\ spdr = S!Item(n, p) /\ n = Begun
                /\ p < SlaveSize => spdr' = S!Item(n, p + 1) /\ LastOf = n
                /\ p = SlaveSize => IF spdr' = S!Null THEN LastOf = n
                                   ELSE spdr' = S!Item(n + 1, 1) /\ LastOf = n + 1
    BY <1>1, <1>5
  <2>2. /\ p = k + 1
        /\ m_rx_items = IF k = 0 THEN 0 ELSE HeaderOrWhole(k, SlaveSize)
        /\ S!Holds(m_rx_buf, n, k)
        /\ got = n - 1
    <3>1. spdr.number = n /\ spdr.place = p
      BY <2>1, ItemIs
    <3>2. CASE m_rx_items = 0
      <4>1. k = 0 /\ p = 1
        BY <1>5, <3>1, <3>2 DEF MasterInStep
      <4>2. got = n - 1
        BY <1>3, <2>1, <3>1, <4>1 DEF GotSoFar
      <4>3. S!Holds(m_rx_buf, n, k)
        BY <4>1 DEF S!Holds
      <4> QED BY <3>2, <4>1, <4>2, <4>3
    <3>3. CASE m_rx_items # 0
      <4>1. PICK m \in 1..MaxPackets : spdr = S!Item(m, k + 1) /\ S!Holds(m_rx_buf, m, k)
        BY <3>3 DEF MasterInStep
      <4>2. m = n /\ p = k + 1
        BY <1>2, <3>1, <4>1, ItemIs
      <4>3. k # 0 /\ m_rx_items = HeaderOrWhole(k, SlaveSize)
        BY <3>3, SpiConstants DEF MasterInStep, MasterTypes, SpiTypes
      <4>4. got = n - 1
        BY <1>3, <2>1, <3>3 DEF GotSoFar
      <4> QED BY <4>1, <4>2, <4>3, <4>4
    <3> QED BY <3>2, <3>3
  <2>3. n > 0
    <3>1. spdr.number > 0 /\ spdr.number = n
      BY <1>5, <2>1, ItemIs DEF Stream
    <3> QED BY <3>1
  <2>4. A = HeaderOrWhole(k + 1, SlaveSize) /\ A > 0 /\ N = k + 1 /\ (N = A <=> k + 1 = SlaveSize)
    <3>1. k \in 0..(SlaveSize - 1) /\ SlaveSize \in SpiOverhead..SpiBufSize
      BY <1>2, <2>2, SpiConstants
    <3>2. /\ spdr = S!Item(n, k + 1) /\ total \in S!MasterTotals(spdr)
          /\ A = S!Awaited(spdr, k, m_rx_items, total) /\ N = S!NextIndex(k, A)
      BY <2>1, <2>2 DEF ByteClocked
    <3>3. k = 3 => total = SlaveSize
      BY <1>2, <3>1, <3>2, ItemIs, TotalsAre, SpiConstants DEF SpiTypes
    <3> QED BY <2>2, <3>1, <3>2, <3>3, InSequence
  <2>5. S!Holds(m_rx_buf', n, k + 1)
    BY <1>2, <2>1, <2>2, SpiConstants DEF S!Holds
  <2>6. CASE p < SlaveSize
    <3>1. m_rx_items' # 0 /\ m_rx_items' = HeaderOrWhole(k + 1, SlaveSize)
      BY <2>2, <2>4, <2>6 DEF ByteClocked
    <3>2. m_new_data' = FALSE /\ m_rx_index' = k + 1 /\ got' = got
      BY <2>4, <3>1 DEF ByteClocked
    <3>3. spdr' = S!Item(n, m_rx_index' + 1) /\ LastOf = n
      BY <2>1, <2>2, <2>6, <3>2
    <3>4. got' = GotSoFar'
      BY <1>1, <2>2, <3>1, <3>2, <3>3 DEF GotSoFar
    <3>5. S!Holds(m_rx_buf, n, m_rx_index)'
      BY <2>5, <3>2 DEF S!Holds
    <3> QED BY <2>3, <3>1, <3>2, <3>3, <3>4, <3>5 DEF MasterInStep
  <2>7. CASE p = SlaveSize
    <3>1. m_rx_items' = 0
      BY <2>2, <2>4, <2>7 DEF ByteClocked
    <3>2. m_tx_index' = MasterSize
      BY <2>2, <2>7, SpiConstants DEF ByteClocked, MasterTypes, SpiTypes
    <3>3. m_new_data' = TRUE /\ m_transmits' = FALSE /\ m_rx_index' = 0
      BY <3>1, <3>2 DEF ByteClocked
    <3>4. m_rx_buf'[1] = S!Item(n, 1) /\ m_rx_buf'[2] = S!Item(n, 2)
      BY <2>2, <2>5, <2>7, SpiConstants DEF S!Holds
    <3>5. got' = n
      BY <3>3, <3>4, ItemIs DEF ByteClocked, S!IsPacket, S!IsMark
    <3>6. IF spdr' = S!Null THEN LastOf = n ELSE spdr' = S!Item(n + 1, 1) /\ LastOf = n + 1
      BY <2>1, <2>7
    <3>7. spdr' = S!Null \/ spdr'.place = 1
      BY <3>6, ItemIs
    <3>8. got' = GotSoFar'
      BY <1>1, <3>1, <3>5, <3>6, ItemIs, NullIs DEF GotSoFar
    <3>9. S!Holds(m_rx_buf', m_rx_buf'[1].number, SlaveSize)
      BY <2>2, <2>5, <2>7, <3>4, ItemIs
    <3>10. MasterInStep'
      BY <3>1, <3>3, <3>7, <3>8, <3>9, Zenon DEF MasterInStep
    <3>11. got' = got + 1
      BY <2>2, <3>5
    <3> QED BY <3>10, <3>11
  <2> QED BY <2>6, <2>7, SpiConstants
<1> QED BY <1>4, <1>5

\* What the slave's main loop does with a byte it polled.
Taken(total, A, N) ==
  /\ s_rx_index < SpiBufSize
  /\ total \in S!SlaveTotals(spi_rx)
  /\ A = S!Awaited(spi_rx, s_rx_index, s_rx_items, total)
  /\ N = S!NextIndex(s_rx_index, A)
  /\ s_rx_buf' = (IF s_rx_index < 2 THEN s_rx_buf
                  ELSE [s_rx_buf EXCEPT ![s_rx_index + 1] = spi_rx,
                                        ![1] = S!Item(spi_rx.number, 1),
                                        ![2] = S!Item(spi_rx.number, 2)])
  /\ s_rx_items' = (IF A > 0 /\ N = A THEN 0 ELSE A)
  /\ s_rx_index' = (IF s_rx_items' = 0 THEN 0 ELSE N)
  /\ s_new_data' = (\/ (A > 0 /\ N = A) /\ S!Holds(s_rx_buf', spi_rx.number, MasterSize)
                    \/ s_new_data /\ s_rx_index < 2)

\* What the interrupt handler takes.
LEMMA TakenIs ==
  ASSUME S!ReceiveItem
  PROVE  \E total, A, N : Taken(total, A, N)
<1>1. PICK total \in S!SlaveTotals(spi_rx) :
       LET awaited == S!Awaited(spi_rx, s_rx_index, s_rx_items, total)
           index   == S!NextIndex(s_rx_index, awaited)
           whole   == awaited > 0 /\ index = awaited
       IN  /\ s_rx_items' = IF whole THEN 0 ELSE awaited
           /\ s_rx_index' = S!IndexAfter(s_rx_items', index)
           /\ s_new_data' = \/ whole /\ S!Holds(s_rx_buf', spi_rx.number, MasterSize)
                            \/ s_new_data /\ s_rx_index < 2
  BY Zenon DEF S!ReceiveItem
<1>2. s_rx_buf' = (IF s_rx_index < 2 THEN s_rx_buf
                  ELSE [s_rx_buf EXCEPT ![s_rx_index + 1] = spi_rx,
                                        ![1] = S!Item(spi_rx.number, 1),
                                        ![2] = S!Item(spi_rx.number, 2)])
  BY Zenon DEF S!ReceiveItem
<1>3. s_rx_index < SpiBufSize
  BY Zenon DEF S!ReceiveItem
<1> QED
  BY <1>1, <1>2, <1>3, Zenon DEF S!IndexAfter, Taken

\* The types of the slave's variables after a byte.
LEMMA TakenTypes ==
  ASSUME SpiTypes, SlaveTypes, NEW total, NEW A, NEW N, Taken(total, A, N)
  PROVE  /\ s_rx_items' \in 0..SpiBufSize
         /\ s_rx_index' \in 0..SpiBufSize
         /\ s_rx_items' = 0 => s_rx_index' = 0
         /\ s_new_data' \in BOOLEAN
         /\ s_rx_buf' \in [1..SpiBufSize -> S!Items]
<1>1. total \in 0..SpiBufSize
  BY TotalsAre DEF SpiTypes, Taken
<1>2. A \in 0..SpiBufSize
  <2>1. A = S!Awaited(spi_rx, s_rx_index, s_rx_items, total)
    BY Zenon DEF Taken
  <2>2. SpiOverhead \in 0..SpiBufSize /\ s_rx_items \in 0..SpiBufSize /\ 0 \in 0..SpiBufSize
    BY SpiConstants DEF SpiTypes
  <2>3. A \in {SpiOverhead, s_rx_items, 0, total}
    BY <2>1, Zenon DEF S!Awaited
  <2> QED BY <1>1, <2>2, <2>3
<1>3. N \in 0..SpiBufSize
  BY <1>2, SpiConstants DEF SpiTypes, Taken, S!NextIndex
<1>4. /\ s_rx_items' = (IF A > 0 /\ N = A THEN 0 ELSE A)
      /\ s_rx_index' = (IF s_rx_items' = 0 THEN 0 ELSE N)
  BY DEF Taken
<1>5. /\ s_rx_items' \in 0..SpiBufSize /\ s_rx_index' \in 0..SpiBufSize
      /\ s_rx_items' = 0 => s_rx_index' = 0
  BY <1>2, <1>3, <1>4, SpiConstants
<1>6. s_rx_buf' \in [1..SpiBufSize -> S!Items]
  <2>1. /\ s_rx_buf \in [1..SpiBufSize -> S!Items] /\ spi_rx \in S!Items
        /\ s_rx_index \in 0..(SpiBufSize - 1)
    BY SpiConstants DEF SpiTypes, Taken
  <2>2. S!Item(spi_rx.number, 1) \in S!Items /\ S!Item(spi_rx.number, 2) \in S!Items
    BY <2>1, ItemOf, ItemIs, SpiConstants
  <2>3. s_rx_buf' = (IF s_rx_index < 2 THEN s_rx_buf
                     ELSE [s_rx_buf EXCEPT ![s_rx_index + 1] = spi_rx,
                                           ![1] = S!Item(spi_rx.number, 1),
                                           ![2] = S!Item(spi_rx.number, 2)])
    BY Zenon DEF Taken
  <2> QED BY <2>1, <2>2, <2>3
<1>7. s_new_data' \in BOOLEAN
  BY DEF Taken
<1> QED BY <1>5, <1>6, <1>7

\* What the item that comes next does to index and awaited items.
LEMMA TakenItem ==
  ASSUME SpiTypes, NEW total, NEW A, NEW N, Taken(total, A, N),
         NEW n \in 0..MaxPackets, NEW k \in 0..(MasterSize - 1), spi_rx = S!Item(n, k + 1),
         s_rx_index = k, s_rx_items = IF k = 0 THEN 0 ELSE HeaderOrWhole(k, MasterSize)
  PROVE  A = HeaderOrWhole(k + 1, MasterSize) /\ A > 0 /\ N = k + 1 /\ (N = A <=> k + 1 = MasterSize)
<1>1. /\ total \in S!SlaveTotals(spi_rx)
      /\ A = S!Awaited(spi_rx, k, s_rx_items, total) /\ N = S!NextIndex(k, A)
  BY DEF Taken
<1>2. k = 3 => total = MasterSize
  BY <1>1, ItemIs, TotalsAre, SpiConstants DEF SpiTypes
<1> QED BY <1>1, <1>2, InSequence, SpiConstants

\* A slave in time goes on from item to item, and waits between packets.
LEMMA TakenInTime ==
  ASSUME SpiTypes, SlaveInTime, spi_if, NEW total, NEW A, NEW N, Taken(total, A, N)
  PROVE  SlaveAt(m_tx_index)'  \/ m_tx_index' # m_tx_index
<1> SUFFICES ASSUME m_tx_index' = m_tx_index PROVE SlaveAt(m_tx_index)'
  OBVIOUS
<1>1. /\ s_rx_items' = (IF A > 0 /\ N = A THEN 0 ELSE A)
      /\ s_rx_index' = (IF s_rx_items' = 0 THEN 0 ELSE N)
  BY DEF Taken
<1>2. CASE m_tx_index \in {0, MasterSize} /\ spi_rx = S!Null /\ SlaveAt(0)
  <2>1. s_rx_index = 0 /\ s_rx_items = 0
    BY <1>2 DEF SlaveAt
  <2>2. A = 0
    BY <1>2, <2>1, NullIs DEF Taken, S!Awaited, S!IsMark
  <2>3. s_rx_items' = 0 /\ s_rx_index' = 0
    BY <1>1, <2>2
  <2> QED BY <1>2, <2>3, SpiConstants DEF SlaveAt
<1>3. ASSUME NEW n \in 0..MaxPackets, NEW k \in 0..(MasterSize - 1),
             spi_rx = S!Item(n, k + 1), SlaveAt(k),
             m_tx_index = k + 1 \/ (m_tx_index = 0 /\ k + 1 = MasterSize)
      PROVE  SlaveAt(m_tx_index)'
  <2>1. s_rx_index = k /\ s_rx_items = IF k = 0 THEN 0 ELSE HeaderOrWhole(k, MasterSize)
    BY <1>3, SpiConstants DEF SlaveAt
  <2>2. A = HeaderOrWhole(k + 1, MasterSize) /\ A > 0 /\ N = k + 1 /\ (N = A <=> k + 1 = MasterSize)
    BY <1>3, <2>1, TakenItem
  <2>3. CASE k + 1 = MasterSize
    BY <1>1, <1>3, <2>2, <2>3, SpiConstants DEF SlaveAt
  <2>4. CASE k + 1 # MasterSize
    <3>1. m_tx_index' = k + 1 /\ s_rx_items' = A /\ s_rx_index' = k + 1
      BY <1>1, <1>3, <2>2, <2>4
    <3> QED BY <2>2, <2>4, <3>1, SpiConstants DEF SlaveAt
  <2> QED BY <2>3, <2>4
<1> QED BY <1>2, <1>3 DEF SlaveInTime

\* The item that comes next is taken.
LEMMA TakenInStep ==
  ASSUME SpiTypes, NEW total, NEW A, NEW N, Taken(total, A, N),
         m_number' = m_number, taken' = taken,
         NEW k \in 0..(MasterSize - 1), Received(k), spi_rx = S!Item(m_number, k + 1)
  PROVE  Received(k + 1)'
<1>1. s_rx_index = k /\ s_rx_items = IF k = 0 THEN 0 ELSE HeaderOrWhole(k, MasterSize)
  BY SpiConstants DEF Received
<1>2. A = HeaderOrWhole(k + 1, MasterSize) /\ A > 0 /\ N = k + 1 /\ (N = A <=> k + 1 = MasterSize)
  <2> QED BY <1>1, TakenItem DEF SpiTypes
<1>3. /\ s_rx_items' = (IF A > 0 /\ N = A THEN 0 ELSE A)
      /\ s_rx_index' = (IF s_rx_items' = 0 THEN 0 ELSE N)
  BY DEF Taken
<1>4. k + 1 >= 3 => S!Holds(s_rx_buf', m_number, k + 1)
  <2> SUFFICES ASSUME k >= 2 PROVE S!Holds(s_rx_buf', m_number, k + 1)
    OBVIOUS
  <2>1. /\ s_rx_buf' = [s_rx_buf EXCEPT ![k + 1] = S!Item(m_number, k + 1),
                                         ![1] = S!Item(m_number, 1),
                                         ![2] = S!Item(m_number, 2)]
        /\ s_rx_buf \in [1..SpiBufSize -> S!Items]
    <3>1. spi_rx.number = m_number
      BY ItemIs DEF SpiTypes
    <3>2. s_rx_buf' = [s_rx_buf EXCEPT ![s_rx_index + 1] = spi_rx,
                                       ![1] = S!Item(spi_rx.number, 1),
                                       ![2] = S!Item(spi_rx.number, 2)]
      <4>1. ~(s_rx_index < 2)
        BY <1>1
      <4> QED BY <4>1, Zenon DEF Taken
    <3>3. s_rx_buf \in [1..SpiBufSize -> S!Items]
      BY DEF SpiTypes
    <3> QED BY <1>1, <3>1, <3>2, <3>3, Zenon
  <2>2. k >= 3 => S!Holds(s_rx_buf, m_number, k)
    BY SpiConstants DEF Received
  <2>3. ASSUME NEW i \in 1..(k + 1) PROVE s_rx_buf'[i] = S!Item(m_number, i)
    <3>1. i \in 1..SpiBufSize
      BY SpiConstants
    <3>2. CASE i = k + 1
      BY <2>1, <3>1, <3>2
    <3>3. CASE i \in {1, 2} /\ i # k + 1
      BY <2>1, <3>1, <3>3
    <3>4. CASE i \notin {1, 2} /\ i # k + 1
      <4>1. k >= 3 /\ i \in 1..k
        BY <3>4
      <4>2. s_rx_buf[i] = S!Item(m_number, i)
        BY <2>2, <4>1 DEF S!Holds
      <4> QED BY <2>1, <3>1, <3>4, <4>2
    <3> QED BY <3>2, <3>3, <3>4
  <2> QED BY <2>3 DEF S!Holds
<1>5. CASE k + 1 = MasterSize
  <2>1. s_rx_items' = 0 /\ s_rx_index' = 0
    BY <1>2, <1>3, <1>5
  <2>2. S!Holds(s_rx_buf', m_number, MasterSize)
    BY <1>4, <1>5, SpiConstants
  <2>3. spi_rx.number = m_number
    BY ItemIs DEF SpiTypes
  <2>4. s_new_data' = TRUE
    BY <1>2, <1>5, <2>2, <2>3 DEF Taken
  <2>5. S!Holds(s_rx_buf, m_number, MasterSize)'
    BY <2>2 DEF S!Holds
  <2> QED BY <1>5, <2>1, <2>4, <2>5, SpiConstants DEF Received
<1>6. CASE k + 1 # MasterSize
  <2>1. s_rx_items' = A /\ s_rx_index' = k + 1
    BY <1>2, <1>3, <1>6
  <2>2. k + 1 >= 3 => S!Holds(s_rx_buf, m_number, k + 1)'
    BY <1>4 DEF S!Holds
  <2> QED BY <1>2, <1>6, <2>1, <2>2, SpiConstants DEF Received
<1> QED BY <1>5, <1>6

\* A null byte after a packet changes nothing.
LEMMA TakenNull ==
  ASSUME SpiTypes, NEW total, NEW A, NEW N, Taken(total, A, N),
         m_number' = m_number, taken' = taken,
         Received(MasterSize), spi_rx = S!Null
  PROVE  Received(MasterSize)'
<1>1. s_rx_index = 0 /\ s_rx_items = 0
  BY SpiConstants DEF Received
<1>2. A = 0
  BY <1>1, NullIs DEF Taken, S!Awaited, S!IsMark
<1>3. s_rx_items' = 0 /\ s_rx_index' = 0 /\ s_rx_buf' = s_rx_buf /\ (s_new_data' <=> s_new_data)
  BY <1>1, <1>2 DEF Taken
<1> QED
  BY <1>1, <1>3, SpiConstants DEF Received, S!Holds

\* What the slave's main loop sends next.
LEMMA TransmitStream ==
  ASSUME SpiTypes, SlaveTypes, Stream, spi_if, spi_if' = FALSE, spdr' = spdr, S!TransmitItem
  PROVE  Stream' /\ Begun' = Begun
<1>1. Begun = LastOf /\ spdr = spi_tx
  BY DEF Begun, Stream
<1>2. spi_tx \in S!Items /\ s_number \in 0..MaxPackets /\ s_tx_index \in 0..(SlaveSize - 1)
  BY DEF SpiTypes
<1>3. CASE s_tx_items = 0
  <2>1. spi_tx' = S!Null /\ UNCHANGED <<s_number, s_tx_items, s_tx_index>>
    BY <1>3, Zenon DEF S!TransmitItem, S!slaveTx
  <2>2. s_tx_index = 0
    BY <1>3 DEF SlaveTypes
  <2>3. LastOf' = LastOf /\ LastOf = s_number
    BY <1>3, <2>1 DEF LastOf
  <2>4. Begun' = Begun
    BY <1>1, <2>1, <2>3, NullIs DEF Begun
  <2>5. Follows(spdr, S!Null)
    <3>1. CASE spi_tx = S!Null
      BY <1>1, <3>1 DEF Follows
    <3>2. CASE spi_tx = S!Item(LastOf, SlaveSize)
      <4>1. spdr # S!Null /\ spdr.place = SlaveSize
        BY <1>1, <1>2, <2>3, <3>2, ItemIs, NullIs, SpiConstants
      <4> QED BY <4>1 DEF Follows
    <3> QED BY <2>2, <3>1, <3>2 DEF Stream
  <2>6. spdr' # S!Null => spdr'.number > 0 /\ spdr'.number = Begun' /\ spdr'.place \in 1..SlaveSize
    BY <2>4 DEF Stream
  <2> QED BY <2>1, <2>2, <2>4, <2>5, <2>6 DEF Stream
<1>4. CASE s_tx_items # 0
  <2> DEFINE i == s_tx_index
  <2>1. /\ s_number > 0 /\ s_number' = s_number
        /\ spi_tx' = S!Item(s_number, i + 1)
        /\ IF i + 1 = s_tx_items THEN s_tx_items' = 0 /\ s_tx_index' = 0
                                 ELSE s_tx_index' = i + 1 /\ s_tx_items' = s_tx_items
    BY <1>4 DEF S!TransmitItem, S!NextItem, SlaveTypes
  <2>2. s_tx_items = SlaveSize /\ SlaveSize > 1
    BY <1>4, SpiConstants DEF SpiTypes
  <2>3. /\ spi_tx'.number = s_number /\ spi_tx'.place = i + 1 /\ spi_tx' # S!Null
    BY <1>2, <2>1, ItemIs, NullIs
  <2>4. LastOf' = s_number
    BY <1>2, <2>1, <2>2 DEF LastOf
  <2>5. LastOf = (IF i = 0 THEN s_number - 1 ELSE s_number)
    BY <1>4 DEF LastOf
  <2>6. Begun' = Begun
    BY <1>1, <1>2, <2>3, <2>4, <2>5 DEF Begun
  <2>7. Follows(spdr, spi_tx')
    <3>1. CASE i = 0 /\ spi_tx = S!Null
      BY <1>1, <2>3, <3>1 DEF Follows
    <3>2. CASE i = 0 /\ spi_tx = S!Item(LastOf, SlaveSize)
      <4>1. /\ spdr # S!Null /\ spdr.place = SlaveSize
            /\ spi_tx' = S!Item(spdr.number + 1, 1)
        BY <1>1, <1>2, <2>1, <2>5, <3>2, ItemIs, NullIs, SpiConstants
      <4> QED BY <4>1 DEF Follows
    <3>3. CASE i > 0
      <4>1. spdr = S!Item(s_number, i)
        BY <1>1, <3>3 DEF Stream
      <4>2. spdr # S!Null /\ spdr.place = i /\ spdr.number = s_number /\ i < SlaveSize
        BY <1>2, <3>3, <4>1, ItemIs, NullIs, SpiConstants
      <4> QED BY <2>1, <4>2 DEF Follows
    <3> QED BY <1>2, <3>1, <3>2, <3>3 DEF Stream
  <2>8. spdr' # S!Null => spdr'.number > 0 /\ spdr'.number = Begun' /\ spdr'.place \in 1..SlaveSize
    BY <2>6 DEF Stream
  <2>9. /\ s_tx_index' > 0 => spi_tx' = S!Item(s_number', s_tx_index')
        /\ s_tx_index' = 0 => spi_tx' = S!Item(LastOf', SlaveSize)
    BY <1>2, <2>1, <2>2, <2>4
  <2> QED BY <2>1, <2>3, <2>6, <2>7, <2>8, <2>9 DEF Stream
<1> QED BY <1>3, <1>4

\* A transmission keeps the types.
LEMMA TransmitTypes ==
  ASSUME SpiTypes, SlaveTypes, S!TransmitItem
  PROVE  /\ spi_tx' \in S!Items /\ s_number' \in 0..MaxPackets
         /\ s_tx_items' \in {0, SlaveSize} /\ s_tx_index' \in 0..(SlaveSize - 1)
         /\ s_tx_items' = 0 => s_tx_index' = 0
         /\ s_tx_items' # 0 => s_number' > 0
<1>1. CASE s_tx_items = 0
  BY <1>1, NullIs DEF S!TransmitItem, S!slaveTx, SpiTypes, SlaveTypes
<1>2. CASE s_tx_items # 0
  <2>1. /\ s_tx_items = SlaveSize /\ s_tx_index + 1 \in 1..SlaveSize
        /\ s_number' = s_number /\ s_number > 0 /\ s_number \in 0..MaxPackets
        /\ spi_tx' = S!Item(s_number, s_tx_index + 1)
        /\ IF s_tx_index + 1 = s_tx_items THEN s_tx_items' = 0 /\ s_tx_index' = 0
           ELSE s_tx_index' = s_tx_index + 1 /\ s_tx_items' = s_tx_items
    BY <1>2, SpiConstants DEF S!TransmitItem, S!NextItem, SpiTypes, SlaveTypes
  <2>2. spi_tx' \in S!Items
    BY <2>1, ItemIs, SpiConstants
  <2> QED BY <2>1, <2>2, SpiConstants DEF SpiTypes
<1> QED BY <1>1, <1>2

\* The steps, one lemma each: the invariant is kept, and the answers come in turn.
InTurn == late' = 0 => got' \in {got, got + 1}

\* The master clocks a byte.
LEMMA ClockByteStep == ASSUME SpiInv, S!ClockByte PROVE SpiInv' /\ InTurn
<1> PICK total, A, N : ByteClocked(total, A, N)
  BY ByteClockedIs
<1>1. SpiTypes /\ MasterTypes /\ SlaveTypes /\ SlaveInStep
  BY SpiTypesAre DEF SpiInv
<1>2. SpiTypes' /\ MasterTypes'
  BY <1>1, ClockByteTypes
<1>3. SlaveTypes' /\ SlaveInStep'
  BY <1>1, ClockByteSlave
<1>4. S!TypeOK'
  BY <1>2, Zenon DEF S!TypeOK, SpiTypes
<1>5. ASSUME late' = 0 PROVE Stream' /\ MasterInStep' /\ SlaveInTime' /\ InTurn
  <2>1. late = 0 /\ ~spi_if
    <3>1. late \in Nat /\ late' = (IF spi_if THEN late + 1 ELSE late)
      BY <1>1, SpiConstants DEF SpiTypes, ByteClocked
    <3> QED BY <1>5, <3>1
  <2>2. Stream /\ MasterInStep /\ SlaveInTime
    BY <2>1 DEF SpiInv
  <2>3. Stream'
    BY <1>1, <2>1, <2>2, ClockByteStream
  <2>4. MasterInStep' /\ got' \in {got, got + 1}
    BY <1>1, <2>1, <2>2, ClockByteMaster
  <2>5. SlaveInTime'
    BY <1>1, <2>1, <2>2, ClockByteInTime
  <2> QED BY <2>3, <2>4, <2>5 DEF InTurn
<1> QED BY <1>2, <1>3, <1>4, <1>5 DEF SpiInv, InTurn

\* The slave's interrupt handler.
LEMMA PollStep == ASSUME SpiInv, S!Poll PROVE SpiInv' /\ InTurn
<1>1. SpiTypes /\ MasterTypes /\ SlaveTypes /\ SlaveInStep
  BY SpiTypesAre DEF SpiInv
<1>2. /\ spi_if /\ spi_if' = FALSE /\ S!ReceiveItem /\ S!TransmitItem
      /\ UNCHANGED <<spdr, spi_rx, taken, got, late, inStep>>
      /\ UNCHANGED <<m_number, m_transmits, m_tx_index, m_rx_buf, m_rx_items, m_rx_index, m_new_data>>
  BY DEF S!Poll, S!masterVars
<1> PICK total, A, N : Taken(total, A, N)
  BY <1>2, TakenIs
<1>3. /\ s_rx_items' \in 0..SpiBufSize
      /\ s_rx_index' \in 0..SpiBufSize
      /\ s_rx_items' = 0 => s_rx_index' = 0
      /\ s_new_data' \in BOOLEAN
      /\ s_rx_buf' \in [1..SpiBufSize -> S!Items]
  BY <1>1, TakenTypes
<1>4. /\ spi_tx' \in S!Items /\ s_number' \in 0..MaxPackets
      /\ s_tx_items' \in {0, SlaveSize} /\ s_tx_index' \in 0..(SlaveSize - 1)
      /\ s_tx_items' = 0 => s_tx_index' = 0
      /\ s_tx_items' # 0 => s_number' > 0
  BY <1>1, <1>2, TransmitTypes
<1>5. MasterTypes'
  BY <1>1, <1>2, Zenon DEF MasterTypes
<1>6. SlaveTypes'
  BY <1>1, <1>2, <1>3, <1>4, Zenon DEF SlaveTypes
<1>7. SpiTypes'
  BY <1>1, <1>2, <1>3, <1>4, Zenon DEF SpiTypes
<1>8. SlaveInStep'
  <2> SUFFICES ASSUME inStep', m_number' > 0 PROVE Received(m_tx_index)'
    BY <1>2 DEF SlaveInStep
  <2> PICK k : k = m_tx_index
    OBVIOUS
  <2>1. m_tx_index' = k /\ m_number' = m_number /\ taken' = taken
    BY <1>2
  <2>2. \/ k >= 1 /\ spi_rx = S!Item(m_number, k) /\ Received(k - 1)
        \/ k = MasterSize /\ spi_rx = S!Null /\ Received(MasterSize)
    BY <1>1, <1>2 DEF SlaveInStep
  <2>3. CASE k >= 1 /\ spi_rx = S!Item(m_number, k) /\ Received(k - 1)
    <3>1. k - 1 \in 0..(MasterSize - 1) /\ (k - 1) + 1 = k
      BY <1>1, <2>3, SpiConstants DEF SpiTypes
    <3>2. Received((k - 1) + 1)'
      BY <1>1, <2>1, <2>3, <3>1, TakenInStep
    <3>3. Received(k)'
      BY <3>1, <3>2
    <3> QED BY <2>1, <3>3
  <2>4. CASE k = MasterSize /\ spi_rx = S!Null /\ Received(MasterSize)
    <3>1. Received(MasterSize)'
      BY <1>1, <2>1, <2>4, TakenNull
    <3> QED BY <2>1, <2>4, <3>1
  <2> QED BY <2>2, <2>3, <2>4
<1>9. S!TypeOK'
  BY <1>7, Zenon DEF S!TypeOK, SpiTypes
<1>10. ASSUME late' = 0 PROVE Stream' /\ MasterInStep'
  <2>1. Stream /\ MasterInStep
    BY <1>2, <1>10 DEF SpiInv
  <2>2. Stream' /\ Begun' = Begun
    <3>1. spi_if /\ spi_if' = FALSE /\ spdr' = spdr /\ S!TransmitItem
      BY <1>2
    <3> QED BY <1>1, <2>1, <3>1, TransmitStream, Zenon
  <2>3. GotSoFar' = GotSoFar
    BY <1>2, <2>2 DEF GotSoFar
  <2> QED BY <1>2, <2>1, <2>2, <2>3, Zenon DEF MasterInStep, S!Holds
<1>11. InTurn
  BY <1>2 DEF InTurn
<1>12. ASSUME late' = 0 PROVE SlaveInTime'
  <2>1. SlaveInTime /\ m_tx_index' = m_tx_index /\ ~spi_if'
    BY <1>2, <1>12 DEF SpiInv
  <2>2. SlaveAt(m_tx_index)'
    BY <1>1, <1>2, <2>1, TakenInTime
  <2> QED BY <2>1, <2>2 DEF SlaveInTime
<1> QED BY <1>5, <1>6, <1>7, <1>8, <1>9, <1>10, <1>11, <1>12 DEF SpiInv

\* The master begins a packet.
LEMMA BeginTransmitStep == ASSUME SpiInv, S!BeginTransmit PROVE SpiInv' /\ InTurn
<1>1. SpiTypes /\ MasterTypes /\ SlaveTypes /\ SlaveInStep
  BY SpiTypesAre DEF SpiInv
<1>2. /\ ~m_transmits /\ m_number < MaxPackets
      /\ m_number' = m_number + 1 /\ m_transmits' = TRUE /\ m_tx_index' = 0
      /\ m_rx_index' = 0 /\ m_new_data' = FALSE
      /\ inStep' = (s_rx_items = 0 /\ ~spi_if)
      /\ UNCHANGED <<m_rx_buf, m_rx_items, got, late, spdr, spi_rx, spi_tx, spi_if>>
      /\ UNCHANGED <<s_rx_buf, s_rx_items, s_rx_index, s_new_data, taken>>
      /\ UNCHANGED <<s_number, s_tx_items, s_tx_index>>
  BY DEF S!BeginTransmit, S!portVars, S!slaveRx, S!slaveTx
<1>3. m_rx_items = 0 /\ m_rx_index = 0
  BY <1>1, <1>2 DEF MasterTypes
<1>4. MasterTypes'
  <2>1. m_rx_items' = 0 /\ m_rx_index' = 0 /\ m_tx_index' = 0 /\ m_transmits' = TRUE
    BY <1>2, <1>3
  <2> QED BY <2>1, SpiConstants DEF MasterTypes
<1>5. SlaveTypes'
  BY <1>1, <1>2 DEF SlaveTypes, SpiTypes
<1>6. SpiTypes'
  <2>1. m_number' \in 0..MaxPackets /\ 0 \in 0..(SpiBufSize - 1) /\ 0 \in 0..MasterSize
    BY <1>1, <1>2, SpiConstants DEF SpiTypes
  <2>2. inStep' \in BOOLEAN
    BY <1>2
  <2> QED BY <1>1, <1>2, <2>1, <2>2, Zenon DEF SpiTypes
<1>7. S!TypeOK'
  BY <1>6, Zenon DEF S!TypeOK, SpiTypes
<1>8. SlaveInStep'
  <2> SUFFICES ASSUME inStep' PROVE ~spi_if' /\ Received(m_tx_index)'
    BY Zenon DEF SlaveInStep
  <2>1. ~spi_if' /\ s_rx_items' = 0 /\ s_rx_index' = 0 /\ m_tx_index' = 0
    BY <1>1, <1>2, Zenon DEF SlaveTypes
  <2>2. 0 # MasterSize /\ 0 \notin 1..(MasterSize - 1)
    BY SpiConstants
  <2> QED BY <2>1, <2>2, Zenon DEF Received
<1>9. ASSUME late' = 0 PROVE Stream' /\ MasterInStep'
  <2>1. Stream /\ MasterInStep
    BY <1>2, <1>9 DEF SpiInv
  <2>2. LastOf' = LastOf
    BY <1>2 DEF LastOf
  <2>3. Begun' = Begun
    BY <1>2, <2>2 DEF Begun
  <2>4. GotSoFar' = GotSoFar
    BY <1>2, <2>3 DEF GotSoFar
  <2>5. Stream'
    BY <1>2, <2>1, <2>2, <2>3 DEF Stream
  <2> QED BY <1>2, <1>3, <2>1, <2>4, <2>5 DEF MasterInStep
<1>10. InTurn
  BY <1>2 DEF InTurn
<1>11. ASSUME late' = 0 PROVE SlaveInTime'
  <2>1. SlaveInTime /\ m_tx_index \in {0, MasterSize}
    <3>1. m_number = 0 \/ m_number > 0
      BY <1>1, SpiConstants DEF SpiTypes
    <3> QED BY <1>1, <1>2, <1>11, <3>1 DEF SpiInv, SlaveTypes, MasterTypes
  <2>2. \A i : SlaveAt(i) => SlaveAt(i)'
    BY <1>2 DEF SlaveAt
  <2>3. m_tx_index' = 0 /\ spi_rx' = spi_rx /\ spi_if' = spi_if
    BY <1>2
  <2>4. CASE ~spi_if
    <3>1. SlaveAt(0)
      BY <2>1, <2>4 DEF SlaveInTime, SlaveAt
    <3> QED BY <2>2, <2>3, <2>4, <3>1 DEF SlaveInTime
  <2>5. CASE spi_if
    <3>1. CASE spi_rx = S!Null /\ SlaveAt(0)
      BY <2>2, <2>3, <2>5, <3>1 DEF SlaveInTime
    <3>2. CASE \E q \in 0..MaxPackets, k \in 0..(MasterSize - 1) :
            /\ spi_rx = S!Item(q, k + 1) /\ SlaveAt(k)
            /\ m_tx_index = k + 1 \/ (m_tx_index = 0 /\ k + 1 = MasterSize)
      <4>1. PICK q \in 0..MaxPackets, k \in 0..(MasterSize - 1) :
            /\ spi_rx = S!Item(q, k + 1) /\ SlaveAt(k)
            /\ m_tx_index = k + 1 \/ (m_tx_index = 0 /\ k + 1 = MasterSize)
        BY <3>2
      <4>2. k + 1 = MasterSize
        BY <2>1, <4>1, SpiConstants
      <4>3. SlaveAt(k)'
        BY <2>2, <4>1
      <4> QED BY <2>3, <2>5, <4>1, <4>2, <4>3 DEF SlaveInTime
    <3> QED BY <2>1, <2>5, <3>1, <3>2, Zenon DEF SlaveInTime
  <2> QED BY <2>4, <2>5
<1> QED BY <1>4, <1>5, <1>6, <1>7, <1>8, <1>9, <1>10, <1>11 DEF SpiInv

\* The slave's main loop takes a packet.
LEMMA GetDataStep == ASSUME SpiInv, S!GetData PROVE SpiInv' /\ InTurn
<1>1. SpiTypes /\ MasterTypes /\ SlaveTypes /\ SlaveInStep
  BY SpiTypesAre DEF SpiInv
<1>2. /\ s_new_data /\ s_new_data' = FALSE /\ taken' = s_rx_buf[3].number
      /\ UNCHANGED <<m_number, m_transmits, m_tx_index, m_rx_buf, m_rx_items, m_rx_index, m_new_data>>
      /\ UNCHANGED <<spdr, spi_rx, spi_tx, spi_if, got, late, inStep>>
      /\ UNCHANGED <<s_rx_buf, s_rx_items, s_rx_index, s_number, s_tx_items, s_tx_index>>
  BY DEF S!GetData, S!masterVars, S!portVars, S!slaveTx
<1>3. MasterTypes' /\ SlaveTypes'
  BY <1>1, <1>2, Zenon DEF MasterTypes, SlaveTypes
<1>4. SpiTypes'
  <2>1. taken' \in 0..MaxPackets
    <3>1. s_rx_buf[3] \in S!Items
      BY <1>1, SpiConstants DEF SpiTypes
    <3> QED BY <1>2, <3>1, ItemOf
  <2> QED BY <1>1, <1>2, <2>1, Zenon DEF SpiTypes
<1>5. S!TypeOK'
  BY <1>4, Zenon DEF S!TypeOK, SpiTypes
<1>6. ASSUME NEW k, Received(k) PROVE Received(k)'
  <2>1. k = MasterSize => S!Holds(s_rx_buf, m_number, MasterSize)
    BY <1>2, <1>6 DEF Received
  <2>2. S!Holds(s_rx_buf, m_number, MasterSize) => taken' = m_number
    <3>1. 3 \in 1..MasterSize
      BY SpiConstants
    <3> QED BY <1>1, <1>2, <3>1, ItemIs DEF S!Holds, SpiTypes
  <2> QED BY <1>2, <1>6, <2>1, <2>2 DEF Received, S!Holds
<1>7. SlaveInStep'
  <2> PICK k : k = m_tx_index
    OBVIOUS
  <2> PICK l : l = k - 1
    OBVIOUS
  <2>1. /\ Received(k) => Received(k)'
        /\ Received(l) => Received(l)'
        /\ Received(MasterSize) => Received(MasterSize)'
    BY <1>6
  <2>2. m_tx_index' = k
    BY <1>2
  <2> QED BY <1>1, <1>2, <2>1, <2>2 DEF SlaveInStep
<1>8. ASSUME late' = 0 PROVE Stream' /\ MasterInStep'
  <2>1. Stream /\ MasterInStep
    BY <1>2, <1>8 DEF SpiInv
  <2> QED
    BY <1>2, <2>1, Zenon DEF Stream, MasterInStep, LastOf, Begun, GotSoFar, S!Holds
<1>9. InTurn
  BY <1>2 DEF InTurn
<1>10. ASSUME late' = 0 PROVE SlaveInTime'
  BY <1>2, <1>10, Zenon DEF SpiInv, SlaveInTime, SlaveAt
<1> QED BY <1>3, <1>4, <1>5, <1>7, <1>8, <1>9, <1>10 DEF SpiInv

\* The slave's main loop answers.
LEMMA SendDataStep == ASSUME SpiInv, S!SendData PROVE SpiInv' /\ InTurn
<1>1. SpiTypes /\ MasterTypes /\ SlaveTypes /\ SlaveInStep
  BY SpiTypesAre DEF SpiInv
<1>2. /\ s_number < MaxPackets /\ s_tx_items = 0
      /\ s_number' = s_number + 1 /\ s_tx_items' = SlaveSize /\ s_tx_index' = s_tx_index
      /\ UNCHANGED <<m_number, m_transmits, m_tx_index, m_rx_buf, m_rx_items, m_rx_index, m_new_data>>
      /\ UNCHANGED <<spdr, spi_rx, spi_tx, spi_if, got, late, inStep>>
      /\ UNCHANGED <<s_rx_buf, s_rx_items, s_rx_index, s_new_data, taken>>
  BY DEF S!SendData, S!Accepts, S!masterVars, S!portVars, S!slaveRx
<1>3. MasterTypes'
  BY <1>1, <1>2, Zenon DEF MasterTypes
<1>4. SlaveTypes'
  BY <1>1, <1>2, SpiConstants DEF SlaveTypes, SpiTypes
<1>5. SpiTypes'
  <2>1. s_number' \in 0..MaxPackets
    BY <1>1, <1>2, SpiConstants DEF SpiTypes
  <2> QED BY <1>1, <1>2, <2>1, Zenon DEF SpiTypes
<1>6. S!TypeOK'
  BY <1>5, Zenon DEF S!TypeOK, SpiTypes
<1>7. SlaveInStep'
  BY <1>1, <1>2, Zenon DEF SlaveInStep, Received, S!Holds
<1>8. ASSUME late' = 0 PROVE Stream' /\ MasterInStep'
  <2>1. Stream /\ MasterInStep
    BY <1>2, <1>8 DEF SpiInv
  <2>2. s_tx_index = 0
    BY <1>1, <1>2 DEF SlaveTypes
  <2>3. LastOf' = LastOf
    BY <1>1, <1>2, <2>2, SpiConstants DEF LastOf, SpiTypes
  <2>4. Begun' = Begun
    BY <1>2, <2>3 DEF Begun
  <2>5. Stream'
    BY <1>2, <2>1, <2>2, <2>3, <2>4 DEF Stream
  <2>6. GotSoFar' = GotSoFar
    BY <1>2, <2>4 DEF GotSoFar
  <2> QED BY <1>2, <2>1, <2>5, <2>6, Zenon DEF MasterInStep, S!Holds
<1>9. InTurn
  BY <1>2 DEF InTurn
<1>10. ASSUME late' = 0 PROVE SlaveInTime'
  BY <1>2, <1>10, Zenon DEF SpiInv, SlaveInTime, SlaveAt
<1> QED BY <1>3, <1>4, <1>5, <1>6, <1>7, <1>8, <1>9, <1>10 DEF SpiInv

\* Nothing happens.
LEMMA SpiUnchanged == ASSUME SpiInv, UNCHANGED S!vars PROVE SpiInv' /\ InTurn
<1>1. /\ UNCHANGED <<m_number, m_transmits, m_tx_index, m_rx_buf, m_rx_items, m_rx_index, m_new_data>>
      /\ UNCHANGED <<spdr, spi_rx, spi_tx, spi_if, got, late, inStep>>
      /\ UNCHANGED <<s_rx_buf, s_rx_items, s_rx_index, s_new_data, taken>>
      /\ UNCHANGED <<s_number, s_tx_items, s_tx_index>>
  BY DEF S!vars, S!masterVars, S!portVars, S!slaveRx, S!slaveTx
<1>2. S!TypeOK' /\ MasterTypes' /\ SlaveTypes'
  BY <1>1, Zenon DEF SpiInv, S!TypeOK, MasterTypes, SlaveTypes
<1>3. SlaveInStep'
  BY <1>1, Zenon DEF SpiInv, SlaveInStep, Received, S!Holds
<1>4. (late = 0 => Stream /\ MasterInStep)'
  BY <1>1, Zenon DEF SpiInv, Stream, MasterInStep, LastOf, Begun, GotSoFar, S!Holds
<1>6. (late = 0 => SlaveInTime)'
  BY <1>1, Zenon DEF SpiInv, SlaveInTime, SlaveAt
<1>5. InTurn
  BY <1>1 DEF InTurn
<1> QED BY <1>2, <1>3, <1>4, <1>5, <1>6, Zenon DEF SpiInv

\* SpiInv is inductive, and the answers come in turn.
LEMMA SpiInvStep == ASSUME SpiInv, S!Next \/ UNCHANGED S!vars PROVE SpiInv' /\ InTurn
BY ClockByteStep, PollStep, BeginTransmitStep, GetDataStep, SendDataStep, SpiUnchanged, Zenon
DEF S!Next

\* A packet that was sent in time arrives.
LEMMA ArrivesIs == ASSUME SpiInv PROVE S!PacketArrives
<1> SUFFICES ASSUME inStep, ~m_transmits, ~spi_if, m_number > 0
             PROVE  taken = m_number \/ (s_new_data /\ S!Holds(s_rx_buf, m_number, MasterSize))
  BY DEF S!PacketArrives
<1>1. Received(MasterSize)
  BY DEF SpiInv, SlaveInStep, MasterTypes
<1> QED BY <1>1 DEF Received

\* What the master gives out is one packet of the slave.
LEMMA AnswerIs == ASSUME SpiInv PROVE S!AnswerIsWhole
BY NullIs DEF SpiInv, MasterInStep, S!AnswerIsWhole, S!IsPacket, S!IsMark

\* A slave in time is inside its buffer.
LEMMA InBufferIs == ASSUME SpiInv PROVE S!InTimeIndexInBuffer
<1> SUFFICES ASSUME late = 0 PROVE s_rx_index < SpiBufSize
  BY DEF S!InTimeIndexInBuffer, S!IndexInBuffer
<1>1. SpiTypes /\ SlaveInTime
  BY SpiTypesAre DEF SpiInv
<1>2. PICK k \in 0..MasterSize : SlaveAt(k)
  <2>1. 0 \in 0..MasterSize /\ \A k \in 0..(MasterSize - 1) : k \in 0..MasterSize
    BY SpiConstants
  <2> QED BY <1>1, <2>1 DEF SpiTypes, SlaveInTime
<1> QED BY <1>2, SpiConstants DEF SlaveAt

-----------------------------------------------------------------------------
(* The buffers of the SPI channel *)

\* What is assumed of the buffers: one of each type and two more.
LEMMA BufferConstants ==
  /\ NumBuffers \in Nat \ {0} /\ ItemsOfPacket \in Nat \ {0}
  /\ DevicePackets \in Nat /\ MaxFailures \in Nat
  /\ IsFiniteSet(PacketTypes) /\ NumBuffers >= Cardinality(PacketTypes) + 2
<1>1. /\ {NumBuffers, ItemsOfPacket} \subseteq Nat \ {0}
      /\ DevicePackets \in Nat /\ MaxFailures \in Nat
      /\ B!IsFiniteSet(PacketTypes) /\ NumBuffers >= B!Cardinality(PacketTypes) + 2
  BY LinesConstantsOK DEF B!SpiBuffersConstantsOK
<1>2. IsFiniteSet(PacketTypes)
  BY <1>1 DEF B!IsFiniteSet, IsFiniteSet
<1>3. B!Cardinality(PacketTypes) = Cardinality(PacketTypes)
  BY DEF B!Cardinality, Cardinality
<1> QED BY <1>1, <1>2, <1>3

-----------------------------------------------------------------------------
\* The lists: the elements of what the operations on them make.
LEMMA TailOfList ==
  ASSUME NEW E, NEW s \in Seq(E), s # << >>
  PROVE  /\ Head(s) \in B!ToSet(s) /\ Tail(s) \in Seq(E)
         /\ B!IsInjective(s) => /\ B!IsInjective(Tail(s))
                                /\ B!ToSet(Tail(s)) = B!ToSet(s) \ {Head(s)}
<1>1. /\ Tail(s) \in Seq(E) /\ Len(Tail(s)) = Len(s) - 1 /\ Len(s) \in Nat \ {0}
      /\ \A i \in 1..(Len(s) - 1) : Tail(s)[i] = s[i + 1]
      /\ Head(s) = s[1] /\ DOMAIN s = 1..Len(s) /\ DOMAIN Tail(s) = 1..(Len(s) - 1)
  OBVIOUS
<1>2. Head(s) \in B!ToSet(s)
  BY <1>1 DEF B!ToSet
<1>3. ASSUME B!IsInjective(s) PROVE B!IsInjective(Tail(s))
  <2>1. \A i \in 1..(Len(s) - 1) : i + 1 \in 1..Len(s)
    BY <1>1
  <2>2. \A i, j \in 1..(Len(s) - 1) : i + 1 = j + 1 => i = j
    BY <1>1
  <2> QED BY <1>1, <1>3, <2>1, <2>2 DEF B!IsInjective
<1>4. ASSUME B!IsInjective(s) PROVE B!ToSet(Tail(s)) = B!ToSet(s) \ {Head(s)}
  <2>1. ASSUME NEW x \in B!ToSet(Tail(s)) PROVE x \in B!ToSet(s) \ {Head(s)}
    <3>1. PICK i \in 1..(Len(s) - 1) : x = Tail(s)[i]
      BY <1>1 DEF B!ToSet
    <3>2. i + 1 \in 1..Len(s) /\ 1 \in 1..Len(s) /\ i + 1 # 1 /\ x = s[i + 1]
      BY <1>1, <3>1
    <3> QED BY <1>1, <1>4, <3>2 DEF B!ToSet, B!IsInjective
  <2>2. ASSUME NEW x \in B!ToSet(s) \ {Head(s)} PROVE x \in B!ToSet(Tail(s))
    <3>1. PICK i \in 1..Len(s) : x = s[i]
      BY <1>1 DEF B!ToSet
    <3>2. i - 1 \in 1..(Len(s) - 1) /\ (i - 1) + 1 = i
      BY <1>1, <3>1
    <3>3. x = Tail(s)[i - 1]
      BY <1>1, <3>1, <3>2
    <3> QED BY <1>1, <3>2, <3>3 DEF B!ToSet
  <2> QED BY <2>1, <2>2
<1> QED BY <1>1, <1>2, <1>3, <1>4

\* A list with an element in front of it.
LEMMA PushedOnList ==
  ASSUME NEW E, NEW s \in Seq(E), NEW b \in E
  PROVE  /\ <<b>> \o s \in Seq(E) /\ <<b>> \o s # << >>
         /\ B!ToSet(<<b>> \o s) = B!ToSet(s) \cup {b}
         /\ B!IsInjective(s) /\ b \notin B!ToSet(s) => B!IsInjective(<<b>> \o s)
<1> DEFINE p == <<b>> \o s
<1>1. /\ p \in Seq(E) /\ Len(p) = Len(s) + 1 /\ Len(s) \in Nat /\ p[1] = b
      /\ \A i \in 1..Len(s) : p[i + 1] = s[i]
      /\ DOMAIN s = 1..Len(s) /\ DOMAIN p = 1..(Len(s) + 1)
  OBVIOUS
<1> HIDE DEF p
<1>2. \A i \in 1..(Len(s) + 1) : i = 1 \/ (i - 1 \in 1..Len(s) /\ (i - 1) + 1 = i)
  BY <1>1
<1>3. \A i \in 1..Len(s) : i + 1 \in 1..(Len(s) + 1)
  BY <1>1
<1>4. 1 \in 1..(Len(s) + 1)
  BY <1>1
<1>5. \A i \in 1..(Len(s) + 1) : i = 1 \/ (i - 1 \in 1..Len(s) /\ p[i] = s[i - 1])
  BY <1>1, <1>2
<1>6. B!ToSet(p) = B!ToSet(s) \cup {b}
  <2>1. ASSUME NEW x \in B!ToSet(p) PROVE x \in B!ToSet(s) \cup {b}
    <3>1. PICK i \in 1..(Len(s) + 1) : x = p[i]
      BY <1>1 DEF B!ToSet
    <3> QED BY <1>1, <1>5, <3>1 DEF B!ToSet
  <2>2. ASSUME NEW x \in B!ToSet(s) PROVE x \in B!ToSet(p)
    <3>1. PICK i \in 1..Len(s) : x = s[i]
      BY <1>1 DEF B!ToSet
    <3> QED BY <1>1, <1>3, <3>1 DEF B!ToSet
  <2>3. b \in B!ToSet(p)
    BY <1>1, <1>4 DEF B!ToSet
  <2> QED BY <2>1, <2>2, <2>3
<1>7. ASSUME B!IsInjective(s), b \notin B!ToSet(s) PROVE B!IsInjective(p)
  <2> SUFFICES ASSUME NEW i \in 1..(Len(s) + 1), NEW j \in 1..(Len(s) + 1), p[i] = p[j]
               PROVE  i = j
    BY <1>1 DEF B!IsInjective
  <2>1. \A k \in 1..Len(s) : s[k] # b
    BY <1>1, <1>7 DEF B!ToSet
  <2>2. i = 1 <=> j = 1
    BY <1>1, <1>5, <2>1
  <2>3. CASE i # 1
    <3>1. i - 1 = j - 1
      BY <1>1, <1>5, <1>7, <2>2, <2>3, SMTT(30) DEF B!IsInjective
    <3> QED BY <3>1
  <2> QED BY <2>2, <2>3
<1>8. p # << >>
  BY <1>1
<1> QED BY <1>1, <1>6, <1>7, <1>8 DEF p

\* A list from which the element at one place is removed.
LEMMA RemovedFromList ==
  ASSUME NEW E, NEW s \in Seq(E), NEW k \in 1..Len(s)
  PROVE  /\ B!RemoveAt(s, k) \in Seq(E)
         /\ B!IsInjective(s) => /\ B!IsInjective(B!RemoveAt(s, k))
                                /\ B!ToSet(B!RemoveAt(s, k)) = B!ToSet(s) \ {s[k]}
<1> DEFINE r == B!RemoveAt(s, k)
           n == Len(s)
<1>1. /\ r \in Seq(E) /\ Len(r) = n - 1 /\ n \in Nat
      /\ \A i \in 1..(n - 1) : r[i] = IF i < k THEN s[i] ELSE s[i + 1]
  <2> DEFINE s1 == SubSeq(s, 1, k - 1)
             s2 == SubSeq(s, k + 1, n)
  <2>1. /\ s1 \in Seq(E) /\ Len(s1) = k - 1 /\ \A i \in 1..(k - 1) : s1[i] = s[i]
    OBVIOUS
  <2>2. /\ s2 \in Seq(E) /\ Len(s2) = n - k /\ \A i \in 1..(n - k) : s2[i] = s[k + i]
    OBVIOUS
  <2> HIDE DEF s1, s2
  <2>3. /\ s1 \o s2 \in Seq(E) /\ Len(s1 \o s2) = Len(s1) + Len(s2)
        /\ \A i \in 1..Len(s1) : (s1 \o s2)[i] = s1[i]
        /\ \A i \in 1..Len(s2) : (s1 \o s2)[Len(s1) + i] = s2[i]
    <3>1. s1 \in Seq(E) /\ s2 \in Seq(E)
      BY <2>1, <2>2
    <3> QED BY <3>1, ConcatIs
  <2>4. r = s1 \o s2
    BY DEF B!RemoveAt, s1, s2
  <2> HIDE DEF r
  <2>5. n \in Nat /\ k \in 1..n
    OBVIOUS
  <2> HIDE DEF n
  <2>6. /\ r \in Seq(E) /\ Len(r) = n - 1
        /\ \A i \in 1..(k - 1) : r[i] = s[i]
        /\ \A i \in 1..(n - k) : r[k - 1 + i] = s[k + i]
    <3>1. Len(s1) = k - 1 /\ Len(s2) = n - k
      BY <2>1, <2>2 DEF n
    <3>2. r \in Seq(E) /\ Len(r) = n - 1
      <4>1. Len(r) = (k - 1) + (n - k) /\ r \in Seq(E)
        BY <2>3, <2>4, <3>1, Zenon
      <4> QED BY <2>5, <4>1
    <3>3. \A i \in 1..(k - 1) : r[i] = s[i]
      BY <2>1, <2>3, <2>4, <3>1
    <3>4. \A i \in 1..(n - k) : r[k - 1 + i] = s[k + i]
      BY <2>2, <2>3, <2>4, <3>1 DEF n
    <3> QED BY <3>2, <3>3, <3>4
  <2>7. ASSUME NEW i \in 1..(n - 1) PROVE r[i] = IF i < k THEN s[i] ELSE s[i + 1]
    <3>1. CASE i < k
      <4>1. i \in 1..(k - 1)
        BY <2>5, <3>1
      <4> QED BY <2>6, <3>1, <4>1
    <3>2. CASE ~ (i < k)
      <4> DEFINE m == i - (k - 1)
      <4>1. m \in 1..(n - k) /\ k - 1 + m = i /\ k + m = i + 1
        BY <2>5, <3>2
      <4> HIDE DEF m
      <4>2. r[k - 1 + m] = s[k + m]
        BY <2>6, <4>1
      <4> QED BY <3>2, <4>1, <4>2
    <3> QED BY <3>1, <3>2
  <2> QED BY <2>5, <2>6, <2>7
<1>2. DOMAIN s = 1..n /\ DOMAIN r = 1..(n - 1) /\ k \in 1..n
  BY <1>1
<1> HIDE DEF r, n
<1> DEFINE at(i) == IF i < k THEN i ELSE i + 1
<1>3. /\ \A i \in 1..(n - 1) : at(i) \in 1..n /\ at(i) # k /\ r[i] = s[at(i)]
      /\ \A i, j \in 1..(n - 1) : at(i) = at(j) => i = j
  BY <1>1, <1>2
<1>4. \A j \in 1..n : j # k => \E i \in 1..(n - 1) : at(i) = j
  <2> SUFFICES ASSUME NEW j \in 1..n, j # k PROVE \E i \in 1..(n - 1) : at(i) = j
    OBVIOUS
  <2>1. CASE j < k
    <3>1. j \in 1..(n - 1) /\ at(j) = j
      BY <1>1, <1>2, <2>1
    <3> QED BY <3>1
  <2>2. CASE j > k
    <3>1. j - 1 \in 1..(n - 1) /\ at(j - 1) = j
      BY <1>1, <1>2, <2>2
    <3> QED BY <3>1
  <2> QED BY <1>2, <2>1, <2>2
<1> HIDE DEF at
<1>5. ASSUME B!IsInjective(s) PROVE B!IsInjective(r)
  BY <1>2, <1>3, <1>5 DEF B!IsInjective
<1>6. ASSUME B!IsInjective(s) PROVE B!ToSet(r) = B!ToSet(s) \ {s[k]}
  BY <1>2, <1>3, <1>4, <1>6 DEF B!IsInjective, B!ToSet
<1> QED BY <1>1, <1>5, <1>6 DEF r

-----------------------------------------------------------------------------
Free    == B!ToSet(list_free)

Pending == B!ToSet(list_pending)

\* Every buffer is in one place, said of the sets of what is on the lists.
Conserved ==
  /\ B!IsInjective(list_free) /\ B!IsInjective(list_pending)
  /\ Free \cap Pending = {}
  /\ {active, buffer} \cap (Free \cup Pending) = {}
  /\ active # 0 => active # buffer
  /\ B!Buffers \subseteq Free \cup Pending \cup {active, buffer}

\* The number of the packet the thread is reading, or has read.
NumberRead == IF data_read = ItemsOfPacket THEN device.number - 1 ELSE device.number

\* What the thread has read so far is the beginning of the packet.
ReadInOrder ==
  /\ buffer = 0 => data_read = 0
  /\ device.taken = IF data_read = ItemsOfPacket THEN 0 ELSE data_read
  /\ buffer # 0 => \A i \in 1..data_read : /\ buffers[buffer][i].place = i
                                           /\ buffers[buffer][i].number = NumberRead
  /\ buffer # 0 /\ data_read >= 1 => B!TypeOf(buffer) \in PacketTypes

Whole(b) ==
  /\ B!TypeOf(b) \in PacketTypes
  /\ \A i \in 1..ItemsOfPacket : /\ buffers[b][i].place = i
                                 /\ buffers[b][i].number = buffers[b][1].number

WholePackets == \A b \in Pending \cup ({active} \ {0}) : Whole(b)

\* One packet of each type waits, newer than the last one received and older
\* than the one being read.
OneOfEachType == \A b, c \in Pending : B!TypeOf(b) = B!TypeOf(c) => b = c

NewerWait ==
  /\ \A b \in Pending : /\ buffers[b][1].number < NumberRead
                        /\ latest[B!TypeOf(b)] < buffers[b][1].number
  /\ \A t \in PacketTypes : latest[t] < NumberRead

UnfailedInv == ReadInOrder /\ WholePackets /\ OneOfEachType /\ NewerWait

BuffersInv == B!TypeOK /\ Conserved /\ (failures = 0 => UnfailedInv)

\* What a typed state is.
BufferNumbers ==
  /\ list_free \in Seq(B!Buffers) /\ list_pending \in Seq(B!Buffers)
  /\ Free \subseteq B!Buffers /\ Pending \subseteq B!Buffers /\ 0 \notin B!Buffers
  /\ active \in {0} \cup B!Buffers /\ buffer \in {0} \cup B!Buffers
  /\ data_read \in 0..ItemsOfPacket /\ failures \in 0..MaxFailures
  /\ device \in [number : 1..(DevicePackets + 1), taken : 0..(ItemsOfPacket - 1)]
  /\ device.number \in 1..(DevicePackets + 1) /\ device.taken \in 0..(ItemsOfPacket - 1)
  /\ r_idx \in [B!Buffers -> 0..(ItemsOfPacket - 1)]
  /\ buffers \in [B!Buffers -> [1..ItemsOfPacket -> B!ItemSet]]
  /\ latest \in [PacketTypes -> 0..DevicePackets]
  /\ \A b \in B!Buffers, i \in 1..ItemsOfPacket :
       buffers[b][i].number \in 0..DevicePackets /\ buffers[b][i].place \in 0..ItemsOfPacket
  /\ 1 \in 1..ItemsOfPacket

\* The types, as numbers and sets.
LEMMA BufferTypes == ASSUME B!TypeOK PROVE BufferNumbers
<1>1. /\ list_free \in Seq(B!Buffers) /\ list_pending \in Seq(B!Buffers)
      /\ active \in {0} \cup B!Buffers /\ buffer \in {0} \cup B!Buffers
      /\ buffers \in [B!Buffers -> [1..ItemsOfPacket -> B!ItemSet]]
      /\ r_idx \in [B!Buffers -> 0..(ItemsOfPacket - 1)]
      /\ data_read \in 0..ItemsOfPacket /\ failures \in 0..MaxFailures
      /\ device \in [number : 1..(DevicePackets + 1), taken : 0..(ItemsOfPacket - 1)]
      /\ latest \in [PacketTypes -> 0..DevicePackets]
  BY DEF B!TypeOK
<1>2. Free \subseteq B!Buffers /\ Pending \subseteq B!Buffers
  BY <1>1 DEF Free, Pending, B!ToSet
<1>3. 0 \notin B!Buffers /\ 1 \in 1..ItemsOfPacket
  BY BufferConstants DEF B!Buffers
<1>4. \A x \in B!ItemSet : x.number \in 0..DevicePackets /\ x.place \in 0..ItemsOfPacket
  BY BufferConstants DEF B!ItemSet, B!NoItem
<1>5. \A b \in B!Buffers, i \in 1..ItemsOfPacket : buffers[b][i] \in B!ItemSet
  BY <1>1
<1>6. \A b \in B!Buffers, i \in 1..ItemsOfPacket :
        buffers[b][i].number \in 0..DevicePackets /\ buffers[b][i].place \in 0..ItemsOfPacket
  BY <1>4, <1>5
<1> QED BY <1>1, <1>2, <1>3, <1>6 DEF BufferNumbers

\* All buffers begin free.
LEMMA BuffersInvInit == B!Init => BuffersInv
<1> SUFFICES ASSUME B!Init PROVE BuffersInv
  OBVIOUS
<1>1. /\ list_free = [i \in 1..NumBuffers |-> NumBuffers + 1 - i] /\ list_pending = << >>
      /\ active = 0 /\ buffer = 0 /\ data_read = 0 /\ failures = 0
      /\ buffers = [b \in B!Buffers |-> [i \in 1..ItemsOfPacket |-> B!NoItem]]
      /\ r_idx = [b \in B!Buffers |-> 0]
      /\ device = [number |-> 1, taken |-> 0]
      /\ latest = [t \in PacketTypes |-> 0]
  BY DEF B!Init
<1>2. \A i \in 1..NumBuffers : NumBuffers + 1 - i \in B!Buffers
  BY BufferConstants DEF B!Buffers
<1>3. list_free \in Seq(B!Buffers) /\ DOMAIN list_free = 1..NumBuffers
  BY <1>1, <1>2, BufferConstants
<1>4. B!TypeOK
  <2>1. buffers \in [B!Buffers -> [1..ItemsOfPacket -> B!ItemSet]]
    BY <1>1 DEF B!ItemSet
  <2>2. /\ r_idx \in [B!Buffers -> 0..(ItemsOfPacket - 1)]
        /\ data_read \in 0..ItemsOfPacket /\ failures \in 0..MaxFailures
        /\ latest \in [PacketTypes -> 0..DevicePackets]
    BY <1>1, BufferConstants
  <2>3. device \in [number : 1..(DevicePackets + 1), taken : 0..(ItemsOfPacket - 1)]
    BY <1>1, BufferConstants
  <2>4. list_pending \in Seq(B!Buffers)
    BY <1>1
  <2> QED BY <1>1, <1>3, <2>1, <2>2, <2>3, <2>4 DEF B!TypeOK
<1>5. Pending = {}
  BY <1>1 DEF Pending, B!ToSet
<1>6. B!Buffers \subseteq Free
  <2> SUFFICES ASSUME NEW b \in B!Buffers PROVE b \in Free
    OBVIOUS
  <2>1. NumBuffers + 1 - b \in 1..NumBuffers /\ NumBuffers + 1 - (NumBuffers + 1 - b) = b
    BY BufferConstants DEF B!Buffers
  <2>2. list_free[NumBuffers + 1 - b] = b
    BY <1>1, <2>1
  <2> QED BY <1>3, <2>1, <2>2 DEF Free, B!ToSet
<1>7. Free \subseteq B!Buffers /\ 0 \notin B!Buffers
  BY <1>4, BufferTypes DEF BufferNumbers
<1>8. B!IsInjective(list_free) /\ B!IsInjective(list_pending)
  <2>1. \A i, j \in 1..NumBuffers : NumBuffers + 1 - i = NumBuffers + 1 - j => i = j
    BY BufferConstants
  <2>2. B!IsInjective(list_free)
    BY <1>1, <1>3, <2>1 DEF B!IsInjective
  <2> QED BY <1>1, <2>2 DEF B!IsInjective
<1>9. Conserved
  BY <1>1, <1>5, <1>6, <1>7, <1>8 DEF Conserved
<1>10. UnfailedInv
  <2>1. NumberRead = 1
    BY <1>1, BufferConstants DEF NumberRead
  <2>2. ReadInOrder
    BY <1>1, BufferConstants DEF ReadInOrder
  <2>3. WholePackets /\ OneOfEachType /\ NewerWait
    BY <1>1, <1>5, <2>1 DEF WholePackets, OneOfEachType, NewerWait
  <2> QED BY <2>2, <2>3 DEF UnfailedInv
<1> QED BY <1>4, <1>9, <1>10 DEF BuffersInv

\* get_free.
LEMMA GetFreeStep ==
  ASSUME BuffersInv, B!GetFree PROVE BuffersInv'
<1>1. BufferNumbers /\ Conserved
  BY BufferTypes DEF BuffersInv
<1>2. /\ buffer = 0 /\ list_free # << >> /\ buffer' = Head(list_free) /\ list_free' = Tail(list_free)
      /\ UNCHANGED <<list_pending, active, buffers, r_idx, data_read, device, failures, latest>>
  BY DEF B!GetFree, B!bufferVars
<1>3. /\ buffer' \in Free /\ list_free' \in Seq(B!Buffers)
      /\ B!IsInjective(list_free') /\ Free' = Free \ {buffer'}
  <2>1. list_free \in Seq(B!Buffers) /\ list_free # << >> /\ B!IsInjective(list_free)
    BY <1>1, <1>2 DEF BufferNumbers, Conserved
  <2> QED BY <1>2, <2>1, TailOfList DEF Free
<1>4. Pending' = Pending
  BY <1>2 DEF Pending
<1>5. B!TypeOK'
  <2>1. buffer' \in {0} \cup B!Buffers
    BY <1>1, <1>3 DEF BufferNumbers
  <2> QED BY <1>2, <1>3, <2>1 DEF BuffersInv, B!TypeOK
<1>6. Conserved'
  BY <1>1, <1>2, <1>3, <1>4 DEF Conserved, BufferNumbers
<1>7. ASSUME failures' = 0 PROVE UnfailedInv'
  <2>1. UnfailedInv
    BY <1>2, <1>7 DEF BuffersInv
  <2>2. data_read = 0 /\ device.taken = 0 /\ data_read # ItemsOfPacket
    BY <1>2, <2>1, BufferConstants DEF UnfailedInv, ReadInOrder
  <2>3. ReadInOrder'
    BY <1>2, <2>2 DEF ReadInOrder
  <2>4. (WholePackets /\ OneOfEachType /\ NewerWait)'
    BY <1>2, <1>4, <2>1
      DEF UnfailedInv, WholePackets, Whole, OneOfEachType, NewerWait, NumberRead, B!TypeOf
  <2> QED BY <2>3, <2>4 DEF UnfailedInv
<1> QED BY <1>5, <1>6, <1>7 DEF BuffersInv

\* What a read leaves in the buffers and what it does to the device.
LEMMA ReadEffect ==
  ASSUME BufferNumbers, buffer # 0, data_read < ItemsOfPacket, device.number <= DevicePackets,
         NEW n \in 1..(ItemsOfPacket - data_read), NEW t \in PacketTypes,
         device.taken + n <= ItemsOfPacket,
         device' = B!Taken(n), buffers' = [buffers EXCEPT ![buffer] = B!Filled(n, t)]
  PROVE  /\ device' \in [number : 1..(DevicePackets + 1), taken : 0..(ItemsOfPacket - 1)]
         /\ device.taken + n < ItemsOfPacket =>
              device'.number = device.number /\ device'.taken = device.taken + n
         /\ device.taken + n = ItemsOfPacket =>
              device'.number = device.number + 1 /\ device'.taken = 0
         /\ buffers' \in [B!Buffers -> [1..ItemsOfPacket -> B!ItemSet]]
         /\ \A b \in B!Buffers : b # buffer => buffers'[b] = buffers[b]
         /\ \A i \in 1..ItemsOfPacket :
              buffers'[buffer][i] = IF i > data_read /\ i <= data_read + n
                                    THEN B!Item(t, device.taken + i - data_read)
                                    ELSE buffers[buffer][i]
<1>1. /\ buffer \in B!Buffers /\ device.number \in 1..DevicePackets
      /\ device.taken \in 0..(ItemsOfPacket - 1) /\ data_read \in 0..ItemsOfPacket
      /\ buffers \in [B!Buffers -> [1..ItemsOfPacket -> B!ItemSet]]
      /\ device \in [number : 1..(DevicePackets + 1), taken : 0..(ItemsOfPacket - 1)]
  BY BufferConstants DEF BufferNumbers
<1>2. /\ device' \in [number : 1..(DevicePackets + 1), taken : 0..(ItemsOfPacket - 1)]
      /\ device.taken + n < ItemsOfPacket =>
           device'.number = device.number /\ device'.taken = device.taken + n
      /\ device.taken + n = ItemsOfPacket =>
           device'.number = device.number + 1 /\ device'.taken = 0
  <2>1. CASE device.taken + n < ItemsOfPacket
    <3>1. device' = [device EXCEPT !.taken = @ + n]
      BY <2>1 DEF B!Taken
    <3>2. device.taken + n \in 0..(ItemsOfPacket - 1)
      BY <1>1, <2>1, BufferConstants
    <3> QED BY <1>1, <2>1, <3>1, <3>2, BufferConstants, SMTT(30)
  <2>2. CASE ~ (device.taken + n < ItemsOfPacket)
    <3>1. device' = [number |-> device.number + 1, taken |-> 0]
      BY <2>2 DEF B!Taken
    <3>2. device.number + 1 \in 1..(DevicePackets + 1) /\ 0 \in 0..(ItemsOfPacket - 1)
      BY <1>1, BufferConstants
    <3> QED BY <2>2, <3>1, <3>2, BufferConstants
  <2> QED BY <2>1, <2>2
<1>4. \A i \in 1..ItemsOfPacket : i > data_read /\ i <= data_read + n =>
        B!Item(t, device.taken + i - data_read) \in B!ItemSet
  <2> SUFFICES ASSUME NEW i \in 1..ItemsOfPacket, i > data_read, i <= data_read + n
               PROVE  B!Item(t, device.taken + i - data_read) \in B!ItemSet
    OBVIOUS
  <2>1. device.taken + i - data_read \in 1..ItemsOfPacket
    BY <1>1, BufferConstants
  <2> QED BY <1>1, <2>1 DEF B!Item, B!ItemSet
<1>5. B!Filled(n, t) \in [1..ItemsOfPacket -> B!ItemSet]
  BY <1>1, <1>4 DEF B!Filled
<1>6. /\ buffers' \in [B!Buffers -> [1..ItemsOfPacket -> B!ItemSet]]
      /\ buffers'[buffer] = B!Filled(n, t)
      /\ \A b \in B!Buffers : b # buffer => buffers'[b] = buffers[b]
  BY <1>1, <1>5
<1>7. \A i \in 1..ItemsOfPacket :
        B!Filled(n, t)[i] = IF i > data_read /\ i <= data_read + n
                            THEN B!Item(t, device.taken + i - data_read) ELSE buffers[buffer][i]
  BY DEF B!Filled
<1> QED BY <1>2, <1>6, <1>7

\* The thread reads from the device.
LEMMA ReadStep ==
  ASSUME BuffersInv, B!Read PROVE BuffersInv'
<1>1. BufferNumbers /\ Conserved
  BY BufferTypes DEF BuffersInv
<1>2. /\ buffer # 0 /\ data_read < ItemsOfPacket /\ device.number <= DevicePackets
      /\ UNCHANGED <<list_free, list_pending, active, r_idx, buffer, failures, latest>>
  BY DEF B!Read, B!listVars
<1>3. PICK n \in 1..(ItemsOfPacket - data_read), t \in PacketTypes :
        /\ device.taken + n <= ItemsOfPacket
        /\ device' = B!Taken(n) /\ data_read' = data_read + n
        /\ buffers' = [buffers EXCEPT ![buffer] = B!Filled(n, t)]
  BY DEF B!Read
<1>4. /\ device' \in [number : 1..(DevicePackets + 1), taken : 0..(ItemsOfPacket - 1)]
      /\ device.taken + n < ItemsOfPacket =>
           device'.number = device.number /\ device'.taken = device.taken + n
      /\ device.taken + n = ItemsOfPacket =>
           device'.number = device.number + 1 /\ device'.taken = 0
      /\ buffers' \in [B!Buffers -> [1..ItemsOfPacket -> B!ItemSet]]
      /\ \A b \in B!Buffers : b # buffer => buffers'[b] = buffers[b]
      /\ \A i \in 1..ItemsOfPacket :
           buffers'[buffer][i] = IF i > data_read /\ i <= data_read + n
                                 THEN B!Item(t, device.taken + i - data_read)
                                 ELSE buffers[buffer][i]
  BY <1>1, <1>2, <1>3, ReadEffect
<1>5. data_read' \in 0..ItemsOfPacket
  BY <1>1, <1>3, BufferConstants DEF BufferNumbers
<1>6. B!TypeOK'
  BY <1>2, <1>4, <1>5 DEF BuffersInv, B!TypeOK
<1>7. Free' = Free /\ Pending' = Pending /\ Conserved'
  BY <1>1, <1>2 DEF Free, Pending, Conserved
<1>8. ASSUME failures' = 0 PROVE UnfailedInv'
  <2>1. ReadInOrder /\ WholePackets /\ OneOfEachType /\ NewerWait
    BY <1>2, <1>8 DEF BuffersInv, UnfailedInv
  <2>2. /\ device.taken = data_read /\ NumberRead = device.number
        /\ data_read \in 0..ItemsOfPacket /\ data_read' = data_read + n
    BY <1>1, <1>2, <1>3, <2>1, BufferConstants DEF ReadInOrder, NumberRead, BufferNumbers
  <2>3. NumberRead' = NumberRead
        /\ device'.taken = IF data_read' = ItemsOfPacket THEN 0 ELSE data_read'
    BY <1>1, <1>3, <1>4, <2>2, BufferConstants, SMTT(30) DEF NumberRead, BufferNumbers
  <2>4. \A i \in 1..data_read' : /\ buffers'[buffer][i].place = i
                                 /\ buffers'[buffer][i].number = NumberRead
    <3> SUFFICES ASSUME NEW i \in 1..data_read'
                 PROVE  /\ buffers'[buffer][i].place = i
                        /\ buffers'[buffer][i].number = NumberRead
      OBVIOUS
    <3>1. i \in 1..ItemsOfPacket
      BY <1>5, BufferConstants
    <3>2. CASE i > data_read
      <4>1. i <= data_read + n /\ device.taken + i - data_read = i
        BY <2>2, <3>1
      <4>2. buffers'[buffer][i] = B!Item(t, i)
        BY <1>4, <3>1, <3>2, <4>1
      <4> QED BY <2>2, <4>2 DEF B!Item
    <3>3. CASE ~ (i > data_read)
      <4>1. buffers'[buffer][i] = buffers[buffer][i] /\ i \in 1..data_read
        BY <1>4, <2>2, <3>1, <3>3
      <4> QED BY <1>2, <2>1, <4>1 DEF ReadInOrder
    <3> QED BY <3>2, <3>3
  <2>5. B!TypeOf(buffer)' \in PacketTypes
    <3>1. 1 \in 1..ItemsOfPacket
      BY BufferConstants
    <3>2. CASE data_read = 0
      <4>1. buffers'[buffer][1] = B!Item(t, 1)
        BY <1>3, <1>4, <2>2, <3>1, <3>2
      <4> QED BY <1>2, <4>1 DEF B!Item, B!TypeOf
    <3>3. CASE data_read # 0
      <4>1. data_read >= 1 /\ buffers'[buffer][1] = buffers[buffer][1]
        BY <1>4, <2>2, <3>1, <3>3
      <4> QED BY <1>2, <2>1, <4>1 DEF ReadInOrder, B!TypeOf
    <3> QED BY <3>2, <3>3
  <2>6. ReadInOrder'
    BY <1>2, <2>3, <2>4, <2>5 DEF ReadInOrder
  <2>7. \A b \in Pending \cup ({active} \ {0}) : buffers'[b] = buffers[b]
    BY <1>1, <1>4 DEF Conserved, BufferNumbers
  <2>8. (WholePackets /\ OneOfEachType /\ NewerWait)'
    BY <1>2, <1>7, <2>1, <2>3, <2>7
      DEF WholePackets, Whole, OneOfEachType, NewerWait, B!TypeOf
  <2> QED BY <2>6, <2>8 DEF UnfailedInv
<1> QED BY <1>6, <1>7, <1>8 DEF BuffersInv

\* A read fails.
LEMMA ReadFailsStep ==
  ASSUME BuffersInv, B!ReadFails PROVE BuffersInv'
<1>1. BufferNumbers /\ Conserved
  BY BufferTypes DEF BuffersInv
<1>2. /\ buffer # 0 /\ failures < MaxFailures /\ failures' = failures + 1
      /\ list_free' = <<buffer>> \o list_free /\ buffer' = 0
      /\ UNCHANGED <<list_pending, active, buffers, r_idx, data_read, device, latest>>
  BY DEF B!ReadFails, B!Freed, B!bufferVars
<1>3. /\ list_free' \in Seq(B!Buffers) /\ Free' = Free \cup {buffer}
      /\ B!IsInjective(list_free')
  <2>1. list_free \in Seq(B!Buffers) /\ buffer \in B!Buffers /\ B!IsInjective(list_free)
        /\ buffer \notin B!ToSet(list_free)
    BY <1>1, <1>2 DEF BufferNumbers, Conserved, Free
  <2> QED BY <1>2, <2>1, PushedOnList DEF Free
<1>4. Pending' = Pending
  BY <1>2 DEF Pending
<1>5. failures' \in 0..MaxFailures /\ failures' # 0
  BY <1>1, <1>2, BufferConstants DEF BufferNumbers
<1>6. B!TypeOK'
  BY <1>2, <1>3, <1>5 DEF BuffersInv, B!TypeOK
<1>7. Conserved'
  BY <1>1, <1>2, <1>3, <1>4 DEF Conserved, BufferNumbers
<1> QED BY <1>5, <1>6, <1>7 DEF BuffersInv

\* What putting the thread's buffer on the pending list does to the lists.
LEMMA PutEffect ==
  ASSUME BufferNumbers, Conserved, B!PutPendingDelete
  PROVE  /\ list_pending' \in Seq(B!Buffers) /\ list_free' \in Seq(B!Buffers)
         /\ B!IsInjective(list_pending') /\ B!IsInjective(list_free')
         /\ \/ /\ \A b \in Pending : B!TypeOf(b) # B!TypeOf(buffer)
               /\ Pending' = Pending \cup {buffer} /\ Free' = Free
            \/ \E old \in Pending :
                 /\ B!TypeOf(old) = B!TypeOf(buffer)
                 /\ Pending' = (Pending \ {old}) \cup {buffer} /\ Free' = Free \cup {old}
<1> DEFINE older == B!OlderOnes(buffer)
           k == B!First(older)
<1>1. /\ buffer \in B!Buffers /\ list_pending \in Seq(B!Buffers) /\ list_free \in Seq(B!Buffers)
      /\ B!IsInjective(list_free) /\ B!IsInjective(list_pending)
      /\ buffer \notin Pending /\ buffer \notin Free /\ Free \cap Pending = {}
  BY DEF BufferNumbers, Conserved, B!PutPendingDelete
<1>2. /\ DOMAIN list_pending = 1..Len(list_pending) /\ Len(list_pending) \in Nat
      /\ older = {i \in 1..Len(list_pending) : B!TypeOf(list_pending[i]) = B!TypeOf(buffer)}
  BY <1>1 DEF B!OlderOnes
<1>3. CASE older = {}
  <2>1. list_pending' = <<buffer>> \o list_pending /\ list_free' = list_free
    BY <1>3 DEF B!PutPendingDelete
  <2>2. /\ list_pending' \in Seq(B!Buffers) /\ B!IsInjective(list_pending')
        /\ Pending' = Pending \cup {buffer}
    BY <1>1, <2>1, PushedOnList DEF Pending
  <2>3. \A b \in Pending : B!TypeOf(b) # B!TypeOf(buffer)
    BY <1>2, <1>3 DEF Pending, B!ToSet
  <2>4. Free' = Free
    BY <2>1 DEF Free
  <2> QED BY <1>1, <2>1, <2>2, <2>3, <2>4
<1>4. CASE older # {}
  <2>1. k \in older
    <3>1. older \in SUBSET Nat
      BY <1>2
    <3>2. \E i \in older : \A j \in older : i <= j
      BY <1>4, <3>1, LeastIs
    <3> HIDE DEF older
    <3> QED BY <3>2 DEF B!First
  <2> DEFINE old == list_pending[k]
             rest == B!RemoveAt(list_pending, k)
  <2>2. list_pending' = <<buffer>> \o rest /\ list_free' = <<old>> \o list_free
    BY <1>4 DEF B!PutPendingDelete, B!Freed
  <2>3. k \in 1..Len(list_pending) /\ B!TypeOf(old) = B!TypeOf(buffer)
    BY <1>2, <2>1
  <2> HIDE DEF k
  <2>4. rest \in Seq(B!Buffers) /\ B!IsInjective(rest) /\ B!ToSet(rest) = Pending \ {old}
    BY <1>1, <2>3, RemovedFromList DEF Pending
  <2>5. old \in Pending /\ old \in B!Buffers
    BY <1>1, <1>2, <2>3 DEF Pending, B!ToSet
  <2> HIDE DEF old, rest
  <2>6. /\ list_pending' \in Seq(B!Buffers) /\ B!IsInjective(list_pending')
        /\ Pending' = (Pending \ {old}) \cup {buffer}
    <3>1. buffer \notin B!ToSet(rest)
      BY <1>1, <2>4
    <3> QED BY <1>1, <2>2, <2>4, <3>1, PushedOnList DEF Pending
  <2>7. /\ list_free' \in Seq(B!Buffers) /\ B!IsInjective(list_free')
        /\ Free' = Free \cup {old}
    <3>1. old \notin B!ToSet(list_free)
      BY <1>1, <2>5 DEF Free
    <3> QED BY <1>1, <2>2, <2>5, <3>1, PushedOnList DEF Free
  <2> QED BY <2>3, <2>5, <2>6, <2>7 DEF old
<1> QED BY <1>3, <1>4

\* put_pending_delete.
LEMMA PutPendingDeleteStep ==
  ASSUME BuffersInv, B!PutPendingDelete PROVE BuffersInv'
<1>1. BufferNumbers /\ Conserved
  BY BufferTypes DEF BuffersInv
<1>2. /\ buffer # 0 /\ data_read = ItemsOfPacket /\ buffer' = 0 /\ data_read' = 0
      /\ r_idx' = [r_idx EXCEPT ![buffer] = 0]
      /\ UNCHANGED <<active, buffers, device, failures, latest>>
  BY DEF B!PutPendingDelete, B!ReadSoFar
<1>3. /\ list_pending' \in Seq(B!Buffers) /\ list_free' \in Seq(B!Buffers)
      /\ B!IsInjective(list_pending') /\ B!IsInjective(list_free')
      /\ \/ /\ \A b \in Pending : B!TypeOf(b) # B!TypeOf(buffer)
            /\ Pending' = Pending \cup {buffer} /\ Free' = Free
         \/ \E old \in Pending :
              /\ B!TypeOf(old) = B!TypeOf(buffer)
              /\ Pending' = (Pending \ {old}) \cup {buffer} /\ Free' = Free \cup {old}
  BY <1>1, PutEffect
<1>4. B!TypeOK'
  <2>1. r_idx' \in [B!Buffers -> 0..(ItemsOfPacket - 1)] /\ data_read' \in 0..ItemsOfPacket
    BY <1>1, <1>2, BufferConstants DEF BufferNumbers
  <2> QED BY <1>2, <1>3, <2>1 DEF BuffersInv, B!TypeOK
<1>5. Conserved'
  <2>1. /\ Free \cap Pending = {} /\ {active, buffer} \cap (Free \cup Pending) = {}
        /\ active # 0 => active # buffer
        /\ B!Buffers \subseteq Free \cup Pending \cup {active, buffer}
        /\ 0 \notin Free /\ 0 \notin Pending /\ 0 \notin B!Buffers
    BY <1>1 DEF Conserved, BufferNumbers
  <2>2. CASE Pending' = Pending \cup {buffer} /\ Free' = Free
    BY <1>2, <1>3, <2>1, <2>2 DEF Conserved
  <2>3. ASSUME NEW old \in Pending,
               Pending' = (Pending \ {old}) \cup {buffer}, Free' = Free \cup {old}
        PROVE  Conserved'
    BY <1>2, <1>3, <2>1, <2>3 DEF Conserved
  <2> QED BY <1>3, <2>2, <2>3
<1>6. ASSUME failures' = 0 PROVE UnfailedInv'
  <2>1. ReadInOrder /\ WholePackets /\ OneOfEachType /\ NewerWait
    BY <1>2, <1>6 DEF BuffersInv, UnfailedInv
  <2>2. /\ device.number \in Nat /\ 0 # ItemsOfPacket
        /\ NumberRead = device.number - 1 /\ NumberRead' = device.number
    BY <1>1, <1>2, BufferConstants DEF NumberRead, BufferNumbers
  <2>3. ReadInOrder'
    BY <1>2, <2>1, <2>2 DEF ReadInOrder
  <2>4. /\ Pending' \subseteq Pending \cup {buffer}
        /\ \A b \in Pending' : b # buffer => B!TypeOf(b) # B!TypeOf(buffer)
    BY <1>1, <1>3, <2>1 DEF OneOfEachType, Conserved
  <2>5. /\ B!TypeOf(buffer) \in PacketTypes
        /\ \A i \in 1..ItemsOfPacket : /\ buffers[buffer][i].place = i
                                       /\ buffers[buffer][i].number = NumberRead
        /\ buffers[buffer][1].number = NumberRead
    BY <1>1, <1>2, <2>1, BufferConstants DEF ReadInOrder, BufferNumbers
  <2>6. WholePackets'
    BY <1>2, <2>1, <2>4, <2>5 DEF WholePackets, Whole, B!TypeOf
  <2>7. OneOfEachType'
    BY <1>2, <2>1, <2>4 DEF OneOfEachType, B!TypeOf
  <2>8. NewerWait'
    <3>1. \A x \in 0..DevicePackets : x < NumberRead => x < NumberRead'
      BY <2>2, BufferConstants
    <3>2. \A b \in Pending' : buffers[b][1].number < NumberRead'
      <4>1. \A b \in Pending : buffers[b][1].number \in 0..DevicePackets
        BY <1>1 DEF BufferNumbers
      <4>2. NumberRead < NumberRead'
        BY <2>2
      <4> QED BY <2>1, <2>4, <2>5, <3>1, <4>1, <4>2 DEF NewerWait
    <3>3. \A b \in Pending' : latest[B!TypeOf(b)] < buffers[b][1].number
      BY <2>1, <2>4, <2>5 DEF NewerWait
    <3>4. \A u \in PacketTypes : latest[u] < NumberRead'
      <4>1. \A u \in PacketTypes : latest[u] \in 0..DevicePackets
        BY <1>1 DEF BufferNumbers
      <4> QED BY <2>1, <3>1, <4>1 DEF NewerWait
    <3> QED BY <1>2, <3>2, <3>3, <3>4 DEF NewerWait, B!TypeOf
  <2> QED BY <2>3, <2>6, <2>7, <2>8 DEF UnfailedInv
<1> QED BY <1>4, <1>5, <1>6 DEF BuffersInv

\* get_pending, by a reader.
LEMMA GetActivePendingStep ==
  ASSUME BuffersInv, B!GetActivePending
  PROVE  /\ BuffersInv'
         /\ failures = 0 => \A t \in PacketTypes : latest'[t] >= latest[t]
<1>1. BufferNumbers /\ Conserved
  BY BufferTypes DEF BuffersInv
<1>2. /\ active = 0 /\ list_pending # << >>
      /\ active' = Head(list_pending) /\ list_pending' = Tail(list_pending)
      /\ latest' = IF B!TypeOf(active') \in PacketTypes
                   THEN [latest EXCEPT ![B!TypeOf(active')] = buffers[active'][1].number] ELSE latest
      /\ UNCHANGED <<list_free, buffers, r_idx, buffer, data_read, device, failures>>
  BY DEF B!GetActivePending, B!bufferVars, B!threadVars
<1>3. /\ active' \in Pending /\ list_pending' \in Seq(B!Buffers)
      /\ B!IsInjective(list_pending') /\ Pending' = Pending \ {active'}
  <2>1. list_pending \in Seq(B!Buffers) /\ list_pending # << >> /\ B!IsInjective(list_pending)
    BY <1>1, <1>2 DEF BufferNumbers, Conserved
  <2> QED BY <1>2, <2>1, TailOfList DEF Pending
<1>4. Free' = Free
  BY <1>2 DEF Free
<1>5. active' \in B!Buffers /\ buffers[active'][1].number \in 0..DevicePackets
  BY <1>1, <1>3 DEF BufferNumbers
<1>6. latest' \in [PacketTypes -> 0..DevicePackets]
  BY <1>1, <1>2, <1>5 DEF BufferNumbers
<1>7. B!TypeOK'
  BY <1>2, <1>3, <1>5, <1>6 DEF BuffersInv, B!TypeOK
<1>8. Conserved'
  BY <1>1, <1>2, <1>3, <1>4 DEF Conserved, BufferNumbers
<1>9. ASSUME failures = 0
      PROVE  UnfailedInv' /\ \A t \in PacketTypes : latest'[t] >= latest[t]
  <2>1. ReadInOrder /\ WholePackets /\ OneOfEachType /\ NewerWait
    BY <1>9 DEF BuffersInv, UnfailedInv
  <2> DEFINE u == B!TypeOf(active')
             n == buffers[active'][1].number
  <2>2. u \in PacketTypes /\ n < NumberRead /\ latest[u] < n /\ n \in Nat
    BY <1>3, <1>5, <2>1, BufferConstants DEF WholePackets, Whole, NewerWait
  <2>3. /\ latest'[u] = n /\ \A t \in PacketTypes : t # u => latest'[t] = latest[t]
        /\ \A t \in PacketTypes : latest[t] \in Nat
    BY <1>1, <1>2, <2>2, BufferConstants DEF BufferNumbers
  <2>4. \A b \in Pending' : b \in Pending /\ B!TypeOf(b) # u
    BY <1>3, <2>1 DEF OneOfEachType
  <2>5. NumberRead' = NumberRead
    BY <1>2 DEF NumberRead
  <2>6. ReadInOrder'
    BY <1>2, <2>1, <2>5 DEF ReadInOrder, B!TypeOf
  <2>7. WholePackets' /\ OneOfEachType'
    BY <1>2, <1>3, <2>1, <2>4 DEF WholePackets, Whole, OneOfEachType, B!TypeOf
  <2>8. NewerWait'
    <3>1. \A b \in Pending' : latest'[B!TypeOf(b)] = latest[B!TypeOf(b)]
      BY <2>1, <2>3, <2>4 DEF WholePackets, Whole
    <3>2. \A t \in PacketTypes : latest'[t] < NumberRead
      BY <2>1, <2>2, <2>3 DEF NewerWait
    <3> QED BY <1>2, <2>1, <2>4, <2>5, <3>1, <3>2 DEF NewerWait, B!TypeOf
  <2>9. \A t \in PacketTypes : latest'[t] >= latest[t]
    BY <2>2, <2>3
  <2> QED BY <2>6, <2>7, <2>8, <2>9 DEF UnfailedInv
<1> QED BY <1>2, <1>7, <1>8, <1>9 DEF BuffersInv

\* A reader takes items of its packet.
LEMMA ReceiveStep ==
  ASSUME BuffersInv, NEW n \in 1..ItemsOfPacket, B!Receive(n) PROVE BuffersInv'
<1>1. BufferNumbers /\ Conserved
  BY BufferTypes DEF BuffersInv
<1>2. /\ active # 0 /\ r_idx[active] + n <= ItemsOfPacket
      /\ UNCHANGED <<list_pending, buffers, buffer, data_read, device, failures, latest>>
  BY DEF B!Receive, B!threadVars
<1>3. Pending' = Pending /\ active \in B!Buffers /\ r_idx[active] \in 0..(ItemsOfPacket - 1)
  BY <1>1, <1>2 DEF Pending, BufferNumbers
<1>4. /\ B!TypeOK' /\ Conserved' /\ active' \in {0, active}
  <2>1. CASE r_idx[active] + n = ItemsOfPacket
    <3>1. /\ active' = 0 /\ r_idx' = [r_idx EXCEPT ![active] = 0]
          /\ list_free' = <<active>> \o list_free
      BY <2>1 DEF B!Receive, B!Freed
    <3>2. /\ list_free' \in Seq(B!Buffers) /\ Free' = Free \cup {active}
          /\ B!IsInjective(list_free')
      <4>1. /\ list_free \in Seq(B!Buffers) /\ B!IsInjective(list_free)
            /\ active \notin B!ToSet(list_free)
        BY <1>1 DEF BufferNumbers, Conserved, Free
      <4> QED BY <1>3, <3>1, <4>1, PushedOnList DEF Free
    <3>3. r_idx' \in [B!Buffers -> 0..(ItemsOfPacket - 1)]
      <4>1. r_idx \in [B!Buffers -> 0..(ItemsOfPacket - 1)] /\ 0 \in 0..(ItemsOfPacket - 1)
        BY <1>1, BufferConstants DEF BufferNumbers
      <4> QED BY <3>1, <4>1
    <3>4. B!TypeOK'
      BY <1>2, <3>1, <3>2, <3>3 DEF BuffersInv, B!TypeOK
    <3>5. Conserved'
      BY <1>1, <1>2, <1>3, <3>1, <3>2 DEF Conserved, BufferNumbers
    <3> QED BY <3>1, <3>4, <3>5
  <2>2. CASE r_idx[active] + n # ItemsOfPacket
    <3>1. r_idx' = [r_idx EXCEPT ![active] = @ + n] /\ UNCHANGED <<active, list_free>>
      BY <2>2 DEF B!Receive
    <3>2. r_idx[active] + n \in 0..(ItemsOfPacket - 1)
      BY <1>2, <1>3, <2>2, BufferConstants
    <3>3. r_idx' \in [B!Buffers -> 0..(ItemsOfPacket - 1)]
      BY <1>1, <3>1, <3>2 DEF BufferNumbers
    <3>4. B!TypeOK'
      BY <1>2, <3>1, <3>3 DEF BuffersInv, B!TypeOK
    <3>5. Conserved'
      BY <1>1, <1>2, <1>3, <3>1 DEF Conserved, Free
    <3> QED BY <3>1, <3>4, <3>5
  <2> QED BY <2>1, <2>2
<1>5. ASSUME failures = 0 PROVE UnfailedInv'
  BY <1>2, <1>3, <1>4, <1>5
    DEF BuffersInv, UnfailedInv, ReadInOrder, WholePackets, Whole, OneOfEachType, NewerWait,
        NumberRead, B!TypeOf
<1> QED BY <1>2, <1>4, <1>5 DEF BuffersInv

\* BuffersInv is inductive, and no step of it receives an older packet.
LEMMA BuffersInvStep ==
  ASSUME BuffersInv, B!Next \/ UNCHANGED B!vars
  PROVE  /\ BuffersInv'
         /\ failures = 0 => \A t \in PacketTypes : latest'[t] >= latest[t]
<1>1. BufferNumbers
  BY BufferTypes DEF BuffersInv
<1>2. latest' = latest => \A t \in PacketTypes : latest'[t] >= latest[t]
  BY <1>1, BufferConstants DEF BufferNumbers
<1>3. CASE B!GetFree \/ B!Read \/ B!PutPendingDelete \/ B!ReadFails
  <2>1. latest' = latest
    BY <1>3 DEF B!GetFree, B!Read, B!PutPendingDelete, B!ReadFails
  <2> QED BY <1>2, <1>3, <2>1, GetFreeStep, ReadStep, PutPendingDeleteStep, ReadFailsStep
<1>4. CASE B!GetActivePending
  BY <1>4, GetActivePendingStep
<1>5. ASSUME NEW n \in 1..ItemsOfPacket, B!Receive(n)
      PROVE  BuffersInv' /\ latest' = latest
  BY <1>5, ReceiveStep DEF B!Receive
<1>6. CASE UNCHANGED B!vars
  <2>1. UNCHANGED <<list_free, list_pending, active, buffers, r_idx, buffer, data_read, device,
                    failures, latest>>
    BY <1>6 DEF B!vars, B!listVars, B!bufferVars, B!threadVars
  <2> QED BY <1>2, <2>1
    DEF BuffersInv, B!TypeOK, Conserved, Free, Pending, UnfailedInv, ReadInOrder, WholePackets,
        Whole, OneOfEachType, NewerWait, NumberRead, B!TypeOf
<1> QED BY <1>2, <1>3, <1>4, <1>5, <1>6 DEF B!Next, B!SpiThread, B!SpiReceive

-----------------------------------------------------------------------------
\* Two lists that have nothing in common, as one.
LEMMA BothLists ==
  ASSUME NEW E, NEW s \in Seq(E), NEW t \in Seq(E)
  PROVE  /\ B!ToSet(s \o t) = B!ToSet(s) \cup B!ToSet(t)
         /\ B!IsInjective(s) /\ B!IsInjective(t) /\ B!ToSet(s) \cap B!ToSet(t) = {}
              => B!IsInjective(s \o t)
<1> DEFINE p == s \o t
           m == Len(s)
           n == Len(t)
<1>1. /\ Len(p) = m + n /\ m \in Nat /\ n \in Nat
      /\ \A i \in 1..m : p[i] = s[i]
      /\ \A i \in 1..n : p[m + i] = t[i]
      /\ DOMAIN s = 1..m /\ DOMAIN t = 1..n /\ DOMAIN p = 1..(m + n)
  OBVIOUS
<1> HIDE DEF p, m, n
<1>2. \A i \in 1..(m + n) : \/ i \in 1..m /\ p[i] = s[i]
                            \/ i - m \in 1..n /\ p[i] = t[i - m]
  <2> SUFFICES ASSUME NEW i \in 1..(m + n), ~ (i \in 1..m)
               PROVE  i - m \in 1..n /\ p[i] = t[i - m]
    BY <1>1
  <2>1. i - m \in 1..n /\ m + (i - m) = i
    BY <1>1
  <2> QED BY <1>1, <2>1
<1>3. B!ToSet(p) = B!ToSet(s) \cup B!ToSet(t)
  <2>1. \A i \in 1..m : i \in 1..(m + n)
    BY <1>1
  <2>2. \A i \in 1..n : m + i \in 1..(m + n)
    BY <1>1
  <2>3. ASSUME NEW x \in B!ToSet(p) PROVE x \in B!ToSet(s) \cup B!ToSet(t)
    <3>1. PICK i \in 1..(m + n) : x = p[i]
      BY <1>1 DEF B!ToSet
    <3> QED BY <1>1, <1>2, <3>1 DEF B!ToSet
  <2>4. ASSUME NEW x \in B!ToSet(s) PROVE x \in B!ToSet(p)
    <3>1. PICK i \in 1..m : x = s[i]
      BY <1>1 DEF B!ToSet
    <3> QED BY <1>1, <2>1, <3>1 DEF B!ToSet
  <2>5. ASSUME NEW x \in B!ToSet(t) PROVE x \in B!ToSet(p)
    <3>1. PICK i \in 1..n : x = t[i]
      BY <1>1 DEF B!ToSet
    <3> QED BY <1>1, <2>2, <3>1 DEF B!ToSet
  <2> QED BY <2>3, <2>4, <2>5
<1>4. ASSUME B!IsInjective(s), B!IsInjective(t), B!ToSet(s) \cap B!ToSet(t) = {}
      PROVE  B!IsInjective(p)
  <2> SUFFICES ASSUME NEW i \in 1..(m + n), NEW j \in 1..(m + n), p[i] = p[j]
               PROVE  i = j
    BY <1>1 DEF B!IsInjective
  <2>1. \A x \in 1..m, y \in 1..n : s[x] # t[y]
    BY <1>1, <1>4 DEF B!ToSet
  <2>2. \/ i \in 1..m /\ j \in 1..m /\ s[i] = s[j]
        \/ i - m \in 1..n /\ j - m \in 1..n /\ t[i - m] = t[j - m]
    BY <1>2, <2>1
  <2>3. i - m = j - m => i = j
    BY <1>1
  <2> QED BY <1>1, <1>4, <2>2, <2>3 DEF B!IsInjective
<1> QED BY <1>3, <1>4 DEF p

\* No buffer is in two places, or in none.
LEMMA ConservedIs == ASSUME B!TypeOK, Conserved PROVE B!BuffersConserved
<1>1. BufferNumbers
  BY BufferTypes
<1>2. list_free \in Seq(B!Buffers) /\ list_pending \in Seq(B!Buffers)
  BY <1>1 DEF BufferNumbers
<1>3. /\ B!ToSet(list_free \o list_pending) = Free \cup Pending
      /\ B!IsInjective(list_free \o list_pending)
  BY <1>2, BothLists DEF Free, Pending, Conserved
<1> DEFINE held == {b \in {active, buffer} : b # 0}
<1>4. /\ held \cap (Free \cup Pending) = {}
      /\ held \cup (Free \cup Pending) = B!Buffers
  BY <1>1 DEF BufferNumbers, Conserved
<1> QED BY <1>3, <1>4 DEF Conserved, B!BuffersConserved, Free, Pending

\* One buffer per type and two in use are enough, by counting.
LEMMA FreeIsLeft == ASSUME BuffersInv PROVE B!FreeBufferForThread
<1> SUFFICES ASSUME failures = 0, buffer = 0, list_free = << >>
             PROVE  FALSE
  BY DEF B!FreeBufferForThread
<1>1. BufferNumbers /\ Conserved /\ UnfailedInv
  BY BufferTypes DEF BuffersInv
<1>2. Free = {}
  BY DEF Free, B!ToSet
<1>3. B!Buffers \subseteq Pending \cup {active}
  BY <1>1, <1>2 DEF Conserved, BufferNumbers
<1> DEFINE f == [b \in Pending |-> B!TypeOf(b)]
<1>4. f \in Injection(Pending, PacketTypes)
  BY <1>1 DEF UnfailedInv, OneOfEachType, WholePackets, Whole, Injection, IsInjective
<1>5. IsFiniteSet(Pending) /\ Cardinality(Pending) <= Cardinality(PacketTypes)
  BY <1>4, BufferConstants, FS_Injection
<1>6. /\ IsFiniteSet(Pending \cup {active})
      /\ Cardinality(Pending \cup {active}) <= Cardinality(Pending) + 1
  <2>1. /\ IsFiniteSet(Pending \cup {active})
        /\ Cardinality(Pending \cup {active})
             = IF active \in Pending THEN Cardinality(Pending) ELSE Cardinality(Pending) + 1
    BY <1>5, FS_AddElement
  <2>2. Cardinality(Pending) \in Nat
    BY <1>5, FS_CardinalityType
  <2> QED BY <2>1, <2>2
<1>7. Cardinality(B!Buffers) = NumBuffers
  BY BufferConstants, FS_Interval DEF B!Buffers
<1>8. Cardinality(B!Buffers) <= Cardinality(Pending \cup {active})
  BY <1>3, <1>6, FS_Subset
<1>9. Cardinality(Pending) \in Nat /\ Cardinality(PacketTypes) \in Nat
      /\ Cardinality(Pending \cup {active}) \in Nat
  BY <1>5, <1>6, BufferConstants, FS_CardinalityType
<1> QED BY <1>5, <1>6, <1>7, <1>8, <1>9, BufferConstants

\* What waits or is given out is one packet.
LEMMA DeliveredIsWhole == ASSUME BuffersInv PROVE B!DeliveredWhole
BY DEF BuffersInv, UnfailedInv, WholePackets, Whole, B!DeliveredWhole, Pending

-----------------------------------------------------------------------------
(* The five parts together *)

LinesInv ==
  /\ LinkInv /\ SpiInv /\ BuffersInv
  /\ part = "robostix" => RobostixInv
  /\ part = "gumstix" => GumstixInv

\* Every part begins with its invariant.
LEMMA LinesInit == Init => LinesInv
<1> SUFFICES ASSUME Init PROVE LinesInv
  OBVIOUS
<1>1. LinkInv /\ SpiInv /\ BuffersInv
  BY LinkInvInit, SpiInit, BuffersInvInit DEF Init
<1>2. CASE part = "robostix"
  <2>1. R!Init
    BY <1>2, Zenon DEF Init, R!Init
  <2> QED BY <1>1, <1>2, <2>1, RobostixInvInit DEF LinesInv
<1>3. CASE part # "robostix"
  <2>1. G!Init
    BY <1>3, Zenon DEF Init, G!Init
  <2> QED BY <1>1, <1>3, <2>1, GumstixInvInit DEF LinesInv
<1> QED BY <1>2, <1>3

\* A step of MCLines is one of the part that was chosen, and none of the others.
LEMMA LinesStep ==
  ASSUME [Next]_vars
  PROVE  /\ J!Next \/ UNCHANGED J!vars
         /\ S!Next \/ UNCHANGED S!vars
         /\ B!Next \/ UNCHANGED B!vars
         /\ part = "robostix" => R!Next \/ UNCHANGED R!vars
         /\ part = "gumstix" => G!Next \/ UNCHANGED G!vars
         /\ part' = part
<1>1. UNCHANGED jVars => UNCHANGED J!vars
  BY Zenon DEF jVars, J!vars, J!gumVars, J!boardVars
<1>2. UNCHANGED sVars => UNCHANGED S!vars
  BY Zenon DEF sVars, S!vars, S!masterVars, S!portVars, S!slaveRx, S!slaveTx
<1>3. UNCHANGED bufferVars => UNCHANGED B!vars
  BY Zenon DEF bufferVars, B!vars, B!listVars, B!bufferVars, B!threadVars
<1>4. UNCHANGED <<lineVars, robostixVars>> => UNCHANGED R!vars
  BY Zenon DEF lineVars, robostixVars, R!vars, R!lineVars
<1>5. UNCHANGED <<lineVars, gumstixVars>> => UNCHANGED G!vars
  BY Zenon DEF lineVars, gumstixVars, G!vars, G!lineVars, G!receiver
<1>6. CASE UNCHANGED vars
  <2>1. UNCHANGED <<part, jVars, lineVars, robostixVars, gumstixVars, sVars, bufferVars>>
    BY <1>6, Zenon DEF vars
  <2> QED BY <1>1, <1>2, <1>3, <1>4, <1>5, <2>1, Zenon
<1>7. CASE Next
  <2>1. part' = part
    BY <1>7, Zenon DEF Next
  <2>2. CASE part = "exchange" /\ J!Next
               /\ UNCHANGED <<lineVars, robostixVars, gumstixVars, sVars, bufferVars>>
    BY <1>2, <1>3, <2>1, <2>2
  <2>3. CASE part = "robostix" /\ R!Next /\ UNCHANGED <<jVars, gumstixVars, sVars, bufferVars>>
    BY <1>1, <1>2, <1>3, <2>1, <2>3
  <2>4. CASE part = "gumstix" /\ G!Next /\ UNCHANGED <<jVars, robostixVars, sVars, bufferVars>>
    BY <1>1, <1>2, <1>3, <2>1, <2>4
  <2>5. CASE part = "spi" /\ S!Next
               /\ UNCHANGED <<jVars, lineVars, robostixVars, gumstixVars, bufferVars>>
    BY <1>1, <1>3, <2>1, <2>5
  <2>6. CASE part = "buffers" /\ B!Next
               /\ UNCHANGED <<jVars, lineVars, robostixVars, gumstixVars, sVars>>
    BY <1>1, <1>2, <2>1, <2>6
  <2>7. CASE Spent
    BY <1>6, <2>7, Zenon DEF Spent
  <2> QED BY <1>7, <2>2, <2>3, <2>4, <2>5, <2>6, <2>7, Zenon DEF Next
<1> QED BY <1>6, <1>7

\* LinesInv is inductive.
LEMMA LinesInvStep == LinesInv /\ [Next]_vars => LinesInv'
<1> SUFFICES ASSUME LinesInv, [Next]_vars PROVE LinesInv'
  OBVIOUS
<1>1. LinkInv'
  BY LinesStep, LinkInvStep, Zenon DEF LinesInv
<1>2. SpiInv'
  BY LinesStep, SpiInvStep, Zenon DEF LinesInv
<1>3. BuffersInv'
  BY LinesStep, BuffersInvStep, Zenon DEF LinesInv
<1>4. part' = "robostix" => RobostixInv'
  BY LinesStep, RobostixInvStep, Zenon DEF LinesInv
<1>5. part' = "gumstix" => GumstixInv'
  BY LinesStep, GumstixInvStep, Zenon DEF LinesInv
<1> QED BY <1>1, <1>2, <1>3, <1>4, <1>5 DEF LinesInv

LEMMA LinesInvariance == Spec => []LinesInv
BY LinesInit, LinesInvStep, PTL DEF Spec

\* The variables of all five parts keep their types: no index passes the end of the
\* receive buffers of communication.c, spi_dma_channel.c and spi_dev_channel.c,
\* whatever comes over the line.  The receivers of serial.c and spi.c are cut off at
\* the end of theirs: the index may reach it, and does (RobostixReceiver_overrun).
THEOREM TypesCorrect == Spec => []TypeOK
<1>1. LinesInv => TypeOK
  BY RobostixDelivers, GumstixDelivers DEF LinesInv, LinkInv, SpiInv, BuffersInv, TypeOK
<1> QED BY <1>1, LinesInvariance, PTL

\* Whatever the number of ids, as long as it is more than twice what can be under
\* way: without a loss and without a poll the control loop never warns of an
\* answer that is not the one expected (javiator_port.c:62).
THEOREM WarningsHaveCauses == Spec => []WarningHasCause
<1>1. LinesInv => WarningHasCause
  BY DEF LinesInv, LinkInv, WarningHasCause
<1> QED BY <1>1, LinesInvariance, PTL

\* Answers are taken in the order in which their packets were sent, none twice
\* (javiator_port.c); on the SPI line none is skipped either while the slave is
\* in time (spi_dma_channel.c); no packet is received after a newer one of its
\* type (spi_dev_channel.c).
THEOREM AnswersComeInOrder == Spec => AnswersInOrder
<1>1. LinesInv => J!AnswersInOrder
  BY LinkInOrder DEF LinesInv
<1>2. LinesInv /\ [Next]_vars => [late' = 0 => got' \in {got, got + 1}]_(S!vars)
  <2> SUFFICES ASSUME LinesInv, [Next]_vars PROVE late' = 0 => got' \in {got, got + 1}
    OBVIOUS
  <2>1. InTurn
    BY LinesStep, SpiInvStep, Zenon DEF LinesInv
  <2> QED BY <2>1 DEF InTurn
<1>3. LinesInv /\ [Next]_vars
        => [failures = 0 => \A t \in PacketTypes : latest'[t] >= latest[t]]_(B!vars)
  <2> SUFFICES ASSUME LinesInv, [Next]_vars
               PROVE  failures = 0 => \A t \in PacketTypes : latest'[t] >= latest[t]
    OBVIOUS
  <2> QED BY LinesStep, BuffersInvStep, Zenon DEF LinesInv
<1>4. Spec => []J!AnswersInOrder
  BY <1>1, LinesInvariance, PTL
<1>5. Spec => S!AnswersInTurn
  BY <1>2, LinesInvariance, PTL DEF Spec, S!AnswersInTurn
<1>6. Spec => B!NewerOnly
  BY <1>3, LinesInvariance, PTL DEF Spec, B!NewerOnly
<1> QED BY <1>4, <1>5, <1>6 DEF AnswersInOrder

\* On an undisturbed line every packet comes through as it was sent, once, even
\* one whose body looks like the header of another (serial.c, communication.c,
\* spi_dma_channel.c), the index of a slave that is never late stays in its buffer
\* (spi.c), and what the SPI channel holds are whole packets as long as no read fails
\* (spi_dev_channel.c).
THEOREM UndisturbedIsDelivered == Spec => []UndisturbedDelivery
<1>1. LinesInv => UndisturbedDelivery
  BY RobostixDelivers, GumstixDelivers, ArrivesIs, AnswerIs, InBufferIs, DeliveredIsWhole
    DEF LinesInv, UndisturbedDelivery
<1> QED BY <1>1, LinesInvariance, PTL

\* However bytes were lost, packets cut off and receptions reset, either receiver
\* is in step again after 2 * BufSize - 6 and after BufSize + 4 bytes of plain
\* packets (serial_is_new_data, comm_recv_packet).
THEOREM ResyncedIsDelivered == Spec => []ResyncedDelivery
<1>1. LinesInv => ResyncedDelivery
  BY RobostixDelivers, GumstixDelivers DEF LinesInv, ResyncedDelivery
<1> QED BY <1>1, LinesInvariance, PTL

\* Each buffer of the SPI channel is in one place at any time, and while no read
\* fails one is free whenever the reading thread needs it, though nobody may be
\* receiving, for every number of types and buffers (spi_dev_channel.c).
THEOREM BuffersAreConserved == Spec => []BuffersConserved
<1>1. LinesInv => BuffersConserved
  BY ConservedIs, FreeIsLeft DEF LinesInv, BuffersInv, BuffersConserved
<1> QED BY <1>1, LinesInvariance, PTL
=============================================================================
