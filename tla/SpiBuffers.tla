----------------------------- MODULE SpiBuffers -----------------------------
(***************************************************************************)
(* The SPI channel that reads from a device driver (spi_dev_channel.c): a  *)
(* thread reads packets into buffers it takes from a free list and puts    *)
(* them on a pending list, newest first, throwing out the older packet of  *)
(* the same type; whoever receives from the channel reads a buffer to its  *)
(* end, in pieces of the size asked for, before it takes the next.         *)
(*                                                                         *)
(* An item of a packet is known by the number of its packet and by its     *)
(* place in it, the first one by the packet's type, too.  A read of the    *)
(* device may return less than the packet, or fail.                        *)
(*                                                                         *)
(* A definition named X_Variant is not part of the model: it is X with a   *)
(* plausible slip in the code, kept to see that a property notices it.     *)
(***************************************************************************)
EXTENDS Integers, Sequences, FiniteSets, SequencesExt

CONSTANTS
  NumBuffers,    \* NUM_SPI_DATA (16)
  PacketTypes,   \* packet types of the Robostix
  Items,         \* items of a packet, as many as COMM_BUF_SIZE allows
  MaxPackets,    \* bound: packets the device has to offer
  MaxFailures    \* bound: reads that fail

SpiBuffersConstantsOK ==
  /\ {NumBuffers, Items} \subseteq Nat \ {0}
  /\ MaxPackets \in Nat /\ MaxFailures \in Nat
  /\ IsFiniteSet(PacketTypes) /\ NumBuffers >= Cardinality(PacketTypes) + 2

VARIABLES
  list_free, list_pending,  \* of buffers, first one first
  active,                   \* the buffer being received from, or 0
  rx_buf, r_idx,            \* by buffer: what it holds, how much was received of it
  data, data_read,          \* spi_thread: its buffer or 0, items read so far
  device,                   \* the packet the device is sending, and how many items of it were read
  failures,                 \* reads that failed
  latest                    \* history: by type, the number of the last packet begun

listVars   == <<list_free, list_pending, active>>
bufferVars == <<rx_buf, r_idx>>
threadVars == <<data, data_read, device, failures>>
vars       == <<listVars, bufferVars, threadVars, latest>>

Buffers == 1..NumBuffers

\* put_free
Freed_Dropped(b) == list_free
Freed(b) == <<b>> \o list_free

NoItem  == [type |-> "none", number |-> 0, place |-> 0]
\* rx_buf[2], the type of the packet; a buffer never read into holds zeros.
TypeOf(b) == rx_buf[b][1].type

\* spi_dev_channel_create: every buffer is put on the free list.
Init ==
  /\ list_free = [i \in 1..NumBuffers |-> NumBuffers + 1 - i] /\ list_pending = << >>
  /\ active = 0
  /\ rx_buf = [b \in Buffers |-> [i \in 1..Items |-> NoItem]] /\ r_idx = [b \in Buffers |-> 0]
  /\ data = 0 /\ data_read = 0 /\ failures = 0
  /\ device = [number |-> 1, taken |-> 0]
  /\ latest = [t \in PacketTypes |-> 0]

(***************************************************************************)
(* spi_thread                                                              *)
(***************************************************************************)
\* It waits for cond while the free list is empty.
GetFree ==
  /\ data = 0 /\ list_free # << >>
  /\ data' = Head(list_free) /\ list_free' = Tail(list_free)
  /\ UNCHANGED <<list_pending, active, bufferVars, data_read, device, failures, latest>>

\* One read(2), of the packet there is or a part of it.
Taken(n) ==
  IF device.taken + n < Items THEN [device EXCEPT !.taken = @ + n]
                              ELSE [number |-> device.number + 1, taken |-> 0]

Item(t, place) ==
  [type |-> IF place = 1 THEN t ELSE "none", number |-> device.number, place |-> place]

Filled(n, t) ==
  [i \in 1..Items |-> IF i > data_read /\ i <= data_read + n
                      THEN Item(t, device.taken + i - data_read) ELSE rx_buf[data][i]]

Read ==
  /\ data # 0 /\ data_read < Items /\ device.number <= MaxPackets
  /\ \E n \in 1..(Items - data_read), t \in PacketTypes :
       /\ device.taken + n <= Items
       /\ device' = Taken(n) /\ data_read' = data_read + n
       /\ rx_buf' = [rx_buf EXCEPT ![data] = Filled(n, t)]
  /\ UNCHANGED <<listVars, r_idx, data, failures, latest>>

\* data_read stays as it is: the next read goes on there, in another buffer.
ReadFails ==
  /\ data # 0 /\ data_read < Items /\ failures < MaxFailures
  /\ failures' = failures + 1
  /\ list_free' = Freed(data) /\ data' = 0
  /\ UNCHANGED <<list_pending, active, bufferVars, data_read, device, latest>>

\* put_pending_delete: at most one older packet of the type goes.
OlderOnes_None(b) == {}
OlderOnes(b) == {i \in DOMAIN list_pending : TypeOf(list_pending[i]) = TypeOf(b)}
First(S)     == CHOOSE i \in S : \A j \in S : i <= j

ReadSoFar_Kept == data_read
ReadSoFar == 0

PutPendingDelete ==
  /\ data # 0 /\ data_read = Items
  /\ LET older == OlderOnes(data)
     IN  IF older = {} THEN /\ list_pending' = <<data>> \o list_pending
                            /\ UNCHANGED list_free
         ELSE /\ list_pending' = <<data>> \o RemoveAt(list_pending, First(older))
              /\ list_free' = Freed(list_pending[First(older)])
  /\ r_idx' = [r_idx EXCEPT ![data] = 0]
  /\ data' = 0 /\ data_read' = ReadSoFar
  /\ UNCHANGED <<active, rx_buf, device, failures, latest>>

SpiThread == GetFree \/ Read \/ PutPendingDelete

(***************************************************************************)
(* spi_receive(buf, len): get_active_pending takes a buffer if none is     *)
(* active, put_active_pending gives it back when it was read to its end.   *)
(***************************************************************************)
GetActivePending ==
  /\ active = 0 /\ list_pending # << >>
  /\ active' = Head(list_pending) /\ list_pending' = Tail(list_pending)
  /\ LET t == TypeOf(active')
     IN  latest' = IF t \in PacketTypes
                   THEN [latest EXCEPT ![t] = rx_buf[active'][1].number] ELSE latest
  /\ UNCHANGED <<list_free, bufferVars, threadVars>>

Receive(n) ==
  /\ active # 0 /\ r_idx[active] + n <= Items
  /\ IF r_idx[active] + n = Items
     THEN /\ active' = 0 /\ r_idx' = [r_idx EXCEPT ![active] = 0]
          /\ list_free' = Freed(active)
     ELSE r_idx' = [r_idx EXCEPT ![active] = @ + n] /\ UNCHANGED <<active, list_free>>
  /\ UNCHANGED <<list_pending, rx_buf, threadVars, latest>>

SpiReceive == GetActivePending \/ \E n \in 1..Items : Receive(n)

Next == SpiThread \/ ReadFails \/ SpiReceive
Spec == Init /\ [][Next]_vars

-----------------------------------------------------------------------------
ItemSet == {NoItem} \cup [type : PacketTypes \cup {"none"}, number : 1..MaxPackets, place : 1..Items]
TypeOK ==
  /\ list_free \in Seq(Buffers) /\ list_pending \in Seq(Buffers)
  /\ active \in {0} \cup Buffers /\ data \in {0} \cup Buffers
  /\ rx_buf \in [Buffers -> [1..Items -> ItemSet]] /\ r_idx \in [Buffers -> 0..(Items - 1)]
  /\ data_read \in 0..Items /\ failures \in 0..MaxFailures
  /\ device \in [number : 1..(MaxPackets + 1), taken : 0..(Items - 1)]
  /\ latest \in [PacketTypes -> 0..MaxPackets]

\* Every buffer is in exactly one place: on a list, with the thread, or with
\* the receiver.  None is lost and none is handed out twice.
BuffersConserved ==
  LET held == {b \in {active, data} : b # 0}
  IN  /\ active # 0 => active # data
      /\ IsInjective(list_free \o list_pending)
      /\ ToSet(list_free) \cap ToSet(list_pending) = {}
      /\ held \cap ToSet(list_free \o list_pending) = {}
      /\ held \cup ToSet(list_free \o list_pending) = Buffers

\* As long as no read of the device failed a buffer that waits to be received,
\* or is being received, holds one packet from its beginning to its end, also if
\* the device delivered it in pieces.
DeliveredWhole ==
  failures = 0 =>
    \A b \in ToSet(list_pending) \cup ({active} \ {0}), i \in 1..Items :
      /\ rx_buf[b][i].place = i
      /\ rx_buf[b][i].number = rx_buf[b][1].number

\* A packet is never received after a newer one of its type, though the list
\* is read newest first.
NewerOnly ==
  [][ failures = 0 => \A t \in PacketTypes : latest'[t] >= latest[t] ]_vars

\* The thread never has to wait for a free buffer, even if nobody receives: a
\* buffer per type of packet and two in use are enough.
FreeBufferForThread == failures = 0 /\ data = 0 => list_free # << >>
=============================================================================
