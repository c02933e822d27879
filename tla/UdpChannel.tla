------------------------------- MODULE UdpChannel -------------------------------
(***************************************************************************)
(* The UDP connection to the control terminal (udp_socket_channel.c):      *)
(* terminal_thread polls it and receives packets through comm_recv_packet, *)
(* the control thread sends its reports, and both know of the connection   *)
(* only what is in udp_connection_t, which has no lock.                    *)
(*                                                                         *)
(* A datagram holds one packet with a payload of one byte.  Its bytes are  *)
(* known by the datagram and their place; only the first two are marks.  A *)
(* terminal that restarts has another port.  The kernel's side: the socket *)
(* takes datagrams of the port it was connected to, of any before that,    *)
(* and reports on its next use that a port is closed.                      *)
(*                                                                         *)
(* A definition named X_Variant is not part of the model: it is X with a   *)
(* plausible slip in the code, kept to see that a property notices it.     *)
(***************************************************************************)
EXTENDS Integers, Sequences

CONSTANTS Ports,         \* ports of the terminal, one per start of it
          MaxInbox,      \* bound: datagrams in the socket
          MaxRestarts    \* bound: restarts of the terminal

UdpConstantsOK == Ports \subseteq Nat \ {0} /\ Ports # {}
                           /\ MaxInbox \in Nat \ {0} /\ MaxRestarts \in Nat

VARIABLES
  connected, idx, buf,      \* udp_connection_t: buf is the number of the datagram in it
  thread,                   \* terminal_thread: in "poll", or in "receive"
  state, need, from,        \* comm_packet: bytes it has, will have, and their datagram
  control,                  \* control thread: "idle", in "write", or "close" after an error
  peer, inbox, refused,     \* the socket: connected port or 0, datagrams, error to report
  port, next, restarts,     \* the terminal: port, number of its next datagram, restarts
  delivered,                \* number of the datagram comm_recv_packet returned last
  streak                    \* history: datagrams fetched since the connection was made, to 3

conVars    == <<connected, idx, buf>>
packetVars == <<state, need, from>>
socketVars == <<peer, inbox, refused>>
termVars   == <<port, next, restarts>>
vars       == <<conVars, thread, packetVars, control, socketVars, termVars, delivered, streak>>

Size    == 7               \* bytes of a datagram: COMM_OVERHEAD and the payload
Numbers == 0..2            \* datagrams are numbered modulo 3
Mixed   == -1              \* bytes of no one datagram, or out of place
None    == -1

Init ==
  /\ connected = FALSE /\ idx = Size /\ buf = 0
  /\ thread = "poll" /\ state = 0 /\ need = Size /\ from = None
  /\ control = "idle"
  /\ peer = 0 /\ inbox = << >> /\ refused = FALSE
  /\ port \in Ports /\ next = 0 /\ restarts = 0
  /\ delivered = None /\ streak = 0

(***************************************************************************)
(* The terminal                                                            *)
(***************************************************************************)
TerminalSends ==
  /\ Len(inbox) < MaxInbox
  /\ next' = (next + 1) % 3
  /\ inbox' = IF peer \in {0, port} THEN Append(inbox, [port |-> port, number |-> next])
                                    ELSE inbox
  /\ UNCHANGED <<conVars, thread, packetVars, control, peer, refused, port, restarts,
                 delivered, streak>>

TerminalRestarts ==
  /\ restarts < MaxRestarts /\ restarts' = restarts + 1
  /\ port' \in Ports \ {port}
  /\ UNCHANGED <<conVars, thread, packetVars, control, socketVars, next, delivered, streak>>

(***************************************************************************)
(* comm_recv_packet takes the byte at place k of datagram d.  The size of  *)
(* a false packet is that of an empty one or of one with a byte.           *)
(***************************************************************************)
IsMark(k) == k < 2
Carry(d, k) == IF from = d /\ state = k THEN d ELSE Mixed

\* st_MARK1: any other byte ends the call.
Mark1(d, k) ==
  /\ state = 0
  /\ IF IsMark(k) THEN state' = 1 /\ from' = (IF k = 0 THEN d ELSE Mixed) /\ UNCHANGED thread
                  ELSE thread' = "poll" /\ UNCHANGED <<state, from>>
  /\ UNCHANGED <<need, delivered>>

Mark2(d, k) ==
  /\ state = 1
  /\ state' = IF IsMark(k) THEN 2 ELSE 0
  /\ from' = Carry(d, k)
  /\ UNCHANGED <<need, thread, delivered>>

Type(d, k) ==
  /\ state = 2
  /\ state' \in IF IsMark(k) THEN {0} ELSE IF k = 2 THEN {3} ELSE {0, 3}
  /\ from' = Carry(d, k)
  /\ UNCHANGED <<need, thread, delivered>>

SizeByte(d, k) ==
  /\ state = 3
  /\ \/ k = 3 /\ state' = 4 /\ need' = Size
     \/ k # 3 /\ state' = 4 /\ need' \in {Size - 1, Size}
     \/ k # 3 /\ state' = 0 /\ UNCHANGED need
  /\ from' = Carry(d, k)
  /\ UNCHANGED <<thread, delivered>>

\* st_PAYLOAD, st_SUM1
Middle(d, k) ==
  /\ state > 3 /\ state + 1 < need
  /\ state' = state + 1 /\ from' = Carry(d, k)
  /\ UNCHANGED <<need, thread, delivered>>

\* st_SUM2: the call ends, and has a packet if the sum is right.
Sum2(d, k) ==
  /\ state > 3 /\ state + 1 = need
  /\ state' = 0 /\ from' = None /\ thread' = "poll"
  /\ delivered' = IF Carry(d, k) = d THEN d ELSE delivered
  /\ UNCHANGED need

TakeByte(d, k) ==
  Mark1(d, k) \/ Mark2(d, k) \/ Type(d, k) \/ SizeByte(d, k) \/ Middle(d, k) \/ Sum2(d, k)

\* No byte: the call ends.
NoByte == thread' = "poll" /\ UNCHANGED <<packetVars, delivered>>

(***************************************************************************)
(* terminal_thread: udp_socket_poll, and udp_socket_receive, which         *)
(* comm_recv_packet only asks for one byte at a time.                      *)
(***************************************************************************)
\* select; with readfs never zeroed it may also return for another file.
Poll ==
  /\ thread = "poll" /\ thread' = "receive"
  /\ UNCHANGED <<conVars, packetVars, control, socketVars, termVars, delivered, streak>>

\* udp_connection_connect: recvfrom takes the first byte of the datagram and drops the rest.
Connect_Forgotten(d) ==
  peer' = d.port /\ streak' = 1 /\ UNCHANGED connected
Connect_Unaddressed(d) ==
  connected' = TRUE /\ streak' = 1 /\ UNCHANGED peer
Connect(d) ==
  peer' = d.port /\ connected' = TRUE /\ streak' = 1

ReceiveFirst ==
  /\ thread = "receive" /\ ~connected /\ ~refused /\ inbox # << >>
  /\ inbox' = Tail(inbox)
  /\ Connect(Head(inbox))
  /\ TakeByte(Head(inbox).number, 0)
  /\ UNCHANGED <<idx, buf, control, refused, termVars>>

\* connect() fails, and the datagram is lost.
ConnectFails ==
  /\ thread = "receive" /\ ~connected /\ ~refused /\ inbox # << >>
  /\ inbox' = Tail(inbox)
  /\ NoByte
  /\ UNCHANGED <<conVars, control, peer, refused, termVars, streak>>

\* udp_read fetches the next datagram; the call waits for one in vain while there is none.
Fetch_RereadsByte == idx' = 0
Fetch == idx' = 1

ReadDatagram ==
  /\ thread = "receive" /\ connected /\ idx = Size /\ ~refused /\ inbox # << >>
  /\ inbox' = Tail(inbox) /\ buf' = Head(inbox).number
  /\ streak' = IF streak < 3 THEN streak + 1 ELSE 3
  /\ Fetch /\ TakeByte(buf', 0)
  /\ UNCHANGED <<connected, control, peer, refused, termVars>>

ReadBuffer ==
  /\ thread = "receive" /\ connected /\ idx < Size
  /\ idx' = idx + 1
  /\ TakeByte(buf, idx)
  /\ UNCHANGED <<connected, buf, control, socketVars, termVars, streak>>

\* The socket reports that the port is closed; close_connection.
ReceiveRefused ==
  /\ thread = "receive" /\ refused /\ (~connected \/ idx = Size)
  /\ refused' = FALSE
  /\ connected' = FALSE /\ streak' = 0
  /\ NoByte
  /\ UNCHANGED <<idx, buf, control, peer, inbox, termVars>>

TerminalThread ==
  Poll \/ ReceiveFirst \/ ConnectFails \/ ReadDatagram \/ ReadBuffer \/ ReceiveRefused

(***************************************************************************)
(* The control thread: udp_socket_transmit.                                *)
(***************************************************************************)
Transmit ==
  /\ control = "idle" /\ connected
  /\ control' = "write"
  /\ UNCHANGED <<conVars, thread, packetVars, socketVars, termVars, delivered, streak>>

\* A datagram to a port that is closed is sent; the answer comes later.
Write ==
  /\ control = "write"
  /\ IF refused THEN refused' = FALSE /\ control' = "close"
                ELSE refused' \in {FALSE, peer # port} /\ control' = "idle"
  /\ UNCHANGED <<conVars, thread, packetVars, peer, inbox, termVars, delivered, streak>>

CloseConnection ==
  /\ control = "close" /\ control' = "idle"
  /\ connected' = FALSE /\ streak' = 0
  /\ UNCHANGED <<idx, buf, thread, packetVars, socketVars, termVars, delivered>>

ControlThread == Transmit \/ Write \/ CloseConnection

Next == TerminalSends \/ TerminalRestarts \/ TerminalThread \/ ControlThread
Spec == Init /\ [][Next]_vars

\* Both threads run, and a terminal goes on sending; it need not restart.
FairSpec == Spec /\ WF_vars(TerminalThread) /\ WF_vars(ControlThread) /\ WF_vars(TerminalSends)

\* The flag is only set for a socket that is connected, so a write has an address.
TypeOK ==
  /\ connected \in BOOLEAN /\ (connected => peer # 0)
  /\ idx \in 1..Size /\ buf \in Numbers
  /\ thread \in {"poll", "receive"} /\ control \in {"idle", "write", "close"}
  /\ state \in 0..(Size - 1) /\ need \in {Size - 1, Size} /\ from \in Numbers \cup {Mixed, None}
  /\ peer \in Ports \cup {0} /\ port \in Ports /\ restarts \in 0..MaxRestarts
  /\ inbox \in Seq([port : Ports, number : Numbers]) /\ Len(inbox) <= MaxInbox
  /\ refused \in BOOLEAN /\ next \in Numbers /\ streak \in 0..3
  /\ delivered \in Numbers \cup {None}

\* A session begins with two lost datagrams: of the first all but a byte is dropped, and
\* that byte makes comm_recv_packet miss the marks of the second.  From the third on
\* every datagram is delivered by the time it has been read, whatever the control thread
\* does meanwhile, and whatever was left in the buffer by the session before.
SessionSettles ==
  [][streak = 3 /\ idx # Size /\ idx' = Size => delivered' = buf]_vars

\* A terminal that goes on sending is heard, again and again, if it is the first one or
\* has come back at the port the socket was connected to, and connect() does not go on
\* failing.
TerminalIsHeard ==
  <>[](peer \in {0, port}) /\ <>[][~ConnectFails]_vars => []<><<delivered' # delivered>>_vars
===============================================================================
