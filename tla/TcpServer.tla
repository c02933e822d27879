-------------------------------- MODULE TcpServer --------------------------------
(***************************************************************************)
(* The TCP server the control terminal may connect to instead of UDP       *)
(* (tcp_socket_channel.c, option -u): terminal_thread accepts and reads,   *)
(* the control thread writes its reports, and either closes the connection *)
(* when its call fails.  They share tcp_connection_t without a lock, so    *)
(* every access to it is an action.                                        *)
(*                                                                         *)
(* The kernel's side: files tells which connection a file descriptor is    *)
(* open for; a connection the terminal has closed reads as ended ("fin"),  *)
(* and the first write to it has it reset.  A write to a connection that   *)
(* is reset raises SIGPIPE, which no code of the Gumstix catches.          *)
(*                                                                         *)
(* A definition named X_Variant is not part of the model: it is X with a   *)
(* plausible slip in the code, kept to see that a property notices it.     *)
(***************************************************************************)
EXTENDS Integers, FiniteSets

CONSTANTS FDs,       \* file descriptors accept may give
          MaxConns   \* bound: connections the terminal makes

TcpConstantsOK == FDs \subseteq Nat \ {0} /\ FDs # {} /\ MaxConns \in Nat \ {0}

VARIABLES
  fd, connected,     \* tcp_connection_t
  thread,            \* terminal_thread: where it is
  control, wfd,      \* control thread: where it is, the descriptor it writes to
  files,             \* connection each descriptor is open for, or 0
  line,              \* state of each connection at the server
  backlog,           \* connections not accepted yet
  killed,            \* the process died of SIGPIPE
  made,              \* connections the terminal has made; the last one is the one it uses
  heard,             \* a read has just got data of the last one
  mishap             \* history: the control thread found its descriptor closed, or
                     \* setsockopt failed on a new one

tcVars  == <<fd, connected>>
netVars == <<files, line, backlog, made>>
vars    == <<tcVars, thread, control, wfd, netVars, killed, heard, mishap>>

Conns == 1..MaxConns
Closed == -1

Init ==
  /\ fd = 0 /\ connected = FALSE
  /\ thread = "poll" /\ control = "idle" /\ wfd = 0
  /\ files = [f \in FDs |-> 0] /\ line = [c \in Conns |-> "none"] /\ backlog = {}
  /\ killed = FALSE /\ made = 0 /\ heard = FALSE /\ mishap = FALSE

IsOpen(f) == f \in FDs /\ files[f] # 0
Peer(f) == files[f]

\* close( f ): the last the server sees of a connection; a closed one is told.
Close(f) ==
  /\ files' = IF IsOpen(f) THEN [files EXCEPT ![f] = 0] ELSE files
  /\ line' = IF IsOpen(f) THEN [line EXCEPT ![Peer(f)] = "gone"] ELSE line

(***************************************************************************)
(* The terminal: a new connection, after the last one if there was one has *)
(* been closed by either side.  Data is always there to be read.           *)
(***************************************************************************)
TerminalConnects ==
  /\ made < MaxConns /\ (made > 0 => line[made] # "open")
  /\ made' = made + 1
  /\ line' = [line EXCEPT ![made + 1] = "open"]
  /\ backlog' = backlog \cup {made + 1}
  /\ UNCHANGED <<tcVars, thread, control, wfd, files, killed, heard, mishap>>

TerminalCloses ==
  /\ made > 0 /\ line[made] = "open"
  /\ line' = [line EXCEPT ![made] = "fin"]
  /\ UNCHANGED <<tcVars, thread, control, wfd, files, backlog, made, killed, heard, mishap>>

(***************************************************************************)
(* terminal_thread: server_socket_poll, server_socket_receive              *)
(***************************************************************************)
\* select waits for accept_fd, or for fd; for a descriptor -1 it waits for ever.
Poll ==
  /\ thread = "poll"
  /\ IF connected THEN IsOpen(fd) ELSE backlog # {}
  /\ thread' = "receive" /\ heard' = FALSE
  /\ UNCHANGED <<tcVars, control, wfd, netVars, killed, mishap>>

Receive ==
  /\ thread = "receive"
  /\ thread' = IF connected THEN "read" ELSE "accept"
  /\ UNCHANGED <<tcVars, control, wfd, netVars, killed, heard, mishap>>

\* socket_connection_accept, in three steps
Accept ==
  /\ thread = "accept" /\ thread' = "accepting"
  /\ connected' = FALSE
  /\ UNCHANGED <<fd, control, wfd, netVars, killed, heard, mishap>>

Accepting ==
  /\ thread = "accepting" /\ thread' = "accepted"
  /\ \E f \in FDs, c \in backlog :
       /\ files[f] = 0 /\ fd' = f
       /\ files' = [files EXCEPT ![f] = c] /\ backlog' = backlog \ {c}
  /\ UNCHANGED <<connected, control, wfd, line, made, killed, heard, mishap>>

Accepted_Forgotten == thread' = "read" /\ UNCHANGED <<connected, mishap>>
Accepted == connected' = TRUE /\ thread' = "read" /\ UNCHANGED mishap

\* setsockopt may fail: the descriptor stays open, and nobody uses it.
SetConnected ==
  /\ thread = "accepted"
  /\ \/ Accepted
     \/ thread' = "poll" /\ mishap' = TRUE /\ UNCHANGED connected
  /\ UNCHANGED <<fd, control, wfd, netVars, killed, heard>>

\* socket_read, if the flag is (still) set
Read ==
  /\ thread = "read"
  /\ \/ /\ connected /\ IsOpen(fd) /\ line[Peer(fd)] = "open"
        /\ heard' = (Peer(fd) = made) /\ thread' \in {"poll", "receive"}
     \/ /\ connected /\ ~(IsOpen(fd) /\ line[Peer(fd)] = "open")
        /\ thread' = "close" /\ heard' = FALSE
     \/ ~connected /\ thread' = "poll" /\ heard' = FALSE
  /\ UNCHANGED <<tcVars, control, wfd, netVars, killed, mishap>>

\* close_connection, in three steps
CloseFile_Skipped(f) == UNCHANGED <<files, line>>
CloseFile(f) == Close(f)

ThreadCloses ==
  /\ \/ /\ thread = "close" /\ thread' = "closing" /\ CloseFile(fd)
        /\ UNCHANGED <<tcVars, backlog, made>>
     \/ /\ thread = "closing" /\ thread' = "closed" /\ fd' = Closed
        /\ UNCHANGED <<connected, netVars>>
     \/ /\ thread = "closed" /\ thread' = "poll" /\ connected' = FALSE
        /\ UNCHANGED <<fd, netVars>>
  /\ UNCHANGED <<control, wfd, killed, heard, mishap>>

TerminalThread ==
  Poll \/ Receive \/ Accept \/ Accepting \/ SetConnected \/ Read \/ ThreadCloses

(***************************************************************************)
(* The control thread: server_socket_transmit                              *)
(***************************************************************************)
Transmit ==
  /\ control = "idle" /\ connected
  /\ control' = "write" /\ wfd' = fd
  /\ UNCHANGED <<tcVars, thread, netVars, killed, heard, mishap>>

Write ==
  /\ control = "write"
  /\ \/ /\ ~IsOpen(wfd)
        /\ control' = "close" /\ mishap' = TRUE /\ UNCHANGED <<line, killed>>
     \/ /\ IsOpen(wfd) /\ line[Peer(wfd)] = "reset"
        /\ killed' = TRUE /\ UNCHANGED <<control, line, mishap>>
     \/ /\ IsOpen(wfd) /\ line[Peer(wfd)] # "reset"
        /\ control' = "idle"
        /\ line' = IF line[Peer(wfd)] = "fin" THEN [line EXCEPT ![Peer(wfd)] = "reset"]
                                              ELSE line
        /\ UNCHANGED <<killed, mishap>>
  /\ UNCHANGED <<tcVars, thread, wfd, files, backlog, made, heard>>

ControlCloses ==
  /\ \/ /\ control = "close" /\ control' = "closing" /\ Close(fd)
        /\ UNCHANGED <<tcVars, backlog, made>>
     \/ /\ control = "closing" /\ control' = "closed" /\ fd' = Closed
        /\ UNCHANGED <<connected, netVars>>
     \/ /\ control = "closed" /\ control' = "idle" /\ connected' = FALSE
        /\ UNCHANGED <<fd, netVars>>
  /\ UNCHANGED <<thread, wfd, killed, heard, mishap>>

ControlThread == Transmit \/ Write \/ ControlCloses

Next == \/ TerminalConnects \/ TerminalCloses
        \/ ~killed /\ (TerminalThread \/ ControlThread)
Spec == Init /\ [][Next]_vars

\* The two threads run; nothing makes the terminal close its connection.
FairSpec == Spec /\ WF_vars(~killed /\ TerminalThread) /\ WF_vars(~killed /\ ControlThread)

TypeOK ==
  /\ fd \in FDs \cup {0, Closed} /\ connected \in BOOLEAN
  /\ thread \in {"poll", "receive", "accept", "accepting", "accepted", "read", "close",
                 "closing", "closed"}
  /\ control \in {"idle", "write", "close", "closing", "closed"} /\ wfd \in FDs \cup {0, Closed}
  /\ files \in [FDs -> {0} \cup Conns]
  /\ line \in [Conns -> {"none", "open", "fin", "reset", "gone"}]
  /\ backlog \subseteq Conns /\ made \in 0..MaxConns
  /\ {killed, heard, mishap} \subseteq BOOLEAN

\* No descriptor is lost: what is open is what tcp_connection_t holds - unless the control
\* thread has found its descriptor closed by the other thread: then it closes whatever is
\* in tcp_connection_t by now, or forgets a connection that was just accepted.  A
\* descriptor on which setsockopt fails is lost, too (lines 82-87).
NoLeak == mishap \/ (\A f \in FDs : IsOpen(f) => f = fd)

\* A terminal that stays connected is read from, again and again, although the reports
\* to it and to its predecessor are written by the other thread - but for that race and
\* a failing setsockopt.
TerminalIsServed ==
  (<>[](made > 0 /\ line[made] = "open") /\ []~mishap /\ []~killed) => []<>heard
===================================================================================
