------------------------------ MODULE LaserPort ------------------------------
(***************************************************************************)
(* The port of an LSM-215 laser on Robostix 2 (lsm215.c): the x-laser, and *)
(* just the same the y-laser, whose code is a copy for the other UART.     *)
(* enable_sensors of robo2.c starts and stops it by commands of three      *)
(* bytes; the laser sends lines, and error messages that start with '@'.   *)
(*                                                                         *)
(* ByteTime is the time of one byte on the line; starts and stops are at   *)
(* least CommandGap byte times apart (each takes a packet on the parallel  *)
(* port, or a period of the watchdog).  A laser that is told to stop may   *)
(* break off its line.                                                     *)
(*                                                                         *)
(* A definition named X_Variant is not part of the model: it is X with a   *)
(* plausible slip in the code, kept to see that a property notices it.     *)
(***************************************************************************)
EXTENDS Integers, Sequences

CONSTANTS LineSize,     \* RX_DATA_SIZE, bytes of a line with its line feed (33)
          ErrorSize,    \* bytes of an error message with its line feed (7)
          TxSize,       \* TX_DATA_SIZE, bytes of a command (3)
          CommandGap    \* least number of byte times between commands

LaserConstantsOK ==
  /\ LineSize \in Nat /\ ErrorSize \in Nat /\ 1 < ErrorSize /\ ErrorSize < LineSize
  /\ TxSize = 3 /\ CommandGap \in Nat /\ TxSize + 1 <= CommandGap

VARIABLES
  enabled,                            \* sensors_enabled of robo2.c
  tx_buf, tx_items, tx_index, udrie,  \* transmit buffer, DRE interrupt enabled
  udr,                                \* byte in the data register, or "none"
  age,                                \* byte times since the last command, up to CommandGap
  command, laser_on,                  \* the laser: command being heard, measuring
  line, pos,                          \* the line it sends ("data", "error"), next byte of it
  received,                           \* byte in the receiver of the UART, or << >>
  rx_buf, rx_index,
  sample,                             \* what lsm215_get_x_data copied last
  undisturbed                         \* history: lines sent in full since one was broken
                                      \* off or lost a byte, up to 2

txVars    == <<enabled, tx_buf, tx_items, tx_index, udrie>>
laserVars == <<udr, age, command, laser_on, line, pos, undisturbed>>
rxVars    == <<received, rx_buf, rx_index, sample>>
vars      == <<txVars, laserVars, rxVars>>

Start == <<"h", "cr", "lf">>
Stop  == <<"c", "cr", "lf">>
SizeOf(l) == IF l = "data" THEN LineSize ELSE ErrorSize
ByteOf(l, p) == [line |-> l, pos |-> p]
IsLineFeed(byte) == byte.pos = SizeOf(byte.line) - 1
Whole == [i \in 0..(LineSize - 1) |-> ByteOf("data", i)]

\* lsm215_start, lsm215_stop; a store past the end of tx_buf is not followed.
Append3(buf, items, cmd) ==
  [i \in DOMAIN buf |-> IF i \in items..(items + 2) THEN cmd[i - items + 1] ELSE buf[i]]
WriteCommand_NotStarted(cmd) ==
  /\ tx_buf' = Append3(tx_buf, tx_items, cmd)
  /\ tx_items' = tx_items + 3
  /\ UNCHANGED udrie
WriteCommand(cmd) ==
  /\ tx_buf' = Append3(tx_buf, tx_items, cmd)
  /\ tx_items' = tx_items + 3
  /\ udrie' = TRUE

\* lsm215_init stops the laser, which may still be measuring.
Init ==
  /\ enabled = FALSE
  /\ tx_buf = [i \in 0..(TxSize - 1) |-> Stop[i + 1]] /\ tx_items = 3 /\ tx_index = 0
  /\ udrie = TRUE
  /\ udr = "none" /\ age = 0 /\ command = << >>
  /\ laser_on \in BOOLEAN /\ line = "data" /\ pos = 0 /\ undisturbed = 0
  /\ received = << >> /\ rx_index = 0
  /\ rx_buf = Whole /\ sample = Whole

EnableSensors ==
  /\ age = CommandGap
  /\ enabled' = ~enabled /\ age' = 0
  /\ WriteCommand(IF enabled THEN Stop ELSE Start)
  /\ UNCHANGED <<tx_index, udr, command, laser_on, line, pos, undisturbed, rxVars>>

(***************************************************************************)
(* SIG_UART0_DATA                                                          *)
(***************************************************************************)
EndOfStream_KeepsItems == udrie' = FALSE /\ UNCHANGED <<tx_items, tx_index, udr>>
EndOfStream == udrie' = FALSE /\ tx_items' = 0 /\ tx_index' = 0 /\ UNCHANGED udr

DataRegisterEmpty ==
  /\ udrie /\ udr = "none"
  /\ IF tx_index = tx_items
     THEN EndOfStream
     ELSE udr' = tx_buf[tx_index] /\ tx_index' = tx_index + 1 /\ UNCHANGED <<tx_items, udrie>>
  /\ UNCHANGED <<enabled, tx_buf, age, command, laser_on, line, pos, undisturbed, rxVars>>

(***************************************************************************)
(* The laser and the line to it; an interrupt is served, and a byte taken, *)
(* within a byte time.                                                     *)
(***************************************************************************)
\* The laser hears a byte of a command.
Hear ==
  LET heard == IF udr = "none" THEN command ELSE Append(command, udr)
  IN  /\ command' = IF Len(heard) = 3 THEN << >> ELSE heard
      /\ laser_on' = CASE heard = Start -> TRUE [] heard = Stop -> FALSE [] OTHER -> laser_on

\* It goes on with its line, which may lose the byte, breaks it off, or begins one.
Measure ==
  \/ /\ laser_on \/ pos > 0
     /\ LET more == pos + 1 < SizeOf(line)
        IN  /\ pos' = IF more THEN pos + 1 ELSE 0
            /\ line' \in IF more THEN {line} ELSE {"data", "error"}
            /\ \/ /\ received' = <<ByteOf(line, pos)>>
                  /\ undisturbed' = IF more \/ undisturbed = 2 THEN undisturbed ELSE undisturbed + 1
               \/ undisturbed = 2 /\ undisturbed' = 0 /\ UNCHANGED received
  \/ /\ ~laser_on
     /\ pos' = 0 /\ UNCHANGED <<line, received>>
     /\ undisturbed' = IF pos > 0 THEN 0 ELSE undisturbed

ByteTime ==
  /\ ~(udrie /\ udr = "none") /\ received = << >>
  /\ age' = IF age < CommandGap THEN age + 1 ELSE age
  /\ udr' = "none"
  /\ Hear /\ Measure
  /\ UNCHANGED <<txVars, rx_buf, rx_index, sample>>

(***************************************************************************)
(* lsm215_is_new_x_data, and lsm215_get_x_data if it returns 1.            *)
(***************************************************************************)
IsError(buf) == buf[0].line = "error" /\ buf[0].pos = 0

EndsLine_OnlyWhenFull(byte) == rx_index + 1 = LineSize
EndsLine(byte) == IsLineFeed(byte) \/ rx_index + 1 = LineSize

TakeByte ==
  /\ received # << >>
  /\ received' = << >>
  /\ rx_buf' = [rx_buf EXCEPT ![rx_index] = received[1]]
  /\ IF EndsLine(received[1])
     THEN rx_index' = 0 /\ sample' = IF IsError(rx_buf') THEN sample ELSE rx_buf'
     ELSE rx_index' = rx_index + 1 /\ UNCHANGED sample
  /\ UNCHANGED <<txVars, laserVars>>

Next == EnableSensors \/ DataRegisterEmpty \/ ByteTime \/ TakeByte
Spec == Init /\ [][Next]_vars

\* Interrupts come, the loop polls and time goes on; nothing makes enable_sensors be
\* called.
FairSpec == Spec /\ WF_vars(DataRegisterEmpty) /\ WF_vars(ByteTime) /\ WF_vars(TakeByte)

TypeOK ==
  /\ enabled \in BOOLEAN /\ udrie \in BOOLEAN /\ laser_on \in BOOLEAN
  /\ tx_items \in {0, TxSize} /\ tx_index \in 0..TxSize
  /\ tx_buf \in [0..(TxSize - 1) -> {"h", "c", "cr", "lf"}]
  /\ udr \in {"none", "h", "c", "cr", "lf"} /\ age \in 0..CommandGap
  /\ Len(command) <= 2 /\ line \in {"data", "error"} /\ pos \in 0..(SizeOf(line) - 1)
  /\ rx_index \in 0..(LineSize - 1) /\ undisturbed \in 0..2
  /\ Len(received) <= 1

\* From the second line on after one that was broken off or lost a byte, every line is
\* copied once, byte for byte where lsm215_get_x_data looks for its digits, and an
\* error message never is.
LinesAreTaken ==
  [][undisturbed = 2 /\ received # << >> /\ received' = << >> =>
       sample' = IF received[1] = ByteOf("data", LineSize - 1) THEN Whole ELSE sample]_vars

\* The laser ends up in the state the sensors were last set to.
LaserObeys == <>[]enabled => <>[]laser_on
LaserRests == <>[]~enabled => <>[]~laser_on
==============================================================================
