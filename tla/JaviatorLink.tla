----------------------------- MODULE JaviatorLink -----------------------------
(***************************************************************************)
(* The exchange of motor packets and answers between the Gumstix           *)
(* (javiator_port.c) and Robostix 1 (send_javiator_data in robo1.c, the    *)
(* transmitter of serial.c).                                               *)
(*                                                                         *)
(* The exchange is pipelined: javiator_port_init sends one packet ahead,   *)
(* so every iteration of the control loop sends a packet and takes the     *)
(* answer to the one before.  An answer carries the id of the packet it    *)
(* answers and the new-data bits of the sensors.  The board refuses an     *)
(* answer while it still transmits the last; the Gumstix that finds no     *)
(* answer sends a packet more.  Left out: what the packets say.            *)
(*                                                                         *)
(* A definition named X_Variant is not part of the model: it is X with a   *)
(* plausible slip in the code, kept to see that a property notices it.     *)
(***************************************************************************)
EXTENDS Integers, Sequences, SequencesExt

CONSTANTS
  IdMod,        \* ids are uint16_t (65536)
  MaxAttempts,  \* polls without an answer before the port gives up (1000)
  LineCap       \* bound: packets the line and its buffers hold, each way

LinkConstantsOK ==
  /\ MaxAttempts \in Nat
  /\ LineCap \in Nat \ {0}
  /\ IdMod \in Nat /\ IdMod > 2 * (LineCap + MaxAttempts) + 1

VARIABLES
  step,        \* "send" or "get" in control_loop_run, or "exit"
  attempts,    \* polls of the current javiator_port_get_data
  local_id,    \* id of the last packet sent
  data,        \* the last answer taken: javiator_data of the Gumstix
  warned,      \* taking it printed the warning of lost packets
  up,          \* ids of the motor packets on their way to the board
  tx,          \* the answer the board is transmitting, if any
  down,        \* answers that wait at the Gumstix
  data_state,  \* new-data bits collected by the board
  lost,        \* history: a packet or an answer has been lost
  polled       \* history: the Gumstix has polled

gumVars   == <<step, attempts, local_id, data, warned, polled>>
boardVars == <<tx, data_state>>
vars      == <<gumVars, boardVars, up, down, lost>>

DataBits == {"imu", "sonar"}
Ids      == 0..(IdMod - 1)
Answers  == [id : Ids, new : SUBSET DataBits]

Init ==
  /\ step = "send" /\ attempts = 0
  /\ local_id = 1 /\ up = << 1 >>    \* sent by javiator_port_init
  /\ data = [id |-> 0, new |-> {}] /\ warned = FALSE
  /\ tx = << >> /\ down = << >>
  /\ data_state = {}
  /\ lost = FALSE /\ polled = FALSE

(***************************************************************************)
(* The Gumstix.                                                            *)
(***************************************************************************)
NextId_Reused == local_id
NextId_Unbounded == local_id + 1
NextId == (local_id + 1) % IdMod

Send == /\ Len(up) < LineCap
        /\ local_id' = NextId
        /\ up' = Append(up, NextId)

SendMotorSignals ==
  /\ step = "send"
  /\ Send
  /\ step' = "get" /\ attempts' = 0
  /\ UNCHANGED <<data, warned, polled, boardVars, down, lost>>

\* javiator_port_get_data without a complete answer to read.
PollAgain ==
  /\ step = "get"
  /\ down = << >>
  /\ attempts < MaxAttempts
  /\ attempts' = attempts + 1
  /\ Send
  /\ polled' = TRUE
  /\ UNCHANGED <<step, data, warned, boardVars, down, lost>>

GiveUp ==
  /\ step = "get"
  /\ down = << >>
  /\ attempts = MaxAttempts
  /\ step' = "exit"
  /\ UNCHANGED <<attempts, local_id, data, warned, polled, boardVars, up,
                 down, lost>>

IsExpected_NoWrap(answer) == answer.id + 1 = local_id
IsExpected(answer) == (answer.id + 1) % IdMod = local_id

\* parse_javiator_data: the answer is taken whether it is expected or not.
TakeAnswer ==
  /\ step = "get"
  /\ down # << >>
  /\ data' = Head(down)
  /\ down' = Tail(down)
  /\ warned' = ~IsExpected(Head(down))
  /\ step' = "send"
  /\ UNCHANGED <<attempts, local_id, polled, boardVars, up, lost>>

Gumstix == SendMotorSignals \/ PollAgain \/ GiveUp \/ TakeAnswer

(***************************************************************************)
(* The board.                                                              *)
(***************************************************************************)
\* serial_send_data refuses while the last answer is being transmitted.
Reply ==
  IF tx = << >>
  THEN tx' = << [id |-> Head(up), new |-> data_state] >> /\ UNCHANGED lost
  ELSE lost' = TRUE /\ UNCHANGED tx

\* send_javiator_data: the new-data bits go whether or not the answer does.
AnswerMotorSignals ==
  /\ up # << >>
  /\ up' = Tail(up)
  /\ Reply
  /\ data_state' = {}
  /\ UNCHANGED <<gumVars, down>>

TransmitEnds ==
  /\ tx # << >>
  /\ Len(down) < LineCap
  /\ down' = down \o tx
  /\ tx' = << >>
  /\ UNCHANGED <<gumVars, data_state, up, lost>>

NewData(d) ==
  /\ data_state' = data_state \cup {d}
  /\ UNCHANGED <<gumVars, tx, up, down, lost>>

Board == \/ AnswerMotorSignals
         \/ TransmitEnds
         \/ \E d \in DataBits : NewData(d)

(***************************************************************************)
(* The line loses a packet, or serial_reset cuts an answer off.            *)
(***************************************************************************)
LosePacket ==
  /\ up # << >>
  /\ up' = Tail(up)
  /\ lost' = TRUE
  /\ UNCHANGED <<gumVars, boardVars, down>>

LoseAnswer ==
  /\ tx # << >>
  /\ tx' = << >>
  /\ lost' = TRUE
  /\ UNCHANGED <<gumVars, data_state, up, down>>

Next == Gumstix \/ Board \/ LosePacket \/ LoseAnswer

Spec == Init /\ [][Next]_vars

-----------------------------------------------------------------------------
TypeOK ==
  /\ step \in {"send", "get", "exit"}
  /\ attempts \in 0..MaxAttempts
  /\ local_id \in Ids
  /\ data \in Answers
  /\ warned \in BOOLEAN
  /\ up \in Seq(Ids) /\ Len(up) <= LineCap
  /\ tx \in Seq(Answers) /\ Len(tx) <= 1
  /\ down \in Seq(Answers) /\ Len(down) <= LineCap
  /\ data_state \subseteq DataBits
  /\ lost \in BOOLEAN /\ polled \in BOOLEAN

\* How many packets ago the id was used.
Age(id) == (local_id - id) % IdMod

IdsOf(answers) == [i \in 1..Len(answers) |-> answers[i].id]

\* Everything under way, the answer last taken first.
Pipeline == << data.id >> \o IdsOf(down) \o IdsOf(tx) \o up

\* Answers are taken in the order in which their packets were sent and none is
\* taken twice, across losses, refusals, polls and the wrap-around of the ids:
\* the ids under way, from the answer taken last to the packet sent last, are
\* younger and younger.
AnswersInOrder ==
  \A i, j \in 1..Len(Pipeline) :
    i < j => Age(Pipeline[i]) > Age(Pipeline[j])

\* Without a loss and without a poll every answer is the one expected, at any
\* id: the pipeline is one packet deep and stays so.
WarningHasCause == warned => lost \/ polled
=============================================================================
