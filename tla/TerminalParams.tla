----------------------------- MODULE TerminalParams -----------------------------
(***************************************************************************)
(* The gains of the controllers on their way from the terminal into the    *)
(* control loop (terminal_port.c, control_loop.c): terminal_thread stores  *)
(* them field by field under terminal_lock, the control thread copies them *)
(* under the same lock if it sees, without the lock, that there are new    *)
(* ones.  The x/y gains are stored, but the loop never asks for them.  At  *)
(* the end of an iteration it sends a report to the terminal, every        *)
(* multiplier-th time.                                                     *)
(*                                                                         *)
(* A set of gains is known by the number of the packet it came with.  A    *)
(* packet whose size is wrong sets the flag all the same.                  *)
(*                                                                         *)
(* A definition named X_Variant is not part of the model: it is X with a   *)
(* plausible slip in the code, kept to see that a property notices it.     *)
(***************************************************************************)
EXTENDS Integers, Sequences

CONSTANTS
  Fields,         \* number of gains in a packet (4)
  MaxPackets,     \* bound: packets the terminal sends
  Multiplier      \* iterations per report

TerminalConstantsOK ==
  Fields \in Nat \ {0} /\ MaxPackets \in Nat /\ Multiplier \in Nat \ {0}

VARIABLES
  lock,                    \* who holds terminal_lock
  packet, stored,          \* comm_packet being processed or << >>, fields of it stored
  number,                  \* packets sent so far
  params, newParams,       \* r_p_params, ..., and new_r_p_params, ...
  step, asks,              \* the control thread: where it is, the kind it asks for
  copy, copied,            \* params of get_control_params, fields of it copied
  gains,                   \* of the controllers
  counter                  \* of terminal_port_send_report

termVars == <<packet, stored, number>>
portVars == <<lock, params, newParams>>
loopVars == <<step, asks, copy, copied, gains>>
vars     == <<termVars, portVars, loopVars, counter>>

Kinds       == {"r_p", "yaw", "alt", "x_y"}
Asked       == <<"r_p", "yaw", "alt">>       \* get_control_params
Controllers == {"roll", "pitch", "yaw", "z"}
Of(c)       == CASE c \in {"roll", "pitch"} -> "r_p" [] c = "yaw" -> "yaw" [] OTHER -> "alt"
Set(n)      == [f \in 1..Fields |-> n]

\* terminal_port_init, controller_init
Init ==
  /\ lock = "none" /\ packet = << >> /\ stored = 0 /\ number = 0
  /\ params = [k \in Kinds |-> Set(0)] /\ newParams = [k \in Kinds |-> FALSE]
  /\ step = "ask" /\ asks = 1 /\ copy = Set(0) /\ copied = 0
  /\ gains = [c \in Controllers |-> Set(0)]
  /\ counter = 1

(***************************************************************************)
(* terminal_thread: process_data_packet                                    *)
(***************************************************************************)
Receive ==
  /\ packet = << >> /\ number < MaxPackets
  /\ number' = number + 1 /\ stored' = 0
  /\ \E k \in Kinds, whole \in BOOLEAN : packet' = <<[kind |-> k, number |-> number', whole |-> whole]>>
  /\ UNCHANGED <<portVars, loopVars, counter>>

\* The lock is taken; parse_r_p_params_packet, ... set the flag, and then store.
ParsePacket ==
  /\ packet # << >> /\ lock = "none" /\ lock' = "terminal"
  /\ newParams' = [newParams EXCEPT ![packet[1].kind] = TRUE]
  /\ UNCHANGED <<termVars, params, loopVars, counter>>

StoreField ==
  /\ lock = "terminal" /\ packet[1].whole /\ stored < Fields
  /\ stored' = stored + 1
  /\ params' = [params EXCEPT ![packet[1].kind][stored'] = packet[1].number]
  /\ UNCHANGED <<lock, newParams, packet, number, loopVars, counter>>

Unlock ==
  /\ lock = "terminal" /\ (stored = Fields \/ ~packet[1].whole)
  /\ lock' = "none" /\ packet' = << >>
  /\ UNCHANGED <<params, newParams, stored, number, loopVars, counter>>

TerminalThread == ParsePacket \/ StoreField \/ Unlock

(***************************************************************************)
(* The control thread: get_control_params                                  *)
(***************************************************************************)
Kind == Asked[asks]
Ask(n) == IF n = Len(Asked) THEN step' = "report" /\ asks' = 1
                            ELSE step' = "ask" /\ asks' = n + 1

AskForParams ==
  /\ step = "ask"
  /\ IF newParams[Kind] THEN step' = "lock" /\ UNCHANGED asks ELSE Ask(asks)
  /\ UNCHANGED <<termVars, portVars, copy, copied, gains, counter>>

\* terminal_port_get_r_p_params, ...
TakeLock_Forgotten == lock' = lock
TakeLock == lock = "none" /\ lock' = "control"

LockParams ==
  /\ step = "lock" /\ TakeLock /\ step' = "copy" /\ copied' = 0
  /\ UNCHANGED <<termVars, params, newParams, asks, copy, gains, counter>>

CopyField ==
  /\ step = "copy" /\ copied < Fields
  /\ copied' = copied + 1 /\ copy' = [copy EXCEPT ![copied'] = params[Kind][copied']]
  /\ UNCHANGED <<termVars, portVars, step, asks, gains, counter>>

ClearFlag ==
  /\ step = "copy" /\ copied = Fields /\ step' = "set"
  /\ newParams' = [newParams EXCEPT ![Kind] = FALSE]
  /\ lock' = IF lock = "control" THEN "none" ELSE lock
  /\ UNCHANGED <<termVars, params, asks, copy, copied, gains, counter>>

\* set_control_params
SetBoth_FirstOnly(c) == Of(c) = Kind /\ c # "pitch"
SetBoth(c) == Of(c) = Kind

SetControlParams ==
  /\ step = "set" /\ Ask(asks)
  /\ gains' = [c \in Controllers |-> IF SetBoth(c) THEN copy ELSE gains[c]]
  /\ UNCHANGED <<termVars, portVars, copy, copied, counter>>

(***************************************************************************)
(* terminal_port_send_report; the next iteration                           *)
(***************************************************************************)
SendReport ==
  /\ step = "report" /\ step' = "ask"
  /\ counter' = IF counter = 1 THEN Multiplier ELSE counter - 1
  /\ UNCHANGED <<termVars, portVars, asks, copy, copied, gains>>

ControlThread ==
  \/ AskForParams \/ LockParams \/ CopyField \/ ClearFlag \/ SetControlParams
  \/ SendReport

Next == Receive \/ TerminalThread \/ ControlThread
Spec == Init /\ [][Next]_vars

\* Both threads run; the control thread gets the lock in the end, as packets are rare.
FairSpec == Spec /\ WF_vars(TerminalThread) /\ SF_vars(LockParams) /\ WF_vars(ControlThread)

Gains == [1..Fields -> 0..MaxPackets]
TypeOK ==
  /\ lock \in {"none", "terminal", "control"} /\ stored \in 0..Fields /\ number \in 0..MaxPackets
  /\ packet \in {<< >>} \cup
       { <<p>> : p \in [kind : Kinds, number : 1..MaxPackets, whole : BOOLEAN] }
  /\ params \in [Kinds -> Gains] /\ newParams \in [Kinds -> BOOLEAN]
  /\ step \in {"ask", "lock", "copy", "set", "report"} /\ asks \in 1..Len(Asked)
  /\ copy \in Gains /\ copied \in 0..Fields /\ gains \in [Controllers -> Gains]
  /\ counter \in 1..Multiplier

\* No controller ever works with gains of two packets, and roll and pitch work with the
\* same ones (control_loop.c 300-346, terminal_port.c 87-109, 385-419).
GainsAreOneSet ==
  /\ \A c \in Controllers, f \in 1..Fields : gains[c][f] = gains[c][1]
  /\ gains["roll"] = gains["pitch"]

\* Between two looks the controllers lack no gains but those that are flagged: a packet
\* that comes while the gains before it are fetched is not lost.
GainsAreCurrent ==
  step = "ask" /\ lock # "terminal" =>
    \A c \in Controllers : newParams[Of(c)] \/ gains[c] = params[Of(c)]

\* Whatever the terminal sends takes effect in the end.
GainsTakeEffect == <>[](\A c \in Controllers : gains[c] = params[Of(c)])
=================================================================================
