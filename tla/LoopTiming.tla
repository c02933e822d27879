------------------------------- MODULE LoopTiming -------------------------------
(***************************************************************************)
(* The clock of the control loop (wait_for_next_period of control_loop.c,  *)
(* sleep_until of us_timer.c) and its watch over the terminal              *)
(* (check_terminal_connection).  The time of the next period is moved on   *)
(* by one period per iteration, whenever the iteration ended: a loop that  *)
(* was held up catches up with iterations that do not sleep.  It may be    *)
(* held up for long: javiator_port_get_data polls a Robostix that does not *)
(* answer a thousand times, a millisecond apart at least (javiator_port.c  *)
(* 181-201).  The terminal is watched by counting iterations, not time.    *)
(*                                                                         *)
(* A definition named X_Variant is not part of the model: it is X with a   *)
(* plausible slip in the code, kept to see that a property notices it.     *)
(***************************************************************************)
EXTENDS Integers

CONSTANTS
  Period,      \* us_period, in units of time
  Interval,    \* the terminal sends command data at least that often
  MaxBehind,   \* how far behind its clock the loop may be when it takes command data
               \* and still not give up a terminal that sends
  MaxLate,     \* bound: the loop falls behind its clock no further than that
  Threshold    \* COMMAND_THRESHOLD, in iterations (35)

\* A loop that is behind by MaxBehind makes up for it, and for the time in which
\* nothing came, within Threshold iterations.
ASSUME TimingAssumption ==
  /\ Period \in Nat \ {0} /\ Interval \in Nat \ {0}
  /\ {MaxBehind, MaxLate, Threshold} \subseteq Nat
  /\ Period + MaxBehind + Interval <= Threshold * Period

VARIABLES
  lead,                 \* next_period - now, negative if the loop is behind
  step,                 \* what the iteration is at
  new_command_data,     \* flag of terminal_port.c
  command_data_delay,   \* iterations since it was seen set
  sinceSent,            \* time since the terminal sent, up to Interval
  gone,                 \* the terminal has stopped sending
  late                  \* history: the loop was further behind than MaxBehind when it
                        \* last took command data

vars == <<lead, step, new_command_data, command_data_delay, sinceSent, gone, late>>

\* control_loop_run: next_period = get_utime( ) + us_period
Init ==
  /\ lead = Period /\ step = "exchange"
  /\ new_command_data = FALSE /\ command_data_delay = 0
  /\ sinceSent = 0 /\ gone = FALSE /\ late = FALSE

\* The exchange with the Robostix and the rest of the iteration take their time.
Tick ==
  /\ IF step = "sleep" THEN lead > 0 ELSE lead > -MaxLate
  /\ gone \/ sinceSent < Interval
  /\ lead' = lead - 1
  /\ sinceSent' = IF sinceSent < Interval THEN sinceSent + 1 ELSE sinceSent
  /\ UNCHANGED <<step, new_command_data, command_data_delay, gone, late>>

Send ==
  /\ ~gone
  /\ new_command_data' = TRUE /\ sinceSent' = 0
  /\ UNCHANGED <<lead, step, command_data_delay, gone, late>>

TerminalLeaves ==
  /\ gone' = TRUE
  /\ UNCHANGED <<lead, step, new_command_data, command_data_delay, sinceSent, late>>

NextDelay_Keeps ==
  IF command_data_delay > Threshold THEN command_data_delay ELSE command_data_delay + 1
NextDelay_Forgets ==
  IF new_command_data \/ command_data_delay = Threshold THEN 0 ELSE command_data_delay + 1
NextDelay ==
  IF new_command_data THEN 0
  ELSE IF command_data_delay > Threshold THEN command_data_delay
       ELSE command_data_delay + 1

\* check_terminal_connection, and get_command_data, which takes the data.
CheckTerminal ==
  /\ step = "exchange" /\ step' = "control"
  /\ command_data_delay' = NextDelay
  /\ new_command_data' = FALSE
  /\ late' = IF new_command_data THEN lead < -MaxBehind ELSE late
  /\ UNCHANGED <<lead, sinceSent, gone>>

EndIteration ==
  /\ step = "control" /\ step' = "sleep"
  /\ UNCHANGED <<lead, new_command_data, command_data_delay, sinceSent, gone, late>>

\* wait_for_next_period: sleep_until returns at once if the time has passed.
Moved_Twice == lead + 2 * Period
Moved == lead + Period

NextPeriod ==
  /\ step = "sleep" /\ lead <= 0 /\ step' = "exchange"
  /\ lead' = Moved
  /\ UNCHANGED <<new_command_data, command_data_delay, sinceSent, gone, late>>

Loop == CheckTerminal \/ EndIteration \/ NextPeriod
Next == Tick \/ Send \/ TerminalLeaves \/ Loop
Spec == Init /\ [][Next]_vars

\* Time goes on, and an iteration ends.
FairSpec == Spec /\ WF_vars(Tick) /\ WF_vars(Loop)

-----------------------------------------------------------------------------
TypeOK ==
  /\ lead \in (-MaxLate)..Period
  /\ step \in {"exchange", "control", "sleep"}
  /\ new_command_data \in BOOLEAN /\ gone \in BOOLEAN /\ late \in BOOLEAN
  /\ command_data_delay \in 0..(Threshold + 1)
  /\ sinceSent \in 0..Interval

\* A terminal that keeps sending is not taken for gone, though a loop that has been held
\* up counts many iterations in no time: only a loop that was further behind than
\* MaxBehind when it last took command data, after a long silence of the Robostix, gives
\* it up (control_loop.c 210-225, 656-666, javiator_port.c 181-201).  A hold-up that ends
\* with new command data costs nothing, however long it is.
AliveIsNotBroken == ~gone /\ ~late => command_data_delay <= Threshold

\* Why: what was counted since the last command data is made up for by the
\* time that went by and by what the loop was behind then.
Counted == IF step = "exchange" THEN command_data_delay + 1 ELSE command_data_delay
CountIsPaidFor ==
  ~gone /\ ~late /\ ~new_command_data => Counted * Period <= lead + MaxBehind + sinceSent

\* A terminal that has gone is found to be gone, and stays so.
GoneIsBroken == gone ~> [](command_data_delay > Threshold)
=============================================================================
