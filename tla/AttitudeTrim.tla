----------------------------- MODULE AttitudeTrim -----------------------------
(***************************************************************************)
(* Trimming the attitude in the first control loop (terminal_port.c,       *)
(* control_loop_original.c): the terminal asks to store the attitude of    *)
(* the moment, or to forget what was stored, and the control loop takes    *)
(* what is stored off every attitude that it measures.  The two threads    *)
(* share a flag per request, which the control thread reads and then       *)
(* clears.  main.c loads the trim when the program starts and saves it     *)
(* when the control loop has ended, which a killed program never gets to.  *)
(* Of the two angles roll is modelled; pitch is treated alike.             *)
(*                                                                         *)
(* A definition named X_Variant is not part of the model: it is X with a   *)
(* plausible slip in the code, kept to see that a property notices it.     *)
(***************************************************************************)
EXTENDS Integers

CONSTANTS
  Attitudes,   \* roll angles of the helicopter as measured
  MaxStores    \* bound: attitudes stored before they are cleared

TrimConstantsOK == Attitudes \subseteq Int /\ MaxStores \in Nat

VARIABLES
  store_trim, clear_trim,  \* flags of terminal_port.c
  phase,                   \* where prepare_sensor_data, or main, is
  seen,                    \* the local copy of the flag read last
  raw, roll,               \* the angle before and after trimming
  trim, saved,             \* *offset_roll, and what the configuration file has of it
  killed                   \* history: the program last ended without saving

\* A trim is its value, and as history the number of attitudes it is the sum
\* of and the one stored last.
NoTrim == [value |-> 0, stores |-> 0, of |-> 0]

flagVars  == <<store_trim, clear_trim>>
angleVars == <<raw, roll>>
fileVars  == <<saved, killed>>
vars      == <<flagVars, phase, seen, angleVars, trim, fileVars>>

Init ==
  /\ store_trim = FALSE /\ clear_trim = FALSE /\ phase = "scale" /\ seen = FALSE
  /\ raw = 0 /\ roll = 0
  /\ trim = NoTrim /\ saved = NoTrim /\ killed = FALSE

(***************************************************************************)
(* process_data_packet: set_store_trim, set_clear_trim                     *)
(***************************************************************************)
SetStoreTrim ==
  /\ phase \notin {"save", "off"} /\ trim.stores < MaxStores
  /\ store_trim' = TRUE
  /\ UNCHANGED <<clear_trim, phase, seen, angleVars, trim, fileVars>>

SetClearTrim ==
  /\ phase \notin {"save", "off"}
  /\ clear_trim' = TRUE
  /\ UNCHANGED <<store_trim, phase, seen, angleVars, trim, fileVars>>

(***************************************************************************)
(* prepare_sensor_data                                                     *)
(***************************************************************************)
ScaleAngle ==
  /\ phase = "scale" /\ phase' = "store"
  /\ raw' \in Attitudes
  /\ UNCHANGED <<flagVars, seen, roll, trim, fileVars>>

\* terminal_port_is_store_trim reads the flag ...
ReadStoreTrim ==
  /\ phase = "store" /\ phase' = "storeRead" /\ seen' = store_trim
  /\ UNCHANGED <<flagVars, angleVars, trim, fileVars>>

Sum_TwiceRaw == trim.value + 2 * raw
Sum == trim.value + raw

\* ... and clears it; the angle is added to the trim there is.
StoreTrim ==
  /\ phase = "storeRead" /\ store_trim' = FALSE /\ seen' = FALSE
  /\ IF seen
     THEN phase' = "apply" /\ trim' = [value |-> Sum, stores |-> trim.stores + 1, of |-> raw]
     ELSE phase' = "clear" /\ UNCHANGED trim
  /\ UNCHANGED <<clear_trim, angleVars, fileVars>>

\* The same for terminal_port_is_clear_trim, asked only if nothing was stored.
ReadClearTrim ==
  /\ phase = "clear" /\ phase' = "clearRead" /\ seen' = clear_trim
  /\ UNCHANGED <<flagVars, angleVars, trim, fileVars>>

Forget_OnlyTheLast == [trim EXCEPT !.value = trim.value - trim.of]
Forget == NoTrim

ClearTrim ==
  /\ phase = "clearRead" /\ clear_trim' = FALSE /\ seen' = FALSE
  /\ phase' = "apply"
  /\ trim' = IF seen THEN Forget ELSE trim
  /\ UNCHANGED <<store_trim, angleVars, fileVars>>

ApplyTrim ==
  /\ phase = "apply" /\ phase' = "scale"
  /\ roll' = raw - trim.value
  /\ UNCHANGED <<flagVars, seen, raw, trim, fileVars>>

(***************************************************************************)
(* main: the loop ends between two iterations, by a signal or an error     *)
(***************************************************************************)
LoopEnds ==
  /\ phase = "scale" /\ phase' = "save"
  /\ UNCHANGED <<flagVars, seen, angleVars, trim, fileVars>>

Saved_OnlyNew == IF store_trim THEN saved ELSE trim
Saved == trim

\* The file may not open for writing.
SaveConfiguration ==
  /\ phase = "save" /\ phase' = "off"
  /\ \/ saved' = Saved /\ killed' = FALSE
     \/ UNCHANGED saved /\ killed' = TRUE
  /\ UNCHANGED <<flagVars, seen, angleVars, trim>>

Killed ==
  /\ phase # "off" /\ phase' = "off" /\ killed' = TRUE
  /\ UNCHANGED <<flagVars, seen, angleVars, trim, saved>>

Restart ==
  /\ phase = "off" /\ phase' = "scale"
  /\ trim' = saved
  /\ store_trim' = FALSE /\ clear_trim' = FALSE /\ seen' = FALSE
  /\ raw' = 0 /\ roll' = 0
  /\ UNCHANGED fileVars

ControlThread == ScaleAngle \/ ReadStoreTrim \/ StoreTrim \/ ReadClearTrim
                 \/ ClearTrim \/ ApplyTrim \/ SaveConfiguration
Next == SetStoreTrim \/ SetClearTrim \/ ControlThread \/ LoopEnds \/ Killed \/ Restart
Spec == Init /\ [][Next]_vars

\* The control thread runs, and main after it; nobody has to start it again.
FairSpec == Spec /\ WF_vars(ControlThread)

-----------------------------------------------------------------------------
Trims == [value : Int, stores : 0..MaxStores, of : Attitudes \cup {0}]
TypeOK ==
  /\ store_trim \in BOOLEAN /\ clear_trim \in BOOLEAN /\ seen \in BOOLEAN /\ killed \in BOOLEAN
  /\ phase \in {"scale", "store", "storeRead", "clear", "clearRead", "apply", "save", "off"}
  /\ raw \in Attitudes \cup {0} /\ roll \in Int
  /\ trim \in Trims /\ saved \in Trims

\* A trim that was stored once, since it was last cleared, levels exactly the
\* attitude it was stored at: also in later iterations, and after a restart.
\* (A second store adds the whole angle again, untrimmed.)
LevelAtStoredAttitude ==
  phase = "scale" /\ trim.stores = 1 /\ raw = trim.of => roll = 0

\* What a run of the program that ended by itself, and could write its file, leaves is
\* what the next one starts with.
TrimOutlivesTheProgram ==
  [][ phase = "off" /\ ~killed /\ phase' = "scale" => trim' = trim ]_vars

\* A request to clear the trim gets through, unless the terminal asks to store
\* again and again, or the program ends.  (One that comes in between the read
\* and the clearing of the flag is lost, as a state switch is.)
ClearTrimServed ==
  []<>(phase = "store" /\ ~store_trim)
    => ((clear_trim /\ phase # "clearRead") ~> (phase = "off" \/ trim = NoTrim))
=============================================================================
