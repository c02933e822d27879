-------------------------- MODULE MCRobostixReceiver --------------------------
(* Small instances of RobostixReceiver for TLC. *)
EXTENDS RobostixReceiver

\* Plain payloads, and two with marks in data and sum.
MixedData == {<< >>, <<3, 15>>, <<15, 15>>} \cup ({0, 2} \X {0, 2})

\* A size at which rx_items comes round.
LargeData == {<< >>, <<11, 0>>}
=============================================================================
