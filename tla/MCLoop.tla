------------------------------- MODULE MCLoop -------------------------------
(* Small instances of Loop for TLC: the .cfg files give a few handles, two or *)
(* three addresses, delays and repetition counts and a clock of a few ticks.  *)
EXTENDS Loop
=============================================================================
