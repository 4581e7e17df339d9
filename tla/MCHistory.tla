----------------------------- MODULE MCHistory -----------------------------
(* History for TLC: a time in every width, and two of the same width.      *)
EXTENDS History

MCTimes == {100, 110, 112, 115}
=============================================================================
