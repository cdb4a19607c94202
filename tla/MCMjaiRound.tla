----------------------------- MODULE MCMjaiRound -----------------------------
(* A table of three seats, one more than the two ends of a discard.             *)
EXTENDS MjaiRound

MCPlayers == 0..2
==============================================================================
