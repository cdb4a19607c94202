-------------------------- MODULE MCValidationState --------------------------
(***************************************************************************)
(* The tracker fed with any events in any order: two seats, one of which   *)
(* may be ours, a seat number that is out of range, and one tile type.     *)
(***************************************************************************)
EXTENDS ValidationState, TLC

CONSTANTS p1, p2, outOfRange, t1

MCPlayers == {p1, p2}
MCActors == {p1, p2, outOfRange}
MCTiles == {t1}

\* The seats play the same part and the tracker never orders them.
Symmetry == Permutations(MCPlayers)
==============================================================================
