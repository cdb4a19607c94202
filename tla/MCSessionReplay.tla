--------------------------- MODULE MCSessionReplay ---------------------------
(***************************************************************************)
(* Sessions of two seats and one tile.                                     *)
(***************************************************************************)
EXTENDS SessionReplay, TLC

CONSTANTS p1, p2, t1

MCPlayers == {p1, p2}
MCTiles == {t1}
Symmetry == Permutations(MCPlayers)
==============================================================================
