----------------------------- MODULE MCFuriten -----------------------------
EXTENDS Furiten, TLC

CONSTANTS t1, t2, t3

MCTiles == {t1, t2, t3}
Symmetry == Permutations(MCTiles)
==============================================================================
