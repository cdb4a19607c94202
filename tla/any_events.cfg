SPECIFICATION Spec
CONSTANTS
  p1 = p1
  p2 = p2
  outOfRange = outOfRange
  t1 = t1
  Hidden = Hidden
  None = None
  Players <- MCPlayers
  Actors <- MCActors
  Tiles <- MCTiles
SYMMETRY Symmetry
INVARIANTS
  TypeOK
  RiichiFactsNeedRiichi
  KnownTogether
PROPERTIES
  RiichiFuritenIsFinal
