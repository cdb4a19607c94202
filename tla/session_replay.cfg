SPECIFICATION SessionSpec
CONSTANTS
  p1 = p1
  p2 = p2
  t1 = t1
  Hidden = Hidden
  None = None
  Players <- MCPlayers
  Actors <- MCPlayers
  Tiles <- MCTiles
  Capacity = 2
  MaxEvents = 4
SYMMETRY Symmetry
INVARIANT
  ReplayIsTheSession
CHECK_DEADLOCK FALSE
