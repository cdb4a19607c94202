SPECIFICATION RoundSpec
CONSTANTS
  Players <- MCPlayers
  Actors <- MCPlayers
  Tiles = {m1, p1}
  Hidden = Hidden
  None = None
  Me = 0
  MaxLog = 8
INVARIANTS
  RiichiIsTracked
  IppatsuIsTracked
  PassedTilesAreTracked
  FuritenIsTracked
  ReactionSourceIsCurrent
