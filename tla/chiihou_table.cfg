SPECIFICATION Spec
CONSTANTS
  me = me
  other = other
  Everyone <- MCEveryone
  Me = me
  PlayerCount = 2
  Pais <- MCPais
  Rounds = {east1}
  Seatings <- MCSeatings
  Hands <- MCHands
  OpenTiles <- MCOpenTiles
  Draws <- MCDraws
  Indicators <- MCIndicators
  MaxDiscards = 2
  MaxMelds = 2
  MaxDora = 1
  None = None
INVARIANTS
  VisibleTilesAreCountedOnce
  EachDiscardIsCalledOnce
