SPECIFICATION ClientSpec
CONSTANTS
  Players <- MCPlayers
  Actors <- MCPlayers
  Tiles <- MCTiles
  Hidden = Hidden
  None = None
  Absent = None
  Me = 0
  ExitCondition = "validation_result"
  AgentKind = "nodocchi"
  ReactionOffers <- MCReactionOffers
  TurnOffers <- MCTurnOffers
  MaxEvents = 5
  MaxRequests = 2
  MaxGarbled = 1
  Breaks = TRUE
  Withheld = Withheld
INVARIANTS
  NeverRejected
  ChoiceSurvivesConversion
  TsumogiriIsTheDrawnTile
  DeclinedWinIsFuriten
PROPERTIES
  RequestsAreHandled
  EndsWhenDone
  KeepsRequestPromise
CHECK_DEADLOCK FALSE
