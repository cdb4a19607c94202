SPECIFICATION ClientSpec
CONSTANTS
  me = me
  other = other
  t1 = t1
  Everyone <- MCEveryone
  Me = me
  PlayerCount = 2
  Pais = {t1}
  Rounds = {east1}
  Seatings <- MCSeatings
  Hands = {}
  OpenTiles = {}
  Draws = {}
  Indicators = {}
  MaxDiscards = 6
  MaxMelds = 0
  MaxDora = 0
  AutoNext = TRUE
  Ordered = TRUE
  TableNotes <- MCTableNotes
  MaxNotes = 6
  None = None
CHECK_DEADLOCK FALSE
INVARIANTS
  OneNextPerKyoku
  RepliesInOrder
  RiversHoldTheRound
PROPERTIES
  PublishedTasksAreDone
