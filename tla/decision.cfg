SPECIFICATION CallsSpec
CONSTANTS
  None = None
  A = A
  B = B
  Pon = Pon
  TileTypes <- MCTileTypes
  PlainPositions <- MCPlainPositions
  KanPositions <- MCKanPositions
  FacingPositions <- MCFacingPositions
  CallTables <- MCCallTables
INVARIANTS
  DiagnosisAgrees
  EarlyFoldIsFinal
  FoldKeepsToTheDefence
  GrowingThreatNeverInvites
  ShortcutsChangeNothing
  PassIsEvaluatedOnce
  FoldPlaysTheSafest
  CallIsJustified
  NoBetterCallIsLeft
  OneShantenCallIsPlayedOn
CHECK_DEADLOCK FALSE
