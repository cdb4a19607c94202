SPECIFICATION Spec
CONSTANTS
  NormalReadings <- MCNormalReadings
  Multipliers <- MCMultipliers
  MaxUra = 2
  Counters <- MCCounters
  MaxU32 = 40000
  None = None
INVARIANTS
  KnownValueIsBest
  SettlementBalances
CHECK_DEADLOCK FALSE
