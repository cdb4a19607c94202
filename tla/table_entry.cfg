SPECIFICATION StartupFairSpec
CONSTANTS
  c1 = c1
  c2 = c2
  c3 = c3
  r1 = r1
  Clients <- MCClients
  Relays <- MCRelays
  TableCapacity = 2
  MaxStarts = 3
  MaxNotes = 1
INVARIANTS
  EntrantHearsItsGame
  TurnedAwayByARace
PROPERTY
  TableFills
CHECK_DEADLOCK FALSE
