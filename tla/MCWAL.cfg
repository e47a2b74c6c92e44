SPECIFICATION FairSpec

CONSTANTS
  Records <- MCRecords
  NoRecord = NoRecord
  Torn = Torn
  Base = 3
  CrcBytes = 2
  MaxKeyLen = 4
  MaxValueLen = 3
  MaxPieces = 3
  MaxTears = 1
  MaxDamage = 1

INVARIANTS
  TypeOK
  NothingInvented
  ReplayGivesBack
  OkIsComplete
  LogInv
  IntactInv

PROPERTIES
  ImplementsLog
  ReplayReturns
