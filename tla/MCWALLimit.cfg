SPECIFICATION Spec

CONSTANTS
  Records <- LongRecords
  NoRecord = NoRecord
  Torn = Torn
  Base = 3
  CrcBytes = 2
  MaxKeyLen = 4
  MaxValueLen = 3
  MaxPieces = 3
  MaxTears = 0
  MaxDamage = 0

INVARIANT
  WrittenIsReadable
