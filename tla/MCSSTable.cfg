SPECIFICATION Spec

CONSTANTS
  v0 = v0
  v2 = v2
  Keys <- MCKeys
  Values = {v0, v2}
  Tombstone = Tombstone
  Absent = Absent
  Unreadable = Unreadable
  KeySize <- MCKeySize
  ValueSize <- MCValueSize
  Hash1 <- MCHash1
  Hash2 <- MCHash2
  BitsPerKey = 10
  NumHashes = 3
  Word = 65536
  Interval = 2
  Estimates = {0, 4}
  MaxDamaged = 2

INVARIANTS
  TableInv
  TruthfulGet
  NoFalseNegatives
  ScanBounded
  OpensOnlyWhole
