SPECIFICATION StoreSpec

CONSTANTS
  KeySize <- MCKeySize
  ValueSize <- MCValueSize
  Keys = {k1}
  Values = {v1, v2}
  Tombstone = Tombstone
  Absent = Absent
  NoWrite = NoWrite
  Torn = Torn
  NotReady = NotReady
  kEntryOverhead = 0
  size_threshold = 2
  CompactionThreshold = 3
  CrashWhileExposed = FALSE
  TornWrites = FALSE
  FaultPoints = {}
  MaxSeq = 4
  MaxWrites = 3
  MaxCrashes = 0
  MaxFaults = 0
  MaxDamaged = 1

INVARIANT
  NoStaleRead
