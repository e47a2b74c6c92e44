SPECIFICATION Spec

CONSTANTS
  KeySize <- MCKeySize
  ValueSize <- MCValueSize
  Keys = {k1, k2}
  Values = {v1}
  Tombstone = Tombstone
  Absent = Absent
  NoWrite = NoWrite
  Torn = Torn
  NotReady = NotReady
  kEntryOverhead = 0
  size_threshold = 2
  CompactionThreshold = 2
  CrashWhileExposed = FALSE
  TornWrites = FALSE
  FaultPoints = {"walFlush"}
  MaxSeq = 4
  MaxWrites = 3
  MaxCrashes = 2
  MaxFaults = 1

INVARIANTS
  CrashSafe
