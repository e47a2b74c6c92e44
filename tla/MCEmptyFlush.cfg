SPECIFICATION CliSpec

CONSTANTS
  KeySize <- MCKeySize
  ValueSize <- MCValueSize
  Keys = {k1}
  Values = {v1}
  Tombstone = Tombstone
  Absent = Absent
  NoWrite = NoWrite
  Torn = Torn
  NotReady = NotReady
  kEntryOverhead = 0
  size_threshold = 2
  CompactionThreshold = 2
  CrashWhileExposed = FALSE
  TornWrites = FALSE
  FaultPoints = {}
  MaxSeq = 4
  MaxWrites = 2
  MaxCrashes = 0
  MaxFaults = 0
  MaxDamaged = 0

INVARIANT
  EmptyReportIsTrue
