SPECIFICATION CliSpec

CONSTANTS
  KeySize <- MCKeySize
  ValueSize <- MCValueSize
  Keys = {k1, k2}
  Values = {v1}
  Tombstone = Tombstone
  Absent = Absent
  NoWrite = NoWrite
  Torn = Torn
  NotReady = NotReady
  kEntryOverhead = 0
  size_threshold = 2
  CompactionThreshold = 2
  CrashWhileExposed = FALSE
  TornWrites = FALSE
  FaultPoints = {"manifest", "truncate"}
  MaxSeq = 4
  MaxWrites = 3
  MaxCrashes = 1
  MaxFaults = 1
  MaxDamaged = 1

INVARIANTS
  CliTypeOK
  CliInv
  ReadableReadsLatest
  FlushLeavesNothing
  CompactReportMeans

PROPERTY
  ImplementsFading
  PromptReturns
