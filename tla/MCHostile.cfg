SPECIFICATION FairSpec

CONSTANTS
  KeySize <- MCKeySize
  ValueSize <- MCValueSize
  Keys = {k1, k2}
  Values = {v1}
  Tombstone = Tombstone
  Absent = Absent
  NoWrite = NoWrite
  Torn = Torn
  NotReady = NotReady
  kEntryOverhead = 0
  size_threshold = 2
  CompactionThreshold = 2
  CrashWhileExposed = TRUE
  TornWrites = TRUE
  FaultPoints <- AllFaults
  MaxSeq = 4
  MaxWrites = 3
  MaxCrashes = 1
  MaxFaults = 1

INVARIANTS
  TypeInv
  SizeIsSumOfEntries
  TablesChronological
  OrderInv
  CountInv
  OpenInv

PROPERTIES
  OpenTablesKept
  RefusesUntilReopened
  ImplementsLog
  CallsReturn
