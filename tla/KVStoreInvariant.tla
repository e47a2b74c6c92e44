-------------------------- MODULE KVStoreInvariant --------------------------
(***************************************************************************)
(* The inductive invariant behind the safety of KVStore, in named parts.   *)
(* It holds in a safe environment: the process does not die in the window  *)
(* in which compaction has removed tables the manifest still lists, no     *)
(* record is cut short, and only the calls of SafeFaults fail.             *)
(***************************************************************************)
EXTENDS KVStore

SafeEnv ==
  /\ CrashWhileExposed = FALSE
  /\ TornWrites = FALSE
  /\ FaultPoints \subseteq SafeFaults

\* The store is open, or a call on it is running.
Running == pc \notin {"closed", "loading", "replay"}

\* What the running call knows by where it is.  It bounds the numbers the steps
\* ahead will take, and is all that type correctness needs.
Locals ==
  /\ pc \in {"closed", "loading", "replay", "idle"} => op = NoWrite
  /\ pc \in {"append", "apply"} => op # NoWrite
  /\ op # NoWrite /\ pc # "apply" => writes < MaxWrites
  /\ pc = "createTable" => nextSeq < MaxSeq
  /\ pc \in {"fillTable", "manifest", "reset", "compact"} => nextSeq <= MaxSeq
  /\ out # 0 <=> pc \in {"fillTable", "merge", "remove"}

\* The tables a lookup would search now.
LiveTables ==
  CASE pc = "merge"  -> inputs
    [] pc = "remove" -> <<out>>
    [] OTHER         -> sstables

\* The MemTable, with the write that is in the log and not yet in it.
LiveTable == IF pc = "apply" THEN [table EXCEPT ![op.key] = op.entry] ELSE table

Below(ts, n) == \A i \in DOMAIN ts : ts[i] < n

Whole(ts) == \A i \in DOMAIN ts : files[ts[i]].state = "complete"

\* The log holds whole records only, and the stream holds none back.
LogWhole ==
  /\ \A i \in DOMAIN wal : wal[i] # Torn
  /\ unflushed = NoWrite

\* Every table in use is older than the one being written, or the next one.
NumbersFresh ==
  LET limit == IF out = 0 THEN nextSeq ELSE out
  IN  /\ out < nextSeq
      /\ pc \notin {"closed", "loading"} => Below(manifest, limit)
      /\ pc # "closed" => Below(sstables, limit) /\ Below(inputs, limit)

TablesWhole ==
  /\ RegisteredTablesComplete
  /\ pc # "closed" => Whole(LiveTables)

\* The loops have dealt with a prefix of what they run over.
Loops ==
  /\ pc = "loading" =>
       /\ cursor <= Len(manifest) + 1
       /\ sstables = SubSeq(manifest, 1, cursor - 1)
  /\ pc = "replay" =>
       /\ cursor <= Len(wal) + 1
       /\ sstables = manifest
       /\ \A k \in Keys : table[k] = Replayed(SubSeq(wal, 1, cursor - 1), k)
  /\ pc = "merge" =>
       /\ cursor <= Len(inputs) + 1
       /\ \A k \in Keys : merged[k] = SearchTables(files, SubSeq(inputs, 1, cursor - 1), k)

\* What is in the MemTable is in the log.
MemTableLogged ==
  Running => \A k \in Keys : LiveTable[k] # Absent => LiveTable[k] = Replayed(wal, k)

\* Memory and tables together show every promised write.
MemoryCurrent ==
  Running => \A k \in Keys : Visible(LiveTable[k], LiveTables, k) = committed[k]

\* Once the MemTable has become a table, the tables alone show it; the log is
\* truncated only when the manifest names them.
FlushCurrent ==
  /\ pc \in {"manifest", "reset"} =>
       \A k \in Keys : Visible(Absent, sstables, k) = committed[k]
  /\ pc = "reset" => manifest = sstables

\* Once the inputs are merged, the log and the merged table alone show it.
MergeCurrent ==
  pc = "remove" => \A k \in Keys : Visible(Replayed(wal, k), <<out>>, k) = committed[k]

\* The log and the tables of the manifest show it: CrashSafe, key by key.
DiskCurrent ==
  ~Exposed => \A k \in Keys : Visible(Replayed(wal, k), manifest, k) = committed[k]

Inv ==
  /\ LogWhole
  /\ NumbersFresh
  /\ TablesWhole
  /\ Loops
  /\ MemTableLogged
  /\ MemoryCurrent
  /\ FlushCurrent
  /\ MergeCurrent
  /\ DiskCurrent

TypeInv == TypeOK /\ Locals

-----------------------------------------------------------------------------
(* The inductive invariant behind TablesChronological.  It needs nothing of *)
(* the environment.                                                         *)

Increasing(ts) == \A i, j \in DOMAIN ts : i < j => ts[i] < ts[j]

\* Numbers below that of the table being written, or the next one.
InOrder(ts) ==
  LET limit == IF out = 0 THEN nextSeq ELSE out
  IN  Increasing(ts) /\ Below(ts, limit)

\* The loop of open has loaded tables from the lines behind it.
LoadedBefore ==
  \A i \in DOMAIN sstables : \E j \in DOMAIN manifest : j < cursor /\ sstables[i] = manifest[j]

OrderInv ==
  /\ out < nextSeq
  /\ Increasing(manifest)
  /\ pc # "closed" => InOrder(sstables) /\ InOrder(inputs)
  /\ pc = "loading" => LoadedBefore

-----------------------------------------------------------------------------
(* The inductive invariant behind OpenTablesKept, in every environment.     *)

\* What is open is whole, and so is what a failed merge opens again.
OpenInv ==
  /\ Whole(sstables)
  /\ pc \in {"merge", "remove"} => sstables = <<>>
  /\ pc = "merge" => Whole(inputs)
  /\ pc = "remove" => files[out].state = "complete"

-----------------------------------------------------------------------------
(* The inductive invariant behind TableCountBounded, in every environment.  *)

\* What a flush may reach before its compaction: a crash or a failure there leaves
\* one table more than the last one did.
CountLimit ==
  (IF CompactionThreshold > 2 THEN CompactionThreshold ELSE 2) + crashes + faults

CountInv ==
  /\ Len(sstables) <= CountLimit /\ Len(inputs) <= CountLimit /\ Len(manifest) <= CountLimit
  /\ pc \notin {"manifest", "reset", "compact"} => Len(sstables) < CountLimit
  /\ pc \notin {"reset", "compact", "merge", "remove"} => Len(manifest) < CountLimit
  /\ pc = "reset" => Len(manifest) <= Len(sstables)
  /\ pc = "loading" => Len(sstables) < cursor

-----------------------------------------------------------------------------
(* The inductive invariant behind OrphansBounded, in a safe environment.    *)

\* The tables the process knows: open, or taken by the running merge.
KnownTables == IF pc \in {"merge", "remove"} THEN inputs ELSE sstables

\* The manifest lists the oldest of them, and all but the one just written.
ManifestBehind ==
  /\ Running => IsPrefix(manifest, KnownTables)
  /\ pc = "manifest" => Len(manifest) < Len(sstables)

OnDisk == {s \in Seqs : files[s] # MissingFile}

\* The table that the steps ahead register.
Pending ==
  CASE pc \in {"fillTable", "remove"} -> {out}
    [] pc = "manifest"                -> {Last(sstables)}
    [] OTHER                          -> {}

\* The inputs that the steps ahead remove.
ToRemove == {inputs[i] : i \in cursor .. Len(inputs)}

\* On disk, and listed nowhere.
Orphans == OnDisk \ (ToSet(manifest) \cup Pending)

\* On disk, and to stay there.
Staying == OnDisk \ (ToRemove \cup Pending)

OrphanInv ==
  /\ ManifestBehind
  /\ Cardinality(Orphans) <= crashes + faults
  /\ pc = "remove" => Cardinality(Staying) <= crashes + faults
=============================================================================
