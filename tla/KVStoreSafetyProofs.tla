------------------------ MODULE KVStoreSafetyProofs ------------------------
(***************************************************************************)
(* Crash consistency of KVStore, in every safe environment (SafeEnv of     *)
(* KVStoreInvariant): Inv is inductive relative to TypeInv.  One lemma for *)
(* each action says that it keeps Inv; a fault outside SafeFaults cannot   *)
(* happen.  The theorems are at the end.                                   *)
(***************************************************************************)
EXTENDS KVStoreTypeProofs, WellFoundedInduction

-----------------------------------------------------------------------------
(* The operators a lookup is made of: what the tables and the log show for  *)
(* a key, and how that changes when one grows at its end.                   *)

\* No table shows nothing.
LEMMA SearchNoTables ==
  ASSUME NEW fs, NEW k
  PROVE  SearchTables(fs, <<>>, k) = Absent
  BY DEF SearchTables, Holders

\* A newer table decides if it holds the key, and changes nothing if it does not.
LEMMA SearchAppend ==
  ASSUME NEW fs, NEW ts \in Seq(Seqs), NEW s, NEW k
  PROVE  SearchTables(fs, Append(ts, s), k) =
           IF fs[s].data[k] # Absent THEN fs[s].data[k] ELSE SearchTables(fs, ts, k)
<1> DEFINE new == Append(ts, s)
           n   == Len(ts) + 1
<1>1. /\ DOMAIN new = 1 .. n
      /\ new[n] = s
      /\ \A i \in DOMAIN ts : i \in 1 .. n - 1 /\ new[i] = ts[i]
      /\ DOMAIN ts = 1 .. n - 1
      /\ n \in Nat
  OBVIOUS
<1>2. CASE fs[s].data[k] # Absent
  <2>1. n \in Holders(fs, new, k) /\ \A i \in Holders(fs, new, k) : i \in Int /\ i <= n
    BY <1>1, <1>2 DEF Holders
  <2>2. Max(Holders(fs, new, k)) = n
    BY <2>1, MaxIs
  <2> QED
    BY <1>1, <1>2, <2>1, <2>2 DEF SearchTables, NewestFirst
<1>3. CASE fs[s].data[k] = Absent
  <2>1. Holders(fs, new, k) = Holders(fs, ts, k)
    BY <1>1, <1>3 DEF Holders
  <2>2. Holders(fs, ts, k) # {} => Max(Holders(fs, ts, k)) \in DOMAIN ts
    <3>1. Holders(fs, ts, k) \in SUBSET (1 .. Len(ts))
      BY DEF Holders
    <3>2. Len(ts) \in Nat /\ DOMAIN ts = 1 .. Len(ts)
      OBVIOUS
    <3> QED
      BY <3>1, <3>2, MaxExists
  <2> QED
    BY <1>1, <1>3, <2>1, <2>2 DEF SearchTables, NewestFirst
<1> QED
  BY <1>2, <1>3

\* One table shows what it holds.
LEMMA SearchSingleton ==
  ASSUME NEW fs, NEW s, NEW k
  PROVE  SearchTables(fs, <<s>>, k) = fs[s].data[k]
<1>1. CASE fs[s].data[k] # Absent
  <2>1. 1 \in Holders(fs, <<s>>, k) /\ \A i \in Holders(fs, <<s>>, k) : i \in Int /\ i <= 1
    BY <1>1 DEF Holders
  <2> QED
    BY <2>1, MaxIs DEF SearchTables, NewestFirst
<1>2. CASE fs[s].data[k] = Absent
  <2>1. Holders(fs, <<s>>, k) = {}
    BY <1>2 DEF Holders
  <2> QED
    BY <1>2, <2>1 DEF SearchTables
<1> QED
  BY <1>1, <1>2

\* A lookup sees of the files only what the tables searched hold.
LEMMA SearchAgrees ==
  ASSUME NEW fs, NEW gs, NEW ts \in Seq(Seqs), NEW k,
         \A i \in DOMAIN ts : gs[ts[i]].data = fs[ts[i]].data
  PROVE  SearchTables(gs, ts, k) = SearchTables(fs, ts, k)
<1>1. Holders(gs, ts, k) = Holders(fs, ts, k)
  BY DEF Holders
<1>2. Holders(fs, ts, k) # {} => Max(Holders(fs, ts, k)) \in DOMAIN ts
  <2>1. Holders(fs, ts, k) \in SUBSET (1 .. Len(ts))
    BY DEF Holders
  <2>2. Len(ts) \in Nat /\ DOMAIN ts = 1 .. Len(ts)
    OBVIOUS
  <2> QED
    BY <2>1, <2>2, MaxExists
<1> QED
  BY <1>1, <1>2 DEF SearchTables, NewestFirst

\* One more element of a prefix.
LEMMA PrefixGrows ==
  ASSUME NEW S, NEW s \in Seq(S), NEW n \in 1 .. Len(s)
  PROVE  SubSeq(s, 1, n) = Append(SubSeq(s, 1, n - 1), s[n])
  OBVIOUS

LEMMA PrefixEnds ==
  ASSUME NEW S, NEW s \in Seq(S)
  PROVE  SubSeq(s, 1, Len(s)) = s /\ SubSeq(s, 1, 0) = <<>>
  OBVIOUS

\* An empty log leaves nothing in the MemTable.
LEMMA ReplayedNothing ==
  ASSUME NEW k
  PROVE  Replayed(<<>>, k) = Absent
  BY DEF Replayed, Touching, Valid

\* The last record of a whole log decides for its key.
LEMMA ReplayedAppend ==
  ASSUME NEW w \in Seq(Write \cup {Torn}), NEW r, NEW k, r # Torn,
         \A i \in DOMAIN w : w[i] # Torn
  PROVE  Replayed(Append(w, r), k) = IF r.key = k THEN r.entry ELSE Replayed(w, k)
<1> DEFINE new == Append(w, r)
           n   == Len(w) + 1
<1>1. /\ DOMAIN new = 1 .. n
      /\ new[n] = r
      /\ \A i \in DOMAIN w : i \in 1 .. n - 1 /\ new[i] = w[i]
      /\ DOMAIN w = 1 .. n - 1
      /\ n \in Nat
  OBVIOUS
<1>2. Valid(w) = DOMAIN w /\ Valid(new) = DOMAIN new
  BY <1>1 DEF Valid
<1>3. CASE r.key = k
  <2>1. n \in Touching(new, k) /\ \A i \in Touching(new, k) : i \in Int /\ i <= n
    BY <1>1, <1>2, <1>3 DEF Touching
  <2>2. Max(Touching(new, k)) = n
    BY <2>1, MaxIs
  <2> QED
    BY <1>1, <1>3, <2>1, <2>2 DEF Replayed
<1>4. CASE r.key # k
  <2>1. Touching(new, k) = Touching(w, k)
    BY <1>1, <1>2, <1>4 DEF Touching
  <2>2. Touching(w, k) # {} => Max(Touching(w, k)) \in DOMAIN w
    <3>1. Touching(w, k) \in SUBSET (1 .. Len(w))
      BY <1>2 DEF Touching
    <3>2. Len(w) \in Nat /\ DOMAIN w = 1 .. Len(w)
      OBVIOUS
    <3> QED
      BY <3>1, <3>2, MaxExists
  <2> QED
    BY <1>1, <1>4, <2>1, <2>2 DEF Replayed
<1> QED
  BY <1>3, <1>4

-----------------------------------------------------------------------------
(* The steps of the store.                                                  *)

USE SlotAssumption, SizeAssumption, StoreAssumption DEF Steps

\* Writing one file changes nothing of the tables that are other files.
LEMMA FileWritten ==
  ASSUME TypeOK, NEW n \in Seqs, NEW f, files' = [files EXCEPT ![n] = f],
         NEW ts \in Seq(Seqs), \A i \in DOMAIN ts : ts[i] # n
  PROVE  /\ \A i \in DOMAIN ts : files'[ts[i]] = files[ts[i]]
         /\ \A k : SearchTables(files', ts, k) = SearchTables(files, ts, k)
<1>1. \A i \in DOMAIN ts : files'[ts[i]] = files[ts[i]]
  BY DEF TypeOK
<1>2. \A i \in DOMAIN ts : files'[ts[i]].data = files[ts[i]].data
  BY <1>1
<1>3. ts \in Seq(Seqs)
  OBVIOUS
<1>4. \A k : SearchTables(files', ts, k) = SearchTables(files, ts, k)
  <2> DEFINE fs == files
             gs == files'
  <2>1. \A i \in DOMAIN ts : gs[ts[i]].data = fs[ts[i]].data
    BY ONLY <1>2
  <2> HIDE DEF fs, gs
  <2>2. ASSUME NEW k PROVE SearchTables(gs, ts, k) = SearchTables(fs, ts, k)
    BY ONLY <1>3, <2>1, SearchAgrees, Z3
  <2> QED
    BY ONLY <2>2 DEF fs, gs
<1> QED
  BY ONLY <1>1, <1>4

\* With no record held back, closing the log leaves it as it is.
LEMMA CloseWalSafe ==
  ASSUME LogWhole, CloseWal
  PROVE  wal' = wal /\ unflushed' = NoWrite
  BY DEF LogWhole, CloseWal

\* In a safe environment only the calls of SafeFaults fail.
LEMMA FaultIsSafe ==
  ASSUME SafeEnv, NEW point, Fault(point)
  PROVE  point \in SafeFaults
  BY DEF SafeEnv, Fault

\* Creating a file harms no table: its number is above every table in use.
LEMMA CreateTableKeeps ==
  ASSUME SafeEnv, TypeInv, Inv, CreateTable
  PROVE  Inv'
<1> USE DEF Inv, TypeInv, TypeOK, Locals
<1>1. /\ nextSeq \in Seqs
      /\ \A i \in DOMAIN manifest : manifest[i] # nextSeq
      /\ \A i \in DOMAIN sstables : sstables[i] # nextSeq
  BY DEF CreateTable, NumbersFresh, Below, Seqs
<1>2. /\ \A i \in DOMAIN manifest : files'[manifest[i]] = files[manifest[i]]
      /\ \A k : SearchTables(files', manifest, k) = SearchTables(files, manifest, k)
  BY <1>1, FileWritten DEF CreateTable
<1>3. /\ \A i \in DOMAIN sstables : files'[sstables[i]] = files[sstables[i]]
      /\ \A k : SearchTables(files', sstables, k) = SearchTables(files, sstables, k)
  BY <1>1, FileWritten DEF CreateTable
<1>4. TablesWhole'
  <2>1. /\ ~Exposed /\ ~Exposed'
        /\ LiveTables = sstables /\ LiveTables' = sstables /\ sstables' = sstables
        /\ pc # "closed" /\ manifest' = manifest
    BY DEF CreateTable, Goto, Exposed, LiveTables
  <2>2. /\ \A i \in DOMAIN manifest : files[manifest[i]].state = "complete"
        /\ \A i \in DOMAIN sstables : files[sstables[i]].state = "complete"
    BY <2>1 DEF TablesWhole, RegisteredTablesComplete, Whole
  <2> QED
    BY ONLY <1>2, <1>3, <2>1, <2>2 DEF TablesWhole, RegisteredTablesComplete, Whole
<1>5. MemoryCurrent'
  BY <1>3 DEF CreateTable, PartialFile, NoEntries, Goto, memVars, log, env, MemoryCurrent,
          Running, Visible, Reply, LiveTable, LiveTables
<1>6. DiskCurrent'
  BY <1>2 DEF CreateTable, PartialFile, NoEntries, Goto, memVars, log, env, DiskCurrent,
          Exposed, Visible, Reply
<1>7. LogWhole' /\ NumbersFresh' /\ Loops' /\ MemTableLogged' /\ FlushCurrent' /\ MergeCurrent'
  BY DEF CreateTable, PartialFile, NoEntries, Goto, memVars, log, env, LogWhole,
          NumbersFresh, Below, Loops, MemTableLogged, Running, LiveTable, FlushCurrent,
          Visible, Reply, MergeCurrent
<1> QED
  BY <1>4, <1>5, <1>6, <1>7 DEF Inv

\* Using a number up for nothing keeps it above every table.
LEMMA CreateTableFailsKeeps ==
  ASSUME SafeEnv, TypeInv, Inv, CreateTableFails
  PROVE  Inv'
<1> USE DEF Inv, TypeInv, TypeOK, Locals
<1>1. out = 0 /\ out' = 0 /\ nextSeq' = nextSeq + 1 /\ nextSeq \in Nat /\ pc = "createTable"
      /\ pc' = "idle" /\ UNCHANGED <<sstables, manifest, inputs>>
  BY DEF CreateTableFails, ReturnError, disk, work
<1>2. NumbersFresh'
  BY <1>1 DEF NumbersFresh, Below, Seqs
<1>3. /\ LogWhole' /\ TablesWhole' /\ Loops' /\ MemTableLogged' /\ MemoryCurrent'
      /\ FlushCurrent' /\ MergeCurrent' /\ DiskCurrent'
  BY DEF CreateTableFails, Fault, ReturnError, memVars, log, work, disk, LogWhole,
          TablesWhole, RegisteredTablesComplete, Exposed, Whole, LiveTables, Loops,
          MemTableLogged, Running, LiveTable, MemoryCurrent, Visible, Reply, FlushCurrent,
          MergeCurrent, DiskCurrent
<1> QED
  BY <1>2, <1>3 DEF Inv

\* The new table shows for each key what the MemTable did, over the older tables,
\* so the tables alone show every promised write from here on.
LEMMA FillTableKeeps ==
  ASSUME SafeEnv, TypeInv, Inv, FillTable
  PROVE  Inv'
<1> USE DEF Inv, TypeInv, TypeOK, Locals
<1>1. /\ out \in Seqs
      /\ \A i \in DOMAIN manifest : manifest[i] # out
      /\ \A i \in DOMAIN sstables : sstables[i] # out
      /\ files'[out] = TableFile(table)
  BY DEF FillTable, NumbersFresh, Below, Seqs
<1>2. /\ \A i \in DOMAIN manifest : files'[manifest[i]] = files[manifest[i]]
      /\ \A k : SearchTables(files', manifest, k) = SearchTables(files, manifest, k)
  BY <1>1, FileWritten DEF FillTable
<1>3. /\ \A i \in DOMAIN sstables : files'[sstables[i]] = files[sstables[i]]
      /\ \A k : SearchTables(files', sstables, k) = SearchTables(files, sstables, k)
  BY <1>1, FileWritten DEF FillTable
<1>4. ASSUME NEW k
      PROVE  SearchTables(files', Append(sstables, out), k) =
               IF files'[out].data[k] # Absent THEN files'[out].data[k]
               ELSE SearchTables(files', sstables, k)
  BY ONLY SearchAppend, TypeOK DEF TypeOK
<1>5. ASSUME NEW k \in Keys
      PROVE  SearchTables(files', sstables', k) =
               IF table[k] # Absent THEN table[k] ELSE SearchTables(files, sstables, k)
  BY <1>1, <1>3, <1>4 DEF FillTable, TableFile
<1>6. \A i \in DOMAIN sstables' :
        \/ sstables'[i] = out
        \/ \E j \in DOMAIN sstables : sstables'[i] = sstables[j]
  BY DEF FillTable
<1>7. /\ pc = "fillTable" /\ pc' = "manifest" /\ out' = 0
      /\ UNCHANGED <<op, table, nextSeq, inputs, cursor, manifest, wal, committed>>
  BY DEF FillTable, Goto, StepAfterFill, memVars, log
<1>8. out < nextSeq /\ \A j \in DOMAIN sstables : sstables[j] < nextSeq
  BY <1>7 DEF NumbersFresh, Below, Seqs
<1>9. \A j \in DOMAIN sstables : files[sstables[j]].state = "complete"
  BY <1>7 DEF TablesWhole, Whole, LiveTables
<1>10. \A i \in DOMAIN sstables' : sstables'[i] < nextSeq
  BY ONLY <1>6, <1>8
<1>11. \A i \in DOMAIN sstables' : files'[sstables'[i]].state = "complete"
  BY ONLY <1>1, <1>3, <1>6, <1>9 DEF TableFile
<1>12. NumbersFresh'
  BY <1>1, <1>7, <1>10 DEF NumbersFresh, Below, Seqs
<1>13. TablesWhole'
  BY <1>2, <1>7, <1>11 DEF TablesWhole, RegisteredTablesComplete, Exposed, Whole, LiveTables,
          TableFile
<1>14. MemoryCurrent'
  BY <1>5, <1>7 DEF MemoryCurrent, Running, Visible, Reply, LiveTable, LiveTables
<1>15. FlushCurrent'
  BY <1>5, <1>7 DEF MemoryCurrent, Running, Visible, Reply, LiveTable, LiveTables, FlushCurrent
<1>16. DiskCurrent'
  BY <1>2, <1>7 DEF DiskCurrent, Exposed, Visible, Reply
<1>17. LogWhole' /\ Loops' /\ MemTableLogged' /\ MergeCurrent'
  BY DEF FillTable, TableFile, Goto, StepAfterFill, memVars, log, env, LogWhole, Loops,
          MemTableLogged, Running, LiveTable, MergeCurrent, Visible, Reply
<1> QED
  BY <1>12, <1>13, <1>14, <1>15, <1>16, <1>17 DEF Inv

\* What is left in the unfinished file is in no table in use.
LEMMA FillTableFailsKeeps ==
  ASSUME SafeEnv, TypeInv, Inv, FillTableFails
  PROVE  Inv'
<1> USE DEF Inv, TypeInv, TypeOK, Locals
<1>1. /\ out \in Seqs
      /\ \A i \in DOMAIN manifest : manifest[i] # out
      /\ \A i \in DOMAIN sstables : sstables[i] # out
  BY DEF FillTableFails, NumbersFresh, Below, Seqs
<1>2. \E f : files' = [files EXCEPT ![out] = f]
  BY <1>1 DEF FillTableFails
<1>3. /\ \A i \in DOMAIN manifest : files'[manifest[i]] = files[manifest[i]]
      /\ \A k : SearchTables(files', manifest, k) = SearchTables(files, manifest, k)
  BY <1>1, <1>2, FileWritten
<1>4. /\ \A i \in DOMAIN sstables : files'[sstables[i]] = files[sstables[i]]
      /\ \A k : SearchTables(files', sstables, k) = SearchTables(files, sstables, k)
  BY <1>1, <1>2, FileWritten
<1>5. /\ pc = "fillTable" /\ pc' = "idle" /\ op' = NoWrite
      /\ inputs' = <<>> /\ out' = 0
      /\ UNCHANGED <<table, sstables, nextSeq, unflushed, manifest, wal, committed>>
  BY DEF FillTableFails, ReturnError, EndWork, memVars, log
<1>6. NumbersFresh'
  BY <1>1, <1>5 DEF NumbersFresh, Below, Seqs
<1>7. TablesWhole'
  BY <1>3, <1>4, <1>5 DEF TablesWhole, RegisteredTablesComplete, Exposed, Whole, LiveTables
<1>8. MemoryCurrent'
  BY <1>4, <1>5 DEF MemoryCurrent, Running, Visible, Reply, LiveTable, LiveTables
<1>9. DiskCurrent'
  BY <1>3, <1>5 DEF DiskCurrent, Exposed, Visible, Reply
<1>10. LogWhole' /\ Loops' /\ MemTableLogged' /\ FlushCurrent' /\ MergeCurrent'
  BY DEF FillTableFails, Fault, TableFile, EndWork, NoEntries, ReturnError, memVars, log,
          LogWhole, Loops, MemTableLogged, Running, LiveTable, FlushCurrent, Visible, Reply,
          MergeCurrent
<1> QED
  BY <1>6, <1>7, <1>8, <1>9, <1>10 DEF Inv

\* The manifest comes to name the new table, which shows what the log does.
LEMMA InstallManifestKeeps ==
  ASSUME SafeEnv, TypeInv, Inv, InstallManifest
  PROVE  Inv'
<1> USE DEF Inv, TypeInv, TypeOK, Locals
<1>1. DiskCurrent'
  BY DEF InstallManifest, Goto, memVars, log, work, env, DiskCurrent, Exposed, Visible,
          Reply, FlushCurrent
<1>2. /\ LogWhole' /\ NumbersFresh' /\ TablesWhole' /\ Loops' /\ MemTableLogged'
      /\ MemoryCurrent' /\ FlushCurrent' /\ MergeCurrent'
  BY DEF InstallManifest, Goto, memVars, log, work, env, LogWhole, NumbersFresh, Below,
          TablesWhole, RegisteredTablesComplete, Exposed, Whole, LiveTables, Loops,
          MemTableLogged, Running, LiveTable, MemoryCurrent, Visible, Reply, FlushCurrent,
          MergeCurrent
<1> QED
  BY <1>1, <1>2 DEF Inv

\* The call gives up with the old manifest and the whole log in place.
LEMMA InstallManifestFailsKeeps ==
  ASSUME SafeEnv, TypeInv, Inv, InstallManifestFails
  PROVE  Inv'
<1> USE DEF Inv, TypeInv, TypeOK, Locals
<1>1. /\ LogWhole' /\ NumbersFresh' /\ TablesWhole' /\ Loops' /\ MemTableLogged'
      /\ MemoryCurrent' /\ FlushCurrent' /\ MergeCurrent' /\ DiskCurrent'
  BY DEF InstallManifestFails, Fault, OnManifestError, ReturnError, memVars, log, work, disk,
          LogWhole, NumbersFresh, Below, TablesWhole, RegisteredTablesComplete, Exposed,
          Whole, LiveTables, Loops, MemTableLogged, Running, LiveTable, MemoryCurrent,
          Visible, Reply, FlushCurrent, MergeCurrent, DiskCurrent
<1> QED
  BY <1>1 DEF Inv

\* The log may go: the manifest names tables that show everything it held.
LEMMA ResetWalKeeps ==
  ASSUME SafeEnv, TypeInv, Inv, ResetWal
  PROVE  Inv'
<1> USE DEF Inv, TypeInv, TypeOK, Locals
<1>1. /\ pc = "reset" /\ pc' \in {"compact", "append", "idle"} /\ table' = NoEntries
      /\ wal' = <<>>
      /\ UNCHANGED <<sstables, out, cursor, files, manifest, committed>>
  BY DEF ResetWal, MemClear, CompactionDue, ResumeCall, ReturnOK, Goto, work
<1>2. MemoryCurrent'
  BY <1>1 DEF MemoryCurrent, Running, Visible, Reply, LiveTable, LiveTables, FlushCurrent,
          NoEntries
<1>3. DiskCurrent'
  BY <1>1, ReplayedNothing DEF DiskCurrent, Exposed, Visible, Reply, FlushCurrent
<1>4. /\ LogWhole' /\ NumbersFresh' /\ TablesWhole' /\ Loops' /\ MemTableLogged'
      /\ FlushCurrent' /\ MergeCurrent'
  BY SMTT(20) DEF ResetWal, MemClear, NoEntries, CompactionDue, Goto, ResumeCall, ReturnOK, work, env,
          LogWhole, NumbersFresh, Below, TablesWhole, RegisteredTablesComplete, Exposed,
          Whole, LiveTables, Loops, MemTableLogged, Running, LiveTable, FlushCurrent,
          Visible, Reply, MergeCurrent
<1> QED
  BY <1>2, <1>3, <1>4 DEF Inv

\* The old log may stay: replaying it over the tables shows the same.
LEMMA ResetWalFailsKeeps ==
  ASSUME SafeEnv, TypeInv, Inv, ResetWalFails
  PROVE  Inv'
<1> USE DEF Inv, TypeInv, TypeOK, Locals
<1>1. /\ pc = "reset" /\ pc' = "idle" /\ table' = NoEntries /\ wal' = wal
      /\ UNCHANGED <<sstables, out, cursor, files, manifest, committed>>
  BY CloseWalSafe DEF ResetWalFails, MemClear, ReturnError, work
<1>2. MemoryCurrent'
  BY <1>1 DEF MemoryCurrent, Running, Visible, Reply, LiveTable, LiveTables, FlushCurrent,
          NoEntries
<1>3. DiskCurrent'
  BY <1>1 DEF DiskCurrent, Exposed, Visible, Reply
<1>4. /\ LogWhole' /\ NumbersFresh' /\ TablesWhole' /\ Loops' /\ MemTableLogged'
      /\ FlushCurrent' /\ MergeCurrent'
  BY DEF ResetWalFails, Fault, MemClear, NoEntries, CloseWal, ReturnError, work, LogWhole,
          NumbersFresh, Below, TablesWhole, RegisteredTablesComplete, Exposed, Whole,
          LiveTables, Loops, MemTableLogged, Running, LiveTable, FlushCurrent, Visible,
          Reply, MergeCurrent
<1> QED
  BY <1>2, <1>3, <1>4 DEF Inv

\* The tables leave sstables_ and become the inputs; nothing is merged yet.
LEMMA BeginCompactionKeeps ==
  ASSUME SafeEnv, TypeInv, Inv, BeginCompaction
  PROVE  Inv'
<1> USE DEF Inv, TypeInv, TypeOK, Locals
<1>1. /\ pc' = "merge" /\ inputs' \in Seq(Seqs) /\ cursor' = 1
      /\ \A k \in Keys : merged'[k] = Absent
  BY DEF BeginCompaction, Goto, NoEntries
<1>2. SubSeq(inputs', 1, cursor' - 1) = <<>>
  BY <1>1
<1>3. \A k : SearchTables(files', SubSeq(inputs', 1, cursor' - 1), k) = Absent
  BY ONLY <1>2, SearchNoTables
<1>4. Loops'
  BY <1>1, <1>3 DEF Loops
<1>5. /\ LogWhole' /\ NumbersFresh' /\ TablesWhole' /\ MemTableLogged' /\ MemoryCurrent'
      /\ FlushCurrent' /\ MergeCurrent' /\ DiskCurrent'
  BY SMTT(20) DEF BeginCompaction, NoEntries, Goto, memVars, log, disk, env, LogWhole, NumbersFresh,
          Below, TablesWhole, RegisteredTablesComplete, Exposed, Whole, LiveTables,
          MemTableLogged, Running, LiveTable, MemoryCurrent, Visible, Reply, FlushCurrent,
          MergeCurrent, DiskCurrent
<1> QED
  BY <1>4, <1>5 DEF Inv

\* One turn of the merge: what is merged is what the inputs so far show.
LEMMA MergeTableKeeps ==
  ASSUME SafeEnv, TypeInv, Inv, MergeTable
  PROVE  Inv'
<1> USE DEF Inv, TypeInv, TypeOK, Locals
<1>1. /\ pc = "merge" /\ pc' = "merge" /\ cursor \in 1 .. Len(inputs) /\ cursor' = cursor + 1
      /\ merged' = Overlay(files[inputs[cursor]].data, merged)
      /\ UNCHANGED <<inputs, files>>
  BY DEF MergeTable, Advance, call, disk
<1>2. SubSeq(inputs, 1, cursor) = Append(SubSeq(inputs, 1, cursor - 1), inputs[cursor])
  BY <1>1, PrefixGrows
<1>3. SubSeq(inputs, 1, cursor - 1) \in Seq(Seqs)
  BY <1>1
<1>4. ASSUME NEW k
      PROVE  SearchTables(files, Append(SubSeq(inputs, 1, cursor - 1), inputs[cursor]), k) =
               IF files[inputs[cursor]].data[k] # Absent THEN files[inputs[cursor]].data[k]
               ELSE SearchTables(files, SubSeq(inputs, 1, cursor - 1), k)
  BY ONLY <1>3, SearchAppend
<1>5. ASSUME NEW k
      PROVE  SearchTables(files, SubSeq(inputs, 1, cursor), k) =
               IF files[inputs[cursor]].data[k] # Absent THEN files[inputs[cursor]].data[k]
               ELSE SearchTables(files, SubSeq(inputs, 1, cursor - 1), k)
  BY ONLY <1>2, <1>4
<1>6. ASSUME NEW k \in Keys
      PROVE  merged'[k] = SearchTables(files, SubSeq(inputs, 1, cursor), k)
  BY <1>6, <1>1, <1>5 DEF Overlay, Loops
<1>7. SubSeq(inputs', 1, cursor' - 1) = SubSeq(inputs, 1, cursor)
  BY <1>1
<1>8. cursor' <= Len(inputs') + 1
  BY <1>1
<1>9. Loops'
  BY <1>1, <1>6, <1>7, <1>8 DEF Loops
<1>10. /\ LogWhole' /\ NumbersFresh' /\ TablesWhole' /\ MemTableLogged' /\ MemoryCurrent'
       /\ FlushCurrent' /\ MergeCurrent' /\ DiskCurrent'
  BY DEF MergeTable, Overlay, Advance, call, memVars, log, disk, env, LogWhole, NumbersFresh,
          Below, TablesWhole, RegisteredTablesComplete, Exposed, Whole, LiveTables,
          MemTableLogged, Running, LiveTable, MemoryCurrent, Visible, Reply, FlushCurrent,
          MergeCurrent, DiskCurrent
<1> QED
  BY <1>9, <1>10 DEF Inv

\* The merged table shows what all its inputs did.  A tombstone may be dropped
\* from it because no table lies below; one in the log hides the table all the same.
LEMMA PlaceOutputKeeps ==
  ASSUME SafeEnv, TypeInv, Inv, PlaceOutput
  PROVE  Inv'
<1> USE DEF Inv, TypeInv, TypeOK, Locals
<1>1. /\ pc = "merge" /\ pc' = "remove" /\ out \in Seqs /\ cursor > Len(inputs) /\ cursor' = 1
      /\ files' = [files EXCEPT ![out] = TableFile(Survivors(merged))]
      /\ UNCHANGED <<op, table, inputs, out, manifest, wal, committed>>
  BY DEF PlaceOutput, Goto, memVars, Seqs
<1>2. \A i \in DOMAIN manifest : manifest[i] # out
  BY <1>1 DEF NumbersFresh, Below, Seqs
<1>3. /\ \A i \in DOMAIN manifest : files'[manifest[i]] = files[manifest[i]]
      /\ \A k : SearchTables(files', manifest, k) = SearchTables(files, manifest, k)
  BY <1>1, <1>2, FileWritten
<1>4. cursor - 1 = Len(inputs) /\ inputs \in Seq(Seqs)
  BY <1>1 DEF Loops
<1>5. SubSeq(inputs, 1, cursor - 1) = inputs
  BY ONLY <1>4, PrefixEnds
<1>6. files'[out] = TableFile(Survivors(merged))
  BY <1>1
<1>7. ASSUME NEW k
      PROVE  SearchTables(files', <<out>>, k) = files'[out].data[k]
  BY ONLY SearchSingleton
<1>8. ASSUME NEW k \in Keys PROVE merged[k] = SearchTables(files, inputs, k)
  BY <1>8, <1>1, <1>5 DEF Loops
<1>9. ASSUME NEW k \in Keys PROVE files'[out].data[k] = Reply(merged[k])
  BY <1>9, <1>6 DEF TableFile, Survivors
<1>10. ASSUME NEW k \in Keys
      PROVE  SearchTables(files', <<out>>, k) = Reply(SearchTables(files, inputs, k))
  BY ONLY <1>10, <1>7, <1>8, <1>9
<1>11. ASSUME NEW k \in Keys, table[k] = Absent
      PROVE  Reply(SearchTables(files, inputs, k)) = committed[k]
  BY <1>11, <1>1 DEF MemoryCurrent, Running, LiveTable, LiveTables, Visible
<1>12. ASSUME NEW k \in Keys, table[k] # Absent
      PROVE  Reply(table[k]) = committed[k] /\ Replayed(wal, k) = table[k]
  BY <1>12, <1>1 DEF MemoryCurrent, MemTableLogged, Running, LiveTable, LiveTables, Visible
<1>13. ASSUME NEW k \in Keys, Replayed(wal, k) # Absent
      PROVE  Reply(Replayed(wal, k)) = committed[k]
  BY <1>13, <1>1 DEF DiskCurrent, Exposed, Visible
<1>14. \A e : Reply(Reply(e)) = Reply(e)
  BY SlotAssumption DEF Reply
<1>15. TablesWhole'
  BY <1>1, <1>3, <1>6, SMTT(20) DEF TablesWhole, RegisteredTablesComplete, Exposed, Whole, LiveTables,
          TableFile
<1>16. MemoryCurrent'
  BY <1>1, <1>10, <1>11, <1>12, <1>14 DEF MemoryCurrent, Running, LiveTable, LiveTables, Visible
<1>17. MergeCurrent'
  BY <1>1, <1>10, <1>11, <1>12, <1>13, <1>14 DEF MergeCurrent, Visible
<1>18. DiskCurrent'
  BY <1>1, <1>3 DEF DiskCurrent, Exposed, Visible
<1>19. LogWhole' /\ NumbersFresh' /\ Loops' /\ MemTableLogged' /\ FlushCurrent'
  BY DEF PlaceOutput, TableFile, Survivors, Reply, Goto, memVars, log, env, LogWhole,
          NumbersFresh, Below, Loops, MemTableLogged, Running, LiveTable, FlushCurrent,
          Visible
<1> QED
  BY <1>15, <1>16, <1>17, <1>18, <1>19 DEF Inv

\* When a compaction has failed and its inputs are open again, nothing has changed.
LEMMA InputsReopened ==
  ASSUME TypeInv, Inv, pc = "merge", pc' = "idle", op' = NoWrite, sstables' = inputs,
         inputs' = <<>>, out' = 0,
         UNCHANGED <<table, nextSeq, unflushed, files, manifest, wal, committed>>
  PROVE  Inv'
<1> USE DEF Inv, TypeInv, TypeOK, Locals
<1>1. /\ pc = "merge" /\ pc' = "idle" /\ op' = NoWrite /\ sstables' = inputs
      /\ inputs' = <<>> /\ out' = 0
      /\ UNCHANGED <<table, nextSeq, unflushed, files, manifest, wal, committed>>
  OBVIOUS
<1>2. NumbersFresh'
  BY <1>1 DEF NumbersFresh, Below, Seqs
<1>3. TablesWhole'
  BY <1>1 DEF TablesWhole, RegisteredTablesComplete, Exposed, Whole, LiveTables
<1>4. MemoryCurrent'
  BY <1>1 DEF MemoryCurrent, Running, LiveTable, LiveTables, Visible
<1>5. LogWhole' /\ Loops' /\ MemTableLogged' /\ FlushCurrent' /\ MergeCurrent' /\ DiskCurrent'
  BY <1>1 DEF LogWhole, Loops, MemTableLogged, Running, LiveTable, FlushCurrent, Visible,
          Reply, MergeCurrent, DiskCurrent, Exposed
<1> QED
  BY <1>2, <1>3, <1>4, <1>5 DEF Inv

LEMMA CompactionFailsKeeps ==
  ASSUME SafeEnv, TypeInv, Inv, CompactionFails
  PROVE  Inv'
<1>1. /\ pc = "merge" /\ pc' = "idle" /\ op' = NoWrite /\ sstables' = inputs
      /\ inputs' = <<>> /\ out' = 0
      /\ UNCHANGED <<table, nextSeq, unflushed, files, manifest, wal, committed>>
  BY DEF CompactionFails, Reopened, ReturnError, EndWork, memVars, log, disk, SafeEnv,
          SafeFaults
<1> QED
  BY <1>1, InputsReopened

\* Removing an input leaves the merged table as it is.
LEMMA RemoveInputKeeps ==
  ASSUME SafeEnv, TypeInv, Inv, RemoveInput
  PROVE  Inv'
<1> USE DEF Inv, TypeInv, TypeOK, Locals
<1>1. /\ pc = "remove" /\ pc' = "remove" /\ out \in Seqs /\ cursor \in 1 .. Len(inputs)
      /\ cursor' > 1
      /\ files' = [files EXCEPT ![inputs[cursor]] = MissingFile]
      /\ UNCHANGED <<op, table, inputs, out, manifest, wal, committed>>
  BY DEF RemoveInput, Removed, Advance, call, memVars, Seqs
<1>2. inputs[cursor] # out
  BY <1>1 DEF NumbersFresh, Below, Seqs
<1>3. files'[out] = files[out]
  BY <1>1, <1>2
<1>4. ASSUME NEW k PROVE SearchTables(files', <<out>>, k) = SearchTables(files, <<out>>, k)
  BY ONLY <1>3, SearchSingleton
<1>5. TablesWhole'
  <2>1. Exposed' /\ LiveTables' = <<out>> /\ LiveTables = <<out>>
    BY <1>1 DEF Exposed, LiveTables
  <2>2. files[out].state = "complete"
    BY <1>1, <2>1 DEF TablesWhole, Whole
  <2> QED
    BY <1>1, <1>3, <2>1, <2>2 DEF TablesWhole, RegisteredTablesComplete, Whole
<1>6. MemoryCurrent'
  BY <1>1, <1>4 DEF MemoryCurrent, Running, LiveTable, LiveTables, Visible
<1>7. MergeCurrent'
  BY <1>1, <1>4 DEF MergeCurrent, Visible
<1>8. LogWhole' /\ NumbersFresh' /\ Loops' /\ MemTableLogged' /\ FlushCurrent' /\ DiskCurrent'
  BY DEF RemoveInput, Removed, MissingFile, NoEntries, Advance, call, memVars, log, env,
          LogWhole, NumbersFresh, Below, Loops, MemTableLogged, Running, LiveTable,
          FlushCurrent, Visible, Reply, DiskCurrent, Exposed
<1> QED
  BY <1>5, <1>6, <1>7, <1>8 DEF Inv

\* An input that stays is in no table in use.
LEMMA RemoveInputFailsKeeps ==
  ASSUME SafeEnv, TypeInv, Inv, RemoveInputFails
  PROVE  Inv'
<1> USE DEF Inv, TypeInv, TypeOK, Locals
<1>1. /\ pc = "remove" /\ pc' = "remove" /\ cursor' > 1 /\ UNCHANGED <<out, files>>
  BY DEF RemoveInputFails, Advance, call, disk
<1>2. TablesWhole'
  BY <1>1 DEF TablesWhole, RegisteredTablesComplete, Exposed, Whole, LiveTables
<1>3. NumbersFresh' /\ LogWhole'
  BY DEF RemoveInputFails, Fault, Advance, call, memVars, log, disk, NumbersFresh, Below,
          LogWhole
<1>4. MemoryCurrent' /\ FlushCurrent'
  BY DEF RemoveInputFails, Fault, Advance, call, memVars, log, disk, MemoryCurrent, Running,
          Visible, Reply, LiveTable, LiveTables, FlushCurrent
<1>5. MergeCurrent'
  BY DEF RemoveInputFails, Fault, Advance, call, memVars, log, disk, MergeCurrent, Visible,
          Reply
<1>6. DiskCurrent'
  BY DEF RemoveInputFails, Fault, Advance, call, memVars, log, disk, DiskCurrent, Exposed,
          Visible, Reply
<1>7. Loops' /\ MemTableLogged'
  BY DEF RemoveInputFails, Fault, Advance, call, memVars, log, disk, Loops, MemTableLogged,
          Running, LiveTable
<1> QED
  BY <1>2, <1>3, <1>4, <1>5, <1>6, <1>7 DEF Inv

\* The manifest comes to name the merged table alone.
LEMMA RegisterOutputKeeps ==
  ASSUME SafeEnv, TypeInv, Inv, RegisterOutput
  PROVE  Inv'
<1> USE DEF Inv, TypeInv, TypeOK, Locals
<1>1. /\ pc = "remove" /\ pc' \in {"idle", "append"} /\ manifest' = <<out>>
      /\ UNCHANGED <<files, wal, committed>>
  BY DEF RegisterOutput, ResumeCall, ReturnOK, Goto
<1>2. DiskCurrent'
  BY <1>1 DEF DiskCurrent, MergeCurrent, Exposed, Visible
<1>3. NumbersFresh' /\ LogWhole'
  BY DEF RegisterOutput, EndWork, NoEntries, ResumeCall, ReturnOK, Goto, memVars, log, env,
          NumbersFresh, Below, LogWhole
<1>4. TablesWhole'
  BY DEF RegisterOutput, EndWork, NoEntries, ResumeCall, ReturnOK, Goto, memVars, log, env,
          TablesWhole, RegisteredTablesComplete, Exposed, Whole, LiveTables
<1>5. MemoryCurrent' /\ FlushCurrent'
  BY DEF RegisterOutput, EndWork, NoEntries, ResumeCall, ReturnOK, Goto, memVars, log, env,
          MemoryCurrent, Running, Visible, Reply, LiveTable, LiveTables, FlushCurrent
<1>6. Loops' /\ MemTableLogged' /\ MergeCurrent'
  BY DEF RegisterOutput, EndWork, NoEntries, ResumeCall, ReturnOK, Goto, memVars, log, env,
          Loops, MemTableLogged, Running, LiveTable, MergeCurrent, Visible, Reply
<1> QED
  BY <1>2, <1>3, <1>4, <1>5, <1>6 DEF Inv

\* A record in the log is a promised write, in memory or not.
LEMMA AppendWalKeeps ==
  ASSUME SafeEnv, TypeInv, Inv, AppendWal
  PROVE  Inv'
<1> USE DEF Inv, TypeInv, TypeOK, Locals
<1>1. /\ pc = "append" /\ pc' = "apply" /\ op \in Write /\ op # Torn
      /\ wal' = Append(wal, op)
      /\ committed' = [committed EXCEPT ![op.key] = Reply(op.entry)]
      /\ UNCHANGED <<op, table, sstables, out, cursor, files, manifest>>
  BY StoreAssumption DEF AppendWal, Promise, Goto, memVars, work
<1>2. wal \in Seq(Write \cup {Torn}) /\ \A i \in DOMAIN wal : wal[i] # Torn
  BY DEF LogWhole
<1>3. ASSUME NEW k
      PROVE  Replayed(Append(wal, op), k) = IF op.key = k THEN op.entry ELSE Replayed(wal, k)
  BY ONLY <1>1, op # Torn, <1>2, ReplayedAppend
<1>4. ASSUME NEW k
      PROVE  Replayed(wal', k) = IF op.key = k THEN op.entry ELSE Replayed(wal, k)
  BY ONLY <1>1, <1>3
<1>5. op.key \in Keys /\ op.entry \in Entry /\ op.entry # Absent /\ table \in [Keys -> Slot]
  BY <1>1, SlotAssumption DEF Write, Entry, MemTypeOK
<1>6. \A k \in Keys : LiveTable'[k] = IF op.key = k THEN op.entry ELSE table[k]
  BY <1>1, <1>5 DEF LiveTable
<1>7. \A k \in Keys : committed'[k] = IF op.key = k THEN Reply(op.entry) ELSE committed[k]
  BY <1>1, <1>5
<1>8. LiveTables' = sstables /\ LiveTables = sstables /\ LiveTable = table /\ Running
  BY <1>1 DEF LiveTables, LiveTable, Running
<1>9. \A k \in Keys : table[k] # Absent => table[k] = Replayed(wal, k)
  BY <1>8 DEF MemTableLogged
<1>10. \A k \in Keys : Visible(table[k], sstables, k) = committed[k]
  BY <1>8 DEF MemoryCurrent
<1>11. \A k \in Keys : Visible(Replayed(wal, k), manifest, k) = committed[k]
  BY <1>1 DEF DiskCurrent, Exposed
<1>12. MemTableLogged'
  BY <1>4, <1>6, <1>9 DEF MemTableLogged
<1>13. MemoryCurrent'
  BY <1>1, <1>5, <1>6, <1>7, <1>8, <1>10 DEF MemoryCurrent, Visible
<1>14. DiskCurrent'
  BY <1>1, <1>4, <1>5, <1>7, <1>11 DEF DiskCurrent, Visible
<1>15. LogWhole'
  <2>1. unflushed' = NoWrite
    BY DEF AppendWal, LogWhole, log
  <2> QED
    BY <1>1, <1>2, <2>1 DEF LogWhole
<1>16. UNCHANGED <<nextSeq, inputs>>
  BY DEF AppendWal, work
<1>17. NumbersFresh' /\ TablesWhole' /\ Loops' /\ FlushCurrent' /\ MergeCurrent'
  BY <1>1, <1>16 DEF NumbersFresh, Below, TablesWhole, RegisteredTablesComplete, Exposed,
          Whole, LiveTables, Loops, FlushCurrent, MergeCurrent
<1> QED
  BY <1>12, <1>13, <1>14, <1>15, <1>17 DEF Inv

\* A refused write changes nothing.
LEMMA AppendRefusedKeeps ==
  ASSUME SafeEnv, TypeInv, Inv, AppendRefused
  PROVE  Inv'
<1> USE DEF Inv, TypeInv, TypeOK, Locals
<1>1. /\ LogWhole' /\ NumbersFresh' /\ TablesWhole' /\ Loops' /\ MemTableLogged'
      /\ MemoryCurrent' /\ FlushCurrent' /\ MergeCurrent' /\ DiskCurrent'
  BY DEF AppendRefused, ReturnError, memVars, log, work, disk, env, LogWhole, NumbersFresh,
          Below, TablesWhole, RegisteredTablesComplete, Exposed, Whole, LiveTables, Loops,
          MemTableLogged, Running, LiveTable, MemoryCurrent, Visible, Reply, FlushCurrent,
          MergeCurrent, DiskCurrent
<1> QED
  BY <1>1 DEF Inv

\* A failed append leaves the log as it was.
LEMMA AppendFailsKeeps ==
  ASSUME SafeEnv, TypeInv, Inv, AppendFails
  PROVE  Inv'
<1> USE DEF Inv, TypeInv, TypeOK, Locals
<1>1. /\ pc = "append" /\ pc' = "idle" /\ op' = NoWrite /\ wal' = wal
      /\ UNCHANGED <<unflushed, table, sstables, nextSeq, inputs, out, cursor, files,
            manifest, committed>>
  BY DEF AppendFails, CutShort, SafeEnv, ReturnError, memVars, work
<1>2. LogWhole' /\ NumbersFresh' /\ TablesWhole' /\ Loops'
  BY <1>1 DEF LogWhole, NumbersFresh, Below, TablesWhole, RegisteredTablesComplete, Exposed,
          Whole, LiveTables, Loops
<1>3. MemTableLogged' /\ MemoryCurrent' /\ FlushCurrent' /\ MergeCurrent' /\ DiskCurrent'
  BY <1>1 DEF MemTableLogged, Running, LiveTable, MemoryCurrent, Visible, Reply, LiveTables,
          FlushCurrent, MergeCurrent, DiskCurrent, Exposed
<1> QED
  BY <1>2, <1>3 DEF Inv

\* The write that is in the log reaches the MemTable.
LEMMA ApplyWriteKeeps ==
  ASSUME SafeEnv, TypeInv, Inv, ApplyWrite
  PROVE  Inv'
<1> USE DEF Inv, TypeInv, TypeOK, Locals
<1>1. /\ LogWhole' /\ NumbersFresh' /\ TablesWhole' /\ Loops' /\ MemTableLogged'
      /\ MemoryCurrent' /\ FlushCurrent' /\ MergeCurrent' /\ DiskCurrent'
  BY DEF ApplyWrite, MemStore, ReturnOK, log, work, disk, env, LogWhole, NumbersFresh, Below,
          TablesWhole, RegisteredTablesComplete, Exposed, Whole, LiveTables, Loops,
          MemTableLogged, Running, LiveTable, MemoryCurrent, Visible, Reply, FlushCurrent,
          MergeCurrent, DiskCurrent
<1> QED
  BY <1>1 DEF Inv

\* The tables loaded so far are a prefix of the manifest, below the next number.
LEMMA LoadTableKeeps ==
  ASSUME SafeEnv, TypeInv, Inv, LoadTable
  PROVE  Inv'
<1> USE DEF Inv, TypeInv, TypeOK, Locals
<1>1. /\ pc = "loading" /\ pc' = "loading" /\ cursor \in 1 .. Len(manifest)
      /\ cursor' = cursor + 1 /\ out = 0 /\ out' = 0
      /\ manifest[cursor] \in Seqs /\ files[manifest[cursor]].state = "complete"
      /\ sstables' = Append(sstables, manifest[cursor])
      /\ nextSeq' = SeqAfter(manifest[cursor])
      /\ UNCHANGED <<inputs, files, manifest>>
  BY DEF LoadTable, Advance, call, disk, TablesWhole, RegisteredTablesComplete, Exposed
<1>2. /\ nextSeq' \in Nat /\ nextSeq \in Nat /\ nextSeq <= nextSeq'
      /\ manifest[cursor] < nextSeq'
      /\ 0 < nextSeq'
  BY <1>1 DEF SeqAfter, Seqs
<1>3. \A i \in DOMAIN sstables : sstables[i] \in Nat /\ sstables[i] < nextSeq
  BY <1>1 DEF NumbersFresh, Below, Seqs
<1>4. \A i \in DOMAIN inputs : inputs[i] \in Nat /\ inputs[i] < nextSeq
  BY <1>1 DEF NumbersFresh, Below, Seqs
<1>5. \A i \in DOMAIN sstables' :
        \/ sstables'[i] = manifest[cursor]
        \/ \E j \in DOMAIN sstables : sstables'[i] = sstables[j]
  BY <1>1
<1>6. /\ \A i \in DOMAIN sstables' : sstables'[i] < nextSeq'
      /\ \A i \in DOMAIN inputs : inputs[i] < nextSeq'
  BY ONLY <1>2, <1>3, <1>4, <1>5
<1>7. \A j \in DOMAIN sstables : files[sstables[j]].state = "complete"
  BY <1>1 DEF TablesWhole, Whole, LiveTables
<1>8. \A i \in DOMAIN sstables' : files[sstables'[i]].state = "complete"
  BY ONLY <1>1, <1>5, <1>7
<1>9. SubSeq(manifest, 1, cursor) = Append(SubSeq(manifest, 1, cursor - 1), manifest[cursor])
  BY <1>1, PrefixGrows
<1>10. sstables' = SubSeq(manifest', 1, cursor' - 1)
  BY <1>1, <1>9 DEF Loops
<1>11. cursor' <= Len(manifest') + 1
  BY <1>1
<1>12. NumbersFresh'
  BY <1>1, <1>2, <1>6 DEF NumbersFresh, Below
<1>13. TablesWhole'
  BY <1>1, <1>8 DEF TablesWhole, RegisteredTablesComplete, Exposed, Whole, LiveTables
<1>14. Loops'
  BY <1>1, <1>10, <1>11 DEF Loops
<1>15. /\ LogWhole' /\ MemTableLogged' /\ MemoryCurrent' /\ FlushCurrent' /\ MergeCurrent'
       /\ DiskCurrent'
  BY DEF LoadTable, SeqAfter, Advance, call, memVars, log, disk, env, LogWhole,
          MemTableLogged, Running, LiveTable, MemoryCurrent, Visible, Reply, LiveTables,
          FlushCurrent, MergeCurrent, DiskCurrent, Exposed
<1> QED
  BY <1>12, <1>13, <1>14, <1>15 DEF Inv

\* An open that gives up leaves the disk as it is.
LEMMA LoadTableFailsKeeps ==
  ASSUME SafeEnv, TypeInv, Inv, LoadTableFails
  PROVE  Inv'
<1> USE DEF Inv, TypeInv, TypeOK, Locals
<1>1. /\ LogWhole' /\ NumbersFresh' /\ TablesWhole' /\ Loops' /\ MemTableLogged'
      /\ MemoryCurrent' /\ FlushCurrent' /\ MergeCurrent' /\ DiskCurrent'
  BY DEF LoadTableFails, env, Fault, OpenGivesUp, EndWork, NoEntries, memVars, log, disk,
          LogWhole, NumbersFresh, Below, TablesWhole, RegisteredTablesComplete, Exposed,
          Whole, LiveTables, Loops, MemTableLogged, Running, LiveTable, MemoryCurrent,
          Visible, Reply, FlushCurrent, MergeCurrent, DiskCurrent
<1> QED
  BY <1>1 DEF Inv

\* All tables of the manifest are loaded and no record is replayed.
LEMMA StartReplayKeeps ==
  ASSUME SafeEnv, TypeInv, Inv, StartReplay
  PROVE  Inv'
<1> USE DEF Inv, TypeInv, TypeOK, Locals
<1>1. /\ pc = "loading" /\ pc' = "replay" /\ cursor > Len(manifest) /\ cursor' = 1
      /\ table' = NoEntries
      /\ UNCHANGED <<sstables, nextSeq, inputs, out, manifest, wal>>
  BY DEF StartReplay, MemClear, Goto, disk
<1>2. cursor - 1 = Len(manifest) /\ manifest \in Seq(Seqs)
  BY <1>1, SMTT(20) DEF Loops
<1>3. SubSeq(manifest, 1, cursor - 1) = manifest
  BY ONLY <1>2, PrefixEnds
<1>4. sstables = manifest
  BY <1>1, <1>3 DEF Loops
<1>5. SubSeq(wal', 1, cursor' - 1) = <<>>
  BY <1>1
<1>6. \A k : Replayed(SubSeq(wal', 1, cursor' - 1), k) = Absent
  BY ONLY <1>5, ReplayedNothing
<1>7. cursor' <= Len(wal') + 1
  BY <1>1
<1>8. NumbersFresh'
  BY <1>1, <1>4 DEF NumbersFresh, Below
<1>9. Loops'
  BY <1>1, <1>4, <1>6, <1>7 DEF Loops, NoEntries
<1>10. /\ LogWhole' /\ TablesWhole' /\ MemTableLogged' /\ MemoryCurrent' /\ FlushCurrent'
       /\ MergeCurrent' /\ DiskCurrent'
  BY DEF StartReplay, MemClear, NoEntries, Goto, log, disk, env, LogWhole, TablesWhole,
          RegisteredTablesComplete, Exposed, Whole, LiveTables, MemTableLogged, Running,
          LiveTable, MemoryCurrent, Visible, Reply, FlushCurrent, MergeCurrent, DiskCurrent
<1> QED
  BY <1>8, <1>9, <1>10 DEF Inv

\* One record more: the MemTable is what the records so far leave in it.
LEMMA ReplayRecordKeeps ==
  ASSUME SafeEnv, TypeInv, Inv, ReplayRecord
  PROVE  Inv'
<1> USE DEF Inv, TypeInv, TypeOK, Locals
<1>1. /\ pc = "replay" /\ pc' = "replay" /\ cursor \in 1 .. Len(wal) /\ cursor' = cursor + 1
      /\ wal[cursor] \in Write /\ wal[cursor] # Torn
      /\ table' = [table EXCEPT ![wal[cursor].key] = wal[cursor].entry]
      /\ UNCHANGED <<sstables, manifest, wal>>
  BY DEF ReplayRecord, AtRecord, Reapply, MemStore, Advance, call, disk
<1>2. SubSeq(wal, 1, cursor) = Append(SubSeq(wal, 1, cursor - 1), wal[cursor])
  BY <1>1, PrefixGrows
<1>3. /\ SubSeq(wal, 1, cursor - 1) \in Seq(Write \cup {Torn})
      /\ \A i \in DOMAIN SubSeq(wal, 1, cursor - 1) : SubSeq(wal, 1, cursor - 1)[i] # Torn
  BY <1>1 DEF LogWhole
<1>4. ASSUME NEW k
      PROVE  Replayed(Append(SubSeq(wal, 1, cursor - 1), wal[cursor]), k) =
               IF wal[cursor].key = k THEN wal[cursor].entry
               ELSE Replayed(SubSeq(wal, 1, cursor - 1), k)
  BY ONLY <1>1, wal[cursor] # Torn, <1>3, ReplayedAppend
<1>5. ASSUME NEW k
      PROVE  Replayed(SubSeq(wal, 1, cursor), k) =
               IF wal[cursor].key = k THEN wal[cursor].entry
               ELSE Replayed(SubSeq(wal, 1, cursor - 1), k)
  BY ONLY <1>2, <1>4
<1>6. \A k \in Keys : table[k] = Replayed(SubSeq(wal, 1, cursor - 1), k)
  BY <1>1 DEF Loops
<1>7. \A k \in Keys : table'[k] = IF wal[cursor].key = k THEN wal[cursor].entry ELSE table[k]
  BY <1>1 DEF Write, MemTypeOK
<1>8. \A k \in Keys : table'[k] = Replayed(SubSeq(wal, 1, cursor), k)
  BY ONLY <1>5, <1>6, <1>7
<1>9. SubSeq(wal', 1, cursor' - 1) = SubSeq(wal, 1, cursor) /\ cursor' <= Len(wal') + 1
  BY <1>1
<1>10. sstables = manifest
  BY <1>1 DEF Loops
<1>11. Loops'
  BY <1>1, <1>8, <1>9, <1>10 DEF Loops
<1>12. /\ LogWhole' /\ NumbersFresh' /\ TablesWhole' /\ MemTableLogged' /\ MemoryCurrent'
       /\ FlushCurrent' /\ MergeCurrent' /\ DiskCurrent'
  BY DEF ReplayRecord, AtRecord, Reapply, MemStore, Advance, call, log, disk, env, LogWhole,
          NumbersFresh, Below, TablesWhole, RegisteredTablesComplete, Exposed, Whole,
          LiveTables, MemTableLogged, Running, LiveTable, MemoryCurrent, Visible, Reply,
          FlushCurrent, MergeCurrent, DiskCurrent
<1> QED
  BY <1>11, <1>12 DEF Inv

\* Memory and tables are now what the disk shows.
LEMMA FinishOpenKeeps ==
  ASSUME SafeEnv, TypeInv, Inv, FinishOpen
  PROVE  Inv'
<1> USE DEF Inv, TypeInv, TypeOK, Locals
<1>1. /\ pc = "replay" /\ pc' = "idle" /\ cursor - 1 = Len(wal)
      /\ wal \in Seq(Write \cup {Torn})
      /\ UNCHANGED <<table, sstables, files, wal, committed>>
  BY DEF FinishOpen, AtRecord, OpenLog, ReturnOK, memVars, disk, Loops, LogWhole
<1>2. SubSeq(wal, 1, cursor - 1) = wal
  BY ONLY <1>1, PrefixEnds
<1>3. sstables = manifest /\ \A k \in Keys : table[k] = Replayed(wal, k)
  BY <1>1, <1>2 DEF Loops
<1>4. \A k \in Keys : Visible(Replayed(wal, k), manifest, k) = committed[k]
  BY <1>1 DEF DiskCurrent, Exposed
<1>5. LiveTable' = table /\ LiveTables' = sstables
  BY <1>1 DEF LiveTable, LiveTables
<1>6. MemTableLogged'
  BY <1>1, <1>3, <1>5 DEF MemTableLogged
<1>7. MemoryCurrent'
  BY <1>1, <1>3, <1>4, <1>5 DEF MemoryCurrent, Visible
<1>8. /\ LogWhole' /\ NumbersFresh' /\ TablesWhole' /\ Loops' /\ FlushCurrent'
      /\ MergeCurrent' /\ DiskCurrent'
  BY DEF FinishOpen, AtRecord, OpenLog, EndWork, NoEntries, ReturnOK, memVars, disk, env,
          LogWhole, NumbersFresh, Below, TablesWhole, RegisteredTablesComplete, Exposed,
          Whole, LiveTables, Loops, FlushCurrent, Visible, Reply, MergeCurrent, DiskCurrent
<1> QED
  BY <1>6, <1>7, <1>8 DEF Inv

\* An open that gives up leaves the disk as it is.
LEMMA ReplayFailsKeeps ==
  ASSUME SafeEnv, TypeInv, Inv, ReplayFails
  PROVE  Inv'
<1> USE DEF Inv, TypeInv, TypeOK, Locals
<1>1. /\ LogWhole' /\ NumbersFresh' /\ TablesWhole' /\ Loops' /\ MemTableLogged'
      /\ MemoryCurrent' /\ FlushCurrent' /\ MergeCurrent' /\ DiskCurrent'
  BY DEF ReplayFails, env, AtRecord, Fault, OpenGivesUp, EndWork, NoEntries, memVars, log,
          disk, LogWhole, NumbersFresh, Below, TablesWhole, RegisteredTablesComplete,
          Exposed, Whole, LiveTables, Loops, MemTableLogged, Running, LiveTable,
          MemoryCurrent, Visible, Reply, FlushCurrent, MergeCurrent, DiskCurrent
<1> QED
  BY <1>1 DEF Inv

\* Calls only start here.
LEMMA FlushKeeps ==
  ASSUME SafeEnv, TypeInv, Inv, flush
  PROVE  Inv'
<1> USE DEF Inv, TypeInv, TypeOK, Locals
<1>1. /\ LogWhole' /\ NumbersFresh' /\ TablesWhole' /\ Loops' /\ MemTableLogged'
      /\ MemoryCurrent' /\ FlushCurrent' /\ MergeCurrent' /\ DiskCurrent'
  BY DEF flush, IsEmpty, NoEntries, RoomForFlush, Goto, memVars, log, work, disk, env,
          LogWhole, NumbersFresh, Below, TablesWhole, RegisteredTablesComplete, Exposed,
          Whole, LiveTables, Loops, MemTableLogged, Running, LiveTable, MemoryCurrent,
          Visible, Reply, FlushCurrent, MergeCurrent, DiskCurrent
<1> QED
  BY <1>1 DEF Inv

\* Calls only start here.
LEMMA CompactKeeps ==
  ASSUME SafeEnv, TypeInv, Inv, compact
  PROVE  Inv'
<1> USE DEF Inv, TypeInv, TypeOK, Locals
<1>1. /\ LogWhole' /\ NumbersFresh' /\ TablesWhole' /\ Loops' /\ MemTableLogged'
      /\ MemoryCurrent' /\ FlushCurrent' /\ MergeCurrent' /\ DiskCurrent'
  BY DEF compact, Goto, memVars, log, work, disk, env, LogWhole, NumbersFresh, Below,
          TablesWhole, RegisteredTablesComplete, Exposed, Whole, LiveTables, Loops,
          MemTableLogged, Running, LiveTable, MemoryCurrent, Visible, Reply, FlushCurrent,
          MergeCurrent, DiskCurrent
<1> QED
  BY <1>1 DEF Inv

\* Calls only start here.
LEMMA CallWriteKeeps ==
  ASSUME SafeEnv, TypeInv, Inv, NEW k \in Keys, NEW e \in Entry, CallWrite(k, e)
  PROVE  Inv'
<1> USE DEF Inv, TypeInv, TypeOK, Locals
<1>1. /\ LogWhole' /\ NumbersFresh' /\ TablesWhole' /\ Loops' /\ MemTableLogged'
      /\ MemoryCurrent' /\ FlushCurrent' /\ MergeCurrent' /\ DiskCurrent'
  BY DEF CallWrite, FlushFirst, IsFull, IsEmpty, NoEntries, RoomForFlush, memVars, log, work,
          disk, env, LogWhole, NumbersFresh, Below, TablesWhole, RegisteredTablesComplete,
          Exposed, Whole, LiveTables, Loops, MemTableLogged, Running, LiveTable,
          MemoryCurrent, Visible, Reply, FlushCurrent, MergeCurrent, DiskCurrent
<1> QED
  BY <1>1 DEF Inv

\* The disk alone has to be current, and is.
LEMMA CrashKeeps ==
  ASSUME SafeEnv, TypeInv, Inv, Crash
  PROVE  Inv'
<1> USE DEF Inv, TypeInv, TypeOK, Locals
<1>1. /\ ~Exposed /\ pc' = "closed" /\ wal' = wal /\ unflushed' = NoWrite /\ out' = 0
      /\ nextSeq' = 1
      /\ UNCHANGED <<files, manifest, committed>>
  BY DEF Crash, CutShort, SafeEnv, EndWork
<1>2. ~Exposed'
  BY <1>1 DEF Exposed
<1>3. /\ LogWhole' /\ NumbersFresh' /\ Loops' /\ MemTableLogged' /\ MemoryCurrent'
      /\ FlushCurrent' /\ MergeCurrent'
  BY <1>1 DEF LogWhole, NumbersFresh, Loops, MemTableLogged, Running, MemoryCurrent,
          FlushCurrent, MergeCurrent
<1>4. TablesWhole'
  BY <1>1, <1>2 DEF TablesWhole, RegisteredTablesComplete
<1>5. DiskCurrent'
  BY <1>1, <1>2 DEF DiskCurrent, Visible
<1> QED
  BY <1>3, <1>4, <1>5 DEF Inv

\* open drops what is in memory and keeps the disk.
LEMMA OpenKeeps ==
  ASSUME SafeEnv, TypeInv, Inv, open
  PROVE  Inv'
<1> USE DEF Inv, TypeInv, TypeOK, Locals
<1>1. /\ pc' # "remove" /\ pc # "remove" /\ wal' = wal
      /\ UNCHANGED <<files, manifest, committed>>
  BY CloseWalSafe DEF open, Goto
<1>2. DiskCurrent'
  BY <1>1 DEF DiskCurrent, Exposed, Visible
<1>3. /\ LogWhole' /\ NumbersFresh' /\ TablesWhole' /\ Loops' /\ MemTableLogged'
      /\ MemoryCurrent' /\ FlushCurrent' /\ MergeCurrent'
  BY SMTT(20) DEF open, MemClear, NoEntries, memVars, FirstSeq, CloseWal, EndWork, Goto, env,
          LogWhole, NumbersFresh, Below, TablesWhole, RegisteredTablesComplete, Exposed,
          Whole, LiveTables, Loops, MemTableLogged, Running, LiveTable, MemoryCurrent,
          Visible, Reply, FlushCurrent, MergeCurrent
<1> QED
  BY <1>2, <1>3 DEF Inv

\* close drops what is in memory and keeps the disk.
LEMMA CloseKeeps ==
  ASSUME SafeEnv, TypeInv, Inv, close
  PROVE  Inv'
<1> USE DEF Inv, TypeInv, TypeOK, Locals
<1>1. /\ pc' # "remove" /\ pc # "remove" /\ wal' = wal
      /\ UNCHANGED <<files, manifest, committed>>
  BY CloseWalSafe DEF close, Goto
<1>2. DiskCurrent'
  BY <1>1 DEF DiskCurrent, Exposed, Visible
<1>3. /\ LogWhole' /\ NumbersFresh' /\ TablesWhole' /\ Loops' /\ MemTableLogged'
      /\ MemoryCurrent' /\ FlushCurrent' /\ MergeCurrent'
  BY DEF close, MemClear, NoEntries, CloseWal, Goto, work, env, LogWhole, NumbersFresh,
          Below, TablesWhole, RegisteredTablesComplete, Exposed, Whole, LiveTables, Loops,
          MemTableLogged, Running, LiveTable, MemoryCurrent, Visible, Reply, FlushCurrent,
          MergeCurrent
<1> QED
  BY <1>2, <1>3 DEF Inv

\* The actions that need another failure than those of SafeFaults never happen.
LEMMA NoUnsafeFault ==
  ASSUME SafeEnv
  PROVE  /\ ~InstallManifestShort /\ ~RegisterOutputShort /\ ~RegisterOutputFails
         /\ ~AppendLost /\ ~ManifestUnread /\ ~LogUnread
<1>1. AppendLost => Fault("walFlush")
  BY DEF AppendLost
<1> QED
  BY <1>1, FaultIsSafe
     DEF SafeFaults, InstallManifestShort, RegisterOutputShort, RegisterOutputFails,
         ManifestUnread, LogUnread

\* A database that does not exist yet shows nothing, and nothing is promised.
LEMMA InitInv == Init => Inv
<1> SUFFICES ASSUME Init PROVE Inv
  OBVIOUS
<1>1. /\ pc = "closed" /\ out = 0 /\ nextSeq = 1 /\ sstables = <<>> /\ inputs = <<>>
      /\ manifest = <<>> /\ wal = <<>> /\ unflushed = NoWrite /\ committed = NoEntries
  BY DEF Init
<1>2. \A k : Replayed(wal, k) = Absent /\ SearchTables(files, manifest, k) = Absent
  <2>1. \A k : Replayed(<<>>, k) = Absent
    BY ONLY ReplayedNothing
  <2>2. \A k : SearchTables(files, <<>>, k) = Absent
    BY ONLY SearchNoTables
  <2> QED
    BY ONLY <1>1, <2>1, <2>2
<1>3. DiskCurrent
  BY <1>1, <1>2 DEF DiskCurrent, Visible, Reply, NoEntries
<1>4. LogWhole /\ NumbersFresh /\ TablesWhole /\ Loops
  BY <1>1 DEF LogWhole, NumbersFresh, Below, TablesWhole, RegisteredTablesComplete, Loops
<1>5. MemTableLogged /\ MemoryCurrent /\ FlushCurrent /\ MergeCurrent
  BY <1>1 DEF MemTableLogged, MemoryCurrent, Running, FlushCurrent, MergeCurrent
<1> QED
  BY <1>3, <1>4, <1>5 DEF Inv

\* A stuttering step changes nothing the invariant is about.
LEMMA StutterKeeps ==
  ASSUME Inv, UNCHANGED vars
  PROVE  Inv'
  BY DEF vars, call, memVars, log, work, disk, env, Inv, LogWhole, NumbersFresh, Below,
         TablesWhole, RegisteredTablesComplete, Exposed, Whole, LiveTables, Loops,
         MemTableLogged, Running, LiveTable, MemoryCurrent, Visible, Reply, FlushCurrent,
         MergeCurrent, DiskCurrent

\* Every step in a safe environment keeps the invariant.
LEMMA SafeStep ==
  ASSUME SafeEnv, TypeInv, Inv, [Next]_vars
  PROVE  Inv'
<1>1. CASE FlushStep
  BY <1>1, NoUnsafeFault, CreateTableKeeps, CreateTableFailsKeeps, FillTableKeeps,
          FillTableFailsKeeps, InstallManifestKeeps, InstallManifestFailsKeeps,
          ResetWalKeeps, ResetWalFailsKeeps DEF FlushStep
<1>2. CASE CompactStep
  BY <1>2, NoUnsafeFault, BeginCompactionKeeps, MergeTableKeeps, PlaceOutputKeeps,
          CompactionFailsKeeps, RemoveInputKeeps, RemoveInputFailsKeeps, RegisterOutputKeeps
          DEF CompactStep
<1>3. CASE WriteStep
  BY <1>3, NoUnsafeFault, AppendWalKeeps, AppendRefusedKeeps, AppendFailsKeeps,
          ApplyWriteKeeps DEF WriteStep
<1>4. CASE OpenStep
  BY <1>4, NoUnsafeFault, LoadTableKeeps, LoadTableFailsKeeps, StartReplayKeeps,
          ReplayRecordKeeps, FinishOpenKeeps, ReplayFailsKeeps DEF OpenStep
<1>5. CASE (\E k \in Keys, v \in Values : put(k, v)) \/ (\E k \in Keys : remove(k))
  BY <1>5, CallWriteKeeps DEF put, remove, Entry
<1>6. CASE flush \/ compact \/ open \/ close \/ Crash
  BY <1>6, FlushKeeps, CompactKeeps, OpenKeeps, CloseKeeps, CrashKeeps
<1>7. CASE UNCHANGED vars
  BY <1>7, StutterKeeps
<1> QED
  BY <1>1, <1>2, <1>3, <1>4, <1>5, <1>6, <1>7 DEF Next, Step

\* The order of the effects on the disk is right: at each step of a flush, a merge or a
\* recovery, log, manifest, tables and MemTable are where Inv says they are, so that
\* the step after it may fail or never come (kv_store.cpp:254-342).
THEOREM SafetyInvariant ==
  ASSUME SafeEnv
  PROVE  Spec => []Inv
<1>1. TypeInv /\ Inv /\ [Next]_vars => Inv'
  BY SafeStep
<1> QED
  BY <1>1, InitInv, TypeInvariant, PTL DEF Spec

\* The log and the tables of the manifest show what was promised: CrashSafe.
LEMMA DiskShowsPromises == TypeInv /\ Inv => CrashSafe
<1> SUFFICES ASSUME TypeInv, Inv, ~Exposed PROVE RecoveredFrom(manifest) = committed
  BY DEF CrashSafe
<1>1. \A k \in Keys : Visible(Replayed(wal, k), manifest, k) = committed[k]
  BY DEF Inv, DiskCurrent
<1>2. committed \in [Keys -> Values \cup {Absent}]
  BY DEF TypeInv, TypeOK
<1> QED
  BY <1>1, <1>2 DEF RecoveredFrom

\* Crash consistency: whatever calls run, wherever the process dies outside the
\* window of Exposed and whichever calls of SafeFaults fail, a restart brings back
\* exactly the writes that were promised.
THEOREM CrashConsistent ==
  ASSUME SafeEnv
  PROVE  Spec => []CrashSafe
  BY DiskShowsPromises, SafetyInvariant, TypeInvariant, PTL

\* Reads: between calls, get answers with the last promised write of its key, through
\* flushes, compactions, failures of SafeFaults and restarts.
THEOREM ReadsCorrect ==
  ASSUME SafeEnv
  PROVE  Spec => []ReadsLatest
<1>1. TypeInv /\ Inv => ReadsLatest
  <2> SUFFICES ASSUME TypeInv, Inv, pc = "idle", NEW k \in Keys PROVE get(k) = committed[k]
    BY DEF ReadsLatest
  <2>1. LiveTable = table /\ LiveTables = sstables /\ Running
    BY DEF LiveTable, LiveTables, Running
  <2> QED
    BY <2>1 DEF Inv, MemoryCurrent, get
<1> QED
  BY <1>1, SafetyInvariant, TypeInvariant, PTL

\* Outside the window of Exposed every table the manifest names is whole on disk.
THEOREM ManifestCorrect ==
  ASSUME SafeEnv
  PROVE  Spec => []RegisteredTablesComplete
<1>1. Inv => RegisteredTablesComplete
  BY DEF Inv, TablesWhole
<1> QED
  BY <1>1, SafetyInvariant, PTL
=============================================================================
