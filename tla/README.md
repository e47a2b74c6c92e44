# TLA+ models of the LSM-tree key-value store

This directory holds TLA+ specifications of the store in `src/`, TLC
configurations that check them on small instances, and proofs checked by TLAPS.
`PROJECT.json` lists the components, runs, mutants, findings, hazards and theorems,
and maps each definition to the lines it models.

## 1. The system

One process, one thread. A `KVStore` object (`src/src/kv_store.cpp`) owns a sorted
buffer in memory, a write-ahead log, a list of immutable table files and a manifest that
names them. Nothing runs in the background: a put may flush, the flush may compact, and
the put goes on when both are done. What makes the code hard is not interleaving but the
order of its effects on the disk, since the process may die, or a call to the file system
fail, between any two of them.

| Component | State | Operations | Correct means |
|---|---|---|---|
| MemTable (`memtable.cpp`) | map of key to value or tombstone, size estimate | put, remove, get, clear, isFull | the estimate is the sum of its entries; full when it reaches the threshold |
| Write-ahead log (`wal.cpp`) | file `wal.log`, its stream, open flag | append, replay, clear, open, close | a promised record is replayed, in order, after any crash |
| SSTable (`sstable.cpp`) | file: header, records, index, filter, footer; reader with index and filter | write, open, get, readAllRecords | a table that opens is whole and finds exactly the keys it holds |
| Bloom filter (`bloom_filter.cpp`) | bits, number of hashes | add, possiblyContains, (de)serialize | no false negatives |
| Compaction (`compaction.cpp`) | merged map, temporary file | merge, drop tombstones, verify, rename, delete inputs | the merged table shows what its inputs showed |
| Coordinator (`kv_store.cpp`) | list of readers, next table number, manifest | open, close, put, get, remove, flush, compact | reads see the last write; a restart brings back what was promised |
| CLI (`cli.cpp`) | none of its own | a command per line | reports what the store did |
| Status, options, record types | values | none | none |

Interactions: the coordinator calls all the others; compaction reads and writes tables
through the SSTable classes; the manifest on disk, the log and the table files are the
state shared with the next incarnation of the process. Replay calls back into the
MemTable.

The hazards are listed, with their lines, in `PROJECT.json`: crashes between the effects
of a flush or a compaction, a failing step in the middle of a call, stale numbering after
a restart, merge and lookup order with tombstones, torn and unflushed log records,
limits and size accounting.

## 2. Modules

| Module | What it is |
|---|---|
| `MemTable` | `memtable.cpp`: the map and its size estimate, as operators that `KVStore` uses and as a state machine of its own |
| `KVStore` | the coordinator over MemTable, log, tables, manifest and compaction, with crashes and failures |
| `DurableMap` | the abstract specification: what the store promises its caller, also when the disk loses keys |
| `DamagedStore` | `KVStore` over tables whose records change after they were opened: read errors in `get` and in a merge, and what is then still a `DurableMap` |
| `Cli` | `cli.cpp` over `DamagedStore`: commands, and what FLUSH and COMPACT report |
| `WAL` | `wal.cpp`: the log as bytes, and the loop of replay |
| `BloomFilter` | `bloom_filter.cpp`, as operators that `SSTable` uses |
| `SSTable` | `sstable.cpp`: writer, file, index, filter, opening, lookups and scans |
| `RecordLog` | the abstract specification of the log: whole and torn records, and a replay of them |
| `KVStoreInvariant` | the environment assumption `SafeEnv`, the inductive invariants `Inv`, `OrderInv`, `OpenInv`, `CountInv` and `OrphanInv`, in named parts |
| `MCKVStore`, `MCDamagedStore`, `MCCli`, `MCWAL`, `MCSSTable` | constants of the TLC runs |
| `MemTableProofs` | the size estimate is the sum of the entries |
| `KVStoreTypeProofs` | type correctness, in every environment |
| `KVStoreSafetyProofs` | lookups and replay; `Inv` is inductive; crash consistency, reads, manifest |
| `KVStoreRefinementProofs` | the store implements `DurableMap`, and uses its log as a `RecordLog` |
| `KVStoreTablesProofs` | the order of the tables, their files and their number, the size estimate, and a closed log, in every environment; the tables no manifest names and the bound on the MemTable, in a safe one |
| `CliProofs` | what the commands report; damage alone makes a key unreadable, and of all other keys the store under the commands implements `DurableMap` |
| `SSTableProofs` | no false negatives; lookups are truthful, scans bounded, only whole files open |
| `WALProofs` | what replay gives back; the bytes implement `RecordLog` |

`DamagedStore` and `Cli` extend `KVStore`, and `KVStore` uses the operators of `MemTable`. `WAL` and `SSTable`
stand beside it: they check, on the file itself, what `KVStore` takes for granted of a
log (replay gives the whole records before the first torn one) and of a table (a table
that opens shows what was written to it). For the log `RecordLog` is the seam: `WAL` implements it
from below, and `KVStore` does with its own log variables nothing that it does not allow. Both modules instantiate it as
`Log`, and state this as `ImplementsLog`.

### How KVStore corresponds to the code

Memory: `table` and `approximate_size` are the MemTable, `sstables` the numbers of the open
readers oldest first, `nextSeq` is `next_sst_seq_`, `walOk` says that the log is open and
its stream good, `unflushed` is the record a bad stream still holds. `inputs`, `merged`,
`out` and `cursor` are the locals of the running loops; they are reset when the function
returns. Disk: `files` (missing, partial, or complete with a map of records), `manifest`,
`wal` (whole records, or `Torn`). History, read by properties only: `committed` (the map
made of every promised write), `writes`, `crashes`, `faults`.

`pc` is the next step of the running call. A call becomes a chain of actions, one for each
effect on the disk:

| Code | Actions |
|---|---|
| `put`, `remove` | `CallWrite`, then the flush if `IsFull`, then `AppendWal` (or `AppendRefused`, `AppendFails`, `AppendLost`), `ApplyWrite` |
| `flushInternal` | `CreateTable`, `FillTable`, `InstallManifest`, `ResetWal`, each with its failure |
| `compactInternal`, `Compaction::compact` | `BeginCompaction`, `MergeTable` for each input, `PlaceOutput`, `RemoveInput` for each input, `RegisterOutput`, and the failures |
| `open` | `open`, `LoadTable` for each line of the manifest, `StartReplay`, `ReplayRecord` for each record, `FinishOpen`, and the failures |
| `close`, death of the process | `close`, `Crash` |

`get` changes nothing and is an operator. Calls that return at once without an effect
(flush of an empty MemTable, compaction of fewer than two tables, any call on a closed
store, an empty key) are no steps. `op` tells a flush inside a put from one of its own:
`ResumeCall` goes on to the log or returns.

Numbers stand for file names; the number of a table is all the code reads from its name.
A temporary file (manifest, compaction output) is not seen by the next incarnation until
it is renamed, so writing and renaming one are a single action. A table written by a flush is
not temporary: the file exists, partial, before it is complete, and a crash in between
leaves it there.

### How the other modules correspond to the code

`WAL`. `file` is the log as a sequence of cells, a byte each. The number of values of a byte and the
width of a checksum are constants, so that small ones can be checked; a length has four bytes. The bytes
of a checksum are cells of their own that name the content they are of: checksums of different
contents never agree, and a checksum read as a length or a type may be anything, which is a choice. `is_open`, `good` and
`buffer` are the stream; `in` is the replay that runs, one `ReplayStep` a turn of its loop, with a
disjunct for each of its returns. `CutShort` writes part of a record (a crash, or a write that fails); `Damage`
changes a cell. `pieces` and `ends` are history: what was written since the log was cleared, and how far
each piece reaches. `KVStore`'s `CloseWal`, `AppendFails` and `AppendLost` are the same steps on whole records.

`SSTable`. A table file is the sequence of its records with their offsets, and, once `finish`
has run on a good stream, the index, the filter and the end of the data. `WriteFails` makes the
stream bad at any point and loses any number of the last records, as no write is looked at. Parts of the file may
be damaged: a record by its position, everything that opening checks as one `OpeningPart`. `get` is the filter, `findOffsetRange`
on the index, and `scanRange`. Lengths and offsets are numbers, and the lengths of the index and of the
filter's block are cut to the four bytes they are written to.

`RecordLog`. `records` is the log, whole records and `Torn`; `ready` says that it takes one (open, its stream
good); `held` is what a bad stream still has. `replay` is the replay that runs or ran last. In `WAL` each of its ends (`End`)
and the opening of the log are steps of their own; the store opens its log as soon as replay lets it, which is
one step, so `Open` allows a replay that may end there. `damaged` lets replay stop anywhere, with an error;
`Unreadable` lets it pass over a whole log, as `wal.cpp:134` does (`KVStore` has that as fault `readLog`, `WAL` does not have it).

`BloomFilter`. The hash functions are constants, about which only their range is assumed: Jenkins' is never 0 in the code.

`DamagedStore`. `unreadable` says which lookups of a table meet a changed record. `getPastErrors` is
`KVStoreImpl::get` with the errors of its tables; `MergeUnreadable` is a merge that stops at such a table.
A key is in `Lost` while its newest entry, in what is open or in what a restart would load, is one that cannot be read; a `get`
of it may answer with an older one (run `stale`). `RestartAnswers` is what a restart would answer of the others, by the same
`VisiblePastErrors`. `ImplementsFading` maps both to `DurableMap`, whose `lost` grows by `Fade` only, the step of `Damage`.

`DurableMap` has `lost` for this alone. `KVStore` without damage implements it with `lost` empty, so its `Implements` is about every key.

`Cli`. `command` is the command that runs; its call of the store takes as many steps as the
store's call does, then `Reports` prints. `asked` is `before_ssts`, read before the call. The
process dies with the store (`Dies`), and `Start` is the next one. `Decays` is damage, between two commands or
while no process has the database open; the reports say nothing of a table that changes while a call runs.

### Failures

`FaultPoints` names the calls that may fail in a run, `MaxFaults` how many do.
`SafeFaults` are the ones the code recovers from: table not created, not written
completely or not readable, manifest not replaced, log not truncated, an input of a merge
not readable, the output not written or renamed, an input not deleted, an append refused, a
table or the log not opened by `open`. `AllFaults` adds those after which a promise is lost:

- `reopen`: an input does not open again after a failed compaction, and is dropped;
- `openOutput`, `register`: the merged table does not open, or the manifest cannot be
  replaced, with the inputs deleted already;
- `walFlush`: the flush of a log record fails, which `appendRecord` does not look at;
- `shortManifest`: a temporary manifest that was not written completely is renamed;
- `readManifest`, `readLog`: an existing manifest or log that cannot be read passes for empty.

`TornWrites` lets a crash or an error leave part of a log record. `CrashWhileExposed`
lets the process die in the window (`Exposed`) in which compaction has removed tables the
manifest on disk still lists. `SafeEnv` is: no torn records, no death inside that window,
only `SafeFaults`. Theorems on crash consistency and the refinement assume `SafeEnv`; three violation runs show
what happens without it.

## 3. Runs

Every cfg of the store takes keys and values of one byte, no entry overhead and a
MemTable threshold of two bytes. One put then fills the MemTable, as two deletes do. With a compaction threshold
of two, two writes already flush and four compact. A second
key is needed for a table that does not hold the key looked up; with values, deletes and
absence a key has three contents, enough for a stale one to differ. `MaxSeq` bounds the
tables written in one incarnation (a restart numbers from the manifest again), `MaxWrites`
the writes that take effect, `MaxCrashes`, `MaxFaults` and `MaxDamaged` the rest of the environment.

| Run | Bounds | Shows |
|---|---|---|
| `crash` | 2 keys, 1 value, 4 writes, 2 crashes, 5 tables | crash consistency (`CrashSafe`), `ReadsLatest`, whole tables in the manifest, bounds on tables and MemTable, `Implements` (refinement of `DurableMap`) |
| `faults` | 2 keys, 1 value, 3 writes, 1 crash, 2 faults, 4 tables | `Implements` under `SafeFaults`, `OrphansBounded`, and the inductive invariants `Inv` and `OrphanInv` (`CrashSafe` and `ReadsLatest` follow from `Inv`) |
| `hostile` | 2 keys, 1 value, 3 writes, 1 crash, 1 fault of any kind, torn records, crash in the window | `TypeInv`, `SizeIsSumOfEntries` (the size estimate never drifts, through overwrites, flushes and replays), `TablesChronological`, `OpenTablesKept` (no step touches the file of an open table), `RefusesUntilReopened` (a log closed by a failed truncation takes nothing until the next `open`), `ImplementsLog`, `CallsReturn`, and the inductive invariants `OrderInv`, `CountInv` and `OpenInv` survive even this |
| `cli` | 2 keys, 1 value, 3 writes, 1 crash, 1 fault (manifest or log truncation), 1 damaged table | of every key whose newest entry can be read the store is a `DurableMap` (`ImplementsFading`) and `get` answers with the last promised write (`ReadableReadsLatest`); a FLUSH without an error leaves the MemTable empty and its entries in the newest table, the one it names if it names one (`FlushLeavesNothing`); COMPACT names the right files (`CompactReportMeans`); each command returns (`PromptReturns`); the inductive `CliInv` |
| `wal` | 2 records, 3 pieces, 1 tear, 1 changed cell, 3 byte values, checksums of 2 | replay: `NothingInvented`, `ReplayGivesBack`, `OkIsComplete`, `ReplayReturns`; `ImplementsLog` (refinement of `RecordLog`); and the inductive invariants `LogInv` and `IntactInv` |
| `sstable` | 4 keys, 2 values, interval 2, filters for 4 keys and by default, 2 damaged parts | `TruthfulGet`, `NoFalseNegatives`, `ScanBounded`, `OpensOnlyWhole`, and the inductive `TableInv` |
| `window` | 3 writes, no faults | violation: `InputsOutliveRegistration` |
| `torn` | 3 writes, torn records | violation: `OpenRecovers` |
| `walflush` | one failing log flush | violation: `CrashSafe` |
| `wallimit` | 3 records, one over each limit of replay | violation: `WrittenIsReadable` |
| `stale` | 1 key, 2 values, 3 writes, 1 damaged table | violation: `NoStaleRead` |
| `emptyflush` | 1 key, 2 writes, no failures | violation: `EmptyReportIsTrue` |

Why the bounds are enough.

- `crash`, `faults`: four writes and two crashes reach a second flush and a
compaction with a crash in each of their steps and one in the recovery from it, a table
number used twice (an orphan overwritten), replay of a log over tables that hold its records,
and a tombstone in the log over a merged table. Two faults reach a failed truncation
followed by a failed flush or compaction. The proofs lift the main safety properties from these
bounds.
- `cli`: with a threshold of two every second flush compacts, and the manifest that FLUSH compares shrinks or
names the merged table. One fault more reaches the rest: after a failed truncation two tables are
registered for the user's own COMPACT, and after a failed manifest update the flush's compaction merges a table
FLUSH has not seen yet. The damaged table may be an input of a merge, loaded by a restart, or hold a key that is written anew.
- `wal`: three pieces are the least that have a record before a torn one and one behind
it. The cells of one of the records, behind the torn type byte of another, are read as lengths within the
limits, which reach over its end. A record holds the order of the bytes of its lengths. One changed cell suffices to turn each field into each other value.
- `sstable`: four keys at an interval of two make two ranges of two, so that there are
first, middle and last ranges, and keys below, between and above those present. The hash
values collide within and between keys. In a filter of 64 bits two keys give a false positive.

Deadlock is checked in every run: `open`, or a call, is always possible.

What the violation runs show:

1. `window`. `compaction.cpp:82-86` deletes the inputs before `kv_store.cpp:342` registers
   the output, against README.md:97 of the repository. A crash in between leaves a manifest that names missing
   files, which `open` skips without an error (`kv_store.cpp:66`).
2. `torn`. `open` replays up to a torn record and then appends behind it (`wal.cpp:29`). The next
   `open` reads the torn record's lengths into the record behind it, finds a wrong
   checksum and refuses the database, against README.md:89 of the repository. `WAL` shows the other
   outcome as well: if the lengths reach past the end of the file, `open` takes the log for truncated
   there, and goes on without the records behind the tear.
3. `walflush`. `wal.cpp:86-92` checks the stream before flushing it and returns OK anyway,
   against its comment on durability.
4. `wallimit`. `replay` refuses a key over 16 MiB or a value over 64 MiB (`wal.cpp:174`), which
   `appendRecord` writes and acknowledges. The next `open` fails on such a record.
5. `stale`. `get` goes on to the older tables when a newer one answers with an error
   (`kv_store.cpp:159-168`), and returns a value that was overwritten since.

6. `emptyflush`. FLUSH takes the MemTable to have been empty when the manifest has not grown (`cli.cpp:149`).
   A flush that goes on to a compaction leaves a manifest that is no longer, and `cli.cpp:155` prints that the MemTable was
   empty. `FlushLeavesNothing` says what holds of each of the two reports: nothing is lost, and "was
   empty" is printed of a MemTable that was not only when a merge has left one table. A table FLUSH names is the newest one, but
   when the manifest it compares with lacked a table it may be the merged one, not the one FLUSH wrote.

Two phrases of the documents are looser than the code, and the models follow the code. README.md:73 of the repository and
`memtable.h:39` let a flush happen when the estimate exceeds the threshold; `memtable.cpp:66`, and `IsFull`, take
a MemTable that has reached it to be full. `wal.h:47` lets replay return "OK or warning" at a truncated tail;
`wal.cpp:156-200` and the test of it return an error there, with a flag that `open` takes for a warning, and OK only for a
log whose records are all whole (`OkIsComplete`).

### Fairness

`FairSpec` is `Spec` with weak fairness of `Step`: a call that has begun goes on. The code
justifies it: it is one thread, no step waits for another process, every loop runs over
a finite list. No fairness is assumed of calls, of crashes or of opening the store. Failing
steps are disjuncts of `Step` too; none is required to happen, since a step that
succeeds satisfies the fairness as well.

`CallsReturn` says each call returns or the process dies.

`WAL!FairSpec` is weak fairness of `ReplayStep`: the loop of replay runs on once it has begun.
`CliSpec` is weak fairness of `GoesOn`: the command that runs goes on, in the same thread as
the store. Neither assumes that a command is typed, or that anything fails or does not.

## 4. Proofs

`TypeCorrect` (`KVStoreTypeProofs`): `Spec => []TypeOK`, with no assumption on the
environment. `TypeOK` is not inductive by itself: that a number or a write is within its bound
follows from where the running call is. `Locals` adds this, and `TypeInv` is their
conjunction.

`KVStoreSafetyProofs` proves, for every number of keys, values, tables, writes, crashes
and faults, under `SafeEnv`:

- `CrashConsistent`: `Spec => []CrashSafe`. What a restart would read is the map of the promised writes.
- `ReadsCorrect`: `Spec => []ReadsLatest`. Between calls, `get` answers with the last promised write.
- `ManifestCorrect`: `Spec => []RegisteredTablesComplete`.

The argument. `CrashSafe` alone is not inductive: a flush keeps it only because the new
table shows what the MemTable did, which is in the log; a merge only because the merged
map is what the inputs merged so far show; replay only because the MemTable is what the records so far leave.
`Inv` says so in nine parts: `LogWhole`, `NumbersFresh` (the number being written is above
every table in use, so writing a file harms none), `TablesWhole`, `Loops` (each loop has
dealt with a prefix), `MemTableLogged`, `MemoryCurrent`, `FlushCurrent`, `MergeCurrent`,
`DiskCurrent`. Run `faults` checks `Inv` on a small instance. One lemma for each action shows that
it keeps `Inv`; `NoUnsafeFault` excludes the rest; `SafeStep` combines them. Its first lemmas
say how a lookup changes when a list of tables grows, and what
replay gives for a longer log (both by taking the maximum of a finite set of positions, not by
induction on sequences). `TypeInvariant` and `SafetyInvariant` state the two invariants themselves.

`SizeEstimateExact` (`MemTableProofs`): `MemSpec => []SizeIsSumOfEntries`, for every set of keys and all sizes. The sum over the MemTable is a
fold, a recursive function over sets of keys, and the induction theorems of the library cannot be instantiated here. Their uses are replaced by extremal arguments: there is
such a function (`SumsExist`: take the largest size of a set up to which there is one), it does not depend on where it is defined (`SumsAgree`) and any element
may be taken out of it first (`TotalWithout`: take a smallest set that says otherwise, which strict inclusion of finite sets, being well-founded, has). `SizeInv` is the sum together with finitely many entries. `StoreSizeExact` (`KVStoreTablesProofs`) says the same of the
store, in every environment: `MemTableMoves` reduces its steps to those of the MemTable.

`StoreImplementsDurableMap` (`KVStoreRefinementProofs`): `Spec => Implements`, under `SafeEnv`. Under the refinement mapping the
abstract map is what a restart would read. `AbstractState` shows from `Inv` that this is `committed` in every
state, also while the inputs of a merge are being removed, and that `get` answers from it between calls. A step then is one of a few
shapes: hidden inside a call, a call, the append to the log, a return, a death. One lemma gives each
group of actions its shape, and `ShapeMaps` maps each shape to a step of `DurableMap` or a stutter.

`OrderCorrect` (`KVStoreTablesProofs`, with `OrderInvariant`): `Spec => []TablesChronological`, with no assumption on the
environment. The property is not inductive, as open tables come from the manifest and from the inputs of a compaction that failed.
`OrderInv` adds that these increase too, and that every number lies below that of the table being
written, or else below the next one; in the loop of `open`, that what is loaded comes from the lines already read. Leaving one input out or
writing a manifest short keeps the order, so nothing has to be excluded.

`OpenTablesCorrect` (same module, with `OpenInvariant`): `Spec => OpenTablesKept`, with no assumption on the environment. `OpenInv` says that the
files of the open tables are whole, and during a merge those of its inputs, whose readers are closed. By `FileChanges` a file changes only when its number lies
above all open tables (`OrderInv`), or when no table is open.

`RefusalCorrect` (same module): `Spec => RefusesUntilReopened`, with no assumption either. A flush would open the log
again; `FlushInv`, that a flush has begun only over a MemTable that is not empty, says that none is on its way there.

`TableCountCorrect` (same module, with `CountInvariant`): `Spec => []TableCountBounded`, with no assumption on the environment. `CountInv`
bounds the lists by the threshold and the crashes and faults so far, and says where in a flush or a compaction
the bound may be reached: between the new table and the compaction it starts. A failure there
leaves one table too many, and raises the bound by one.

`OrphansCorrect` (same module): `Spec => []OrphansBounded`, under `SafeEnv`: the table files that no manifest names, which the code
never looks for, are at most one for each crash and fault. A flush or a compaction may have
one such file while it runs, its output or an input that waits to be removed, so `OrphanInv` counts the files outside
the manifest apart from those the running call still deals with: those pending, which the
next manifest will name, and those staying, which are loaded or in the list of inputs. `ManifestBehind` says by which file the manifest is behind the
open tables after a failed update. The bound on the cardinality is proved with the theorems on finite sets.

`MemTableSizeCorrect` (same module): `Spec => []MemTableBounded`, under `SafeEnv`: the MemTable never outgrows the threshold by
more than one entry, also after a restart. While the process lives that is the check before each write; the hard case is
replay, which fills a MemTable without any check. `MemoryInv` says that replay passes through the sizes
the writes went through: there is a sequence of MemTables, one for each record of the log, each made from the one before by its
record, each within the bound, and the last is the MemTable. When the truncation after a flush fails, the log
is closed: its records no longer match the emptied MemTable, and nothing is appended to them until the store is
opened again. The lemmas `StoringKeepsBound` and `FillsAppended` are the step. TLC does not check `MemoryInv`, which quantifies over sequences of MemTables, but does check the bound.

`LookupsTruthful` and `FilterForgetsNothing` (`SSTableProofs`): `Spec => []TruthfulGet` and
`Spec => []NoFalseNegatives`, for every set of keys, record sizes, index interval, pair of hash functions and
filter size. `TableInv` is inductive: while the stream is good the file has what was appended, where the
writer thinks it is (`FileCurrent`); records follow one another by key and offset (`RecordsOrdered`); the index
names records of the file and the first of them (`IndexTrue`); the filter holds every key and fits its
block (`FilterTrue`); only a writer whose stream stayed good has made a file whole, and a reader has loaded what that
writer wrote (`FinishedTrue`). `RangeFound` then shows that the range the index gives holds
the key's record if there is one, and `LookupTrue` that the scan finds it. The first section has the
lemmas on the filter: an added key is contained, and stays so after later additions and a trip to the file.
`ScanIsBounded` and `OpensOnlyWholeFiles` follow from the same invariant (`TableInvariant`): `IndexSpaced`, the part that says where
the entries of the index stand, bounds the records a lookup reads by the interval; `FinishedTrue` has the other one.

`CliProofs`. A command adds two steps to the store: the call, and the report. `CliStepMoves` reduces every other step
of `Cli` to one of the store, of `DamagedStore` or of nothing (`StoreMove`), and the lemmas of `KVStoreTypeProofs` and `KVStoreSafetyProofs` carry
the store's invariants over.
`CliTypeCorrect` needs no assumption. Under `SafeEnv`, `ReadableReadsCorrect` (`ReadableReadsLatest`) says that a key is answered
rightly whenever its newest entry can be read, and `FlushLosesNothing` (`FlushLeavesNothing`) what a FLUSH leaves behind; it does not say
that the report of an empty MemTable is true, which run `emptyflush` refutes.
`CliKeepsReadable` (`ImplementsFading`) has three parts. By `DamageInv` damage is in whole tables only, and never in one that the
running call has just written and is about to name in the manifest, to empty the log for, or to remove its inputs for. So no step of the store loses a
key (`MoveSpares`: a flush or a merge takes the newest entry of each key to a table that can be read, or stops), and the append to the log brings its key
back. By `Inv`, what `get` and a restart answer of a key that is not lost is the promised write (`SoundAnswers`). The shapes
of `KVStoreRefinementProofs` then are steps of `DurableMap`, also for the two steps `Cli` adds (`MoveShapes`), and damage is its `Fade` (`DecaysFades`).
`CliUsesRecordLog` is `StoreUsesRecordLog` below the commands, in every environment. `CompactReportCorrect` needs `CliInv` (`CliInvariant`), which
relates the files the command has seen to the tables open at each step of its call (`FlushRuns`, `CompactRuns`), and the assumption that no
removal of a file fails: the code drops the errors of `fs::remove`, and COMPACT then names as deleted what is still there.

`WALProofs`, for all records, any number of pieces, of torn ones and of changed bytes:

- `NothingInventedCorrect` and `OkIsCompleteCorrect`: of any file, if each record fits into the 32 bits its
  lengths are added in (`AllFit`). Beyond that the code writes past its buffer, which the model leaves out.
- `ReplayGivesBackCorrect`: of a file that is not damaged, if each record is within the limits of replay too
  (`AllReadable`); run `wallimit` shows that without it the statement is false.

A length is read as it was written (`LengthIsRead`, four divisions by the base), and a header and
a payload with it (`HeaderRead`, `PayloadRead`). `LogInv` (`LogInvariant`) says that the file is its pieces one behind the other, and
that the last cell of a checksum ends a whole piece and names its content. So when the checksum replay compares is right, its last cell ends a piece with that content, which
has the length replay took from the header; then that piece starts where replay stands, and is the next one
(`DeliverIsNext`). No induction is needed over the file: misread lengths, changed bytes and torn
pieces are all covered by that one cell. `IntactInv` adds what the cells of a piece are when none has changed, and
`RefusedAtTear` goes through the refusals of replay.

The log, from both sides. `BytesImplementRecordLog` (`WALProofs`): `Spec => ImplementsLog` of `WAL`, if each record is within the limits of replay. `WritingMaps`
takes the steps that write or read no cell; `ReplayMaps` those of replay: a record handed out is the next one by `DeliverIsNext`, and
an error short of the end stands at a torn record, or in a damaged file, by `StopsAtTear`. `StoreUsesRecordLog` (`KVStoreRefinementProofs`): `Spec => ImplementsLog`
of `KVStore`, in every environment. `LogShut` is the invariant it needs: the log is closed until replay has ended.

The assumptions on constants are `SlotAssumption`, `SizeAssumption` (module `MemTable`),
`StoreAssumption` (`KVStore`), `DamageAssumption` (`DamagedStore`), `LogAssumption` (`WAL`), `BloomAssumption`
(`BloomFilter`) and `TableAssumption` (`SSTable`); TLC evaluates them in the runs. `TableAssumption` asks for an interval above 0 and for
filters of less than 4 GiB.

Only model-checked: liveness (`CallsReturn`, `ReplayReturns`, `PromptReturns`), which is out of reach
of the prover. Every invariant and every action property of a passing run is the subject of a theorem. TLC checks the size estimate inside the store, where all entries have one
byte or two; other sizes are left to `SizeEstimateExact`. Not checked by TLC but proved:
`MemoryInv`, `FlushInv`, `SizeInv`, `LogShut` and `DamageInv`, which only the proofs use. `ImplementsLog` is run on the store
alone, and proved below the commands too.

## 5. Not modelled

- The bytes of table files: a record, the index or the footer is readable or damaged as a whole. `WAL` has
  the bytes of the log, where the layout is what replay has to find its way through.
- The allocations of a reader: it takes the lengths of a record before it has checked it (`sstable.cpp:525`, `sstable.cpp:600`), so a damaged
  table may ask for up to 8 GiB and end the process. Here a damaged record is an error of the lookup or of the merge, so
  `PromptReturns` and `CallsReturn` hold for a reader that gets its memory.
- `crc32` itself: checksums of different contents are taken to differ. Nor the two hash functions of the filter.
- Loss of power: `flush` hands data to the operating system, the code never calls
  fsync, and a crash here is the death of the process.
- Two processes on one directory, and a file that changes its length under an open reader.
- A writer that is opened twice: the code makes one for each file.
- In `KVStore`, a record whose body went out and whose checksum did not is taken as torn; `WAL` has
  each length of such a piece.
- Keys of the empty string and calls on a closed store: refused without a change of state.
- Records over 4 GiB, whose lengths overflow before they are widened (`wal.cpp:64`).
- GET, STATS and HELP of the command line, parsing and layout of the output, error texts.
- Tests and benchmarks. They call the store, and were read as documentation. Failing to create the
  database directory has no effect on the state.

## 6. What is left

All components of section 1 are modelled. A property is missing for the faults that are modelled and excluded from `SafeFaults` (section 2, Failures):
which writes are still there after each of them. It needs a history of the writes each fault puts at risk, and no
document of the repository says what to expect.
