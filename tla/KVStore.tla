------------------------------ MODULE KVStore -------------------------------
(***************************************************************************)
(* The coordinator of the store (KVStoreImpl, src/src/kv_store.cpp) over   *)
(* its MemTable, its write-ahead log, its SSTable files, the manifest and  *)
(* the compaction it calls (src/src/compaction.cpp).  The store is single  *)
(* threaded: a call runs to its end, and one action is one effect of the   *)
(* running call on the disk (create, write, rename, truncate, remove), so  *)
(* that the process may die between any two of them.  pc says what the     *)
(* running call does next; "idle" and "closed" are the states between      *)
(* calls.  Opening a table, a log or a directory only reads.               *)
(***************************************************************************)
EXTENDS MemTable, SequencesExt

CONSTANTS
  CompactionThreshold, \* Options::compaction_threshold
  NoWrite,             \* no put or remove is running
  Torn,                \* a record cut short at the end of the log by a crash
  CrashWhileExposed,   \* may the process die while Exposed (below)?
  TornWrites,          \* may a crash or an error leave part of a log record?
  FaultPoints,         \* the calls to the file system that may fail
  MaxSeq,              \* bound: SSTable numbers 1..MaxSeq
  MaxWrites,           \* bound: writes that take effect
  MaxCrashes,          \* bound: crashes
  MaxFaults            \* bound: failing calls to the file system

\* Every place where a call to the file system may fail.  SafeFaults are those
\* the code recovers from without losing anything it promised.
SafeFaults ==
  {"createTable", "fillTable", "manifest", "truncate", "merge", "place", "remove", "append",
   "loadTable", "openLog"}
AllFaults == SafeFaults \cup
  {"reopen", "openOutput", "register", "walFlush", "shortManifest", "readManifest", "readLog"}

Write == [key : Keys, entry : Entry]

ASSUME StoreAssumption ==
  /\ CompactionThreshold \in Nat
  /\ NoWrite \notin Write
  /\ Torn \notin Write
  /\ CrashWhileExposed \in BOOLEAN
  /\ TornWrites \in BOOLEAN
  /\ FaultPoints \subseteq AllFaults
  /\ MaxSeq \in Nat /\ MaxWrites \in Nat /\ MaxCrashes \in Nat /\ MaxFaults \in Nat

VARIABLES
  pc,        \* the next step of the running call
  op,        \* the put or remove that is running, or NoWrite
  result,    \* the Status of the last call to return
  sstables,  \* sstables_: numbers of the open tables, oldest first
  nextSeq,   \* next_sst_seq_
  walOk,     \* wal_ is open and its stream is good
  unflushed, \* the record wal_'s bad stream still holds, or NoWrite
  inputs,    \* input_paths of the running compaction
  merged,    \* merged of the running compaction
  out,       \* number of the table being written, 0 when none is
  cursor,    \* index of the running loop over manifest, log or inputs
  files,     \* on disk: the SSTable files by number
  manifest,  \* on disk: manifest.txt
  wal,       \* on disk: wal.log
  committed, \* history: the map made of every write that was promised
  writes,    \* history: how many writes took effect
  crashes,   \* history: how many crashes happened
  faults     \* history: how many file system calls failed

call  == <<pc, op, result>>
work  == <<inputs, merged, out, cursor>>
log   == <<walOk, unflushed>>
disk  == <<files, manifest, wal>>
env   == <<crashes, faults>>
vars  == <<call, memVars, sstables, nextSeq, log, work, disk, committed, writes, env>>

Seqs == 1 .. MaxSeq

MissingFile  == [state |-> "missing", data |-> NoEntries]
PartialFile  == [state |-> "partial", data |-> NoEntries]
TableFile(d) == [state |-> "complete", data |-> d]

Steps ==
  {"closed", "loading", "replay", "idle", "createTable", "fillTable", "manifest", "reset",
   "compact", "merge", "remove", "append", "apply"}

TypeOK ==
  /\ MemTypeOK
  /\ pc \in Steps
  /\ op \in Write \cup {NoWrite}
  /\ result \in {"ok", "error"}
  /\ sstables \in Seq(Seqs)
  /\ nextSeq \in 1 .. (MaxSeq + 1)
  /\ walOk \in BOOLEAN
  /\ unflushed \in Write \cup {NoWrite}
  /\ inputs \in Seq(Seqs)
  /\ merged \in [Keys -> Slot]
  /\ out \in 0 .. MaxSeq
  /\ cursor \in Nat \ {0}
  /\ files \in [Seqs -> [state : {"missing", "partial", "complete"}, data : [Keys -> Slot]]]
  /\ manifest \in Seq(Seqs)
  /\ wal \in Seq(Write \cup {Torn})
  /\ committed \in [Keys -> Values \cup {Absent}]
  /\ writes \in 0 .. MaxWrites
  /\ crashes \in 0 .. MaxCrashes
  /\ faults \in 0 .. MaxFaults

-----------------------------------------------------------------------------
(* Lookups.                                                                *)

\* The result of a get: a tombstone, like no entry at all, is NotFound.
Reply(e) == IF e \in Values THEN e ELSE Absent

\* Mutant: the tables are searched from the oldest to the newest.
OldestFirst(S) == Min(S)

\* The tables are searched from the newest to the oldest.
NewestFirst(S) == Max(S)

\* The open tables, by position, that hold an entry for key k.
Holders(fs, ts, k) == {i \in DOMAIN ts : fs[ts[i]].data[k] # Absent}

SearchTables(fs, ts, k) ==
  IF Holders(fs, ts, k) = {} THEN Absent ELSE fs[ts[NewestFirst(Holders(fs, ts, k))]].data[k]

\* What the entry e in memory, over the tables ts, shows of key k: the first entry
\* found decides.
Visible(e, ts, k) == Reply(IF e # Absent THEN e ELSE SearchTables(files, ts, k))

\* KVStoreImpl::get: the MemTable, then the tables.
get(k) == Visible(table[k], sstables, k)

\* Mutant: the entries already merged win over those of the newer table.
OverlayOldest(new, old) == [k \in Keys |-> IF old[k] # Absent THEN old[k] ELSE new[k]]

\* merged[rec.key] = rec for every record of the newer table.
Overlay(new, old) == [k \in Keys |-> IF new[k] # Absent THEN new[k] ELSE old[k]]

\* What compaction keeps of the merged entries: no tombstone.
Survivors(m) == [k \in Keys |-> Reply(m[k])]

-----------------------------------------------------------------------------
(* What a restart brings back, as a function of the disk alone.            *)

\* The records replay reaches: those before the first torn one.
Valid(w) == {i \in DOMAIN w : \A j \in 1 .. i : w[j] # Torn}

Touching(w, k) == {i \in Valid(w) : w[i].key = k}

\* The entry the log leaves in the MemTable for key k.
Replayed(w, k) == IF Touching(w, k) = {} THEN Absent ELSE w[Max(Touching(w, k))].entry

\* What open would show, were ts the manifest.
RecoveredFrom(ts) == [k \in Keys |-> Visible(Replayed(wal, k), ts, k)]

\* compaction.cpp removes its inputs before kv_store.cpp registers their merge:
\* from the first removal to the manifest's renaming, the manifest on disk lists
\* tables that are gone.
Exposed == pc = "remove" /\ cursor > 1

-----------------------------------------------------------------------------
(* How a call ends, and what its steps share.                              *)

\* The locals of flushInternal, compactInternal and open go out of scope.
EndWork ==
  /\ inputs' = <<>>
  /\ merged' = NoEntries
  /\ out' = 0
  /\ cursor' = 1

ReturnOK ==
  /\ pc' = "idle"
  /\ op' = NoWrite
  /\ result' = "ok"

ReturnError ==
  /\ pc' = "idle"
  /\ op' = NoWrite
  /\ result' = "error"

Fault(point) ==
  /\ point \in FaultPoints
  /\ faults < MaxFaults
  /\ faults' = faults + 1
  /\ UNCHANGED crashes

\* Part of a record goes out.
CutShort == IF TornWrites THEN {Append(wal, Torn)} ELSE {}

\* WAL::close: what the stream still holds is tried once more, and no one looks
\* whether it went out.
CloseWal ==
  /\ walOk' = FALSE
  /\ unflushed' = NoWrite
  /\ wal' \in {wal} \cup (IF unflushed = NoWrite THEN {} ELSE {Append(wal, unflushed)} \cup CutShort)

Goto(step) ==
  /\ pc' = step
  /\ UNCHANGED <<op, result>>

\* A flush inside a put or remove goes on to the log; one of its own returns.
ResumeCall == IF op = NoWrite THEN ReturnOK ELSE Goto("append")

\* Mutant: the loop never moves on.
AdvanceForgotten == cursor

Advance == cursor + 1

\* Mutant: compaction waits for one table more.
CompactionDueLate(n) == n > CompactionThreshold /\ n >= 2

\* The threshold of flushInternal and the early return of compactInternal.
CompactionDue(n) == n >= CompactionThreshold /\ n >= 2

\* Bound: a flush and the compaction it may start take a number each.
RoomForFlush == nextSeq < MaxSeq

-----------------------------------------------------------------------------
(* Calls.                                                                  *)

FlushFirst == IsFull /\ ~IsEmpty

\* put and remove: write the MemTable out first if it is full.
CallWrite(k, e) ==
  /\ pc = "idle"
  /\ writes < MaxWrites
  /\ FlushFirst => RoomForFlush
  /\ op' = [key |-> k, entry |-> e]
  /\ pc' = IF FlushFirst THEN "createTable" ELSE "append"
  /\ UNCHANGED <<result, memVars, sstables, nextSeq, log, work, disk, committed, writes, env>>

put(k, v) == CallWrite(k, v)

remove(k) == CallWrite(k, Tombstone)

\* flush on an empty MemTable returns at once and is no step.
flush ==
  /\ pc = "idle"
  /\ ~IsEmpty
  /\ RoomForFlush
  /\ Goto("createTable")
  /\ UNCHANGED <<memVars, sstables, nextSeq, log, work, disk, committed, writes, env>>

\* compact with fewer than two tables returns at once and is no step.
compact ==
  /\ pc = "idle"
  /\ Len(sstables) >= 2
  /\ nextSeq <= MaxSeq
  /\ Goto("compact")
  /\ UNCHANGED <<memVars, sstables, nextSeq, log, work, disk, committed, writes, env>>

-----------------------------------------------------------------------------
(* flushInternal.                                                          *)

\* generateSSTableFilename, then the new file is created (and truncated).
CreateTable ==
  /\ pc = "createTable"
  /\ nextSeq' = nextSeq + 1
  /\ out' = nextSeq
  /\ files' = [files EXCEPT ![nextSeq] = PartialFile]
  /\ Goto("fillTable")
  /\ UNCHANGED <<memVars, sstables, log, inputs, merged, cursor, manifest, wal, committed,
                 writes, env>>

\* The number is used up even when the file cannot be created.
CreateTableFails ==
  /\ pc = "createTable"
  /\ Fault("createTable")
  /\ nextSeq' = nextSeq + 1
  /\ ReturnError
  /\ UNCHANGED <<memVars, sstables, log, work, disk, committed, writes>>

\* Mutant: the manifest is not updated after a flush.
StepAfterFillUnregistered == "reset"

StepAfterFill == "manifest"

\* The records, the index, the filter and the footer are written and the new
\* reader is opened and becomes the newest table.
FillTable ==
  /\ pc = "fillTable"
  /\ files' = [files EXCEPT ![out] = TableFile(table)]
  /\ sstables' = Append(sstables, out)
  /\ out' = 0
  /\ Goto(StepAfterFill)
  /\ UNCHANGED <<memVars, nextSeq, log, inputs, merged, cursor, manifest, wal, committed,
                 writes, env>>

\* Writing is not checked: a short file shows when the reader opens it and finds
\* no footer; a whole one may still fail to open.
FillTableFails ==
  /\ pc = "fillTable"
  /\ Fault("fillTable")
  /\ files' \in {files, [files EXCEPT ![out] = TableFile(table)]}
  /\ EndWork
  /\ ReturnError
  /\ UNCHANGED <<memVars, sstables, nextSeq, log, manifest, wal, committed, writes>>

\* updateManifest: the temporary file is renamed over manifest.txt.
InstallManifest ==
  /\ pc = "manifest"
  /\ manifest' = sstables
  /\ Goto("reset")
  /\ UNCHANGED <<memVars, sstables, nextSeq, log, work, files, wal, committed, writes, env>>

\* Mutant: the failure of updateManifest is not looked at.
OnManifestErrorIgnored == Goto("reset")

OnManifestError == ReturnError

InstallManifestFails ==
  /\ pc = "manifest"
  /\ Fault("manifest")
  /\ OnManifestError
  /\ UNCHANGED <<memVars, sstables, nextSeq, log, work, disk, committed, writes>>

\* Writing the temporary file is not checked: a short one is renamed all the same,
\* and passes over the tables whose names did not fit.
InstallManifestShort ==
  /\ pc = "manifest"
  /\ Fault("shortManifest")
  /\ \E n \in 0 .. Len(sstables) - 1 : manifest' = SubSeq(sstables, 1, n)
  /\ Goto("reset")
  /\ UNCHANGED <<memVars, sstables, nextSeq, log, work, files, wal, committed, writes>>

\* memtable_.clear() and wal_.clear(): the log is reopened truncated.
ResetWal ==
  /\ pc = "reset"
  /\ MemClear
  /\ wal' = <<>>
  /\ walOk' = TRUE
  /\ unflushed' = NoWrite
  /\ IF CompactionDue(Len(sstables)) THEN Goto("compact") ELSE ResumeCall
  /\ UNCHANGED <<sstables, nextSeq, work, files, manifest, committed, writes, env>>

\* The MemTable is empty already; the log is closed and keeps its records.
ResetWalFails ==
  /\ pc = "reset"
  /\ Fault("truncate")
  /\ MemClear
  /\ CloseWal
  /\ ReturnError
  /\ UNCHANGED <<sstables, nextSeq, work, files, manifest, committed, writes>>

-----------------------------------------------------------------------------
(* compactInternal and Compaction::compact.                                *)

BeginCompaction ==
  /\ pc = "compact"
  /\ inputs' = sstables
  /\ sstables' = <<>>
  /\ out' = nextSeq
  /\ nextSeq' = nextSeq + 1
  /\ merged' = NoEntries
  /\ cursor' = 1
  /\ Goto("merge")
  /\ UNCHANGED <<memVars, log, disk, committed, writes, env>>

\* One turn of the loop over the inputs, oldest first.
MergeTable ==
  /\ pc = "merge"
  /\ cursor <= Len(inputs)
  /\ merged' = Overlay(files[inputs[cursor]].data, merged)
  /\ cursor' = Advance
  /\ UNCHANGED <<call, memVars, sstables, nextSeq, log, inputs, out, disk, committed, writes,
                 env>>

\* The survivors are written to a temporary file, which is read back and
\* renamed.  Nothing but the renaming can be seen after a crash.
PlaceOutput ==
  /\ pc = "merge"
  /\ cursor > Len(inputs)
  /\ files' = [files EXCEPT ![out] = TableFile(Survivors(merged))]
  /\ cursor' = 1
  /\ Goto("remove")
  /\ UNCHANGED <<memVars, sstables, nextSeq, log, inputs, merged, out, manifest, wal,
                 committed, writes, env>>

\* Mutant: a failed compaction does not open its inputs again.
ReopenedForgotten == {<<>>}

\* After a failed compaction every input is opened again; one that does not open
\* is left out, and no error says so.
Reopened ==
  {inputs} \cup
  (IF "reopen" \in FaultPoints THEN {RemoveAt(inputs, i) : i \in DOMAIN inputs} ELSE {})

\* An input that cannot be read, or an output that cannot be written or renamed.
CompactionFails ==
  /\ pc = "merge"
  /\ Fault(IF cursor <= Len(inputs) THEN "merge" ELSE "place")
  /\ sstables' \in Reopened
  /\ EndWork
  /\ ReturnError
  /\ UNCHANGED <<memVars, nextSeq, log, disk, committed, writes>>

\* Mutant: nothing is removed.
RemovedNothing == files

Removed == [files EXCEPT ![inputs[cursor]] = MissingFile]

\* remove_old: one input after the other, oldest first.
RemoveInput ==
  /\ pc = "remove"
  /\ cursor <= Len(inputs)
  /\ files' = Removed
  /\ cursor' = Advance
  /\ UNCHANGED <<call, memVars, sstables, nextSeq, log, inputs, merged, out, manifest, wal,
                 committed, writes, env>>

\* The error of fs::remove is dropped: the file stays and the loop goes on.
RemoveInputFails ==
  /\ pc = "remove"
  /\ cursor <= Len(inputs)
  /\ Fault("remove")
  /\ cursor' = Advance
  /\ UNCHANGED <<call, memVars, sstables, nextSeq, log, inputs, merged, out, disk, committed,
                 writes>>

\* The merged table is opened and the manifest comes to name it alone.
RegisterOutput ==
  /\ pc = "remove"
  /\ cursor > Len(inputs)
  /\ sstables' = <<out>>
  /\ manifest' = <<out>>
  /\ EndWork
  /\ ResumeCall
  /\ UNCHANGED <<memVars, nextSeq, log, files, wal, committed, writes, env>>

\* Here too a manifest that was written short is not noticed.
RegisterOutputShort ==
  /\ pc = "remove"
  /\ cursor > Len(inputs)
  /\ Fault("shortManifest")
  /\ sstables' = <<out>>
  /\ manifest' = <<>>
  /\ EndWork
  /\ ResumeCall
  /\ UNCHANGED <<memVars, nextSeq, log, files, wal, committed, writes>>

\* The merged table does not open, or the manifest cannot be replaced.  The
\* inputs are gone in either case.
RegisterOutputFails ==
  /\ pc = "remove"
  /\ cursor > Len(inputs)
  /\ \/ Fault("openOutput") /\ sstables' = <<>>
     \/ Fault("register") /\ sstables' = <<out>>
  /\ EndWork
  /\ ReturnError
  /\ UNCHANGED <<memVars, nextSeq, log, disk, committed, writes>>

-----------------------------------------------------------------------------
(* put and remove, after the flush.                                        *)

Promise ==
  /\ committed' = [committed EXCEPT ![op.key] = Reply(op.entry)]
  /\ writes' = writes + 1

\* Mutant: the state of the stream is not looked at before the record is written.
AppendWalUnchecked ==
  /\ pc = "append"
  /\ wal' = Append(wal, op)
  /\ Promise
  /\ Goto("apply")
  /\ UNCHANGED <<memVars, sstables, nextSeq, log, work, files, manifest, env>>

\* WAL::appendRecord writes the record and flushes the stream.
AppendWal ==
  /\ pc = "append"
  /\ walOk
  /\ wal' = Append(wal, op)
  /\ Promise
  /\ Goto("apply")
  /\ UNCHANGED <<memVars, sstables, nextSeq, log, work, files, manifest, env>>

\* The log is closed, or an earlier error left its stream bad.
AppendRefused ==
  /\ pc = "append"
  /\ ~walOk
  /\ ReturnError
  /\ UNCHANGED <<memVars, sstables, nextSeq, log, work, disk, committed, writes, env>>

\* The write fails and is seen to fail: the stream stays bad, and part of the
\* record may be in the file.
AppendFails ==
  /\ pc = "append"
  /\ walOk
  /\ Fault("append")
  /\ walOk' = FALSE
  /\ wal' \in {wal} \cup CutShort
  /\ ReturnError
  /\ UNCHANGED <<unflushed, memVars, sstables, nextSeq, work, files, manifest, committed, writes>>

\* The stream's check comes before its flush: a flush that fails is not seen and
\* the call goes on to return OK.  The stream keeps the record, also when part of it
\* went out.
AppendLost ==
  /\ pc = "append"
  /\ walOk
  /\ Fault("walFlush")
  /\ walOk' = FALSE
  /\ unflushed' = op
  /\ wal' \in {wal} \cup CutShort
  /\ Promise
  /\ Goto("apply")
  /\ UNCHANGED <<memVars, sstables, nextSeq, work, files, manifest>>

ApplyWrite ==
  /\ pc = "apply"
  /\ MemStore(op.key, op.entry)
  /\ ReturnOK
  /\ UNCHANGED <<sstables, nextSeq, log, work, disk, committed, writes, env>>

-----------------------------------------------------------------------------
(* open, close, and the death of the process.                              *)

close ==
  /\ pc = "idle"
  /\ MemClear
  /\ sstables' = <<>>
  /\ CloseWal
  /\ Goto("closed")
  /\ UNCHANGED <<nextSeq, work, files, manifest, committed, writes, env>>

\* The memory of the process is gone; a record being written may be cut short.
Crash ==
  /\ pc # "closed"
  /\ crashes < MaxCrashes
  /\ Exposed => CrashWhileExposed
  /\ crashes' = crashes + 1
  /\ pc' = "closed"
  /\ op' = NoWrite
  /\ result' = "ok"
  /\ MemClear
  /\ sstables' = <<>>
  /\ nextSeq' = 1
  /\ walOk' = FALSE
  /\ unflushed' = NoWrite
  /\ EndWork
  /\ wal' \in {wal} \cup (IF pc = "append" /\ walOk THEN CutShort ELSE {})
  /\ UNCHANGED <<files, manifest, committed, writes, faults>>

\* Mutant: numbering starts over from the largest number, not after it.
FirstSeqOffByOne == 0

\* max_seq + 1, with no table loaded yet.
FirstSeq == 1

\* open on an open store closes it first.
open ==
  /\ pc \in {"closed", "idle"}
  /\ IF pc = "idle" THEN MemClear ELSE UNCHANGED memVars
  /\ sstables' = <<>>
  /\ nextSeq' = FirstSeq
  /\ CloseWal
  /\ EndWork
  /\ Goto("loading")
  /\ UNCHANGED <<files, manifest, committed, writes, env>>

\* Mutant: the numbers of the loaded tables are not looked at.
SeqAfterUnread(s) == nextSeq

SeqAfter(s) == IF s >= nextSeq THEN s + 1 ELSE nextSeq

\* One line of the manifest: a file that does not exist is passed over.
LoadTable ==
  /\ pc = "loading"
  /\ cursor <= Len(manifest)
  /\ files[manifest[cursor]].state # "partial"
  /\ IF files[manifest[cursor]].state = "complete"
       THEN /\ sstables' = Append(sstables, manifest[cursor])
            /\ nextSeq' = SeqAfter(manifest[cursor])
       ELSE UNCHANGED <<sstables, nextSeq>>
  /\ cursor' = Advance
  /\ UNCHANGED <<call, memVars, log, inputs, merged, out, disk, committed, writes, env>>

\* open gives up: the store stays closed.
OpenGivesUp ==
  /\ EndWork
  /\ pc' = "closed"
  /\ result' = "error"
  /\ UNCHANGED <<op, memVars, sstables, nextSeq, log, disk, committed, writes>>

\* A file that is not a whole table, or that does not open, makes open fail.
LoadTableFails ==
  /\ pc = "loading"
  /\ cursor <= Len(manifest)
  /\ \/ files[manifest[cursor]].state = "partial" /\ UNCHANGED env
     \/ files[manifest[cursor]].state = "complete" /\ Fault("loadTable")
  /\ OpenGivesUp

\* A manifest that exists and cannot be read passes for an empty one.
ManifestUnread ==
  /\ pc = "loading"
  /\ cursor = 1
  /\ manifest # <<>>
  /\ Fault("readManifest")
  /\ MemClear
  /\ Goto("replay")
  /\ UNCHANGED <<sstables, nextSeq, log, work, disk, committed, writes>>

StartReplay ==
  /\ pc = "loading"
  /\ cursor > Len(manifest)
  /\ MemClear
  /\ cursor' = 1
  /\ Goto("replay")
  /\ UNCHANGED <<sstables, nextSeq, log, inputs, merged, out, disk, committed, writes, env>>

\* Mutant: only puts are applied again.
ReapplyPuts(r) == IF r.entry = Tombstone THEN UNCHANGED memVars ELSE MemStore(r.key, r.entry)

Reapply(r) == MemStore(r.key, r.entry)

AtRecord == cursor <= Len(wal) /\ wal[cursor] # Torn

ReplayRecord ==
  /\ pc = "replay"
  /\ AtRecord
  /\ Reapply(wal[cursor])
  /\ cursor' = Advance
  /\ UNCHANGED <<call, sstables, nextSeq, log, inputs, merged, out, disk, committed, writes,
                 env>>

\* The log is opened for appending as it is.
OpenLog ==
  /\ walOk' = TRUE
  /\ EndWork
  /\ ReturnOK
  /\ UNCHANGED <<memVars, sstables, nextSeq, unflushed, disk, committed, writes>>

\* The end of the log, or a record cut short there.  When records follow it, its
\* lengths reach into them, and may reach past them to the end of the file.
FinishOpen ==
  /\ pc = "replay"
  /\ ~AtRecord
  /\ OpenLog
  /\ UNCHANGED env

\* A log that exists and cannot be read passes for an empty one.
LogUnread ==
  /\ pc = "replay"
  /\ cursor = 1
  /\ wal # <<>>
  /\ Fault("readLog")
  /\ OpenLog

\* Records follow a record cut short: what is read in its place has a wrong
\* checksum, and open fails.  So it does when the log cannot be opened.
ReplayFails ==
  /\ pc = "replay"
  /\ \/ cursor < Len(wal) /\ wal[cursor] = Torn /\ UNCHANGED env
     \/ ~AtRecord /\ Fault("openLog")
  /\ OpenGivesUp

-----------------------------------------------------------------------------
Init ==
  /\ MemInit
  /\ pc = "closed"
  /\ op = NoWrite
  /\ result = "ok"
  /\ sstables = <<>>
  /\ nextSeq = 1
  /\ walOk = FALSE
  /\ unflushed = NoWrite
  /\ inputs = <<>>
  /\ merged = NoEntries
  /\ out = 0
  /\ cursor = 1
  /\ files = [s \in Seqs |-> MissingFile]
  /\ manifest = <<>>
  /\ wal = <<>>
  /\ committed = NoEntries
  /\ writes = 0
  /\ crashes = 0
  /\ faults = 0

\* The steps of flushInternal and compactInternal.
FlushStep ==
  \/ CreateTable \/ CreateTableFails
  \/ FillTable \/ FillTableFails
  \/ InstallManifest \/ InstallManifestFails \/ InstallManifestShort
  \/ ResetWal \/ ResetWalFails

CompactStep ==
  \/ BeginCompaction \/ MergeTable \/ PlaceOutput \/ CompactionFails
  \/ RemoveInput \/ RemoveInputFails
  \/ RegisterOutput \/ RegisterOutputShort \/ RegisterOutputFails

WriteStep == AppendWal \/ AppendRefused \/ AppendFails \/ AppendLost \/ ApplyWrite

OpenStep ==
  \/ LoadTable \/ LoadTableFails \/ ManifestUnread
  \/ StartReplay \/ ReplayRecord \/ FinishOpen \/ LogUnread \/ ReplayFails

\* The running call goes on.
Step == FlushStep \/ CompactStep \/ WriteStep \/ OpenStep

Next ==
  \/ \E k \in Keys, v \in Values : put(k, v)
  \/ \E k \in Keys : remove(k)
  \/ flush
  \/ compact
  \/ open
  \/ close
  \/ Crash
  \/ Step

Spec == Init /\ [][Next]_vars

\* A call that has begun runs: nothing in the store waits for anything.
FairSpec == Spec /\ WF_vars(Step)

-----------------------------------------------------------------------------
(* Properties.                                                             *)

\* Crash consistency.  At every instant at which a crash is survivable, what a
\* restart would read from manifest, tables and log is exactly the map of the
\* writes promised so far: in the middle of a flush or a merge, between the
\* manifest and the truncated log, after any earlier crash (kv_store.cpp:254-342).
CrashSafe == ~Exposed => RecoveredFrom(manifest) = committed

\* Between two calls a get answers with the last write of its key: newer tables
\* shadow older ones, tombstones hide what lies below, and compaction, which drops
\* them, uncovers nothing (kv_store.cpp:144-171, compaction.cpp:21-49).
ReadsLatest == pc = "idle" => \A k \in Keys : get(k) = committed[k]

\* The open tables are in the order they were written in, by number, and the next
\* number is larger than all of them: no restart, failed flush or leftover of a
\* crash makes the store reuse the number of a table it reads (kv_store.cpp:61-84).
TablesChronological ==
  pc # "closed" =>
    /\ \A i, j \in DOMAIN sstables : i < j => sstables[i] < sstables[j]
    /\ \A i \in DOMAIN sstables : sstables[i] < nextSeq

\* Whatever fails, no step touches the file of an open table: no number is given twice
\* while a reader has the first file of that number open, and an input of a merge is
\* deleted only when its reader is gone.  And each such file is a whole table
\* (kv_store.cpp:84, 258, 311, 325).
OpenTablesKept ==
  [][\A i \in DOMAIN sstables :
       /\ files[sstables[i]].state = "complete"
       /\ files'[sstables[i]] = files[sstables[i]]]_vars

\* A log that is closed under an empty MemTable stays closed until the store is opened
\* again, however often the caller flushes: no write is promised and none is stored.
\* That is where a failed truncation leaves the store (kv_store.cpp:255, 284-287).
RefusesUntilReopened ==
  [][~walOk /\ IsEmpty /\ pc # "apply" =>
       /\ committed' = committed
       /\ walOk' \/ ~IsEmpty' => pc = "replay"]_vars

\* Every table the manifest names is whole, so that open never refuses the
\* database for a table it registered itself (kv_store.cpp:66-72).
RegisteredTablesComplete ==
  ~Exposed => \A i \in DOMAIN manifest : files[manifest[i]].state = "complete"

\* No input of a compaction is gone while the manifest still lists it: the merged
\* table is registered before the tables it replaces are deleted
\* (compaction.cpp:81-87 runs before kv_store.cpp:342).
InputsOutliveRegistration == \A i \in DOMAIN manifest : files[manifest[i]].state # "missing"

\* No crash leaves a log that open refuses: a record cut short ends the replay and
\* the records before it are recovered (wal.cpp:124-227, kv_store.cpp:106).
OpenRecovers == ~(pc = "closed" /\ result = "error")

\* Compaction keeps the number of tables a lookup searches below the threshold;
\* only a crash (or a fault) between a flush and its compaction adds one
\* (kv_store.cpp:289-295).
TableCountBounded ==
  pc = "idle" =>
    LET limit == IF CompactionThreshold > 2 THEN CompactionThreshold ELSE 2
    IN  Len(sstables) < limit + crashes + faults

\* The MemTable never outgrows its threshold by more than the one entry that
\* filled it, through replays, refused writes and failed flushes; a threshold below
\* any entry leaves room for one (kv_store.cpp:130).
MemTableBounded ==
  \/ table = NoEntries
  \/ \E k \in Keys, e \in Entry :
       \/ approximate_size < size_threshold + EntrySize(k, e)
       \/ approximate_size <= EntrySize(k, e)

\* A file on disk that neither the manifest nor the store knows was left there by
\* a crash or a failing call, and each leaves at most one (compaction.cpp:81-87).
OrphansBounded ==
  pc = "idle" =>
    Cardinality({s \in Seqs : /\ files[s] # MissingFile
                              /\ s \notin ToSet(manifest) \cup ToSet(sstables)})
      <= crashes + faults

\* Every call returns, unless the process dies first.
CallsReturn == (pc \notin {"idle", "closed"}) ~> (pc \in {"idle", "closed"})

\* The store takes of its log what RecordLog promises and no more: it opens it only where
\* a replay of all it hands out may end, and appends to no log that failed, in every
\* environment (kv_store.cpp:89-106, 137, 180, 284).
Log ==
  INSTANCE RecordLog WITH
    Records    <- Write,
    NoRecord   <- NoWrite,
    Unreadable <- ("readLog" \in FaultPoints),
    records    <- wal,
    ready      <- walOk,
    held       <- unflushed,
    replay     <- [running |-> pc = "replay",
                   given   |-> IF pc = "replay" THEN SubSeq(wal, 1, cursor - 1) ELSE <<>>,
                   status  |-> "none"],
    damaged    <- FALSE

ImplementsLog == Log!Spec

\* The store implements DurableMap: the durable map is what a restart would read
\* (while Exposed, from the merged table instead of its inputs), and it changes at
\* the append to the log alone.  Nothing is lost while every table can be read;
\* DamagedStore has tables that cannot.
CONSTANT NotReady

Durable ==
  INSTANCE DurableMap WITH
    kv      <- RecoveredFrom(IF Exposed THEN <<out>> ELSE manifest),
    lost    <- {},
    pending <- op,
    applied <- (pc = "apply"),
    answers <- IF pc = "idle" THEN [k \in Keys |-> get(k)] ELSE NotReady,
    status  <- result

Implements == Durable!Spec
=============================================================================
