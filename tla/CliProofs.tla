----------------------------- MODULE CliProofs ------------------------------
(***************************************************************************)
(* What the command line reports, and what damage takes.  The commands run *)
(* the store of KVStore, with two steps of its own: a merge that meets a   *)
(* table it cannot read, and a call that finds nothing to do.  Both keep   *)
(* the invariants of the store, so they hold here too.  CliInv says what   *)
(* FLUSH and COMPACT may conclude from the manifest alone; of every key    *)
(* that damage leaves readable, the store is a DurableMap.                 *)
(***************************************************************************)
EXTENDS Cli, KVStoreTablesProofs, KVStoreRefinementProofs

USE SlotAssumption, SizeAssumption, StoreAssumption DEF Steps

-----------------------------------------------------------------------------
(* The store below the commands.                                           *)

\* What a step of the command line is to the store.
StoreMove == [Next]_vars \/ MergeUnreadable \/ ReturnsAtOnce

LEMMA CliStepMoves == [CliNext]_cliVars => StoreMove
<1> SUFFICES ASSUME [CliNext]_cliVars PROVE StoreMove
  OBVIOUS
<1> USE DEF StoreMove
<1>1. CASE Start
  BY <1>1 DEF Start, Next
<1>2. ASSUME NEW k \in Keys, NEW v \in Values, PUT(k, v) PROVE StoreMove
  BY <1>2 DEF PUT, Next
<1>3. ASSUME NEW k \in Keys, DELETE(k) PROVE StoreMove
  BY <1>3 DEF DELETE, Next
<1>4. CASE FLUSH
  BY <1>4 DEF FLUSH, Next
<1>5. CASE COMPACT
  BY <1>5 DEF COMPACT, Next
<1>6. CASE CompactSkipped \/ Started \/ Reports
  BY <1>6 DEF CompactSkipped, Started, Reports, storeVars
<1>7. CASE EXIT
  BY <1>7 DEF EXIT, Next
<1>8. CASE Runs
  BY <1>8 DEF Runs, StoreStep, Next
<1>9. CASE Dies
  BY <1>9 DEF Dies, Next
<1>10. CASE Decays
  BY <1>10 DEF Decays, Damage
<1>11. CASE UNCHANGED cliVars
  BY <1>11 DEF cliVars, storeVars
<1> QED
  BY <1>1, <1>2, <1>3, <1>4, <1>5, <1>6, <1>7, <1>8, <1>9, <1>10, <1>11 DEF CliNext, GoesOn

\* Types and locals of the store, in every environment.
LEMMA MoveType == TypeInv /\ StoreMove => TypeInv'
<1> SUFFICES ASSUME TypeInv, StoreMove PROVE TypeInv'
  OBVIOUS
<1>1. CASE MergeUnreadable
  <2> USE DEF TypeInv, TypeOK, Locals, MemTypeOK
  <2>1. /\ pc = "merge" /\ sstables' \in Reopened /\ EndWork /\ ReturnError
        /\ UNCHANGED <<memVars, nextSeq, log, disk, committed, writes, env>>
    BY <1>1 DEF MergeUnreadable, InputDamaged, OnUnreadable
  <2>2. sstables' \in Seq(Seqs)
    BY <2>1, RemoveAtType DEF Reopened
  <2> QED
    BY <2>1, <2>2 DEF EndWork, ReturnError, memVars, log, disk, env, NoEntries, Slot
<1>2. CASE ReturnsAtOnce
  BY <1>2 DEF ReturnsAtOnce, TypeInv, TypeOK, Locals, MemTypeOK, memVars, log, work, disk, env
<1> QED
  BY <1>1, <1>2, TypeStep DEF StoreMove

\* A merge that meets a table it cannot read opens its inputs again.
LEMMA UnreadableShape ==
  ASSUME SafeEnv, MergeUnreadable
  PROVE  /\ pc = "merge" /\ pc' = "idle" /\ op' = NoWrite /\ sstables' = inputs
         /\ inputs' = <<>> /\ out' = 0 /\ result' = "error"
         /\ UNCHANGED <<table, nextSeq, unflushed, files, manifest, wal, committed>>
  BY DEF MergeUnreadable, InputDamaged, OnUnreadable, Reopened, ReturnError, EndWork, memVars,
         log, disk, SafeEnv, SafeFaults

\* The safety invariant, and the manifest behind the tables, in a safe environment.
LEMMA MoveSafe ==
  ASSUME SafeEnv, TypeInv, Inv, ManifestBehind, StoreMove
  PROVE  Inv' /\ ManifestBehind'
<1>1. CASE MergeUnreadable
  <2>1. Inv'
    BY <1>1, UnreadableShape, InputsReopened
  <2>2. ManifestBehind'
    BY <1>1, UnreadableShape DEF ManifestBehind, KnownTables, Running
  <2> QED
    BY <2>1, <2>2
<1>2. CASE ReturnsAtOnce
  <2>1. UNCHANGED <<pc, op, memVars, sstables, nextSeq, log, work, disk, committed, writes, env>>
    BY <1>2 DEF ReturnsAtOnce
  <2>2. Inv'
    BY <2>1 DEF memVars, log, work, disk, env, Inv, LogWhole, NumbersFresh, Below,
           TablesWhole, RegisteredTablesComplete, Exposed, Whole, LiveTables, Loops,
           MemTableLogged, Running, LiveTable, MemoryCurrent, Visible, Reply, FlushCurrent,
           MergeCurrent, DiskCurrent
  <2>3. ManifestBehind'
    BY <2>1 DEF work, disk, ManifestBehind, KnownTables, Running
  <2> QED
    BY <2>2, <2>3
<1> QED
  BY <1>1, <1>2, SafeStep, BehindStep DEF StoreMove

\* What the reports rest on below the commands.
StoreSound == TypeInv /\ Inv /\ ManifestBehind

LEMMA CliTypes == CliSpec => []TypeInv
<1>1. CliInit => TypeInv
  BY InitType DEF CliInit, StoreInit
<1>2. TypeInv /\ [CliNext]_cliVars => TypeInv'
  BY MoveType, CliStepMoves
<1> QED
  BY <1>1, <1>2, PTL DEF CliSpec

LEMMA CliStore ==
  ASSUME SafeEnv
  PROVE  CliSpec => []StoreSound
<1>1. CliInit => StoreSound
  BY InitType, InitInv, InitOrphan DEF CliInit, StoreInit, StoreSound, OrphanInv
<1>2. StoreSound /\ [CliNext]_cliVars => StoreSound'
  BY MoveType, MoveSafe, CliStepMoves DEF StoreSound
<1> QED
  BY <1>1, <1>2, PTL DEF CliSpec

-----------------------------------------------------------------------------
(* Types.                                                                  *)

\* What a command asked of the manifest before its call.
LEMMA AsksType ==
  ASSUME TypeInv, CliTypeOK, [CliNext]_cliVars
  PROVE  asked' \in [before : Seq(Seqs), entries : [Keys -> Slot]]
<1>1. NoQuestion \in [before : Seq(Seqs), entries : [Keys -> Slot]]
  BY DEF NoQuestion, NoEntries, Slot
<1>2. ASSUME NEW e \in [Keys -> Slot], Asks(e)
      PROVE  asked' \in [before : Seq(Seqs), entries : [Keys -> Slot]]
  BY <1>2 DEF Asks, getActiveSSTables, TypeInv, TypeOK
<1>3. table \in [Keys -> Slot] /\ NoEntries \in [Keys -> Slot]
  BY DEF TypeInv, TypeOK, MemTypeOK, NoEntries, Slot
<1>4. CASE FLUSH
  BY <1>2, <1>3, <1>4 DEF FLUSH
<1>5. CASE COMPACT
  BY <1>2, <1>3, <1>5 DEF COMPACT
<1>6. CASE UNCHANGED asked
  BY <1>6 DEF CliTypeOK
<1> QED
  BY <1>1, <1>4, <1>5, <1>6
     DEF CliNext, Start, PUT, DELETE, CompactSkipped, EXIT, GoesOn, Runs, Reports, Started,
         Dies, Decays, cliVars

\* What a command prints.
LEMMA ReportType ==
  ASSUME TypeInv, CliTypeOK, [CliNext]_cliVars
  PROVE  /\ report'.text \in {"nothing", "ok", "error", "skipped", "created", "was empty", "compacted"}
         /\ report'.tables \in Seq(Seqs)
<1>1. manifest \in Seq(Seqs) /\ asked.before \in Seq(Seqs)
  BY DEF TypeInv, TypeOK, CliTypeOK
<1>2. \A t : Said(t).text = t /\ Said(t).tables \in Seq(Seqs)
  BY DEF Said
<1>3. CASE Reports
  <2>1. report' = Answer
    BY <1>3 DEF Reports
  <2>2. Grew => <<Last(manifest)>> \in Seq(Seqs)
    BY <1>1 DEF Grew, getActiveSSTables, Last
  <2>3. /\ FlushReport.text \in {"created", "was empty"}
        /\ FlushReport.tables \in Seq(Seqs)
    BY <1>2, <2>2 DEF FlushReport, getActiveSSTables
  <2>4. manifest # <<>> => <<Head(manifest)>> \in Seq(Seqs)
    BY <1>1
  <2>5. CompactReport.text = "compacted" /\ CompactReport.tables \in Seq(Seqs)
    BY <2>4 DEF CompactReport, getActiveSSTables
  <2> QED
    BY <1>2, <2>1, <2>3, <2>5 DEF Answer
<1>4. CASE CompactSkipped
  BY <1>2, <1>4 DEF CompactSkipped
<1>5. CASE report' = Nothing
  BY <1>5 DEF Nothing
<1>6. CASE UNCHANGED report
  BY <1>6 DEF CliTypeOK
<1> QED
  BY <1>3, <1>4, <1>5, <1>6
     DEF CliNext, Start, PUT, DELETE, FLUSH, COMPACT, Read, EXIT, GoesOn, Runs, Started, Dies,
         Decays, cliVars

LEMMA CliTypeStep ==
  ASSUME TypeInv, CliTypeOK, [CliNext]_cliVars
  PROVE  CliTypeOK'
<1>1. TypeOK'
  BY MoveType, CliStepMoves DEF TypeInv
<1>2. command' \in Commands
  BY DEF CliTypeOK, Commands, CliNext, Start, PUT, DELETE, FLUSH, COMPACT, Read, CompactSkipped,
         EXIT, GoesOn, Runs, Reports, Started, Dies, Decays, cliVars
<1>3. unreadable' \subseteq Seqs \X Keys
  <2>1. CASE Damage
    BY <2>1 DEF Damage, CliTypeOK
  <2>2. CASE unreadable' = Kept
    BY <2>2 DEF Kept, CliTypeOK
  <2>3. CASE UNCHANGED unreadable
    BY <2>3 DEF CliTypeOK
  <2> QED
    BY <2>1, <2>2, <2>3
       DEF CliNext, Start, PUT, DELETE, FLUSH, COMPACT, Read, CompactSkipped, EXIT, GoesOn, Runs,
           StoreStep, Reports, Started, Dies, Decays, cliVars, storeVars
<1> QED
  BY <1>1, <1>2, <1>3, AsksType, ReportType DEF CliTypeOK

\* Whatever fails, dies or goes bad, every variable of the command line and of the store
\* below it keeps its type: no report names a table that is not one (cli.cpp:62-195).
THEOREM CliTypeCorrect == CliSpec => []CliTypeOK
<1>1. CliInit => CliTypeOK
  BY InitType DEF CliInit, StoreInit, CliTypeOK, TypeInv, Commands, NoQuestion, Nothing,
                  NoEntries, Slot
<1>2. TypeInv /\ CliTypeOK /\ [CliNext]_cliVars => CliTypeOK'
  BY CliTypeStep
<1> QED
  BY <1>1, <1>2, CliTypes, PTL DEF CliSpec

-----------------------------------------------------------------------------
(* What the store promises, with tables that go bad.                       *)

\* The newest table that holds a key answers for it, if it can be read.
LEMMA NewestAnswers ==
  ASSUME NEW ts \in Seq(Seqs), NEW k \in Keys,
         NEW i \in Holders(files, ts, k), i = Max(Holders(files, ts, k)),
         <<ts[i], k>> \notin unreadable
  PROVE  Answering(ts, k) # {} /\ Max(Answering(ts, k)) = i
<1>1. Holders(files, ts, k) \in SUBSET (1 .. Len(ts)) /\ Len(ts) \in Nat
  BY DEF Holders
<1>2. \A j \in Holders(files, ts, k) : j <= i
  BY <1>1, MaxExists
<1>3. i \in Answering(ts, k) /\ \A j \in Answering(ts, k) : j \in Int /\ j <= i
  BY <1>1, <1>2 DEF Answering
<1> QED
  BY <1>3, MaxIs

\* What can be read is what is there.
LEMMA ReadableShows ==
  ASSUME NEW e, NEW ts \in Seq(Seqs), NEW k \in Keys, ~Fades(e, ts, k)
  PROVE  VisiblePastErrors(e, ts, k) = Visible(e, ts, k)
<1>1. CASE e # Absent
  BY <1>1 DEF VisiblePastErrors, Visible
<1>2. CASE e = Absent /\ Holders(files, ts, k) = {}
  BY <1>2 DEF VisiblePastErrors, Visible, SearchTables, Answering
<1>3. CASE e = Absent /\ Holders(files, ts, k) # {}
  <2>1. Holders(files, ts, k) \in SUBSET (1 .. Len(ts)) /\ Len(ts) \in Nat
    BY DEF Holders
  <2>2. PICK i \in Holders(files, ts, k) : i = Max(Holders(files, ts, k))
    BY <1>3, <2>1, MaxExists
  <2>3. <<ts[i], k>> \notin unreadable
    BY <1>3, <2>2 DEF Fades, Newest
  <2>4. Answering(ts, k) # {} /\ Max(Answering(ts, k)) = i
    BY <2>2, <2>3, NewestAnswers
  <2> QED
    BY <1>3, <2>2, <2>4 DEF VisiblePastErrors, Visible, SearchTables, NewestFirst
<1> QED
  BY <1>1, <1>2, <1>3

\* A key whose newest entry can be read is answered with its last promised write,
\* whatever else has gone bad (kv_store.cpp:158-168).
THEOREM ReadableReadsCorrect ==
  ASSUME SafeEnv
  PROVE  CliSpec => []ReadableReadsLatest
<1>1. StoreSound => ReadableReadsLatest
  <2> SUFFICES ASSUME StoreSound, pc = "idle", NEW k \in Keys,
                      ~ (/\ table[k] = Absent
                         /\ \E i \in Holders(files, sstables, k) :
                              i = Max(Holders(files, sstables, k)) /\ <<sstables[i], k>> \in unreadable)
               PROVE  getPastErrors(k) = committed[k]
    BY DEF ReadableReadsLatest
  <2>1. Visible(table[k], sstables, k) = committed[k]
    BY DEF StoreSound, Inv, MemoryCurrent, LiveTable, LiveTables, Running
  <2>2. sstables \in Seq(Seqs)
    BY DEF StoreSound, TypeInv, TypeOK
  <2>3. CASE ~Fades(table[k], sstables, k)
    BY <2>1, <2>2, <2>3, ReadableShows DEF getPastErrors
  <2>4. CASE Fades(table[k], sstables, k)
    <3>1. table[k] = Absent /\ <<Newest(files, sstables, k), k>> \in unreadable
      BY <2>4 DEF Fades
    <3>2. CASE Holders(files, sstables, k) = {}
      BY <2>1, <3>1, <3>2 DEF getPastErrors, VisiblePastErrors, Visible, SearchTables, Answering
    <3>3. CASE Holders(files, sstables, k) # {}
      <4>1. Holders(files, sstables, k) \in SUBSET (1 .. Len(sstables)) /\ Len(sstables) \in Nat
        BY <2>2 DEF Holders
      <4> QED
        BY <3>1, <3>3, <4>1, MaxExists DEF Newest
    <3> QED
      BY <3>2, <3>3
  <2> QED
    BY <2>3, <2>4
<1> QED
  BY <1>1, CliStore, PTL

-----------------------------------------------------------------------------
(* The refinements of the store, behind the commands.                      *)

\* The two steps of the command line have shapes of the abstract map.
LEMMA MoveShapes ==
  ASSUME SafeEnv, TypeInv, StoreMove
  PROVE  Shapes
<1>1. CASE MergeUnreadable
  BY <1>1, UnreadableShape DEF Shapes, Maintains, Ends
<1>2. CASE ReturnsAtOnce
  BY <1>2 DEF ReturnsAtOnce, TypeInv, Locals, Shapes, Maintains
<1> QED
  BY <1>1, <1>2, StepShapes DEF StoreMove

LEMMA MoveLog ==
  ASSUME TypeInv, LogShut, StoreMove
  PROVE  LogShut' /\ [Log!Next]_(Log!vars)
<1>1. CASE MergeUnreadable
  <2>1. Quiet
    BY <1>1 DEF MergeUnreadable, InputDamaged, OnUnreadable, ReturnError, log, disk, Quiet
  <2> QED
    BY <2>1, QuietMaps
<1>2. CASE ReturnsAtOnce
  BY <1>2 DEF ReturnsAtOnce, LogShut, log, disk, work, Log!vars
<1> QED
  BY <1>1, <1>2, LogStepMaps DEF StoreMove

\* In every environment, tables that go bad included, the commands leave the log to the
\* rules of RecordLog (kv_store.cpp:89-106, 137, 180, 284).
THEOREM CliUsesRecordLog == CliSpec => ImplementsLog
<1>1. CliInit => LogShut /\ Log!Init
  BY DEF CliInit, StoreInit, Init, LogShut, Log!Init, Log!NoReplay, Log!Ended
<1>2. TypeInv /\ LogShut /\ [CliNext]_cliVars => LogShut' /\ [Log!Next]_(Log!vars)
  BY CliStepMoves, MoveLog
<1> QED
  BY <1>1, <1>2, CliTypes, PTL DEF CliSpec, ImplementsLog, Log!Spec

-----------------------------------------------------------------------------
(* The reports.                                                            *)

LEMMA SessionStep ==
  ASSUME Session, [CliNext]_cliVars
  PROVE  Session'
<1> USE DEF Session
<1>1. CASE Runs
  BY <1>1 DEF Runs
<1>2. CASE Decays
  BY <1>2 DEF Decays, Damage, vars, call
<1>3. CASE CompactSkipped \/ Reports \/ Started
  BY <1>3 DEF CompactSkipped, Reports, Started, storeVars, vars, call
<1>4. CASE UNCHANGED cliVars
  BY <1>4 DEF cliVars, storeVars, vars, call
<1> QED
  BY <1>1, <1>2, <1>3, <1>4
     DEF CliNext, Start, PUT, DELETE, FLUSH, COMPACT, Read, EXIT, GoesOn, Dies, close,
         Crash, Goto

\* What the last element of a list is, after it has grown.
LEMMA LastAppended ==
  ASSUME NEW S, NEW s \in Seq(S), NEW e \in S
  PROVE  Append(s, e) # <<>> /\ Last(Append(s, e)) = e
  BY DEF Last

\* The newest table of a list decides what the list shows.
LEMMA NewestDecides ==
  ASSUME NEW fs, NEW ts \in Seq(Seqs), ts # <<>>, NEW k, fs[Last(ts)].data[k] # Absent
  PROVE  SearchTables(fs, ts, k) = fs[Last(ts)].data[k]
<1>1. Len(ts) \in 1 .. Len(ts) /\ DOMAIN ts = 1 .. Len(ts) /\ Last(ts) = ts[Len(ts)]
  BY DEF Last
<1>2. /\ Len(ts) \in Holders(fs, ts, k)
      /\ \A i \in Holders(fs, ts, k) : i \in Int /\ i <= Len(ts)
  BY <1>1 DEF Holders
<1>3. Max(Holders(fs, ts, k)) = Len(ts)
  BY <1>2, MaxIs
<1> QED
  BY <1>1, <1>2, <1>3 DEF SearchTables, NewestFirst

\* A FLUSH that fails has nothing more to answer for.
LEMMA FlushEndsInError ==
  ASSUME pc' = "idle", op' = NoWrite, result' = "error"
  PROVE  FlushRuns'
  BY DEF FlushRuns

\* The steps of the flush itself.
LEMMA FlushStepReports ==
  ASSUME SafeEnv, StoreSound, FlushRuns, command = "FLUSH", FlushStep,
         UNCHANGED <<command, asked>>
  PROVE  FlushRuns'
<1> USE DEF FlushRuns
<1>1. /\ sstables \in Seq(Seqs) /\ manifest \in Seq(Seqs)
      /\ files \in [Seqs -> [state : {"missing", "partial", "complete"}, data : [Keys -> Slot]]]
      /\ table \in [Keys -> Slot] /\ nextSeq \in Nat
      /\ asked' = asked /\ command' = command
  BY DEF StoreSound, TypeInv, TypeOK, MemTypeOK
<1>2. CASE CreateTable
  BY <1>1, <1>2 DEF CreateTable, Goto, memVars
<1>3. CASE CreateTableFails \/ FillTableFails \/ InstallManifestFails \/ ResetWalFails
  <2>1. pc' = "idle" /\ op' = NoWrite /\ result' = "error"
    BY <1>3 DEF CreateTableFails, FillTableFails, InstallManifestFails, ResetWalFails,
                OnManifestError, ReturnError
  <2> QED
    BY ONLY <2>1, FlushEndsInError
<1>4. CASE FillTable
  <2>1. /\ pc = "fillTable" /\ pc' = "manifest" /\ op' = op /\ manifest' = manifest
        /\ sstables' = Append(sstables, out) /\ files' = [files EXCEPT ![out] = TableFile(table)]
    BY <1>4 DEF FillTable, Goto, StepAfterFill
  <2>2. out \in Seqs
    BY <2>1 DEF StoreSound, TypeInv, TypeOK, Locals, Seqs
  <2>3. sstables' # <<>> /\ Last(sstables') = out
    BY <1>1, <2>1, <2>2, LastAppended
  <2>4. files'[out].data = table
    BY <1>1, <2>1, <2>2 DEF TableFile
  <2> QED
    BY <1>1, <2>1, <2>3, <2>4
<1>5. CASE InstallManifest
  <2>1. /\ pc = "manifest" /\ pc' = "reset" /\ op' = op /\ manifest' = sstables
        /\ sstables' = sstables /\ files' = files
    BY <1>5 DEF InstallManifest, Goto
  <2>2. Len(manifest) < Len(sstables)
    BY <2>1 DEF StoreSound, ManifestBehind
  <2>3. Grew'
    BY <1>1, <2>1, <2>2 DEF Grew, getActiveSSTables
  <2> QED
    BY <1>1, <2>1, <2>3
<1>6. CASE ResetWal
  <2>1. /\ pc = "reset" /\ table' = NoEntries /\ manifest' = manifest /\ sstables' = sstables
        /\ files' = files /\ op' = NoWrite
        /\ pc' = "compact" \/ (pc' = "idle" /\ result' = "ok")
    BY <1>6 DEF ResetWal, MemClear, Goto, ResumeCall, ReturnOK
  <2>2. Grew'
    BY <1>1, <2>1 DEF Grew, getActiveSSTables
  <2>3. Holds(Last(sstables), asked.entries)'
    BY <1>1, <2>1 DEF Holds
  <2> QED
    BY <1>1, <2>1, <2>2, <2>3
<1> QED
  BY <1>2, <1>3, <1>4, <1>5, <1>6, NoUnsafeFault DEF FlushStep

\* The steps of the compaction that a flush may go on to.
LEMMA CompactStepReports ==
  ASSUME SafeEnv, StoreSound, FlushRuns, command = "FLUSH", CompactStep,
         UNCHANGED <<command, asked>>
  PROVE  FlushRuns'
<1> USE DEF FlushRuns
<1>1. /\ sstables \in Seq(Seqs) /\ manifest \in Seq(Seqs) /\ inputs \in Seq(Seqs)
      /\ files \in [Seqs -> [state : {"missing", "partial", "complete"}, data : [Keys -> Slot]]]
      /\ cursor \in Nat \ {0}
      /\ asked' = asked /\ command' = command
  BY DEF StoreSound, TypeInv, TypeOK
<1>2. CASE BeginCompaction
  BY <1>1, <1>2 DEF BeginCompaction, Goto, memVars, disk
<1>3. CASE MergeTable
  BY <1>1, <1>3 DEF MergeTable, call, memVars, disk
<1>4. CASE PlaceOutput
  <2>1. /\ pc = "merge" /\ pc' = "remove" /\ op' = op /\ out' = out /\ table' = table
        /\ cursor > Len(inputs)
        /\ files' = [files EXCEPT ![out] = TableFile(Survivors(merged))]
    BY <1>4 DEF PlaceOutput, Goto, memVars
  <2>2. out \in Seqs
    BY <2>1 DEF StoreSound, TypeInv, TypeOK, Locals, Seqs
  <2>3. files'[out].data = Survivors(merged)
    BY <1>1, <2>1, <2>2 DEF TableFile
  <2>4. cursor = Len(inputs) + 1
    BY <1>1, <2>1 DEF StoreSound, Inv, Loops
  <2>5. SubSeq(inputs, 1, cursor - 1) = inputs
    BY <1>1, <2>4, PrefixEnds
  <2>6. \A k \in Keys : merged[k] = SearchTables(files, inputs, k)
    BY <2>1, <2>5 DEF StoreSound, Inv, Loops
  <2>7. ASSUME NEW k \in Keys, asked.entries[k] # Absent
        PROVE  Reply(files'[out].data[k]) = Reply(asked.entries[k])
    <3>1. merged[k] = asked.entries[k]
      BY <1>1, <2>1, <2>6, <2>7, NewestDecides
    <3> QED
      BY <2>3, <3>1 DEF Survivors, Reply
  <2>8. Holds(out, asked.entries)'
    BY <1>1, <2>1, <2>7 DEF Holds
  <2> QED
    BY <1>1, <2>1, <2>8
<1>5. CASE CompactionFails
  <2>1. pc' = "idle" /\ op' = NoWrite /\ result' = "error"
    BY <1>5 DEF CompactionFails, ReturnError
  <2> QED
    BY ONLY <2>1, FlushEndsInError
<1>6. CASE RemoveInput
  <2>1. /\ pc = "remove" /\ pc' = pc /\ op' = op /\ out' = out /\ table' = table
        /\ cursor <= Len(inputs) /\ files' = [files EXCEPT ![inputs[cursor]] = MissingFile]
    BY <1>6 DEF RemoveInput, Removed, call, memVars
  <2>2. inputs[cursor] # out
    BY <1>1, <2>1 DEF StoreSound, TypeInv, TypeOK, Locals, Inv, NumbersFresh, Below
  <2>3. files'[out] = files[out]
    BY <1>1, <2>1, <2>2
  <2>4. Holds(out, asked.entries)'
    BY <1>1, <2>1, <2>3 DEF Holds
  <2> QED
    BY <1>1, <2>1, <2>4
<1>7. CASE RemoveInputFails
  BY <1>1, <1>7 DEF RemoveInputFails, call, memVars, disk, Holds
<1>8. CASE RegisterOutput
  <2>1. /\ pc = "remove" /\ pc' = "idle" /\ op' = NoWrite /\ table' = table /\ files' = files
        /\ sstables' = <<out>> /\ manifest' = <<out>>
    BY <1>8 DEF RegisterOutput, ResumeCall, ReturnOK, memVars
  <2>2. sstables' # <<>> /\ Len(manifest') = 1 /\ Last(sstables') = out
    BY <2>1 DEF Last
  <2>3. Holds(Last(sstables), asked.entries)'
    BY <1>1, <2>1, <2>2 DEF Holds
  <2> QED
    BY <1>1, <2>1, <2>2, <2>3
<1> QED
  BY <1>2, <1>3, <1>4, <1>5, <1>6, <1>7, <1>8, NoUnsafeFault DEF CompactStep

LEMMA FlushRunsStep ==
  ASSUME SafeEnv, StoreSound, Session, FlushRuns, [CliNext]_cliVars
  PROVE  FlushRuns'
<1>1. CASE FLUSH
  <2>1. /\ command' = "FLUSH" /\ pc = "idle" /\ op = NoWrite
        /\ asked' = [before |-> manifest, entries |-> table]
    BY <1>1 DEF FLUSH, Read, Asks, getActiveSSTables, Session, StoreSound, TypeInv, Locals
  <2>2. CASE IsEmpty
    <3>1. UNCHANGED <<pc, op, table, manifest>> /\ table = NoEntries
      BY <1>1, <2>2 DEF FLUSH, ReturnsAtOnce, memVars, disk, IsEmpty
    <3>2. ~Grew'
      BY <2>1, <3>1 DEF Grew, getActiveSSTables, StoreSound, TypeInv, TypeOK
    <3> QED
      BY <2>1, <3>1, <3>2 DEF FlushRuns
  <2>3. CASE ~IsEmpty
    <3>1. pc' = "createTable" /\ UNCHANGED <<op, table, manifest>> /\ table # NoEntries
      BY <1>1, <2>3 DEF FLUSH, flush, Goto, memVars, disk, IsEmpty
    <3> QED
      BY <2>1, <3>1 DEF FlushRuns
  <2> QED
    BY <2>2, <2>3
<1>2. CASE Runs /\ command = "FLUSH"
  <2>1. StoreStep /\ UNCHANGED <<command, asked>>
    BY <1>2 DEF Runs
  <2>2. CASE MergeUnreadable
    BY <2>2, UnreadableShape, FlushEndsInError
  <2>3. CASE FlushStep \/ CompactStep
    BY <1>2, <2>1, <2>3, FlushStepReports, CompactStepReports
  <2>4. ~WriteStep /\ ~OpenStep
    BY <1>2 DEF FlushRuns, WriteStep, AppendWal, AppendRefused, AppendFails, AppendLost, ApplyWrite,
                OpenStep, LoadTable, LoadTableFails, ManifestUnread, StartReplay, ReplayRecord,
                FinishOpen, LogUnread, ReplayFails
  <2> QED
    BY <2>1, <2>2, <2>3, <2>4 DEF StoreStep, Step
<1>3. CASE UNCHANGED cliVars
  BY <1>3 DEF cliVars, storeVars, vars, call, work, memVars, disk, FlushRuns, Grew,
              getActiveSSTables, Holds
<1>4. CASE command' # "FLUSH"
  BY <1>4 DEF FlushRuns
<1> QED
  BY <1>1, <1>2, <1>3, <1>4
     DEF CliNext, Start, PUT, DELETE, COMPACT, Read, CompactSkipped, EXIT, GoesOn, Runs, Reports,
         Started, Dies, Decays

\* The removal of the inputs, one by one, and the table that is left.
LEMMA CompactRunsStep ==
  ASSUME SafeEnv, "remove" \notin FaultPoints, StoreSound, Session, CompactRuns,
         [CliNext]_cliVars
  PROVE  CompactRuns'
<1> USE DEF CompactRuns
<1>1. /\ sstables \in Seq(Seqs) /\ manifest \in Seq(Seqs) /\ inputs \in Seq(Seqs)
      /\ files \in [Seqs -> [state : {"missing", "partial", "complete"}, data : [Keys -> Slot]]]
      /\ cursor \in Nat \ {0}
  BY DEF StoreSound, TypeInv, TypeOK
<1>2. CASE COMPACT
  <2>1. /\ command' = "COMPACT" /\ pc = "idle" /\ op = NoWrite /\ Len(manifest) >= 2
        /\ asked' = [before |-> manifest, entries |-> NoEntries]
    BY <1>2 DEF COMPACT, WorthCompacting, Read, Asks, getActiveSSTables, Session, StoreSound,
                TypeInv, Locals
  <2>2. Len(manifest) <= Len(sstables)
    BY <1>1, <2>1, PrefixIs DEF StoreSound, ManifestBehind, KnownTables, Running
  <2>3. compact
    BY <1>1, <1>2, <2>1, <2>2 DEF COMPACT
  <2>4. pc' = "compact" /\ op' = op /\ manifest' = manifest
    BY <2>3 DEF compact, Goto, disk
  <2> QED
    BY <2>1, <2>4
<1>3. CASE Runs /\ command = "COMPACT"
  <2>1. StoreStep /\ command' = command /\ asked' = asked
    BY <1>3 DEF Runs
  <2>2. CASE pc' = "idle" /\ op' = NoWrite /\ result' = "error"
    BY <2>2
  <2>3. CASE BeginCompaction
    BY <1>3, <2>1, <2>3 DEF BeginCompaction, Goto, disk
  <2>4. CASE MergeTable
    BY <1>3, <2>1, <2>4 DEF MergeTable, call, disk
  <2>5. CASE PlaceOutput
    <3>1. pc' = "remove" /\ op' = op /\ cursor' = 1 /\ inputs' = inputs /\ manifest' = manifest /\ pc = "merge"
      BY <2>5 DEF PlaceOutput, Goto
    <3>2. \A i \in DOMAIN inputs : ~ (i < cursor')
      BY <1>1, <3>1
    <3> QED
      BY <1>3, <2>1, <3>1, <3>2
  <2>6. CASE RemoveInput
    <3>1. /\ pc = "remove" /\ pc' = pc /\ op' = op /\ inputs' = inputs /\ manifest' = manifest
          /\ cursor <= Len(inputs) /\ cursor' = cursor + 1
          /\ files' = [files EXCEPT ![inputs[cursor]] = MissingFile]
      BY <2>6 DEF RemoveInput, Removed, Advance, call
    <3>2. ASSUME NEW i \in DOMAIN inputs, i < cursor + 1
          PROVE  files'[inputs[i]].state = "missing"
      <4>1. inputs[i] \in Seqs /\ i \in Nat
        BY <1>1
      <4>2. CASE inputs[i] = inputs[cursor]
        BY <1>1, <3>1, <4>1, <4>2 DEF MissingFile
      <4>3. CASE inputs[i] # inputs[cursor]
        <5>1. i < cursor
          BY <1>1, <3>2, <4>1, <4>3
        <5> QED
          BY <1>1, <1>3, <3>1, <4>1, <4>3, <5>1
      <4> QED
        BY <4>2, <4>3
    <3> QED
      BY <1>3, <2>1, <3>1, <3>2
  <2>7. CASE RegisterOutput
    <3>1. /\ pc = "remove" /\ pc' = "idle" /\ op' = NoWrite /\ files' = files
          /\ sstables' = <<out>> /\ manifest' = <<out>> /\ cursor > Len(inputs)
      BY <1>3, <2>7 DEF RegisterOutput, ResumeCall, ReturnOK
    <3>2. /\ Len(manifest) <= Len(inputs)
          /\ \A i \in 1 .. Len(manifest) : manifest[i] = inputs[i]
      BY <1>1, <3>1, PrefixIs DEF StoreSound, ManifestBehind, KnownTables, Running
    <3>3. ASSUME NEW i \in DOMAIN manifest
          PROVE  files[manifest[i]].state = "missing" /\ manifest[i] < out
      <4>1. i \in DOMAIN inputs /\ manifest[i] = inputs[i] /\ i < cursor
        BY <1>1, <3>1, <3>2
      <4>2. inputs[i] < out
        BY <3>1, <4>1 DEF StoreSound, TypeInv, Locals, Inv, NumbersFresh, Below
      <4> QED
        BY <1>3, <3>1, <4>1, <4>2
    <3>4. asked.before = manifest
      BY <1>3, <3>1
    <3>5. Len(sstables') = 1 /\ sstables'[1] = out
      BY <3>1
    <3> QED
      BY <2>1, <3>1, <3>3, <3>4, <3>5
  <2>8. ~RemoveInputFails
    BY DEF RemoveInputFails, Fault
  <2>9. CompactionFails \/ MergeUnreadable => pc' = "idle" /\ op' = NoWrite /\ result' = "error"
    BY UnreadableShape DEF CompactionFails, ReturnError
  <2>10. ~FlushStep /\ ~WriteStep /\ ~OpenStep
    BY <1>3 DEF FlushStep, CreateTable, CreateTableFails, FillTable, FillTableFails,
                InstallManifest, InstallManifestFails, InstallManifestShort, ResetWal, ResetWalFails,
                WriteStep, AppendWal, AppendRefused, AppendFails, AppendLost, ApplyWrite,
                OpenStep, LoadTable, LoadTableFails, ManifestUnread, StartReplay, ReplayRecord,
                FinishOpen, LogUnread, ReplayFails
  <2> QED
    BY <2>1, <2>2, <2>3, <2>4, <2>5, <2>6, <2>7, <2>8, <2>9, <2>10, NoUnsafeFault
       DEF StoreStep, Step, CompactStep
<1>4. CASE UNCHANGED cliVars
  BY <1>4 DEF cliVars, storeVars, vars, call, work, disk
<1>5. CASE command' # "COMPACT"
  BY <1>5
<1> QED
  BY <1>2, <1>3, <1>4, <1>5
     DEF CliNext, Start, PUT, DELETE, FLUSH, Read, CompactSkipped, EXIT, GoesOn, Runs, Reports,
         Started, Dies, Decays

\* No command runs yet, and nothing is reported.
LEMMA CliBegins ==
  CliInit => Session /\ FlushRuns /\ CompactRuns /\ FlushLeavesNothing /\ CompactReportMeans
  BY DEF CliInit, StoreInit, Init, Session, FlushRuns, CompactRuns, FlushLeavesNothing,
         CompactReportMeans, Nothing

\* A step that is no report leaves no report of FLUSH or COMPACT standing, or it changes
\* nothing.
LEMMA ReportsOnce ==
  ASSUME Session, [CliNext]_cliVars, ~Reports
  PROVE  \/ report'.text \in {"nothing", "skipped"}
         \/ UNCHANGED cliVars
<1>1. Nothing.text = "nothing" /\ Said("skipped").text = "skipped"
  BY DEF Nothing, Said
<1> QED
  BY <1>1 DEF Session, CliNext, Start, PUT, DELETE, FLUSH, COMPACT, Read, CompactSkipped, EXIT,
              GoesOn, Runs, Started, Dies, Decays

LEMMA FlushReportStep ==
  ASSUME StoreSound, Session, FlushRuns, FlushLeavesNothing, [CliNext]_cliVars
  PROVE  FlushLeavesNothing'
<1>1. CASE Reports
  <2>1. /\ pc = "idle" /\ report' = Answer /\ asked' = asked /\ table' = table
        /\ manifest' = manifest /\ sstables' = sstables /\ files' = files
    BY <1>1 DEF Reports, storeVars, vars, memVars, disk
  <2>2. \A t : Said(t).text = t
    BY DEF Said
  <2>3. CASE command = "FLUSH" /\ result # "error"
    <3>1. result = "ok"
      BY <2>3 DEF StoreSound, TypeInv, TypeOK
    <3>2. /\ table = NoEntries
          /\ \/ asked.entries = NoEntries /\ ~Grew
             \/ /\ asked.entries # NoEntries
                /\ manifest = sstables /\ sstables # <<>>
                /\ Grew \/ Len(manifest) = 1
                /\ Holds(Last(sstables), asked.entries)
      BY <2>1, <2>3, <3>1 DEF FlushRuns
    <3>3. Holds(Last(sstables), asked.entries)' <=> Holds(Last(sstables), asked.entries)
      BY <2>1 DEF Holds
    <3>4. CASE Grew
      <4>1. report' = [text |-> "created", tables |-> <<Last(manifest)>>]
        BY <2>1, <2>3, <3>4 DEF Answer, FlushReport, getActiveSSTables
      <4>2. report'.text = "created" /\ report'.tables = <<Last(manifest)>>
        BY <4>1
      <4>3. /\ asked.entries # NoEntries /\ manifest = sstables
            /\ Holds(Last(sstables), asked.entries)
        BY <3>2, <3>4
      <4>4. report'.tables = <<Last(sstables')>>
        BY <2>1, <4>2, <4>3
      <4> QED
        BY <2>1, <3>2, <3>3, <4>2, <4>3, <4>4 DEF FlushLeavesNothing
    <3>5. CASE ~Grew
      <4>1. report'.text = "was empty"
        BY <2>1, <2>2, <2>3, <3>5 DEF Answer, FlushReport
      <4> QED
        BY <2>1, <3>2, <3>3, <3>5, <4>1 DEF FlushLeavesNothing
    <3> QED
      BY <3>4, <3>5
  <2>4. CASE ~ (command = "FLUSH" /\ result # "error")
    <3>1. report'.text \in {"error", "compacted", "ok"}
      BY <2>1, <2>2, <2>4 DEF Answer, CompactReport
    <3> QED
      BY <3>1 DEF FlushLeavesNothing
  <2> QED
    BY <2>3, <2>4
<1>2. CASE report'.text \in {"nothing", "skipped"}
  BY <1>2 DEF FlushLeavesNothing
<1>3. CASE UNCHANGED cliVars
  BY <1>3 DEF FlushLeavesNothing, cliVars, storeVars, vars, memVars, disk, Holds
<1> QED
  BY <1>1, <1>2, <1>3, ReportsOnce

\* A FLUSH without an error leaves nothing in the MemTable: all of it is in the newest table,
\* which is listed last and is the one FLUSH names, if it names any.  That the MemTable was
\* empty it prints truly, except after a flush that went on to a merge (cli.cpp:139-156).
THEOREM FlushLosesNothing ==
  ASSUME SafeEnv
  PROVE  CliSpec => []FlushLeavesNothing
<1> DEFINE I == Session /\ FlushRuns /\ FlushLeavesNothing
<1>1. CliInit => I
  BY CliBegins
<1>2. StoreSound /\ I /\ [CliNext]_cliVars => I'
  BY SessionStep, FlushRunsStep, FlushReportStep
<1>3. I => FlushLeavesNothing
  OBVIOUS
<1> HIDE DEF I
<1> QED
  BY <1>1, <1>2, <1>3, CliStore, PTL DEF CliSpec

\* What a running FLUSH or COMPACT will find in the manifest follows from where its call
\* is in the store, as long as every input is removed (cli.cpp:139-184).
THEOREM CliInvariant ==
  ASSUME SafeEnv, "remove" \notin FaultPoints
  PROVE  CliSpec => []CliInv
<1>1. CliInit => CliInv
  BY CliBegins DEF CliInv
<1>2. StoreSound /\ CliInv /\ [CliNext]_cliVars => CliInv'
  BY SessionStep, FlushRunsStep, CompactRunsStep DEF CliInv
<1> QED
  BY <1>1, <1>2, CliStore, PTL DEF CliSpec

LEMMA CompactReportStep ==
  ASSUME StoreSound, CliInv, CompactReportMeans, [CliNext]_cliVars
  PROVE  CompactReportMeans'
<1>1. CASE Reports
  <2>1. /\ pc = "idle" /\ report' = Answer /\ asked' = asked
        /\ manifest' = manifest /\ sstables' = sstables /\ files' = files
        /\ sstables \in Seq(Seqs)
    BY <1>1 DEF Reports, storeVars, vars, disk, StoreSound, TypeInv, TypeOK
  <2>2. \A t : Said(t).text = t
    BY DEF Said
  <2>3. CASE command = "COMPACT" /\ result # "error"
    <3>1. result = "ok"
      BY <2>3 DEF StoreSound, TypeInv, TypeOK
    <3>2. /\ manifest = sstables /\ Len(sstables) = 1
          /\ \A i \in DOMAIN asked.before :
               /\ files[asked.before[i]].state = "missing"
               /\ asked.before[i] < sstables[1]
      BY <2>1, <2>3, <3>1 DEF CliInv, CompactRuns
    <3>3. manifest = <<Head(manifest)>> /\ Head(manifest) = sstables[1]
      BY <2>1, <3>2
    <3>4. report'.tables = manifest
      BY <2>1, <2>3, <3>3 DEF Answer, CompactReport, getActiveSSTables
    <3> QED
      BY <2>1, <3>2, <3>4 DEF CompactReportMeans
  <2>4. CASE ~ (command = "COMPACT" /\ result # "error")
    <3>1. report'.text \in {"error", "created", "was empty", "ok"}
      BY <2>1, <2>2, <2>4 DEF Answer, FlushReport
    <3> QED
      BY <3>1 DEF CompactReportMeans
  <2> QED
    BY <2>3, <2>4
<1>2. CASE report'.text \in {"nothing", "skipped"}
  BY <1>2 DEF CompactReportMeans
<1>3. CASE UNCHANGED cliVars
  BY <1>3 DEF CompactReportMeans, cliVars, storeVars, vars, disk
<1> QED
  BY <1>1, <1>2, <1>3, ReportsOnce DEF CliInv

\* What COMPACT prints is true, as long as every input is removed: one table is left, the
\* one it names, and every table the manifest listed before is gone (cli.cpp:157-184).
THEOREM CompactReportCorrect ==
  ASSUME SafeEnv, "remove" \notin FaultPoints
  PROVE  CliSpec => []CompactReportMeans
<1>1. CliInit => CompactReportMeans
  BY CliBegins
<1>2. StoreSound /\ CliInv /\ CompactReportMeans /\ [CliNext]_cliVars => CompactReportMeans'
  BY CompactReportStep
<1> QED
  BY <1>1, <1>2, CliInvariant, CliStore, PTL DEF CliSpec

-----------------------------------------------------------------------------
(* What damage takes, and that nothing else does.                          *)

\* The newest table that holds a key is one of those searched.
LEMMA NewestIn ==
  ASSUME NEW fs, NEW ts \in Seq(Seqs), NEW k
  PROVE  Newest(fs, ts, k) = 0 \/ \E i \in DOMAIN ts : Newest(fs, ts, k) = ts[i]
<1>1. Holders(fs, ts, k) \in SUBSET (1 .. Len(ts)) /\ Len(ts) \in Nat /\ DOMAIN ts = 1 .. Len(ts)
  BY DEF Holders
<1>2. Holders(fs, ts, k) # {} => Max(Holders(fs, ts, k)) \in DOMAIN ts
  BY <1>1, MaxExists
<1> QED
  BY <1>2 DEF Newest

LEMMA NewestAppend ==
  ASSUME NEW fs, NEW ts \in Seq(Seqs), NEW s \in Seqs, NEW k
  PROVE  Newest(fs, Append(ts, s), k) = IF fs[s].data[k] # Absent THEN s ELSE Newest(fs, ts, k)
<1> DEFINE new == Append(ts, s)
           n   == Len(ts) + 1
<1>1. /\ DOMAIN new = 1 .. n
      /\ DOMAIN ts = 1 .. Len(ts)
      /\ \A i \in 1 .. Len(ts) : new[i] = ts[i]
      /\ new[n] = s
      /\ n \in Nat
  OBVIOUS
<1>2. CASE fs[s].data[k] # Absent
  <2>1. n \in Holders(fs, new, k) /\ \A i \in Holders(fs, new, k) : i \in Int /\ i <= n
    BY <1>1, <1>2 DEF Holders
  <2>2. Max(Holders(fs, new, k)) = n
    BY <2>1, MaxIs
  <2> QED
    BY <1>1, <1>2, <2>1, <2>2 DEF Newest
<1>3. CASE fs[s].data[k] = Absent
  <2>1. Holders(fs, new, k) = Holders(fs, ts, k)
    BY <1>1, <1>3 DEF Holders
  <2>2. Holders(fs, ts, k) \in SUBSET (1 .. Len(ts)) /\ Len(ts) \in Nat
    BY DEF Holders
  <2>3. Holders(fs, ts, k) # {} => Max(Holders(fs, ts, k)) \in 1 .. Len(ts)
    BY <2>2, MaxExists
  <2> QED
    BY <1>1, <1>3, <2>1, <2>3 DEF Newest
<1> QED
  BY <1>2, <1>3

\* If the last table holds the key, it is the newest that does.
LEMMA NewestLast ==
  ASSUME NEW fs, NEW ts \in Seq(Seqs), ts # <<>>, NEW k, fs[Last(ts)].data[k] # Absent
  PROVE  Newest(fs, ts, k) = Last(ts)
<1>1. Len(ts) \in 1 .. Len(ts) /\ DOMAIN ts = 1 .. Len(ts) /\ Last(ts) = ts[Len(ts)]
  BY DEF Last
<1>2. /\ Len(ts) \in Holders(fs, ts, k)
      /\ \A i \in Holders(fs, ts, k) : i \in Int /\ i <= Len(ts)
  BY <1>1 DEF Holders
<1>3. Max(Holders(fs, ts, k)) = Len(ts)
  BY <1>2, MaxIs
<1> QED
  BY <1>1, <1>2, <1>3 DEF Newest

\* The newest table that holds k cannot be read.
NewestUnreadable(ts, k) == <<Newest(files, ts, k), k>> \in unreadable

\* Lines of unreadable are about tables.
Wearing == unreadable \subseteq Seqs \X Keys

\* No line is added, and none stays for a file written anew.
Sparing == unreadable' \subseteq Kept

LEMMA SparingKeeps ==
  ASSUME Sparing, NEW l \in unreadable'
  PROVE  l \in unreadable /\ ~Replaced(l[1]) /\ files'[l[1]] = files[l[1]]
  BY DEF Sparing, Kept, Replaced

\* Where the files searched stay as they are, no entry becomes unreadable.
LEMMA NewestKept ==
  ASSUME Sparing, NEW ts \in Seq(Seqs), \A i \in DOMAIN ts : files'[ts[i]] = files[ts[i]],
         NEW k, <<Newest(files', ts, k), k>> \in unreadable'
  PROVE  NewestUnreadable(ts, k)
<1>1. \A i \in DOMAIN ts : files'[ts[i]].data = files[ts[i]].data
  OBVIOUS
<1>2. Holders(files', ts, k) = Holders(files, ts, k)
  BY <1>1 DEF Holders
<1>3. Newest(files', ts, k) = Newest(files, ts, k)
  BY <1>2 DEF Newest
<1> QED
  BY <1>3, SparingKeeps DEF NewestUnreadable

\* One table without damage can be read.
LEMMA SoundTable ==
  ASSUME NEW fs, NEW u, u \subseteq Seqs \X Keys, NEW s \in Seqs, NEW k \in Keys,
         <<s, k>> \notin u
  PROVE  <<Newest(fs, <<s>>, k), k>> \notin u
<1>1. <<s>> \in Seq(Seqs) /\ \A i \in DOMAIN <<s>> : <<s>>[i] = s
  OBVIOUS
<1>2. Newest(fs, <<s>>, k) \in {0, s}
  BY <1>1, NewestIn
<1> QED
  BY <1>2 DEF Seqs

-----------------------------------------------------------------------------
(* The two halves of IsLost.                                               *)

DiskLost(k) == Replayed(wal, k) = Absent /\ NewestUnreadable(DiskTables, k)

LiveLost(k) == Running /\ LiveTable[k] = Absent /\ NewestUnreadable(LiveTables, k)

LEMMA LostIs == \A k : IsLost(k) <=> DiskLost(k) \/ LiveLost(k)
  BY DEF IsLost, Fades, DiskLost, LiveLost, NewestUnreadable

LEMMA LostIsNext == \A k : IsLost(k)' <=> DiskLost(k)' \/ LiveLost(k)'
  BY DEF IsLost, Fades, DiskLost, LiveLost, NewestUnreadable

LEMMA LiveTablesType == TypeInv => LiveTables \in Seq(Seqs)
<1> SUFFICES ASSUME TypeInv PROVE LiveTables \in Seq(Seqs)
  OBVIOUS
<1>1. pc = "remove" => out \in Seqs
  BY DEF TypeInv, TypeOK, Locals, Seqs
<1>2. out \in Seqs => <<out>> \in Seq(Seqs)
  OBVIOUS
<1> QED
  BY <1>1, <1>2 DEF LiveTables, TypeInv, TypeOK

\* What a restart reads stays.
LEMMA DiskKept ==
  ASSUME TypeInv, Sparing, ~Exposed, ~Exposed', UNCHANGED <<wal, manifest>>,
         \A i \in DOMAIN manifest : files'[manifest[i]] = files[manifest[i]],
         NEW k, DiskLost(k)'
  PROVE  DiskLost(k)
<1>1. manifest \in Seq(Seqs)
  BY DEF TypeInv, TypeOK
<1>2. DiskTables = manifest /\ DiskTables' = manifest
  BY DEF DiskTables
<1>3. Replayed(wal, k) = Absent /\ <<Newest(files', manifest, k), k>> \in unreadable'
  BY <1>2 DEF DiskLost, NewestUnreadable
<1>4. NewestUnreadable(manifest, k)
  BY <1>1, <1>3, NewestKept
<1> QED
  BY <1>2, <1>3, <1>4 DEF DiskLost

\* What get reads stays.
LEMMA LiveKept ==
  ASSUME TypeInv, Sparing, Running, UNCHANGED <<LiveTable, LiveTables>>,
         \A i \in DOMAIN LiveTables : files'[LiveTables[i]] = files[LiveTables[i]],
         NEW k, LiveLost(k)'
  PROVE  LiveLost(k)
<1>1. LiveTables \in Seq(Seqs)
  BY LiveTablesType
<1>2. LiveTable[k] = Absent /\ <<Newest(files', LiveTables, k), k>> \in unreadable'
  BY DEF LiveLost, NewestUnreadable
<1>3. NewestUnreadable(LiveTables, k)
  BY <1>1, <1>2, NewestKept
<1> QED
  BY <1>2, <1>3 DEF LiveLost

\* A step that adds nothing to what is lost.
SparesAll == \A k \in Keys : IsLost(k)' => IsLost(k)

LEMMA BothKept ==
  ASSUME TypeInv, Sparing, ~Exposed, ~Exposed', UNCHANGED <<wal, manifest>>,
         \A i \in DOMAIN manifest : files'[manifest[i]] = files[manifest[i]],
         Running' =>
           /\ Running
           /\ UNCHANGED <<LiveTable, LiveTables>>
           /\ \A i \in DOMAIN LiveTables : files'[LiveTables[i]] = files[LiveTables[i]]
  PROVE  SparesAll
<1> SUFFICES ASSUME NEW k \in Keys, IsLost(k)' PROVE IsLost(k)
  BY DEF SparesAll
<1>1. CASE DiskLost(k)'
  BY <1>1, DiskKept, LostIs
<1>2. CASE LiveLost(k)'
  <2>1. Running'
    BY <1>2 DEF LiveLost
  <2> QED
    BY <1>2, <2>1, LiveKept, LostIs
<1> QED
  BY <1>1, <1>2, LostIsNext
-----------------------------------------------------------------------------
(* The steps.                                                              *)

\* Nothing a lookup or a restart reads changes.
Unmoved ==
  /\ ~Exposed /\ ~Exposed'
  /\ UNCHANGED disk
  /\ Running' => Running /\ UNCHANGED <<LiveTable, LiveTables>>

LEMMA UnmovedSpares ==
  ASSUME TypeInv, Sparing, Unmoved
  PROVE  SparesAll
  BY BothKept DEF Unmoved, disk

LEMMA FlushUnmoved ==
  ASSUME SafeEnv, TypeInv, CreateTableFails \/ InstallManifestFails
  PROVE  Unmoved
  BY DEF CreateTableFails, InstallManifestFails, OnManifestError, ReturnError, Unmoved, Exposed,
         Running, LiveTable, LiveTables, memVars, disk, work

LEMMA CompactUnmoved ==
  ASSUME SafeEnv, TypeInv, BeginCompaction \/ MergeTable \/ CompactionFails \/ MergeUnreadable
  PROVE  Unmoved
<1>1. CASE BeginCompaction \/ MergeTable
  BY <1>1 DEF BeginCompaction, MergeTable, Goto, call, Unmoved, Exposed, Running, LiveTable,
              LiveTables, memVars
<1>2. CASE CompactionFails \/ MergeUnreadable
  <2>1. pc = "merge" /\ pc' = "idle" /\ sstables' = inputs /\ UNCHANGED <<table, disk>>
    BY <1>2 DEF CompactionFails, MergeUnreadable, InputDamaged, OnUnreadable, Reopened,
                ReturnError, memVars, SafeEnv, SafeFaults
  <2> QED
    BY <2>1 DEF Unmoved, Exposed, Running, LiveTable, LiveTables
<1> QED
  BY <1>1, <1>2

LEMMA WriteUnmoved ==
  ASSUME SafeEnv, TypeInv, AppendRefused \/ AppendFails \/ ApplyWrite
  PROVE  Unmoved
<1>1. CASE AppendRefused
  BY <1>1 DEF AppendRefused, ReturnError, Unmoved, Exposed, Running, LiveTable, LiveTables,
              memVars
<1>2. CASE AppendFails
  BY <1>2 DEF AppendFails, CutShort, SafeEnv, ReturnError, Unmoved, Exposed, Running, LiveTable,
              LiveTables, memVars, disk
<1>3. CASE ApplyWrite
  BY <1>3 DEF ApplyWrite, MemStore, ReturnOK, Unmoved, Exposed, Running, LiveTable, LiveTables
<1> QED
  BY <1>1, <1>2, <1>3

LEMMA CallUnmoved ==
  ASSUME SafeEnv, StoreSound,
         \/ \E k \in Keys, e \in Entry : CallWrite(k, e)
         \/ flush \/ compact \/ ReturnsAtOnce \/ open \/ close \/ Crash
  PROVE  Unmoved
<1>1. LogWhole
  BY DEF StoreSound, Inv
<1>2. ASSUME NEW k \in Keys, NEW e \in Entry, CallWrite(k, e)
      PROVE  Unmoved
  BY <1>2 DEF CallWrite, Unmoved, Exposed, Running, LiveTable, LiveTables, memVars
<1>3. CASE flush \/ compact \/ ReturnsAtOnce
  BY <1>3 DEF flush, compact, ReturnsAtOnce, Goto, Unmoved, Exposed, Running, LiveTable,
              LiveTables, memVars
<1>4. CASE open \/ close
  <2>1. CloseWal /\ pc' \in {"loading", "closed"} /\ pc \in {"closed", "idle"}
        /\ UNCHANGED <<files, manifest>>
    BY <1>4 DEF open, close, Goto
  <2>2. wal' = wal
    BY <1>1, <2>1, CloseWalSafe
  <2> QED
    BY <2>1, <2>2 DEF Unmoved, Exposed, Running, LiveTable, LiveTables, disk
<1>5. CASE Crash
  BY <1>5 DEF Crash, CutShort, SafeEnv, Unmoved, Exposed, Running, LiveTable, LiveTables, disk
<1> QED
  BY <1>2, <1>3, <1>4, <1>5

LEMMA OpenUnmoved ==
  ASSUME SafeEnv, TypeInv, LoadTable \/ LoadTableFails \/ StartReplay \/ ReplayRecord \/ ReplayFails
  PROVE  Unmoved
  BY DEF LoadTable, LoadTableFails, StartReplay, ReplayRecord, ReplayFails, OpenGivesUp, Goto, call,
         Unmoved, Exposed, Running, LiveTable, LiveTables, disk

-----------------------------------------------------------------------------
\* A file of a number that no table has.
LEMMA FreshSpares ==
  ASSUME SafeEnv, StoreSound, Sparing, CreateTable \/ FillTableFails
  PROVE  SparesAll
<1> USE DEF StoreSound, Inv, TypeInv, TypeOK, Locals
<1>1. PICK n \in Seqs :
        /\ \E f : files' = [files EXCEPT ![n] = f]
        /\ \A i \in DOMAIN manifest : manifest[i] # n
        /\ \A i \in DOMAIN sstables : sstables[i] # n
  <2>1. CASE CreateTable
    <3>1. nextSeq \in Seqs /\ files' = [files EXCEPT ![nextSeq] = PartialFile]
      BY <2>1 DEF CreateTable, Seqs
    <3>2. /\ \A i \in DOMAIN manifest : manifest[i] # nextSeq
          /\ \A i \in DOMAIN sstables : sstables[i] # nextSeq
      BY <2>1 DEF CreateTable, NumbersFresh, Below, Seqs
    <3> QED
      BY <3>1, <3>2
  <2>2. CASE FillTableFails
    <3>1. out \in Seqs
      BY <2>2 DEF FillTableFails, Seqs
    <3>2. \E f : files' = [files EXCEPT ![out] = f]
      BY <2>2, <3>1 DEF FillTableFails
    <3>3. /\ \A i \in DOMAIN manifest : manifest[i] # out
          /\ \A i \in DOMAIN sstables : sstables[i] # out
      BY <2>2 DEF FillTableFails, NumbersFresh, Below, Seqs
    <3> QED
      BY <3>1, <3>2, <3>3
  <2> QED
    BY <2>1, <2>2
<1>2. PICK f : files' = [files EXCEPT ![n] = f]
  BY <1>1
<1>3. \A i \in DOMAIN manifest : files'[manifest[i]] = files[manifest[i]]
  BY <1>1, <1>2
<1>4. \A i \in DOMAIN sstables : files'[sstables[i]] = files[sstables[i]]
  BY <1>1, <1>2
<1>5. /\ pc \in {"createTable", "fillTable"} /\ pc' \in {"fillTable", "idle"}
      /\ UNCHANGED <<table, sstables, manifest, wal>>
  BY DEF CreateTable, FillTableFails, Goto, ReturnError, memVars
<1>6. /\ ~Exposed /\ ~Exposed' /\ Running
      /\ LiveTable = table /\ LiveTable' = table
      /\ LiveTables = sstables /\ LiveTables' = sstables
  BY <1>5 DEF Exposed, Running, LiveTable, LiveTables
<1> QED
  BY <1>3, <1>4, <1>5, <1>6, BothKept
\* The new table holds all of the MemTable, so it hides no unreadable entry and brings
\* none.
LEMMA FillTableSpares ==
  ASSUME StoreSound, Sparing, FillTable
  PROVE  SparesAll
<1> USE DEF StoreSound, Inv, TypeInv, TypeOK, MemTypeOK, Locals
<1>1. /\ pc = "fillTable" /\ pc' = "manifest" /\ out \in Seqs
      /\ files' = [files EXCEPT ![out] = TableFile(table)]
      /\ sstables' = Append(sstables, out)
      /\ UNCHANGED <<table, manifest, wal>>
  BY DEF FillTable, Goto, StepAfterFill, memVars, Seqs
<1>2. /\ \A i \in DOMAIN manifest : manifest[i] # out
      /\ \A i \in DOMAIN sstables : sstables[i] # out
  BY <1>1 DEF NumbersFresh, Below, Seqs
<1>3. /\ \A i \in DOMAIN manifest : files'[manifest[i]] = files[manifest[i]]
      /\ \A i \in DOMAIN sstables : files'[sstables[i]] = files[sstables[i]]
      /\ files'[out].data = table
  BY <1>1, <1>2 DEF TableFile
<1>4. ~Exposed /\ ~Exposed'
  BY <1>1 DEF Exposed
<1>5. /\ Running /\ LiveTable = table /\ LiveTable' = table
      /\ LiveTables = sstables /\ LiveTables' = Append(sstables, out)
  BY <1>1 DEF Running, LiveTable, LiveTables
<1> SUFFICES ASSUME NEW k \in Keys, IsLost(k)' PROVE IsLost(k)
  BY DEF SparesAll
<1>6. CASE DiskLost(k)'
  BY <1>1, <1>3, <1>4, <1>6, DiskKept, LostIs
<1>7. CASE LiveLost(k)'
  <2>1. table[k] = Absent /\ <<Newest(files', Append(sstables, out), k), k>> \in unreadable'
    BY <1>5, <1>7 DEF LiveLost, NewestUnreadable
  <2>2. Newest(files', Append(sstables, out), k) = Newest(files', sstables, k)
    <3>1. ASSUME NEW fs
          PROVE  Newest(fs, Append(sstables, out), k) =
                   IF fs[out].data[k] # Absent THEN out ELSE Newest(fs, sstables, k)
      BY <1>1, NewestAppend
    <3>2. files'[out].data[k] = Absent
      BY <1>3, <2>1
    <3> QED
      BY <3>1, <3>2
  <2>3. NewestUnreadable(sstables, k)
    BY <1>3, <2>1, <2>2, NewestKept
  <2> QED
    BY <1>5, <2>1, <2>3, LostIs DEF LiveLost
<1> QED
  BY <1>6, <1>7, LostIsNext

\* A key a restart finds in the tables alone is in none but these for get.
LEMMA InstallManifestSpares ==
  ASSUME StoreSound, Sparing, InstallManifest
  PROVE  SparesAll
<1> USE DEF StoreSound, Inv, TypeInv, TypeOK
<1>1. /\ pc = "manifest" /\ pc' = "reset" /\ manifest' = sstables
      /\ UNCHANGED <<table, sstables, files, wal>>
  BY DEF InstallManifest, Goto, memVars
<1>2. /\ Running /\ LiveTable = table /\ LiveTable' = table
      /\ LiveTables = sstables /\ LiveTables' = sstables /\ DiskTables' = sstables
  BY <1>1 DEF Running, LiveTable, LiveTables, DiskTables, Exposed
<1> SUFFICES ASSUME NEW k \in Keys, IsLost(k)' PROVE IsLost(k)
  BY DEF SparesAll
<1>3. CASE DiskLost(k)'
  <2>1. Replayed(wal, k) = Absent /\ <<Newest(files', sstables, k), k>> \in unreadable'
    BY <1>1, <1>2, <1>3 DEF DiskLost, NewestUnreadable
  <2>2. table[k] = Absent
    BY <1>2, <2>1 DEF MemTableLogged
  <2>3. NewestUnreadable(sstables, k)
    BY <1>1, <2>1, NewestKept
  <2> QED
    BY <1>2, <2>2, <2>3, LostIs DEF LiveLost
<1>4. CASE LiveLost(k)'
  BY <1>1, <1>2, <1>4, LiveKept, LostIs
<1> QED
  BY <1>3, <1>4, LostIsNext

\* What the MemTable or the log showed is in the newest table, which has no damage.
LEMMA ResetSpares ==
  ASSUME SafeEnv, StoreSound, DamageInv, Sparing, ResetWal \/ ResetWalFails
  PROVE  SparesAll
<1> USE DEF StoreSound, Inv, TypeInv, TypeOK, MemTypeOK
<1>1. /\ pc = "reset" /\ pc' \in {"compact", "append", "idle"} /\ table' = NoEntries
      /\ UNCHANGED <<sstables, files, manifest>>
  BY DEF ResetWal, ResetWalFails, ResumeCall, ReturnOK, ReturnError, Goto, MemClear
<1>2. ResetWalFails => wal' = wal
  BY CloseWalSafe DEF ResetWalFails
<1>3. ResetWal => \A k : Replayed(wal', k) = Absent
  BY ReplayedNothing DEF ResetWal
<1>4. /\ Running /\ LiveTable = table /\ LiveTable' = NoEntries
      /\ LiveTables = sstables /\ LiveTables' = sstables
      /\ manifest = sstables
      /\ DiskTables = sstables /\ DiskTables' = sstables
  BY <1>1 DEF Running, LiveTable, LiveTables, DiskTables, Exposed, FlushCurrent
<1>5. sstables # <<>> /\ files[Last(sstables)].data = table /\ ~Damaged(Last(sstables))
  BY <1>1 DEF DamageInv
<1> SUFFICES ASSUME NEW k \in Keys, IsLost(k)' PROVE IsLost(k)
  BY DEF SparesAll
<1>6. <<Newest(files', sstables, k), k>> \in unreadable'
  BY <1>4, LostIsNext DEF DiskLost, LiveLost, NewestUnreadable
<1>7. NewestUnreadable(sstables, k)
  BY <1>1, <1>6, NewestKept
<1>8. table[k] = Absent
  <2> SUFFICES ASSUME table[k] # Absent PROVE FALSE
    OBVIOUS
  <2>1. Newest(files, sstables, k) = Last(sstables)
    BY <1>5, NewestLast
  <2> QED
    BY <1>5, <1>7, <2>1 DEF NewestUnreadable, Damaged
<1> QED
  BY <1>4, <1>7, <1>8, LostIs DEF LiveLost

\* The merged table has just been written, and has no damage.
LEMMA MergedSpares ==
  ASSUME StoreSound, DamageInv, Wearing, Sparing,
         PlaceOutput \/ RemoveInput \/ RemoveInputFails \/ RegisterOutput
  PROVE  SparesAll
<1> USE DEF StoreSound, Inv, TypeInv, TypeOK, Locals
<1>1. out \in Seqs
  BY DEF PlaceOutput, RemoveInput, RemoveInputFails, RegisterOutput, Seqs
<1>2. unreadable' \subseteq Seqs \X Keys
  BY SparingKeeps DEF Wearing
<1>3. \A k \in Keys : <<out, k>> \notin unreadable'
  <2>1. CASE PlaceOutput
    BY <2>1, SparingKeeps DEF PlaceOutput, Goto, Replaced
  <2>2. CASE RemoveInput \/ RemoveInputFails \/ RegisterOutput
    BY <2>2, SparingKeeps
       DEF RemoveInput, RemoveInputFails, RegisterOutput, DamageInv, Damaged
  <2> QED
    BY <2>1, <2>2
<1>4. \A k \in Keys : <<Newest(files', <<out>>, k), k>> \notin unreadable'
  BY <1>1, <1>2, <1>3, SoundTable
<1>5. LiveTables' = <<out>>
  BY DEF PlaceOutput, RemoveInput, RemoveInputFails, RegisterOutput, ResumeCall, ReturnOK, Goto,
         call, LiveTables
<1>6. \/ DiskTables' = <<out>>
      \/ PlaceOutput /\ DiskTables = manifest /\ DiskTables' = manifest
  BY DEF PlaceOutput, RemoveInput, RemoveInputFails, RegisterOutput, ResumeCall, ReturnOK, Goto,
         call, Advance, DiskTables, Exposed
<1> SUFFICES ASSUME NEW k \in Keys, IsLost(k)' PROVE IsLost(k)
  BY DEF SparesAll
<1>7. ~LiveLost(k)'
  BY <1>4, <1>5 DEF LiveLost, NewestUnreadable
<1>8. CASE DiskTables' = <<out>>
  BY <1>4, <1>7, <1>8, LostIsNext DEF DiskLost, NewestUnreadable
<1>9. CASE PlaceOutput /\ DiskTables = manifest /\ DiskTables' = manifest
  <2>1. /\ pc = "merge" /\ pc' = "remove" /\ cursor' = 1 /\ UNCHANGED <<manifest, wal>>
        /\ files' = [files EXCEPT ![out] = TableFile(Survivors(merged))]
    BY <1>9 DEF PlaceOutput, Goto
  <2>2. \A i \in DOMAIN manifest : manifest[i] # out
    BY <1>1, <2>1 DEF NumbersFresh, Below, Seqs
  <2>3. \A i \in DOMAIN manifest : files'[manifest[i]] = files[manifest[i]]
    BY <1>1, <2>1, <2>2
  <2>4. ~Exposed /\ ~Exposed'
    BY <2>1 DEF Exposed
  <2>5. DiskLost(k)'
    BY <1>7, LostIsNext
  <2> QED
    BY <2>1, <2>3, <2>4, <2>5, DiskKept, LostIs
<1> QED
  BY <1>6, <1>8, <1>9
\* The record in the log makes its key readable again, and takes nothing from another.
LEMMA AppendWalSpares ==
  ASSUME StoreSound, Sparing, AppendWal
  PROVE  SparesAll /\ op.key \notin Lost'
<1> USE DEF StoreSound, Inv, TypeInv, TypeOK, MemTypeOK, Locals
<1>1. /\ pc = "append" /\ pc' = "apply" /\ op \in Write /\ op.entry # Absent
      /\ wal' = Append(wal, op)
      /\ UNCHANGED <<op, table, sstables, files, manifest>>
  BY DEF AppendWal, Goto, memVars, Write, Entry
<1>2. /\ ~Exposed /\ ~Exposed' /\ Running
      /\ LiveTable = table /\ LiveTable' = [table EXCEPT ![op.key] = op.entry]
      /\ LiveTables = sstables /\ LiveTables' = sstables
      /\ DiskTables = manifest /\ DiskTables' = manifest
  BY <1>1 DEF Exposed, Running, LiveTable, LiveTables, DiskTables
<1>3. ASSUME NEW k PROVE Replayed(wal', k) = IF op.key = k THEN op.entry ELSE Replayed(wal, k)
  BY <1>1, ReplayedAppend DEF LogWhole
<1>4. ASSUME NEW k \in Keys, IsLost(k)'
      PROVE  k # op.key /\ IsLost(k)
  <2>1. CASE DiskLost(k)'
    <3>1. Replayed(wal', k) = Absent /\ <<Newest(files', manifest, k), k>> \in unreadable'
      BY <1>2, <2>1 DEF DiskLost, NewestUnreadable
    <3>2. k # op.key /\ Replayed(wal, k) = Absent
      BY <1>1, <1>3, <3>1
    <3>3. NewestUnreadable(manifest, k)
      BY <1>1, <3>1, NewestKept
    <3> QED
      BY <1>2, <3>2, <3>3, LostIs DEF DiskLost
  <2>2. CASE LiveLost(k)'
    <3>1. LiveTable'[k] = Absent /\ <<Newest(files', sstables, k), k>> \in unreadable'
      BY <1>2, <2>2 DEF LiveLost, NewestUnreadable
    <3>2. k # op.key /\ table[k] = Absent
      BY <1>1, <1>2, <3>1
    <3>3. NewestUnreadable(sstables, k)
      BY <1>1, <3>1, NewestKept
    <3> QED
      BY <1>2, <3>2, <3>3, LostIs DEF LiveLost
  <2> QED
    BY <1>4, <2>1, <2>2, LostIsNext
<1> QED
  BY <1>4 DEF SparesAll, Lost

\* After a restart get reads what the restart read.
LEMMA FinishOpenSpares ==
  ASSUME StoreSound, Sparing, FinishOpen
  PROVE  SparesAll
<1> USE DEF StoreSound, Inv, TypeInv, TypeOK
<1>1. /\ pc = "replay" /\ pc' = "idle" /\ ~AtRecord
      /\ UNCHANGED <<table, sstables, files, manifest, wal>>
  BY DEF FinishOpen, OpenLog, ReturnOK, memVars, disk
<1>2. cursor = Len(wal) + 1
  BY <1>1 DEF AtRecord, LogWhole, Loops
<1>3. SubSeq(wal, 1, cursor - 1) = wal
  BY <1>2, PrefixEnds
<1>4. sstables = manifest /\ \A k \in Keys : table[k] = Replayed(wal, k)
  BY <1>1, <1>3 DEF Loops
<1>5. /\ DiskTables = manifest /\ DiskTables' = manifest
      /\ LiveTables' = manifest /\ LiveTable' = table
  BY <1>1, <1>4 DEF DiskTables, Exposed, LiveTables, LiveTable
<1> SUFFICES ASSUME NEW k \in Keys, IsLost(k)' PROVE IsLost(k)
  BY DEF SparesAll
<1>6. Replayed(wal, k) = Absent /\ <<Newest(files', manifest, k), k>> \in unreadable'
  BY <1>1, <1>4, <1>5, LostIsNext DEF DiskLost, LiveLost, NewestUnreadable
<1>7. NewestUnreadable(manifest, k)
  BY <1>1, <1>6, NewestKept
<1> QED
  BY <1>5, <1>6, <1>7, LostIs DEF DiskLost

\* A stuttering step of the store.
LEMMA StutterSpares ==
  ASSUME TypeInv, Sparing, UNCHANGED vars
  PROVE  SparesAll
<1>1. /\ UNCHANGED <<files, wal, DiskTables, LiveTable, LiveTables, Running>>
  BY DEF vars, call, memVars, work, disk, DiskTables, Exposed, LiveTable, LiveTables, Running
<1>2. LiveTables \in Seq(Seqs) /\ DiskTables \in Seq(Seqs)
  <2>1. pc = "remove" => LiveTables = <<out>>
    BY DEF LiveTables
  <2> QED
    BY <2>1, LiveTablesType DEF DiskTables, Exposed, TypeInv, TypeOK
<1> SUFFICES ASSUME NEW k \in Keys, IsLost(k)' PROVE IsLost(k)
  BY DEF SparesAll
<1>3. CASE DiskLost(k)'
  <2>1. Replayed(wal, k) = Absent /\ <<Newest(files', DiskTables, k), k>> \in unreadable'
    BY <1>1, <1>3 DEF DiskLost, NewestUnreadable
  <2> QED
    BY <1>1, <1>2, <2>1, NewestKept, LostIs DEF DiskLost
<1>4. CASE LiveLost(k)'
  <2>1. Running /\ LiveTable[k] = Absent /\ <<Newest(files', LiveTables, k), k>> \in unreadable'
    BY <1>1, <1>4 DEF LiveLost, NewestUnreadable
  <2> QED
    BY <1>1, <1>2, <2>1, NewestKept, LostIs DEF LiveLost
<1> QED
  BY <1>3, <1>4, LostIsNext

\* No step of the store loses a key, and a write brings its own back.
LEMMA MoveSpares ==
  ASSUME SafeEnv, StoreSound, DamageInv, Wearing, StoreMove, Sparing
  PROVE  Lost' \subseteq Lost /\ (AppendWal => op.key \notin Lost')
<1>1. AppendWal => op.key \notin Lost'
  BY AppendWalSpares
<1> SUFFICES SparesAll
  BY <1>1 DEF SparesAll, Lost
<1>2. TypeInv
  BY DEF StoreSound
<1>3. CASE FlushStep
  BY <1>2, <1>3, FlushUnmoved, UnmovedSpares, FreshSpares, FillTableSpares, InstallManifestSpares,
     ResetSpares, NoUnsafeFault DEF FlushStep
<1>4. CASE CompactStep \/ MergeUnreadable
  BY <1>2, <1>4, CompactUnmoved, UnmovedSpares, MergedSpares, NoUnsafeFault DEF CompactStep
<1>5. CASE WriteStep
  BY <1>2, <1>5, WriteUnmoved, UnmovedSpares, AppendWalSpares, NoUnsafeFault DEF WriteStep
<1>6. CASE OpenStep
  BY <1>2, <1>6, OpenUnmoved, UnmovedSpares, FinishOpenSpares, NoUnsafeFault DEF OpenStep
<1>7. CASE \/ \E k \in Keys, v \in Values : put(k, v)
           \/ \E k \in Keys : remove(k)
           \/ flush \/ compact \/ ReturnsAtOnce \/ open \/ close \/ Crash
  BY <1>2, <1>7, CallUnmoved, UnmovedSpares DEF put, remove, Entry
<1>8. CASE UNCHANGED vars
  BY <1>2, <1>8, StutterSpares
<1> QED
  BY <1>3, <1>4, <1>5, <1>6, <1>7, <1>8 DEF StoreMove, Next, Step
-----------------------------------------------------------------------------
(* The invariant behind damage.                                            *)

\* A step of the command line is damage, or a step of the store that adds none.
LEMMA CliStepSpares ==
  ASSUME [CliNext]_cliVars
  PROVE  Decays \/ (StoreMove /\ Sparing)
<1> SUFFICES ASSUME ~Decays PROVE Sparing
  BY CliStepMoves
<1>1. CASE Runs
  BY <1>1 DEF Runs, StoreStep, Sparing
<1>2. CASE ~Runs
  <2>1. /\ UNCHANGED <<unreadable, files>>
        /\ ~ (pc = "merge" /\ pc' = "remove")
    <3>1. CASE Start \/ EXIT \/ Dies
      BY <3>1 DEF Start, EXIT, Dies, open, close, Crash, Goto
    <3>2. ASSUME NEW k \in Keys, NEW v \in Values, PUT(k, v)
          PROVE  UNCHANGED <<unreadable, files>> /\ pc = "idle"
      BY <3>2 DEF PUT, Read, put, CallWrite, disk
    <3>3. ASSUME NEW k \in Keys, DELETE(k)
          PROVE  UNCHANGED <<unreadable, files>> /\ pc = "idle"
      BY <3>3 DEF DELETE, Read, remove, CallWrite, disk
    <3>4. CASE FLUSH \/ COMPACT
      BY <3>4 DEF FLUSH, COMPACT, Read, ReturnsAtOnce, flush, compact, disk
    <3>5. CASE CompactSkipped \/ Reports \/ Started \/ UNCHANGED cliVars
      BY <3>5 DEF CompactSkipped, Reports, Started, cliVars, storeVars, vars, call, disk
    <3> QED
      BY <1>2, <3>1, <3>2, <3>3, <3>4, <3>5 DEF CliNext, GoesOn
  <2> QED
    BY <2>1 DEF Sparing, Kept, Replaced
<1> QED
  BY <1>1, <1>2

\* Damage comes between two commands.
LEMMA DecaysQuietly ==
  ASSUME Session, Decays
  PROVE  /\ pc \in {"idle", "closed"}
         /\ UNCHANGED vars
         /\ unreadable \subseteq unreadable'
         /\ \A l \in unreadable' : l \in unreadable \/ files[l[1]].state = "complete"
  BY DEF Session, Decays, Damage

\* Where the store comes to the steps that count on a table.
LEMMA PcEnters ==
  ASSUME SafeEnv, StoreMove
  PROVE  /\ pc' = "fillTable" => CreateTable \/ UNCHANGED vars
         /\ pc' \in {"manifest", "reset"} => FillTable \/ InstallManifest \/ UNCHANGED vars
         /\ pc' = "remove" => PlaceOutput \/ RemoveInput \/ RemoveInputFails \/ UNCHANGED vars
         /\ pc = "append" /\ pc' = "apply" => AppendWal
<1>1. CASE FlushStep
  BY <1>1, NoUnsafeFault
     DEF FlushStep, CreateTable, CreateTableFails, FillTable, FillTableFails, InstallManifest,
         InstallManifestFails, OnManifestError, ResetWal, ResetWalFails, ResumeCall, ReturnOK,
         ReturnError, Goto, StepAfterFill
<1>2. CASE CompactStep
  BY <1>2, NoUnsafeFault
     DEF CompactStep, BeginCompaction, MergeTable, PlaceOutput, CompactionFails, RemoveInput,
         RemoveInputFails, RegisterOutput, ResumeCall, ReturnOK, ReturnError, Goto, call
<1>3. CASE WriteStep \/ OpenStep
  BY <1>3, NoUnsafeFault
     DEF WriteStep, AppendWal, AppendRefused, AppendFails, ApplyWrite, OpenStep, LoadTable,
         LoadTableFails, StartReplay, ReplayRecord, FinishOpen, OpenLog, ReplayFails, OpenGivesUp,
         ReturnOK, ReturnError, Goto, call
<1>4. CASE \/ \E k \in Keys, v \in Values : put(k, v)
           \/ \E k \in Keys : remove(k)
           \/ flush \/ compact \/ ReturnsAtOnce \/ MergeUnreadable \/ open \/ close \/ Crash
  <2>1. pc' \notin {"fillTable", "manifest", "reset", "remove", "apply"}
    BY <1>4 DEF put, remove, CallWrite, flush, compact, ReturnsAtOnce, MergeUnreadable, OnUnreadable,
                ReturnError, open, close, Crash, Goto
  <2> QED
    BY <2>1
<1>5. UNCHANGED vars => pc' = pc
  BY DEF vars, call
<1> QED
  BY <1>1, <1>2, <1>3, <1>4, <1>5 DEF StoreMove, Next, Step

\* What the running call has just written has no damage: damage needs a whole file, and a
\* file written anew loses what it had.
LEMMA DamageStep ==
  ASSUME SafeEnv, StoreSound, Session, DamageInv, [CliNext]_cliVars
  PROVE  DamageInv'
<1>1. CASE Decays
  <2>1. /\ pc' \in {"idle", "closed"} /\ files' = files
        /\ \A l \in unreadable' : files[l[1]].state = "complete"
    BY <1>1, DecaysQuietly DEF DamageInv, vars, call, disk
  <2> QED
    BY <2>1 DEF DamageInv
<1>2. CASE StoreMove /\ Sparing
  <2> USE DEF StoreSound, Inv, TypeInv, TypeOK, MemTypeOK, Locals
  <2>1. \A l \in unreadable' : files'[l[1]].state = "complete"
    BY <1>2, SparingKeeps DEF DamageInv
  <2>2. pc' = "fillTable" => files'[out'].state = "partial"
    <3>1. CASE CreateTable
      BY <3>1 DEF CreateTable, PartialFile, Seqs
    <3>2. CASE UNCHANGED vars
      BY <3>2 DEF vars, call, work, disk, DamageInv
    <3> QED
      BY <1>2, <3>1, <3>2, PcEnters
  <2>3. pc' \in {"manifest", "reset"} =>
          sstables' # <<>> /\ files'[Last(sstables')].data = table' /\ ~Damaged(Last(sstables))'
    <3>1. CASE FillTable
      <4>1. /\ pc = "fillTable" /\ out \in Seqs /\ files' = [files EXCEPT ![out] = TableFile(table)]
            /\ sstables' = Append(sstables, out) /\ table' = table
        BY <3>1 DEF FillTable, memVars, Seqs
      <4>2. sstables' # <<>> /\ Last(sstables') = out
        BY <4>1, LastAppended
      <4>3. files'[out].data = table /\ files'[out].state = "complete"
        BY <4>1 DEF TableFile
      <4>4. files[out].state = "partial"
        BY <4>1 DEF DamageInv
      <4>5. ASSUME NEW k \in Keys PROVE <<out, k>> \notin unreadable'
        BY <1>2, <4>3, <4>4, SparingKeeps
      <4> QED
        BY <4>1, <4>2, <4>3, <4>5 DEF Damaged
    <3>2. CASE InstallManifest \/ UNCHANGED vars
      <4>1. /\ UNCHANGED <<sstables, files, table>>
            /\ pc' \in {"manifest", "reset"} => pc \in {"manifest", "reset"}
        BY <3>2 DEF InstallManifest, vars, call, memVars, disk
      <4>2. ASSUME NEW k \in Keys, <<Last(sstables), k>> \in unreadable'
            PROVE  <<Last(sstables), k>> \in unreadable
        BY <1>2, <4>2, SparingKeeps
      <4> QED
        BY <4>1, <4>2 DEF DamageInv, Damaged
    <3> QED
      BY <1>2, <3>1, <3>2, PcEnters
  <2>4. pc' = "remove" => ~Damaged(out)'
    <3>1. CASE PlaceOutput
      BY <1>2, <3>1, SparingKeeps DEF PlaceOutput, Goto, Replaced, Damaged
    <3>2. CASE RemoveInput \/ RemoveInputFails \/ UNCHANGED vars
      <4>1. out' = out /\ (pc' = "remove" => pc = "remove")
        BY <3>2 DEF RemoveInput, RemoveInputFails, vars, call, work
      <4> QED
        BY <1>2, <4>1, SparingKeeps DEF DamageInv, Damaged
    <3> QED
      BY <1>2, <3>1, <3>2, PcEnters
  <2> QED
    BY <2>1, <2>2, <2>3, <2>4 DEF DamageInv
<1> QED
  BY <1>1, <1>2, CliStepSpares
-----------------------------------------------------------------------------
(* The steps of the command line, as steps of the abstract map.            *)

\* What a restart and get answer with, for every key that is not lost.
ReadableCurrent ==
  /\ RestartAnswers = committed
  /\ pc = "idle" => \A k \in Keys \ Lost : getPastErrors(k) = committed[k]

LEMMA SoundAnswers == StoreSound => ReadableCurrent
<1> SUFFICES ASSUME StoreSound PROVE ReadableCurrent
  OBVIOUS
<1>1. /\ committed \in [Keys -> Values \cup {Absent}]
      /\ sstables \in Seq(Seqs) /\ manifest \in Seq(Seqs)
      /\ pc = "remove" => <<out>> \in Seq(Seqs)
  <2>1. pc = "remove" => out \in Seqs
    BY DEF StoreSound, TypeInv, TypeOK, Locals, Seqs
  <2> QED
    BY <2>1 DEF StoreSound, TypeInv, TypeOK
<1>2. DiskTables \in Seq(Seqs)
  BY <1>1 DEF DiskTables, Exposed
<1>3. ASSUME NEW k \in Keys
      PROVE  Visible(Replayed(wal, k), DiskTables, k) = committed[k]
  BY DEF StoreSound, Inv, MergeCurrent, DiskCurrent, Exposed, DiskTables
<1>4. ASSUME NEW k \in Keys, ~IsLost(k)
      PROVE  VisiblePastErrors(Replayed(wal, k), DiskTables, k) = committed[k]
  BY <1>2, <1>3, <1>4, ReadableShows DEF IsLost
<1>5. RestartAnswers = committed
  BY <1>1, <1>4 DEF RestartAnswers
<1>6. ASSUME pc = "idle", NEW k \in Keys \ Lost
      PROVE  getPastErrors(k) = committed[k]
  <2>1. Running /\ LiveTable = table /\ LiveTables = sstables
    BY <1>6 DEF Running, LiveTable, LiveTables
  <2>2. Visible(table[k], sstables, k) = committed[k]
    BY <2>1 DEF StoreSound, Inv, MemoryCurrent
  <2>3. ~Fades(table[k], sstables, k)
    BY <1>6, <2>1 DEF Lost, IsLost
  <2> QED
    BY <1>1, <2>2, <2>3, ReadableShows DEF getPastErrors
<1> QED
  BY <1>5, <1>6 DEF ReadableCurrent

\* The abstract answers, when ReadableCurrent holds.
LEMMA ReadableIs ==
  ASSUME ReadableCurrent
  PROVE  /\ Fading!Readable = [k \in Keys \ Lost |-> committed[k]]
         /\ pc = "idle" => [k \in Keys \ Lost |-> getPastErrors(k)] = Fading!Readable
  BY DEF ReadableCurrent, Fading!Readable

LEMMA FadingInit == CliInit => Fading!Init
<1> SUFFICES ASSUME CliInit PROVE Fading!Init
  OBVIOUS
<1>1. Init /\ unreadable = {}
  BY DEF CliInit, StoreInit
<1>2. \A k \in Keys : ~IsLost(k)
  BY <1>1 DEF IsLost, Fades
<1>3. StoreSound
  BY <1>1, InitType, InitInv, InitOrphan DEF StoreSound, OrphanInv
<1>4. RestartAnswers = NoEntries
  BY <1>1, <1>3, SoundAnswers DEF ReadableCurrent, Init
<1> QED
  BY <1>1, <1>2, <1>4 DEF Init, Fading!Init, NoEntries, Lost

LEMMA FadingShapes ==
  ASSUME TypeInv, ReadableCurrent, ReadableCurrent', Shapes,
         Lost' \subseteq Lost, Commits => op.key \notin Lost'
  PROVE  [Fading!Next]_(Fading!vars)
<1> DEFINE answers == IF pc = "idle" THEN [k \in Keys \ Lost |-> getPastErrors(k)] ELSE NotReady
<1>1. answers = IF pc = "idle" THEN Fading!Readable ELSE NotReady
  BY ReadableIs
<1>2. answers' = IF pc' = "idle" THEN Fading!Readable' ELSE NotReady
  BY DEF ReadableCurrent, Fading!Readable
<1>3. RestartAnswers = committed /\ RestartAnswers' = committed'
  BY DEF ReadableCurrent
<1> USE <1>3 DEF Fading!NothingLost
<1>4. CASE Hidden
  BY <1>4 DEF Hidden, Fading!Next, Fading!Recover
<1>5. CASE Maintains
  BY <1>2, <1>5 DEF Maintains, Fading!Next, Fading!Maintain, Fading!Answering
<1>6. CASE Begins
  BY <1>1, <1>6 DEF Begins, Fading!Next, Fading!Call, Fading!Write, Write, Entry
<1>7. CASE Commits
  <2>1. /\ op.entry \in Values \cup {Tombstone}
        /\ op # NoWrite
    BY <1>7, SlotAssumption, StoreAssumption DEF Commits, Write, Entry
  <2>2. Reply(op.entry) = IF op.entry = Tombstone THEN Absent ELSE op.entry
    BY <2>1, SlotAssumption DEF Reply
  <2>3. Lost' \subseteq Lost \ {op.key}
    BY <1>7
  <2> QED
    BY <1>7, <2>1, <2>2, <2>3 DEF Commits, Fading!Next, Fading!TakeEffect
<1>8. CASE Ends
  BY <1>2, <1>8 DEF Ends, Fading!Next, Fading!Return
<1>9. CASE ProcessDies
  BY <1>9 DEF ProcessDies, Fading!Next, Fading!Crash
<1>10. CASE UNCHANGED vars
  <2>1. UNCHANGED <<pc, op, result, committed>> /\ result \in {"ok", "error"}
    BY <1>10 DEF vars, call, TypeInv, TypeOK
  <2>2. CASE pc = "idle"
    <3>1. op = NoWrite
      BY <2>2 DEF TypeInv, Locals
    <3> QED
      BY <1>2, <2>1, <2>2, <3>1 DEF Fading!Next, Fading!Maintain, Fading!Answering
  <2>3. CASE pc # "idle"
    BY <2>1, <2>3 DEF Fading!Next, Fading!Recover
  <2> QED
    BY <2>2, <2>3
<1> QED
  BY <1>4, <1>5, <1>6, <1>7, <1>8, <1>9, <1>10 DEF Shapes

\* Damage is where the abstract map may lose keys.
LEMMA DecaysFades ==
  ASSUME TypeInv, Session, ReadableCurrent, ReadableCurrent', Decays
  PROVE  [Fading!Next]_(Fading!vars)
<1>1. /\ pc \in {"idle", "closed"} /\ op = NoWrite
      /\ UNCHANGED <<pc, op, result, committed, table, wal, files, sstables, manifest, inputs, out,
                     cursor>>
      /\ unreadable \subseteq unreadable'
  BY DecaysQuietly DEF vars, call, memVars, work, disk, TypeInv, Locals
<1>2. Lost \subseteq Lost' /\ Lost' \subseteq Keys
  <2>1. ASSUME NEW k \in Keys, IsLost(k) PROVE IsLost(k)'
    BY <1>1, <2>1 DEF IsLost, Fades, Newest, DiskTables, Exposed, Running, LiveTable, LiveTables,
                      Replayed, Touching, Valid
  <2> QED
    BY <2>1 DEF Lost
<1>3. /\ pc = "idle" => [k \in Keys \ Lost |-> getPastErrors(k)] = Fading!Readable
      /\ pc' = "idle" => [k \in Keys \ Lost |-> getPastErrors(k)]' = Fading!Readable'
  BY ReadableIs DEF ReadableCurrent, Fading!Readable
<1>4. RestartAnswers = committed /\ RestartAnswers' = committed'
  BY DEF ReadableCurrent
<1> QED
  BY <1>1, <1>2, <1>3, <1>4 DEF Fading!Next, Fading!Fade

\* Over tables that go bad, the store below the commands keeps the promise of DurableMap for
\* every key whose newest entry can be read, now and after a restart.  Nothing but damage
\* makes a key unreadable: no flush, no compaction that meets damage and fails, no error,
\* crash or restart; and a write makes its key readable (kv_store.cpp:158-168, 300-343).
THEOREM CliKeepsReadable ==
  ASSUME SafeEnv
  PROVE  CliSpec => ImplementsFading
<1> DEFINE I == Session /\ DamageInv
<1>1. CliInit => I /\ Fading!Init
  <2>1. CliInit => Session
    BY CliBegins
  <2>2. CliInit => DamageInv
    BY DEF CliInit, StoreInit, Init, DamageInv
  <2> QED
    BY <2>1, <2>2, FadingInit
<1>2. StoreSound /\ I /\ [CliNext]_cliVars => I'
  BY SessionStep, DamageStep
<1>3. ASSUME StoreSound, StoreSound', CliTypeOK, I, [CliNext]_cliVars
      PROVE  [Fading!Next]_(Fading!vars)
  <2>1. TypeInv /\ ReadableCurrent /\ ReadableCurrent' /\ Wearing
    <3>1. StoreSound' => ReadableCurrent'
      BY SoundAnswers, PTL
    <3> QED
      BY <1>3, <3>1, SoundAnswers DEF StoreSound, CliTypeOK, Wearing
  <2>2. CASE Decays
    BY <1>3, <2>1, <2>2, DecaysFades
  <2>3. CASE StoreMove /\ Sparing
    <3>1. Shapes
      BY <2>1, <2>3, MoveShapes
    <3>2. Lost' \subseteq Lost /\ (AppendWal => op.key \notin Lost')
      BY <1>3, <2>1, <2>3, MoveSpares
    <3>3. Commits => AppendWal
      BY <2>3, PcEnters DEF Commits
    <3> QED
      BY <2>1, <3>1, <3>2, <3>3, FadingShapes
  <2> QED
    BY <1>3, <2>2, <2>3, CliStepSpares
<1> HIDE DEF I
<1> QED
  BY <1>1, <1>2, <1>3, CliStore, CliTypeCorrect, PTL DEF CliSpec, ImplementsFading, Fading!Spec
=============================================================================
