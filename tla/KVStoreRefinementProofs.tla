---------------------- MODULE KVStoreRefinementProofs ----------------------
(***************************************************************************)
(* In a safe environment the store implements DurableMap: every step of a  *)
(* call, every failure of SafeFaults and every survivable crash is one of  *)
(* the abstract map's steps, or a stuttering step.  And in every           *)
(* environment it uses its log as a RecordLog.                             *)
(***************************************************************************)
EXTENDS KVStoreSafetyProofs

\* The abstract map, seen through Inv: what a restart would read is the map of the
\* promised writes, also while the inputs of a merge are being removed, and between
\* calls that is what get answers.
LEMMA AbstractState ==
  ASSUME TypeInv, Inv
  PROVE  /\ RecoveredFrom(IF Exposed THEN <<out>> ELSE manifest) = committed
         /\ pc = "idle" => [k \in Keys |-> get(k)] = committed
<1>1. committed \in [Keys -> Values \cup {Absent}]
  BY DEF TypeInv, TypeOK
<1>2. \A k \in Keys :
        Visible(Replayed(wal, k), IF Exposed THEN <<out>> ELSE manifest, k) = committed[k]
  <2>1. CASE Exposed
    BY <2>1 DEF Exposed, Inv, MergeCurrent
  <2>2. CASE ~Exposed
    BY <2>2 DEF Inv, DiskCurrent
  <2> QED
    BY <2>1, <2>2
<1>3. ASSUME pc = "idle", NEW k \in Keys
      PROVE  get(k) = committed[k]
  <2>1. LiveTable = table /\ LiveTables = sstables /\ Running
    BY <1>3 DEF LiveTable, LiveTables, Running
  <2> QED
    BY <2>1 DEF Inv, MemoryCurrent, get
<1>4. RecoveredFrom(IF Exposed THEN <<out>> ELSE manifest) = committed
  BY <1>1, <1>2 DEF RecoveredFrom
<1> QED
  BY <1>1, <1>3, <1>4

\* A step inside a call: nothing of it can be seen.
Hidden ==
  /\ UNCHANGED <<committed, op, result>>
  /\ pc \notin {"idle", "apply"} /\ pc' \notin {"idle", "apply"}

\* A step of a call that writes nothing, or its beginning or its end.
Maintains ==
  /\ UNCHANGED committed
  /\ op = NoWrite /\ op' = NoWrite
  /\ pc # "apply" /\ pc' # "apply"
  /\ result' \in {"ok", "error"}

\* put or remove begins.
Begins ==
  /\ UNCHANGED <<committed, result>>
  /\ pc = "idle" /\ pc' \notin {"idle", "apply"}
  /\ op = NoWrite /\ op' \in Write

\* Its record is in the log.
Commits ==
  /\ pc = "append" /\ pc' = "apply"
  /\ op \in Write
  /\ UNCHANGED <<op, result>>
  /\ committed' = [committed EXCEPT ![op.key] = Reply(op.entry)]

\* It returns.
Ends ==
  /\ UNCHANGED committed
  /\ op # NoWrite /\ op' = NoWrite
  /\ pc # "idle" /\ pc' = "idle"
  /\ result' = IF pc = "apply" THEN "ok" ELSE "error"

\* The process dies.
ProcessDies ==
  /\ UNCHANGED committed
  /\ op' = NoWrite
  /\ pc' = "closed"
  /\ result' = "ok"

Shapes == Hidden \/ Maintains \/ Begins \/ Commits \/ Ends \/ ProcessDies \/ UNCHANGED vars

\* Each step of the store has one of these shapes.
LEMMA FlushShapes ==
  ASSUME SafeEnv, TypeInv, FlushStep
  PROVE  Shapes
<1>2. result \in {"ok", "error"}
  BY DEF TypeInv, TypeOK
<1>3. CASE CreateTable
  BY <1>3 DEF CreateTable, Goto, Shapes, Hidden
<1>4. CASE CreateTableFails
  BY <1>4 DEF CreateTableFails, ReturnError, Shapes, Maintains, Ends
<1>5. CASE FillTable
  BY <1>5 DEF FillTable, Goto, StepAfterFill, Shapes, Hidden
<1>6. CASE FillTableFails
  BY <1>6 DEF FillTableFails, ReturnError, Shapes, Maintains, Ends
<1>7. CASE InstallManifest
  BY <1>7 DEF InstallManifest, Goto, Shapes, Hidden
<1>8. CASE InstallManifestFails
  BY <1>8 DEF InstallManifestFails, OnManifestError, ReturnError, Shapes, Maintains, Ends
<1>9. CASE ResetWal
  BY <1>2, <1>9 DEF ResetWal, ResumeCall, ReturnOK, Goto, Shapes, Hidden, Maintains
<1>10. CASE ResetWalFails
  BY <1>10 DEF ResetWalFails, ReturnError, Shapes, Maintains, Ends
<1> QED
  BY <1>3, <1>4, <1>5, <1>6, <1>7, <1>8, <1>9, <1>10, NoUnsafeFault DEF FlushStep

LEMMA CompactShapes ==
  ASSUME SafeEnv, TypeInv, CompactStep
  PROVE  Shapes
<1>1. CASE BeginCompaction
  BY <1>1 DEF BeginCompaction, Goto, Shapes, Hidden
<1>2. CASE MergeTable
  BY <1>2 DEF MergeTable, call, Shapes, Hidden
<1>3. CASE PlaceOutput
  BY <1>3 DEF PlaceOutput, Goto, Shapes, Hidden
<1>4. CASE CompactionFails
  BY <1>4 DEF CompactionFails, ReturnError, Shapes, Maintains, Ends
<1>5. CASE RemoveInput \/ RemoveInputFails
  BY <1>5 DEF RemoveInput, RemoveInputFails, call, Shapes, Hidden
<1>6. CASE RegisterOutput
  BY <1>6 DEF RegisterOutput, ResumeCall, ReturnOK, Goto, Shapes, Hidden, Maintains
<1> QED
  BY <1>1, <1>2, <1>3, <1>4, <1>5, <1>6, NoUnsafeFault DEF CompactStep

LEMMA WriteShapes ==
  ASSUME SafeEnv, TypeInv, WriteStep
  PROVE  Shapes
<1>1. pc \in {"append", "apply"} => op # NoWrite /\ op \in Write
  BY DEF TypeInv, TypeOK, Locals
<1>2. CASE AppendWal
  BY <1>1, <1>2 DEF AppendWal, Promise, Goto, Shapes, Commits
<1>3. CASE AppendRefused
  BY <1>1, <1>3 DEF AppendRefused, ReturnError, Shapes, Ends
<1>4. CASE AppendFails
  BY <1>1, <1>4 DEF AppendFails, ReturnError, Shapes, Ends
<1>5. CASE ApplyWrite
  BY <1>1, <1>5 DEF ApplyWrite, ReturnOK, Shapes, Ends
<1> QED
  BY <1>2, <1>3, <1>4, <1>5, NoUnsafeFault DEF WriteStep

LEMMA OpenShapes ==
  ASSUME SafeEnv, TypeInv, OpenStep
  PROVE  Shapes
<1>1. /\ pc \in {"loading", "replay"} => op = NoWrite
      /\ result \in {"ok", "error"}
  BY DEF TypeInv, TypeOK, Locals
<1>2. CASE LoadTable
  BY <1>2 DEF LoadTable, call, Shapes, Hidden
<1>3. CASE LoadTableFails
  BY <1>1, <1>3 DEF LoadTableFails, OpenGivesUp, Shapes, Maintains
<1>4. CASE StartReplay
  BY <1>4 DEF StartReplay, Goto, Shapes, Hidden
<1>5. CASE ReplayRecord
  BY <1>5 DEF ReplayRecord, call, Shapes, Hidden
<1>6. CASE FinishOpen
  BY <1>1, <1>6 DEF FinishOpen, OpenLog, ReturnOK, Shapes, Maintains
<1>7. CASE ReplayFails
  BY <1>1, <1>7 DEF ReplayFails, OpenGivesUp, Shapes, Maintains
<1> QED
  BY <1>2, <1>3, <1>4, <1>5, <1>6, <1>7, NoUnsafeFault DEF OpenStep

LEMMA CallShapes ==
  ASSUME TypeInv,
         \/ \E k \in Keys, v \in Values : put(k, v)
         \/ \E k \in Keys : remove(k)
         \/ flush \/ compact \/ open \/ close \/ Crash
  PROVE  Shapes
<1>1. /\ pc \in {"closed", "idle"} => op = NoWrite
      /\ result \in {"ok", "error"}
  BY DEF TypeInv, TypeOK, Locals
<1>2. ASSUME NEW k \in Keys, NEW e \in Entry, CallWrite(k, e)
      PROVE  Shapes
  BY <1>1, <1>2 DEF CallWrite, Write, Shapes, Begins
<1>3. CASE flush \/ compact \/ open \/ close
  BY <1>1, <1>3 DEF flush, compact, open, close, Goto, Shapes, Maintains
<1>4. CASE Crash
  BY <1>4 DEF Crash, Shapes, ProcessDies
<1> QED
  BY <1>2, <1>3, <1>4 DEF put, remove, Entry

LEMMA StepShapes ==
  ASSUME SafeEnv, TypeInv, [Next]_vars
  PROVE  Shapes
  BY FlushShapes, CompactShapes, WriteShapes, OpenShapes, CallShapes DEF Next, Step, Shapes

-----------------------------------------------------------------------------
(* The shapes, as steps of the abstract map.                               *)

\* The abstract state, when Inv holds.
Abstract ==
  /\ RecoveredFrom(IF Exposed THEN <<out>> ELSE manifest) = committed
  /\ (IF pc = "idle" THEN [k \in Keys |-> get(k)] ELSE NotReady)
       = (IF pc = "idle" THEN committed ELSE NotReady)

LEMMA InitMaps == Init => Durable!Init
<1> SUFFICES ASSUME Init PROVE Durable!Init
  OBVIOUS
<1>1. TypeInv /\ Inv
  BY InitType, InitInv
<1>2. RecoveredFrom(IF Exposed THEN <<out>> ELSE manifest) = committed
  BY <1>1, AbstractState
<1> QED
  BY <1>2 DEF Init, Durable!Init, NoEntries

LEMMA ShapeMaps ==
  ASSUME TypeInv, Abstract, Abstract', Shapes
  PROVE  [Durable!Next]_(Durable!vars)
<1>r. Durable!Readable = committed /\ Durable!Readable' = committed'
  <2>1. ASSUME NEW ts PROVE [k \in Keys \ {} |-> RecoveredFrom(ts)[k]] = RecoveredFrom(ts)
    BY DEF RecoveredFrom
  <2>2. ASSUME NEW ts
        PROVE  [k \in Keys \ {} |-> RecoveredFrom(ts)'[k]] = RecoveredFrom(ts)'
    BY DEF RecoveredFrom
  <2> QED
    BY <2>1, <2>2 DEF Abstract, Durable!Readable
<1> USE <1>r DEF Abstract, Durable!NothingLost
<1>1. CASE Hidden
  BY <1>1 DEF Hidden, Durable!vars
<1>2. CASE Maintains
  BY <1>2 DEF Maintains, Durable!Next, Durable!Maintain, Durable!Answering
<1>3. CASE Begins
  BY <1>3 DEF Begins, Durable!Next, Durable!Call, Durable!Write, Write, Entry
<1>4. CASE Commits
  <2>1. /\ op.entry \in Values \cup {Tombstone}
        /\ op # NoWrite
    BY <1>4, SlotAssumption, StoreAssumption DEF Commits, Write, Entry
  <2>2. Reply(op.entry) = IF op.entry = Tombstone THEN Absent ELSE op.entry
    BY <2>1, SlotAssumption DEF Reply
  <2> QED
    BY <1>4, <2>1, <2>2 DEF Commits, Durable!Next, Durable!TakeEffect
<1>5. CASE Ends
  BY <1>5 DEF Ends, Durable!Next, Durable!Return
<1>6. CASE ProcessDies
  BY <1>6 DEF ProcessDies, Durable!Next, Durable!Crash
<1>7. CASE UNCHANGED vars
  BY <1>7 DEF vars, call, disk, work, Exposed, Durable!vars
<1> QED
  BY <1>1, <1>2, <1>3, <1>4, <1>5, <1>6, <1>7 DEF Shapes

\* The store keeps the promise of DurableMap: a write takes effect at one instant
\* between its call and its return, an OK is returned only for one that did and an
\* error only for one that did not, and neither flush, compaction, restart nor crash
\* changes what was written.
THEOREM StoreImplementsDurableMap ==
  ASSUME SafeEnv
  PROVE  Spec => Implements
<1>1. TypeInv /\ Inv => Abstract
  BY AbstractState DEF Abstract
<1>2. TypeInv /\ Abstract /\ Abstract' /\ [Next]_vars => [Durable!Next]_(Durable!vars)
  BY StepShapes, ShapeMaps
<1> QED
  BY <1>1, <1>2, InitMaps, TypeInvariant, SafetyInvariant, PTL
     DEF Spec, Implements, Durable!Spec

-----------------------------------------------------------------------------
(* The log, as a RecordLog.                                                *)

\* Until the store is open its log is closed, and replay stays within it.
LogShut ==
  /\ pc \in {"closed", "loading", "replay"} => walOk = FALSE /\ unflushed = NoWrite
  /\ pc = "replay" => cursor <= Len(wal) + 1

\* A step that does nothing to the log.
Quiet ==
  /\ UNCHANGED <<log, wal>>
  /\ pc # "replay" /\ pc' # "replay"
  /\ pc' \in {"closed", "loading"} => pc \in {"closed", "loading"}

LEMMA QuietSteps ==
  ASSUME \/ FlushStep /\ ~ResetWal /\ ~ResetWalFails
         \/ CompactStep
         \/ AppendRefused \/ ApplyWrite \/ LoadTable \/ LoadTableFails
         \/ \E k \in Keys, e \in Entry : CallWrite(k, e)
         \/ flush \/ compact
  PROVE  Quiet
<1>1. CASE FlushStep /\ ~ResetWal /\ ~ResetWalFails
  BY <1>1 DEF FlushStep, CreateTable, CreateTableFails, FillTable, FillTableFails, InstallManifest,
              InstallManifestFails, InstallManifestShort, OnManifestError, StepAfterFill,
              ReturnError, Goto, log, disk, Quiet
<1>2. CASE CompactStep
  BY <1>2 DEF CompactStep, BeginCompaction, MergeTable, PlaceOutput, CompactionFails, RemoveInput,
              RemoveInputFails, RegisterOutput, RegisterOutputShort, RegisterOutputFails,
              ResumeCall, ReturnOK, ReturnError, Goto, call, log, disk, Quiet
<1>3. CASE AppendRefused \/ ApplyWrite \/ LoadTable \/ LoadTableFails
  BY <1>3 DEF AppendRefused, ApplyWrite, LoadTable, LoadTableFails, OpenGivesUp, ReturnOK,
              ReturnError, call, log, disk, Quiet
<1>4. ASSUME NEW k \in Keys, NEW e \in Entry, CallWrite(k, e)
      PROVE  Quiet
  BY <1>4 DEF CallWrite, log, disk, Quiet
<1>5. CASE flush \/ compact
  BY <1>5 DEF flush, compact, Goto, log, disk, Quiet
<1> QED
  BY <1>1, <1>2, <1>3, <1>4, <1>5

LEMMA QuietMaps ==
  ASSUME LogShut, Quiet
  PROVE  LogShut' /\ UNCHANGED Log!vars
  BY DEF LogShut, Quiet, log, Log!vars

\* What replay has handed out, and what it hands out next.
LEMMA HandedOut ==
  ASSUME TypeInv, cursor <= Len(wal) + 1
  PROVE  LET given == SubSeq(wal, 1, cursor - 1)
         IN  /\ Len(given) = cursor - 1
             /\ cursor = 1 => given = <<>>
             /\ cursor <= Len(wal) => SubSeq(wal, 1, cursor) = Append(given, wal[cursor])
  BY DEF TypeInv, TypeOK

LEMMA AppendMaps ==
  ASSUME TypeInv, LogShut, AppendWal \/ AppendFails \/ AppendLost
  PROVE  LogShut' /\ Log!Next
<1>1. op \in Write /\ pc = "append"
  BY DEF TypeInv, TypeOK, Locals, AppendWal, AppendFails, AppendLost
<1>2. CASE AppendWal
  BY <1>1, <1>2 DEF AppendWal, Goto, log, LogShut, Log!Next, Log!AppendRecord
<1>3. CASE AppendFails
  BY <1>1, <1>3 DEF AppendFails, CutShort, ReturnError, LogShut, Log!Next, Log!AppendFails, Log!Lost
<1>4. CASE AppendLost
  BY <1>1, <1>4 DEF AppendLost, CutShort, Goto, LogShut, Log!Next, Log!AppendFails, Log!Lost
<1> QED
  BY <1>2, <1>3, <1>4

LEMMA CloseMaps ==
  ASSUME TypeInv, LogShut, open \/ close \/ ResetWalFails
  PROVE  LogShut' /\ Log!Next
<1>1. CloseWal /\ pc # "replay" /\ pc' \in {"loading", "closed", "idle"}
  BY DEF open, close, ResetWalFails, ReturnError, Goto
<1> QED
  BY <1>1 DEF CloseWal, CutShort, LogShut, Log!Next, Log!Close, Log!Release, Log!Lost

LEMMA OpenMaps ==
  ASSUME TypeInv, LogShut,
         StartReplay \/ ManifestUnread \/ ReplayRecord \/ FinishOpen \/ LogUnread \/ ReplayFails
  PROVE  LogShut' /\ Log!Next
<1>1. CASE StartReplay \/ ManifestUnread
  <2>1. /\ pc = "loading" /\ pc' = "replay" /\ cursor' = 1 /\ UNCHANGED <<log, wal>>
    BY <1>1 DEF StartReplay, ManifestUnread, Goto, disk, work
  <2>2. SubSeq(wal', 1, cursor' - 1) = <<>> /\ Len(wal) \in Nat
    BY <2>1 DEF TypeInv, TypeOK
  <2>3. LogShut' /\ walOk = FALSE
    BY <2>1, <2>2 DEF LogShut, log
  <2>4. Log!StartReplay
    BY <2>1, <2>2, <2>3 DEF log, Log!StartReplay, Log!Running
  <2> QED
    BY <2>3, <2>4 DEF Log!Next
<1>2. CASE ReplayRecord
  <2>1. /\ pc = "replay" /\ pc' = "replay" /\ cursor' = cursor + 1 /\ UNCHANGED <<log, wal>>
        /\ cursor <= Len(wal) /\ wal[cursor] # Torn
    BY <1>2 DEF ReplayRecord, AtRecord, Advance, call, disk
  <2>2. Len(wal) \in Nat /\ cursor \in Nat
    BY DEF TypeInv, TypeOK
  <2>3. /\ Len(SubSeq(wal, 1, cursor - 1)) + 1 = cursor
        /\ SubSeq(wal', 1, cursor' - 1) = Append(SubSeq(wal, 1, cursor - 1), wal[cursor])
    BY <2>1, <2>2, HandedOut
  <2>4. LogShut'
    BY <2>1, <2>2 DEF LogShut, log
  <2>5. Log!Give
    BY <2>1, <2>2, <2>3 DEF log, Log!Give, Log!Position, Log!Running
  <2> QED
    BY <2>4, <2>5 DEF Log!Next
<1>3. CASE FinishOpen \/ LogUnread
  <2>1. /\ pc = "replay" /\ pc' = "idle" /\ walOk' = TRUE /\ UNCHANGED <<unflushed, wal>>
        /\ unflushed = NoWrite
    BY <1>3 DEF FinishOpen, LogUnread, OpenLog, ReturnOK, disk, LogShut
  <2>2. Len(wal) \in Nat /\ cursor \in Nat /\ cursor <= Len(wal) + 1
    BY <2>1 DEF TypeInv, TypeOK, LogShut
  <2>3. Len(SubSeq(wal, 1, cursor - 1)) + 1 = cursor
    BY <2>2, HandedOut
  <2>4. Log!MayEnd("ok") \/ Log!MayEnd("truncated")
    <3>1. CASE FinishOpen
      BY <2>1, <2>2, <2>3, <3>1 DEF FinishOpen, AtRecord, Log!MayEnd, Log!Position
    <3>2. CASE LogUnread
      BY <2>1, <2>3, <3>2 DEF LogUnread, Fault, Log!MayEnd, Log!Position
    <3> QED
      BY <1>3, <3>1, <3>2
  <2> QED
    BY <2>1, <2>4 DEF LogShut, Log!Next, Log!Open, Log!Release, Log!NoReplay, Log!Ended
<1>4. CASE ReplayFails
  <2>1. pc = "replay" /\ pc' = "closed" /\ UNCHANGED <<log, wal>>
    BY <1>4 DEF ReplayFails, OpenGivesUp, disk
  <2> QED
    BY <2>1 DEF LogShut, log, Log!Next, Log!Stop, Log!NoReplay, Log!Ended
<1> QED
  BY <1>1, <1>2, <1>3, <1>4

LEMMA LogStepMaps ==
  ASSUME TypeInv, LogShut, [Next]_vars
  PROVE  LogShut' /\ [Log!Next]_(Log!vars)
<1>1. CASE ResetWal
  <2>1. /\ pc = "reset" /\ pc' \in {"compact", "append", "idle"}
        /\ wal' = <<>> /\ walOk' = TRUE /\ unflushed' = NoWrite
    BY <1>1 DEF ResetWal, ResumeCall, ReturnOK, Goto
  <2> QED
    BY <2>1 DEF LogShut, Log!Next, Log!Clear, Log!NoReplay, Log!Ended
<1>2. CASE Crash
  BY <1>2 DEF Crash, CutShort, LogShut, Log!Next, Log!Stop, Log!Lost, Log!NoReplay, Log!Ended
<1>3. CASE UNCHANGED vars
  BY <1>3 DEF vars, call, log, work, disk, LogShut, Log!vars
<1> QED
  BY <1>1, <1>2, <1>3, QuietSteps, QuietMaps, AppendMaps, CloseMaps, OpenMaps
     DEF Next, Step, FlushStep, WriteStep, OpenStep, put, remove, Entry

\* Whatever fails and whenever the process dies, the store does with its log only what
\* RecordLog allows: it appends to none that refused or lost a record, and opens one only
\* where a replay of every record it handed out may end. What WAL implements is then
\* enough for the store (kv_store.cpp:89-106, 137, 180, 284).
THEOREM StoreUsesRecordLog == Spec => ImplementsLog
<1>1. Init => LogShut /\ Log!Init
  BY DEF Init, LogShut, Log!Init, Log!NoReplay, Log!Ended
<1>2. TypeInv /\ LogShut /\ [Next]_vars => LogShut' /\ [Log!Next]_(Log!vars)
  BY LogStepMaps
<1> QED
  BY <1>1, <1>2, TypeInvariant, PTL DEF Spec, ImplementsLog, Log!Spec
=============================================================================
