------------------------- MODULE KVStoreTypeProofs -------------------------
(***************************************************************************)
(* Type correctness of KVStore, in every environment.  TypeOK alone is not *)
(* inductive: that a number or a write is still within its bound at a step *)
(* follows from where the running call is, which is Locals.                *)
(***************************************************************************)
EXTENDS KVStoreInvariant, MemTableProofs

USE SlotAssumption, SizeAssumption, StoreAssumption DEF Steps, Seqs, Write, Entry, Slot

\* Appending an element of its set keeps a sequence typed.
LEMMA AppendType ==
  ASSUME NEW S, NEW s \in Seq(S), NEW e \in S
  PROVE  Append(s, e) \in Seq(S)
  OBVIOUS

\* The sequence of one element.
LEMMA SingletonType ==
  ASSUME NEW S, NEW e \in S
  PROVE  <<e>> \in Seq(S)
  OBVIOUS

\* So does dropping one element.
LEMMA RemoveAtType ==
  ASSUME NEW S, NEW s \in Seq(S), NEW i \in 1 .. Len(s)
  PROVE  RemoveAt(s, i) \in Seq(S)
  BY DEF RemoveAt

\* Closing the log, which may write the record its stream still holds.
LEMMA CloseWalTypeOK ==
  ASSUME TypeOK, CloseWal
  PROVE  /\ wal' \in Seq(Write \cup {Torn})
         /\ walOk' \in BOOLEAN
         /\ unflushed' \in Write \cup {NoWrite}
<1>1. unflushed # NoWrite => Append(wal, unflushed) \in Seq(Write \cup {Torn})
  BY AppendType DEF TypeOK
<1>2. Append(wal, Torn) \in Seq(Write \cup {Torn})
  BY DEF TypeOK
<1> QED
  BY <1>1, <1>2 DEF TypeOK, CloseWal, CutShort

\* A database that does not exist yet is a typed state.
LEMMA InitType == Init => TypeInv
<1> SUFFICES ASSUME Init PROVE TypeInv
  OBVIOUS
<1>1. NoEntries \in [Keys -> Slot] /\ NoEntries \in [Keys -> Values \cup {Absent}]
  BY DEF NoEntries
<1>2. MissingFile \in [state : {"missing", "partial", "complete"}, data : [Keys -> Slot]]
  BY <1>1 DEF MissingFile
<1>3. MemTypeOK
  BY <1>1 DEF Init, MemInit, MemTypeOK
<1>4. TypeOK
  <2>1. files \in [Seqs -> [state : {"missing", "partial", "complete"}, data : [Keys -> Slot]]]
    BY <1>2 DEF Init
  <2>2. /\ merged \in [Keys -> Slot]
        /\ committed \in [Keys -> Values \cup {Absent}]
    BY <1>1 DEF Init
  <2>3. /\ sstables \in Seq(Seqs) /\ inputs \in Seq(Seqs) /\ manifest \in Seq(Seqs)
        /\ wal \in Seq(Write \cup {Torn})
    BY DEF Init
  <2>4. /\ pc \in Steps /\ op \in Write \cup {NoWrite} /\ result \in {"ok", "error"}
        /\ walOk \in BOOLEAN /\ unflushed \in Write \cup {NoWrite}
    BY DEF Init
  <2>5. /\ nextSeq \in 1 .. (MaxSeq + 1) /\ out \in 0 .. MaxSeq /\ cursor \in Nat \ {0}
        /\ writes \in 0 .. MaxWrites /\ crashes \in 0 .. MaxCrashes /\ faults \in 0 .. MaxFaults
    BY DEF Init
  <2> QED
    BY <1>3, <2>1, <2>2, <2>3, <2>4, <2>5 DEF TypeOK
<1>5. Locals
  BY DEF Init, Locals
<1> QED
  BY <1>4, <1>5 DEF TypeInv

\* Every step of the store keeps the types and the locals of the running call.
LEMMA TypeStep == TypeInv /\ [Next]_vars => TypeInv'
<1> SUFFICES ASSUME TypeInv, [Next]_vars PROVE TypeInv'
  OBVIOUS
<1> USE DEF TypeInv, TypeOK, Locals
<1>1. Append(wal, Torn) \in Seq(Write \cup {Torn})
  BY AppendType
<1>3. CASE CreateTable
  BY <1>3 DEF CreateTable, PartialFile, NoEntries, Goto, memVars, log, env, MemTypeOK
<1>4. CASE CreateTableFails
  BY <1>4 DEF CreateTableFails, Fault, ReturnError, memVars, log, work, disk, MemTypeOK
<1>5. CASE FillTable
  BY <1>5 DEF FillTable, TableFile, Goto, StepAfterFill, memVars, log, env, MemTypeOK
<1>6. CASE FillTableFails
  <2>1. files' \in [Seqs -> [state : {"missing", "partial", "complete"}, data : [Keys -> Slot]]]
    <3>1. TableFile(table) \in [state : {"missing", "partial", "complete"}, data : [Keys -> Slot]]
      BY DEF TableFile, MemTypeOK
    <3> QED
      BY <1>6, <3>1 DEF FillTableFails
  <2> QED
    BY <1>6, <2>1 DEF FillTableFails, Fault, EndWork, ReturnError, memVars, log,
        NoEntries, MemTypeOK
<1>7. CASE InstallManifest
  BY <1>7 DEF InstallManifest, Goto, memVars, log, work, env, MemTypeOK
<1>8. CASE InstallManifestFails
  BY <1>8 DEF InstallManifestFails, Fault, OnManifestError, ReturnError, memVars, log, work,
      disk, MemTypeOK
<1>9. CASE InstallManifestShort
  BY <1>9 DEF InstallManifestShort, Fault, Goto, memVars, log, work, MemTypeOK
<1>10. CASE ResetWal
  BY <1>10, SMTT(20) DEF ResetWal, MemClear, NoEntries, CompactionDue, Goto, ResumeCall, ReturnOK, work,
      env, MemTypeOK
<1>11. CASE ResetWalFails
  <2>1. /\ wal' \in Seq(Write \cup {Torn})
       /\ walOk' \in BOOLEAN
       /\ unflushed' \in Write \cup {NoWrite}
    BY <1>11, CloseWalTypeOK DEF ResetWalFails
  <2>2. MemTypeOK'
    BY <1>11 DEF ResetWalFails, MemClear, MemTypeOK, NoEntries
  <2> QED
    BY <1>11, <2>1, <2>2 DEF ResetWalFails, Fault, ReturnError, work
<1>12. CASE BeginCompaction
  BY <1>12 DEF BeginCompaction, NoEntries, Goto, memVars, log, disk, env, MemTypeOK
<1>13. CASE MergeTable
  BY <1>13 DEF MergeTable, Overlay, Advance, call, memVars, log, disk, env, MemTypeOK
<1>14. CASE PlaceOutput
  BY <1>14 DEF PlaceOutput, TableFile, Survivors, Reply, Goto, memVars, log, env, MemTypeOK
<1>15. CASE CompactionFails
  <2>1. sstables' \in Seq(Seqs)
    BY <1>15, RemoveAtType DEF CompactionFails, Reopened
  <2> QED
    BY <1>15, <2>1 DEF CompactionFails, Fault, EndWork, ReturnError, memVars, log, disk,
        NoEntries, MemTypeOK
<1>16. CASE RemoveInput
  BY <1>16 DEF RemoveInput, Removed, MissingFile, NoEntries, Advance, call, memVars, log, env,
      MemTypeOK
<1>17. CASE RemoveInputFails
  BY <1>17 DEF RemoveInputFails, Fault, Advance, call, memVars, log, disk, MemTypeOK
<1>18. CASE RegisterOutput
  BY <1>18 DEF RegisterOutput, EndWork, NoEntries, ResumeCall, ReturnOK, Goto, memVars, log,
      env, MemTypeOK
<1>19. CASE RegisterOutputShort
  BY <1>19 DEF RegisterOutputShort, Fault, EndWork, NoEntries, ResumeCall, ReturnOK, Goto,
      memVars, log, MemTypeOK
<1>20. CASE RegisterOutputFails
  <2>1. sstables' \in Seq(Seqs)
    <3>1. <<out>> \in Seq(Seqs)
      BY <1>20, SingletonType DEF RegisterOutputFails
    <3> QED
      <4>1. CASE sstables' = <<out>>
        BY <4>1, <3>1
      <4>2. CASE sstables' = <<>>
        BY <4>2
      <4> QED BY <4>1, <4>2, <1>20 DEF RegisterOutputFails, Fault
  <2>2. faults' \in 0 .. MaxFaults /\ UNCHANGED crashes
    BY <1>20 DEF RegisterOutputFails, Fault
  <2> QED
    BY <1>20, <2>1, <2>2 DEF RegisterOutputFails, EndWork, ReturnError, memVars, log, disk,
        NoEntries, MemTypeOK
<1>21. CASE AppendWal
  BY <1>21 DEF AppendWal, Promise, Reply, Goto, memVars, log, work, env, MemTypeOK
<1>22. CASE AppendRefused
  BY <1>22 DEF AppendRefused, ReturnError, memVars, log, work, disk, env, MemTypeOK
<1>23. CASE AppendFails
  <2>1. wal' \in Seq(Write \cup {Torn})
    BY <1>1, <1>23 DEF AppendFails, CutShort
  <2>2. /\ ReturnError
        /\ pc = "append"
        /\ walOk' = FALSE
        /\ faults' \in 0 .. MaxFaults
        /\ UNCHANGED <<crashes, unflushed, memVars, sstables, nextSeq, work, files, manifest,
                       committed, writes>>
    BY <1>23 DEF AppendFails, Fault
  <2> QED
    <3>1. pc' \in Steps /\ op' \in Write \cup {NoWrite} /\ result' \in {"ok","error"}
      BY <2>2 DEF ReturnError
    <3>5. MemTypeOK' /\ merged' \in [Keys -> Slot] /\ out' \in 0 .. MaxSeq /\ cursor' \in Nat \ {0}
      BY <2>2 DEF work, memVars, MemTypeOK
    <3>6. TypeOK'
      BY <2>1, <2>2, <3>1, <3>5 DEF work
    <3>7. Locals'
      BY <2>2 DEF ReturnError, work
    <3> QED BY <3>6, <3>7
<1>24. CASE AppendLost
  <2>1. /\ wal' \in Seq(Write \cup {Torn})
       /\ unflushed' \in Write \cup {NoWrite}
    BY <1>1, <1>24 DEF AppendLost, CutShort
  <2>2. committed' \in [Keys -> Values \cup {Absent}] /\ writes' \in 0 .. MaxWrites
    BY <1>24 DEF AppendLost, Promise, Reply
  <2>3. /\ Goto("apply")
        /\ pc = "append"
        /\ walOk' = FALSE
        /\ faults' \in 0 .. MaxFaults
        /\ UNCHANGED <<crashes, memVars, sstables, nextSeq, work, files, manifest>>
    BY <1>24 DEF AppendLost, Fault
  <2> QED
    BY <2>1, <2>2, <2>3 DEF Goto, memVars, work, MemTypeOK
<1>25. CASE ApplyWrite
  <2>1. MemTypeOK'
    BY <1>25, MemStoreTypeOK DEF ApplyWrite
  <2> QED
    BY <1>25, <2>1 DEF ApplyWrite, ReturnOK, log, work, disk, env
<1>26. CASE LoadTable
  <2>1. manifest[cursor] \in Seqs
    BY <1>26 DEF LoadTable
  <2>2. Append(sstables, manifest[cursor]) \in Seq(Seqs)
    BY <2>1, AppendType
  <2>4. sstables' \in Seq(Seqs)
    BY <1>26, <2>2 DEF LoadTable
  <2>3. nextSeq' \in 1 .. (MaxSeq + 1)
    BY <1>26, <2>1, SMTT(20) DEF LoadTable, SeqAfter
  <2> QED
    BY <1>26, <2>1, <2>4, <2>3 DEF LoadTable, Advance, call, memVars, log, disk, env, MemTypeOK
<1>27. CASE LoadTableFails
  BY <1>27, SMTT(20) DEF LoadTableFails, env, Fault, OpenGivesUp, EndWork, NoEntries, memVars, log,
      disk, MemTypeOK
<1>28. CASE ManifestUnread
  BY <1>28 DEF ManifestUnread, Fault, MemClear, NoEntries, Goto, log, work, disk, MemTypeOK
<1>29. CASE StartReplay
  BY <1>29 DEF StartReplay, MemClear, NoEntries, Goto, log, disk, env, MemTypeOK
<1>30. CASE ReplayRecord
  <2>1. wal[cursor] \in Write
    BY <1>30 DEF ReplayRecord, AtRecord
  <2>2. MemTypeOK'
    BY <1>30, <2>1, MemStoreTypeOK DEF ReplayRecord, Reapply
  <2> QED
    BY <1>30, <2>1, <2>2 DEF ReplayRecord, Advance, call, log, disk, env
<1>31. CASE FinishOpen
  BY <1>31 DEF FinishOpen, AtRecord, OpenLog, EndWork, NoEntries, ReturnOK, memVars, disk,
      env, MemTypeOK
<1>32. CASE LogUnread
  BY <1>32 DEF LogUnread, Fault, OpenLog, EndWork, NoEntries, ReturnOK, memVars, disk, MemTypeOK
<1>33. CASE ReplayFails
  BY <1>33 DEF ReplayFails, env, AtRecord, Fault, OpenGivesUp, EndWork, NoEntries, memVars,
      log, disk, MemTypeOK
<1>34. CASE flush
  BY <1>34 DEF flush, IsEmpty, NoEntries, RoomForFlush, Goto, memVars, log, work, disk, env,
      MemTypeOK
<1>35. CASE compact
  BY <1>35 DEF compact, Goto, memVars, log, work, disk, env, MemTypeOK
<1>36. CASE open
  <2>1. /\ wal' \in Seq(Write \cup {Torn})
       /\ walOk' \in BOOLEAN
       /\ unflushed' \in Write \cup {NoWrite}
    BY <1>36, CloseWalTypeOK DEF open
  <2>2. MemTypeOK'
    BY <1>36 DEF open, MemClear, MemTypeOK, NoEntries, memVars
  <2> QED
    BY <1>36, <2>1, <2>2 DEF open, EndWork, Goto, env, NoEntries, FirstSeq
<1>37. CASE close
  <2>1. /\ wal' \in Seq(Write \cup {Torn})
       /\ walOk' \in BOOLEAN
       /\ unflushed' \in Write \cup {NoWrite}
    BY <1>37, CloseWalTypeOK DEF close
  <2>2. MemTypeOK'
    BY <1>37 DEF close, MemClear, MemTypeOK, NoEntries
  <2> QED
    BY <1>37, <2>1, <2>2 DEF close, work, Goto, env
<1>38. CASE Crash
  <2>1. wal' \in Seq(Write \cup {Torn})
    BY <1>1, <1>38 DEF Crash, CutShort
  <2>2. MemTypeOK'
    BY <1>38 DEF Crash, MemClear, MemTypeOK, NoEntries
  <2>3. /\ pc' = "closed" /\ op' = NoWrite /\ result' = "ok" /\ EndWork
        /\ sstables' = <<>> /\ nextSeq' = 1 /\ walOk' = FALSE /\ unflushed' = NoWrite
        /\ crashes' \in 0 .. MaxCrashes
        /\ UNCHANGED <<files, manifest, committed, writes, faults>>
    BY <1>38 DEF Crash
  <2> QED
    <3>1. pc' \in Steps /\ op' \in Write \cup {NoWrite} /\ result' \in {"ok","error"}
      BY <2>3
    <3>2. sstables' \in Seq(Seqs) /\ inputs' \in Seq(Seqs)
      BY <2>3 DEF EndWork
    <3>8. nextSeq' = 1
      BY <2>3
    <3>9. walOk' = FALSE
      BY <2>3
    <3>10. nextSeq' \in 1 .. (MaxSeq + 1)
      BY <3>8
    <3>3. nextSeq' \in 1 .. (MaxSeq + 1) /\ walOk' \in BOOLEAN
      BY <3>9, <3>10
    <3>4. unflushed' \in Write \cup {NoWrite}
      BY <2>3
    <3>5. merged' \in [Keys -> Slot] /\ out' \in 0 .. MaxSeq /\ cursor' \in Nat \ {0}
      BY <2>3 DEF EndWork, NoEntries
    <3>6. TypeOK'
      BY <2>1, <2>2, <2>3, <3>1, <3>2, <3>3, <3>4, <3>5
    <3>7. Locals'
      BY <2>3 DEF EndWork
    <3> QED BY <3>6, <3>7
<1>39. ASSUME NEW k \in Keys, NEW e \in Entry, CallWrite(k, e)
      PROVE  TypeInv'
  BY <1>39 DEF CallWrite, FlushFirst, IsFull, IsEmpty, NoEntries, RoomForFlush, memVars, log,
      work, disk, env, MemTypeOK
<1>40. CASE UNCHANGED vars
  BY <1>40 DEF vars, call, memVars, log, work, disk, env, MemTypeOK
<1> HIDE DEF TypeInv, TypeOK, Locals
<1>41. CASE (\E k \in Keys, v \in Values : put(k, v)) \/ (\E k \in Keys : remove(k))
  BY <1>41, <1>39 DEF put, remove, Entry
<1> QED
  BY <1>3, <1>4, <1>5, <1>6, <1>7, <1>8, <1>9, <1>10, <1>11, <1>12, <1>13, <1>14, <1>15,
      <1>16, <1>17, <1>18, <1>19, <1>20, <1>21, <1>22, <1>23, <1>24, <1>25, <1>26, <1>27,
      <1>28, <1>29, <1>30, <1>31, <1>32, <1>33, <1>34, <1>35, <1>36, <1>37, <1>38, <1>40,
      <1>41 DEF Next, Step, FlushStep, CompactStep, WriteStep, OpenStep

\* In every environment, types and bounds hold together with what the running call
\* knows by where it is: a number or a write is still to be had when a step takes it.
THEOREM TypeInvariant == Spec => []TypeInv
  BY InitType, TypeStep, PTL DEF Spec

\* Whatever fails and whenever the process dies, every variable keeps its type and
\* every bound holds: no table number, write or index leaves its range.
THEOREM TypeCorrect == Spec => []TypeOK
<1>1. TypeInv => TypeOK
  BY DEF TypeInv
<1> QED
  BY <1>1, TypeInvariant, PTL
=============================================================================
