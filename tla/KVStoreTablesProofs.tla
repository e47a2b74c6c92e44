------------------------- MODULE KVStoreTablesProofs ------------------------
(***************************************************************************)
(* What the store keeps within bounds.  The order of the tables and their  *)
(* number, in every environment: whichever calls fail, and whenever the    *)
(* process dies.  In a safe environment, the files nobody knows and the    *)
(* size of the MemTable.                                                   *)
(***************************************************************************)
EXTENDS KVStoreSafetyProofs

-----------------------------------------------------------------------------
(* The tables stay in the order they were written in.                      *)

LEMMA EmptyOrder ==
  ASSUME NEW n
  PROVE  Increasing(<<>>) /\ Below(<<>>, n)
  BY DEF Increasing, Below

LEMMA SingletonOrder ==
  ASSUME NEW s \in Nat, NEW n \in Nat, s < n
  PROVE  Increasing(<<s>>) /\ Below(<<s>>, n)
  BY DEF Increasing, Below

\* A larger number may follow.
LEMMA AppendOrder ==
  ASSUME NEW ts \in Seq(Nat), NEW s \in Nat, NEW n \in Nat,
         Increasing(ts), Below(ts, s), s < n
  PROVE  Increasing(Append(ts, s)) /\ Below(Append(ts, s), n)
<1> DEFINE us == Append(ts, s)
<1>1. /\ DOMAIN ts = 1 .. Len(ts)
      /\ DOMAIN us = 1 .. (Len(ts) + 1)
      /\ us[Len(ts) + 1] = s
      /\ \A i \in 1 .. Len(ts) : us[i] = ts[i] /\ ts[i] \in Nat
  OBVIOUS
<1>2. \A i \in 1 .. Len(ts) : ts[i] < s
  BY <1>1 DEF Below
<1>3. \A i, j \in 1 .. Len(ts) : i < j => ts[i] < ts[j]
  BY <1>1 DEF Increasing
<1> HIDE DEF us
<1>4. Below(us, n)
  BY <1>1, <1>2 DEF Below
<1>5. Increasing(us)
  BY <1>1, <1>2, <1>3 DEF Increasing
<1> QED
  BY <1>4, <1>5 DEF us

\* A prefix keeps the order.
LEMMA PrefixOrder ==
  ASSUME NEW ts \in Seq(Nat), NEW m \in 0 .. Len(ts), Increasing(ts)
  PROVE  Increasing(SubSeq(ts, 1, m))
<1> DEFINE us == SubSeq(ts, 1, m)
<1>1. /\ DOMAIN ts = 1 .. Len(ts)
      /\ DOMAIN us = 1 .. m
      /\ \A i \in 1 .. m : us[i] = ts[i]
  OBVIOUS
<1> HIDE DEF us
<1>2. Increasing(us)
  BY <1>1 DEF Increasing
<1> QED
  BY <1>2 DEF us

\* Two sequences, one behind the other.
LEMMA ConcatShape ==
  ASSUME NEW a \in Seq(Nat), NEW b \in Seq(Nat)
  PROVE  /\ DOMAIN (a \o b) = 1 .. (Len(a) + Len(b))
         /\ \A i \in 1 .. (Len(a) + Len(b)) :
              (a \o b)[i] = IF i <= Len(a) THEN a[i] ELSE b[i - Len(a)]
  OBVIOUS

\* So does leaving one table out.
LEMMA RemoveAtOrder ==
  ASSUME NEW ts \in Seq(Nat), NEW d \in 1 .. Len(ts), NEW n \in Nat,
         Increasing(ts), Below(ts, n)
  PROVE  Increasing(RemoveAt(ts, d)) /\ Below(RemoveAt(ts, d), n)
<1> DEFINE us == RemoveAt(ts, d)
           at(i) == IF i < d THEN i ELSE i + 1
<1>1. /\ DOMAIN ts = 1 .. Len(ts)
      /\ \A i \in 1 .. Len(ts) : ts[i] \in Nat
  OBVIOUS
<1>2. /\ DOMAIN us = 1 .. (Len(ts) - 1)
      /\ \A i \in 1 .. (Len(ts) - 1) : us[i] = ts[at(i)]
  <2> DEFINE front == SubSeq(ts, 1, d - 1)
             back  == SubSeq(ts, d + 1, Len(ts))
  <2>1. /\ front \in Seq(Nat) /\ Len(front) = d - 1
        /\ \A i \in 1 .. (d - 1) : front[i] = ts[i]
    OBVIOUS
  <2>2. /\ back \in Seq(Nat) /\ Len(back) = Len(ts) - d
        /\ \A i \in 1 .. (Len(ts) - d) : back[i] = ts[i + d]
    OBVIOUS
  <2>3. us = front \o back
    BY DEF RemoveAt
  <2> HIDE DEF front, back, us
  <2>4. /\ DOMAIN us = 1 .. (Len(front) + Len(back))
        /\ \A i \in 1 .. (Len(front) + Len(back)) :
             us[i] = IF i <= Len(front) THEN front[i] ELSE back[i - Len(front)]
    BY ONLY <2>1, <2>2, <2>3, ConcatShape
  <2>5. Len(ts) \in Nat
    OBVIOUS
  <2>6. Len(front) + Len(back) = Len(ts) - 1
    BY <2>1, <2>2, <2>5
  <2>7. ASSUME NEW i \in 1 .. (Len(ts) - 1) PROVE us[i] = ts[at(i)]
    <3>1. CASE i < d
      <4>1. i <= Len(front) /\ i \in 1 .. (Len(front) + Len(back))
        BY <2>1, <2>5, <2>6, <3>1
      <4>2. us[i] = front[i] /\ front[i] = ts[i]
        BY <2>1, <2>4, <2>5, <3>1, <4>1
      <4> QED
        BY <3>1, <4>2
    <3>2. CASE ~(i < d)
      <4>1. us[i] = back[i - (d - 1)] /\ i - (d - 1) \in 1 .. (Len(ts) - d)
        BY <2>1, <2>4, <2>5, <2>6, <3>2
      <4>2. back[i - (d - 1)] = ts[i - (d - 1) + d] /\ i - (d - 1) + d = i + 1
        BY <2>2, <2>5, <4>1
      <4> QED
        BY <3>2, <4>1, <4>2
    <3> QED
      BY <3>1, <3>2
  <2> QED
    BY <2>4, <2>6, <2>7
<1>3. /\ \A i \in 1 .. (Len(ts) - 1) : at(i) \in 1 .. Len(ts)
      /\ \A i, j \in 1 .. (Len(ts) - 1) : i < j => at(i) < at(j)
  OBVIOUS
<1> HIDE DEF us, at
<1>4. Below(us, n)
  BY <1>1, <1>2, <1>3 DEF Below
<1>5. Increasing(us)
  BY <1>1, <1>2, <1>3 DEF Increasing
<1> QED
  BY <1>4, <1>5 DEF us

\* A bound may be raised.
LEMMA BelowRaised ==
  ASSUME NEW ts \in Seq(Nat), NEW m \in Nat, NEW n \in Nat, m <= n, Below(ts, m)
  PROVE  Below(ts, n)
  BY DEF Below

\* The types in plain numbers.
LEMMA NumbersNat ==
  ASSUME TypeInv
  PROVE  /\ sstables \in Seq(Nat) /\ inputs \in Seq(Nat) /\ manifest \in Seq(Nat)
         /\ out \in Nat /\ nextSeq \in Nat \ {0} /\ cursor \in Nat
<1>1. MaxSeq \in Nat /\ Seqs \subseteq Nat
  BY StoreAssumption DEF Seqs
<1>2. ASSUME NEW ts \in Seq(Seqs) PROVE ts \in Seq(Nat)
  <2>1. /\ Len(ts) \in Nat
        /\ ts = [i \in 1 .. Len(ts) |-> ts[i]]
        /\ \A i \in 1 .. Len(ts) : ts[i] \in Nat
    BY <1>1
  <2> QED
    BY ONLY <2>1, SMT
<1>3. sstables \in Seq(Nat) /\ inputs \in Seq(Nat) /\ manifest \in Seq(Nat)
  <2>1. sstables \in Seq(Seqs) /\ inputs \in Seq(Seqs) /\ manifest \in Seq(Seqs)
    BY DEF TypeInv, TypeOK
  <2> QED
    BY ONLY <1>1, <1>2, <2>1
<1>4. out \in Nat /\ nextSeq \in Nat \ {0} /\ cursor \in Nat
  BY <1>1 DEF TypeInv, TypeOK
<1> QED
  BY <1>3, <1>4

-----------------------------------------------------------------------------
\* A database that does not exist yet has nothing out of order.
LEMMA InitOrder == Init => OrderInv
  BY EmptyOrder DEF Init, OrderInv

\* What OrderInv reads of the store.
orderVars == <<sstables, nextSeq, inputs, out, manifest>>

\* A step outside the loop of open that leaves all that alone.
LEMMA OrderKept ==
  ASSUME OrderInv, UNCHANGED orderVars, pc # "closed", pc' # "loading"
  PROVE  OrderInv'
  BY DEF OrderInv, orderVars, InOrder, Increasing, Below

\* The steps of flushInternal: the number taken last is the largest.
LEMMA FlushOrder == TypeInv /\ OrderInv /\ FlushStep => OrderInv'
<1> SUFFICES ASSUME TypeInv, OrderInv, FlushStep PROVE OrderInv'
  OBVIOUS
<1>1. /\ out \in Nat /\ nextSeq \in Nat /\ nextSeq # 0 /\ out < nextSeq
      /\ sstables \in Seq(Nat) /\ inputs \in Seq(Nat) /\ manifest \in Seq(Nat)
      /\ Increasing(manifest)
  BY NumbersNat DEF OrderInv
<1>2. pc # "closed" /\ (out # 0 <=> pc = "fillTable")
  BY DEF FlushStep, CreateTable, CreateTableFails, FillTable, FillTableFails, InstallManifest,
     InstallManifestFails, InstallManifestShort, ResetWal, ResetWalFails, TypeInv, Locals
<1> DEFINE limit == IF out = 0 THEN nextSeq ELSE out
<1>3. /\ Increasing(sstables) /\ Below(sstables, limit)
      /\ Increasing(inputs) /\ Below(inputs, limit)
      /\ limit \in Nat /\ limit <= nextSeq
  BY <1>1, <1>2 DEF OrderInv, InOrder
<1>4. /\ Below(sstables, nextSeq) /\ Below(sstables, nextSeq + 1)
      /\ Below(inputs, nextSeq) /\ Below(inputs, nextSeq + 1)
  BY <1>1, <1>3, BelowRaised
<1>5. CASE CreateTable
  <2>1. /\ nextSeq' = nextSeq + 1 /\ out' = nextSeq /\ pc' = "fillTable"
        /\ UNCHANGED <<sstables, inputs, manifest>>
    BY <1>5 DEF CreateTable, Goto
  <2> QED
    BY ONLY <1>1, <1>3, <1>4, <2>1 DEF OrderInv, InOrder, Increasing, Below
<1>6. CASE CreateTableFails
  <2>1. /\ nextSeq' = nextSeq + 1 /\ out' = 0 /\ pc' = "idle"
        /\ UNCHANGED <<sstables, inputs, manifest>>
    <3>1. pc = "createTable" /\ UNCHANGED work
      BY <1>6 DEF CreateTableFails
    <3>2. out' = 0 /\ UNCHANGED <<inputs, out>>
      BY <1>2, <3>1 DEF work
    <3> QED
      BY <1>6, <3>2 DEF CreateTableFails, ReturnError, disk
  <2> QED
    BY ONLY <1>1, <1>3, <1>4, <2>1 DEF OrderInv, InOrder, Increasing, Below
<1>7. CASE FillTable
  <2>1. /\ sstables' = Append(sstables, out) /\ out' = 0 /\ pc' = "manifest"
        /\ pc = "fillTable"
        /\ UNCHANGED <<nextSeq, inputs, manifest>>
    BY <1>7 DEF FillTable, Goto, StepAfterFill
  <2>2. Increasing(sstables') /\ Below(sstables', nextSeq')
    BY <1>1, <1>2, <1>3, <2>1, AppendOrder
  <2> QED
    BY ONLY <1>1, <1>3, <1>4, <2>1, <2>2 DEF OrderInv, InOrder, Increasing, Below
<1>8. CASE FillTableFails
  <2>1. /\ out' = 0 /\ inputs' = <<>> /\ pc' = "idle"
        /\ UNCHANGED <<sstables, nextSeq, manifest>>
    BY <1>8 DEF FillTableFails, EndWork, ReturnError
  <2>2. Increasing(inputs') /\ Below(inputs', nextSeq)
    BY <2>1, EmptyOrder
  <2> QED
    BY ONLY <1>1, <1>3, <1>4, <2>1, <2>2 DEF OrderInv, InOrder, Increasing, Below
<1>9. CASE InstallManifest \/ InstallManifestShort
  <2>1. /\ Increasing(manifest') /\ pc' = "reset"
        /\ UNCHANGED <<sstables, nextSeq, inputs, out>>
    <3>1. \A n \in 0 .. Len(sstables) - 1 : Increasing(SubSeq(sstables, 1, n))
      BY <1>1, <1>3, PrefixOrder
    <3> QED
      BY <1>3, <1>9, <3>1 DEF InstallManifest, InstallManifestShort, Goto, work, Increasing
  <2> QED
    BY ONLY <1>1, <1>3, <2>1 DEF OrderInv, InOrder, Increasing, Below
<1>10. CASE InstallManifestFails \/ ResetWal \/ ResetWalFails
  <2>1. UNCHANGED orderVars /\ pc' # "loading"
    BY <1>10 DEF InstallManifestFails, ResetWal, ResetWalFails, orderVars, work, disk, Goto,
       OnManifestError, ReturnError, ResumeCall, ReturnOK
  <2> QED
    BY <1>2, <2>1, OrderKept
<1> QED
  BY <1>5, <1>6, <1>7, <1>8, <1>9, <1>10 DEF FlushStep

\* The steps of compactInternal: the merged table's number is above its inputs'.
LEMMA CompactOrder == TypeInv /\ OrderInv /\ CompactStep => OrderInv'
<1> SUFFICES ASSUME TypeInv, OrderInv, CompactStep PROVE OrderInv'
  OBVIOUS
<1>1. /\ out \in Nat /\ nextSeq \in Nat /\ nextSeq # 0 /\ out < nextSeq
      /\ sstables \in Seq(Nat) /\ inputs \in Seq(Nat) /\ manifest \in Seq(Nat)
      /\ Increasing(manifest)
  BY NumbersNat DEF OrderInv
<1>2. pc # "closed" /\ (out # 0 <=> pc \in {"merge", "remove"})
  BY DEF CompactStep, BeginCompaction, MergeTable, PlaceOutput, CompactionFails, RemoveInput,
     RemoveInputFails, RegisterOutput, RegisterOutputShort, RegisterOutputFails, TypeInv, Locals
<1> DEFINE limit == IF out = 0 THEN nextSeq ELSE out
<1>3. /\ Increasing(sstables) /\ Below(sstables, limit)
      /\ Increasing(inputs) /\ Below(inputs, limit)
      /\ limit \in Nat /\ limit <= nextSeq
  BY <1>1, <1>2 DEF OrderInv, InOrder
<1>4. Below(inputs, nextSeq)
  BY <1>1, <1>3, BelowRaised
<1>5. /\ Increasing(<<>>) /\ Below(<<>>, nextSeq) /\ Below(<<>>, out)
      /\ Increasing(<<nextSeq>>)
      /\ Increasing(<<out>>) /\ Below(<<out>>, nextSeq)
  BY <1>1, EmptyOrder, SingletonOrder DEF Increasing
<1>6. CASE BeginCompaction
  <2>1. /\ inputs' = sstables /\ sstables' = <<>> /\ pc' = "merge"
        /\ out' = nextSeq /\ nextSeq' = nextSeq + 1
        /\ UNCHANGED manifest
    BY <1>6 DEF BeginCompaction, Goto, disk
  <2>2. out = 0
    BY <1>2, <1>6 DEF BeginCompaction
  <2> QED
    BY ONLY <1>1, <1>3, <1>5, <2>1, <2>2 DEF OrderInv, InOrder, Increasing, Below
<1>7. CASE MergeTable \/ PlaceOutput \/ RemoveInput \/ RemoveInputFails
  <2>1. UNCHANGED orderVars /\ pc' # "loading"
    BY <1>7 DEF MergeTable, PlaceOutput, RemoveInput, RemoveInputFails, orderVars, disk, call, Goto
  <2> QED
    BY <1>2, <2>1, OrderKept
<1>8. CASE CompactionFails
  <2>1. /\ sstables' \in Reopened /\ inputs' = <<>> /\ out' = 0 /\ pc' = "idle"
        /\ UNCHANGED <<nextSeq, manifest>>
    BY <1>8 DEF CompactionFails, EndWork, ReturnError, disk
  <2>2. Increasing(sstables') /\ Below(sstables', nextSeq)
    <3>1. \A d \in DOMAIN inputs :
            Increasing(RemoveAt(inputs, d)) /\ Below(RemoveAt(inputs, d), nextSeq)
      <4>1. DOMAIN inputs = 1 .. Len(inputs)
        BY <1>1
      <4> QED
        BY <1>1, <1>3, <1>4, <4>1, RemoveAtOrder
    <3> QED
      BY <1>3, <1>4, <2>1, <3>1 DEF Reopened
  <2> QED
    BY ONLY <1>1, <1>5, <2>1, <2>2 DEF OrderInv, InOrder, Increasing, Below
<1>9. CASE RegisterOutput \/ RegisterOutputShort \/ RegisterOutputFails
  <2>1. /\ sstables' \in {<<out>>, <<>>} /\ inputs' = <<>> /\ out' = 0 /\ pc' \in {"idle", "append"}
        /\ manifest' \in {<<out>>, <<>>, manifest}
        /\ UNCHANGED nextSeq
    BY <1>9 DEF RegisterOutput, RegisterOutputShort, RegisterOutputFails, EndWork, ReturnError,
       ResumeCall, ReturnOK, Goto, disk
  <2>2. Increasing(sstables') /\ Below(sstables', nextSeq) /\ Increasing(manifest')
    BY ONLY <1>1, <1>5, <2>1
  <2> QED
    BY ONLY <1>1, <1>5, <2>1, <2>2 DEF OrderInv, InOrder, Increasing, Below
<1> QED
  BY <1>6, <1>7, <1>8, <1>9 DEF CompactStep

\* The steps of open: the numbering ends above every table that was loaded.
LEMMA OpenOrder == TypeInv /\ OrderInv /\ OpenStep => OrderInv'
<1> SUFFICES ASSUME TypeInv, OrderInv, OpenStep PROVE OrderInv'
  OBVIOUS
<1>1. /\ out = 0 /\ nextSeq \in Nat /\ nextSeq # 0
      /\ sstables \in Seq(Nat) /\ inputs \in Seq(Nat) /\ manifest \in Seq(Nat)
      /\ cursor \in Nat
      /\ Increasing(manifest)
  <2>1. pc \in {"loading", "replay"}
    BY DEF OpenStep, LoadTable, LoadTableFails, ManifestUnread, StartReplay, ReplayRecord,
       FinishOpen, LogUnread, ReplayFails
  <2> QED
    BY <2>1, NumbersNat DEF OrderInv, TypeInv, Locals
<1>2. pc \in {"loading", "replay"}
  BY DEF OpenStep, LoadTable, LoadTableFails, ManifestUnread, StartReplay, ReplayRecord,
     FinishOpen, LogUnread, ReplayFails
<1>3. /\ Increasing(sstables) /\ Below(sstables, nextSeq)
      /\ Increasing(inputs) /\ Below(inputs, nextSeq)
  BY <1>1, <1>2 DEF OrderInv, InOrder
<1>4. CASE LoadTable
  <2> DEFINE s == manifest[cursor]
  <2>1. /\ UNCHANGED <<inputs, out, manifest, pc>> /\ cursor' = cursor + 1
        /\ pc = "loading" /\ cursor \in DOMAIN manifest
        /\ \/ sstables' = Append(sstables, s) /\ nextSeq' = SeqAfter(s)
           \/ UNCHANGED <<sstables, nextSeq>>
    BY <1>1, <1>4 DEF LoadTable, Advance, disk, call, TypeInv, TypeOK
  <2>2. s \in Nat
    BY <1>1, <2>1
  <2>3. \A i \in DOMAIN sstables : \E j \in DOMAIN manifest : j < cursor /\ sstables[i] = manifest[j]
    BY <2>1 DEF OrderInv, LoadedBefore
  <2>4. Below(sstables, s)
    BY <1>1, <2>1, <2>3 DEF Below, Increasing
  <2>5. CASE UNCHANGED <<sstables, nextSeq>>
    <3>1. LoadedBefore'
      BY <1>1, <2>1, <2>3, <2>5 DEF LoadedBefore
    <3> QED
      BY ONLY <1>1, <1>3, <2>1, <2>5, <3>1 DEF OrderInv, InOrder, Increasing, Below
  <2>6. CASE sstables' = Append(sstables, s) /\ nextSeq' = SeqAfter(s)
    <3>1. nextSeq' \in Nat /\ s < nextSeq' /\ nextSeq <= nextSeq'
      BY <1>1, <2>2, <2>6 DEF SeqAfter
    <3>2. Increasing(sstables') /\ Below(sstables', nextSeq')
      BY <1>1, <1>3, <2>2, <2>4, <2>6, <3>1, AppendOrder
    <3>3. Below(inputs, nextSeq')
      BY <1>1, <1>3, <3>1, BelowRaised
    <3>4. LoadedBefore'
      <4>1. /\ DOMAIN sstables = 1 .. Len(sstables)
            /\ DOMAIN sstables' = 1 .. (Len(sstables) + 1)
            /\ sstables'[Len(sstables) + 1] = s
            /\ \A i \in 1 .. Len(sstables) : sstables'[i] = sstables[i]
        BY <1>1, <2>2, <2>6
      <4> QED
        <5> SUFFICES ASSUME NEW i \in 1 .. (Len(sstables) + 1)
                     PROVE  \E j \in DOMAIN manifest : j < cursor + 1 /\ sstables'[i] = manifest[j]
          BY <2>1, <4>1 DEF LoadedBefore
        <5>1. CASE i = Len(sstables) + 1
          BY <1>1, <2>1, <4>1, <5>1
        <5>2. CASE i # Len(sstables) + 1
          <6>1. i \in DOMAIN sstables /\ sstables'[i] = sstables[i]
            BY <1>1, <4>1, <5>2
          <6>2. PICK j \in DOMAIN manifest : j < cursor /\ sstables[i] = manifest[j]
            BY <2>3, <6>1
          <6> QED
            BY <1>1, <6>1, <6>2
        <5> QED
          BY <5>1, <5>2
    <3> QED
      BY ONLY <1>1, <1>3, <2>1, <3>1, <3>2, <3>3, <3>4 DEF OrderInv, InOrder, Increasing, Below
  <2> QED
    BY <2>1, <2>5, <2>6
<1>5. CASE ManifestUnread \/ StartReplay \/ ReplayRecord
  <2>1. UNCHANGED orderVars /\ pc' # "loading"
    BY <1>5 DEF ManifestUnread, StartReplay, ReplayRecord, orderVars, disk, work, call, Goto
  <2> QED
    BY <1>2, <2>1, OrderKept
<1>6. CASE LoadTableFails \/ FinishOpen \/ LogUnread \/ ReplayFails
  <2>1. /\ UNCHANGED <<sstables, nextSeq, manifest>>
        /\ inputs' = <<>> /\ out' = 0 /\ pc' # "loading"
    BY <1>6 DEF LoadTableFails, FinishOpen, LogUnread, ReplayFails, OpenGivesUp, OpenLog,
       EndWork, ReturnOK, disk
  <2>2. Increasing(inputs') /\ Below(inputs', nextSeq)
    BY <2>1, EmptyOrder
  <2> QED
    BY ONLY <1>1, <1>3, <2>1, <2>2 DEF OrderInv, InOrder, Increasing, Below
<1> QED
  BY <1>4, <1>5, <1>6 DEF OpenStep

\* The other steps take no number, or start from an empty list.
LEMMA CallOrder ==
  TypeInv /\ OrderInv /\ [Next]_vars /\ ~FlushStep /\ ~CompactStep /\ ~OpenStep => OrderInv'
<1> SUFFICES ASSUME TypeInv, OrderInv, [Next]_vars, ~FlushStep, ~CompactStep, ~OpenStep
             PROVE  OrderInv'
  OBVIOUS
<1>1. /\ out < nextSeq /\ nextSeq \in Nat /\ nextSeq # 0 /\ Increasing(manifest)
      /\ pc = "idle" => out = 0
      /\ pc # "closed" => InOrder(sstables) /\ InOrder(inputs)
  BY DEF TypeInv, TypeOK, Locals, OrderInv
<1>2. CASE WriteStep
  <2>1. UNCHANGED orderVars /\ pc # "closed" /\ pc' # "loading"
    BY <1>2 DEF WriteStep, AppendWal, AppendRefused, AppendFails, AppendLost, ApplyWrite,
       orderVars, disk, work, Goto, ReturnError, ReturnOK
  <2> QED
    BY <2>1, OrderKept
<1>3. CASE \/ \E k \in Keys, v \in Values : put(k, v)
           \/ \E k \in Keys : remove(k)
           \/ flush
           \/ compact
  <2>1. UNCHANGED orderVars /\ pc # "closed" /\ pc' # "loading"
    BY <1>3 DEF put, remove, CallWrite, flush, compact, orderVars, disk, work, Goto
  <2> QED
    BY <2>1, OrderKept
<1>4. CASE open
  <2>1. /\ sstables' = <<>> /\ inputs' = <<>> /\ out' = 0 /\ nextSeq' = 1
        /\ UNCHANGED manifest
    BY <1>4 DEF open, EndWork, FirstSeq
  <2>2. LoadedBefore' /\ Increasing(<<>>) /\ Below(<<>>, 1)
    BY <2>1, EmptyOrder DEF LoadedBefore
  <2> QED
    BY ONLY <1>1, <2>1, <2>2 DEF OrderInv, InOrder, Increasing, Below
<1>5. CASE close
  <2>1. /\ UNCHANGED <<nextSeq, out, manifest>> /\ pc' = "closed"
    BY <1>5 DEF close, work, Goto
  <2> QED
    BY ONLY <1>1, <2>1 DEF OrderInv, Increasing
<1>6. CASE Crash
  <2>1. /\ nextSeq' = 1 /\ out' = 0 /\ UNCHANGED manifest /\ pc' = "closed"
    BY <1>6 DEF Crash, EndWork
  <2> QED
    BY ONLY <1>1, <2>1 DEF OrderInv, Increasing
<1>7. CASE UNCHANGED vars
  BY <1>7 DEF vars, call, work, disk, OrderInv, InOrder, Increasing, Below, LoadedBefore
<1> QED
  BY <1>2, <1>3, <1>4, <1>5, <1>6, <1>7 DEF Next, Step

\* Every step of the store keeps OrderInv.
LEMMA OrderStep == TypeInv /\ OrderInv /\ [Next]_vars => OrderInv'
  BY FlushOrder, CompactOrder, OpenOrder, CallOrder

\* In every environment the manifest, the open tables and the inputs of a merge are
\* each in the order they were written in, below the number of the next table: what
\* a restart loads is in order too (kv_store.cpp:61-84).
THEOREM OrderInvariant == Spec => []OrderInv
  BY InitOrder, OrderStep, TypeInvariant, PTL DEF Spec

\* Whatever fails and whenever the process dies, the open tables are in the order
\* they were written in and the next number is above all of theirs: a lookup that
\* searches them backwards meets the newest entry first, and no new table takes the
\* number of one in use (kv_store.cpp:61-84).
THEOREM OrderCorrect == Spec => []TablesChronological
<1>1. TypeInv /\ OrderInv => TablesChronological
  <2> SUFFICES ASSUME TypeInv, OrderInv, pc # "closed"
               PROVE  /\ \A i, j \in DOMAIN sstables : i < j => sstables[i] < sstables[j]
                      /\ \A i \in DOMAIN sstables : sstables[i] < nextSeq
    BY DEF TablesChronological
  <2>1. /\ out \in Nat /\ nextSeq \in Nat /\ out < nextSeq
        /\ \A i \in DOMAIN sstables : sstables[i] \in Nat
    BY NumbersNat DEF OrderInv
  <2> QED
    BY <2>1 DEF OrderInv, InOrder, Increasing, Below
<1> QED
  BY <1>1, OrderInvariant, TypeInvariant, PTL

-----------------------------------------------------------------------------
(* Each crash and each failing call adds one table at most to what          *)
(* compaction allows.                                                       *)

\* The least number of tables that a compaction waits for.
Due == IF CompactionThreshold > 2 THEN CompactionThreshold ELSE 2

\* CountInv over the lengths alone: of the open tables, the inputs and the manifest.
Counts(step, tables, ins, named, at, limit) ==
  /\ tables <= limit /\ ins <= limit /\ named <= limit
  /\ step \notin {"manifest", "reset", "compact"} => tables < limit
  /\ step \notin {"reset", "compact", "merge", "remove"} => named < limit
  /\ step = "reset" => named <= tables
  /\ step = "loading" => tables < at

LEMMA CountsAre ==
  /\ CountInv <=> Counts(pc, Len(sstables), Len(inputs), Len(manifest), cursor, CountLimit)
  /\ CountLimit = Due + crashes + faults
  BY DEF CountInv, Counts, CountLimit, Due

LEMMA CountsAreNext ==
  /\ CountInv' <=> Counts(pc', Len(sstables'), Len(inputs'), Len(manifest'), cursor', CountLimit')
  /\ CountLimit' = Due + crashes' + faults'
  BY DEF CountInv, Counts, CountLimit, Due

\* The types in plain numbers.
LEMMA CountsNat ==
  ASSUME TypeInv
  PROVE  /\ Len(sstables) \in Nat /\ Len(inputs) \in Nat /\ Len(manifest) \in Nat
         /\ crashes \in Nat /\ faults \in Nat /\ cursor \in Nat \ {0}
         /\ Due \in Nat /\ Due >= 2 /\ CountLimit \in Nat /\ CountLimit >= 2
<1>1. Due \in Nat /\ Due >= 2
  BY StoreAssumption DEF Due
<1>2. crashes \in Nat /\ faults \in Nat /\ cursor \in Nat \ {0}
  BY StoreAssumption DEF TypeInv, TypeOK
<1>3. Len(sstables) \in Nat /\ Len(inputs) \in Nat /\ Len(manifest) \in Nat
  BY DEF TypeInv, TypeOK
<1> QED
  BY <1>1, <1>2, <1>3, CountsAre

\* A list with one element left out.
LEMMA RemoveAtLength ==
  ASSUME NEW S, NEW s \in Seq(S), NEW i \in 1 .. Len(s)
  PROVE  Len(RemoveAt(s, i)) = Len(s) - 1
<1>1. /\ SubSeq(s, 1, i - 1) \in Seq(S) /\ Len(SubSeq(s, 1, i - 1)) = i - 1
      /\ SubSeq(s, i + 1, Len(s)) \in Seq(S) /\ Len(SubSeq(s, i + 1, Len(s))) = Len(s) - i
  OBVIOUS
<1>2. \A a, b \in Seq(S) : Len(a \o b) = Len(a) + Len(b)
  OBVIOUS
<1>3. Len(RemoveAt(s, i)) = (i - 1) + (Len(s) - i)
  BY <1>1, <1>2 DEF RemoveAt
<1> QED
  BY <1>3

\* A database that does not exist yet has no tables.
LEMMA InitCount == Init => CountInv
<1> SUFFICES ASSUME Init PROVE CountInv
  OBVIOUS
<1>1. TypeInv
  BY InitType
<1>2. /\ Len(sstables) = 0 /\ Len(inputs) = 0 /\ Len(manifest) = 0 /\ pc = "closed"
  BY DEF Init
<1> QED
  BY <1>1, <1>2, CountsAre, CountsNat DEF Counts

\* What CountInv reads of the store, but for pc.
countVars == <<sstables, inputs, manifest, cursor, crashes, faults>>

\* The steps of flushInternal: one more table, and none without a due compaction.
LEMMA FlushCount == TypeInv /\ CountInv /\ FlushStep => CountInv'
<1> SUFFICES ASSUME TypeInv, CountInv, FlushStep PROVE CountInv'
  OBVIOUS
<1> USE CountsAre, CountsAreNext, CountsNat DEF Counts
<1>1. CASE CreateTable
  <2>1. UNCHANGED countVars /\ pc = "createTable" /\ pc' = "fillTable"
    BY <1>1 DEF CreateTable, Goto, countVars, env
  <2> QED
    BY <2>1 DEF countVars
<1>2. CASE CreateTableFails \/ FillTableFails \/ InstallManifestFails
  <2>1. /\ UNCHANGED <<sstables, manifest, crashes>> /\ faults' = faults + 1
        /\ inputs' \in {inputs, <<>>}
        /\ pc \in {"createTable", "fillTable", "manifest"} /\ pc' = "idle"
    BY <1>2 DEF CreateTableFails, FillTableFails, InstallManifestFails, Fault, OnManifestError,
       ReturnError, EndWork, work, disk
  <2>2. Len(inputs') \in {Len(inputs), 0}
    BY <2>1
  <2> QED
    BY <2>1, <2>2
<1>3. CASE FillTable
  <2>1. /\ UNCHANGED <<inputs, manifest, cursor, crashes, faults>>
        /\ sstables' = Append(sstables, out) /\ pc = "fillTable" /\ pc' = "manifest"
    BY <1>3 DEF FillTable, Goto, StepAfterFill, env
  <2>2. Len(sstables') = Len(sstables) + 1
    BY <2>1 DEF TypeInv, TypeOK
  <2> QED
    BY <2>1, <2>2
<1>4. CASE InstallManifest \/ InstallManifestShort
  <2>1. /\ UNCHANGED <<sstables, inputs, cursor, crashes>>
        /\ faults' = faults \/ faults' = faults + 1
        /\ pc = "manifest" /\ pc' = "reset"
    BY <1>4 DEF InstallManifest, InstallManifestShort, Fault, Goto, work, env
  <2>2. Len(manifest') \in 0 .. Len(sstables)
    <3>1. CASE InstallManifest
      BY <3>1 DEF InstallManifest
    <3>2. CASE InstallManifestShort
      <4>1. PICK n \in 0 .. Len(sstables) - 1 : manifest' = SubSeq(sstables, 1, n)
        BY <3>2 DEF InstallManifestShort
      <4>2. Len(SubSeq(sstables, 1, n)) = n
        BY <4>1 DEF TypeInv, TypeOK
      <4> QED
        BY <4>1, <4>2
    <3> QED
      BY <1>4, <3>1, <3>2
  <2> QED
    BY <2>1, <2>2
<1>5. CASE ResetWal
  <2>1. /\ UNCHANGED countVars /\ pc = "reset"
        /\ \/ pc' = "compact"
           \/ pc' \in {"idle", "append"} /\ ~CompactionDue(Len(sstables))
    BY <1>5 DEF ResetWal, Goto, ResumeCall, ReturnOK, countVars, work, env
  <2>2. ~CompactionDue(Len(sstables)) => Len(sstables) < Due
    BY StoreAssumption DEF CompactionDue, Due
  <2>3. /\ CountLimit' = CountLimit /\ Due <= CountLimit
        /\ Len(sstables') = Len(sstables) /\ Len(inputs') = Len(inputs)
        /\ Len(manifest') = Len(manifest)
    BY <2>1 DEF countVars
  <2>4. CASE pc' = "compact"
    BY <2>1, <2>3, <2>4
  <2>5. CASE pc' \in {"idle", "append"} /\ ~CompactionDue(Len(sstables))
    <3>1. Len(sstables) < CountLimit
      BY <2>2, <2>3, <2>5
    <3>2. Len(manifest) < CountLimit
      BY <1>5, <2>1, <3>1
    <3> QED
      BY <2>3, <2>5, <3>1, <3>2
  <2> QED
    BY <2>1, <2>4, <2>5
<1>6. CASE ResetWalFails
  <2>1. /\ UNCHANGED <<sstables, inputs, manifest, crashes>>
        /\ faults' = faults + 1 /\ pc' = "idle"
    BY <1>6 DEF ResetWalFails, Fault, ReturnError, work
  <2> QED
    BY <2>1
<1> QED
  BY <1>1, <1>2, <1>3, <1>4, <1>5, <1>6 DEF FlushStep

\* The steps of compactInternal: one table is left, or the inputs are again.
LEMMA CompactCount == TypeInv /\ CountInv /\ CompactStep => CountInv'
<1> SUFFICES ASSUME TypeInv, CountInv, CompactStep PROVE CountInv'
  OBVIOUS
<1> USE CountsAre, CountsAreNext, CountsNat DEF Counts
<1>1. CASE BeginCompaction
  <2>1. /\ UNCHANGED <<manifest, crashes, faults>>
        /\ inputs' = sstables /\ sstables' = <<>> /\ pc' = "merge"
    BY <1>1 DEF BeginCompaction, Goto, disk, env
  <2>2. Len(sstables') = 0
    BY <2>1
  <2> QED
    BY <2>1, <2>2
<1>2. CASE MergeTable \/ PlaceOutput \/ RemoveInput
  <2>1. /\ UNCHANGED <<sstables, inputs, manifest, crashes, faults>>
        /\ pc \in {"merge", "remove"} /\ pc' \in {"merge", "remove"}
    BY <1>2 DEF MergeTable, PlaceOutput, RemoveInput, Goto, call, disk, env
  <2> QED
    BY <2>1
<1>3. CASE RemoveInputFails
  <2>1. /\ UNCHANGED <<sstables, inputs, manifest, crashes, pc>>
        /\ faults' = faults + 1 /\ pc = "remove"
    BY <1>3 DEF RemoveInputFails, Fault, call, disk
  <2> QED
    BY <2>1
<1>4. CASE CompactionFails
  <2>1. /\ UNCHANGED <<manifest, crashes>> /\ faults' = faults + 1
        /\ sstables' \in Reopened /\ inputs' = <<>> /\ pc' = "idle"
    BY <1>4 DEF CompactionFails, Fault, EndWork, ReturnError, disk
  <2>2. Len(sstables') \in {Len(inputs), Len(inputs) - 1} /\ Len(sstables') <= Len(inputs)
    <3>1. \A i \in DOMAIN inputs : Len(RemoveAt(inputs, i)) = Len(inputs) - 1
      <4>1. inputs \in Seq(Seqs) /\ DOMAIN inputs = 1 .. Len(inputs)
        BY DEF TypeInv, TypeOK
      <4> QED
        BY <4>1, RemoveAtLength
    <3>2. CASE sstables' = inputs
      BY <3>2
    <3>3. CASE \E i \in DOMAIN inputs : sstables' = RemoveAt(inputs, i)
      BY <3>1, <3>3
    <3> QED
      BY <2>1, <3>2, <3>3 DEF Reopened
  <2>3. Len(inputs') = 0
    BY <2>1
  <2> QED
    BY <2>1, <2>2, <2>3
<1>5. CASE RegisterOutput \/ RegisterOutputShort
  <2>1. /\ sstables' = <<out>> /\ inputs' = <<>> /\ manifest' \in {<<out>>, <<>>}
        /\ crashes' = crashes /\ faults' \in {faults, faults + 1}
        /\ pc' \in {"idle", "append"}
    BY <1>5 DEF RegisterOutput, RegisterOutputShort, Fault, EndWork, ResumeCall, ReturnOK, Goto, env
  <2>2. Len(sstables') = 1 /\ Len(inputs') = 0
    BY <2>1
  <2>3. Len(manifest') \in Nat /\ Len(manifest') <= 1
    <3>1. CASE manifest' = <<out>>
      BY <3>1
    <3>2. CASE manifest' = <<>>
      BY <3>2
    <3> QED
      BY <2>1, <3>1, <3>2
  <2>4. CountLimit' \in Nat /\ CountLimit' >= 2
    BY <2>1
  <2>5. pc' \in {"idle", "append"}
    BY <2>1
  <2>6. Counts(pc', Len(sstables'), Len(inputs'), Len(manifest'), cursor', CountLimit')
    BY ONLY <2>2, <2>3, <2>4, <2>5 DEF Counts
  <2> QED
    BY ONLY <2>6, CountsAreNext
<1>6. CASE RegisterOutputFails
  <2>1. /\ sstables' \in {<<out>>, <<>>} /\ inputs' = <<>> /\ UNCHANGED <<manifest, crashes>>
        /\ faults' = faults + 1 /\ pc' = "idle"
    BY <1>6 DEF RegisterOutputFails, Fault, EndWork, ReturnError, disk
  <2>2. Len(sstables') \in {0, 1} /\ Len(inputs') = 0 /\ Len(manifest') = Len(manifest)
    BY <2>1
  <2>3. CountLimit' = CountLimit + 1 /\ CountLimit \in Nat /\ CountLimit >= 2
    BY <2>1
  <2>4. Len(manifest) \in Nat /\ Len(manifest) <= CountLimit
    OBVIOUS
  <2>5. pc' = "idle"
    BY <2>1
  <2>6. Counts(pc', Len(sstables'), Len(inputs'), Len(manifest'), cursor', CountLimit')
    BY ONLY <2>2, <2>3, <2>4, <2>5 DEF Counts
  <2> QED
    BY ONLY <2>6, CountsAreNext
<1> QED
  BY <1>1, <1>2, <1>3, <1>4, <1>5, <1>6 DEF CompactStep

\* The steps of open: no more tables than lines of the manifest.
LEMMA OpenCount == TypeInv /\ CountInv /\ OpenStep => CountInv'
<1> SUFFICES ASSUME TypeInv, CountInv, OpenStep PROVE CountInv'
  OBVIOUS
<1> USE CountsAre, CountsAreNext, CountsNat DEF Counts
<1>1. CASE LoadTable
  <2>1. /\ UNCHANGED <<inputs, manifest, crashes, faults, pc>> /\ cursor' = cursor + 1
        /\ pc = "loading" /\ cursor <= Len(manifest)
        /\ sstables' \in {sstables, Append(sstables, manifest[cursor])}
    BY <1>1 DEF LoadTable, Advance, call, disk, env
  <2>2. Len(sstables') \in {Len(sstables), Len(sstables) + 1}
    BY <2>1 DEF TypeInv, TypeOK
  <2>3. /\ CountLimit' = CountLimit /\ Len(inputs') = Len(inputs)
        /\ Len(manifest') = Len(manifest) /\ Len(manifest) < CountLimit
        /\ Len(sstables) < cursor
    BY <2>1
  <2>4. Len(sstables') < CountLimit /\ Len(sstables') < cursor'
    BY <2>1, <2>2, <2>3
  <2> QED
    BY <2>1, <2>3, <2>4
<1>2. CASE ManifestUnread \/ StartReplay \/ ReplayRecord
  <2>1. /\ UNCHANGED <<sstables, inputs, manifest, crashes>> /\ faults' \in {faults, faults + 1}
        /\ pc \in {"loading", "replay"} /\ pc' = "replay"
    BY <1>2 DEF ManifestUnread, StartReplay, ReplayRecord, Fault, Goto, call, work, disk, env
  <2> QED
    BY <2>1
<1>3. CASE LoadTableFails \/ FinishOpen \/ LogUnread \/ ReplayFails
  <2>1. /\ UNCHANGED <<sstables, manifest, crashes>> /\ faults' \in {faults, faults + 1}
        /\ inputs' = <<>>
        /\ pc \in {"loading", "replay"} /\ pc' \in {"closed", "idle"}
    BY <1>3 DEF LoadTableFails, FinishOpen, LogUnread, ReplayFails, Fault, OpenGivesUp, OpenLog,
       EndWork, ReturnOK, disk, env
  <2>2. Len(inputs') = 0
    BY <2>1
  <2> QED
    BY <2>1, <2>2
<1> QED
  BY <1>1, <1>2, <1>3 DEF OpenStep

\* The other steps add no table; a crash raises the limit.
LEMMA CallCount ==
  TypeInv /\ CountInv /\ [Next]_vars /\ ~FlushStep /\ ~CompactStep /\ ~OpenStep => CountInv'
<1> SUFFICES ASSUME TypeInv, CountInv, [Next]_vars, ~FlushStep, ~CompactStep, ~OpenStep
             PROVE  CountInv'
  OBVIOUS
<1> USE CountsAre, CountsAreNext, CountsNat DEF Counts
<1>1. CASE WriteStep
  <2>1. /\ UNCHANGED <<sstables, inputs, manifest, crashes>> /\ faults' \in {faults, faults + 1}
        /\ pc \in {"append", "apply"} /\ pc' \in {"apply", "idle"}
    BY <1>1 DEF WriteStep, AppendWal, AppendRefused, AppendFails, AppendLost, ApplyWrite,
       Fault, disk, work, env, Goto, ReturnError, ReturnOK
  <2> QED
    BY <2>1
<1>2. CASE \/ \E k \in Keys, v \in Values : put(k, v)
           \/ \E k \in Keys : remove(k)
           \/ flush
           \/ compact
  <2>1. /\ UNCHANGED countVars /\ pc = "idle"
        /\ pc' \in {"createTable", "append", "compact"}
    BY <1>2 DEF put, remove, CallWrite, flush, compact, countVars, disk, work, env, Goto
  <2> QED
    BY <2>1 DEF countVars
<1>3. CASE open
  <2>1. /\ sstables' = <<>> /\ inputs' = <<>> /\ cursor' = 1
        /\ UNCHANGED <<manifest, crashes, faults>>
        /\ pc \in {"closed", "idle"} /\ pc' = "loading"
    BY <1>3 DEF open, EndWork, Goto, env
  <2>2. Len(sstables') = 0 /\ Len(inputs') = 0
    BY <2>1
  <2> QED
    BY <2>1, <2>2
<1>4. CASE close
  <2>1. /\ sstables' = <<>> /\ UNCHANGED <<inputs, manifest, crashes, faults>>
        /\ pc = "idle" /\ pc' = "closed"
    BY <1>4 DEF close, Goto, work, env
  <2>2. Len(sstables') = 0
    BY <2>1
  <2> QED
    BY <2>1, <2>2
<1>5. CASE Crash
  <2>1. /\ sstables' = <<>> /\ inputs' = <<>> /\ UNCHANGED <<manifest, faults>>
        /\ crashes' = crashes + 1 /\ pc' = "closed"
    BY <1>5 DEF Crash, EndWork
  <2>2. Len(sstables') = 0 /\ Len(inputs') = 0
    BY <2>1
  <2> QED
    BY <2>1, <2>2
<1>6. CASE UNCHANGED vars
  BY <1>6 DEF vars, call, work, disk, env
<1> QED
  BY <1>1, <1>2, <1>3, <1>4, <1>5, <1>6 DEF Next, Step

\* Every step of the store keeps CountInv.
LEMMA CountStep == TypeInv /\ CountInv /\ [Next]_vars => CountInv'
  BY FlushCount, CompactCount, OpenCount, CallCount

\* In every environment the tables that are open, that a merge takes and that the
\* manifest names stay within what compaction allows, but for one more for each crash
\* and each failing call, at every step of a call (kv_store.cpp:254-342).
THEOREM CountInvariant == Spec => []CountInv
  BY InitCount, CountStep, TypeInvariant, PTL DEF Spec

\* Whatever fails and whenever the process dies, the tables a lookup has to search
\* stay below the compaction threshold, but for one more for each crash and each
\* failing call so far (kv_store.cpp:289-295).
THEOREM TableCountCorrect == Spec => []TableCountBounded
<1>1. CountInv => TableCountBounded
  BY DEF CountInv, CountLimit, TableCountBounded
<1> QED
  BY <1>1, CountInvariant, PTL

-----------------------------------------------------------------------------
(* The files nobody knows, in a safe environment.                          *)

\* A prefix, element by element.
LEMMA PrefixIs ==
  ASSUME NEW S, NEW s \in Seq(S), NEW t \in Seq(S)
  PROVE  IsPrefix(s, t) <=> /\ Len(s) <= Len(t)
                            /\ \A i \in 1 .. Len(s) : s[i] = t[i]
<1>1. SubSeq(s, 1, Len(s)) = s
  OBVIOUS
<1>2. ASSUME Len(s) <= Len(t)
      PROVE  SubSeq(s, 1, Len(s)) = SubSeq(t, 1, Len(s)) <=> \A i \in 1 .. Len(s) : s[i] = t[i]
  <2> DEFINE u == SubSeq(t, 1, Len(s))
  <2>1. u \in Seq(S) /\ Len(u) = Len(s) /\ \A i \in 1 .. Len(s) : u[i] = t[i]
    BY <1>2
  <2> HIDE DEF u
  <2>2. (\A i \in 1 .. Len(s) : s[i] = u[i]) => s = u
    BY <2>1
  <2>3. s = u <=> \A i \in 1 .. Len(s) : s[i] = t[i]
    BY <2>1, <2>2
  <2> QED
    BY <1>1, <2>3 DEF u
<1> QED
  BY <1>2 DEF IsPrefix

LEMMA PrefixOfItself ==
  ASSUME NEW S, NEW s \in Seq(S)
  PROVE  IsPrefix(s, s)
  BY PrefixIs

\* A prefix of a list stays one when the list grows.
LEMMA PrefixKept ==
  ASSUME NEW S, NEW s \in Seq(S), NEW t \in Seq(S), NEW e \in S, IsPrefix(s, t)
  PROVE  IsPrefix(s, Append(t, e)) /\ Len(s) < Len(Append(t, e))
<1> DEFINE u == Append(t, e)
<1>1. Len(s) <= Len(t) /\ \A i \in 1 .. Len(s) : s[i] = t[i]
  BY PrefixIs
<1>2. /\ u \in Seq(S) /\ Len(u) = Len(t) + 1
      /\ \A i \in 1 .. Len(t) : u[i] = t[i]
  OBVIOUS
<1> HIDE DEF u
<1>3. Len(s) < Len(u) /\ \A i \in 1 .. Len(s) : s[i] = u[i]
  BY <1>1, <1>2
<1>4. IsPrefix(s, u)
  BY <1>2, <1>3, PrefixIs
<1> QED
  BY <1>3, <1>4 DEF u

\* In a safe environment every step keeps the manifest a prefix of the known tables.
LEMMA BehindStep ==
  ASSUME SafeEnv, TypeInv, Inv, ManifestBehind, [Next]_vars
  PROVE  ManifestBehind'
<1> USE DEF ManifestBehind, KnownTables, Running
<1>1. sstables \in Seq(Seqs) /\ manifest \in Seq(Seqs) /\ inputs \in Seq(Seqs)
  BY DEF TypeInv, TypeOK
<1>2. IsPrefix(sstables, sstables) /\ IsPrefix(<<out>>, <<out>>)
  <2>1. <<out>> \in Seq(Nat)
    BY StoreAssumption DEF TypeInv, TypeOK
  <2> QED
    BY <1>1, <2>1, PrefixOfItself
<1>3. CASE FillTable
  <2>1. pc = "fillTable" /\ sstables' = Append(sstables, out) /\ manifest' = manifest /\ pc' = "manifest"
    BY <1>3 DEF FillTable, Goto, StepAfterFill
  <2>2. out \in Seqs
    BY <2>1, StoreAssumption DEF TypeInv, TypeOK, Locals, Seqs
  <2> QED
    BY <1>1, <2>1, <2>2, PrefixKept
<1>4. CASE InstallManifest
  BY <1>2, <1>4 DEF InstallManifest, Goto
<1>5. CASE RegisterOutput
  BY <1>2, <1>5 DEF RegisterOutput, ResumeCall, ReturnOK, Goto
<1>6. CASE FinishOpen
  <2>1. pc = "replay" /\ sstables' = sstables /\ manifest' = manifest /\ pc' = "idle"
    BY <1>6 DEF FinishOpen, OpenLog, ReturnOK, disk
  <2>2. sstables = manifest
    BY <2>1 DEF Inv, Loops
  <2> QED
    BY <1>2, <2>1, <2>2
<1>7. CASE BeginCompaction \/ CompactionFails
  <2>1. CASE BeginCompaction
    BY <2>1 DEF BeginCompaction, Goto, disk
  <2>2. CASE CompactionFails
    <3>1. sstables' = inputs /\ manifest' = manifest /\ pc = "merge" /\ pc' = "idle"
      BY <2>2 DEF CompactionFails, Reopened, ReturnError, disk, SafeEnv, SafeFaults
    <3> QED
      BY <3>1
  <2> QED
    BY <1>7, <2>1, <2>2
<1>8. CASE FlushStep
  BY <1>3, <1>4, <1>8, NoUnsafeFault
     DEF FlushStep, CreateTable, CreateTableFails, FillTableFails, InstallManifestFails,
         OnManifestError, ResetWal, ResetWalFails, Goto, ReturnError, ResumeCall, ReturnOK,
         work, disk
<1>9. CASE CompactStep
  BY <1>5, <1>7, <1>9, NoUnsafeFault
     DEF CompactStep, MergeTable, PlaceOutput, RemoveInput, RemoveInputFails, call, Goto, disk
<1>10. CASE WriteStep
  BY <1>10, NoUnsafeFault
     DEF WriteStep, AppendWal, AppendRefused, AppendFails, ApplyWrite, ReturnOK, ReturnError,
         Goto, work, disk
<1>11. CASE OpenStep
  BY <1>6, <1>11, NoUnsafeFault
     DEF OpenStep, LoadTable, LoadTableFails, StartReplay, ReplayRecord, ReplayFails,
         OpenGivesUp, call, Goto
<1>12. CASE (\E k \in Keys, v \in Values : put(k, v)) \/ (\E k \in Keys : remove(k))
  BY <1>12 DEF put, remove, CallWrite, work, disk
<1>13. CASE flush \/ compact \/ open \/ close \/ Crash
  BY <1>13 DEF flush, compact, open, close, Crash, Goto, work, disk
<1>14. CASE UNCHANGED vars
  BY <1>14 DEF vars, call, work, disk
<1> QED
  BY <1>8, <1>9, <1>10, <1>11, <1>12, <1>13, <1>14 DEF Next, Step

\* Sets of table numbers: a part has no more elements, and one more element counts one.
LEMMA CountParts ==
  ASSUME NEW A \in SUBSET Seqs, NEW B \in SUBSET Seqs, NEW n \in Nat, Cardinality(B) <= n
  PROVE  /\ A \subseteq B => Cardinality(A) <= n
         /\ \A x : A \subseteq B \cup {x} => Cardinality(A) <= n + 1
<1>1. IsFiniteSet(Seqs)
  BY FS_Interval, StoreAssumption DEF Seqs
<1>2. IsFiniteSet(A) /\ IsFiniteSet(B)
  BY <1>1, FS_Subset
<1>3. Cardinality(A) \in Nat /\ Cardinality(B) \in Nat
  BY <1>2, FS_CardinalityType
<1>4. A \subseteq B => Cardinality(A) <= Cardinality(B)
  BY <1>2, FS_Subset
<1>5. ASSUME NEW x, A \subseteq B \cup {x} PROVE Cardinality(A) <= n + 1
  <2>1. IsFiniteSet(B \cup {x}) /\ Cardinality(B \cup {x}) <= Cardinality(B) + 1
    BY <1>2, <1>3, FS_AddElement
  <2>2. Cardinality(A) <= Cardinality(B \cup {x}) /\ Cardinality(B \cup {x}) \in Nat
    BY <1>5, <2>1, FS_Subset, FS_CardinalityType
  <2> QED
    BY <1>3, <2>1, <2>2
<1> QED
  BY <1>3, <1>4, <1>5

\* A step adds no orphan, unless it is a crash or a failing call: that adds one.
OneMoreAtMost(new, old) ==
  \/ new \subseteq old /\ crashes' + faults' >= crashes + faults
  \/ (\E x : new \subseteq old \cup {x}) /\ crashes' + faults' = crashes + faults + 1

\* flushInternal: the new table is pending until the manifest lists it; a failure
\* leaves it behind.
LEMMA FlushOrphans ==
  ASSUME SafeEnv, TypeInv, ManifestBehind, FlushStep
  PROVE  OneMoreAtMost(Orphans', Orphans)
<1> USE DEF Orphans
<1>1. crashes \in Nat /\ faults \in Nat /\ files \in [Seqs -> [state : {"missing", "partial", "complete"}, data : [Keys -> Slot]]]
  BY StoreAssumption DEF TypeInv, TypeOK
<1>2. CASE CreateTable
  <2>1. /\ pc = "createTable" /\ pc' = "fillTable" /\ out' = nextSeq /\ manifest' = manifest
        /\ files' = [files EXCEPT ![nextSeq] = PartialFile] /\ crashes' = crashes /\ faults' = faults
    BY <1>2 DEF CreateTable, Goto, env
  <2>2. OnDisk' \subseteq OnDisk \cup {nextSeq}
    BY <1>1, <2>1 DEF OnDisk
  <2> QED
    BY <1>1, <2>1, <2>2 DEF OneMoreAtMost, Pending
<1>3. CASE CreateTableFails
  <2>1. /\ pc = "createTable" /\ pc' = "idle" /\ manifest' = manifest /\ files' = files
        /\ crashes' = crashes /\ faults' = faults + 1
    BY <1>3 DEF CreateTableFails, ReturnError, Fault, disk
  <2> QED
    BY <1>1, <2>1 DEF OneMoreAtMost, Pending, OnDisk
<1>4. CASE FillTable
  <2>1. /\ pc = "fillTable" /\ pc' = "manifest" /\ manifest' = manifest
        /\ sstables' = Append(sstables, out)
        /\ files' = [files EXCEPT ![out] = TableFile(table)] /\ crashes' = crashes /\ faults' = faults
    BY <1>4 DEF FillTable, Goto, StepAfterFill, env
  <2>2. OnDisk' \subseteq OnDisk \cup {out}
    BY <1>1, <2>1 DEF OnDisk
  <2>3. Last(sstables') = out
    BY <2>1 DEF Last, TypeInv, TypeOK
  <2> QED
    BY <1>1, <2>1, <2>2, <2>3 DEF OneMoreAtMost, Pending
<1>5. CASE FillTableFails
  <2>1. /\ pc = "fillTable" /\ pc' = "idle" /\ manifest' = manifest
        /\ files' \in {files, [files EXCEPT ![out] = TableFile(table)]}
        /\ crashes' = crashes /\ faults' = faults + 1
    BY <1>5 DEF FillTableFails, ReturnError, Fault
  <2>2. OnDisk' \subseteq OnDisk \cup {out}
    BY <1>1, <2>1 DEF OnDisk
  <2> QED
    BY <1>1, <2>1, <2>2 DEF OneMoreAtMost, Pending
<1>6. CASE InstallManifest
  <2>1. /\ pc = "manifest" /\ pc' = "reset" /\ manifest' = sstables /\ files' = files
        /\ crashes' = crashes /\ faults' = faults
    BY <1>6 DEF InstallManifest, Goto, env
  <2>2. ToSet(manifest) \cup {Last(sstables)} \subseteq ToSet(sstables)
    <3>1. sstables \in Seq(Seqs) /\ manifest \in Seq(Seqs)
      BY DEF TypeInv, TypeOK
    <3>2. IsPrefix(manifest, sstables) /\ Len(manifest) < Len(sstables)
      BY <2>1 DEF ManifestBehind, Running, KnownTables
    <3>3. \A i \in 1 .. Len(manifest) : manifest[i] = sstables[i]
      BY <3>1, <3>2, PrefixIs
    <3>4. DOMAIN manifest = 1 .. Len(manifest) /\ DOMAIN sstables = 1 .. Len(sstables)
          /\ Len(manifest) \in Nat /\ Len(sstables) \in Nat
      BY <3>1
    <3>5. Len(sstables) \in DOMAIN sstables /\ DOMAIN manifest \subseteq DOMAIN sstables
      BY <3>2, <3>4
    <3> QED
      BY <3>3, <3>4, <3>5 DEF ToSet, Last
  <2> QED
    BY <1>1, <2>1, <2>2 DEF OneMoreAtMost, Pending, OnDisk
<1>7. CASE InstallManifestFails
  <2>1. /\ pc = "manifest" /\ pc' = "idle" /\ manifest' = manifest /\ files' = files
        /\ crashes' = crashes /\ faults' = faults + 1
    BY <1>7 DEF InstallManifestFails, OnManifestError, ReturnError, Fault, disk
  <2> QED
    BY <1>1, <2>1 DEF OneMoreAtMost, Pending, OnDisk
<1>8. CASE ResetWal \/ ResetWalFails
  <2>1. /\ pc = "reset" /\ pc' \in {"compact", "append", "idle"}
        /\ manifest' = manifest /\ files' = files /\ crashes' = crashes
        /\ faults' = faults \/ faults' = faults + 1
    BY <1>8 DEF ResetWal, ResetWalFails, Goto, ResumeCall, ReturnOK, ReturnError, Fault, env
  <2> QED
    BY <1>1, <2>1 DEF OneMoreAtMost, Pending, OnDisk
<1> QED
  BY <1>2, <1>3, <1>4, <1>5, <1>6, <1>7, <1>8, NoUnsafeFault DEF FlushStep

\* compactInternal: the merged table is pending until it is registered, and then only
\* the inputs that were not removed are left.
LEMMA CompactOrphans ==
  ASSUME SafeEnv, TypeInv, ManifestBehind, CompactStep, ~RegisterOutput
  PROVE  OneMoreAtMost(Orphans', Orphans)
<1> USE DEF Orphans
<1>1. crashes \in Nat /\ faults \in Nat /\ files \in [Seqs -> [state : {"missing", "partial", "complete"}, data : [Keys -> Slot]]]
  BY StoreAssumption DEF TypeInv, TypeOK
<1>2. CASE BeginCompaction \/ MergeTable
  <2>1. /\ pc' = "merge" /\ pc \in {"compact", "merge"} /\ manifest' = manifest /\ files' = files
        /\ crashes' = crashes /\ faults' = faults
    BY <1>2 DEF BeginCompaction, MergeTable, Goto, call, env, disk
  <2> QED
    BY <1>1, <2>1 DEF OneMoreAtMost, Pending, OnDisk
<1>3. CASE PlaceOutput
  <2>1. /\ pc = "merge" /\ pc' = "remove" /\ manifest' = manifest /\ out' = out
        /\ files' = [files EXCEPT ![out] = TableFile(Survivors(merged))]
        /\ crashes' = crashes /\ faults' = faults
    BY <1>3 DEF PlaceOutput, Goto, env
  <2>2. OnDisk' \subseteq OnDisk \cup {out}
    BY <1>1, <2>1 DEF OnDisk
  <2> QED
    BY <1>1, <2>1, <2>2 DEF OneMoreAtMost, Pending
<1>4. CASE CompactionFails
  <2>1. /\ pc = "merge" /\ pc' = "idle" /\ manifest' = manifest /\ files' = files
        /\ crashes' = crashes /\ faults' = faults + 1
    BY <1>4 DEF CompactionFails, ReturnError, Fault, disk
  <2> QED
    BY <1>1, <2>1 DEF OneMoreAtMost, Pending, OnDisk
<1>5. CASE RemoveInput
  <2>1. /\ pc = "remove" /\ pc' = "remove" /\ manifest' = manifest /\ out' = out
        /\ files' = [files EXCEPT ![inputs[cursor]] = MissingFile]
        /\ crashes' = crashes /\ faults' = faults
    BY <1>5 DEF RemoveInput, Removed, call, env
  <2>2. OnDisk' \subseteq OnDisk
    BY <1>1, <2>1 DEF OnDisk
  <2> QED
    BY <1>1, <2>1, <2>2 DEF OneMoreAtMost, Pending
<1>6. CASE RemoveInputFails
  <2>1. /\ pc = "remove" /\ pc' = "remove" /\ manifest' = manifest /\ out' = out /\ files' = files
        /\ crashes' = crashes /\ faults' = faults + 1
    BY <1>6 DEF RemoveInputFails, Fault, call, disk
  <2> QED
    BY <1>1, <2>1 DEF OneMoreAtMost, Pending, OnDisk
<1> QED
  BY <1>2, <1>3, <1>4, <1>5, <1>6, NoUnsafeFault DEF CompactStep

\* Reading, writing the log and opening leave the tables alone; a crash leaves the
\* pending one behind.
LEMMA OtherOrphans ==
  ASSUME SafeEnv, TypeInv, [Next]_vars, ~FlushStep, ~CompactStep
  PROVE  OneMoreAtMost(Orphans', Orphans)
<1> USE DEF Orphans
<1>1. crashes \in Nat /\ faults \in Nat
  BY StoreAssumption DEF TypeInv, TypeOK
<1>2. CASE Crash
  <2>1. manifest' = manifest /\ files' = files /\ pc' = "closed"
        /\ crashes' = crashes + 1 /\ faults' = faults
    BY <1>2 DEF Crash
  <2>2. \E x : Pending \subseteq {x}
    BY DEF Pending
  <2> QED
    BY <1>1, <2>1, <2>2 DEF OneMoreAtMost, Pending, OnDisk
<1>3. ASSUME UNCHANGED <<files, manifest, crashes>>, faults' = faults \/ faults' = faults + 1,
             Pending' = Pending
      PROVE  OneMoreAtMost(Orphans', Orphans)
  BY <1>1, <1>3 DEF OneMoreAtMost, OnDisk
<1>4. CASE WriteStep
  <2>1. /\ UNCHANGED <<files, manifest, crashes>>
        /\ faults' = faults \/ faults' = faults + 1
        /\ pc \in {"append", "apply"} /\ pc' \in {"apply", "idle"}
    BY <1>4, NoUnsafeFault
       DEF WriteStep, AppendWal, AppendRefused, AppendFails, ApplyWrite, ReturnOK, ReturnError,
           Goto, Fault, disk, env
  <2> QED
    BY <1>3, <2>1 DEF Pending
<1>5. CASE OpenStep
  <2>1. /\ UNCHANGED <<files, manifest, crashes>>
        /\ faults' = faults \/ faults' = faults + 1
        /\ pc \in {"loading", "replay"} /\ pc' \in {"loading", "replay", "idle", "closed"}
    BY <1>5, NoUnsafeFault
       DEF OpenStep, LoadTable, LoadTableFails, StartReplay, ReplayRecord, FinishOpen, OpenLog,
           ReplayFails, OpenGivesUp, ReturnOK, Goto, Fault, disk, call, env
  <2> QED
    BY <1>3, <2>1 DEF Pending
<1>6. CASE (\E k \in Keys, v \in Values : put(k, v)) \/ (\E k \in Keys : remove(k))
           \/ flush \/ compact \/ open \/ close
  <2>1. /\ UNCHANGED <<files, manifest, crashes, faults>> /\ pc \in {"idle", "closed"}
        /\ pc' \in {"createTable", "append", "compact", "loading", "closed"}
    BY <1>6 DEF put, remove, CallWrite, flush, compact, open, close, Goto, disk, env
  <2> QED
    BY <1>3, <2>1 DEF Pending
<1>7. CASE UNCHANGED vars
  <2>1. UNCHANGED <<files, manifest, crashes, faults, pc, out, sstables>>
    BY <1>7 DEF vars, call, work, disk, env
  <2> QED
    BY <1>3, <2>1 DEF Pending
<1> QED
  BY <1>2, <1>4, <1>5, <1>6, <1>7 DEF Next, Step

\* The merged table is registered when nothing is left to be removed.
LEMMA RegisterOrphans ==
  ASSUME TypeInv, OrphanInv, RegisterOutput
  PROVE  /\ Orphans' \subseteq Staying /\ Cardinality(Staying) <= crashes + faults
         /\ crashes' = crashes /\ faults' = faults /\ pc' # "remove"
<1>1. /\ pc = "remove" /\ cursor > Len(inputs) /\ files' = files /\ manifest' = <<out>>
      /\ crashes' = crashes /\ faults' = faults /\ pc' \in {"idle", "append"}
  BY DEF RegisterOutput, ResumeCall, ReturnOK, Goto, env
<1>2. cursor \in Nat /\ Len(inputs) \in Nat
  BY DEF TypeInv, TypeOK
<1>3. ToRemove = {}
  BY <1>1, <1>2 DEF ToRemove
<1>4. ToSet(manifest') = {out}
  <2>1. DOMAIN <<out>> = {1} /\ <<out>>[1] = out
    OBVIOUS
  <2> QED
    BY <1>1, <2>1 DEF ToSet
<1> QED
  BY <1>1, <1>3, <1>4 DEF Orphans, Staying, Pending, OnDisk, OrphanInv

\* While inputs are removed, what stays is what was there before, and each input whose
\* removal fails.
LEMMA StayingStep ==
  ASSUME SafeEnv, TypeInv, OrphanInv, [Next]_vars, pc' = "remove"
  PROVE  \/ /\ OneMoreAtMost(Staying', Staying)
            /\ Cardinality(Staying) <= crashes + faults
         \/ /\ Staying' \subseteq Orphans
            /\ crashes' = crashes /\ faults' = faults
<1>1. /\ crashes \in Nat /\ faults \in Nat /\ inputs \in Seq(Seqs) /\ manifest \in Seq(Seqs)
      /\ cursor \in Nat \ {0}
      /\ files \in [Seqs -> [state : {"missing", "partial", "complete"}, data : [Keys -> Slot]]]
  BY StoreAssumption DEF TypeInv, TypeOK
<1>2. CASE pc = "remove"
  <2>1. Cardinality(Staying) <= crashes + faults
    BY <1>2 DEF OrphanInv
  <2>2. CASE RemoveInput
    <3>1. /\ files' = [files EXCEPT ![inputs[cursor]] = MissingFile] /\ cursor' = cursor + 1
          /\ inputs' = inputs /\ out' = out /\ crashes' = crashes /\ faults' = faults
          /\ cursor <= Len(inputs)
      BY <2>2 DEF RemoveInput, Removed, Advance, env
    <3>2. inputs[cursor] \in Seqs
      BY <1>1, <3>1
    <3>3. OnDisk' \subseteq OnDisk \ {inputs[cursor]}
      BY <1>1, <3>1, <3>2 DEF OnDisk
    <3>4. ToRemove \subseteq ToRemove' \cup {inputs[cursor]}
      BY <1>1, <3>1 DEF ToRemove
    <3>5. Staying' \subseteq Staying
      BY <1>2, <3>1, <3>3, <3>4 DEF Staying, Pending
    <3> QED
      BY <1>1, <2>1, <3>1, <3>5 DEF OneMoreAtMost
  <2>3. CASE RemoveInputFails
    <3>1. /\ files' = files /\ cursor' = cursor + 1
          /\ inputs' = inputs /\ out' = out /\ crashes' = crashes /\ faults' = faults + 1
          /\ cursor <= Len(inputs)
      BY <2>3 DEF RemoveInputFails, Advance, Fault, disk
    <3>4. ToRemove \subseteq ToRemove' \cup {inputs[cursor]}
      BY <1>1, <3>1 DEF ToRemove
    <3>5. Staying' \subseteq Staying \cup {inputs[cursor]}
      BY <1>2, <3>1, <3>4 DEF Staying, Pending, OnDisk
    <3>6. \E x : Staying' \subseteq Staying \cup {x}
      BY <3>5
    <3>7. crashes' + faults' = crashes + faults + 1
      BY <1>1, <3>1
    <3> QED
      BY <2>1, <3>6, <3>7 DEF OneMoreAtMost
  <2>4. CASE UNCHANGED vars
    <3>1. UNCHANGED <<files, inputs, out, cursor, pc, crashes, faults>>
      BY <2>4 DEF vars, call, work, disk, env
    <3>2. Staying' = Staying
      BY <1>2, <3>1 DEF Staying, OnDisk, Pending, ToRemove
    <3> QED
      BY <1>1, <2>1, <3>1, <3>2 DEF OneMoreAtMost
  <2>5. RemoveInput \/ RemoveInputFails \/ UNCHANGED vars
    BY <1>2, NoUnsafeFault
       DEF Next, Step, FlushStep, CompactStep, WriteStep, OpenStep, put, remove, CallWrite, flush,
           compact, open, close, Crash, CreateTable, CreateTableFails, FillTable, FillTableFails,
           InstallManifest, InstallManifestFails, ResetWal, ResetWalFails, BeginCompaction,
           MergeTable, PlaceOutput, CompactionFails, RegisterOutput, ResumeCall, ReturnOK, Goto,
           AppendWal, AppendRefused, AppendFails, ApplyWrite, LoadTable, LoadTableFails,
           StartReplay, ReplayRecord, FinishOpen, ReplayFails
  <2> QED
    BY <2>2, <2>3, <2>4, <2>5
<1>3. CASE pc # "remove"
  <2>1. PlaceOutput
    BY <1>3, NoUnsafeFault
       DEF vars, call, Next, Step, FlushStep, CompactStep, WriteStep, OpenStep, put, remove, CallWrite,
           flush, compact, open, close, Crash, CreateTable, CreateTableFails, FillTable,
           FillTableFails, InstallManifest, InstallManifestFails, OnManifestError, ResetWal,
           ResetWalFails, BeginCompaction, MergeTable, PlaceOutput, CompactionFails, RemoveInput,
           RemoveInputFails, RegisterOutput, ResumeCall, ReturnOK, ReturnError, Goto, AppendWal,
           AppendRefused, AppendFails, ApplyWrite, LoadTable, LoadTableFails, StartReplay,
           ReplayRecord, FinishOpen, OpenLog, ReplayFails, OpenGivesUp, StepAfterFill
  <2>2. /\ pc = "merge" /\ out' = out /\ cursor' = 1 /\ inputs' = inputs
        /\ files' = [files EXCEPT ![out] = TableFile(Survivors(merged))]
        /\ crashes' = crashes /\ faults' = faults
    BY <2>1 DEF PlaceOutput, env
  <2>3. OnDisk' \subseteq OnDisk \cup {out}
    BY <1>1, <2>2 DEF OnDisk
  <2>4. ToSet(manifest) \subseteq ToRemove'
    <3>1. IsPrefix(manifest, inputs)
      BY <2>2 DEF OrphanInv, ManifestBehind, KnownTables, Running
    <3>2. Len(manifest) <= Len(inputs) /\ \A i \in 1 .. Len(manifest) : manifest[i] = inputs[i]
      BY <1>1, <3>1, PrefixIs
    <3>3. DOMAIN manifest = 1 .. Len(manifest) /\ Len(manifest) \in Nat /\ Len(inputs) \in Nat
      BY <1>1
    <3> QED
      BY <2>2, <3>2, <3>3 DEF ToSet, ToRemove
  <2>5. Staying' \subseteq Orphans
    BY <2>2, <2>3, <2>4 DEF Staying, Orphans, Pending
  <2> QED
    BY <2>2, <2>5
<1> QED
  BY <1>2, <1>3

\* OneMoreAtMost keeps a bound on the number of files.
LEMMA BoundKept ==
  ASSUME TypeInv, TypeInv', NEW A \in SUBSET Seqs, NEW B \in SUBSET Seqs,
         OneMoreAtMost(A, B), Cardinality(B) <= crashes + faults
  PROVE  Cardinality(A) <= crashes' + faults'
<1>1. /\ crashes \in Nat /\ faults \in Nat /\ crashes' \in Nat /\ faults' \in Nat
  BY StoreAssumption DEF TypeInv, TypeOK
<1>2. A \subseteq B => Cardinality(A) <= crashes + faults
  BY <1>1, CountParts
<1>3. \A x : A \subseteq B \cup {x} => Cardinality(A) <= crashes + faults + 1
  BY <1>1, CountParts
<1>4. IsFiniteSet(Seqs)
  BY FS_Interval, StoreAssumption DEF Seqs
<1>5. IsFiniteSet(A)
  BY <1>4, FS_Subset
<1>6. Cardinality(A) \in Nat
  BY <1>5, FS_CardinalityType
<1>7. CASE A \subseteq B /\ crashes' + faults' >= crashes + faults
  <2>1. Cardinality(A) <= crashes + faults
    BY <1>2, <1>7
  <2>2. crashes + faults <= crashes' + faults'
    BY <1>1, <1>7
  <2>3. \A a, b, c \in Nat : a <= b /\ b <= c => a <= c
    OBVIOUS
  <2>4. crashes + faults \in Nat
    BY ONLY <1>1
  <2>5. crashes' \in Nat /\ faults' \in Nat
    BY <1>1
  <2>6. \A a, b \in Nat : a + b \in Nat
    OBVIOUS
  <2>7. crashes' + faults' \in Nat
    BY <2>5, <2>6
  <2> QED
    BY <1>6, <2>1, <2>2, <2>3, <2>4, <2>7
<1>8. CASE (\E x : A \subseteq B \cup {x}) /\ crashes' + faults' = crashes + faults + 1
  BY <1>3, <1>8
<1> QED
  BY <1>7, <1>8 DEF OneMoreAtMost

\* Every step in a safe environment keeps OrphanInv.
LEMMA OrphanStep ==
  ASSUME SafeEnv, TypeInv, Inv, OrphanInv, [Next]_vars
  PROVE  OrphanInv'
<1>1. TypeInv'
  BY TypeStep
<1>2. ManifestBehind'
  BY BehindStep DEF OrphanInv
<1>3. /\ Orphans \in SUBSET Seqs /\ Orphans' \in SUBSET Seqs
      /\ Staying \in SUBSET Seqs /\ Staying' \in SUBSET Seqs
  BY DEF Orphans, Staying, OnDisk
<1>4. Cardinality(Orphans) <= crashes + faults
  BY DEF OrphanInv
<1>5. Cardinality(Orphans') <= crashes' + faults'
  <2>1. CASE RegisterOutput
    <3>1. /\ Orphans' \subseteq Staying /\ Cardinality(Staying) <= crashes + faults
          /\ crashes' = crashes /\ faults' = faults
      BY <2>1, RegisterOrphans
    <3>2. crashes \in Nat /\ faults \in Nat
      BY StoreAssumption DEF TypeInv, TypeOK
    <3>3. OneMoreAtMost(Orphans', Staying)
      BY <3>1, <3>2 DEF OneMoreAtMost
    <3> QED
      BY <1>1, <1>3, <3>1, <3>3, BoundKept
  <2>2. CASE ~RegisterOutput
    <3>1. OneMoreAtMost(Orphans', Orphans)
      BY <2>2, FlushOrphans, CompactOrphans, OtherOrphans DEF OrphanInv
    <3> QED
      BY <1>1, <1>3, <1>4, <3>1, BoundKept
  <2> QED
    BY <2>1, <2>2
<1>6. ASSUME pc' = "remove" PROVE Cardinality(Staying') <= crashes' + faults'
  <2>1. CASE OneMoreAtMost(Staying', Staying) /\ Cardinality(Staying) <= crashes + faults
    BY <1>1, <1>3, <2>1, BoundKept
  <2>2. CASE Staying' \subseteq Orphans /\ crashes' = crashes /\ faults' = faults
    <3>1. crashes \in Nat /\ faults \in Nat
      BY StoreAssumption DEF TypeInv, TypeOK
    <3>2. OneMoreAtMost(Staying', Orphans)
      BY <2>2, <3>1 DEF OneMoreAtMost
    <3> QED
      BY <1>1, <1>3, <1>4, <3>2, BoundKept
  <2> QED
    BY <1>6, <2>1, <2>2, StayingStep
<1> QED
  BY <1>2, <1>5, <1>6 DEF OrphanInv

LEMMA InitOrphan == Init => OrphanInv
<1> SUFFICES ASSUME Init PROVE OrphanInv
  OBVIOUS
<1>1. pc = "closed" /\ crashes = 0 /\ faults = 0 /\ \A s \in Seqs : files[s] = MissingFile
  BY DEF Init
<1>2. Orphans = {}
  BY <1>1 DEF Orphans, OnDisk
<1> QED
  BY <1>1, <1>2, FS_EmptySet DEF OrphanInv, ManifestBehind, Running

\* In a safe environment the manifest lists a prefix of the tables the process knows,
\* and each file that neither knows was left by a crash or a failing call of its own, at
\* every step of a flush and a merge (kv_store.cpp:254-342, compaction.cpp:51-90).
THEOREM OrphanInvariant ==
  ASSUME SafeEnv
  PROVE  Spec => []OrphanInv
<1>1. TypeInv /\ Inv /\ OrphanInv /\ [Next]_vars => OrphanInv'
  BY OrphanStep
<1> QED
  BY <1>1, InitOrphan, TypeInvariant, SafetyInvariant, PTL DEF Spec

\* In a safe environment no more files than crashes and failing calls are left on disk
\* that nothing will ever read or remove (compaction.cpp:81-87).
THEOREM OrphansCorrect ==
  ASSUME SafeEnv
  PROVE  Spec => []OrphansBounded
<1>1. TypeInv /\ OrphanInv => OrphansBounded
  <2> SUFFICES ASSUME TypeInv, OrphanInv, pc = "idle",
                      NEW A, A = {s \in Seqs : /\ files[s] # MissingFile
                                               /\ s \notin ToSet(manifest) \cup ToSet(sstables)}
               PROVE  Cardinality(A) <= crashes + faults
    BY DEF OrphansBounded
  <2>1. A \subseteq Orphans /\ A \in SUBSET Seqs /\ Orphans \in SUBSET Seqs
    BY DEF Orphans, OnDisk, Pending
  <2>2. Cardinality(Orphans) <= crashes + faults /\ crashes + faults \in Nat
    BY StoreAssumption DEF OrphanInv, TypeInv, TypeOK
  <2> QED
    BY <2>1, <2>2, CountParts
<1> QED
  BY <1>1, OrphanInvariant, TypeInvariant, PTL

-----------------------------------------------------------------------------
(* The size of the MemTable, in a safe environment.                        *)
(* A replay fills the MemTable as the writes did, so that its size is, after *)
(* each record, what it was when the record was written.                    *)

Memory == [table |-> table, size |-> approximate_size]
Unused == [table |-> NoEntries, size |-> 0]

\* One more entry fits under the threshold, or is the first.
Room(m) == m = Unused \/ m.size < size_threshold

\* MemStore, of a MemTable m.
Stored(m, r) ==
  LET old == EntrySize(r.key, m.table[r.key])
      rest == IF m.table[r.key] = Absent THEN m.size
              ELSE IF m.size >= old THEN m.size - old ELSE 0
  IN  [table |-> [m.table EXCEPT ![r.key] = r.entry],
       size  |-> rest + EntrySize(r.key, r.entry)]

\* ms is what the MemTable was, before and after each record of the log w.
Fills(ms, w) ==
  /\ ms \in [0 .. Len(w) -> [table : [Keys -> Slot], size : Nat]]
  /\ ms[0] = Unused
  /\ \A i \in 1 .. Len(w) : Room(ms[i - 1]) /\ ms[i] = Stored(ms[i - 1], w[i])

\* The MemTable is where the records that were applied leave it.
MemoryAt(ms) ==
  /\ pc = "replay" => Memory = ms[cursor - 1]
  /\ pc = "apply" =>
       wal # <<>> /\ wal[Len(wal)] = op /\ Memory = ms[Len(wal) - 1]
  /\ walOk /\ Running /\ pc # "apply" => Memory = ms[Len(wal)]

\* An empty MemTable has no size.
EmptyIsUnused == table = NoEntries => approximate_size = 0

MemoryInv ==
  /\ MemTableBounded
  /\ EmptyIsUnused
  /\ op # NoWrite /\ pc \in {"compact", "merge", "remove", "append"} => Room(Memory)
  /\ \E ms : Fills(ms, wal) /\ MemoryAt(ms)


\* The size of an entry.
LEMMA EntrySizeNat ==
  ASSUME NEW k \in Keys, NEW e \in Entry
  PROVE  EntrySize(k, e) \in Nat
  BY SlotAssumption, SizeAssumption DEF EntrySize, Entry

\* A MemTable that had room has outgrown its threshold by an entry at most.
LEMMA StoredFits ==
  ASSUME NEW m \in [table : [Keys -> Slot], size : Nat], NEW r \in Write, Room(m)
  PROVE  /\ Stored(m, r) \in [table : [Keys -> Slot], size : Nat]
         /\ \/ Stored(m, r).size < size_threshold + EntrySize(r.key, r.entry)
            \/ Stored(m, r).size <= EntrySize(r.key, r.entry)
<1>1. r.key \in Keys /\ r.entry \in Entry /\ EntrySize(r.key, r.entry) \in Nat
  BY EntrySizeNat DEF Write
<1>2. m.table[r.key] # Absent => EntrySize(r.key, m.table[r.key]) \in Nat
  BY <1>1, EntrySizeNat DEF Slot
<1> DEFINE old == EntrySize(r.key, m.table[r.key])
           new == EntrySize(r.key, r.entry)
           rest == IF m.table[r.key] = Absent THEN m.size
                   ELSE IF m.size >= old THEN m.size - old ELSE 0
<1>3. Stored(m, r) = [table |-> [m.table EXCEPT ![r.key] = r.entry], size |-> rest + new]
  BY DEF Stored
<1>4. rest \in Nat /\ rest <= m.size
  BY <1>2
<1>5. m.size = 0 \/ m.size < size_threshold
  BY DEF Room, Unused
<1>6. [m.table EXCEPT ![r.key] = r.entry] \in [Keys -> Slot]
  BY <1>1 DEF Slot
<1>7. new \in Nat /\ m.size \in Nat /\ size_threshold \in Nat
  BY <1>1, SizeAssumption
<1> HIDE DEF old, new, rest
<1>8. rest + new < size_threshold + new \/ rest + new <= new
  BY <1>4, <1>5, <1>7
<1>9. rest + new \in Nat
  BY <1>4, <1>7
<1> QED
  BY <1>3, <1>6, <1>8, <1>9 DEF new

\* What a put, a remove or a replayed record does to the MemTable.
LEMMA MemStoreIs ==
  ASSUME MemTypeOK, NEW r \in Write, MemStore(r.key, r.entry)
  PROVE  Memory' = Stored(Memory, r)
  BY DEF MemStore, ChargeFor, SubSize, Stored, Memory

\* Storing one entry more keeps the bound.
LEMMA StoringKeepsBound ==
  ASSUME MemTypeOK, NEW r \in Write, Room(Memory), Memory' = Stored(Memory, r)
  PROVE  MemTableBounded' /\ EmptyIsUnused'
<1>1. Memory \in [table : [Keys -> Slot], size : Nat]
  BY DEF Memory, MemTypeOK
<1>2. r.key \in Keys /\ r.entry \in Entry
  BY DEF Write
<1>3. Memory'.size = approximate_size'
  BY DEF Memory
<1>4. \/ approximate_size' < size_threshold + EntrySize(r.key, r.entry)
      \/ approximate_size' <= EntrySize(r.key, r.entry)
  BY <1>1, <1>3, StoredFits
<1>5. table'[r.key] # Absent /\ NoEntries[r.key] = Absent
  <2>1. table' = [table EXCEPT ![r.key] = r.entry]
    BY DEF Memory, Stored
  <2>2. table'[r.key] = r.entry
    BY <1>2, <2>1 DEF MemTypeOK
  <2> QED
    BY <1>2, <2>2, SlotAssumption DEF NoEntries, Entry
<1> QED
  BY <1>2, <1>4, <1>5 DEF MemTableBounded, EmptyIsUnused

\* One more record in the log.
LEMMA FillsAppended ==
  ASSUME NEW w \in Seq(Write), NEW ms, Fills(ms, w), NEW r \in Write, Room(ms[Len(w)])
  PROVE  \E new : Fills(new, Append(w, r)) /\ new[Len(w)] = ms[Len(w)]
<1> DEFINE n   == Len(w) + 1
           new == [i \in 0 .. n |-> IF i < n THEN ms[i] ELSE Stored(ms[Len(w)], r)]
<1>1. /\ Len(w) \in Nat /\ Len(Append(w, r)) = n
      /\ \A i \in 1 .. Len(w) : Append(w, r)[i] = w[i]
      /\ Append(w, r)[n] = r
  OBVIOUS
<1>2. /\ ms \in [0 .. Len(w) -> [table : [Keys -> Slot], size : Nat]]
      /\ ms[0] = Unused
      /\ \A i \in 1 .. Len(w) : Room(ms[i - 1]) /\ ms[i] = Stored(ms[i - 1], w[i])
  BY DEF Fills
<1>3. Stored(ms[Len(w)], r) \in [table : [Keys -> Slot], size : Nat]
  BY <1>1, <1>2, StoredFits
<1>4. new \in [0 .. n -> [table : [Keys -> Slot], size : Nat]]
  BY <1>1, <1>2, <1>3
<1>5. new[n] = Stored(ms[Len(w)], r) /\ \A i \in 0 .. Len(w) : new[i] = ms[i]
  BY <1>1
<1> HIDE DEF new
<1>6. \A i \in 1 .. n : Room(new[i - 1]) /\ new[i] = Stored(new[i - 1], Append(w, r)[i])
  <2> TAKE i \in 1 .. n
  <2>1. CASE i = n
    BY <1>1, <1>5, <2>1
  <2>2. CASE i # n
    <3>1. i \in 1 .. Len(w) /\ i - 1 \in 0 .. Len(w) /\ i \in 0 .. Len(w)
      BY <1>1, <2>2
    <3> QED
      BY <1>1, <1>2, <1>5, <3>1
  <2> QED
    BY <2>1, <2>2
<1>7. Fills(new, Append(w, r)) /\ new[Len(w)] = ms[Len(w)]
  BY <1>1, <1>2, <1>4, <1>5, <1>6 DEF Fills
<1> QED
  BY <1>7

\* An empty log.
LEMMA FillsNothing == Fills([i \in 0 .. 0 |-> Unused], <<>>)
<1>1. Unused \in [table : [Keys -> Slot], size : Nat]
  BY DEF Unused, NoEntries, Slot
<1> QED
  BY <1>1 DEF Fills

\* A step that leaves the MemTable, the log and where the call stands to them.
LEMMA MemoryKept ==
  ASSUME MemoryInv, UNCHANGED <<table, approximate_size, wal>>,
         walOk' => walOk, Running' => Running, pc' = "apply" => pc = "apply" /\ op' = op,
         pc' = "replay" => pc = "replay" /\ cursor' = cursor,
         pc = "apply" => pc' \in {"apply", "closed"},
         op' # NoWrite /\ pc' \in {"compact", "merge", "remove", "append"} => Room(Memory)
  PROVE  MemoryInv'
<1>1. Memory' = Memory
  BY DEF Memory
<1>2. MemTableBounded' /\ EmptyIsUnused'
  BY DEF MemoryInv, MemTableBounded, EmptyIsUnused
<1>3. PICK ms : Fills(ms, wal) /\ MemoryAt(ms)
  BY DEF MemoryInv
<1>4. Fills(ms, wal')
  BY <1>3
<1>5. MemoryAt(ms)'
  BY <1>1, <1>3 DEF MemoryAt, Running
<1>6. Room(Memory)' <=> Room(Memory)
  BY <1>1 DEF Room
<1> QED
  BY <1>2, <1>4, <1>5, <1>6 DEF MemoryInv

\* A step that empties the MemTable and closes the log, or begins to replay it.
LEMMA MemoryCleared ==
  ASSUME MemoryInv, MemClear, wal' = wal, ~ (walOk' /\ Running'), pc' # "apply",
         pc' = "replay" => cursor' = 1, pc' \notin {"compact", "merge", "remove", "append"}
  PROVE  MemoryInv'
<1>1. Memory' = Unused /\ MemTableBounded' /\ EmptyIsUnused'
  BY DEF Memory, Unused, MemClear, MemTableBounded, EmptyIsUnused
<1>2. PICK ms : Fills(ms, wal) /\ MemoryAt(ms)
  BY DEF MemoryInv
<1>3. Fills(ms, wal') /\ ms[0] = Unused
  BY <1>2 DEF Fills
<1>4. MemoryAt(ms)'
  BY <1>1, <1>3 DEF MemoryAt
<1> QED
  BY <1>1, <1>3, <1>4 DEF MemoryInv

\* memtable_.clear() and wal_.clear().
LEMMA ResetWalMemory ==
  ASSUME TypeInv, MemoryInv, ResetWal
  PROVE  MemoryInv'
<1>1. Memory' = Unused /\ MemTableBounded' /\ EmptyIsUnused'
  BY DEF ResetWal, Memory, Unused, MemClear, MemTableBounded, EmptyIsUnused
<1>2. wal' = <<>> /\ pc' \in {"compact", "append", "idle"}
  BY DEF ResetWal, ResumeCall, ReturnOK, Goto
<1> DEFINE ms == [i \in 0 .. 0 |-> Unused]
<1>3. Fills(ms, wal') /\ ms[0] = Unused
  BY <1>2, FillsNothing
<1> HIDE DEF ms
<1>4. MemoryAt(ms)'
  BY <1>1, <1>2, <1>3 DEF MemoryAt
<1> QED
  BY <1>1, <1>3, <1>4 DEF MemoryInv, Room

\* The record is in the log, and the MemTable does not have it yet.
LEMMA AppendWalMemory ==
  ASSUME TypeInv, Inv, MemoryInv, AppendWal
  PROVE  MemoryInv'
<1>1. /\ pc = "append" /\ pc' = "apply" /\ walOk /\ wal' = Append(wal, op) /\ op' = op
      /\ table' = table /\ approximate_size' = approximate_size /\ op # NoWrite
  BY DEF AppendWal, Goto, memVars, TypeInv, Locals
<1>2. Memory' = Memory /\ Running /\ op \in Write
  BY <1>1 DEF Memory, Running, TypeInv, TypeOK
<1>3. wal \in Seq(Write)
  BY StoreAssumption DEF Inv, LogWhole, TypeInv, TypeOK
<1>4. PICK ms : Fills(ms, wal) /\ MemoryAt(ms)
  BY DEF MemoryInv
<1>5. Memory = ms[Len(wal)] /\ Room(Memory)
  BY <1>1, <1>2, <1>4 DEF MemoryAt, MemoryInv
<1>6. PICK new : Fills(new, Append(wal, op)) /\ new[Len(wal)] = ms[Len(wal)]
  BY <1>2, <1>3, <1>4, <1>5, FillsAppended
<1>7. /\ wal' # <<>> /\ Len(wal') = Len(wal) + 1 /\ wal'[Len(wal')] = op
      /\ Len(wal) \in Nat
  BY <1>1, <1>3
<1>8. MemoryAt(new)'
  BY <1>1, <1>2, <1>5, <1>6, <1>7 DEF MemoryAt
<1>9. MemTableBounded' /\ EmptyIsUnused'
  BY <1>1 DEF MemoryInv, MemTableBounded, EmptyIsUnused
<1>10. Fills(new, wal')
  BY <1>1, <1>6
<1> QED
  BY <1>1, <1>8, <1>9, <1>10 DEF MemoryInv

LEMMA ApplyWriteMemory ==
  ASSUME TypeInv, MemoryInv, ApplyWrite
  PROVE  MemoryInv'
<1>1. /\ pc = "apply" /\ pc' = "idle" /\ op' = NoWrite /\ wal' = wal
      /\ MemStore(op.key, op.entry) /\ op # NoWrite
  BY DEF ApplyWrite, ReturnOK, disk, TypeInv, Locals
<1>2. op \in Write /\ MemTypeOK /\ wal \in Seq(Write \cup {Torn})
  BY <1>1 DEF TypeInv, TypeOK
<1>3. PICK ms : Fills(ms, wal) /\ MemoryAt(ms)
  BY DEF MemoryInv
<1>4. wal # <<>> /\ wal[Len(wal)] = op /\ Memory = ms[Len(wal) - 1]
  BY <1>1, <1>3 DEF MemoryAt
<1>5. Len(wal) \in 1 .. Len(wal)
  BY <1>2, <1>4
<1>6. Room(Memory) /\ ms[Len(wal)] = Stored(Memory, op)
  BY <1>3, <1>4, <1>5 DEF Fills
<1>7. Memory' = ms[Len(wal)] /\ MemTableBounded' /\ EmptyIsUnused'
  BY <1>1, <1>2, <1>6, MemStoreIs, StoringKeepsBound
<1>8. MemoryAt(ms)'
  BY <1>1, <1>7 DEF MemoryAt
<1> QED
  BY <1>1, <1>3, <1>7, <1>8 DEF MemoryInv

LEMMA ReplayRecordMemory ==
  ASSUME TypeInv, MemoryInv, ReplayRecord
  PROVE  MemoryInv'
<1>1. /\ pc = "replay" /\ pc' = pc /\ wal' = wal /\ cursor' = cursor + 1
      /\ cursor <= Len(wal) /\ wal[cursor] # Torn
      /\ MemStore(wal[cursor].key, wal[cursor].entry)
  BY DEF ReplayRecord, AtRecord, Reapply, Advance, call, disk
<1>2. /\ cursor \in 1 .. Len(wal) /\ cursor + 1 - 1 = cursor
      /\ wal[cursor] \in Write /\ MemTypeOK
  BY <1>1 DEF TypeInv, TypeOK
<1>3. PICK ms : Fills(ms, wal) /\ MemoryAt(ms)
  BY DEF MemoryInv
<1>4. Memory = ms[cursor - 1]
  BY <1>1, <1>3 DEF MemoryAt
<1>5. Room(Memory) /\ ms[cursor] = Stored(Memory, wal[cursor])
  BY <1>2, <1>3, <1>4 DEF Fills
<1>6. Memory' = ms[cursor] /\ MemTableBounded' /\ EmptyIsUnused'
  BY <1>1, <1>2, <1>5, MemStoreIs, StoringKeepsBound
<1>7. MemoryAt(ms)'
  BY <1>1, <1>2, <1>6 DEF MemoryAt, Running
<1> QED
  BY <1>1, <1>3, <1>6, <1>7 DEF MemoryInv

\* The end of the log: the MemTable is what it was when the log ended.
LEMMA FinishOpenMemory ==
  ASSUME TypeInv, Inv, MemoryInv, FinishOpen
  PROVE  MemoryInv'
<1>1. /\ pc = "replay" /\ pc' = "idle" /\ wal' = wal /\ ~AtRecord /\ op' = NoWrite
      /\ table' = table /\ approximate_size' = approximate_size
  BY DEF FinishOpen, OpenLog, ReturnOK, disk, memVars
<1>2. cursor \in Nat \ {0} /\ Len(wal) \in Nat /\ cursor <= Len(wal) + 1
  BY <1>1 DEF TypeInv, TypeOK, Inv, Loops
<1>3. cursor - 1 = Len(wal)
  BY <1>1, <1>2 DEF AtRecord, Inv, LogWhole, TypeInv, TypeOK
<1>4. PICK ms : Fills(ms, wal) /\ MemoryAt(ms)
  BY DEF MemoryInv
<1>5. Memory' = Memory /\ Memory = ms[Len(wal)]
  BY <1>1, <1>3, <1>4 DEF MemoryAt, Memory
<1>6. MemoryAt(ms)'
  BY <1>1, <1>5 DEF MemoryAt
<1>7. MemTableBounded' /\ EmptyIsUnused'
  BY <1>1 DEF MemoryInv, MemTableBounded, EmptyIsUnused
<1> QED
  BY <1>1, <1>4, <1>6, <1>7 DEF MemoryInv

\* Every step in a safe environment keeps MemoryInv.
LEMMA MemoryStep ==
  ASSUME SafeEnv, TypeInv, Inv, MemoryInv, [Next]_vars
  PROVE  MemoryInv'
<1> USE DEF Running, Goto, memVars
<1>1. op # NoWrite /\ pc \in {"compact", "merge", "remove", "append"} => Room(Memory)
  BY DEF MemoryInv
<1>3. CloseWal => wal' = wal /\ walOk' = FALSE
  BY CloseWalSafe DEF Inv, CloseWal
<1>4. CASE FlushStep
  <2>1. CASE ResetWalFails
    BY <1>3, <2>1, MemoryCleared DEF ResetWalFails, ReturnError
  <2>2. CASE ~ResetWal /\ ~ResetWalFails
    BY <1>4, <2>2, NoUnsafeFault, MemoryKept
       DEF FlushStep, CreateTable, CreateTableFails, FillTable, FillTableFails, StepAfterFill,
           InstallManifest, InstallManifestFails, OnManifestError, ReturnError, log, work, disk
  <2> QED
    BY <2>1, <2>2, ResetWalMemory
<1>5. CASE CompactStep
  <2>1. /\ UNCHANGED <<table, approximate_size, wal, walOk>> /\ Running /\ pc # "apply"
        /\ pc' \notin {"apply", "replay"}
        /\ op' # NoWrite => op' = op /\ pc \in {"compact", "merge", "remove"}
    BY <1>5, NoUnsafeFault
       DEF CompactStep, BeginCompaction, MergeTable, PlaceOutput, CompactionFails, RemoveInput,
           RemoveInputFails, RegisterOutput, ResumeCall, ReturnOK, ReturnError, call, log, disk
  <2> QED
    BY <1>1, <2>1, MemoryKept
<1>6. CASE WriteStep
  <2>1. CASE AppendRefused \/ AppendFails
    <3>1. /\ UNCHANGED <<table, approximate_size, wal>>
          /\ walOk' = FALSE \/ walOk' = walOk
          /\ pc = "append" /\ pc' = "idle" /\ op' = NoWrite
      BY <2>1 DEF AppendRefused, AppendFails, CutShort, ReturnError, SafeEnv, log, disk
    <3> QED
      BY <3>1, MemoryKept
  <2> QED
    BY <1>6, <2>1, NoUnsafeFault, AppendWalMemory, ApplyWriteMemory DEF WriteStep
<1>7. CASE OpenStep
  <2>1. CASE StartReplay
    BY <2>1, MemoryCleared DEF StartReplay, disk
  <2>2. CASE LoadTable \/ LoadTableFails \/ ReplayFails
    <3>1. /\ UNCHANGED <<table, approximate_size, wal, walOk>>
          /\ pc # "apply" /\ pc' \in {"loading", "closed"}
      BY <2>2 DEF LoadTable, LoadTableFails, ReplayFails, OpenGivesUp, call, log, disk
    <3> QED
      BY <3>1, MemoryKept
  <2> QED
    BY <1>7, <2>1, <2>2, NoUnsafeFault, ReplayRecordMemory, FinishOpenMemory DEF OpenStep
<1>8. ASSUME NEW k \in Keys, NEW e \in Entry, CallWrite(k, e) PROVE MemoryInv'
  <2>1. /\ UNCHANGED <<table, approximate_size, wal, walOk>> /\ pc = "idle"
        /\ pc' = IF FlushFirst THEN "createTable" ELSE "append"
    BY <1>8 DEF CallWrite, log, disk
  <2>2. ~FlushFirst => Room(Memory)
    BY SizeAssumption DEF FlushFirst, IsFull, IsEmpty, Room, Memory, Unused, TypeInv, TypeOK,
                          MemTypeOK, MemoryInv, EmptyIsUnused
  <2> QED
    BY <2>1, <2>2, MemoryKept
<1>9. CASE (\E k \in Keys, v \in Values : put(k, v)) \/ (\E k \in Keys : remove(k))
  BY <1>8, <1>9 DEF put, remove, Entry
<1>10. CASE flush \/ compact
  <2>1. /\ UNCHANGED <<table, approximate_size, wal, walOk, op>> /\ pc = "idle"
        /\ pc' \in {"createTable", "compact"} /\ op = NoWrite
    BY <1>10 DEF flush, compact, log, disk, TypeInv, Locals
  <2> QED
    BY <2>1, MemoryKept
<1>11. CASE open
  <2>1. CASE pc = "idle"
    BY <1>3, <1>11, <2>1, MemoryCleared DEF open
  <2>2. CASE pc # "idle"
    BY <1>3, <1>11, <2>2, MemoryKept DEF open
  <2> QED
    BY <2>1, <2>2
<1>12. CASE close
  BY <1>3, <1>12, MemoryCleared DEF close
<1>13. CASE Crash
  BY <1>13, MemoryCleared DEF Crash, CutShort, SafeEnv
<1>14. CASE UNCHANGED vars
  <2>1. UNCHANGED <<table, approximate_size, wal, walOk, op, pc, cursor>>
    BY <1>14 DEF vars, call, log, work, disk
  <2> QED
    BY <1>1, <2>1, MemoryKept
<1> QED
  BY <1>4, <1>5, <1>6, <1>7, <1>9, <1>10, <1>11, <1>12, <1>13, <1>14 DEF Next, Step

LEMMA InitMemory == Init => MemoryInv
<1> SUFFICES ASSUME Init PROVE MemoryInv
  OBVIOUS
<1>1. /\ table = NoEntries /\ approximate_size = 0 /\ pc = "closed" /\ op = NoWrite /\ wal = <<>>
  BY DEF Init, MemInit
<1> DEFINE ms == [i \in 0 .. 0 |-> Unused]
<1>2. Fills(ms, wal)
  BY <1>1, FillsNothing
<1> HIDE DEF ms
<1>3. MemoryAt(ms)
  BY <1>1 DEF MemoryAt, Running
<1> QED
  BY <1>1, <1>2, <1>3 DEF MemoryInv, MemTableBounded, EmptyIsUnused

\* In a safe environment the MemTable never outgrows its threshold by more than the entry
\* that filled it: a replay passes through the sizes the writes went through, and no
\* write goes on when the flush before it has failed (kv_store.cpp:100-142).
THEOREM MemTableSizeCorrect ==
  ASSUME SafeEnv
  PROVE  Spec => []MemTableBounded
<1>1. TypeInv /\ Inv /\ MemoryInv /\ [Next]_vars => MemoryInv'
  BY MemoryStep
<1>2. MemoryInv => MemTableBounded
  BY DEF MemoryInv
<1> QED
  BY <1>1, <1>2, InitMemory, TypeInvariant, SafetyInvariant, PTL DEF Spec

\* What a step of the store does to the MemTable: nothing, clear it, or store one entry.
LEMMA MemTableMoves ==
  ASSUME TypeInv, [Next]_vars
  PROVE  UNCHANGED memVars \/ MemClear \/ \E k \in Keys, e \in Entry : MemStore(k, e)
<1>1. CASE FlushStep
  BY <1>1 DEF FlushStep, CreateTable, CreateTableFails, FillTable, FillTableFails,
              InstallManifest, InstallManifestFails, InstallManifestShort, ResetWal, ResetWalFails
<1>2. CASE CompactStep
  BY <1>2 DEF CompactStep, BeginCompaction, MergeTable, PlaceOutput, CompactionFails,
              RemoveInput, RemoveInputFails, RegisterOutput, RegisterOutputShort,
              RegisterOutputFails
<1>3. CASE WriteStep
  <2>1. CASE ApplyWrite
    <3>1. op.key \in Keys /\ op.entry \in Entry
      BY <2>1 DEF ApplyWrite, TypeInv, Locals, TypeOK, Write
    <3> QED
      BY <2>1, <3>1 DEF ApplyWrite
  <2> QED
    BY <1>3, <2>1 DEF WriteStep, AppendWal, AppendRefused, AppendFails, AppendLost
<1>4. CASE OpenStep
  <2>1. CASE ReplayRecord
    <3>1. wal[cursor] \in Write
      BY <2>1 DEF ReplayRecord, AtRecord, TypeInv, TypeOK
    <3>2. wal[cursor].key \in Keys /\ wal[cursor].entry \in Entry
      BY <3>1 DEF Write
    <3> QED
      BY <2>1, <3>2 DEF ReplayRecord, Reapply
  <2> QED
    BY <1>4, <2>1 DEF OpenStep, LoadTable, LoadTableFails, OpenGivesUp, ManifestUnread,
                      StartReplay, FinishOpen, OpenLog, LogUnread, ReplayFails
<1>5. CASE UNCHANGED vars
  BY <1>5 DEF vars
<1> QED
  BY <1>1, <1>2, <1>3, <1>4, <1>5
     DEF Next, Step, put, remove, CallWrite, flush, compact, open, close, Crash

\* And in the store, in every environment: through flushes, restarts and replays of a
\* damaged log the estimate stays the sum (kv_store.cpp:92, memtable.cpp:8-59).
THEOREM StoreSizeExact == Spec => []SizeIsSumOfEntries
<1>1. TypeInv /\ SizeInv /\ [Next]_vars => SizeInv'
  BY MemTableMoves, SizeStep DEF TypeInv, TypeOK
<1>2. Init => SizeInv
  BY InitSize DEF Init
<1>3. SizeInv => SizeIsSumOfEntries
  BY DEF SizeInv
<1> QED
  BY <1>1, <1>2, <1>3, TypeInvariant, PTL DEF Spec

-----------------------------------------------------------------------------
(* The files of the open tables are whole, and no step touches one.        *)

WholeSeqs == {s \in Seqs : files[s].state = "complete"}

LEMMA WholeType ==
  ASSUME NEW ts \in Seq(Seqs)
  PROVE  Whole(ts) <=> ts \in Seq(WholeSeqs)
<1>1. /\ Len(ts) \in Nat /\ DOMAIN ts = 1 .. Len(ts)
      /\ ts = [i \in 1 .. Len(ts) |-> ts[i]]
      /\ \A i \in 1 .. Len(ts) : ts[i] \in Seqs
  OBVIOUS
<1> QED
  BY <1>1, SMT DEF Whole, WholeSeqs

\* Files change in one place only, and no open table, or input yet to be read, is there.
LEMMA FileChanges ==
  ASSUME TypeInv, OrderInv, OpenInv, [Next]_vars
  PROVE  \/ files' = files
         \/ pc = "remove" /\ sstables = <<>> /\ RemoveInput
         \/ /\ pc \in {"createTable", "fillTable", "merge"}
            /\ \E n \in Nat :
                 /\ \A s \in Seqs : s # n => files'[s] = files[s]
                 /\ Below(sstables, n)
                 /\ pc = "createTable" => out' = n
                 /\ pc # "createTable" => n = out
<1>1. files \in [Seqs -> [state : {"missing", "partial", "complete"}, data : [Keys -> Slot]]]
  BY DEF TypeInv, TypeOK
<1>2. out \in Nat /\ nextSeq \in Nat
  BY NumbersNat
<1>3. CASE CreateTable
  <2>1. pc = "createTable" /\ out' = nextSeq /\ \A s \in Seqs : s # nextSeq => files'[s] = files[s]
    BY <1>1, <1>3 DEF CreateTable
  <2>2. out = 0 /\ Below(sstables, nextSeq)
    BY <2>1 DEF TypeInv, Locals, OrderInv, InOrder
  <2> QED
    BY <1>2, <2>1, <2>2
<1>4. CASE FillTable \/ FillTableFails \/ PlaceOutput
  <2>1. pc \in {"fillTable", "merge"} /\ \A s \in Seqs : s # out => files'[s] = files[s]
    BY <1>1, <1>4 DEF FillTable, FillTableFails, PlaceOutput
  <2>2. Below(sstables, out)
    BY <2>1 DEF TypeInv, Locals, OrderInv, InOrder
  <2> QED
    BY <1>2, <2>1, <2>2
<1>5. CASE RemoveInput
  BY <1>5 DEF RemoveInput, OpenInv
<1>6. CASE FlushStep /\ ~CreateTable /\ ~FillTable /\ ~FillTableFails
  BY <1>6 DEF FlushStep, CreateTableFails, InstallManifest, InstallManifestFails,
              InstallManifestShort, ResetWal, ResetWalFails, disk
<1>7. CASE CompactStep /\ ~PlaceOutput /\ ~RemoveInput
  BY <1>7 DEF CompactStep, BeginCompaction, MergeTable, CompactionFails, RemoveInputFails,
              RegisterOutput, RegisterOutputShort, RegisterOutputFails, disk
<1>8. CASE WriteStep
  BY <1>8 DEF WriteStep, AppendWal, AppendRefused, AppendFails, AppendLost, ApplyWrite, disk
<1>9. CASE OpenStep
  BY <1>9 DEF OpenStep, LoadTable, LoadTableFails, OpenGivesUp, ManifestUnread, StartReplay,
              ReplayRecord, FinishOpen, OpenLog, LogUnread, ReplayFails, disk
<1>10. CASE UNCHANGED vars
  BY <1>10 DEF vars, disk
<1> QED
  BY <1>3, <1>4, <1>5, <1>6, <1>7, <1>8, <1>9, <1>10
     DEF Next, Step, put, remove, CallWrite, flush, compact, open, close, Crash, disk

\* So the tables open before a step are as they were after it.
LEMMA OpenFilesKept ==
  ASSUME TypeInv, OrderInv, OpenInv, [Next]_vars
  PROVE  \A i \in DOMAIN sstables : files'[sstables[i]] = files[sstables[i]]
<1> TAKE i \in DOMAIN sstables
<1>1. sstables[i] \in Seqs /\ sstables[i] \in Nat
  BY NumbersNat DEF TypeInv, TypeOK
<1>2. CASE files' = files
  BY <1>2
<1>3. CASE sstables = <<>>
  BY <1>3
<1>4. ASSUME NEW n \in Nat, \A s \in Seqs : s # n => files'[s] = files[s], Below(sstables, n)
      PROVE  files'[sstables[i]] = files[sstables[i]]
  BY <1>1, <1>4 DEF Below
<1> QED
  BY <1>2, <1>3, <1>4, FileChanges

LEMMA InitOpen == Init => OpenInv
  BY DEF Init, OpenInv, Whole

LEMMA OpenStepKeeps == TypeInv /\ OrderInv /\ OpenInv /\ [Next]_vars => OpenInv'
<1> SUFFICES ASSUME TypeInv, OrderInv, OpenInv, [Next]_vars PROVE OpenInv'
  OBVIOUS
<1>1. /\ sstables \in Seq(Seqs) /\ inputs \in Seq(Seqs) /\ out \in Nat
      /\ files \in [Seqs -> [state : {"missing", "partial", "complete"}, data : [Keys -> Slot]]]
  BY NumbersNat DEF TypeInv, TypeOK
<1>2. /\ Whole(sstables)
      /\ pc \in {"merge", "remove"} => sstables = <<>>
      /\ pc = "merge" => Whole(inputs)
      /\ pc = "remove" => files[out].state = "complete"
  BY DEF OpenInv
<1>3. Whole(<<>>)'
  BY DEF Whole
<1>4. (sstables' = sstables) => Whole(sstables)'
  BY <1>2, OpenFilesKept DEF Whole
<1>5. ASSUME sstables' = sstables, pc' \notin {"merge", "remove"}
      PROVE  OpenInv'
  BY <1>4, <1>5 DEF OpenInv
<1>6. ASSUME sstables' = <<>>, pc' \notin {"merge", "remove"}
      PROVE  OpenInv'
  BY <1>3, <1>6 DEF OpenInv
<1>7. CASE FlushStep
  <2>1. CASE FillTable
    <3>1. /\ sstables' = Append(sstables, out) /\ pc' = "manifest" /\ out \in Seqs
          /\ files' = [files EXCEPT ![out] = TableFile(table)]
      BY <2>1 DEF FillTable, Goto, StepAfterFill, TypeInv, TypeOK, Locals, Seqs
    <3>2. files'[out].state = "complete"
      BY <1>1, <3>1 DEF TableFile
    <3>3. /\ DOMAIN sstables = 1 .. Len(sstables)
          /\ DOMAIN sstables' = 1 .. (Len(sstables) + 1)
          /\ sstables'[Len(sstables) + 1] = out
          /\ \A i \in 1 .. Len(sstables) : sstables'[i] = sstables[i]
      BY <1>1, <3>1
    <3>4. \A i \in 1 .. Len(sstables) : files'[sstables[i]].state = "complete"
      BY <1>2, <3>3, OpenFilesKept DEF Whole
    <3>5. \A i \in 1 .. (Len(sstables) + 1) : i \in 1 .. Len(sstables) \/ i = Len(sstables) + 1
      BY <1>1
    <3>6. Whole(sstables)'
      BY <3>2, <3>3, <3>4, <3>5 DEF Whole
    <3> QED
      BY <3>1, <3>6 DEF OpenInv
  <2>2. CASE ~FillTable
    <3>1. sstables' = sstables /\ pc' \notin {"merge", "remove"}
      BY <1>7, <2>2 DEF FlushStep, CreateTable, CreateTableFails, FillTableFails, InstallManifest,
           InstallManifestFails, InstallManifestShort, ResetWal, ResetWalFails, Goto, ReturnError,
           OnManifestError, ResumeCall, ReturnOK
    <3> QED
      BY <1>5, <3>1
  <2> QED
    BY <2>1, <2>2
<1>8. CASE CompactStep
  <2>1. CASE BeginCompaction
    <3>1. sstables' = <<>> /\ inputs' = sstables /\ pc' = "merge" /\ files' = files
      BY <2>1 DEF BeginCompaction, Goto, disk
    <3> QED
      BY <1>2, <1>3, <3>1 DEF OpenInv, Whole
  <2>2. CASE MergeTable \/ RemoveInputFails
    <3>1. UNCHANGED <<pc, sstables, inputs, out, files>>
      BY <2>2 DEF MergeTable, RemoveInputFails, call, disk
    <3> QED
      BY <1>2, <3>1 DEF OpenInv, Whole
  <2>3. CASE PlaceOutput
    <3>1. /\ pc = "merge" /\ pc' = "remove" /\ sstables' = sstables /\ out' = out /\ out \in Seqs
          /\ files' = [files EXCEPT ![out] = TableFile(Survivors(merged))]
      BY <2>3 DEF PlaceOutput, Goto, TypeInv, TypeOK, Locals, Seqs
    <3>2. files'[out'].state = "complete"
      BY <1>1, <3>1 DEF TableFile
    <3> QED
      BY <1>2, <1>4, <3>1, <3>2 DEF OpenInv
  <2>4. CASE CompactionFails
    <3>1. sstables' \in Reopened /\ pc = "merge" /\ pc' = "idle" /\ files' = files
      BY <2>4 DEF CompactionFails, ReturnError, disk
    <3>2. inputs \in Seq(WholeSeqs)
      BY <1>1, <1>2, <3>1, WholeType
    <3>3. sstables' \in Seq(WholeSeqs)
      BY <1>1, <3>1, <3>2, RemoveAtType DEF Reopened
    <3>4. Whole(sstables)'
      BY <3>1, <3>3 DEF Whole, WholeSeqs
    <3> QED
      BY <3>1, <3>4 DEF OpenInv
  <2>5. CASE RemoveInput
    <3>1. /\ pc = "remove" /\ cursor \in DOMAIN inputs
          /\ files' = [files EXCEPT ![inputs[cursor]] = MissingFile]
          /\ UNCHANGED <<pc, sstables, inputs, out>>
      BY <1>1, <2>5 DEF RemoveInput, Removed, call, TypeInv, TypeOK
    <3>2. Below(inputs, out)
      BY <3>1 DEF TypeInv, Locals, OrderInv, InOrder
    <3>3. inputs[cursor] # out
      BY <1>1, <3>1, <3>2 DEF Below
    <3>4. files'[out'].state = "complete"
      BY <1>1, <1>2, <3>1, <3>3
    <3> QED
      BY <1>2, <1>4, <3>1, <3>4 DEF OpenInv
  <2>6. CASE RegisterOutput \/ RegisterOutputShort \/ RegisterOutputFails
    <3>1. /\ pc = "remove" /\ sstables' \in {<<out>>, <<>>} /\ files' = files
          /\ pc' \in {"idle", "append"}
      BY <2>6 DEF RegisterOutput, RegisterOutputShort, RegisterOutputFails, ReturnError,
                  ResumeCall, ReturnOK, Goto, disk
    <3>2. Whole(sstables)'
      BY <1>2, <3>1 DEF Whole
    <3> QED
      BY <3>1, <3>2 DEF OpenInv
  <2> QED
    BY <1>8, <2>1, <2>2, <2>3, <2>4, <2>5, <2>6 DEF CompactStep
<1>9. CASE WriteStep
  <2>1. sstables' = sstables /\ pc' \notin {"merge", "remove"}
    BY <1>9 DEF WriteStep, AppendWal, AppendRefused, AppendFails, AppendLost, ApplyWrite,
                Goto, ReturnError, ReturnOK
  <2> QED
    BY <1>5, <2>1
<1>10. CASE OpenStep
  <2>1. CASE LoadTable /\ sstables' # sstables
    <3>1. /\ sstables' = Append(sstables, manifest[cursor]) /\ pc = "loading" /\ pc' = pc
          /\ files[manifest[cursor]].state = "complete" /\ files' = files
      BY <2>1 DEF LoadTable, call, disk
    <3>2. /\ DOMAIN sstables = 1 .. Len(sstables)
          /\ DOMAIN sstables' = 1 .. (Len(sstables) + 1)
          /\ sstables'[Len(sstables) + 1] = manifest[cursor]
          /\ \A i \in 1 .. Len(sstables) : sstables'[i] = sstables[i]
          /\ \A i \in 1 .. (Len(sstables) + 1) :
               i \in 1 .. Len(sstables) \/ i = Len(sstables) + 1
      BY <1>1, <3>1
    <3>3. Whole(sstables)'
      BY <1>2, <3>1, <3>2 DEF Whole
    <3> QED
      BY <3>1, <3>3 DEF OpenInv
  <2>2. CASE ~ (LoadTable /\ sstables' # sstables)
    <3>1. sstables' = sstables /\ pc' \notin {"merge", "remove"}
      BY <1>10, <2>2 DEF OpenStep, LoadTable, LoadTableFails, OpenGivesUp, ManifestUnread,
           StartReplay, ReplayRecord, FinishOpen, OpenLog, LogUnread, ReplayFails, call, Goto,
           ReturnOK
    <3> QED
      BY <1>5, <3>1
  <2> QED
    BY <2>1, <2>2
<1>11. CASE \/ \E k \in Keys, v \in Values : put(k, v)
            \/ \E k \in Keys : remove(k)
            \/ flush
            \/ compact
  <2>1. sstables' = sstables /\ pc' \notin {"merge", "remove"}
    BY <1>11 DEF put, remove, CallWrite, flush, compact, Goto
  <2> QED
    BY <1>5, <2>1
<1>12. CASE open \/ close \/ Crash
  <2>1. sstables' = <<>> /\ pc' \notin {"merge", "remove"}
    BY <1>12 DEF open, close, Crash, Goto
  <2> QED
    BY <1>6, <2>1
<1>13. CASE UNCHANGED vars
  <2>1. UNCHANGED <<pc, sstables, inputs, out, files>>
    BY <1>13 DEF vars, call, work, disk
  <2> QED
    BY <1>2, <2>1 DEF OpenInv, Whole
<1> QED
  BY <1>7, <1>8, <1>9, <1>10, <1>11, <1>12, <1>13 DEF Next, Step

\* In every environment the files of the open tables are whole, and those of the inputs a
\* failed merge opens again (kv_store.cpp:267, 320-336).
THEOREM OpenInvariant == Spec => []OpenInv
<1>1. TypeInv /\ OrderInv /\ OpenInv /\ [Next]_vars => OpenInv'
  BY OpenStepKeeps
<1>2. Init => OpenInv
  BY InitOpen
<1> QED
  BY <1>1, <1>2, TypeInvariant, OrderInvariant, PTL DEF Spec

\* In every environment no step touches the file of an open table, and each is whole
\* (kv_store.cpp:84, 258, 311, 325).
THEOREM OpenTablesCorrect == Spec => OpenTablesKept
<1>1. TypeInv /\ OrderInv /\ OpenInv /\ [Next]_vars
      => [\A i \in DOMAIN sstables :
            /\ files[sstables[i]].state = "complete"
            /\ files'[sstables[i]] = files[sstables[i]]]_vars
  BY OpenFilesKept DEF OpenInv, Whole
<1> QED
  BY <1>1, TypeInvariant, OrderInvariant, OpenInvariant, PTL DEF Spec, OpenTablesKept

-----------------------------------------------------------------------------
(* What a failed truncation of the log leaves.                             *)

\* A flush that has begun has something to write out.
FlushInv == pc \in {"createTable", "fillTable", "manifest", "reset"} => ~IsEmpty

LEMMA FlushInvKept == FlushInv /\ [Next]_vars => FlushInv'
<1> SUFFICES ASSUME FlushInv, [Next]_vars PROVE FlushInv'
  OBVIOUS
<1> USE DEF FlushInv, IsEmpty
<1>1. CASE FlushStep
  BY <1>1 DEF FlushStep, CreateTable, CreateTableFails, FillTable, FillTableFails, StepAfterFill,
       InstallManifest, InstallManifestFails, InstallManifestShort, ResetWal, ResetWalFails, Goto,
       ReturnError, OnManifestError, ResumeCall, ReturnOK, memVars
<1>2. CASE CompactStep \/ WriteStep \/ OpenStep
  <2>1. pc' \notin {"createTable", "fillTable", "manifest", "reset"}
    BY <1>2 DEF CompactStep, BeginCompaction, MergeTable, PlaceOutput, CompactionFails,
         RemoveInput, RemoveInputFails, RegisterOutput, RegisterOutputShort, RegisterOutputFails,
         WriteStep, AppendWal, AppendRefused, AppendFails, AppendLost, ApplyWrite,
         OpenStep, LoadTable, LoadTableFails, OpenGivesUp, ManifestUnread, StartReplay,
         ReplayRecord, FinishOpen, OpenLog, LogUnread, ReplayFails,
         Goto, ReturnError, ReturnOK, ResumeCall, call
  <2> QED
    BY <2>1
<1>3. CASE \/ \E k \in Keys, v \in Values : put(k, v)
           \/ \E k \in Keys : remove(k)
           \/ flush \/ compact \/ open \/ close \/ Crash
  BY <1>3 DEF put, remove, CallWrite, FlushFirst, IsEmpty, flush, compact, open, close, Crash, Goto,
              memVars
<1>4. CASE UNCHANGED vars
  BY <1>4 DEF vars, call, memVars
<1> QED
  BY <1>1, <1>2, <1>3, <1>4 DEF Next, Step

\* In every environment: a log that is closed under an empty MemTable takes no write, and
\* nothing but open changes that (kv_store.cpp:255, 284-287).
THEOREM RefusalCorrect == Spec => RefusesUntilReopened
<1>1. FlushInv /\ [Next]_vars
      => [~walOk /\ IsEmpty /\ pc # "apply" =>
            /\ committed' = committed
            /\ walOk' \/ ~IsEmpty' => pc = "replay"]_vars
  <2> SUFFICES ASSUME FlushInv, Next, ~walOk, IsEmpty, pc # "apply"
               PROVE  committed' = committed /\ (walOk' \/ ~IsEmpty' => pc = "replay")
    OBVIOUS
  <2>1. CASE FlushStep
    BY <2>1 DEF FlushStep, CreateTable, CreateTableFails, FillTable, FillTableFails,
         InstallManifest, InstallManifestFails, InstallManifestShort, ResetWal, ResetWalFails,
         FlushInv
  <2>2. CASE CompactStep
    BY <2>2 DEF CompactStep, BeginCompaction, MergeTable, PlaceOutput, CompactionFails,
         RemoveInput, RemoveInputFails, RegisterOutput, RegisterOutputShort, RegisterOutputFails,
         log, memVars, IsEmpty
  <2>3. CASE WriteStep
    BY <2>3 DEF WriteStep, AppendWal, AppendRefused, AppendFails, AppendLost, ApplyWrite, log,
         memVars, IsEmpty
  <2>4. CASE OpenStep
    BY <2>4 DEF OpenStep, LoadTable, LoadTableFails, OpenGivesUp, ManifestUnread, StartReplay,
         ReplayRecord, FinishOpen, OpenLog, LogUnread, ReplayFails, MemClear, log, memVars, IsEmpty
  <2> QED
    BY <2>1, <2>2, <2>3, <2>4
       DEF Next, Step, put, remove, CallWrite, flush, compact, open, close, Crash, CloseWal,
           MemClear, log, memVars, IsEmpty
<1>2. Init => FlushInv
  BY DEF Init, FlushInv
<1> QED
  BY <1>1, <1>2, FlushInvKept, PTL DEF Spec, RefusesUntilReopened
=============================================================================
