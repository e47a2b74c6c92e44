---------------------------- MODULE DamagedStore ----------------------------
(***************************************************************************)
(* The store over tables that go bad after they were opened.  Opening a    *)
(* table checks everything but its records (sstable.cpp:389-482); a record *)
(* that has changed shows when a lookup scans over it and when a           *)
(* compaction reads the table.  Module SSTable says which lookups meet it; *)
(* here they are any nonempty set of keys.                                 *)
(***************************************************************************)
EXTENDS KVStoreInvariant

CONSTANT MaxDamaged  \* bound: tables that go bad

ASSUME DamageAssumption == MaxDamaged \in Nat

VARIABLES
  unreadable,  \* on disk: the lookups that meet a changed record: <<table, key>>
  damages      \* history: how many tables went bad

storeVars == <<unreadable, damages, vars>>

\* Some records of a table change.
Damage ==
  /\ damages < MaxDamaged
  /\ \E s \in Seqs, ks \in SUBSET Keys \ {{}} :
       /\ files[s].state = "complete"
       /\ unreadable' = unreadable \cup ({s} \X ks)
  /\ damages' = damages + 1
  /\ UNCHANGED vars

\* The tables of ts, by position, whose lookup of key k ends the search.
Answering(ts, k) == {i \in Holders(files, ts, k) : <<ts[i], k>> \notin unreadable}

\* A table's Result is asked whether it is OK or a tombstone: an error is neither, and
\* the search goes on to the older tables.
VisiblePastErrors(e, ts, k) ==
  Reply(IF e # Absent THEN e
        ELSE IF Answering(ts, k) = {} THEN Absent
        ELSE files[ts[NewestFirst(Answering(ts, k))]].data[k])

\* KVStoreImpl::get: the MemTable, then the tables that can be read.
getPastErrors(k) == VisiblePastErrors(table[k], sstables, k)

Damaged(s) == \E k \in Keys : <<s, k>> \in unreadable

InputDamaged == pc = "merge" /\ cursor <= Len(inputs) /\ Damaged(inputs[cursor])

\* Mutant: a table that cannot be read is left out of the merge.
OnUnreadablePassedOver ==
  /\ cursor' = Advance
  /\ UNCHANGED <<call, sstables, inputs, merged, out>>

\* The compaction fails, and its inputs are opened again.
OnUnreadable ==
  /\ sstables' \in Reopened
  /\ EndWork
  /\ ReturnError

\* Compaction::compact stops at a table it cannot read.
MergeUnreadable ==
  /\ InputDamaged
  /\ OnUnreadable
  /\ UNCHANGED <<memVars, nextSeq, log, disk, committed, writes, env>>

\* The renaming of a merge's output replaces what a crash left under its name.
Replaced(s) == files'[s] # files[s] \/ (pc = "merge" /\ pc' = "remove" /\ s = out)

\* A file that is written anew has no changed records.
Kept == {l \in unreadable : ~Replaced(l[1])}

StoreInit == Init /\ unreadable = {} /\ damages = 0

\* A step of the store, which cannot merge a table it cannot read.
StoreStep ==
  /\ \/ MergeUnreadable
     \/ ~InputDamaged /\ Step
  /\ unreadable' = Kept
  /\ UNCHANGED damages

StoreCall ==
  /\ \/ \E k \in Keys, v \in Values : put(k, v)
     \/ \E k \in Keys : remove(k)
     \/ flush
     \/ compact
     \/ open
     \/ close
     \/ Crash
  /\ UNCHANGED <<unreadable, damages>>

StoreNext == StoreCall \/ StoreStep \/ Damage

StoreSpec == StoreInit /\ [][StoreNext]_storeVars

-----------------------------------------------------------------------------
(* Properties.                                                             *)

\* A get never answers with a value that was overwritten or deleted since: what a newer
\* table says shadows the older ones, and one that cannot be read is an error
\* (kv_store.cpp:158-170).
NoStaleRead == pc = "idle" => \A k \in Keys : getPastErrors(k) \in {committed[k], Absent}

\* A key whose newest entry can be read is answered from it, whatever else has gone
\* bad (kv_store.cpp:158-168).
ReadableReadsLatest ==
  pc = "idle" => \A k \in Keys :
    \/ getPastErrors(k) = committed[k]
    \/ /\ table[k] = Absent
       /\ \E i \in Holders(files, sstables, k) :
            i = Max(Holders(files, sstables, k)) /\ <<sstables[i], k>> \in unreadable

-----------------------------------------------------------------------------
(* DurableMap over tables that go bad.                                     *)

\* The newest of the tables ts that holds key k, or 0.
Newest(fs, ts, k) == IF Holders(fs, ts, k) = {} THEN 0 ELSE ts[Max(Holders(fs, ts, k))]

\* The key has no entry e in memory, and its newest one in the tables cannot be read.
Fades(e, ts, k) == e = Absent /\ <<Newest(files, ts, k), k>> \in unreadable

\* The tables a restart loads; while Exposed, the merged one in place of its inputs.
DiskTables == IF Exposed THEN <<out>> ELSE manifest

\* A restart would not bring the key back, or it cannot be read now.
IsLost(k) ==
  \/ Fades(Replayed(wal, k), DiskTables, k)
  \/ Running /\ Fades(LiveTable[k], LiveTables, k)

Lost == {k \in Keys : IsLost(k)}

\* What a restart would answer.  Of a lost key, which may be anything, the promise stands
\* in the place of the answer: DurableMap says nothing of it.
RestartAnswers ==
  [k \in Keys |-> IF IsLost(k) THEN committed[k]
                  ELSE VisiblePastErrors(Replayed(wal, k), DiskTables, k)]

\* The inductive invariant behind it: damage is in whole tables only, and none is in a table
\* that the running call has just written and counts on.
DamageInv ==
  /\ \A l \in unreadable : files[l[1]].state = "complete"
  /\ pc = "fillTable" => files[out].state = "partial"
  /\ pc \in {"manifest", "reset"} =>
       sstables # <<>> /\ files[Last(sstables)].data = table /\ ~Damaged(Last(sstables))
  /\ pc = "remove" => ~Damaged(out)

Fading ==
  INSTANCE DurableMap WITH
    kv      <- RestartAnswers,
    lost    <- Lost,
    pending <- op,
    applied <- (pc = "apply"),
    answers <- IF pc = "idle" THEN [k \in Keys \ Lost |-> getPastErrors(k)] ELSE NotReady,
    status  <- result

\* Of the keys whose newest entry can be read the store is a DurableMap: get and a restart
\* answer with the last promised write.  Only damage makes a key unreadable, never a
\* flush, a compaction that meets damage, an error, a crash or a restart; and writing
\* the key again makes it readable (kv_store.cpp:158-168, 300-343).
ImplementsFading == Fading!Spec
=============================================================================
