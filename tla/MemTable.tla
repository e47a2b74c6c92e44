------------------------------ MODULE MemTable ------------------------------
(***************************************************************************)
(* The in-memory sorted buffer (src/src/memtable.cpp,                      *)
(* src/include/lsm/memtable.h): a map from keys to values or tombstones    *)
(* together with the running estimate of its size that decides when the    *)
(* store writes it out.  Keys, values and their sizes are constants: the   *)
(* code looks at nothing of a key or a value but its size and its identity.*)
(***************************************************************************)
EXTENDS Integers, FiniteSets, FiniteSetsExt

CONSTANTS
  Keys,            \* the keys (never the empty string: KVStoreImpl rejects it)
  Values,          \* the values a put may store
  Tombstone,       \* the mark of a deleted key (RecordType::TOMBSTONE)
  Absent,          \* "no entry for this key"
  KeySize,         \* key.size(), in bytes
  ValueSize,       \* value.size(), in bytes; 0 is a legal size
  kEntryOverhead,  \* estimated bytes of a map node
  size_threshold   \* Options::memtable_size_threshold

ASSUME SlotAssumption ==
  /\ Tombstone \notin Values
  /\ Absent \notin Values
  /\ Absent # Tombstone

ASSUME SizeAssumption ==
  /\ KeySize \in [Keys -> Nat]
  /\ ValueSize \in [Values -> Nat]
  /\ kEntryOverhead \in Nat
  /\ size_threshold \in Nat

VARIABLES
  table,            \* table_: the map
  approximate_size  \* approximate_size_: the running size estimate

memVars == <<table, approximate_size>>

\* What a record holds for a key: a PUT's value, or a tombstone.
Entry == Values \cup {Tombstone}

\* What a lookup of a key in one map finds.
Slot == Entry \cup {Absent}

NoEntries == [k \in Keys |-> Absent]

MemTypeOK ==
  /\ table \in [Keys -> Slot]
  /\ approximate_size \in Nat

MemInit ==
  /\ table = NoEntries
  /\ approximate_size = 0

EntrySize(k, e) ==
  KeySize[k] + (IF e = Tombstone THEN 0 ELSE ValueSize[e]) + kEntryOverhead

\* The estimate saturates at zero instead of wrapping around.
SubSize(bytes) ==
  IF approximate_size >= bytes THEN approximate_size - bytes ELSE 0

\* Mutant: an overwrite charges the new entry and never gives the old one back.
ChargeForWithoutRefund(k, e) == approximate_size + EntrySize(k, e)

\* put and remove over an existing entry give its old size back first.
ChargeFor(k, e) ==
  (IF table[k] = Absent THEN approximate_size ELSE SubSize(EntrySize(k, table[k])))
     + EntrySize(k, e)

MemStore(k, e) ==
  /\ approximate_size' = ChargeFor(k, e)
  /\ table' = [table EXCEPT ![k] = e]

MemPut(k, v) == MemStore(k, v)

MemRemove(k) == MemStore(k, Tombstone)

MemClear ==
  /\ table' = NoEntries
  /\ approximate_size' = 0

\* Mutant: a MemTable exactly at its threshold is not full.
IsFullAbove == approximate_size > size_threshold

IsFull == approximate_size >= size_threshold

IsEmpty == table = NoEntries

MemNext ==
  \/ \E k \in Keys, v \in Values : MemPut(k, v)
  \/ \E k \in Keys : MemRemove(k)
  \/ MemClear

MemSpec == MemInit /\ [][MemNext]_memVars

-----------------------------------------------------------------------------
\* The estimate is exactly the sum of the sizes of the entries now in the map,
\* whatever sequence of puts, overwrites, deletes and re-puts led there: no
\* overwrite of a value by a tombstone (or back) leaves bytes behind, and the
\* saturating subtraction never saturates.  An estimate that drifts makes the
\* store flush too early for ever, or never (memtable.cpp:8-59).
SizeIsSumOfEntries ==
  approximate_size =
    MapThenSumSet(LAMBDA k : EntrySize(k, table[k]), {k \in Keys : table[k] # Absent})
=============================================================================
