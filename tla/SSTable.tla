------------------------------ MODULE SSTable ------------------------------
(***************************************************************************)
(* One table file (src/src/sstable.cpp, src/include/lsm/sstable.h): the    *)
(* writer that fills it, the file on disk, and the reader that opens it    *)
(* and looks keys up through the Bloom filter, the sparse index and a scan *)
(* of one range of records.  A write to the stream may fail unnoticed, the *)
(* writer may go away before the footer is written, and parts of the       *)
(* finished file may be damaged, before or after the reader has opened it. *)
(* Keys are numbers, in the order of the strings they stand for; 0 is the  *)
(* empty string, which KVStoreImpl rejects and last_key_ starts with.      *)
(***************************************************************************)
EXTENDS BloomFilter, Sequences, FiniteSetsExt

CONSTANTS
  Values,
  Tombstone,   \* the mark of a deleted key
  Absent,      \* NotFound, and no tombstone
  Unreadable,  \* an error Status instead of an answer
  KeySize,     \* key.size(), in bytes
  ValueSize,   \* value.size(), in bytes
  Interval,    \* Options::sparse_index_interval
  Estimates,   \* the estimates of the number of keys a writer is opened with
  MaxDamaged   \* bound: damaged parts of the file

Entry == Values \cup {Tombstone}

\* An interval of 0 would divide by zero at the first record.
ASSUME TableAssumption ==
  /\ Keys \subseteq Nat \ {0}
  /\ Tombstone \notin Values
  /\ {Absent, Unreadable} \cap Entry = {}
  /\ Absent # Unreadable
  /\ KeySize \in [Keys -> Nat]
  /\ ValueSize \in [Values -> Nat]
  /\ Interval \in Nat \ {0}
  /\ Estimates \subseteq Nat
  /\ \A n \in Estimates \cup {100} : NewFilter(n).bytes < Word
  /\ MaxDamaged \in Nat

VARIABLES
  is_open,         \* is_open_ of the writer
  good,            \* no write of its stream has failed
  last_key,        \* last_key_
  record_count,    \* record_count_
  current_offset,  \* current_offset_
  index,           \* index_
  bloom_filter,    \* bloom_filter_
  file,            \* on disk: the records and, once finished, what follows them
  damaged,         \* on disk: the damaged parts: records by position, or OpeningPart
  reader,          \* an SSTableReader
  appended         \* history: the entries the writer accepted, in order

writer == <<is_open, good, last_key, record_count, current_offset, index, bloom_filter>>
vars   == <<writer, file, damaged, reader, appended>>

kSSTableHeaderSize == 16
NoKey              == 0

Record     == [key : Keys, entry : Entry, offset : Nat]
IndexEntry == [key : Keys, offset : Nat]
Appended   == [key : Keys, entry : Entry]

\* In damaged: the header, the index, the filter or the footer.
OpeningPart == 0

BloomBlock == [num_hashes : Nat, num_bytes : Nat, data : SUBSET Nat]
IndexBlock == [count : Nat, entries : Seq(IndexEntry)]

\* SSTableIndex::serialize: the number of entries, cut to 32 bits, and the entries.
IndexWritten(ix) == [count |-> Len(ix) % Word, entries |-> ix]

\* SSTableIndex::deserialize: as many entries as the block says it has.
IndexRead(block) == SubSeq(block.entries, 1, block.count)

\* A file before anything but its header is written to it.
HeaderOnly ==
  [records |-> <<>>, size |-> kSSTableHeaderSize, whole |-> FALSE,
   index |-> IndexWritten(<<>>), bloom |-> serialize(DefaultFilter), data_end |-> kSSTableHeaderSize]

ClosedReader ==
  [open |-> FALSE, use_bloom |-> TRUE, index |-> <<>>, filter |-> DefaultFilter,
   data_end |-> kSSTableHeaderSize]

TypeOK ==
  /\ is_open \in BOOLEAN
  /\ good \in BOOLEAN
  /\ last_key \in Keys \cup {NoKey}
  /\ record_count \in Nat
  /\ current_offset \in Nat
  /\ index \in Seq(IndexEntry)
  /\ bloom_filter \in Filter
  /\ file \in [records : Seq(Record), size : Nat, whole : BOOLEAN,
               index : IndexBlock, bloom : BloomBlock, data_end : Nat]
  /\ damaged \subseteq Nat
  /\ reader \in [open : BOOLEAN, use_bloom : BOOLEAN, index : Seq(IndexEntry),
                 filter : Filter, data_end : Nat]
  /\ appended \in Seq(Appended)

-----------------------------------------------------------------------------
(* SSTableWriter.                                                          *)

\* Type, two lengths, key and value, and the checksum of four bytes after them.
RecordSize(k, e) == 9 + KeySize[k] + (IF e = Tombstone THEN 0 ELSE ValueSize[e]) + 4

\* Mutant: the checksum is not counted.
OffsetAfterBody(k, e) == current_offset + RecordSize(k, e) - 4

OffsetAfter(k, e) == current_offset + RecordSize(k, e)

\* Mutant: the first record alone is indexed.
SampledFirstOnly == record_count = 0

\* Every Interval-th record, and always the first, goes into the index.
Sampled == record_count % Interval = 0

\* A writer is made and opened.  Without an estimate it expects 100 keys.
OpenWriter(estimated_keys) ==
  /\ current_offset = 0
  /\ is_open' = TRUE
  /\ bloom_filter' = NewFilter(IF estimated_keys > 0 THEN estimated_keys ELSE 100)
  /\ current_offset' = kSSTableHeaderSize
  /\ UNCHANGED <<good, last_key, record_count, index, file, damaged, reader, appended>>

\* Keys must strictly increase; any other is refused, and nothing changes.
InOrder(k) == last_key = NoKey \/ k > last_key

append(k, e) ==
  /\ is_open
  /\ InOrder(k)
  /\ record_count < Word - 1  \* bound: the counters of 32 bits do not wrap around
  /\ bloom_filter' = Added(bloom_filter, k)
  /\ index' = IF Sampled THEN Append(index, [key |-> k, offset |-> current_offset]) ELSE index
  /\ file' = IF good
               THEN [file EXCEPT
                       !.records = Append(@, [key |-> k, entry |-> e, offset |-> file.size]),
                       !.size = @ + RecordSize(k, e)]
               ELSE file
  /\ current_offset' = OffsetAfter(k, e)
  /\ record_count' = record_count + 1
  /\ last_key' = k
  /\ appended' = Append(appended, [key |-> k, entry |-> e])
  /\ UNCHANGED <<is_open, good, damaged, reader>>

\* The last records the stream holds are not written.
LastRecordsLost ==
  \E n \in 0 .. Len(file.records) : file' = [file EXCEPT !.records = SubSeq(@, 1, n)]

\* The stream goes bad; append and finish do not look at it.
WriteFails ==
  /\ is_open /\ good
  /\ good' = FALSE
  /\ LastRecordsLost
  /\ UNCHANGED <<is_open, last_key, record_count, current_offset, index, bloom_filter, damaged,
                 reader, appended>>

\* Index, filter and footer follow the records, if the stream still writes.  What they
\* add to current_offset_ is not used again.
finish ==
  /\ is_open
  /\ is_open' = FALSE
  /\ file' = IF good
               THEN [file EXCEPT !.whole = TRUE, !.index = IndexWritten(index),
                                 !.bloom = serialize(bloom_filter), !.data_end = current_offset]
               ELSE file
  /\ UNCHANGED <<good, last_key, record_count, current_offset, index, bloom_filter, damaged,
                 reader, appended>>

\* The writer goes away unfinished: the process dies, or a key was refused and
\* writeFromEntries gives up.
AbandonWriter ==
  /\ is_open
  /\ is_open' = FALSE
  /\ good' = FALSE
  /\ LastRecordsLost
  /\ UNCHANGED <<last_key, record_count, current_offset, index, bloom_filter, damaged,
                 reader, appended>>

-----------------------------------------------------------------------------
(* SSTableReader.                                                          *)

\* Mutant: the end of the file is not looked at.
LoadableWithoutFooter == OpeningPart \notin damaged

\* Magic numbers, sizes and checksums of everything but the records are checked.
Loadable == file.whole /\ OpeningPart \notin damaged

\* Index and filter are read into memory.
OpenReader(enable_bloom_filter) ==
  /\ reader' = IF Loadable
                 THEN [open |-> TRUE, use_bloom |-> enable_bloom_filter, index |-> IndexRead(file.index),
                       filter |-> deserialize(file.bloom), data_end |-> file.data_end]
                 ELSE [reader EXCEPT !.open = FALSE]
  /\ UNCHANGED <<writer, file, damaged, appended>>

CloseReader ==
  /\ reader.open
  /\ reader' = [reader EXCEPT !.open = FALSE]
  /\ UNCHANGED <<writer, file, damaged, appended>>

\* Mutant: the search stops at the first entry not below the key.
EntriesAboveOrAt(ix, k) == {j \in DOMAIN ix : k <= ix[j].key}

\* std::upper_bound: the entries above the key, of an index in order.
EntriesAbove(ix, k) == {j \in DOMAIN ix : k < ix[j].key}

\* findOffsetRange: from the last entry not above the key, or the header, to the
\* first above it, or the end of the data.
RangeStart(ix, k) ==
  LET upto == DOMAIN ix \ EntriesAbove(ix, k)
  IN  IF upto = {} THEN kSSTableHeaderSize ELSE ix[Max(upto)].offset

RangeEnd(ix, k, data_end) ==
  LET above == EntriesAbove(ix, k)
  IN  IF above = {} THEN data_end ELSE ix[Min(above)].offset

InRange(start, end) ==
  {i \in DOMAIN file.records : start <= file.records[i].offset /\ file.records[i].offset < end}

\* A scan ends at a record that cannot be read and at the first key not below k.
Stops(start, end, k) ==
  {i \in InRange(start, end) : i \in damaged \/ file.records[i].key >= k}

\* No record begins where the scan does: what is read has a wrong checksum.
Misaligned(start, end) ==
  start < end /\ \A i \in DOMAIN file.records : file.records[i].offset # start

scanRange(start, end, k) ==
  LET stops == Stops(start, end, k)
      i     == Min(stops)
  IN  IF Misaligned(start, end) THEN Unreadable
      ELSE IF stops = {} THEN Absent
      ELSE IF i \in damaged THEN Unreadable
      ELSE IF file.records[i].key = k THEN file.records[i].entry
      ELSE Absent

\* The index is searched and its range scanned.
Lookup(k) ==
  scanRange(RangeStart(reader.index, k), RangeEnd(reader.index, k, reader.data_end), k)

\* SSTableReader::get: the filter first, when it is in use.
get(k) ==
  IF reader.use_bloom /\ ~possiblyContains(reader.filter, k) THEN Absent ELSE Lookup(k)

\* readAllRecords, used by compaction.
readAllRecords ==
  IF damaged \cap DOMAIN file.records # {}
    THEN Unreadable
    ELSE [i \in DOMAIN file.records |->
            [key |-> file.records[i].key, entry |-> file.records[i].entry]]

-----------------------------------------------------------------------------
\* Something changes a part of the finished file.
Damage(part) ==
  /\ file.whole
  /\ Cardinality(damaged) < MaxDamaged
  /\ damaged' = damaged \cup {part}
  /\ UNCHANGED <<writer, file, reader, appended>>

Init ==
  /\ is_open = FALSE
  /\ good = TRUE
  /\ last_key = NoKey
  /\ record_count = 0
  /\ current_offset = 0
  /\ index = <<>>
  /\ bloom_filter = DefaultFilter
  /\ file = HeaderOnly
  /\ damaged = {}
  /\ reader = ClosedReader
  /\ appended = <<>>

Next ==
  \/ \E n \in Estimates : OpenWriter(n)
  \/ \E k \in Keys, e \in Entry : append(k, e)
  \/ WriteFails
  \/ finish
  \/ AbandonWriter
  \/ \E use \in BOOLEAN : OpenReader(use)
  \/ CloseReader
  \/ \E part \in {OpeningPart} \cup DOMAIN file.records : Damage(part)

Spec == Init /\ [][Next]_vars

-----------------------------------------------------------------------------
(* The inductive invariant behind TruthfulGet, in named parts.             *)

\* While the stream is good the file has what was appended, where the writer
\* thinks it is.
FileCurrent ==
  /\ record_count = Len(appended)
  /\ current_offset = 0 => appended = <<>>
  /\ last_key = NoKey <=> appended = <<>>
  /\ good => /\ Len(file.records) = Len(appended)
             /\ \A i \in DOMAIN appended :
                  /\ file.records[i].key = appended[i].key
                  /\ file.records[i].entry = appended[i].entry
             /\ current_offset # 0 => file.size = current_offset

\* Records follow one another, by key and by place, from the header on.
RecordsOrdered ==
  /\ file.size >= kSSTableHeaderSize
  /\ \A i \in DOMAIN file.records :
       /\ file.records[i].key <= last_key
       /\ file.records[i].offset < file.size
       /\ file.records[i].offset >= kSSTableHeaderSize
  /\ \A i, j \in DOMAIN file.records :
       i < j => /\ file.records[i].key < file.records[j].key
                /\ file.records[i].offset < file.records[j].offset
  /\ file.records # <<>> => file.records[1].offset = kSSTableHeaderSize
  /\ good /\ file.records = <<>> => file.size = kSSTableHeaderSize

\* The index names records of the file, in order, and the first of them.
IndexTrue ==
  good =>
    /\ \A j \in DOMAIN index : \E i \in DOMAIN file.records :
         /\ index[j].key = file.records[i].key
         /\ index[j].offset = file.records[i].offset
    /\ \A i, j \in DOMAIN index : i < j => index[i].key < index[j].key
    /\ index = <<>> <=> file.records = <<>>

\* The position of the record that the j-th entry of the index names.
SampledAt(j) == (j - 1) * Interval + 1

\* The index names every Interval-th record, and no fewer than there are.
IndexSpaced ==
  good =>
    /\ \A j \in DOMAIN index :
         /\ SampledAt(j) \in DOMAIN file.records
         /\ index[j].offset = file.records[SampledAt(j)].offset
    /\ Len(file.records) <= Len(index) * Interval

\* The filter of the writer holds every key, and fits its block in the file.
FilterTrue ==
  /\ bloom_filter.bytes \in 1 .. Word - 1
  /\ bloom_filter.hashes < Word
  /\ bloom_filter.ones \subseteq 0 .. 8 * bloom_filter.bytes - 1
  /\ \A i \in DOMAIN appended : possiblyContains(bloom_filter, appended[i].key)

\* What follows the records, and what a reader loaded of it, is the writer's.
FinishedTrue ==
  /\ is_open => current_offset # 0
  /\ file.whole =>
       /\ good /\ ~is_open /\ current_offset # 0
       /\ file.index = IndexWritten(index)
       /\ file.bloom = serialize(bloom_filter)
       /\ file.data_end = current_offset
  /\ reader.open =>
       /\ file.whole
       /\ reader.index = IndexRead(file.index)
       /\ reader.filter = deserialize(file.bloom)
       /\ reader.data_end = file.data_end

\* The number of index entries fits the four bytes it is written to.
IndexFits == Len(index) <= record_count /\ record_count < Word

TableInv ==
  /\ TypeOK
  /\ IndexFits
  /\ FileCurrent
  /\ RecordsOrdered
  /\ IndexTrue
  /\ IndexSpaced
  /\ FilterTrue
  /\ FinishedTrue

-----------------------------------------------------------------------------
(* Properties.                                                             *)

\* What the entries appended to the table hold for a key.
Held(k) ==
  LET at == {i \in DOMAIN appended : appended[i].key = k}
  IN  IF at = {} THEN Absent ELSE appended[Min(at)].entry

\* Whatever the filter, the interval of the index and the sizes of the records, an
\* open reader finds exactly what was appended: a value, a tombstone, or nothing.
\* A damaged record makes it answer with an error, never with another entry and
\* never with NotFound (sstable.cpp:109-143, 484-577).
TruthfulGet ==
  reader.open => \A k \in Keys :
    \/ get(k) = Held(k)
    \/ get(k) = Unreadable /\ damaged # {}

\* A key that was appended passes the filter, in the writer and in a reader that
\* loaded the filter back from the file (bloom_filter.h:20, bloom_filter.cpp:57-112).
NoFalseNegatives ==
  \A i \in DOMAIN appended :
    /\ possiblyContains(bloom_filter, appended[i].key)
    /\ reader.open => possiblyContains(reader.filter, appended[i].key)

\* A lookup reads at most Interval records: the index names a record in every
\* Interval records, the first and the last range included (sstable.cpp:236-239).
ScanBounded ==
  reader.open => \A k \in Keys :
    Cardinality(InRange(RangeStart(reader.index, k),
                        RangeEnd(reader.index, k, reader.data_end))) <= Interval

\* A file opens only if every entry that was appended is in it: a failed write,
\* which neither append nor finish reports, always shows at the opening, and a scan
\* of the table gives the entries back or an error (sstable.cpp:389-482, 579-628).
OpensOnlyWhole ==
  reader.open => readAllRecords = appended \/ (readAllRecords = Unreadable /\ damaged # {})
=============================================================================
