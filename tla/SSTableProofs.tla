--------------------------- MODULE SSTableProofs ---------------------------
(***************************************************************************)
(* A table that opens gives the right answers: TableInv is an invariant,   *)
(* and NoFalseNegatives and TruthfulGet follow from it, for every number   *)
(* of keys, every interval of the index and all sizes of records.          *)
(***************************************************************************)
EXTENDS SSTable, WellFoundedInduction, FiniteSetTheorems, TLAPS

-----------------------------------------------------------------------------
(* A filter forgets no key, whatever the hash functions: not when others    *)
(* are added, nor on its way through the file.                             *)


\* A remainder is below its divisor.
LEMMA RemainderBelow ==
  ASSUME NEW x \in Nat, NEW n \in Nat, n > 0
  PROVE  x % n \in 0 .. n - 1
  OBVIOUS

\* The bits of a key lie inside the filter.
LEMMA BitsInside ==
  ASSUME NEW f \in Filter, f.bytes > 0, NEW k \in Keys
  PROVE  Bits(f, k) \subseteq 0 .. 8 * f.bytes - 1
<1> SUFFICES ASSUME NEW i \in 0 .. f.hashes - 1
             PROVE  (Hash1[k] + i * Hash2[k]) % (8 * f.bytes) \in 0 .. 8 * f.bytes - 1
  BY DEF Bits
<1>1. f.bytes \in Nat /\ f.hashes \in Nat /\ Hash1[k] \in Nat /\ Hash2[k] \in Nat
  BY BloomAssumption DEF Filter
<1>2. i \in Nat
  BY <1>1
<1>3. i * Hash2[k] \in Nat
  BY <1>1, <1>2
<1>4. Hash1[k] + i * Hash2[k] \in Nat
  BY <1>1, <1>3
<1>5. 8 * f.bytes \in Nat /\ 8 * f.bytes > 0
  BY <1>1
<1> QED
  BY ONLY <1>4, <1>5, RemainderBelow

\* An added key passes the filter, and so does every key that did before
\* (bloom_filter.cpp:57-82).
LEMMA AddedIsContained ==
  ASSUME NEW f \in Filter, NEW k \in Keys
  PROVE  /\ Added(f, k) \in Filter
         /\ Added(f, k).bytes = f.bytes
         /\ Added(f, k).hashes = f.hashes
         /\ Added(f, k).ones \subseteq f.ones \cup Bits(f, k)
         /\ possiblyContains(Added(f, k), k)
         /\ \A other \in Keys :
              possiblyContains(f, other) => possiblyContains(Added(f, k), other)
<1>1. CASE f.bytes = 0
  BY <1>1 DEF Added, possiblyContains
<1>2. CASE f.bytes # 0
  <2>1. Added(f, k) = [bytes |-> f.bytes, hashes |-> f.hashes, ones |-> f.ones \cup Bits(f, k)]
    BY <1>2 DEF Added, Filter
  <2>2. Bits(f, k) \subseteq Nat
    <3>1. f.bytes \in Nat /\ f.bytes > 0
      BY <1>2 DEF Filter
    <3>2. 0 .. 8 * f.bytes - 1 \subseteq Nat
      BY <3>1
    <3> QED
      BY <3>1, <3>2, BitsInside
  <2>3. \A other \in Keys : Bits(Added(f, k), other) = Bits(f, other)
    BY <2>1 DEF Bits
  <2> QED
    BY <1>2, <2>1, <2>2, <2>3 DEF possiblyContains, Filter
<1> QED
  BY <1>1, <1>2

\* A filter that fits its block comes back from the file as it was
\* (bloom_filter.cpp:84-112).
LEMMA LoadedIsSame ==
  ASSUME NEW f \in Filter, f.bytes < Word, f.hashes < Word,
         f.ones \subseteq 0 .. 8 * f.bytes - 1
  PROVE  deserialize(serialize(f)) = f
<1>1. f.bytes \in Nat /\ f.hashes \in Nat /\ Word \in Nat /\ Word > 0
  BY BloomAssumption DEF Filter
<1>2. f.bytes % Word = f.bytes /\ f.hashes % Word = f.hashes
  BY <1>1
<1>3. {b \in f.ones : b < 8 * f.bytes} = f.ones
  BY <1>1
<1> QED
  BY <1>2, <1>3 DEF deserialize, serialize, Filter

\* A new filter is one, is empty, and is not of zero bytes (bloom_filter.cpp:22-31).
LEMMA NewIsFilter ==
  ASSUME NEW n \in Nat
  PROVE  /\ NewFilter(n) \in Filter
         /\ NewFilter(n).bytes > 0
         /\ NewFilter(n).hashes < Word
         /\ NewFilter(n).ones = {}
<1> DEFINE wanted == (IF n = 0 THEN 64 ELSE n) * BitsPerKey
           total  == IF wanted < 64 THEN 64 ELSE wanted
<1>1. BitsPerKey \in Nat /\ NumHashes \in Nat /\ NumHashes < Word
  BY BloomAssumption
<1>2. wanted \in Nat
  BY <1>1
<1> HIDE DEF wanted
<1>3. (total + 7) \div 8 \in Nat /\ (total + 7) \div 8 > 0
  BY <1>2
<1>4. NewFilter(n) = [bytes |-> (total + 7) \div 8, hashes |-> NumHashes, ones |-> {}]
  BY DEF NewFilter, wanted
<1> HIDE DEF total
<1> QED
  BY <1>1, <1>3, <1>4 DEF Filter

-----------------------------------------------------------------------------
(* Smallest and largest positions.                                         *)

\* A set of positions that is not empty has a first one.
LEMMA MinExists ==
  ASSUME NEW S \in SUBSET Nat, S # {}
  PROVE  Min(S) \in S /\ \A y \in S : Min(S) <= y
<1> DEFINE R == OpToRel(<, Nat)
<1>1. PICK m \in S : \A y \in S : ~ (<<y, m>> \in R)
  <2>1. IsWellFoundedOn(R, Nat)
    BY NatLessThanWellFounded
  <2> HIDE DEF R
  <2> QED
    BY <2>1, WFMin
<1>2. \A y \in S : m <= y
  <2> TAKE y \in S
  <2>1. y \in Nat /\ m \in Nat
    OBVIOUS
  <2>2. y < m => <<y, m>> \in R
    BY <2>1 DEF OpToRel
  <2> HIDE DEF R
  <2> QED
    BY <1>1, <2>1, <2>2
<1> QED
  BY <1>2 DEF Min

LEMMA RemainderOfZero ==
  ASSUME NEW n \in Nat \ {0}
  PROVE  0 % n = 0
  OBVIOUS

LEMMA MinIs ==
  ASSUME NEW m \in Nat
  PROVE  Min({m}) = m
  BY DEF Min

\* A set of positions up to n that is not empty has a last one.
LEMMA MaxExists ==
  ASSUME NEW n \in Nat, NEW S \in SUBSET (1 .. n), S # {}
  PROVE  Max(S) \in S /\ \A y \in S : y <= Max(S)
<1> DEFINE T == {n - x : x \in S}
<1>1. T \in SUBSET Nat /\ T # {}
  <2>1. \A x \in S : n - x \in Nat
    OBVIOUS
  <2> QED
    BY <2>1
<1>2. Min(T) \in T /\ \A y \in T : Min(T) <= y
  BY <1>1, MinExists
<1>3. PICK x \in S : Min(T) = n - x
  BY <1>2
<1>4. \A y \in S : x >= y
  <2> TAKE y \in S
  <2>1. n - y \in T
    OBVIOUS
  <2> HIDE DEF T
  <2> QED
    BY <1>2, <1>3, <2>1
<1> QED
  BY <1>4 DEF Max

-----------------------------------------------------------------------------
(* TableInv is inductive, an action at a time.                             *)

USE DEF kSSTableHeaderSize, NoKey

LEMMA InitTable == Init => TableInv
<1> SUFFICES ASSUME Init PROVE TableInv
  OBVIOUS
<1> USE DEF Init
<1>1. DefaultFilter \in Filter
  BY DEF DefaultFilter, Filter
<1>2. serialize(DefaultFilter) \in BloomBlock
  BY BloomAssumption DEF serialize, DefaultFilter, BloomBlock
<1>3. TypeOK
  <2>1. HeaderOnly \in [records : Seq(Record), size : Nat, whole : BOOLEAN,
                        index : IndexBlock, bloom : BloomBlock, data_end : Nat]
    <3>1. IndexWritten(<<>>) \in IndexBlock
      BY BloomAssumption DEF IndexWritten, IndexBlock
    <3> QED
      BY <1>2, <3>1 DEF HeaderOnly
  <2>2. ClosedReader \in [open : BOOLEAN, use_bloom : BOOLEAN, index : Seq(IndexEntry),
                          filter : Filter, data_end : Nat]
    BY <1>1 DEF ClosedReader
  <2>3. index \in Seq(IndexEntry) /\ appended \in Seq(Appended)
    OBVIOUS
  <2> QED
    BY <1>1, <2>1, <2>2, <2>3 DEF TypeOK
<1>4. FileCurrent /\ RecordsOrdered /\ IndexTrue /\ FinishedTrue
  BY DEF FileCurrent, RecordsOrdered, IndexTrue, FinishedTrue, HeaderOnly, ClosedReader
<1>5. FilterTrue /\ IndexFits
  BY BloomAssumption DEF FilterTrue, DefaultFilter, IndexFits
<1>6. IndexSpaced
  BY TableAssumption DEF IndexSpaced, HeaderOnly
<1> QED
  BY <1>3, <1>4, <1>5, <1>6 DEF TableInv

LEMMA OpenWriterKeeps ==
  ASSUME TableInv, NEW n \in Estimates, OpenWriter(n)
  PROVE  TableInv'
<1> USE DEF OpenWriter
<1> DEFINE keys == IF n > 0 THEN n ELSE 100
<1>1. keys \in Nat /\ NewFilter(keys).bytes < Word
  BY TableAssumption
<1>2. /\ NewFilter(keys) \in Filter
      /\ NewFilter(keys).bytes > 0
      /\ NewFilter(keys).hashes < Word
      /\ NewFilter(keys).ones = {}
  BY <1>1, NewIsFilter
<1>3. bloom_filter' = NewFilter(keys)
  OBVIOUS
<1>4. appended = <<>> /\ ~is_open /\ ~file.whole
  BY DEF TableInv, FileCurrent, FinishedTrue
<1> HIDE DEF keys
<1>5. TypeOK'
  BY <1>2, <1>3 DEF TableInv, TypeOK
<1>6. FileCurrent' /\ RecordsOrdered' /\ IndexTrue' /\ IndexSpaced'
  <2>1. good => file.records = <<>> /\ file.size = kSSTableHeaderSize
    BY <1>4 DEF TableInv, FileCurrent, TypeOK, RecordsOrdered
  <2> QED
    BY <2>1 DEF TableInv, FileCurrent, RecordsOrdered, IndexTrue, IndexSpaced
<1>7. FilterTrue'
  <2>1. bloom_filter'.bytes \in Nat /\ Word \in Nat /\ appended' = <<>>
    BY <1>2, <1>3, <1>4, BloomAssumption DEF Filter
  <2> QED
    BY <1>1, <1>2, <1>3, <2>1 DEF FilterTrue
<1>8. FinishedTrue' /\ IndexFits'
  BY <1>4 DEF TableInv, FinishedTrue, IndexFits
<1> QED
  BY <1>5, <1>6, <1>7, <1>8 DEF TableInv

\* IndexSpaced of one index and one list of records.
SpacedOver(ix, rs) ==
  /\ \A j \in DOMAIN ix : SampledAt(j) \in DOMAIN rs /\ ix[j].offset = rs[SampledAt(j)].offset
  /\ Len(rs) <= Len(ix) * Interval

\* A multiple of n that lies in the n numbers above another multiple of n, the last
\* of them included, is that last one.
LEMMA LastMultiple ==
  ASSUME NEW n \in Nat \ {0}, NEW x \in Nat, NEW l \in Nat,
         x <= l * n, l > 0 => (l - 1) * n < x
  PROVE  x % n = 0 <=> x = l * n
<1> DEFINE q == x \div n
<1>1. q \in Nat /\ n * q \in Nat /\ x = n * q + (x % n) /\ x % n \in 0 .. n - 1
  OBVIOUS
<1> HIDE DEF q
<1>2. ASSUME x % n = 0 PROVE x = l * n
  <2>1. ~(q > l)
    <3> SUFFICES ASSUME q > l PROVE FALSE
      OBVIOUS
    <3>1. PICK d \in Nat : q = l + 1 + d
      <4>1. q - l - 1 \in Nat /\ q = l + 1 + (q - l - 1)
        BY <1>1
      <4> QED
        BY <4>1
    <3>2. n * q = l * n + n + n * d
      BY <1>1, <3>1
    <3>3. n * d \in Nat /\ l * n \in Nat
      OBVIOUS
    <3> QED
      BY <1>1, <1>2, <3>2, <3>3
  <2>2. ~(q < l)
    <3> SUFFICES ASSUME q < l PROVE FALSE
      OBVIOUS
    <3>1. PICK d \in Nat : l - 1 = q + d
      <4>1. l - 1 - q \in Nat /\ l - 1 = q + (l - 1 - q)
        BY <1>1
      <4> QED
        BY <4>1
    <3>2. (l - 1) * n = n * q + n * d
      BY <1>1, <3>1
    <3>3. n * d \in Nat
      OBVIOUS
    <3> QED
      BY <1>1, <1>2, <3>2, <3>3
  <2> QED
    BY <1>1, <1>2, <2>1, <2>2
<1>3. ASSUME x = l * n PROVE x % n = 0
  <2>1. ~(q > l)
    <3> SUFFICES ASSUME q > l PROVE FALSE
      OBVIOUS
    <3>1. PICK d \in Nat : q = l + 1 + d
      <4>1. q - l - 1 \in Nat /\ q = l + 1 + (q - l - 1)
        BY <1>1
      <4> QED
        BY <4>1
    <3>2. n * q = l * n + n + n * d
      BY <1>1, <3>1
    <3>3. n * d \in Nat /\ l * n \in Nat
      OBVIOUS
    <3> QED
      BY <1>1, <1>3, <3>2, <3>3
  <2>2. ~(q < l)
    <3> SUFFICES ASSUME q < l PROVE FALSE
      OBVIOUS
    <3>1. PICK d \in Nat : l = q + 1 + d
      <4>1. l - 1 - q \in Nat /\ l = q + 1 + (l - 1 - q)
        BY <1>1
      <4> QED
        BY <4>1
    <3>2. l * n = n * q + n + n * d
      BY <1>1, <3>1
    <3>3. n * d \in Nat /\ n * q \in Nat
      BY <1>1
    <3> QED
      BY <1>1, <1>3, <3>2, <3>3
  <2> QED
    BY <1>1, <1>3, <2>1, <2>2
<1> QED
  BY <1>2, <1>3

\* append keeps the index spaced: it samples a record exactly when the last range is
\* full (sstable.cpp:236-239).
LEMMA SpacedAppend ==
  ASSUME NEW ix \in Seq(IndexEntry), NEW rs \in Seq(Record), SpacedOver(ix, rs),
         NEW entry \in IndexEntry, NEW rec \in Record, entry.offset = rec.offset,
         NEW ix2, ix2 = IF Len(rs) % Interval = 0 THEN Append(ix, entry) ELSE ix
  PROVE  SpacedOver(ix2, Append(rs, rec))
<1> DEFINE n == Len(rs)
           l == Len(ix)
           rs2 == Append(rs, rec)
<1>1. /\ n \in Nat /\ l \in Nat /\ Interval \in Nat \ {0}
      /\ DOMAIN rs = 1 .. n /\ DOMAIN ix = 1 .. l
      /\ DOMAIN rs2 = 1 .. n + 1 /\ Len(rs2) = n + 1
      /\ rs2[n + 1] = rec
      /\ \A i \in 1 .. n : rs2[i] = rs[i]
  BY TableAssumption
<1>2. /\ \A j \in 1 .. l : SampledAt(j) \in 1 .. n /\ ix[j].offset = rs[SampledAt(j)].offset
      /\ n <= l * Interval
  BY <1>1 DEF SpacedOver
<1>3. l > 0 => (l - 1) * Interval < n
  BY <1>1, <1>2 DEF SampledAt
<1>4. n % Interval = 0 <=> n = l * Interval
  BY <1>1, <1>2, <1>3, LastMultiple
<1>5. \A j \in 1 .. l : SampledAt(j) \in 1 .. n + 1 /\ ix[j].offset = rs2[SampledAt(j)].offset
  BY <1>1, <1>2
<1> HIDE DEF n, l, rs2
<1>6. CASE n % Interval = 0
  <2>1. ix2 = Append(ix, entry)
    BY <1>6 DEF n
  <2>2. /\ DOMAIN ix2 = 1 .. l + 1 /\ Len(ix2) = l + 1 /\ ix2[l + 1] = entry
        /\ \A j \in 1 .. l : ix2[j] = ix[j]
    BY <2>1 DEF l
  <2>3. SampledAt(l + 1) = n + 1
    BY <1>1, <1>4, <1>6 DEF SampledAt
  <2>4. n + 1 <= (l + 1) * Interval
    <3>1. (l + 1) * Interval = l * Interval + Interval /\ l * Interval \in Nat
      BY <1>1
    <3> QED
      BY <1>1, <1>4, <1>6, <3>1
  <2>5. \A j \in 1 .. l + 1 :
          SampledAt(j) \in 1 .. n + 1 /\ ix2[j].offset = rs2[SampledAt(j)].offset
    <3> SUFFICES ASSUME NEW j \in 1 .. l + 1
                 PROVE  SampledAt(j) \in 1 .. n + 1 /\ ix2[j].offset = rs2[SampledAt(j)].offset
      OBVIOUS
    <3>1. CASE j = l + 1
      BY <1>1, <2>2, <2>3, <3>1
    <3>2. CASE j \in 1 .. l
      BY <1>5, <2>2, <3>2
    <3> QED
      BY <1>1, <3>1, <3>2
  <2> QED
    BY <1>1, <2>2, <2>4, <2>5 DEF SpacedOver, rs2
<1>7. CASE n % Interval # 0
  <2>1. ix2 = ix
    BY <1>7 DEF n
  <2>2. n + 1 <= l * Interval
    <3>1. l * Interval \in Nat
      BY <1>1
    <3> QED
      BY <1>1, <1>2, <1>4, <1>7, <3>1
  <2> QED
    BY <1>1, <1>5, <2>1, <2>2 DEF SpacedOver, rs2, l
<1> QED
  BY <1>6, <1>7

\* append keeps the parts of TableInv that need nothing of the others first.
LEMMA AppendKeeps ==
  ASSUME TableInv, NEW k \in Keys, NEW e \in Entry, append(k, e)
  PROVE  TableInv'
<1> USE DEF append, InOrder
<1> DEFINE rec == [key |-> k, entry |-> e, offset |-> file.size]
           ix  == [key |-> k, offset |-> current_offset]
           acc == [key |-> k, entry |-> e]
           n   == Len(file.records)
           m   == Len(appended)
<1>25. record_count < Word - 1 /\ Word \in Nat
  BY BloomAssumption
<1>1. RecordSize(k, e) \in Nat /\ RecordSize(k, e) > 0
  BY TableAssumption DEF RecordSize, Entry
<1>2. TypeOK
  BY DEF TableInv
<1>3. /\ file.records \in Seq(Record) /\ file.size \in Nat /\ n \in Nat
      /\ DOMAIN file.records = 1 .. n
      /\ m \in Nat /\ DOMAIN appended = 1 .. m
      /\ appended \in Seq(Appended)
      /\ k \in Nat /\ k > 0 /\ last_key \in Nat
      /\ current_offset \in Nat /\ record_count \in Nat
  <2>1. file.records \in Seq(Record) /\ file.size \in Nat
    BY <1>2 DEF TypeOK
  <2>2. appended \in Seq(Appended) /\ current_offset \in Nat /\ record_count \in Nat
    BY <1>2 DEF TypeOK
  <2>3. k \in Nat /\ k > 0 /\ last_key \in Nat
    BY <1>2, TableAssumption DEF TypeOK
  <2> QED
    BY <2>1, <2>2, <2>3
<1>4. /\ rec \in Record /\ ix \in IndexEntry
  BY <1>3 DEF Record, IndexEntry
<1>5. /\ ~file.whole /\ ~reader.open /\ ~reader'.open
      /\ current_offset # 0
  BY DEF TableInv, FinishedTrue
<1>6. good => /\ file'.records = Append(file.records, rec)
              /\ file'.size = file.size + RecordSize(k, e)
              /\ file'.whole = file.whole
              /\ file'.index = file.index
              /\ file'.bloom = file.bloom
              /\ file'.data_end = file.data_end
  BY <1>2 DEF TypeOK
<1>7. ~good => file' = file
  OBVIOUS
<1>8. /\ bloom_filter' \in Filter
      /\ bloom_filter'.bytes = bloom_filter.bytes
      /\ bloom_filter'.hashes = bloom_filter.hashes
      /\ bloom_filter'.ones \subseteq bloom_filter.ones \cup Bits(bloom_filter, k)
      /\ possiblyContains(bloom_filter', k)
      /\ \A other \in Keys :
           possiblyContains(bloom_filter, other) => possiblyContains(bloom_filter', other)
  BY <1>2, AddedIsContained DEF TypeOK
<1>9. TypeOK'
  <2>1. file' \in [records : Seq(Record), size : Nat, whole : BOOLEAN,
                   index : IndexBlock, bloom : BloomBlock, data_end : Nat]
    <3>1. Append(file.records, rec) \in Seq(Record) /\ file.size + RecordSize(k, e) \in Nat
      BY <1>1, <1>3, <1>4
    <3> QED
      BY <1>2, <3>1 DEF TypeOK
  <2>2. index' \in Seq(IndexEntry)
    BY <1>2, <1>4 DEF TypeOK
  <2>3. appended' \in Seq(Appended)
    BY <1>2 DEF TypeOK, Appended
  <2>4. current_offset' \in Nat /\ record_count' \in Nat
    BY <1>1, <1>3 DEF OffsetAfter
  <2> QED
    BY <1>2, <1>8, <2>1, <2>2, <2>3, <2>4 DEF TypeOK
<1>10. /\ appended' = Append(appended, acc)
       /\ DOMAIN appended' = 1 .. m + 1
       /\ Len(appended') = m + 1
       /\ appended'[m + 1] = acc
       /\ \A i \in 1 .. m : appended'[i] = appended[i]
  BY <1>3
<1>11. good => /\ DOMAIN file'.records = 1 .. n + 1
               /\ Len(file'.records) = n + 1
               /\ file'.records[n + 1] = rec
               /\ \A i \in 1 .. n : file'.records[i] = file.records[i]
  BY <1>3, <1>6
<1> HIDE DEF acc, rec
<1>0. /\ good' = good /\ last_key' = k /\ is_open' = is_open /\ reader' = reader
      /\ record_count' = record_count + 1
      /\ current_offset' = current_offset + RecordSize(k, e)
      /\ last_key = NoKey \/ k > last_key
  BY DEF OffsetAfter
<1>20. /\ \A i \in 1 .. n : /\ file.records[i].key \in Nat
                             /\ file.records[i].offset \in Nat
       /\ \A i \in 1 .. m : appended[i].key \in Keys
  <2>1. \A i \in 1 .. n : file.records[i] \in Record
    BY <1>3
  <2>2. \A i \in 1 .. m : appended[i] \in Appended
    BY <1>3
  <2> QED
    BY <2>1, <2>2, TableAssumption DEF Record, Appended
<1>12. acc.key = k /\ acc.entry = e /\ rec.key = k /\ rec.entry = e /\ rec.offset = file.size
  BY DEF acc, rec
<1> HIDE DEF append
<1>13. FileCurrent'
  <2>1. appended' # <<>> /\ last_key' # NoKey
    BY <1>0, <1>3, <1>10
  <2>2. record_count' = Len(appended')
    BY <1>0, <1>3, <1>10 DEF TableInv, FileCurrent
  <2>3. current_offset' # 0
    BY <1>0, <1>1, <1>3
  <2>4. ASSUME good
        PROVE  /\ Len(file'.records) = Len(appended')
               /\ \A i \in DOMAIN appended' :
                    /\ file'.records[i].key = appended'[i].key
                    /\ file'.records[i].entry = appended'[i].entry
               /\ file'.size = current_offset'
    <3>1. n = m /\ file.size = current_offset
      BY <1>5, <2>4 DEF TableInv, FileCurrent
    <3>2. \A i \in 1 .. m : /\ file.records[i].key = appended[i].key
                           /\ file.records[i].entry = appended[i].entry
      BY <1>3, <2>4 DEF TableInv, FileCurrent
    <3>3. file'.size = current_offset' /\ Len(file'.records) = Len(appended')
      BY <1>0, <1>6, <1>10, <1>11, <2>4, <3>1
    <3>4. ASSUME NEW i \in 1 .. m + 1
          PROVE  /\ file'.records[i].key = appended'[i].key
                 /\ file'.records[i].entry = appended'[i].entry
      <4>1. CASE i = m + 1
        BY <1>10, <1>11, <1>12, <2>4, <3>1, <4>1
      <4>2. CASE i \in 1 .. m
        BY <1>10, <1>11, <2>4, <3>1, <3>2, <4>2
      <4> QED
        BY <1>3, <4>1, <4>2
    <3> QED
      BY <1>10, <3>3, <3>4
  <2>5. good' = good
    BY <1>0
  <2> QED
    BY <2>1, <2>2, <2>3, <2>4, <2>5 DEF FileCurrent
<1>14. RecordsOrdered'
  <2>1. last_key' = k /\ last_key < k
    BY <1>0, <1>3
  <2>2. RecordsOrdered
    BY DEF TableInv
  <2>3. CASE good
    <3>1. file'.size = file.size + RecordSize(k, e) /\ file.size < file'.size
      BY <1>1, <1>3, <1>6, <2>3
    <3>3. file'.records # <<>> /\ good' = good
      BY <1>0, <1>3, <1>11, <2>3
    <3>4. \A i \in DOMAIN file'.records :
            /\ file'.records[i].key <= k
            /\ file'.records[i].offset < file'.size
            /\ file'.records[i].offset >= kSSTableHeaderSize
      <4> SUFFICES ASSUME NEW i \in 1 .. n + 1
                   PROVE  /\ file'.records[i].key <= k
                          /\ file'.records[i].offset < file'.size
                          /\ file'.records[i].offset >= kSSTableHeaderSize
        BY <1>11, <2>3
      <4>1. CASE i = n + 1
        BY <1>3, <1>11, <1>12, <2>2, <2>3, <3>1, <4>1 DEF RecordsOrdered
      <4>2. CASE i \in 1 .. n
        <5>1. /\ file'.records[i] = file.records[i]
              /\ file.records[i].key <= last_key
              /\ file.records[i].offset < file.size
              /\ file.records[i].offset >= kSSTableHeaderSize
          BY <1>3, <1>11, <2>2, <2>3, <4>2 DEF RecordsOrdered
        <5>2. file.records[i].key \in Nat /\ file.records[i].offset \in Nat
          BY <1>20, <4>2
        <5>3. file'.records[i].key <= k
          <6>1. last_key <= k
            BY <1>0, <1>3
          <6> QED
            BY ONLY <1>3, <5>1, <5>2, <6>1
        <5>4. file'.records[i].offset < file'.size
          BY ONLY <1>1, <1>3, <3>1, <5>1, <5>2
        <5> QED
          BY ONLY <5>1, <5>3, <5>4
      <4> QED
        BY <1>3, <4>1, <4>2
    <3>5. \A i, j \in DOMAIN file'.records :
            i < j => /\ file'.records[i].key < file'.records[j].key
                     /\ file'.records[i].offset < file'.records[j].offset
      <4> SUFFICES ASSUME NEW i \in 1 .. n + 1, NEW j \in 1 .. n + 1, i < j
                   PROVE  /\ file'.records[i].key < file'.records[j].key
                          /\ file'.records[i].offset < file'.records[j].offset
        BY <1>11, <2>3
      <4>1. i \in 1 .. n
        BY <1>3
      <4>2. /\ file'.records[i] = file.records[i]
            /\ file.records[i].key <= last_key
            /\ file.records[i].offset < file.size
        BY <1>3, <1>11, <2>2, <2>3, <4>1 DEF RecordsOrdered
      <4>3. CASE j = n + 1
        BY <1>3, <1>11, <1>12, <2>1, <1>20, <2>3, <4>1, <4>2, <4>3
      <4>4. CASE j \in 1 .. n
        BY <1>3, <1>11, <2>2, <2>3, <4>1, <4>2, <4>4 DEF RecordsOrdered
      <4> QED
        BY <1>3, <4>3, <4>4
    <3>6. file'.records[1].offset = kSSTableHeaderSize
      <4>1. CASE n = 0
        <5>1. file.records = <<>>
          BY <1>3, <4>1
        <5> QED
          BY <1>11, <1>12, <2>2, <2>3, <4>1, <5>1 DEF RecordsOrdered
      <4>2. CASE n # 0
        <5>1. file.records # <<>> /\ 1 \in 1 .. n
          BY <1>3, <4>2
        <5> QED
          BY <1>11, <2>2, <2>3, <5>1 DEF RecordsOrdered
      <4> QED
        BY <4>1, <4>2
    <3> QED
      <4>1. file'.size >= kSSTableHeaderSize
        BY <1>1, <1>3, <2>2, <3>1 DEF RecordsOrdered
      <4> QED
        BY <2>1, <3>3, <3>4, <3>5, <3>6, <4>1 DEF RecordsOrdered
  <2>4. CASE ~good
    <3>1. file' = file /\ good' = good
      BY <1>0, <1>7, <2>4
    <3>2. \A i \in DOMAIN file.records : file.records[i].key <= k
      BY <1>3, <1>20, <2>1, <2>2 DEF RecordsOrdered
    <3> QED
      BY <2>1, <2>2, <2>4, <3>1, <3>2 DEF RecordsOrdered
  <2> QED
    BY <2>3, <2>4
<1>15. IndexTrue'
  <2> SUFFICES ASSUME good PROVE IndexTrue'
    BY <1>0 DEF IndexTrue
  <2>1. /\ \A j \in DOMAIN index : \E i \in 1 .. n :
             /\ index[j].key = file.records[i].key
             /\ index[j].offset = file.records[i].offset
        /\ \A i, j \in DOMAIN index : i < j => index[i].key < index[j].key
        /\ index = <<>> <=> file.records = <<>>
    BY <1>3 DEF TableInv, IndexTrue
  <2>2. n = m /\ file.size = current_offset /\ record_count = m
    BY <1>5 DEF TableInv, FileCurrent
  <2>3. file'.records # <<>>
    BY <1>3, <1>11
  <2>4. CASE index' = index /\ index # <<>>
    <3>1. \A j \in DOMAIN index' : \E i \in DOMAIN file'.records :
             /\ index'[j].key = file'.records[i].key
             /\ index'[j].offset = file'.records[i].offset
      <4> TAKE j \in DOMAIN index'
      <4>1. PICK i \in 1 .. n : /\ index[j].key = file.records[i].key
                               /\ index[j].offset = file.records[i].offset
        BY <2>1, <2>4
      <4>2. i \in DOMAIN file'.records /\ file'.records[i] = file.records[i]
        BY <1>3, <1>11
      <4> QED
        BY <2>4, <4>1, <4>2
    <3> QED
      BY <2>1, <2>3, <2>4, <3>1 DEF IndexTrue
  <2>5. CASE index' = Append(index, ix)
    <3> DEFINE l == Len(index)
    <3>1. /\ l \in Nat /\ DOMAIN index = 1 .. l
          /\ DOMAIN index' = 1 .. l + 1 /\ index' # <<>>
          /\ index'[l + 1] = ix
          /\ \A j \in 1 .. l : index'[j] = index[j]
      <4>1. index \in Seq(IndexEntry)
        BY <1>2 DEF TypeOK
      <4> QED
        BY <2>5, <4>1
    <3>2. \A j \in DOMAIN index' : \E i \in DOMAIN file'.records :
             /\ index'[j].key = file'.records[i].key
             /\ index'[j].offset = file'.records[i].offset
      <4> SUFFICES ASSUME NEW j \in 1 .. l + 1
                   PROVE  \E i \in 1 .. n + 1 :
                            /\ index'[j].key = file'.records[i].key
                            /\ index'[j].offset = file'.records[i].offset
        BY <1>11, <3>1
      <4>1. CASE j = l + 1
        <5>1. index'[j].key = file'.records[n + 1].key
          BY <1>11, <1>12, <3>1, <4>1
        <5>2. index'[j].offset = file'.records[n + 1].offset
          BY <1>11, <1>12, <2>2, <3>1, <4>1
        <5>3. n + 1 \in 1 .. n + 1
          BY <1>3
        <5> QED
          BY <5>1, <5>2, <5>3
      <4>2. CASE j \in 1 .. l
        <5>1. PICK i \in 1 .. n : /\ index[j].key = file.records[i].key
                                 /\ index[j].offset = file.records[i].offset
          BY <2>1, <3>1, <4>2
        <5>2. i \in 1 .. n + 1 /\ file'.records[i] = file.records[i]
          BY <1>3, <1>11
        <5> QED
          BY <3>1, <4>2, <5>1, <5>2
      <4> QED
        BY <3>1, <4>1, <4>2
    <3>3. \A i, j \in DOMAIN index' : i < j => index'[i].key < index'[j].key
      <4> SUFFICES ASSUME NEW i \in 1 .. l + 1, NEW j \in 1 .. l + 1, i < j
                   PROVE  index'[i].key < index'[j].key
        BY <3>1
      <4>1. i \in 1 .. l
        BY <3>1
      <4>2. CASE j = l + 1
        <5>1. PICK r \in 1 .. n : index[i].key = file.records[r].key
          BY <2>1, <3>1, <4>1
        <5>2. file.records[r].key <= last_key /\ file.records[r].key \in Nat
          BY <1>3, <1>20 DEF TableInv, RecordsOrdered
        <5>3. last_key < k
          BY <1>0, <1>3
        <5>4. index'[j].key = k /\ index'[i].key = file.records[r].key
          BY <3>1, <4>1, <4>2, <5>1
        <5> QED
          BY <1>3, <5>2, <5>3, <5>4
      <4>3. CASE j \in 1 .. l
        BY <2>1, <3>1, <4>1, <4>3
      <4> QED
        BY <3>1, <4>2, <4>3
    <3> QED
      BY <2>3, <3>1, <3>2, <3>3 DEF IndexTrue
  <2>6. index = <<>> => index' = Append(index, ix)
    <3> SUFFICES ASSUME index = <<>> PROVE index' = Append(index, ix)
      OBVIOUS
    <3>1. m = 0
      BY <1>3, <2>1, <2>2
    <3>2. Sampled
      BY <2>2, <3>1, RemainderOfZero, TableAssumption DEF Sampled
    <3> QED
      BY <3>2 DEF append
  <2>7. index' \in {index, Append(index, ix)}
    BY DEF append
  <2> QED
    BY <2>4, <2>5, <2>6, <2>7
<1>16. FilterTrue'
  <2>1. FilterTrue
    BY DEF TableInv
  <2>2. bloom_filter \in Filter /\ bloom_filter.bytes > 0
    BY <1>2, <2>1, BloomAssumption DEF TypeOK, FilterTrue, Filter
  <2>3. Bits(bloom_filter, k) \subseteq 0 .. 8 * bloom_filter.bytes - 1
    BY <2>2, BitsInside
  <2>5. \A i \in DOMAIN appended' : possiblyContains(bloom_filter', appended'[i].key)
    <3> SUFFICES ASSUME NEW i \in 1 .. m + 1
                 PROVE  possiblyContains(bloom_filter', appended'[i].key)
      BY <1>10
    <3>1. CASE i = m + 1
      BY <1>8, <1>10, <1>12, <3>1
    <3>2. CASE i \in 1 .. m
      BY <1>3, <1>8, <1>10, <1>20, <2>1, <3>2 DEF FilterTrue
    <3> QED
      BY <1>3, <3>1, <3>2
  <2> QED
    BY <1>8, <2>1, <2>3, <2>5 DEF FilterTrue
<1>17. FinishedTrue'
  <2>1. current_offset' # 0 /\ ~file'.whole
    <3>1. ~file'.whole
      BY <1>5, <1>6, <1>7
    <3> QED
      BY <1>0, <1>1, <1>3, <3>1
  <2> QED
    BY <1>5, <2>1 DEF FinishedTrue
<1>18. IndexFits'
  <2>1. Len(index) \in Nat /\ Len(index) <= record_count
    BY <1>2 DEF TableInv, IndexFits, TypeOK
  <2>2. Len(index') \in {Len(index), Len(index) + 1}
    BY <1>2 DEF append, TypeOK
  <2> QED
    BY <1>0, <1>3, <1>25, <2>1, <2>2 DEF IndexFits
<1>19. IndexSpaced'
  <2>1. CASE good
    <3>1. /\ Len(file.records) = record_count
          /\ file.size = current_offset
      BY <1>5, <2>1 DEF TableInv, FileCurrent
    <3>2. index \in Seq(IndexEntry) /\ SpacedOver(index, file.records)
      BY <2>1 DEF TableInv, TypeOK, IndexSpaced, SpacedOver
    <3>3. index' = IF Len(file.records) % Interval = 0 THEN Append(index, ix) ELSE index
      BY <3>1 DEF append, Sampled
    <3>4. ix.offset = rec.offset
      BY <1>12, <3>1
    <3>5. SpacedOver(index', Append(file.records, rec))
      BY <1>3, <1>4, <3>2, <3>3, <3>4, SpacedAppend
    <3>6. file'.records = Append(file.records, rec)
      BY <1>6, <2>1
    <3> QED
      BY <3>5, <3>6 DEF IndexSpaced, SpacedOver
  <2>2. CASE ~good
    BY <1>0, <2>2 DEF IndexSpaced
  <2> QED
    BY <2>1, <2>2
<1> QED
  BY <1>9, <1>13, <1>14, <1>15, <1>16, <1>17, <1>18, <1>19 DEF TableInv

\* Losing the last records of a stream that went bad leaves a prefix of the file.
LEMMA LosingKeeps ==
  ASSUME TableInv, is_open, LastRecordsLost, good' = FALSE, is_open' \in BOOLEAN,
         UNCHANGED <<last_key, record_count, current_offset, index, bloom_filter, damaged, reader,
                     appended>>
  PROVE  TableInv'
<1>1. PICK n \in 0 .. Len(file.records) :
        file' = [file EXCEPT !.records = SubSeq(@, 1, n)]
  BY DEF LastRecordsLost
<1>2. TypeOK
  BY DEF TableInv
<1>3. file.records \in Seq(Record) /\ Len(file.records) \in Nat /\ n \in Nat
  BY <1>2 DEF TypeOK
<1>4. /\ SubSeq(file.records, 1, n) \in Seq(Record)
      /\ DOMAIN SubSeq(file.records, 1, n) = 1 .. n
      /\ 1 .. n \subseteq DOMAIN file.records
      /\ \A i \in 1 .. n : SubSeq(file.records, 1, n)[i] = file.records[i]
  BY <1>3
<1>5. /\ file'.records = SubSeq(file.records, 1, n)
      /\ file'.size = file.size
      /\ file'.whole = file.whole
      /\ file'.index = file.index
      /\ file'.bloom = file.bloom
      /\ file'.data_end = file.data_end
  BY <1>1, <1>2 DEF TypeOK
<1>6. ~file.whole /\ ~reader.open /\ current_offset # 0
  BY DEF TableInv, FinishedTrue
<1>7. TypeOK'
  <2>1. file' \in [records : Seq(Record), size : Nat, whole : BOOLEAN,
                   index : IndexBlock, bloom : BloomBlock, data_end : Nat]
    BY <1>1, <1>2, <1>4 DEF TypeOK
  <2> QED
    BY <1>2, <2>1 DEF TypeOK
<1>8. FileCurrent'
  BY DEF TableInv, FileCurrent
<1>9. RecordsOrdered'
  <2>1. file'.records # <<>> => file.records # <<>> /\ 1 \in 1 .. n
    BY <1>3, <1>4, <1>5
  <2>2. /\ DOMAIN file'.records = 1 .. n
        /\ \A i \in 1 .. n : i \in DOMAIN file.records /\ file'.records[i] = file.records[i]
    BY <1>4, <1>5
  <2>3. RecordsOrdered /\ file'.size = file.size /\ last_key' = last_key
    BY <1>5 DEF TableInv
  <2> QED
    BY <2>1, <2>2, <2>3 DEF RecordsOrdered
<1>10. IndexTrue' /\ IndexSpaced'
  BY DEF IndexTrue, IndexSpaced
<1>11. FilterTrue'
  BY DEF TableInv, FilterTrue
<1>12. FinishedTrue' /\ IndexFits'
  BY <1>5, <1>6 DEF TableInv, FinishedTrue, IndexFits
<1> QED
  BY <1>7, <1>8, <1>9, <1>10, <1>11, <1>12 DEF TableInv

LEMMA FinishKeeps ==
  ASSUME TableInv, finish
  PROVE  TableInv'
<1> USE DEF finish
<1>1. TypeOK
  BY DEF TableInv
<1>2. /\ file'.records = file.records
      /\ file'.size = file.size
      /\ file'.whole => /\ good
                       /\ file'.index = IndexWritten(index)
                       /\ file'.bloom = serialize(bloom_filter)
                       /\ file'.data_end = current_offset
  BY <1>1 DEF TypeOK, TableInv, FinishedTrue
<1>3. ~reader.open /\ current_offset # 0
  BY DEF TableInv, FinishedTrue
<1>4. serialize(bloom_filter) \in BloomBlock
  <2>1. /\ bloom_filter.bytes \in Nat /\ bloom_filter.hashes \in Nat
        /\ bloom_filter.ones \in SUBSET Nat
    BY <1>1 DEF TypeOK, Filter
  <2>2. bloom_filter.bytes % Word \in Nat /\ bloom_filter.hashes % Word \in Nat
    BY <2>1, BloomAssumption
  <2> QED
    BY <2>1, <2>2 DEF serialize, BloomBlock
<1>8. IndexWritten(index) \in IndexBlock
  <2>1. index \in Seq(IndexEntry) /\ Len(index) % Word \in Nat
    BY <1>1, BloomAssumption DEF TypeOK
  <2> QED
    BY <2>1 DEF IndexWritten, IndexBlock
<1>5. TypeOK'
  <2>1. file' \in [records : Seq(Record), size : Nat, whole : BOOLEAN,
                   index : IndexBlock, bloom : BloomBlock, data_end : Nat]
    BY <1>1, <1>4, <1>8 DEF TypeOK
  <2> QED
    BY <1>1, <2>1 DEF TypeOK
<1>6. FileCurrent' /\ RecordsOrdered' /\ IndexTrue' /\ IndexSpaced' /\ FilterTrue'
  BY <1>2 DEF TableInv, FileCurrent, RecordsOrdered, IndexTrue, IndexSpaced, FilterTrue
<1>7. FinishedTrue' /\ IndexFits'
  BY <1>2, <1>3 DEF TableInv, FinishedTrue, IndexFits
<1> QED
  BY <1>5, <1>6, <1>7 DEF TableInv

\* What a reader loads is what the writer had in memory.
LEMMA LoadedFilter ==
  ASSUME TableInv, file.whole
  PROVE  deserialize(file.bloom) = bloom_filter
<1>1. bloom_filter \in Filter /\ file.bloom = serialize(bloom_filter)
  BY DEF TableInv, TypeOK, FinishedTrue
<1>2. /\ bloom_filter.bytes < Word /\ bloom_filter.hashes < Word
      /\ bloom_filter.ones \subseteq 0 .. 8 * bloom_filter.bytes - 1
  BY BloomAssumption DEF TableInv, FilterTrue
<1> QED
  BY <1>1, <1>2, LoadedIsSame

LEMMA LoadedIndex ==
  ASSUME TableInv, file.whole
  PROVE  IndexRead(file.index) = index
<1>1. index \in Seq(IndexEntry) /\ file.index = IndexWritten(index)
  BY DEF TableInv, TypeOK, FinishedTrue
<1>2. Len(index) \in Nat /\ Len(index) < Word /\ Word \in Nat
  BY <1>1, BloomAssumption DEF TableInv, TypeOK, IndexFits
<1>3. Len(index) % Word = Len(index)
  BY <1>2
<1>4. SubSeq(index, 1, Len(index)) = index
  BY <1>1
<1> QED
  BY <1>1, <1>3, <1>4 DEF IndexWritten, IndexRead

LEMMA ReaderKeeps ==
  ASSUME TableInv, CloseReader \/ \E use \in BOOLEAN : OpenReader(use)
  PROVE  TableInv'
<1>1. TypeOK
  BY DEF TableInv
<1>2. UNCHANGED <<writer, file, damaged, appended>>
  BY DEF CloseReader, OpenReader
<1>3. FileCurrent' /\ RecordsOrdered' /\ IndexTrue' /\ IndexSpaced' /\ FilterTrue'
  BY <1>2 DEF TableInv, FileCurrent, RecordsOrdered, IndexTrue, IndexSpaced, FilterTrue, writer
<1>4. /\ reader' \in [open : BOOLEAN, use_bloom : BOOLEAN, index : Seq(IndexEntry),
                      filter : Filter, data_end : Nat]
      /\ reader'.open => /\ file.whole
                        /\ reader'.index = IndexRead(file.index)
                        /\ reader'.filter = deserialize(file.bloom)
                        /\ reader'.data_end = file.data_end
  <2>1. CASE CloseReader
    BY <1>1, <2>1 DEF CloseReader, TypeOK
  <2>2. ASSUME NEW use \in BOOLEAN, OpenReader(use), Loadable
        PROVE  <1>4!1 /\ <1>4!2
    <3>1. deserialize(file.bloom) \in Filter /\ IndexRead(file.index) \in Seq(IndexEntry)
      BY <1>1, <2>2, LoadedFilter, LoadedIndex DEF Loadable, TypeOK
    <3> QED
      BY <1>1, <2>2, <3>1 DEF OpenReader, Loadable, TypeOK
  <2>3. ASSUME NEW use \in BOOLEAN, OpenReader(use), ~Loadable
        PROVE  <1>4!1 /\ <1>4!2
    BY <1>1, <2>3 DEF OpenReader, TypeOK
  <2> QED
    BY <2>1, <2>2, <2>3
<1>5. TypeOK'
  BY <1>1, <1>2, <1>4 DEF TypeOK, writer
<1>6. FinishedTrue'
  BY <1>2, <1>4 DEF TableInv, FinishedTrue, writer
<1>7. IndexFits'
  BY <1>2 DEF TableInv, IndexFits, writer
<1> QED
  BY <1>3, <1>5, <1>6, <1>7 DEF TableInv

\* Damage, and steps that change nothing.
LEMMA OthersKeep ==
  ASSUME TableInv,
         UNCHANGED vars \/ \E part \in {OpeningPart} \cup DOMAIN file.records : Damage(part)
  PROVE  TableInv'
<1>1. TypeOK
  BY DEF TableInv
<1>2. UNCHANGED <<writer, file, reader, appended>>
  BY DEF vars, Damage
<1>3. damaged' \subseteq Nat
  <2>1. DOMAIN file.records \subseteq Nat
    <3>1. file.records \in Seq(Record)
      BY <1>1 DEF TypeOK
    <3> QED
      BY <3>1
  <2>2. damaged \subseteq Nat
    BY <1>1 DEF TypeOK
  <2>3. ASSUME NEW part \in {OpeningPart} \cup DOMAIN file.records, Damage(part)
        PROVE  damaged' \subseteq Nat
    <3>1. part \in Nat /\ damaged' = damaged \cup {part}
      BY <2>1, <2>3 DEF Damage, OpeningPart
    <3> QED
      BY <2>2, <3>1
  <2>4. CASE UNCHANGED vars
    BY <2>2, <2>4 DEF vars
  <2> QED
    BY <2>3, <2>4
<1>4. FileCurrent' /\ RecordsOrdered' /\ IndexTrue' /\ IndexSpaced' /\ FilterTrue'
      /\ FinishedTrue'
  BY <1>2 DEF TableInv, FileCurrent, RecordsOrdered, IndexTrue, IndexSpaced, FilterTrue,
          FinishedTrue, writer
<1>5. TypeOK'
  BY <1>1, <1>2, <1>3 DEF TypeOK, writer
<1>6. IndexFits'
  BY <1>2 DEF TableInv, IndexFits, writer
<1> QED
  BY <1>4, <1>5, <1>6 DEF TableInv

LEMMA StepKeeps == TableInv /\ [Next]_vars => TableInv'
<1> SUFFICES ASSUME TableInv, [Next]_vars PROVE TableInv'
  OBVIOUS
<1>1. ASSUME WriteFails \/ AbandonWriter PROVE TableInv'
  BY <1>1, LosingKeeps DEF WriteFails, AbandonWriter
<1> QED
  BY <1>1, OpenWriterKeeps, AppendKeeps, FinishKeeps, ReaderKeeps, OthersKeep DEF Next

\* Writer, file and reader belong together: the index, the filter and the sizes of a
\* file are those of the records that were appended to it, whatever write is lost on
\* the way, and a reader has what its file had when it was opened (sstable.cpp:198-482).
THEOREM TableInvariant == Spec => []TableInv
  BY InitTable, StepKeeps, PTL DEF Spec

-----------------------------------------------------------------------------
(* What follows from it.                                                   *)

\* The filter of a reader is the writer's.
LEMMA ReaderFilter ==
  ASSUME TableInv, reader.open
  PROVE  reader.filter = bloom_filter
  BY LoadedFilter DEF TableInv, FinishedTrue

LEMMA NoFalseNegativesHolds == TableInv => NoFalseNegatives
<1> SUFFICES ASSUME TableInv PROVE NoFalseNegatives
  OBVIOUS
<1> QED
  BY ReaderFilter DEF TableInv, FilterTrue, NoFalseNegatives

\* NoFalseNegatives, for every pair of hash functions, size of the filter and
\* number of hashes (bloom_filter.h:20).
THEOREM FilterForgetsNothing == Spec => []NoFalseNegatives
  BY TableInvariant, NoFalseNegativesHolds, PTL

LEMMA EmptySequence ==
  ASSUME NEW S, NEW s \in Seq(S)
  PROVE  /\ DOMAIN s = {} <=> s = <<>>
         /\ 1 \in DOMAIN s => s # <<>>
<1>1. s # <<>> => Len(s) # 0
  OBVIOUS
<1>2. DOMAIN s = 1 .. Len(s) /\ Len(s) \in Nat
  OBVIOUS
<1> QED
  BY <1>1, <1>2

\* What an open reader's lookups run over, in terms of the records alone.
LEMMA OpenTable ==
  ASSUME TableInv, reader.open
  PROVE  /\ DOMAIN appended = DOMAIN file.records
         /\ \E n \in Nat : DOMAIN file.records = 1 .. n
         /\ \A i \in DOMAIN file.records :
              /\ file.records[i].key \in Nat
              /\ file.records[i].offset \in Nat
              /\ kSSTableHeaderSize <= file.records[i].offset
              /\ file.records[i].offset < reader.data_end
              /\ file.records[i].key = appended[i].key
              /\ file.records[i].entry = appended[i].entry
              /\ file.records[i].entry \in Entry
         /\ \A i, j \in DOMAIN file.records :
              i < j => /\ file.records[i].key < file.records[j].key
                       /\ file.records[i].offset < file.records[j].offset
         /\ \E l \in Nat : DOMAIN reader.index = 1 .. l
         /\ \A j \in DOMAIN reader.index :
              /\ reader.index[j].key \in Nat
              /\ \E i \in DOMAIN file.records :
                   /\ reader.index[j].key = file.records[i].key
                   /\ reader.index[j].offset = file.records[i].offset
         /\ \A i, j \in DOMAIN reader.index :
              i < j => reader.index[i].key < reader.index[j].key
         /\ 1 \in DOMAIN file.records => file.records[1].offset = kSSTableHeaderSize
         /\ DOMAIN reader.index = {} => DOMAIN file.records = {}
         /\ DOMAIN file.records = {} => reader.data_end = kSSTableHeaderSize
<1>1. /\ file.records \in Seq(Record) /\ appended \in Seq(Appended)
      /\ index \in Seq(IndexEntry)
  BY DEF TableInv, TypeOK
<1>2. /\ good /\ reader.index = index /\ current_offset # 0
      /\ reader.data_end = current_offset
  BY LoadedIndex DEF TableInv, FinishedTrue
<1>3. /\ Len(file.records) = Len(appended) /\ file.size = reader.data_end
      /\ \A i \in DOMAIN appended : /\ file.records[i].key = appended[i].key
                                    /\ file.records[i].entry = appended[i].entry
  BY <1>2 DEF TableInv, FileCurrent
<1>4. /\ DOMAIN file.records = 1 .. Len(file.records) /\ Len(file.records) \in Nat
      /\ DOMAIN appended = 1 .. Len(appended)
      /\ DOMAIN index = 1 .. Len(index) /\ Len(index) \in Nat
  BY <1>1
<1>5. /\ \A i \in DOMAIN file.records : file.records[i] \in Record
      /\ \A j \in DOMAIN index : index[j] \in IndexEntry
  BY <1>1, <1>4
<1>6. /\ \A i \in DOMAIN file.records : /\ file.records[i].key \in Nat
                                        /\ file.records[i].offset \in Nat
                                        /\ file.records[i].entry \in Entry
      /\ \A j \in DOMAIN index : index[j].key \in Nat
  BY <1>5, TableAssumption DEF Record, IndexEntry
<1>7. /\ 1 \in DOMAIN file.records => file.records # <<>>
      /\ DOMAIN file.records = {} <=> file.records = <<>>
      /\ DOMAIN index = {} <=> index = <<>>
  BY <1>1, EmptySequence
<1>8. RecordsOrdered /\ IndexTrue
  BY DEF TableInv
<1> QED
  BY <1>2, <1>3, <1>4, <1>6, <1>7, <1>8 DEF RecordsOrdered, IndexTrue

\* The index sends a lookup to the range the key would be in, at a record's start.
LEMMA RangeFound ==
  ASSUME TableInv, reader.open, NEW k \in Keys,
         NEW start, start = RangeStart(reader.index, k),
         NEW end, end = RangeEnd(reader.index, k, reader.data_end)
  PROVE  /\ ~Misaligned(start, end)
         /\ \A p \in DOMAIN file.records :
              file.records[p].key = k => p \in InRange(start, end)
<1> DEFINE ix    == reader.index
           above == EntriesAbove(ix, k)
           upto  == DOMAIN ix \ above
<1>1. PICK n \in Nat : DOMAIN file.records = 1 .. n
  BY OpenTable
<1>2. PICK l \in Nat : DOMAIN ix = 1 .. l
  BY OpenTable
<1>3. k \in Nat
  BY TableAssumption
<1>4. /\ \A j \in DOMAIN ix : ix[j].key \in Nat
      /\ \A j \in above : k < ix[j].key
      /\ \A j \in upto : ix[j].key <= k
  BY <1>3, OpenTable DEF EntriesAbove
<1>12. \A j \in DOMAIN ix : \E i \in 1 .. n : /\ ix[j].key = file.records[i].key
                                            /\ ix[j].offset = file.records[i].offset
  BY <1>1, OpenTable
<1>5. /\ above \in SUBSET Nat /\ upto \in SUBSET (1 .. l)
  BY <1>2 DEF EntriesAbove
<1>6. upto # {} => Max(upto) \in upto
  BY <1>5, MaxExists
<1>7. above # {} => Min(above) \in above
  BY <1>5, MinExists
<1>8. above \subseteq DOMAIN ix
  BY DEF EntriesAbove
<1>9. /\ start = IF upto = {} THEN kSSTableHeaderSize ELSE ix[Max(upto)].offset
      /\ end = IF above = {} THEN reader.data_end ELSE ix[Min(above)].offset
  BY DEF RangeStart, RangeEnd
<1> HIDE DEF ix, above, upto
<1>10. ~Misaligned(start, end)
  <2>1. CASE upto # {}
    <3>1. \E i \in DOMAIN file.records : start = file.records[i].offset
      <4>1. Max(upto) \in DOMAIN ix
        BY <1>6, <2>1 DEF upto
      <4>2. PICK i \in 1 .. n : ix[Max(upto)].offset = file.records[i].offset
        BY <1>12, <4>1
      <4> QED
        BY <1>1, <1>9, <2>1, <4>2
    <3> QED
      BY <3>1 DEF Misaligned
  <2>2. CASE upto = {} /\ DOMAIN ix # {}
    <3>1. \E i \in 1 .. n : TRUE
      BY <1>12, <2>2
    <3>2. 1 \in DOMAIN file.records
      BY <1>1, <3>1
    <3>3. file.records[1].offset = start
      BY <1>9, <2>2, <3>2, OpenTable
    <3> QED
      BY <3>2, <3>3 DEF Misaligned
  <2>3. CASE upto = {} /\ DOMAIN ix = {}
    <3>1. start = kSSTableHeaderSize /\ above = {}
      BY <1>8, <1>9, <2>3
    <3>2. end = kSSTableHeaderSize
      BY <1>9, <2>3, <3>1, OpenTable DEF ix
    <3> QED
      BY <3>1, <3>2 DEF Misaligned
  <2> QED
    BY <2>1, <2>2, <2>3
<1>11. ASSUME NEW p \in DOMAIN file.records, file.records[p].key = k
       PROVE  p \in InRange(start, end)
  <2>1. /\ p \in Nat
        /\ file.records[p].offset \in Nat
        /\ kSSTableHeaderSize <= file.records[p].offset
        /\ file.records[p].offset < reader.data_end
    BY <1>1, <1>11, OpenTable
  <2>2. /\ \A i \in 1 .. n : file.records[i].offset \in Nat
        /\ \A i \in 1 .. n : file.records[i].key <= k =>
             file.records[i].offset <= file.records[p].offset
        /\ \A i \in 1 .. n : file.records[i].key > k =>
             file.records[i].offset > file.records[p].offset
    <3> SUFFICES ASSUME NEW i \in 1 .. n
                 PROVE  /\ file.records[i].key \in Nat
                        /\ file.records[i].offset \in Nat
                        /\ file.records[i].key <= k =>
                             file.records[i].offset <= file.records[p].offset
                        /\ file.records[i].key > k =>
                             file.records[i].offset > file.records[p].offset
      OBVIOUS
    <3>1. /\ file.records[i].key \in Nat /\ file.records[i].offset \in Nat
          /\ i < p => /\ file.records[i].key < file.records[p].key
                      /\ file.records[i].offset < file.records[p].offset
          /\ p < i => /\ file.records[p].key < file.records[i].key
                      /\ file.records[p].offset < file.records[i].offset
      BY <1>1, OpenTable
    <3>2. i < p \/ i = p \/ p < i
      BY <1>1, <2>1
    <3> QED
      BY <1>3, <1>11, <2>1, <3>1, <3>2
  <2>3. start <= file.records[p].offset
    <3>1. CASE upto = {}
      BY <1>9, <2>1, <3>1
    <3>2. CASE upto # {}
      <4>1. Max(upto) \in DOMAIN ix /\ ix[Max(upto)].key <= k
        <5>1. PICK m \in upto : m = Max(upto)
          BY <1>6, <3>2
        <5>2. m \in DOMAIN ix /\ ix[m].key <= k
          BY <1>4 DEF upto
        <5> QED
          BY <5>1, <5>2
      <4>2. PICK i \in 1 .. n : /\ ix[Max(upto)].key = file.records[i].key
                               /\ ix[Max(upto)].offset = file.records[i].offset
        BY <1>12, <4>1
      <4>3. file.records[i].offset <= file.records[p].offset
        <5>1. file.records[i].key <= k
          BY <4>1, <4>2
        <5> QED
          BY <2>2, <5>1
      <4> QED
        BY <1>9, <3>2, <4>2, <4>3
    <3> QED
      BY <3>1, <3>2
  <2>4. file.records[p].offset < end
    <3>1. CASE above = {}
      BY <1>9, <2>1, <3>1
    <3>2. CASE above # {}
      <4>1. Min(above) \in DOMAIN ix /\ ix[Min(above)].key > k
        <5>1. PICK m \in above : m = Min(above)
          BY <1>7, <3>2
        <5>2. m \in DOMAIN ix /\ k < ix[m].key /\ ix[m].key \in Nat
          BY <1>4, <1>8
        <5> QED
          BY <1>3, <5>1, <5>2
      <4>2. PICK i \in 1 .. n : /\ ix[Min(above)].key = file.records[i].key
                               /\ ix[Min(above)].offset = file.records[i].offset
        BY <1>12, <4>1
      <4>3. file.records[i].offset > file.records[p].offset
        <5>1. file.records[i].key > k
          BY <4>1, <4>2
        <5> QED
          BY <2>2, <5>1
      <4> QED
        BY <1>9, <2>1, <2>2, <3>2, <4>2, <4>3
    <3> QED
      BY <3>1, <3>2
  <2> QED
    BY <2>3, <2>4 DEF InRange
<1> QED
  BY <1>10, <1>11

\* A lookup through the index gives what was appended, or meets a damaged record.
LEMMA LookupTrue ==
  ASSUME TableInv, reader.open, NEW k \in Keys
  PROVE  Lookup(k) = Held(k) \/ (Lookup(k) = Unreadable /\ damaged # {})
<1> DEFINE start == RangeStart(reader.index, k)
           end   == RangeEnd(reader.index, k, reader.data_end)
           stops == Stops(start, end, k)
           recs  == file.records
<1>1. PICK n \in Nat : DOMAIN recs = 1 .. n
  BY OpenTable
<1>2. /\ ~Misaligned(start, end)
      /\ \A p \in DOMAIN recs : recs[p].key = k => p \in InRange(start, end)
  BY RangeFound
<1>3. /\ stops \in SUBSET Nat
      /\ \A i \in stops : i \in DOMAIN recs /\ (i \in damaged \/ recs[i].key >= k)
  BY <1>1 DEF Stops, InRange
<1>4. stops # {} => Min(stops) \in stops /\ \A y \in stops : Min(stops) <= y
  <2> HIDE DEF stops
  <2> QED
    BY <1>3, MinExists
<1>5. Lookup(k) = IF stops = {} THEN Absent
                  ELSE IF Min(stops) \in damaged THEN Unreadable
                  ELSE IF recs[Min(stops)].key = k THEN recs[Min(stops)].entry
                  ELSE Absent
  <2>1. Lookup(k) = scanRange(start, end, k)
    BY DEF Lookup
  <2>2. ~Misaligned(start, end)
    BY <1>2
  <2> HIDE DEF start, end
  <2> QED
    BY <2>1, <2>2 DEF scanRange, stops
<1>6. \A p \in DOMAIN recs : recs[p].key = k => p \in stops
  <2> TAKE p \in DOMAIN recs
  <2>1. k \in Nat
    BY TableAssumption
  <2> QED
    BY <1>2, <2>1 DEF Stops
<1> HIDE DEF start, end, stops
<1>7. CASE \E p \in DOMAIN recs : recs[p].key = k
  <2>1. PICK p \in DOMAIN recs : recs[p].key = k
    BY <1>7
  <2>2. \A i \in DOMAIN recs : i < p => recs[i].key < k
    BY <2>1, OpenTable
  <2>3. /\ Min(stops) \in DOMAIN recs /\ Min(stops) <= p
        /\ Min(stops) \in damaged \/ recs[Min(stops)].key >= k
    BY <1>3, <1>4, <1>6, <2>1
  <2>4. Min(stops) \in damaged \/ Min(stops) = p
    <3>1. Min(stops) < p => recs[Min(stops)].key < k /\ recs[Min(stops)].key \in Nat
      BY <2>2, <2>3, OpenTable
    <3>2. k \in Nat /\ p \in Nat /\ Min(stops) \in Nat
      BY <1>1, <2>3, TableAssumption
    <3> QED
      BY <2>3, <3>1, <3>2
  <2>5. Held(k) = recs[p].entry
    <3>1. \A i \in DOMAIN recs : recs[i].key = k => i = p
      <4> TAKE i \in DOMAIN recs
      <4>1. i \in Nat /\ p \in Nat /\ k \in Nat
        BY <1>1, TableAssumption
      <4>2. i < p \/ i = p \/ p < i
        BY <4>1
      <4>3. p < i => recs[p].key < recs[i].key
        BY OpenTable
      <4> QED
        BY <2>1, <2>2, <4>1, <4>2, <4>3
    <3>2. {i \in DOMAIN appended : appended[i].key = k} = {p}
      BY <2>1, <3>1, OpenTable
    <3>3. Min({p}) = p
      BY <1>1, MinIs
    <3>4. appended[p].entry = recs[p].entry
      BY OpenTable
    <3> QED
      BY <3>2, <3>3, <3>4 DEF Held
  <2> QED
    BY <1>5, <1>6, <2>1, <2>3, <2>4, <2>5
<1>8. CASE \A p \in DOMAIN recs : recs[p].key # k
  <2>1. Held(k) = Absent
    <3>1. {i \in DOMAIN appended : appended[i].key = k} = {}
      BY <1>8, OpenTable
    <3> QED
      BY <3>1 DEF Held
  <2> QED
    BY <1>3, <1>4, <1>5, <1>8, <2>1
<1> QED
  BY <1>7, <1>8

LEMMA TruthfulGetHolds == TableInv => TruthfulGet
<1> SUFFICES ASSUME TableInv, reader.open, NEW k \in Keys
             PROVE  get(k) = Held(k) \/ (get(k) = Unreadable /\ damaged # {})
  BY DEF TruthfulGet
<1>1. CASE reader.use_bloom /\ ~possiblyContains(reader.filter, k)
  <2>1. \A i \in DOMAIN appended : appended[i].key # k
    BY <1>1, NoFalseNegativesHolds DEF NoFalseNegatives
  <2>2. {i \in DOMAIN appended : appended[i].key = k} = {}
    BY <2>1
  <2> QED
    BY <1>1, <2>2 DEF get, Held
<1>2. CASE ~(reader.use_bloom /\ ~possiblyContains(reader.filter, k))
  BY <1>2, LookupTrue DEF get
<1> QED
  BY <1>1, <1>2

\* TruthfulGet, for every interval of the index, every filter and all sizes
\* (sstable.cpp:484-577).
THEOREM LookupsTruthful == Spec => []TruthfulGet
  BY TableInvariant, TruthfulGetHolds, PTL

-----------------------------------------------------------------------------
(* What a scan reads.                                                      *)

\* A range that the index gives reaches over the records of one entry alone.
LEMMA RangeWithin ==
  ASSUME TableInv, reader.open, NEW k \in Keys
  PROVE  \E first \in Nat :
           InRange(RangeStart(reader.index, k), RangeEnd(reader.index, k, reader.data_end))
             \subseteq first + 1 .. first + Interval
<1> DEFINE ix    == reader.index
           rs    == file.records
           above == EntriesAbove(ix, k)
           upto  == DOMAIN ix \ above
           start == RangeStart(ix, k)
           end   == RangeEnd(ix, k, reader.data_end)
<1>1. PICK n \in Nat : DOMAIN rs = 1 .. n
  BY OpenTable
<1>2. PICK l \in Nat : DOMAIN ix = 1 .. l
  BY OpenTable
<1>3. /\ \A i \in 1 .. n : rs[i].offset \in Nat /\ kSSTableHeaderSize <= rs[i].offset
      /\ \A i, j \in 1 .. n : i < j => rs[i].offset < rs[j].offset
      /\ Interval \in Nat \ {0} /\ k \in Nat
  BY <1>1, OpenTable, TableAssumption
<1>4. /\ \A j \in 1 .. l : SampledAt(j) \in 1 .. n /\ ix[j].offset = rs[SampledAt(j)].offset
      /\ n <= l * Interval
  <2>1. good /\ ix = index
    BY LoadedIndex DEF TableInv, FinishedTrue
  <2>2. rs \in Seq(Record) /\ index \in Seq(IndexEntry) /\ IndexSpaced
    BY DEF TableInv, TypeOK
  <2>3. Len(rs) = n /\ Len(index) = l
    BY <1>1, <1>2, <2>1, <2>2
  <2> QED
    BY <1>1, <1>2, <2>1, <2>2, <2>3 DEF IndexSpaced
<1>5. /\ \A j \in 1 .. l : ix[j].key \in Nat
      /\ \A i, j \in 1 .. l : i < j => ix[i].key < ix[j].key
  BY <1>2, OpenTable
<1>6. /\ above \in SUBSET (1 .. l) /\ upto \in SUBSET (1 .. l)
      /\ \A j \in 1 .. l : j \in above <=> k < ix[j].key
      /\ \A j \in 1 .. l : j \in upto <=> ~(k < ix[j].key)
  BY <1>2 DEF EntriesAbove
<1>7. /\ start = IF upto = {} THEN kSSTableHeaderSize ELSE ix[Max(upto)].offset
      /\ end = IF above = {} THEN reader.data_end ELSE ix[Min(above)].offset
  BY DEF RangeStart, RangeEnd
<1>8. InRange(start, end) = {i \in 1 .. n : start <= rs[i].offset /\ rs[i].offset < end}
  BY <1>1 DEF InRange
<1> HIDE DEF ix, rs, above, upto, start, end
<1>9. \A m \in 0 .. l :
        /\ m > 0 => start = ix[m].offset
        /\ m < l => \E j \in 1 .. m + 1 : end = ix[j].offset
        => \E first \in Nat : InRange(start, end) \subseteq first + 1 .. first + Interval
  <2>5. SUFFICES ASSUME NEW m \in 0 .. l,
                        m > 0 => start = ix[m].offset,
                        m < l => \E j \in 1 .. m + 1 : end = ix[j].offset
                 PROVE  \E first \in Nat :
                          InRange(start, end) \subseteq first + 1 .. first + Interval
    OBVIOUS
  <2>1. m * Interval \in Nat /\ (m > 0 => (m - 1) * Interval \in Nat)
    BY <1>3, <2>5
  <2>2. ASSUME NEW i \in 1 .. n, start <= rs[i].offset, rs[i].offset < end
        PROVE  i <= m * Interval /\ (m > 0 => i >= (m - 1) * Interval + 1)
    <3>2. m > 0 => i >= (m - 1) * Interval + 1
      <4> SUFFICES ASSUME m > 0 PROVE i >= (m - 1) * Interval + 1
        OBVIOUS
      <4>1. m \in 1 .. l /\ SampledAt(m) \in 1 .. n /\ start = rs[SampledAt(m)].offset
        BY <1>4, <2>5
      <4>2. i >= SampledAt(m)
        BY <1>3, <2>2, <4>1
      <4> QED
        BY <4>2 DEF SampledAt
    <3>1. CASE m = l
      <4>1. i \in Nat /\ i <= n /\ n <= m * Interval
        BY <1>4, <3>1
      <4> QED
        BY <2>1, <3>2, <4>1
    <3>3. CASE m < l
      <4>1. PICK j \in 1 .. m + 1 : end = ix[j].offset
        BY <2>5, <3>3
      <4>2. j \in 1 .. l /\ SampledAt(j) \in 1 .. n /\ end = rs[SampledAt(j)].offset
        BY <1>4, <2>5, <3>3, <4>1
      <4>3. i < SampledAt(j)
        BY <1>3, <2>2, <4>2
      <4>4. (j - 1) * Interval <= m * Interval
        <5>1. PICK d \in Nat : m = j - 1 + d
          <6>1. m - (j - 1) \in Nat /\ m = j - 1 + (m - (j - 1))
            BY <2>5, <4>1
          <6> QED
            BY <6>1
        <5>2. m * Interval = (j - 1) * Interval + d * Interval
          BY <1>3, <5>1
        <5>3. d * Interval \in Nat /\ (j - 1) * Interval \in Nat
          BY <1>3
        <5> QED
          BY <5>2, <5>3
      <4> QED
        BY <1>3, <2>1, <3>2, <4>3, <4>4 DEF SampledAt
    <3> QED
      BY <2>5, <3>1, <3>2, <3>3
  <2>3. CASE m > 0
    <3>1. m * Interval = (m - 1) * Interval + Interval
      BY <1>3, <2>5
    <3>2. InRange(start, end) \subseteq (m - 1) * Interval + 1 .. (m - 1) * Interval + Interval
      BY <1>3, <1>8, <2>1, <2>2, <2>3, <3>1
    <3> QED
      BY <2>1, <2>3, <3>2
  <2>4. CASE m = 0
    <3>1. InRange(start, end) \subseteq 0 + 1 .. 0 + Interval
      BY <1>3, <1>8, <2>2, <2>4
    <3> QED
      BY <3>1
  <2> QED
    BY <2>5, <2>3, <2>4
<1>10. ASSUME upto = {}
       PROVE  \E first \in Nat : InRange(start, end) \subseteq first + 1 .. first + Interval
  <2>1. l > 0 => \E j \in 1 .. 0 + 1 : end = ix[j].offset
    <3> SUFFICES ASSUME l > 0 PROVE end = ix[1].offset
      OBVIOUS
    <3>1. 1 \in above
      BY <1>6, <1>10
    <3>2. Min(above) \in above /\ \A y \in above : Min(above) <= y
      BY <1>6, <3>1, MinExists
    <3>3. PICK j \in 1 .. l : j = Min(above) /\ j <= 1
      BY <1>6, <3>1, <3>2
    <3> QED
      BY <1>7, <3>1, <3>3
  <2>2. 0 \in 0 .. l /\ (0 > 0 => start = ix[0].offset) /\ (0 < l <=> l > 0)
    OBVIOUS
  <2> QED
    BY ONLY <1>9, <2>1, <2>2
<1>11. ASSUME upto # {}
       PROVE  \E first \in Nat : InRange(start, end) \subseteq first + 1 .. first + Interval
  <2>1. PICK m \in 1 .. l : m = Max(upto) /\ m \in upto /\ \A y \in upto : y <= m
    BY <1>6, <1>11, MaxExists
  <2>2. start = ix[m].offset
    BY <1>7, <1>11, <2>1
  <2>3. m < l => \E j \in 1 .. m + 1 : end = ix[j].offset
    <3> SUFFICES ASSUME m < l PROVE \E j \in 1 .. m + 1 : end = ix[j].offset
      OBVIOUS
    <3>1. m + 1 \in above
      BY <1>6, <2>1
    <3>4. Min(above) \in above /\ \A y \in above : Min(above) <= y
      BY <1>6, <3>1, MinExists
    <3>2. PICK j \in 1 .. l : j = Min(above) /\ j <= m + 1
      BY <1>6, <3>1, <3>4
    <3>3. end = ix[j].offset
      BY <1>7, <3>1, <3>2
    <3> QED
      BY <3>2, <3>3
  <2>4. m \in 0 .. l /\ (m > 0 => start = ix[m].offset)
    BY <2>1, <2>2
  <2> QED
    BY ONLY <1>9, <2>3, <2>4
<1> QED
  BY <1>10, <1>11 DEF start, end, ix

LEMMA ScanBoundedHolds == TableInv => ScanBounded
<1> SUFFICES ASSUME TableInv, reader.open, NEW k \in Keys,
                    NEW S, S = InRange(RangeStart(reader.index, k),
                                       RangeEnd(reader.index, k, reader.data_end))
             PROVE  Cardinality(S) <= Interval
  BY DEF ScanBounded
<1>1. PICK first \in Nat : S \subseteq first + 1 .. first + Interval
  BY RangeWithin
<1>2. Interval \in Nat
  BY TableAssumption
<1>3. IsFiniteSet(first + 1 .. first + Interval)
      /\ Cardinality(first + 1 .. first + Interval) = Interval
  BY <1>2, FS_Interval
<1>4. Cardinality(S) \in Nat /\ Cardinality(S) <= Cardinality(first + 1 .. first + Interval)
  BY <1>1, <1>3, FS_Subset, FS_CardinalityType
<1> QED
  BY <1>3, <1>4

\* A lookup reads no more than one interval of the index, whatever the keys, their
\* number and the sizes of their records (sstable.cpp:236-239, 484-577).
THEOREM ScanIsBounded == Spec => []ScanBounded
  BY TableInvariant, ScanBoundedHolds, PTL

LEMMA OpensOnlyWholeHolds == TableInv => OpensOnlyWhole
<1> SUFFICES ASSUME TableInv, reader.open
             PROVE  readAllRecords = appended \/ (readAllRecords = Unreadable /\ damaged # {})
  BY DEF OpensOnlyWhole
<1>1. CASE damaged \cap DOMAIN file.records # {}
  BY <1>1 DEF readAllRecords
<1>2. CASE damaged \cap DOMAIN file.records = {}
  <2> DEFINE rs == [i \in DOMAIN file.records |->
                      [key |-> file.records[i].key, entry |-> file.records[i].entry]]
  <2>1. appended \in Seq(Appended)
    BY DEF TableInv, TypeOK
  <2>2. /\ appended = [i \in DOMAIN appended |-> appended[i]]
        /\ \A i \in DOMAIN appended : appended[i] \in Appended
    BY <2>1
  <2>3. /\ DOMAIN appended = DOMAIN file.records
        /\ \A i \in DOMAIN appended : /\ file.records[i].key = appended[i].key
                                      /\ file.records[i].entry = appended[i].entry
    BY OpenTable
  <2>4. \A i \in DOMAIN appended :
          appended[i] = [key |-> appended[i].key, entry |-> appended[i].entry]
    BY <2>2 DEF Appended
  <2>5. rs = appended
    BY <2>2, <2>3, <2>4
  <2> QED
    BY <1>2, <2>5 DEF readAllRecords
<1> QED
  BY <1>1, <1>2

\* A file with an entry missing never opens: a failed write, which neither append nor
\* finish reports, shows when the file is opened (sstable.cpp:389-482, 579-628).
THEOREM OpensOnlyWholeFiles == Spec => []OpensOnlyWhole
  BY TableInvariant, OpensOnlyWholeHolds, PTL
=============================================================================
