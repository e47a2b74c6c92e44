---------------------------- MODULE BloomFilter ----------------------------
(***************************************************************************)
(* The Bloom filter of a table (src/src/bloom_filter.cpp,                  *)
(* src/include/lsm/bloom_filter.h).  A filter is a record: bytes is the    *)
(* length of bits_, ones the positions of the bits that are set, and       *)
(* hashes is num_hashes_.  The two hash functions are constants: nothing   *)
(* here depends on what they compute, only on their giving the same answer *)
(* for a key when it is added and when it is looked up.                    *)
(***************************************************************************)
EXTENDS Integers

CONSTANTS
  Keys,
  Hash1,        \* hash1: FNV-1a
  Hash2,        \* hash2: Jenkins one-at-a-time, never 0
  BitsPerKey,   \* Options::bloom_bits_per_key
  NumHashes,    \* Options::bloom_num_hashes
  Word          \* 2^32: lengths are stored in four bytes

ASSUME BloomAssumption ==
  /\ Word \in Nat /\ Word > 80
  /\ Hash1 \in [Keys -> 0 .. Word - 1]
  /\ Hash2 \in [Keys -> 1 .. Word - 1]
  /\ BitsPerKey \in Nat
  /\ NumHashes \in 0 .. Word - 1

Filter == [bytes : Nat, hashes : Nat, ones : SUBSET Nat]

\* BitsPerKey bits for each key, of 64 keys when none are expected, and never
\* fewer than 64, rounded up to whole bytes.
NewFilter(num_keys) ==
  LET wanted == (IF num_keys = 0 THEN 64 ELSE num_keys) * BitsPerKey
      total  == IF wanted < 64 THEN 64 ELSE wanted
  IN  [bytes |-> (total + 7) \div 8, hashes |-> NumHashes, ones |-> {}]

\* The member a filter is made of before anything is loaded into it.
DefaultFilter == [bytes |-> 80, hashes |-> 7, ones |-> {}]

\* The bits of a key.  The sum is taken in 64 bits and does not wrap around.
Bits(f, k) == {(Hash1[k] + i * Hash2[k]) % (8 * f.bytes) : i \in 0 .. f.hashes - 1}

Added(f, k) == IF f.bytes = 0 THEN f ELSE [f EXCEPT !.ones = @ \cup Bits(f, k)]

possiblyContains(f, k) == f.bytes = 0 \/ Bits(f, k) \subseteq f.ones

\* The block in the file: two lengths of four bytes each, then the bits.
serialize(f) ==
  [num_hashes |-> f.hashes % Word, num_bytes |-> f.bytes % Word, data |-> f.ones]

\* Mutant: the number of hashes stays that of a default filter.
deserializeDefaultHashes(block) ==
  [bytes |-> block.num_bytes, hashes |-> DefaultFilter.hashes,
   ones |-> {b \in block.data : b < 8 * block.num_bytes}]

\* As many bits as the block says it has are taken from it.
deserialize(block) ==
  [bytes |-> block.num_bytes, hashes |-> block.num_hashes,
   ones |-> {b \in block.data : b < 8 * block.num_bytes}]
=============================================================================
