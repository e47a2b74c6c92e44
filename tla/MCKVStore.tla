----------------------------- MODULE MCKVStore -----------------------------
(* KVStore with keys and values of one byte each and a MemTable of two bytes: *)
(* one put fills it, and so do two deletes.                                   *)
EXTENDS KVStoreInvariant

MCKeySize   == [k \in Keys |-> 1]
MCValueSize == [v \in Values |-> 1]

NoFaults == {}

Symmetry == Permutations(Keys)
=============================================================================
