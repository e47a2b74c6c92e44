----------------------------- MODULE MCSSTable -----------------------------
(* Four keys and two values of different sizes, one of them empty.  Hash    *)
(* values collide; a filter of 64 bits with two keys has false positives.   *)
EXTENDS SSTable

CONSTANTS v0, v2

MCKeys      == 1 .. 4
MCKeySize   == [k \in Keys |-> 1 + (k % 2)]
MCValueSize == [v \in Values |-> IF v = v0 THEN 0 ELSE 2]
MCHash1     == [k \in Keys |-> IF k % 2 = 1 THEN 3 ELSE 40 * k]
MCHash2     == [k \in Keys |-> IF k = 3 THEN 65 ELSE 1]
=============================================================================
