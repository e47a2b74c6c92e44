--------------------------- MODULE MCDamagedStore ---------------------------
(* One key with two values, and tables that go bad. *)
EXTENDS DamagedStore

MCKeySize   == [k \in Keys |-> 1]
MCValueSize == [v \in Values |-> 1]
=============================================================================
