------------------------------- MODULE MCCli -------------------------------
(* The store of MCKVStore behind the command line, with tables that go bad.  *)
EXTENDS Cli

MCKeySize   == [k \in Keys |-> 1]
MCValueSize == [v \in Values |-> 1]
=============================================================================
