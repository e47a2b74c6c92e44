------------------------------- MODULE MCWAL -------------------------------
(* Bytes of three values, of which 1 and 2 are the two types.  The cells   *)
(* of the first record, behind the torn type byte of another, are read as  *)
(* lengths within the limits.  LongRecords are over them.                  *)
EXTENDS WAL

MCRecords ==
  {[type |-> PUT, key |-> <<1>>, value |-> <<0>>],
   [type |-> TOMBSTONE, key |-> <<2, 1>>, value |-> <<>>]}

LongRecords ==
  {[type |-> PUT, key |-> <<1>>, value |-> <<1>>],
   [type |-> PUT, key |-> <<1>>, value |-> <<0, 1, 0, 1>>],
   [type |-> PUT, key |-> <<1, 1, 1, 0, 1>>, value |-> <<2>>]}
=============================================================================
