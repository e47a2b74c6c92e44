----------------------------- MODULE RecordLog -----------------------------
(***************************************************************************)
(* What the write-ahead log promises the store, with nothing of bytes: it  *)
(* is a sequence of records, of which a crash or a failing write may leave *)
(* one cut short; replay hands out the records before the first of those,  *)
(* in order, and then says how it came to an end.  WAL implements this, and *)
(* KVStore uses its log so.                                                *)
(***************************************************************************)
EXTENDS Naturals, Sequences

CONSTANTS
  Records,
  NoRecord,
  Torn,      \* in the log: a record cut short
  Unreadable \* may a log that is there not open for reading?  It passes for empty

VARIABLES
  records,   \* the log
  ready,     \* it takes records
  held,      \* a record that was taken and is not in the log yet, or NoRecord
  replay,    \* the replay that runs or ran last: what it handed out, how it ended
  damaged    \* the log has changed by itself

vars == <<records, ready, held, replay, damaged>>

Running(given)       == [running |-> TRUE, given |-> given, status |-> "none"]
Ended(given, status) == [running |-> FALSE, given |-> given, status |-> status]
NoReplay             == Ended(<<>>, "none")

Init ==
  /\ records = <<>>
  /\ ready = FALSE
  /\ held = NoRecord
  /\ replay = NoReplay
  /\ damaged = FALSE

\* A record is lost, or cut short.
Lost == records' = records \/ records' = Append(records, Torn)

\* What is held goes out now or never.
Release ==
  /\ held' = NoRecord
  /\ \/ records' = records
     \/ held # NoRecord /\ (Lost \/ records' = Append(records, held))

AppendRecord(r) ==
  /\ ready
  /\ records' = Append(records, r)
  /\ UNCHANGED <<ready, held, replay, damaged>>

\* The log takes no record after one that failed, and says so or keeps it.
AppendFails(r) ==
  /\ ready
  /\ ready' = FALSE
  /\ held' \in {held, r}
  /\ Lost
  /\ UNCHANGED <<replay, damaged>>

Close ==
  /\ ready' = FALSE
  /\ Release
  /\ UNCHANGED <<replay, damaged>>

Clear ==
  /\ replay = NoReplay
  /\ records' = <<>>
  /\ ready' = TRUE
  /\ held' = NoRecord
  /\ damaged' = FALSE
  /\ UNCHANGED replay

StartReplay ==
  /\ ~ready
  /\ ~replay.running
  /\ replay' = Running(<<>>)
  /\ UNCHANGED <<records, ready, held, damaged>>

\* Where replay stands.
Position == Len(replay.given) + 1

\* Only whole records are handed out, and the next one first.
Give ==
  /\ replay.running
  /\ Position <= Len(records)
  /\ records[Position] # Torn
  /\ replay' = Running(Append(replay.given, records[Position]))
  /\ UNCHANGED <<records, ready, held, damaged>>

\* The end of the log is "ok".  Short of it replay stops at a record cut short, which is
\* "truncated" when it is the last, or at any record if the log has changed.
MayEnd(status) ==
  \/ status = "ok" /\ Position > Len(records)
  \/ status = "ok" /\ Position = 1 /\ Unreadable
  \/ /\ status \in {"truncated", "corruption"}
     /\ Position <= Len(records)
     /\ damaged \/ records[Position] = Torn
     /\ ~damaged /\ Position = Len(records) => status = "truncated"

End(status) ==
  /\ replay.running
  /\ MayEnd(status)
  /\ replay' = Ended(replay.given, status)
  /\ UNCHANGED <<records, ready, held, damaged>>

\* The log takes records, after a replay that may end now and that found no corruption,
\* or after none.
Open ==
  /\ replay.running => MayEnd("ok") \/ MayEnd("truncated")
  /\ Release
  /\ ready' = TRUE
  /\ replay' = NoReplay
  /\ UNCHANGED damaged

\* The process dies, or gives up opening the store.
Stop ==
  /\ ready' = FALSE
  /\ held' = NoRecord
  /\ replay' = NoReplay
  /\ records' = records \/ (ready /\ Lost)
  /\ UNCHANGED damaged

Damage ==
  /\ ~ready
  /\ ~replay.running
  /\ damaged' = TRUE
  /\ replay' = NoReplay
  /\ UNCHANGED <<records, ready, held>>

Next ==
  \/ \E r \in Records : AppendRecord(r) \/ AppendFails(r)
  \/ Close
  \/ Clear
  \/ StartReplay
  \/ Give
  \/ \E status \in {"ok", "truncated", "corruption"} : End(status)
  \/ Open
  \/ Stop
  \/ Damage

Spec == Init /\ [][Next]_vars
=============================================================================
