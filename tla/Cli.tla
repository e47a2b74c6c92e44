-------------------------------- MODULE Cli --------------------------------
(***************************************************************************)
(* The command line over the store (src/src/cli.cpp).  A command is read,  *)
(* makes at most one call to the store, and prints a report when the call  *)
(* has returned.  What FLUSH, COMPACT and STATS print they do not learn    *)
(* from the store: they read manifest.txt before and after the call.       *)
(* Parsing, HELP and rejected lines change nothing and are left out.       *)
(***************************************************************************)
EXTENDS DamagedStore

VARIABLES
  command,  \* the command that runs, "prompt" when none does, "off" without a process
  asked,    \* before_ssts, and history: what was in the MemTable when FLUSH was read
  report    \* what the last command printed

cliVars == <<command, asked, report, storeVars>>

Commands == {"off", "start", "prompt", "PUT", "DELETE", "FLUSH", "COMPACT"}

Nothing     == [text |-> "nothing", tables |-> <<>>]
Said(text)  == [text |-> text, tables |-> <<>>]
NoQuestion  == [before |-> <<>>, entries |-> NoEntries]

\* getActiveSSTables: the lines of the manifest on disk.
getActiveSSTables == manifest

-----------------------------------------------------------------------------
(* A command is read.                                                      *)

\* main opens the store first.
Start ==
  /\ command = "off"
  /\ pc = "closed"
  /\ open
  /\ command' = "start"
  /\ asked' = NoQuestion
  /\ report' = Nothing
  /\ UNCHANGED <<unreadable, damages>>

Read(cmd) ==
  /\ command = "prompt"
  /\ command' = cmd
  /\ report' = Nothing
  /\ UNCHANGED <<unreadable, damages>>

\* before_ssts is a local of the command.
Asks(entries) == asked' = [before |-> getActiveSSTables, entries |-> entries]

PUT(k, v) == Read("PUT") /\ put(k, v) /\ asked' = NoQuestion

DELETE(k) == Read("DELETE") /\ remove(k) /\ asked' = NoQuestion

\* The call of the store that finds nothing to do.
ReturnsAtOnce ==
  /\ pc = "idle"
  /\ result' = "ok"
  /\ UNCHANGED <<pc, op, memVars, sstables, nextSeq, log, work, disk, committed, writes, env>>

FLUSH ==
  /\ Read("FLUSH")
  /\ Asks(table)
  /\ IF IsEmpty THEN ReturnsAtOnce ELSE flush

\* Mutant: the number of inputs is not looked at.
WorthCompactingAlways == TRUE

WorthCompacting == Len(getActiveSSTables) >= 2

COMPACT ==
  /\ WorthCompacting
  /\ Read("COMPACT")
  /\ Asks(NoEntries)
  /\ IF Len(sstables) < 2 THEN ReturnsAtOnce ELSE compact

CompactSkipped ==
  /\ command = "prompt"
  /\ ~WorthCompacting
  /\ report' = Said("skipped")
  /\ UNCHANGED <<command, asked, storeVars>>

\* EXIT, QUIT or the end of the input.
EXIT ==
  /\ command = "prompt"
  /\ close
  /\ command' = "off"
  /\ asked' = NoQuestion
  /\ report' = Nothing
  /\ UNCHANGED <<unreadable, damages>>

-----------------------------------------------------------------------------
(* The call has returned, and the command reports.                         *)

\* Mutant: any table in the manifest passes for the new one.
GrewAtAll == getActiveSSTables # <<>>

\* after_ssts.size() > before_ssts.size()
Grew == Len(getActiveSSTables) > Len(asked.before)

FlushReport ==
  IF Grew
    THEN [text |-> "created", tables |-> <<Last(getActiveSSTables)>>]
    ELSE Said("was empty")

\* Output SSTable: the first line of the manifest, or (none).
CompactReport ==
  [text |-> "compacted",
   tables |-> IF getActiveSSTables = <<>> THEN <<>> ELSE <<Head(getActiveSSTables)>>]

Answer ==
  IF result = "error" THEN Said("error")
  ELSE IF command = "FLUSH" THEN FlushReport
  ELSE IF command = "COMPACT" THEN CompactReport
  ELSE Said("ok")

Reports ==
  /\ command \in {"PUT", "DELETE", "FLUSH", "COMPACT"}
  /\ pc = "idle"
  /\ report' = Answer
  /\ command' = "prompt"
  /\ UNCHANGED <<asked, storeVars>>

\* The store is open, and the prompt appears; or main gives up.
Started ==
  /\ command = "start"
  /\ pc \in {"idle", "closed"}
  /\ command' = IF pc = "idle" THEN "prompt" ELSE "off"
  /\ UNCHANGED <<asked, report, storeVars>>

-----------------------------------------------------------------------------
\* The store goes on with the call of the running command.
Runs ==
  /\ command \notin {"off", "prompt"}
  /\ StoreStep
  /\ UNCHANGED <<command, asked, report>>

Dies ==
  /\ command # "off"
  /\ Crash
  /\ command' = "off"
  /\ asked' = NoQuestion
  /\ report' = Nothing
  /\ UNCHANGED <<unreadable, damages>>

\* A table changes between two commands, or while no process has it open.
Decays ==
  /\ command \in {"off", "prompt"}
  /\ Damage
  /\ asked' = NoQuestion
  /\ report' = Nothing
  /\ UNCHANGED command

CliInit == StoreInit /\ command = "off" /\ asked = NoQuestion /\ report = Nothing

GoesOn == Runs \/ Reports \/ Started

CliNext ==
  \/ Start
  \/ \E k \in Keys, v \in Values : PUT(k, v)
  \/ \E k \in Keys : DELETE(k)
  \/ FLUSH
  \/ COMPACT
  \/ CompactSkipped
  \/ EXIT
  \/ GoesOn
  \/ Dies
  \/ Decays

CliSpec == CliInit /\ [][CliNext]_cliVars /\ WF_cliVars(GoesOn)

-----------------------------------------------------------------------------
(* Properties.                                                             *)

CliTypeOK ==
  /\ TypeOK
  /\ command \in Commands
  /\ asked \in [before : Seq(Seqs), entries : [Keys -> Slot]]
  /\ report.text \in {"nothing", "ok", "error", "skipped", "created", "was empty", "compacted"}
  /\ report.tables \in Seq(Seqs)
  /\ unreadable \subseteq Seqs \X Keys

\* What table s shows, where entries has anything, is what entries shows.
Holds(s, entries) ==
  \A k \in Keys : entries[k] # Absent => Reply(files[s].data[k]) = Reply(entries[k])

\* After a FLUSH that reports no error the MemTable is empty, and the newest table, listed
\* last in the manifest, shows all that was in it.  A table that FLUSH names is that one; it
\* need not be the one FLUSH wrote, as the flush may have gone on to merge it.  FLUSH may
\* print that the MemTable was empty when it was not, but only when a merge has left one
\* table (cli.cpp:139-156).
FlushLeavesNothing ==
  report.text \in {"created", "was empty"} =>
    /\ table = NoEntries
    /\ asked.entries # NoEntries =>
         manifest = sstables /\ sstables # <<>> /\ Holds(Last(sstables), asked.entries)
    /\ report.text = "created" => asked.entries # NoEntries /\ report.tables = <<Last(sstables)>>
    /\ report.text = "was empty" => asked.entries = NoEntries \/ Len(sstables) = 1

\* FLUSH prints "MemTable was empty, no new SSTable created" (cli.cpp:155) only when it was.
EmptyReportIsTrue == report.text = "was empty" => asked.entries = NoEntries

\* After a COMPACT that reports success one table is left, the one it names, and it
\* is new; every table it says was removed is gone (cli.cpp:157-184).
CompactReportMeans ==
  report.text = "compacted" =>
    /\ manifest = report.tables /\ sstables = report.tables
    /\ \A i \in DOMAIN asked.before :
         /\ files[asked.before[i]].state = "missing"
         /\ asked.before[i] < report.tables[1]

\* Every command comes to its report and back to the prompt, also over tables that
\* cannot be read, and a start that cannot open the database ends (cli.cpp:62-195).
PromptReturns == (command \notin {"off", "prompt"}) ~> (command \in {"off", "prompt"})

-----------------------------------------------------------------------------
(* The inductive invariant behind the reports, in named parts: what FLUSH   *)
(* and COMPACT, which ask only the manifest, may conclude from it.          *)

Session ==
  /\ command = "prompt" => pc = "idle"
  /\ command = "off" => pc = "closed"
  /\ command # "prompt" => report = Nothing

\* From the MemTable to the newest table, and through a merge.
FlushRuns ==
  command = "FLUSH" =>
    /\ op = NoWrite
    /\ pc \in {"createTable", "fillTable", "manifest", "reset", "compact", "merge", "remove", "idle"}
    /\ pc # "idle" => asked.entries # NoEntries
    /\ pc \in {"createTable", "fillTable", "manifest"} => asked.before = manifest
    /\ pc \in {"createTable", "fillTable"} => table = asked.entries
    /\ pc \in {"manifest", "reset", "compact"} =>
         sstables # <<>> /\ files[Last(sstables)].data = asked.entries
    /\ pc \in {"reset", "compact"} => manifest = sstables /\ Grew
    /\ pc \in {"compact", "merge", "remove"} => table = NoEntries
    /\ pc = "merge" => inputs # <<>> /\ files[Last(inputs)].data = asked.entries
    /\ pc = "remove" => Holds(out, asked.entries)
    /\ pc = "idle" /\ result = "ok" =>
         /\ table = NoEntries
         /\ \/ asked.entries = NoEntries /\ ~Grew
            \/ /\ asked.entries # NoEntries
               /\ manifest = sstables /\ sstables # <<>>
               /\ Grew \/ Len(manifest) = 1
               /\ Holds(Last(sstables), asked.entries)

\* The tables the manifest listed are inputs of the merge, and removed one by one.
CompactRuns ==
  command = "COMPACT" =>
    /\ op = NoWrite
    /\ pc \in {"compact", "merge", "remove", "idle"}
    /\ pc # "idle" => asked.before = manifest
    /\ pc = "remove" =>
         \A i \in DOMAIN inputs : i < cursor => files[inputs[i]].state = "missing"
    /\ pc = "idle" /\ result = "ok" =>
         /\ manifest = sstables /\ Len(sstables) = 1
         /\ \A i \in DOMAIN asked.before :
              /\ files[asked.before[i]].state = "missing"
              /\ asked.before[i] < sstables[1]

CliInv == Session /\ FlushRuns /\ CompactRuns
=============================================================================
