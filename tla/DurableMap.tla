----------------------------- MODULE DurableMap -----------------------------
(***************************************************************************)
(* What the store promises its caller, with nothing of how: a map that     *)
(* changes only by the one write in progress, at one instant between its   *)
(* call and its return; that a crash, a restart, a flush or a compaction   *)
(* never changes; and that answers every read made between two calls.      *)
(* Where the disk can go bad, some keys are lost: of these it promises     *)
(* nothing until they are written again, and no step of its own adds to    *)
(* them.                                                                   *)
(***************************************************************************)
CONSTANTS
  Keys, Values, Tombstone, Absent,
  NoWrite,   \* no write in progress
  NotReady   \* the store answers no reads now: closed, or inside a call

VARIABLES
  kv,       \* what a restart would bring back
  lost,     \* the keys that it would not, or that no read finds now
  pending,  \* the write in progress, or NoWrite
  applied,  \* it has taken effect
  answers,  \* the map gets are answered from, but for lost keys, or NotReady
  status    \* the Status the last finished call returned

vars == <<kv, lost, pending, applied, answers, status>>

Write == [key : Keys, entry : Values \cup {Tombstone}]

Init ==
  /\ kv = [k \in Keys |-> Absent]
  /\ lost = {}
  /\ pending = NoWrite
  /\ applied = FALSE
  /\ answers = NotReady
  /\ status = "ok"

Readable == [k \in Keys \ lost |-> kv[k]]

\* Reads are answered from the durable map itself or not at all.
Answering == answers' \in {NotReady, Readable'}

\* A lost key may come back, as when its record still is in the log.
NothingLost == lost' \subseteq lost

\* A call of put or remove.
Call(w) ==
  /\ pending = NoWrite
  /\ pending' = w
  /\ answers = Readable
  /\ applied' = FALSE
  /\ answers' = NotReady
  /\ NothingLost
  /\ UNCHANGED <<kv, status>>

\* The write takes effect: from here on it survives anything but damage.
TakeEffect ==
  /\ pending # NoWrite
  /\ ~applied
  /\ applied' = TRUE
  /\ kv' = [kv EXCEPT ![pending.key] =
              IF pending.entry = Tombstone THEN Absent ELSE pending.entry]
  /\ lost' \subseteq lost \ {pending.key}
  /\ UNCHANGED <<pending, answers, status>>

\* OK is returned only for a write that took effect, an error only for one that did not.
Return ==
  /\ pending # NoWrite
  /\ status' = IF applied THEN "ok" ELSE "error"
  /\ pending' = NoWrite
  /\ applied' = FALSE
  /\ answers' = Readable'
  /\ NothingLost
  /\ UNCHANGED kv

\* The process dies: the caller of a pending write never learns its fate.
Crash ==
  /\ pending' = NoWrite
  /\ applied' = FALSE
  /\ answers' = NotReady
  /\ status' = "ok"
  /\ NothingLost
  /\ UNCHANGED kv

\* Open, close, flush and compact, and every step inside them.
Maintain ==
  /\ pending = NoWrite
  /\ status' \in {"ok", "error"}
  /\ Answering
  /\ NothingLost
  /\ UNCHANGED <<kv, pending, applied>>

\* A lost key comes back inside a call.
Recover ==
  /\ answers = NotReady
  /\ NothingLost
  /\ UNCHANGED <<kv, pending, applied, answers, status>>

\* Between two calls the disk goes bad.
Fade ==
  /\ pending = NoWrite
  /\ lost \subseteq lost' /\ lost' \subseteq Keys
  /\ \/ answers = NotReady /\ answers' = NotReady
     \/ answers = Readable /\ answers' = Readable'
  /\ UNCHANGED <<kv, pending, applied, status>>

Next ==
  \/ \E w \in Write : Call(w)
  \/ TakeEffect
  \/ Return
  \/ Crash
  \/ Maintain
  \/ Recover
  \/ Fade

Spec == Init /\ [][Next]_vars
=============================================================================
