-------------------------------- MODULE WAL --------------------------------
(***************************************************************************)
(* The write-ahead log as a file of bytes (src/src/wal.cpp,                *)
(* src/include/lsm/wal.h): how a record is laid out, what failing writes   *)
(* and crashes leave of it, and the loop of replay, one turn an action.    *)
(* KVStore takes the log to be a sequence of whole and torn records; this  *)
(* module checks that what it assumes of replay holds of the bytes.        *)
(* A cell of the file is a byte, or a byte of the checksum of a content:   *)
(* two contents never have the same checksum, and a byte of a checksum     *)
(* that is read as something else may be any byte.                         *)
(***************************************************************************)
EXTENDS Integers, SequencesExt

CONSTANTS
  Records,       \* the records appended: [type, key, value]
  NoRecord,
  Torn,          \* in pieces: a record cut short
  Base,          \* the number of values of a byte: 256
  CrcBytes,      \* bytes of a checksum: 4
  MaxKeyLen,     \* the limit of replay for keys: 16 MiB
  MaxValueLen,   \* and for values: 64 MiB
  MaxPieces,     \* bound: records and torn records in the log
  MaxTears,      \* bound: crashes and errors that cut a record short
  MaxDamage      \* bound: cells of the file that change by themselves

PUT       == 1
TOMBSTONE == 2
Word      == Base * Base * Base * Base   \* a length has four bytes
Bytes     == 0 .. Base - 1

ASSUME LogAssumption ==
  /\ Base \in Nat /\ Base > TOMBSTONE
  /\ CrcBytes \in Nat \ {0}
  /\ \A r \in Records :
       /\ r \in [type : {PUT, TOMBSTONE}, key : Seq(Bytes), value : Seq(Bytes)]
       /\ r.type = TOMBSTONE => r.value = <<>>
  /\ {Torn, NoRecord} \cap Records = {} /\ Torn # NoRecord
  /\ MaxKeyLen \in Nat /\ MaxValueLen \in Nat /\ MaxKeyLen + MaxValueLen < Word
  /\ MaxPieces \in Nat /\ MaxTears \in Nat /\ MaxDamage \in Nat

VARIABLES
  is_open,    \* is_open_
  good,       \* file_.good()
  buffer,     \* the record the stream could not write, or NoRecord
  file,       \* on disk: the cells of the log
  in,         \* the replay that runs or ran last: its place and what it gave
  pieces,     \* history: the records in the file, whole and torn, since clear
  ends,       \* history: the length of the file behind each of them
  tears,      \* history: how many records were cut short
  damage      \* history: how many cells of the file changed

stream  == <<is_open, good, buffer>>
history == <<pieces, ends, tears, damage>>
vars    == <<stream, file, in, history>>

-----------------------------------------------------------------------------
(* The layout of a record.                                                 *)

ByteCell(b) == [byte |-> b, of |-> <<>>]
CrcCell(i, content) == [byte |-> -i, of |-> content]

IsByte(c) == c.byte >= 0

Cells(bytes) == [i \in DOMAIN bytes |-> ByteCell(bytes[i])]

\* The bytes of a length, the lowest first.
LengthBytes(n) ==
  LET n1 == n \div Base
      n2 == n1 \div Base
      n3 == n2 \div Base
  IN  <<n % Base, n1 % Base, n2 % Base, n3 % Base>>

\* Mutant: the bytes of a length are written in the opposite order.
encodeUint32BE(n) == Cells(Reverse(LengthBytes(n)))

encodeUint32LE(n) == Cells(LengthBytes(n))

\* What the cells at p may be read as.
decodeUint32LE(p) ==
  LET b(i) == file[p + i].byte
  IN  IF \A i \in 0 .. 3 : IsByte(file[p + i])
        THEN {b(0) + Base * (b(1) + Base * (b(2) + Base * b(3)))}
        ELSE 0 .. Word - 1

crc32(content) == [i \in 1 .. CrcBytes |-> CrcCell(i, content)]

\* Sizes are cut to 32 bits, and what is copied with them.  A tombstone has no value.
KeyLen(r) == Len(r.key) % Word
ValLen(r) == IF r.type = TOMBSTONE THEN 0 ELSE Len(r.value) % Word

Content(r) ==
  <<ByteCell(r.type)>> \o encodeUint32LE(KeyLen(r)) \o encodeUint32LE(ValLen(r))
    \o Cells(SubSeq(r.key, 1, KeyLen(r))) \o Cells(SubSeq(r.value, 1, ValLen(r)))

Encoded(r) == Content(r) \o crc32(Content(r))

-----------------------------------------------------------------------------
(* Writing.                                                                *)

RoomForPiece == Len(pieces) < MaxPieces

Whole(r) ==
  /\ RoomForPiece
  /\ file' = file \o Encoded(r)
  /\ pieces' = Append(pieces, r)
  /\ ends' = Append(ends, Len(file'))
  /\ UNCHANGED <<tears, damage>>

\* The first n cells of a record go out, not all and not none of them.
CutShort(r) ==
  /\ RoomForPiece
  /\ tears < MaxTears
  /\ \E n \in 1 .. Len(Encoded(r)) - 1 : file' = file \o SubSeq(Encoded(r), 1, n)
  /\ pieces' = Append(pieces, Torn)
  /\ ends' = Append(ends, Len(file'))
  /\ tears' = tears + 1
  /\ UNCHANGED damage

Nothing == UNCHANGED <<file, history>>

\* WAL::close: what the stream still holds is tried once more, and no one looks
\* whether it went out.
CloseStream ==
  /\ buffer' = NoRecord
  /\ \/ Nothing
     \/ buffer # NoRecord /\ (Whole(buffer) \/ CutShort(buffer))

\* The replay that ran last is past.
Idle == [running |-> FALSE, at |-> 1, delivered |-> <<>>, status |-> "none"]

\* The log is opened for appending, behind whatever it ends with.  An open that
\* fails does what close does.
open ==
  /\ ~in.running
  /\ CloseStream
  /\ is_open' = TRUE
  /\ good' = TRUE
  /\ in' = Idle

close ==
  /\ is_open
  /\ CloseStream
  /\ is_open' = FALSE
  /\ UNCHANGED <<good, in>>

\* A record on a good stream: written and flushed.
appendRecord(r) ==
  /\ is_open /\ good
  /\ Whole(r)
  /\ UNCHANGED <<stream, in>>

\* The write of a large record fails and is seen to.
AppendFails(r) ==
  /\ is_open /\ good
  /\ good' = FALSE
  /\ Nothing \/ CutShort(r)
  /\ UNCHANGED <<is_open, buffer, in>>

\* The flush fails, and is not looked at: the stream holds the record, and part of it
\* may be in the file.
AppendLost(r) ==
  /\ is_open /\ good
  /\ good' = FALSE
  /\ buffer' = r
  /\ Nothing \/ CutShort(r)
  /\ UNCHANGED <<is_open, in>>

\* close, then the file is opened and truncated.
clear ==
  /\ is_open
  /\ is_open' = TRUE
  /\ good' = TRUE
  /\ buffer' = NoRecord
  /\ file' = <<>>
  /\ pieces' = <<>>
  /\ ends' = <<>>
  /\ damage' = 0
  /\ UNCHANGED <<in, tears>>

\* It is closed, and then cannot be truncated.
ClearFails ==
  /\ is_open
  /\ CloseStream
  /\ is_open' = FALSE
  /\ good' = FALSE
  /\ UNCHANGED in

-----------------------------------------------------------------------------
(* Replay.                                                                 *)

StartReplay ==
  /\ ~is_open /\ ~in.running
  /\ in' = [Idle EXCEPT !.running = TRUE]
  /\ UNCHANGED <<stream, file, history>>

HeaderSize == 1 + 4 + 4
Left       == Len(file) - in.at + 1

\* Mutant: the checksum is not counted.
SizeOfContent(key_len, val_len) == HeaderSize + key_len + val_len

\* The record at in.at would be this long.
Size(key_len, val_len) == HeaderSize + key_len + val_len + CrcBytes

\* Mutant: the status is set and the loop goes on.
EndsWithoutReturn(status) == in' = [in EXCEPT !.status = status]

Ends(status) == in' = [in EXCEPT !.running = FALSE, !.status = status]

\* The end of the file, behind a whole record.
ReplayEnds == Left = 0 /\ Ends("ok")

\* Mutant: a short header passes for the end of the file.
HeaderTruncatedIsEnd == Left \in 1 .. HeaderSize - 1 /\ Ends("ok")

HeaderTruncated == Left \in 1 .. HeaderSize - 1 /\ Ends("truncated")

\* A byte of a checksum may pass for a type.
TypesAt(p) ==
  IF IsByte(file[p]) THEN {file[p].byte} \cap {PUT, TOMBSTONE} ELSE {PUT, TOMBSTONE}

TypeRefused ==
  /\ Left >= HeaderSize
  /\ file[in.at].byte \notin {PUT, TOMBSTONE}
  /\ Ends("corruption")

WithinLimits(key_len, val_len) == key_len <= MaxKeyLen /\ val_len <= MaxValueLen

LengthsRefused(key_len, val_len) ==
  /\ ~WithinLimits(key_len, val_len)
  /\ Ends("corruption")

\* The file ends in the key, the value or the checksum.
PayloadTruncated(key_len, val_len) ==
  /\ WithinLimits(key_len, val_len)
  /\ Left < Size(key_len, val_len)
  /\ Ends("truncated")

\* Mutant: the checksum is read and not compared.
ChecksumMatchesAny(key_len, val_len) == TRUE

ChecksumMatches(key_len, val_len) ==
  LET size == Size(key_len, val_len)
  IN  SubSeq(file, in.at + size - CrcBytes, in.at + size - 1)
        = crc32(SubSeq(file, in.at, in.at + size - CrcBytes - 1))

ChecksumRefused(key_len, val_len) ==
  /\ WithinLimits(key_len, val_len)
  /\ Left >= Size(key_len, val_len)
  /\ ~ChecksumMatches(key_len, val_len)
  /\ Ends("corruption")

BytesAt(p, n) == [i \in 1 .. n |-> file[p + i - 1].byte]

\* The record is handed to the consumer.
Deliver(type, key_len, val_len) ==
  /\ WithinLimits(key_len, val_len)
  /\ Left >= Size(key_len, val_len)
  /\ ChecksumMatches(key_len, val_len)
  /\ in' = [in EXCEPT
              !.at = @ + Size(key_len, val_len),
              !.delivered = Append(@,
                 [type  |-> type,
                  key   |-> BytesAt(in.at + HeaderSize, key_len),
                  value |-> BytesAt(in.at + HeaderSize + key_len, val_len)])]

\* One turn of the loop.
ReplayStep ==
  /\ in.running
  /\ \/ ReplayEnds
     \/ HeaderTruncated
     \/ TypeRefused
     \/ /\ Left >= HeaderSize
        /\ \E type \in TypesAt(in.at),
              key_len \in decodeUint32LE(in.at + 1),
              val_len \in decodeUint32LE(in.at + 5) :
             \/ LengthsRefused(key_len, val_len)
             \/ PayloadTruncated(key_len, val_len)
             \/ ChecksumRefused(key_len, val_len)
             \/ Deliver(type, key_len, val_len)
  /\ UNCHANGED <<stream, file, history>>

-----------------------------------------------------------------------------
\* The process dies; a record that was being written may be cut short.
Crash ==
  /\ is_open \/ in.running
  /\ is_open' = FALSE
  /\ good' = FALSE
  /\ buffer' = NoRecord
  /\ in' = Idle
  /\ Nothing \/ (is_open /\ good /\ \E r \in Records : CutShort(r))

\* A cell changes by itself.
Damage ==
  /\ ~is_open /\ ~in.running
  /\ damage < MaxDamage
  /\ \E p \in DOMAIN file, b \in Bytes :
       /\ file[p] # ByteCell(b)
       /\ file' = [file EXCEPT ![p] = ByteCell(b)]
  /\ damage' = damage + 1
  /\ in' = Idle
  /\ UNCHANGED <<stream, pieces, ends, tears>>

Init ==
  /\ is_open = FALSE
  /\ good = FALSE
  /\ buffer = NoRecord
  /\ file = <<>>
  /\ in = Idle
  /\ pieces = <<>>
  /\ ends = <<>>
  /\ tears = 0
  /\ damage = 0

Next ==
  \/ open
  \/ close
  \/ \E r \in Records : appendRecord(r) \/ AppendFails(r) \/ AppendLost(r)
  \/ clear
  \/ ClearFails
  \/ StartReplay
  \/ ReplayStep
  \/ Crash
  \/ Damage

Spec == Init /\ [][Next]_vars

\* A replay that has begun runs on.
FairSpec == Spec /\ WF_vars(ReplayStep)

-----------------------------------------------------------------------------
(* Properties.                                                             *)

\* What a cell of a content can be, and a cell of the file.
ContentCell == [byte : Bytes, of : {<<>>}]
Cell        == [byte : -CrcBytes .. Base - 1, of : Seq(ContentCell)]

TypeOK ==
  /\ is_open \in BOOLEAN
  /\ good \in BOOLEAN
  /\ buffer \in Records \cup {NoRecord}
  /\ file \in Seq(Cell)
  /\ in \in [running   : BOOLEAN,
             at        : 1 .. Len(file) + 1,
             delivered : Seq([type : {PUT, TOMBSTONE}, key : Seq(Int), value : Seq(Int)]),
             status    : {"none", "ok", "truncated", "corruption"}]
  /\ in.running => in.status = "none"
  /\ pieces \in Seq(Records \cup {Torn})
  /\ ends \in Seq(Nat)
  /\ tears \in 0 .. MaxTears
  /\ damage \in 0 .. MaxDamage

\* The whole records before the first that was cut short.
WholeUpTo(n) == \A i \in 1 .. n : pieces[i] # Torn

BeforeTear == SubSeq(pieces, 1, Max({n \in 0 .. Len(pieces) : WholeUpTo(n)}))

\* Whatever crashes, failing writes and changed cells leave in the file, replay hands
\* out only records that were appended, in order and from the first on, and never one
\* from behind a torn record (wal.cpp:147-224).
NothingInvented == IsPrefix(in.delivered, BeforeTear)

\* What KVStore assumes of replay.  It gives all the records before the first torn
\* one; it says OK if there is none, and that the log is truncated if it is the last.
\* With records behind the torn one it is either of the two errors, and the one for a
\* truncated log makes open go on without those records (wal.cpp:147-226,
\* kv_store.cpp:100).
ReplayGivesBack ==
  in.status # "none" /\ damage = 0 =>
    LET whole == Len(BeforeTear)
    IN  /\ in.delivered = BeforeTear
        /\ in.status = "ok" <=> whole = Len(pieces)
        /\ whole = Len(pieces) - 1 => in.status = "truncated"

\* Replay says OK only when it has handed out every record that was appended, with
\* none cut short, also when cells of the file have changed (wal.cpp:147-226).
OkIsComplete == in.status = "ok" => in.delivered = pieces

-----------------------------------------------------------------------------
(* The invariants NothingInvented, OkIsComplete and ReplayGivesBack come   *)
(* from.                                                                   *)

End(i) == IF i = 0 THEN 0 ELSE ends[i]

PieceCells(i) == SubSeq(file, End(i - 1) + 1, End(i))

\* The file is its pieces, one behind the other.
LaidOut ==
  /\ Len(ends) = Len(pieces)
  /\ End(Len(pieces)) = Len(file)
  /\ \A i \in 0 .. Len(pieces) : \A j \in 0 .. i - 1 : End(j) < End(i)
  /\ \A i \in DOMAIN pieces :
       pieces[i] # Torn => End(i) = End(i - 1) + Len(Encoded(pieces[i]))

\* The last byte of a checksum ends a whole record, and is of its content.
ChecksumsTrue ==
  \A p \in DOMAIN file :
    file[p].byte = -CrcBytes =>
      \E i \in DOMAIN pieces :
        /\ pieces[i] # Torn
        /\ End(i) = p
        /\ file[p].of = Content(pieces[i])

\* Replay is behind the records it has handed out, which are the first of the file.
ReplayFollows ==
  LET n == Len(in.delivered)
  IN  /\ n <= Len(pieces)
      /\ \A i \in 1 .. n : pieces[i] # Torn /\ in.delivered[i] = pieces[i]
      /\ in.at = End(n) + 1
      /\ in.status = "ok" => n = Len(pieces)

\* While the log is open no replay runs, and what ran before is past.
StreamOrReplay ==
  /\ is_open => in = Idle
  /\ buffer # NoRecord => is_open

LogInv == LaidOut /\ ChecksumsTrue /\ ReplayFollows /\ StreamOrReplay

\* Without damage a piece is the record, or the beginning of one.
Undamaged ==
  damage = 0 =>
    \A i \in DOMAIN pieces :
      IF pieces[i] # Torn
        THEN PieceCells(i) = Encoded(pieces[i])
        ELSE \E r \in Records : \E n \in 1 .. Len(Encoded(r)) - 1 :
               PieceCells(i) = SubSeq(Encoded(r), 1, n)

\* Without damage replay stops with an error only at a torn record, and takes it for
\* what it is when nothing follows.
StopsAtTear ==
  damage = 0 /\ in.status \in {"truncated", "corruption"} =>
    LET next == Len(in.delivered) + 1
    IN  /\ next <= Len(pieces) /\ pieces[next] = Torn
        /\ next = Len(pieces) => in.status = "truncated"

IntactInv == Undamaged /\ StopsAtTear

\* A record that appendRecord took and nothing has happened to is not refused by
\* replay (wal.cpp:59-92, 174).
WrittenIsReadable ==
  (\A i \in DOMAIN pieces : pieces[i] # Torn) /\ damage = 0 => in.status # "corruption"

\* Seen through the pieces and the replay, the bytes are a log of records, whole and cut
\* short: all that KVStore knows of its log (wal.cpp:26-226).
Log ==
  INSTANCE RecordLog WITH
    Unreadable <- FALSE,
    records    <- pieces,
    ready      <- is_open /\ good,
    held       <- buffer,
    replay     <- [running |-> in.running, given |-> in.delivered, status |-> in.status],
    damaged    <- (damage > 0)

ImplementsLog == Log!Spec

\* The loop of replay ends, whatever lengths the file holds (wal.cpp:147).
ReplayReturns == in.running ~> ~in.running
=============================================================================
