----------------------------- MODULE WALProofs -----------------------------
(***************************************************************************)
(* What KVStore takes the log to be is what its bytes give back: replay    *)
(* hands out only what was appended, says OK only for all of it, and stops *)
(* in a log that is not damaged at the first torn record, for all records  *)
(* and any number of them, of tears and of changed bytes.                  *)
(***************************************************************************)
EXTENDS WAL, SequenceTheorems, WellFoundedInduction, TLAPS

-----------------------------------------------------------------------------
(* Lengths.                                                                *)

LEMMA QuotientIsNat ==
  ASSUME NEW n \in Nat, NEW d \in Nat, d > 0
  PROVE  n \div d \in Nat
  OBVIOUS

LEMMA RemainderIsLess ==
  ASSUME NEW n \in Nat, NEW d \in Nat, d > 0
  PROVE  n % d \in 0 .. d - 1
  OBVIOUS

LEMMA Division ==
  ASSUME NEW n \in Nat, NEW d \in Nat, d > 0
  PROVE  n = d * (n \div d) + (n % d)
  OBVIOUS

LEMMA RemainderOfLess ==
  ASSUME NEW d \in Nat, NEW n \in 0 .. d - 1
  PROVE  n % d = n
  OBVIOUS

LEMMA ProductIsNat ==
  ASSUME NEW m \in Nat, NEW n \in Nat
  PROVE  m * n \in Nat
  OBVIOUS

LEMMA ProductOfSum ==
  ASSUME NEW c \in Int, NEW m \in Int, NEW n \in Int
  PROVE  c * (m + n) = c * m + c * n
  OBVIOUS

LEMMA ProductAssociates ==
  ASSUME NEW c \in Int, NEW m \in Int, NEW n \in Int
  PROVE  (c * m) * n = c * (m * n)
  OBVIOUS

LEMMA QuotientIsLess ==
  ASSUME NEW n \in Nat, NEW d \in Nat, d > 0, NEW m \in Nat, n < d * m
  PROVE  n \div d < m
<1> DEFINE q == n \div d
           r == n % d
<1>1. q \in Nat
  BY QuotientIsNat
<1>2. r \in Nat
  BY RemainderIsLess
<1>3. n = d * q + r
  BY Division
<1> HIDE DEF q, r
<1>4. SUFFICES ASSUME q >= m PROVE FALSE
  BY <1>1 DEF q
<1>5. PICK e \in Nat : q = m + e
  BY <1>1, <1>4
<1>6. d * q = d * m + d * e
  BY <1>5, ProductOfSum
<1>7. d * e \in Nat /\ d * m \in Nat
  BY ProductIsNat
<1> QED
  BY <1>2, <1>3, <1>6, <1>7

LEMMA BaseType == Base \in Nat /\ Base > 2 /\ Word \in Nat /\ Word > 0
<1>1. Base \in Nat /\ Base > 2
  BY LogAssumption DEF TOMBSTONE
<1>2. \A m, n \in Nat : m > 0 /\ n > 0 => m * n \in Nat /\ m * n > 0
  OBVIOUS
<1>3. Base * Base \in Nat /\ Base * Base > 0
  BY <1>1, <1>2
<1>4. Base * Base * Base \in Nat /\ Base * Base * Base > 0
  BY <1>1, <1>2, <1>3
<1>5. Word \in Nat /\ Word > 0
  BY <1>1, <1>2, <1>4 DEF Word
<1> QED
  BY <1>1, <1>5

\* The value that four bytes stand for.
Value(b1, b2, b3, b4) == b1 + Base * (b2 + Base * (b3 + Base * b4))

LEMMA LengthHasFourBytes ==
  ASSUME NEW n \in Nat
  PROVE  LengthBytes(n) \in Seq(Bytes) /\ Len(LengthBytes(n)) = 4
<1> DEFINE n1 == n \div Base
           n2 == n1 \div Base
           n3 == n2 \div Base
<1>1. n1 \in Nat
  BY BaseType, QuotientIsNat
<1>2. n2 \in Nat
  BY <1>1, BaseType, QuotientIsNat
<1>3. n3 \in Nat
  BY <1>2, BaseType, QuotientIsNat
<1> HIDE DEF n1, n2, n3
<1>4. n % Base \in Bytes
  BY BaseType, RemainderIsLess DEF Bytes
<1>5. n1 % Base \in Bytes
  BY <1>1, BaseType, RemainderIsLess DEF Bytes
<1>6. n2 % Base \in Bytes
  BY <1>2, BaseType, RemainderIsLess DEF Bytes
<1>7. n3 % Base \in Bytes
  BY <1>3, BaseType, RemainderIsLess DEF Bytes
<1>8. LengthBytes(n) = <<n % Base, n1 % Base, n2 % Base, n3 % Base>>
  BY DEF LengthBytes, n1, n2, n3
<1> HIDE DEF Bytes
<1> QED
  BY <1>4, <1>5, <1>6, <1>7, <1>8

\* A length of 32 bits is read as it was written.
LEMMA LengthIsRead ==
  ASSUME NEW n \in 0 .. Word - 1
  PROVE  LET b == LengthBytes(n) IN Value(b[1], b[2], b[3], b[4]) = n
<1> DEFINE n1 == n \div Base
           n2 == n1 \div Base
           n3 == n2 \div Base
           n4 == n3 \div Base
           B2 == Base * Base
           B3 == Base * B2
<1>a. n \in Nat /\ Base \in Nat /\ Base > 0 /\ Base \in Int
  BY BaseType
<1>b. B2 \in Nat /\ B3 \in Nat
  BY <1>a, ProductIsNat
<1>c. n < Base * B3
  <2>1. Word = Base * B3
    BY <1>a, <1>b, ProductAssociates DEF Word
  <2> QED
    BY <2>1, BaseType
<1>1. n1 \in Nat /\ n1 < B3
  BY <1>a, <1>b, <1>c, QuotientIsNat, QuotientIsLess
<1>2. n2 \in Nat /\ n2 < B2
  <2>1. n1 < Base * B2
    BY <1>1
  <2> HIDE DEF n1, B2, B3
  <2> QED
    BY <1>a, <1>b, <1>1, <2>1, QuotientIsNat, QuotientIsLess
<1>3. n3 \in Nat /\ n3 < Base
  <2>1. n2 < Base * Base
    BY <1>2
  <2> HIDE DEF n1, n2, B2, B3
  <2> QED
    BY <1>a, <1>2, <2>1, QuotientIsNat, QuotientIsLess
<1>4. n = Base * n1 + (n % Base)
  BY <1>a, Division
<1>5. n1 = Base * n2 + (n1 % Base)
  <2> HIDE DEF n1
  <2> QED
    BY <1>a, <1>1, Division
<1>6. n2 = Base * n3 + (n2 % Base)
  <2> HIDE DEF n1, n2
  <2> QED
    BY <1>a, <1>2, Division
<1>7. n3 % Base = n3
  <2> HIDE DEF n1, n2, n3
  <2> QED
    BY <1>a, <1>3, RemainderOfLess
<1>8. /\ n % Base \in Nat
      /\ n1 % Base \in Nat
      /\ n2 % Base \in Nat
  <2> HIDE DEF n1, n2
  <2> QED
    BY <1>a, <1>1, <1>2, RemainderIsLess
<1>9. LengthBytes(n) = <<n % Base, n1 % Base, n2 % Base, n3 % Base>>
  BY DEF LengthBytes
<1> DEFINE r0 == n % Base
           r1 == n1 % Base
           r2 == n2 % Base
<1>10. Value(r0, r1, r2, n3) = r0 + Base * (r1 + Base * (r2 + Base * n3))
  BY DEF Value
<1>11. n = Base * n1 + r0 /\ n1 = Base * n2 + r1 /\ n2 = Base * n3 + r2
  BY <1>4, <1>5, <1>6
<1>12. r0 \in Nat /\ r1 \in Nat /\ r2 \in Nat /\ n3 \in Nat
  BY <1>3, <1>8
<1>13. LengthBytes(n) = <<r0, r1, r2, n3>>
  BY <1>7, <1>9
<1> HIDE DEF n1, n2, n3, n4, r0, r1, r2, B2, B3
<1>14. r2 + Base * n3 = n2
  BY <1>a, <1>11, <1>12, ProductIsNat
<1>15. r1 + Base * n2 = n1
  BY <1>a, <1>2, <1>11, <1>12, ProductIsNat
<1>16. r0 + Base * n1 = n
  BY <1>a, <1>1, <1>11, <1>12, ProductIsNat
<1>17. Value(r0, r1, r2, n3) = n
  BY <1>10, <1>14, <1>15, <1>16
<1> QED
  BY <1>13, <1>17

-----------------------------------------------------------------------------
(* The cells of a record.                                                  *)

LEMMA RemainderAtMost ==
  ASSUME NEW n \in Nat, NEW d \in Nat, d > 0
  PROVE  n % d <= n
<1> DEFINE q == n \div d
           r == n % d
<1>1. q \in Nat
  BY QuotientIsNat
<1>2. r \in Nat
  BY RemainderIsLess
<1>3. n = d * q + r
  BY Division
<1> HIDE DEF q, r
<1>4. d * q \in Nat
  BY <1>1, ProductIsNat
<1>5. r <= n
  BY <1>2, <1>3, <1>4
<1> QED
  BY <1>5 DEF r

LEMMA RecordType ==
  ASSUME NEW r \in Records
  PROVE  /\ r \in [type : {PUT, TOMBSTONE}, key : Seq(Bytes), value : Seq(Bytes)]
         /\ r.type \in {PUT, TOMBSTONE}
         /\ r.key \in Seq(Bytes) /\ r.value \in Seq(Bytes)
         /\ r.type = TOMBSTONE => r.value = <<>>
         /\ r # Torn /\ r # NoRecord
<1>1. /\ r \in [type : {PUT, TOMBSTONE}, key : Seq(Bytes), value : Seq(Bytes)]
      /\ r.type = TOMBSTONE => r.value = <<>>
      /\ r # Torn /\ r # NoRecord
  BY LogAssumption
<1> HIDE DEF Bytes
<1> QED
  BY <1>1

LEMMA LengthsType ==
  ASSUME NEW r \in Records
  PROVE  /\ KeyLen(r) \in 0 .. Word - 1 /\ KeyLen(r) \in Nat /\ KeyLen(r) <= Len(r.key)
         /\ ValLen(r) \in 0 .. Word - 1 /\ ValLen(r) \in Nat /\ ValLen(r) <= Len(r.value)
<1>1. Len(r.key) \in Nat /\ Len(r.value) \in Nat
  BY RecordType
<1>2. Word \in Nat /\ Word > 0
  BY BaseType
<1> DEFINE Fits(n, m) == n \in 0 .. Word - 1 /\ n \in Nat /\ n <= m
<1>3. \A m \in Nat : Fits(m % Word, m)
  <2> TAKE m \in Nat
  <2>1. m % Word \in 0 .. Word - 1
    BY <1>2, RemainderIsLess
  <2>2. m % Word <= m
    BY <1>2, RemainderAtMost
  <2> DEFINE n == m % Word
  <2> HIDE DEF n
  <2> QED
    BY <1>2, <2>1, <2>2 DEF n
<1>4. \A m \in Nat : Fits(0, m)
  BY <1>2
<1> HIDE DEF Fits
<1>5. Fits(KeyLen(r), Len(r.key))
  BY <1>1, <1>3 DEF KeyLen
<1>6. Fits(ValLen(r), Len(r.value))
  BY <1>1, <1>3, <1>4 DEF ValLen
<1> QED
  BY <1>5, <1>6 DEF Fits

LEMMA CellOfByte ==
  ASSUME NEW b \in Bytes
  PROVE  /\ ByteCell(b) \in ContentCell /\ ByteCell(b) \in Cell
         /\ ByteCell(b).byte = b /\ IsByte(ByteCell(b))
<1>1. b \in -CrcBytes .. Base - 1 /\ b >= 0
  BY BaseType, LogAssumption DEF Bytes
<1>2. <<>> \in Seq(ContentCell)
  OBVIOUS
<1> QED
  BY <1>1, <1>2 DEF ByteCell, ContentCell, Cell, IsByte

LEMMA CellsOfBytes ==
  ASSUME NEW s \in Seq(Bytes)
  PROVE  /\ Cells(s) \in Seq(ContentCell)
         /\ Len(Cells(s)) = Len(s)
         /\ \A i \in 1 .. Len(s) : Cells(s)[i] = ByteCell(s[i])
<1>1. DOMAIN s = 1 .. Len(s) /\ Len(s) \in Nat
  OBVIOUS
<1>2. \A i \in 1 .. Len(s) : s[i] \in Bytes
  OBVIOUS
<1>3. \A i \in 1 .. Len(s) : ByteCell(s[i]) \in ContentCell
  BY <1>2, CellOfByte
<1>4. Cells(s) = [i \in 1 .. Len(s) |-> ByteCell(s[i])]
  BY <1>1 DEF Cells
<1> QED
  BY <1>1, <1>3, <1>4

LEMMA FirstBytes ==
  ASSUME NEW s \in Seq(Bytes), NEW n \in Nat, n <= Len(s)
  PROVE  /\ Cells(SubSeq(s, 1, n)) \in Seq(ContentCell)
         /\ Len(Cells(SubSeq(s, 1, n))) = n
         /\ \A i \in 1 .. n : Cells(SubSeq(s, 1, n))[i] = ByteCell(s[i])
<1>1. SubSeq(s, 1, n) \in Seq(Bytes) /\ Len(SubSeq(s, 1, n)) = n
  OBVIOUS
<1>2. \A i \in 1 .. n : SubSeq(s, 1, n)[i] = s[i]
  OBVIOUS
<1> DEFINE t == SubSeq(s, 1, n)
<1> HIDE DEF t
<1> QED
  BY <1>1, <1>2, CellsOfBytes DEF t

LEMMA Concatenation ==
  ASSUME NEW S, NEW s \in Seq(S), NEW t \in Seq(S)
  PROVE  /\ s \o t \in Seq(S) /\ Len(s \o t) = Len(s) + Len(t)
         /\ \A i \in 1 .. Len(s) : (s \o t)[i] = s[i]
         /\ \A i \in 1 .. Len(t) : (s \o t)[Len(s) + i] = t[i]
<1> DEFINE u == s \o t
           m == Len(s)
           n == Len(t)
<1>1. /\ u \in Seq(S) /\ Len(u) = m + n
      /\ \A i \in 1 .. m + n : u[i] = IF i <= m THEN s[i] ELSE t[i - m]
  BY ConcatProperties
<1>2. m \in Nat /\ n \in Nat
  OBVIOUS
<1> HIDE DEF u, m, n
<1>3. \A i \in 1 .. m : i \in 1 .. m + n /\ i <= m
  BY <1>2
<1>4. \A i \in 1 .. n : m + i \in 1 .. m + n /\ ~(m + i <= m) /\ (m + i) - m = i
  BY <1>2
<1>5. \A i \in 1 .. m : u[i] = s[i]
  BY <1>1, <1>3
<1>6. \A i \in 1 .. n : u[m + i] = t[i]
  BY <1>1, <1>4
<1> QED
  BY <1>1, <1>5, <1>6 DEF u, m, n

\* A content is the type, the two lengths, the key and the value.
LEMMA ContentShape ==
  ASSUME NEW r \in Records
  PROVE  LET c == Content(r)
             k == KeyLen(r)
             v == ValLen(r)
         IN  /\ c \in Seq(ContentCell)
             /\ Len(c) = HeaderSize + k + v
             /\ c[1] = ByteCell(r.type)
             /\ \A i \in 1 .. 4 : c[1 + i] = ByteCell(LengthBytes(k)[i])
             /\ \A i \in 1 .. 4 : c[5 + i] = ByteCell(LengthBytes(v)[i])
             /\ \A i \in 1 .. k : c[HeaderSize + i] = ByteCell(r.key[i])
             /\ \A i \in 1 .. v : c[HeaderSize + k + i] = ByteCell(r.value[i])
<1> DEFINE k == KeyLen(r)
           v == ValLen(r)
           s1 == <<ByteCell(r.type)>>
           s2 == encodeUint32LE(k)
           s3 == encodeUint32LE(v)
           s4 == Cells(SubSeq(r.key, 1, k))
           s5 == Cells(SubSeq(r.value, 1, v))
           a2 == s1 \o s2
           a3 == a2 \o s3
           a4 == a3 \o s4
           a5 == a4 \o s5
<1>0. k \in Nat /\ k <= Len(r.key) /\ v \in Nat /\ v <= Len(r.value)
  BY LengthsType
<1>1. s1 \in Seq(ContentCell) /\ Len(s1) = 1 /\ s1[1] = ByteCell(r.type)
  <2>1. r.type \in Bytes
    BY RecordType, BaseType DEF Bytes, PUT, TOMBSTONE
  <2>2. ByteCell(r.type) \in ContentCell
    BY <2>1, CellOfByte
  <2> QED
    BY <2>2
<1> HIDE DEF k, v
<1>2. /\ s2 \in Seq(ContentCell) /\ Len(s2) = 4
      /\ \A i \in 1 .. 4 : s2[i] = ByteCell(LengthBytes(k)[i])
  BY <1>0, LengthHasFourBytes, CellsOfBytes DEF encodeUint32LE
<1>3. /\ s3 \in Seq(ContentCell) /\ Len(s3) = 4
      /\ \A i \in 1 .. 4 : s3[i] = ByteCell(LengthBytes(v)[i])
  BY <1>0, LengthHasFourBytes, CellsOfBytes DEF encodeUint32LE
<1>4. /\ s4 \in Seq(ContentCell) /\ Len(s4) = k
      /\ \A i \in 1 .. k : s4[i] = ByteCell(r.key[i])
  BY <1>0, RecordType, FirstBytes
<1>5. /\ s5 \in Seq(ContentCell) /\ Len(s5) = v
      /\ \A i \in 1 .. v : s5[i] = ByteCell(r.value[i])
  BY <1>0, RecordType, FirstBytes
<1>6. Content(r) = a5
  BY DEF Content, k, v
<1> HIDE DEF s1, s2, s3, s4, s5
<1>7. /\ a2 \in Seq(ContentCell) /\ Len(a2) = 5
      /\ \A i \in 1 .. 1 : a2[i] = s1[i]
      /\ \A i \in 1 .. 4 : a2[1 + i] = s2[i]
  <2>a. s1 \in Seq(ContentCell) /\ s2 \in Seq(ContentCell)
    BY <1>1, <1>2
  <2>1. /\ a2 \in Seq(ContentCell) /\ Len(a2) = Len(s1) + Len(s2)
        /\ \A i \in 1 .. Len(s1) : a2[i] = s1[i]
        /\ \A i \in 1 .. Len(s2) : a2[Len(s1) + i] = s2[i]
    BY <2>a, Concatenation
  <2> HIDE DEF a2
  <2> QED
    BY <1>0, <2>1, <1>1, <1>2
<1> HIDE DEF a2
<1>8. /\ a3 \in Seq(ContentCell) /\ Len(a3) = 9
      /\ \A i \in 1 .. 5 : a3[i] = a2[i]
      /\ \A i \in 1 .. 4 : a3[5 + i] = s3[i]
  <2>a. a2 \in Seq(ContentCell) /\ s3 \in Seq(ContentCell)
    BY <1>3, <1>7
  <2>1. /\ a3 \in Seq(ContentCell) /\ Len(a3) = Len(a2) + Len(s3)
        /\ \A i \in 1 .. Len(a2) : a3[i] = a2[i]
        /\ \A i \in 1 .. Len(s3) : a3[Len(a2) + i] = s3[i]
    BY <2>a, Concatenation
  <2> HIDE DEF a3
  <2> QED
    BY <1>0, <2>1, <1>3, <1>7
<1> HIDE DEF a3
<1>9. /\ a4 \in Seq(ContentCell) /\ Len(a4) = 9 + k
      /\ \A i \in 1 .. 9 : a4[i] = a3[i]
      /\ \A i \in 1 .. k : a4[9 + i] = s4[i]
  <2>a. a3 \in Seq(ContentCell) /\ s4 \in Seq(ContentCell)
    BY <1>4, <1>8
  <2>1. /\ a4 \in Seq(ContentCell) /\ Len(a4) = Len(a3) + Len(s4)
        /\ \A i \in 1 .. Len(a3) : a4[i] = a3[i]
        /\ \A i \in 1 .. Len(s4) : a4[Len(a3) + i] = s4[i]
    BY <2>a, Concatenation
  <2> HIDE DEF a4
  <2> QED
    BY <1>0, <2>1, <1>4, <1>8
<1> HIDE DEF a4
<1>10. /\ a5 \in Seq(ContentCell) /\ Len(a5) = 9 + k + v
       /\ \A i \in 1 .. 9 + k : a5[i] = a4[i]
       /\ \A i \in 1 .. v : a5[9 + k + i] = s5[i]
  <2>a. a4 \in Seq(ContentCell) /\ s5 \in Seq(ContentCell)
    BY <1>5, <1>9
  <2>1. /\ a5 \in Seq(ContentCell) /\ Len(a5) = Len(a4) + Len(s5)
        /\ \A i \in 1 .. Len(a4) : a5[i] = a4[i]
        /\ \A i \in 1 .. Len(s5) : a5[Len(a4) + i] = s5[i]
    BY <2>a, Concatenation
  <2> HIDE DEF a5
  <2> QED
    BY <1>0, <2>1, <1>5, <1>9
<1> HIDE DEF a5
<1>11. HeaderSize = 9
  BY DEF HeaderSize
<1>12. \A i \in 1 .. 9 : a5[i] = a3[i]
  <2>1. \A i \in 1 .. 9 : i \in 1 .. 9 + k
    BY <1>0
  <2> QED
    BY <2>1, <1>9, <1>10
<1>13. a5[1] = ByteCell(r.type)
  BY <1>1, <1>7, <1>8, <1>12
<1>14. \A i \in 1 .. 4 : a5[1 + i] = ByteCell(LengthBytes(k)[i])
  <2> TAKE i \in 1 .. 4
  <2>1. 1 + i \in 1 .. 9 /\ 1 + i \in 1 .. 5
    OBVIOUS
  <2> QED
    BY <2>1, <1>2, <1>7, <1>8, <1>12
<1>15. \A i \in 1 .. 4 : a5[5 + i] = ByteCell(LengthBytes(v)[i])
  <2> TAKE i \in 1 .. 4
  <2>1. 5 + i \in 1 .. 9
    OBVIOUS
  <2> QED
    BY <2>1, <1>3, <1>8, <1>12
<1>16. \A i \in 1 .. k : a5[9 + i] = ByteCell(r.key[i])
  <2> TAKE i \in 1 .. k
  <2>1. 9 + i \in 1 .. 9 + k
    BY <1>0
  <2> QED
    BY <2>1, <1>4, <1>9, <1>10
<1>17. \A i \in 1 .. v : a5[9 + k + i] = ByteCell(r.value[i])
  BY <1>5, <1>10
<1>18. /\ Content(r) \in Seq(ContentCell)
       /\ Len(Content(r)) = 9 + k + v
       /\ Content(r)[1] = ByteCell(r.type)
       /\ \A i \in 1 .. 4 : Content(r)[1 + i] = ByteCell(LengthBytes(k)[i])
       /\ \A i \in 1 .. 4 : Content(r)[5 + i] = ByteCell(LengthBytes(v)[i])
       /\ \A i \in 1 .. k : Content(r)[9 + i] = ByteCell(r.key[i])
       /\ \A i \in 1 .. v : Content(r)[9 + k + i] = ByteCell(r.value[i])
  BY <1>6, <1>10, <1>13, <1>14, <1>15, <1>16, <1>17
<1> QED
  BY <1>11, <1>18 DEF k, v

LEMMA CellTypes ==
  /\ ContentCell \subseteq Cell
  /\ \A c \in Seq(ContentCell), i \in 1 .. CrcBytes : CrcCell(i, c) \in Cell
<1>1. ContentCell \subseteq Cell
  <2> SUFFICES ASSUME NEW c \in ContentCell PROVE c \in Cell
    OBVIOUS
  <2>1. c = [byte |-> c.byte, of |-> c.of] /\ c.byte \in Bytes /\ c.of = <<>>
    BY DEF ContentCell
  <2>2. c.byte \in -CrcBytes .. Base - 1
    BY <2>1, BaseType, LogAssumption DEF Bytes
  <2>3. c.of \in Seq(ContentCell)
    BY <2>1
  <2> QED
    BY <2>1, <2>2, <2>3 DEF Cell
<1>2. ASSUME NEW c \in Seq(ContentCell), NEW i \in 1 .. CrcBytes
      PROVE  CrcCell(i, c) \in Cell
  <2>1. -i \in -CrcBytes .. Base - 1
    BY BaseType, LogAssumption
  <2> QED
    BY <2>1 DEF CrcCell, Cell
<1> QED
  BY <1>1, <1>2

\* A record in the file is its content and the checksum of it.
LEMMA EncodedShape ==
  ASSUME NEW r \in Records
  PROVE  LET c == Content(r)
             e == Encoded(r)
         IN  /\ c \in Seq(ContentCell) /\ Len(c) \in Nat /\ Len(c) >= HeaderSize
             /\ e \in Seq(Cell) /\ Len(e) \in Nat
             /\ Len(e) = Len(c) + CrcBytes
             /\ Len(e) = Size(KeyLen(r), ValLen(r))
             /\ \A i \in 1 .. Len(c) : e[i] = c[i]
             /\ \A i \in 1 .. CrcBytes : e[Len(c) + i] = CrcCell(i, c)
<1> DEFINE c == Content(r)
           e == Encoded(r)
           k == KeyLen(r)
           v == ValLen(r)
           x == crc32(c)
<1>1. k \in Nat /\ v \in Nat /\ HeaderSize = 9 /\ CrcBytes \in Nat
  BY LengthsType, LogAssumption DEF HeaderSize
<1>2. c \in Seq(ContentCell) /\ Len(c) = HeaderSize + k + v
  BY ContentShape
<1> HIDE DEF c, k, v
<1>3. c \in Seq(Cell)
  <2> HIDE DEF c
  <2> QED
    BY <1>2, CellTypes
<1>4. x \in Seq(Cell) /\ Len(x) = CrcBytes /\ \A i \in 1 .. CrcBytes : x[i] = CrcCell(i, c)
  <2>1. \A i \in 1 .. CrcBytes : CrcCell(i, c) \in Cell
    BY <1>2, CellTypes
  <2>2. x = [i \in 1 .. CrcBytes |-> CrcCell(i, c)]
    BY DEF crc32
  <2> HIDE DEF x
  <2> QED
    BY <1>1, <2>1, <2>2
<1>5. e = c \o x
  BY DEF Encoded, c
<1> HIDE DEF e, x
<1>6. /\ e \in Seq(Cell) /\ Len(e) = Len(c) + Len(x)
      /\ \A i \in 1 .. Len(c) : e[i] = c[i]
      /\ \A i \in 1 .. Len(x) : e[Len(c) + i] = x[i]
  <2>1. c \in Seq(Cell) /\ x \in Seq(Cell)
    BY <1>3, <1>4
  <2>2. /\ c \o x \in Seq(Cell) /\ Len(c \o x) = Len(c) + Len(x)
        /\ \A i \in 1 .. Len(c) : (c \o x)[i] = c[i]
        /\ \A i \in 1 .. Len(x) : (c \o x)[Len(c) + i] = x[i]
    BY <2>1, Concatenation
  <2> QED
    BY <1>5, <2>2
<1>7. /\ Len(e) = Len(c) + CrcBytes
      /\ \A i \in 1 .. CrcBytes : e[Len(c) + i] = CrcCell(i, c)
  BY <1>4, <1>6
<1>8. Len(c) \in Nat /\ Len(c) >= HeaderSize /\ Len(e) \in Nat
  BY <1>1, <1>2, <1>7
<1>9. Len(e) = Size(k, v)
  BY <1>1, <1>2, <1>7 DEF Size
<1> QED
  BY <1>2, <1>6, <1>7, <1>8, <1>9 DEF c, e, k, v

-----------------------------------------------------------------------------
(* What is read of a record that is in the file.                           *)

\* The record fits into the 32 bits that appendRecord adds its lengths in.
RecordFits(r) == Len(r.key) + Len(r.value) < Word

LEMMA FittingLengths ==
  ASSUME NEW r \in Records, RecordFits(r)
  PROVE  /\ KeyLen(r) = Len(r.key) /\ ValLen(r) = Len(r.value)
         /\ Len(r.key) \in 0 .. Word - 1 /\ Len(r.value) \in 0 .. Word - 1
<1>1. Len(r.key) \in Nat /\ Len(r.value) \in Nat
  BY RecordType
<1>2. Len(r.key) \in 0 .. Word - 1 /\ Len(r.value) \in 0 .. Word - 1
  <2> DEFINE k == Len(r.key)
             v == Len(r.value)
  <2>1. k + v < Word
    BY DEF RecordFits
  <2>2. k \in Nat /\ v \in Nat
    BY <1>1
  <2> HIDE DEF k, v
  <2>3. k \in 0 .. Word - 1 /\ v \in 0 .. Word - 1
    BY <2>1, <2>2, BaseType
  <2> QED
    BY <2>3 DEF k, v
<1>3. Len(r.key) % Word = Len(r.key) /\ Len(r.value) % Word = Len(r.value)
  BY <1>2, BaseType, RemainderOfLess
<1>4. r.type = TOMBSTONE => Len(r.value) = 0
  BY RecordType
<1> QED
  BY <1>2, <1>3, <1>4 DEF KeyLen, ValLen

LEMMA LengthReadAt ==
  ASSUME NEW n \in 0 .. Word - 1, NEW p \in Int,
         \A i \in 1 .. 4 : file[p + i - 1] = ByteCell(LengthBytes(n)[i])
  PROVE  decodeUint32LE(p) = {n}
<1> DEFINE b == LengthBytes(n)
<1>0. n \in Nat
  BY BaseType
<1>1. b \in Seq(Bytes) /\ Len(b) = 4
  BY <1>0, LengthHasFourBytes
<1>2. Value(b[1], b[2], b[3], b[4]) = n
  BY LengthIsRead
<1>3. /\ file[p + 0] = ByteCell(b[1]) /\ file[p + 1] = ByteCell(b[2])
      /\ file[p + 2] = ByteCell(b[3]) /\ file[p + 3] = ByteCell(b[4])
  <2>1. /\ p + 1 - 1 = p + 0 /\ p + 2 - 1 = p + 1
        /\ p + 3 - 1 = p + 2 /\ p + 4 - 1 = p + 3
    OBVIOUS
  <2> HIDE DEF b
  <2>2. \A i \in 1 .. 4 : file[p + i - 1] = ByteCell(b[i])
    BY DEF b
  <2>3. /\ file[p + 1 - 1] = ByteCell(b[1]) /\ file[p + 2 - 1] = ByteCell(b[2])
        /\ file[p + 3 - 1] = ByteCell(b[3]) /\ file[p + 4 - 1] = ByteCell(b[4])
    BY <2>2
  <2> QED
    BY <2>1, <2>3
<1> HIDE DEF b
<1>4. b[1] \in Bytes /\ b[2] \in Bytes /\ b[3] \in Bytes /\ b[4] \in Bytes
  <2>1. \A i \in 1 .. Len(b) : b[i] \in Bytes
    BY ONLY <1>1, ElementOfSeq
  <2> QED
    BY <1>1, <2>1
<1>5. /\ file[p + 0].byte = b[1] /\ IsByte(file[p + 0])
      /\ file[p + 1].byte = b[2] /\ IsByte(file[p + 1])
      /\ file[p + 2].byte = b[3] /\ IsByte(file[p + 2])
      /\ file[p + 3].byte = b[4] /\ IsByte(file[p + 3])
  BY <1>3, <1>4, CellOfByte
<1>6. \A i \in 0 .. 3 : IsByte(file[p + i])
  <2> TAKE i \in 0 .. 3
  <2>1. i = 0 \/ i = 1 \/ i = 2 \/ i = 3
    OBVIOUS
  <2> QED
    BY <1>5, <2>1
<1>7. decodeUint32LE(p) = {Value(file[p + 0].byte, file[p + 1].byte, file[p + 2].byte, file[p + 3].byte)}
  BY <1>6 DEF decodeUint32LE, Value
<1> QED
  BY <1>2, <1>5, <1>7

\* Where the cells of a header are those of a record, the header of the record is read.
LEMMA HeaderRead ==
  ASSUME NEW r \in Records, RecordFits(r), NEW p \in Int,
         \A i \in 1 .. HeaderSize : file[p + i - 1] = Content(r)[i]
  PROVE  /\ file[p].byte = r.type
         /\ TypesAt(p) = {r.type}
         /\ decodeUint32LE(p + 1) = {Len(r.key)}
         /\ decodeUint32LE(p + 5) = {Len(r.value)}
<1> DEFINE c == Content(r)
<1>1. /\ KeyLen(r) = Len(r.key) /\ ValLen(r) = Len(r.value)
      /\ Len(r.key) \in 0 .. Word - 1 /\ Len(r.value) \in 0 .. Word - 1
  BY FittingLengths
<1>2. /\ c[1] = ByteCell(r.type)
      /\ \A i \in 1 .. 4 : c[1 + i] = ByteCell(LengthBytes(Len(r.key))[i])
      /\ \A i \in 1 .. 4 : c[5 + i] = ByteCell(LengthBytes(Len(r.value))[i])
  BY <1>1, ContentShape
<1>3. \A i \in 1 .. 9 : file[p + i - 1] = c[i]
  BY DEF HeaderSize
<1> HIDE DEF c
<1>4. file[p] = ByteCell(r.type)
  <2>1. p + 1 - 1 = p
    OBVIOUS
  <2>2. file[p + 1 - 1] = c[1]
    BY <1>3
  <2> QED
    BY <1>2, <2>1, <2>2
<1>5. r.type \in Bytes /\ r.type \in {PUT, TOMBSTONE}
  BY RecordType, BaseType DEF Bytes, PUT, TOMBSTONE
<1>6. file[p].byte = r.type /\ IsByte(file[p])
  BY <1>4, <1>5, CellOfByte
<1>7. TypesAt(p) = {r.type}
  BY <1>5, <1>6 DEF TypesAt
<1>8. \A i \in 1 .. 4 : file[(p + 1) + i - 1] = ByteCell(LengthBytes(Len(r.key))[i])
  <2> TAKE i \in 1 .. 4
  <2>1. 1 + i \in 1 .. 9 /\ (p + 1) + i - 1 = p + (1 + i) - 1
    OBVIOUS
  <2> QED
    BY <1>2, <1>3, <2>1
<1>9. \A i \in 1 .. 4 : file[(p + 5) + i - 1] = ByteCell(LengthBytes(Len(r.value))[i])
  <2> TAKE i \in 1 .. 4
  <2>1. 5 + i \in 1 .. 9 /\ (p + 5) + i - 1 = p + (5 + i) - 1
    OBVIOUS
  <2> QED
    BY <1>2, <1>3, <2>1
<1>10. decodeUint32LE(p + 1) = {Len(r.key)}
  <2>1. p + 1 \in Int
    OBVIOUS
  <2> QED
    BY <1>1, <1>8, <2>1, LengthReadAt
<1>11. decodeUint32LE(p + 5) = {Len(r.value)}
  <2>1. p + 5 \in Int
    OBVIOUS
  <2> QED
    BY <1>1, <1>9, <2>1, LengthReadAt
<1> QED
  BY <1>6, <1>7, <1>10, <1>11

\* Where the cells are those of a content, the key and the value are read.
LEMMA PayloadRead ==
  ASSUME NEW r \in Records, RecordFits(r), NEW p \in Int,
         \A i \in 1 .. Len(Content(r)) : file[p + i - 1] = Content(r)[i]
  PROVE  /\ BytesAt(p + HeaderSize, Len(r.key)) = r.key
         /\ BytesAt(p + HeaderSize + Len(r.key), Len(r.value)) = r.value
<1> DEFINE c == Content(r)
           k == Len(r.key)
           v == Len(r.value)
<1>1. KeyLen(r) = k /\ ValLen(r) = v
  BY FittingLengths
<1>2. k \in Nat /\ v \in Nat /\ r.key \in Seq(Bytes) /\ r.value \in Seq(Bytes)
  BY RecordType
<1>3. /\ Len(c) = 9 + k + v
      /\ \A i \in 1 .. k : c[9 + i] = ByteCell(r.key[i])
      /\ \A i \in 1 .. v : c[9 + k + i] = ByteCell(r.value[i])
  <2> DEFINE k0 == KeyLen(r)
             v0 == ValLen(r)
  <2>1. /\ Len(c) = HeaderSize + k0 + v0
        /\ \A i \in 1 .. k0 : c[HeaderSize + i] = ByteCell(r.key[i])
        /\ \A i \in 1 .. v0 : c[HeaderSize + k0 + i] = ByteCell(r.value[i])
    BY ContentShape
  <2>2. HeaderSize = 9
    BY DEF HeaderSize
  <2>3. k0 = k /\ v0 = v
    BY <1>1
  <2> HIDE DEF c, k, v, k0, v0
  <2> QED
    BY <2>1, <2>2, <2>3
<1> HIDE DEF c, k, v
<1>4. \A i \in 1 .. 9 + k + v : file[p + i - 1] = c[i]
  BY <1>3 DEF c
<1>5. \A i \in 1 .. k : file[(p + 9) + i - 1].byte = r.key[i]
  <2> TAKE i \in 1 .. k
  <2>1. 9 + i \in 1 .. 9 + k + v /\ (p + 9) + i - 1 = p + (9 + i) - 1
    BY <1>2
  <2>2. file[(p + 9) + i - 1] = ByteCell(r.key[i])
    BY <1>3, <1>4, <2>1
  <2>3. r.key[i] \in Bytes
    BY <1>2 DEF k
  <2> QED
    BY <2>2, <2>3, CellOfByte
<1>6. \A i \in 1 .. v : file[(p + 9 + k) + i - 1].byte = r.value[i]
  <2> TAKE i \in 1 .. v
  <2>1. 9 + k + i \in 1 .. 9 + k + v /\ (p + 9 + k) + i - 1 = p + (9 + k + i) - 1
    BY <1>2
  <2>2. file[(p + 9 + k) + i - 1] = ByteCell(r.value[i])
    BY <1>3, <1>4, <2>1
  <2>3. r.value[i] \in Bytes
    BY <1>2 DEF v
  <2> QED
    BY <2>2, <2>3, CellOfByte
<1>7. r.key = [i \in 1 .. k |-> r.key[i]] /\ r.value = [i \in 1 .. v |-> r.value[i]]
  BY <1>2 DEF k, v
<1>8. BytesAt(p + 9, k) = r.key
  <2>1. BytesAt(p + 9, k) = [i \in 1 .. k |-> file[(p + 9) + i - 1].byte]
    BY DEF BytesAt
  <2> QED
    BY <1>5, <1>7, <2>1
<1>9. BytesAt(p + 9 + k, v) = r.value
  <2>1. BytesAt(p + 9 + k, v) = [i \in 1 .. v |-> file[(p + 9 + k) + i - 1].byte]
    BY DEF BytesAt
  <2> QED
    BY <1>6, <1>7, <2>1
<1>10. HeaderSize = 9
  BY DEF HeaderSize
<1> QED
  BY <1>8, <1>9, <1>10 DEF k, v

-----------------------------------------------------------------------------
(* Steps: what each does to the file, and to the stream and the replay.    *)

FileType ==
  /\ file \in Seq(Cell)
  /\ pieces \in Seq(Records \cup {Torn})
  /\ ends \in Seq(Nat)
  /\ tears \in 0 .. MaxTears
  /\ damage \in 0 .. MaxDamage

\* The cells e are what went out of a piece.
PieceOf(e, piece) ==
  IF piece # Torn
    THEN piece \in Records /\ e = Encoded(piece)
    ELSE \E r \in Records : \E n \in 1 .. Len(Encoded(r)) - 1 : e = SubSeq(Encoded(r), 1, n)

Grown(e, piece) ==
  /\ PieceOf(e, piece)
  /\ file' = file \o e
  /\ pieces' = Append(pieces, piece)
  /\ ends' = Append(ends, Len(file'))
  /\ tears' \in 0 .. MaxTears
  /\ damage' = damage

Cleared ==
  file' = <<>> /\ pieces' = <<>> /\ ends' = <<>> /\ tears' = tears /\ damage' = 0

Damaged ==
  /\ \E p \in DOMAIN file, b \in Bytes : file' = [file EXCEPT ![p] = ByteCell(b)]
  /\ damage < MaxDamage /\ damage' = damage + 1
  /\ UNCHANGED <<pieces, ends, tears>>

FileStep == Nothing \/ (\E e, piece : Grown(e, piece)) \/ Cleared \/ Damaged

StreamStep ==
  /\ is_open' \in BOOLEAN /\ good' \in BOOLEAN /\ buffer' \in Records \cup {NoRecord}
  /\ \/ buffer' = NoRecord
     \/ is_open' = TRUE
     \/ buffer' = buffer /\ is_open' = is_open
  /\ \/ in' = Idle
     \/ is_open = TRUE /\ in' = in
     \/ is_open' = FALSE /\ in' = [Idle EXCEPT !.running = TRUE]

LEMMA WholeGrows ==
  ASSUME FileType, NEW r \in Records, Whole(r)
  PROVE  Grown(Encoded(r), r)
<1>1. r # Torn
  BY RecordType
<1> QED
  BY <1>1 DEF Whole, Grown, PieceOf, FileType

LEMMA CutShortGrows ==
  ASSUME FileType, NEW r \in Records, CutShort(r)
  PROVE  \E e : Grown(e, Torn)
<1>1. PICK n \in 1 .. Len(Encoded(r)) - 1 : file' = file \o SubSeq(Encoded(r), 1, n)
  BY DEF CutShort
<1>2. tears' \in 0 .. MaxTears
  BY LogAssumption DEF CutShort, FileType
<1>3. Grown(SubSeq(Encoded(r), 1, n), Torn)
  BY <1>1, <1>2 DEF CutShort, Grown, PieceOf
<1> QED
  BY <1>3

LEMMA CloseStreamWrites ==
  ASSUME FileType, buffer \in Records \cup {NoRecord}, CloseStream
  PROVE  FileStep
<1>1. CASE Nothing
  BY <1>1 DEF FileStep
<1>2. CASE buffer # NoRecord /\ Whole(buffer)
  BY <1>2, WholeGrows DEF FileStep
<1>3. CASE buffer # NoRecord /\ CutShort(buffer)
  BY <1>3, CutShortGrows DEF FileStep
<1> QED
  BY <1>1, <1>2, <1>3 DEF CloseStream

\* A step is one of the loop of replay, which writes nothing, or one that writes a
\* piece, empties the file, or changes a cell of it.
LEMMA Steps ==
  ASSUME TypeOK, Next
  PROVE  FileStep /\ (StreamStep \/ (ReplayStep /\ UNCHANGED stream /\ Nothing))
<1>0. /\ FileType /\ buffer \in Records \cup {NoRecord}
      /\ is_open \in BOOLEAN /\ good \in BOOLEAN
  BY DEF TypeOK, FileType
<1>1. CASE open
  <2>1. FileStep
    BY <1>0, <1>1, CloseStreamWrites DEF open
  <2> QED
    BY <1>1, <2>1 DEF open, StreamStep, CloseStream
<1>2. CASE close
  <2>1. FileStep
    BY <1>0, <1>2, CloseStreamWrites DEF close
  <2>2. is_open = TRUE
    BY <1>0, <1>2 DEF close
  <2> QED
    BY <1>0, <1>2, <2>1, <2>2 DEF close, StreamStep, CloseStream
<1>3. ASSUME NEW r \in Records, appendRecord(r)
      PROVE  FileStep /\ StreamStep
  <2>1. FileStep
    BY <1>0, <1>3, WholeGrows DEF appendRecord, FileStep
  <2>2. is_open = TRUE
    BY <1>0, <1>3 DEF appendRecord
  <2> QED
    BY <1>0, <1>3, <2>1, <2>2 DEF appendRecord, StreamStep, stream
<1>4. ASSUME NEW r \in Records, AppendFails(r)
      PROVE  FileStep /\ StreamStep
  <2>1. FileStep
    BY <1>0, <1>4, CutShortGrows DEF AppendFails, FileStep
  <2>2. is_open = TRUE
    BY <1>0, <1>4 DEF AppendFails
  <2> QED
    BY <1>0, <1>4, <2>1, <2>2 DEF AppendFails, StreamStep
<1>5. ASSUME NEW r \in Records, AppendLost(r)
      PROVE  FileStep /\ StreamStep
  <2>1. FileStep
    BY <1>0, <1>5, CutShortGrows DEF AppendLost, FileStep
  <2>2. is_open = TRUE
    BY <1>0, <1>5 DEF AppendLost
  <2> QED
    BY <1>0, <1>5, <2>1, <2>2 DEF AppendLost, StreamStep
<1>6. CASE clear
  <2>1. is_open = TRUE
    BY <1>0, <1>6 DEF clear
  <2> QED
    BY <1>6, <2>1 DEF clear, FileStep, Cleared, StreamStep
<1>7. CASE ClearFails
  <2>1. FileStep
    BY <1>0, <1>7, CloseStreamWrites DEF ClearFails
  <2>2. is_open = TRUE
    BY <1>0, <1>7 DEF ClearFails
  <2> QED
    BY <1>7, <2>1, <2>2 DEF ClearFails, StreamStep, CloseStream
<1>8. CASE StartReplay
  <2>1. is_open = FALSE
    BY <1>0, <1>8 DEF StartReplay
  <2> QED
    BY <1>0, <1>8, <2>1 DEF StartReplay, FileStep, Nothing, StreamStep, stream
<1>9. CASE ReplayStep
  BY <1>9 DEF ReplayStep, FileStep, Nothing
<1>10. CASE Crash
  <2>1. CASE Nothing
    BY <1>10, <2>1 DEF Crash, FileStep, StreamStep
  <2>2. CASE \E r \in Records : CutShort(r)
    BY <1>0, <1>10, <2>2, CutShortGrows DEF Crash, FileStep, StreamStep
  <2> QED
    BY <1>10, <2>1, <2>2 DEF Crash
<1>11. CASE Damage
  BY <1>0, <1>11 DEF Damage, FileStep, Damaged, StreamStep, stream
<1> QED
  BY <1>1, <1>2, <1>3, <1>4, <1>5, <1>6, <1>7, <1>8, <1>9, <1>10, <1>11 DEF Next

LEMMA PieceOfType ==
  ASSUME NEW e, NEW piece, PieceOf(e, piece)
  PROVE  e \in Seq(Cell) /\ Len(e) \in Nat /\ Len(e) > 0 /\ piece \in Records \cup {Torn}
<1>1. CASE piece # Torn
  <2>1. piece \in Records /\ e = Encoded(piece)
    BY <1>1 DEF PieceOf
  <2>2. e \in Seq(Cell) /\ Len(e) \in Nat /\ Len(e) = Len(Content(piece)) + CrcBytes
    BY <2>1, EncodedShape
  <2>3. Len(Content(piece)) \in Nat
    BY <2>1, EncodedShape
  <2> DEFINE n == Len(Content(piece))
  <2> HIDE DEF n
  <2>4. Len(e) > 0
    BY <2>2, <2>3, LogAssumption DEF n
  <2> QED
    BY <2>1, <2>2, <2>4
<1>2. CASE piece = Torn
  <2>a. PICK r \in Records : \E n \in 1 .. Len(Encoded(r)) - 1 : e = SubSeq(Encoded(r), 1, n)
    BY <1>2 DEF PieceOf
  <2>1. PICK n \in 1 .. Len(Encoded(r)) - 1 : e = SubSeq(Encoded(r), 1, n)
    BY <2>a
  <2> DEFINE x == Encoded(r)
  <2>2. x \in Seq(Cell) /\ Len(x) \in Nat
    BY EncodedShape
  <2> HIDE DEF x
  <2>3. n \in 1 .. Len(x) - 1 /\ e = SubSeq(x, 1, n)
    BY <2>1 DEF x
  <2>4. e \in Seq(Cell) /\ Len(e) = n
    BY <2>2, <2>3
  <2> QED
    BY <1>2, <2>2, <2>3, <2>4
<1> QED
  BY <1>1, <1>2

LEMMA GrownFacts ==
  ASSUME FileType, NEW e, NEW piece, Grown(e, piece)
  PROVE  /\ FileType'
         /\ Len(file') = Len(file) + Len(e) /\ Len(file') > Len(file)
         /\ \A p \in 1 .. Len(file) : file'[p] = file[p]
         /\ \A p \in 1 .. Len(e) : file'[Len(file) + p] = e[p]
         /\ Len(pieces') = Len(pieces) + 1 /\ Len(ends') = Len(ends) + 1
         /\ \A i \in 1 .. Len(pieces) : pieces'[i] = pieces[i]
         /\ pieces'[Len(pieces) + 1] = piece
         /\ \A i \in 1 .. Len(ends) : ends'[i] = ends[i]
         /\ ends'[Len(ends) + 1] = Len(file')
<1>1. e \in Seq(Cell) /\ Len(e) \in Nat /\ Len(e) > 0 /\ piece \in Records \cup {Torn}
  BY PieceOfType DEF Grown
<1>2. file \in Seq(Cell) /\ Len(file) \in Nat
  BY DEF FileType
<1>3. /\ file' \in Seq(Cell) /\ Len(file') = Len(file) + Len(e)
      /\ \A p \in 1 .. Len(file) : file'[p] = file[p]
      /\ \A p \in 1 .. Len(e) : file'[Len(file) + p] = e[p]
  <2>1. file \in Seq(Cell) /\ e \in Seq(Cell)
    BY <1>1, <1>2
  <2>2. /\ file \o e \in Seq(Cell) /\ Len(file \o e) = Len(file) + Len(e)
        /\ \A p \in 1 .. Len(file) : (file \o e)[p] = file[p]
        /\ \A p \in 1 .. Len(e) : (file \o e)[Len(file) + p] = e[p]
    BY <2>1, Concatenation
  <2> QED
    BY <2>2 DEF Grown
<1>4. /\ pieces' \in Seq(Records \cup {Torn}) /\ Len(pieces') = Len(pieces) + 1
      /\ \A i \in 1 .. Len(pieces) : pieces'[i] = pieces[i]
      /\ pieces'[Len(pieces) + 1] = piece
  BY <1>1, AppendProperties DEF Grown, FileType
<1>5. Len(file') \in Nat
  BY <1>1, <1>2, <1>3
<1>6. /\ ends' \in Seq(Nat) /\ Len(ends') = Len(ends) + 1
      /\ \A i \in 1 .. Len(ends) : ends'[i] = ends[i]
      /\ ends'[Len(ends) + 1] = Len(file')
  BY <1>5, AppendProperties DEF Grown, FileType
<1>7. FileType'
  BY <1>3, <1>4, <1>6 DEF FileType, Grown
<1>8. Len(file') > Len(file)
  BY <1>1, <1>2, <1>3
<1> HIDE DEF FileType
<1> QED
  BY <1>3, <1>4, <1>6, <1>7, <1>8, Zenon

LEMMA FileStepType ==
  ASSUME FileType, FileStep
  PROVE  FileType'
<1>1. CASE Nothing
  BY <1>1 DEF Nothing, history, FileType
<1>2. CASE \E e, piece : Grown(e, piece)
  BY <1>2, GrownFacts
<1>3. CASE Cleared
  BY <1>3, LogAssumption DEF Cleared, FileType
<1>4. CASE Damaged
  <2>1. PICK p \in DOMAIN file, b \in Bytes : file' = [file EXCEPT ![p] = ByteCell(b)]
    BY <1>4 DEF Damaged
  <2>2. ByteCell(b) \in Cell
    BY CellOfByte
  <2>3. file' \in Seq(Cell)
    BY <2>1, <2>2 DEF FileType
  <2>4. damage' \in 0 .. MaxDamage
    BY <1>4, LogAssumption DEF Damaged, FileType
  <2> QED
    BY <1>4, <2>3, <2>4 DEF Damaged, FileType
<1> QED
  BY <1>1, <1>2, <1>3, <1>4 DEF FileStep

ReplayType ==
  /\ in \in [running   : BOOLEAN,
             at        : 1 .. Len(file) + 1,
             delivered : Seq([type : {PUT, TOMBSTONE}, key : Seq(Int), value : Seq(Int)]),
             status    : {"none", "ok", "truncated", "corruption"}]
  /\ in.running => in.status = "none"

LEMMA IdleType ==
  ASSUME file' \in Seq(Cell), in' = Idle \/ in' = [Idle EXCEPT !.running = TRUE]
  PROVE  ReplayType'
<1>1. 1 \in 1 .. Len(file') + 1
  BY LenProperties
<1>2. <<>> \in Seq([type : {PUT, TOMBSTONE}, key : Seq(Int), value : Seq(Int)])
  OBVIOUS
<1>3. PICK b \in BOOLEAN :
        in' = [running |-> b, at |-> 1, delivered |-> <<>>, status |-> "none"]
  BY DEF Idle
<1> QED
  BY <1>1, <1>2, <1>3 DEF ReplayType

\* The lengths that cells are read as are numbers.
LEMMA DecodedType ==
  ASSUME file \in Seq(Cell), NEW p \in Nat, p > 0, p + 3 <= Len(file),
         NEW n \in decodeUint32LE(p)
  PROVE  n \in Nat
<1> DEFINE b(i) == file[p + i].byte
<1>1. CASE \A i \in 0 .. 3 : IsByte(file[p + i])
  <2>1. \A i \in 0 .. 3 : b(i) \in Nat
    <3> TAKE i \in 0 .. 3
    <3>1. p + i \in 1 .. Len(file)
      BY LenProperties
    <3>2. file[p + i] \in Cell
      BY <3>1, ElementOfSeq
    <3>3. file[p + i].byte \in -CrcBytes .. Base - 1
      BY <3>2 DEF Cell
    <3>4. file[p + i].byte >= 0
      BY <1>1 DEF IsByte
    <3> QED
      BY <3>3, <3>4, BaseType, LogAssumption
  <2>2. b(0) \in Nat /\ b(1) \in Nat /\ b(2) \in Nat /\ b(3) \in Nat
    BY <2>1
  <2>3. n = b(0) + Base * (b(1) + Base * (b(2) + Base * b(3)))
    BY <1>1 DEF decodeUint32LE
  <2> HIDE DEF b
  <2>4. \A x, y \in Nat : x + Base * y \in Nat
    BY BaseType, ProductIsNat
  <2>5. b(2) + Base * b(3) \in Nat
    BY <2>2, <2>4
  <2>6. b(1) + Base * (b(2) + Base * b(3)) \in Nat
    BY <2>2, <2>4, <2>5
  <2> QED
    BY <2>2, <2>3, <2>4, <2>6
<1>2. CASE ~\A i \in 0 .. 3 : IsByte(file[p + i])
  <2>1. n \in 0 .. Word - 1
    BY <1>2 DEF decodeUint32LE
  <2> QED
    BY <2>1, BaseType
<1> QED
  BY <1>1, <1>2

LEMMA BytesAtType ==
  ASSUME file \in Seq(Cell), NEW p \in Nat, p > 0, NEW n \in Nat, p + n - 1 <= Len(file)
  PROVE  BytesAt(p, n) \in Seq(Int)
<1>1. \A i \in 1 .. n : file[p + i - 1].byte \in Int
  <2> TAKE i \in 1 .. n
  <2>1. p + i - 1 \in 1 .. Len(file)
    BY LenProperties
  <2>2. file[p + i - 1] \in Cell
    BY <2>1, ElementOfSeq
  <2> QED
    BY <2>2, LogAssumption DEF Cell
<1>2. BytesAt(p, n) = [i \in 1 .. n |-> file[p + i - 1].byte]
  BY DEF BytesAt
<1> QED
  BY <1>1, <1>2

\* A turn of the loop that reads a header takes some type and some lengths from it.
HeaderStep(type, key_len, val_len) ==
  \/ LengthsRefused(key_len, val_len)
  \/ PayloadTruncated(key_len, val_len)
  \/ ChecksumRefused(key_len, val_len)
  \/ Deliver(type, key_len, val_len)

LEMMA ReplayStepCases ==
  ASSUME FileType, ReplayType, ReplayStep
  PROVE  /\ in.running /\ in.status = "none"
         /\ in.at \in Nat /\ in.at > 0 /\ Left \in Nat /\ Left = Len(file) - in.at + 1
         /\ \/ ReplayEnds
            \/ HeaderTruncated
            \/ TypeRefused
            \/ \E type \in TypesAt(in.at),
                  key_len \in decodeUint32LE(in.at + 1),
                  val_len \in decodeUint32LE(in.at + 5) :
                 /\ Left >= HeaderSize
                 /\ type \in {PUT, TOMBSTONE}
                 /\ key_len \in Nat /\ val_len \in Nat
                 /\ HeaderStep(type, key_len, val_len)
<1>1. in.running /\ in.status = "none"
  BY DEF ReplayStep, ReplayType
<1>2. in.at \in 1 .. Len(file) + 1 /\ Len(file) \in Nat /\ file \in Seq(Cell)
  BY DEF ReplayType, FileType
<1>3. in.at \in Nat /\ in.at > 0 /\ Left \in Nat /\ Left = Len(file) - in.at + 1
  BY <1>2 DEF Left
<1>4. ASSUME Left >= HeaderSize,
             NEW type \in TypesAt(in.at),
             NEW key_len \in decodeUint32LE(in.at + 1),
             NEW val_len \in decodeUint32LE(in.at + 5)
      PROVE  type \in {PUT, TOMBSTONE} /\ key_len \in Nat /\ val_len \in Nat
  <2>1. /\ in.at + 1 \in Nat /\ in.at + 1 > 0 /\ (in.at + 1) + 3 <= Len(file)
        /\ in.at + 5 \in Nat /\ in.at + 5 > 0 /\ (in.at + 5) + 3 <= Len(file)
    BY <1>2, <1>3, <1>4 DEF HeaderSize
  <2>2. key_len \in Nat /\ val_len \in Nat
    BY <1>2, <2>1, DecodedType
  <2>3. type \in {PUT, TOMBSTONE}
    BY DEF TypesAt
  <2> QED
    BY <2>2, <2>3
<1>5. \/ ReplayEnds
      \/ HeaderTruncated
      \/ TypeRefused
      \/ /\ Left >= HeaderSize
         /\ \E type \in TypesAt(in.at),
               key_len \in decodeUint32LE(in.at + 1),
               val_len \in decodeUint32LE(in.at + 5) : HeaderStep(type, key_len, val_len)
  BY DEF ReplayStep, HeaderStep
<1> QED
  BY <1>1, <1>3, <1>4, <1>5

\* Replay that ends keeps what it has handed out.
LEMMA EndsType ==
  ASSUME ReplayType, NEW status \in {"ok", "truncated", "corruption"}, Ends(status),
         UNCHANGED file
  PROVE  /\ ReplayType'
         /\ in'.delivered = in.delivered /\ in'.at = in.at /\ in'.status = status
  BY DEF ReplayType, Ends

LEMMA DeliverShape ==
  ASSUME ReplayType, FileType, in.running, NEW type \in {PUT, TOMBSTONE},
         NEW key_len \in Nat, NEW val_len \in Nat, Deliver(type, key_len, val_len),
         UNCHANGED file
  PROVE  /\ ReplayType'
         /\ in'.at = in.at + Size(key_len, val_len)
         /\ in'.status = "none"
         /\ Len(in'.delivered) = Len(in.delivered) + 1
         /\ \A i \in 1 .. Len(in.delivered) : in'.delivered[i] = in.delivered[i]
         /\ in'.delivered[Len(in.delivered) + 1] =
              [type  |-> type,
               key   |-> BytesAt(in.at + HeaderSize, key_len),
               value |-> BytesAt(in.at + HeaderSize + key_len, val_len)]
<1> DEFINE D == [type : {PUT, TOMBSTONE}, key : Seq(Int), value : Seq(Int)]
           r == [type  |-> type,
                 key   |-> BytesAt(in.at + HeaderSize, key_len),
                 value |-> BytesAt(in.at + HeaderSize + key_len, val_len)]
<1>1. /\ in.at \in 1 .. Len(file) + 1 /\ Len(file) \in Nat /\ file \in Seq(Cell)
      /\ in.delivered \in Seq(D) /\ in.status = "none"
  BY DEF ReplayType, FileType
<1>2. Len(file) - in.at + 1 >= Size(key_len, val_len)
  BY DEF Deliver, Left
<1>3. /\ Size(key_len, val_len) \in Nat /\ Size(key_len, val_len) = 9 + key_len + val_len + CrcBytes
      /\ CrcBytes \in Nat /\ HeaderSize = 9
  BY LogAssumption DEF Size, HeaderSize
<1>4. r \in D
  <2>1. /\ in.at + HeaderSize \in Nat /\ in.at + HeaderSize > 0
        /\ (in.at + HeaderSize) + key_len - 1 <= Len(file)
    BY <1>1, <1>2, <1>3
  <2>2. /\ in.at + HeaderSize + key_len \in Nat /\ in.at + HeaderSize + key_len > 0
        /\ (in.at + HeaderSize + key_len) + val_len - 1 <= Len(file)
    BY <1>1, <1>2, <1>3
  <2>3. BytesAt(in.at + HeaderSize, key_len) \in Seq(Int)
    BY <1>1, <2>1, BytesAtType
  <2>4. BytesAt(in.at + HeaderSize + key_len, val_len) \in Seq(Int)
    BY <1>1, <2>2, BytesAtType
  <2> QED
    BY <2>3, <2>4
<1>5. in' = [in EXCEPT !.at = in.at + Size(key_len, val_len), !.delivered = Append(in.delivered, r)]
  BY DEF Deliver
<1> HIDE DEF D, r
<1>6. /\ Append(in.delivered, r) \in Seq(D)
      /\ Len(Append(in.delivered, r)) = Len(in.delivered) + 1
      /\ \A i \in 1 .. Len(in.delivered) : Append(in.delivered, r)[i] = in.delivered[i]
      /\ Append(in.delivered, r)[Len(in.delivered) + 1] = r
  BY <1>1, <1>4, AppendProperties
<1>7. in.at + Size(key_len, val_len) \in 1 .. Len(file) + 1
  BY <1>1, <1>2, <1>3
<1>8. /\ in'.at = in.at + Size(key_len, val_len)
      /\ in'.delivered = Append(in.delivered, r)
      /\ in'.status = in.status /\ in'.running = in.running
  BY <1>5 DEF ReplayType
<1>9. ReplayType'
  BY <1>1, <1>5, <1>6, <1>7 DEF ReplayType, D
<1> QED
  BY <1>1, <1>6, <1>8, <1>9 DEF r

LEMMA ReplayStepType ==
  ASSUME FileType, ReplayType, ReplayStep, UNCHANGED file
  PROVE  ReplayType'
<1>1. CASE ReplayEnds
  BY <1>1, EndsType DEF ReplayEnds
<1>2. CASE HeaderTruncated
  BY <1>2, EndsType DEF HeaderTruncated
<1>3. CASE TypeRefused
  BY <1>3, EndsType DEF TypeRefused
<1>4. ASSUME NEW type \in {PUT, TOMBSTONE}, NEW key_len \in Nat, NEW val_len \in Nat,
             HeaderStep(type, key_len, val_len)
      PROVE  ReplayType'
  <2>1. CASE LengthsRefused(key_len, val_len)
    BY <2>1, EndsType DEF LengthsRefused
  <2>2. CASE PayloadTruncated(key_len, val_len)
    BY <2>2, EndsType DEF PayloadTruncated
  <2>3. CASE ChecksumRefused(key_len, val_len)
    BY <2>3, EndsType DEF ChecksumRefused
  <2>4. CASE Deliver(type, key_len, val_len)
    BY <2>4, ReplayStepCases, DeliverShape
  <2> QED
    BY <1>4, <2>1, <2>2, <2>3, <2>4 DEF HeaderStep
<1> QED
  BY <1>1, <1>2, <1>3, <1>4, ReplayStepCases

LEMMA TypeParts == TypeOK <=> /\ is_open \in BOOLEAN /\ good \in BOOLEAN
                              /\ buffer \in Records \cup {NoRecord}
                              /\ FileType /\ ReplayType
  BY DEF TypeOK, FileType, ReplayType

LEMMA InitType == Init => TypeOK /\ StreamOrReplay
<1> SUFFICES ASSUME Init PROVE TypeOK /\ StreamOrReplay
  OBVIOUS
<1>1. FileType
  BY LogAssumption DEF Init, FileType
<1>2. ReplayType
  <2>1. <<>> \in Seq([type : {PUT, TOMBSTONE}, key : Seq(Int), value : Seq(Int)])
    OBVIOUS
  <2>2. in = [running |-> FALSE, at |-> 1, delivered |-> <<>>, status |-> "none"]
    BY DEF Init, Idle
  <2>3. 1 \in 1 .. Len(file) + 1
    BY DEF Init
  <2> QED
    BY <2>1, <2>2, <2>3 DEF ReplayType
<1> QED
  BY <1>1, <1>2, TypeParts DEF Init, StreamOrReplay

LEMMA StreamOrReplayStep ==
  ASSUME TypeOK, StreamOrReplay, StreamStep
  PROVE  StreamOrReplay' /\ (in' = Idle \/ in' = [Idle EXCEPT !.running = TRUE])
<1>1. in' = Idle \/ (is_open' = FALSE /\ in' = [Idle EXCEPT !.running = TRUE])
  BY DEF StreamStep, StreamOrReplay
<1>2. is_open' => in' = Idle
  BY <1>1
<1>3. buffer' # NoRecord => is_open'
  BY DEF StreamStep, StreamOrReplay
<1> QED
  BY <1>1, <1>2, <1>3 DEF StreamOrReplay

LEMMA TypeStep == TypeOK /\ StreamOrReplay /\ [Next]_vars => TypeOK' /\ StreamOrReplay'
<1> SUFFICES ASSUME TypeOK, StreamOrReplay, [Next]_vars PROVE TypeOK' /\ StreamOrReplay'
  OBVIOUS
<1>0. FileType /\ ReplayType
  BY TypeParts
<1>1. CASE Next
  <2>1. FileStep /\ (StreamStep \/ (ReplayStep /\ UNCHANGED stream /\ Nothing))
    BY <1>1, Steps
  <2>2. FileType'
    BY <1>0, <2>1, FileStepType
  <2>3. CASE ReplayStep /\ UNCHANGED stream /\ Nothing
    <3>1. ReplayType'
      BY <1>0, <2>3, ReplayStepType DEF Nothing
    <3>2. TypeOK'
      BY <2>2, <2>3, <3>1 DEF TypeOK, FileType, ReplayType, stream
    <3>3. ~is_open
      <4>1. in.running = TRUE
        BY <1>0, <2>3, ReplayStepCases DEF ReplayType
      <4> QED
        BY <4>1 DEF StreamOrReplay, Idle
    <3>4. StreamOrReplay'
      BY <2>3, <3>3 DEF StreamOrReplay, stream
    <3> QED
      BY <3>2, <3>4
  <2>4. CASE StreamStep
    <3>1. StreamOrReplay' /\ (in' = Idle \/ in' = [Idle EXCEPT !.running = TRUE])
      BY <2>4, StreamOrReplayStep
    <3>2. file' \in Seq(Cell)
      BY <2>2 DEF FileType
    <3>3. ReplayType'
      BY <3>1, <3>2, IdleType
    <3> QED
      BY <2>2, <2>4, <3>1, <3>3 DEF TypeOK, FileType, ReplayType, StreamStep
  <2> QED
    BY <2>1, <2>3, <2>4
<1>2. CASE UNCHANGED vars
  BY <1>2 DEF vars, stream, history, TypeOK, StreamOrReplay
<1> QED
  BY <1>1, <1>2

\* The log keeps to its types: replay stays within the file, hands out records of the
\* two types, and has no status before it ends (wal.cpp:124-227).
THEOREM LogTypeCorrect == Spec => []TypeOK
<1>1. Init => TypeOK /\ StreamOrReplay
  BY InitType
<1>2. TypeOK /\ StreamOrReplay /\ [Next]_vars => TypeOK' /\ StreamOrReplay'
  BY TypeStep
<1> QED
  BY <1>1, <1>2, PTL DEF Spec

-----------------------------------------------------------------------------
(* The file stays laid out, and its checksums true.                        *)

\* The last cell of a checksum is the last of its record, and no other cell is one.
LEMMA LastChecksumCell ==
  ASSUME NEW r \in Records, NEW j \in 1 .. Len(Encoded(r)), Encoded(r)[j].byte = -CrcBytes
  PROVE  j = Len(Encoded(r)) /\ Encoded(r)[j].of = Content(r)
<1> DEFINE c == Content(r)
           x == Encoded(r)
           n == Len(c)
<1>1. /\ c \in Seq(ContentCell) /\ n \in Nat
      /\ Len(x) = n + CrcBytes
      /\ \A i \in 1 .. n : x[i] = c[i]
      /\ \A i \in 1 .. CrcBytes : x[n + i] = CrcCell(i, c)
  BY EncodedShape
<1>2. x[j].byte = -CrcBytes /\ j \in 1 .. Len(x)
  OBVIOUS
<1>3. \A i \in 1 .. n : c[i].byte \in Bytes
  <2> TAKE i \in 1 .. n
  <2>1. c[i] \in ContentCell
    BY <1>1, ElementOfSeq
  <2> QED
    BY <2>1 DEF ContentCell
<1> HIDE DEF c, x, n
<1>4. CASE j \in 1 .. n
  <2>1. x[j].byte \in Bytes
    BY <1>1, <1>3, <1>4
  <2> QED
    BY <1>2, <2>1, LogAssumption DEF Bytes
<1>5. CASE j \notin 1 .. n
  <2>1. PICK i \in 1 .. CrcBytes : j = n + i
    <3>1. j - n \in 1 .. CrcBytes /\ j = n + (j - n)
      BY <1>1, <1>2, <1>5, LogAssumption
    <3> QED
      BY <3>1
  <2>2. x[j] = CrcCell(i, c)
    BY <1>1, <2>1
  <2>3. x[j].byte = -i /\ x[j].of = c
    BY <2>2 DEF CrcCell
  <2>4. i = CrcBytes
    BY <1>2, <2>3, LogAssumption
  <2> QED
    BY <1>1, <2>1, <2>3, <2>4 DEF c, x
<1> QED
  BY <1>4, <1>5

\* A piece that was cut short has no last cell of a checksum.
LEMMA LastChecksumCellOfPiece ==
  ASSUME NEW e, NEW piece, PieceOf(e, piece), NEW j \in 1 .. Len(e), e[j].byte = -CrcBytes
  PROVE  piece # Torn /\ j = Len(e) /\ e[j].of = Content(piece)
<1>1. CASE piece # Torn
  BY <1>1, LastChecksumCell DEF PieceOf
<1>2. CASE piece = Torn
  <2>a. PICK r \in Records : \E n \in 1 .. Len(Encoded(r)) - 1 : e = SubSeq(Encoded(r), 1, n)
    BY <1>2 DEF PieceOf
  <2>1. PICK n \in 1 .. Len(Encoded(r)) - 1 : e = SubSeq(Encoded(r), 1, n)
    BY <2>a
  <2> DEFINE x == Encoded(r)
  <2>2. x \in Seq(Cell) /\ Len(x) \in Nat
    BY EncodedShape
  <2>3. \A i \in 1 .. Len(x) : x[i].byte = -CrcBytes => i = Len(x)
    BY LastChecksumCell
  <2> HIDE DEF x
  <2>4. n \in 1 .. Len(x) - 1 /\ e = SubSeq(x, 1, n)
    BY <2>1 DEF x
  <2>5. Len(e) = n /\ \A i \in 1 .. n : e[i] = x[i]
    BY <2>2, <2>4
  <2>6. j \in 1 .. Len(x) /\ j # Len(x) /\ e[j] = x[j]
    BY <2>2, <2>4, <2>5
  <2> QED
    BY <2>3, <2>6
<1> QED
  BY <1>1, <1>2

LEMMA LaidOutStep ==
  ASSUME FileType, LaidOut, FileStep
  PROVE  LaidOut'
<1>1. CASE Nothing
  BY <1>1 DEF Nothing, history, LaidOut, End
<1>2. CASE Cleared
  BY <1>2 DEF Cleared, LaidOut, End
<1>3. CASE Damaged
  <2>1. PICK p \in DOMAIN file, b \in Bytes : file' = [file EXCEPT ![p] = ByteCell(b)]
    BY <1>3 DEF Damaged
  <2>2. ByteCell(b) \in Cell /\ file \in Seq(Cell) /\ p \in 1 .. Len(file)
    BY CellOfByte DEF FileType
  <2>3. Len(file') = Len(file)
    BY <2>1, <2>2, ExceptSeq
  <2> QED
    BY <1>3, <2>3 DEF Damaged, LaidOut, End
<1>4. ASSUME NEW e, NEW piece, Grown(e, piece)
      PROVE  LaidOut'
  <2> DEFINE n == Len(pieces)
             E0(i) == End(i)
             E1(i) == IF i = 0 THEN 0 ELSE ends'[i]
  <2>1. /\ n \in Nat /\ Len(ends) = n /\ Len(file) \in Nat /\ Len(e) \in Nat /\ Len(e) > 0
    BY <1>4, PieceOfType DEF Grown, LaidOut, FileType
  <2>2. /\ Len(file') = Len(file) + Len(e)
        /\ Len(pieces') = n + 1 /\ Len(ends') = n + 1
        /\ \A i \in 1 .. n : pieces'[i] = pieces[i] /\ ends'[i] = ends[i]
        /\ pieces'[n + 1] = piece
        /\ ends'[n + 1] = Len(file')
    BY <1>4, <2>1, GrownFacts
  <2>3. /\ E0(n) = Len(file)
        /\ \A i \in 0 .. n : \A j \in 0 .. i - 1 : E0(j) < E0(i)
        /\ \A i \in 1 .. n : pieces[i] # Torn => E0(i) = E0(i - 1) + Len(Encoded(pieces[i]))
    <3>1. DOMAIN pieces = 1 .. n
      BY DEF FileType
    <3> HIDE DEF n
    <3> QED
      BY <3>1 DEF LaidOut, n
  <2>4. \A i \in 0 .. n : E1(i) = E0(i)
    BY <2>1, <2>2 DEF End
  <2>5. E1(n + 1) = Len(file) + Len(e)
    BY <2>1, <2>2
  <2>6. \A i \in 0 .. n : E0(i) \in Int
    <3> TAKE i \in 0 .. n
    <3>1. i # 0 => ends[i] \in Nat
      BY <2>1, ElementOfSeq DEF FileType
    <3> QED
      BY <3>1 DEF End
  <2>7. piece # Torn => Len(e) = Len(Encoded(piece))
    BY <1>4 DEF Grown, PieceOf
  <2>8. DOMAIN pieces' = 1 .. n + 1
    BY <1>4, <2>2, GrownFacts DEF FileType
  <2> HIDE DEF n, E0, E1
  <2>9. \A i \in 0 .. n + 1 : \A j \in 0 .. i - 1 : E1(j) < E1(i)
    <3> TAKE i \in 0 .. n + 1
    <3> TAKE j \in 0 .. i - 1
    <3>1. CASE i \in 0 .. n
      <4>1. j \in 0 .. n
        BY <2>1, <3>1
      <4> QED
        BY <2>3, <2>4, <3>1, <4>1
    <3>2. CASE i = n + 1
      <4>1. j \in 0 .. n /\ n \in 0 .. n
        BY <2>1, <3>2
      <4>2. j = n \/ j \in 0 .. n - 1
        BY <2>1, <4>1
      <4>3. E0(j) <= Len(file)
        BY <2>1, <2>3, <2>6, <4>1, <4>2
      <4>4. E1(j) \in Int /\ E1(j) <= Len(file)
        BY <2>4, <2>6, <4>1, <4>3
      <4> QED
        BY <2>1, <2>5, <3>2, <4>4
    <3> QED
      BY <2>1, <3>1, <3>2
  <2>10. \A i \in 1 .. n + 1 :
           pieces'[i] # Torn => E1(i) = E1(i - 1) + Len(Encoded(pieces'[i]))
    <3> TAKE i \in 1 .. n + 1
    <3>1. CASE i \in 1 .. n
      <4>1. i \in 0 .. n /\ i - 1 \in 0 .. n
        BY <2>1, <3>1
      <4> QED
        BY <2>2, <2>3, <2>4, <3>1, <4>1
    <3>2. CASE i = n + 1
      <4>1. i - 1 = n /\ n \in 0 .. n
        BY <2>1, <3>2
      <4>2. E1(i - 1) = Len(file)
        BY <2>3, <2>4, <4>1
      <4> QED
        BY <2>2, <2>5, <2>7, <3>2, <4>2
    <3> QED
      BY <2>1, <3>1, <3>2
  <2>11. /\ Len(ends') = Len(pieces')
         /\ E1(Len(pieces')) = Len(file')
         /\ \A i \in 0 .. Len(pieces') : \A j \in 0 .. i - 1 : E1(j) < E1(i)
         /\ \A i \in DOMAIN pieces' :
              pieces'[i] # Torn => E1(i) = E1(i - 1) + Len(Encoded(pieces'[i]))
    BY <2>2, <2>5, <2>8, <2>9, <2>10
  <2> QED
    BY <2>11 DEF LaidOut, End, E1
<1> QED
  BY <1>1, <1>2, <1>3, <1>4 DEF FileStep

LEMMA ChecksumsStep ==
  ASSUME FileType, LaidOut, ChecksumsTrue, FileStep
  PROVE  ChecksumsTrue'
<1>1. CASE Nothing
  BY <1>1 DEF Nothing, history, ChecksumsTrue, End
<1>2. CASE Cleared
  BY <1>2 DEF Cleared, ChecksumsTrue
<1>3. CASE Damaged
  <2>1. PICK p \in DOMAIN file, b \in Bytes : file' = [file EXCEPT ![p] = ByteCell(b)]
    BY <1>3 DEF Damaged
  <2>2. ByteCell(b).byte # -CrcBytes
    <3>1. ByteCell(b).byte = b
      BY CellOfByte
    <3> QED
      BY <3>1, LogAssumption DEF Bytes
  <2>3. DOMAIN file' = DOMAIN file
    BY <2>1
  <2>4. \A q \in DOMAIN file : file'[q].byte = -CrcBytes => file'[q] = file[q]
    BY <2>1, <2>2
  <2> QED
    BY <1>3, <2>3, <2>4 DEF Damaged, ChecksumsTrue, End
<1>4. ASSUME NEW e, NEW piece, Grown(e, piece)
      PROVE  ChecksumsTrue'
  <2> DEFINE n == Len(pieces)
             E1(i) == IF i = 0 THEN 0 ELSE ends'[i]
             Named(p) == \E i \in DOMAIN pieces' : /\ pieces'[i] # Torn
                                                /\ E1(i) = p
                                                /\ file'[p].of = Content(pieces'[i])
  <2>1. /\ n \in Nat /\ Len(ends) = n /\ Len(file) \in Nat /\ Len(e) \in Nat /\ Len(e) > 0
        /\ PieceOf(e, piece) /\ DOMAIN pieces = 1 .. n /\ DOMAIN file = 1 .. Len(file)
    BY <1>4, PieceOfType DEF Grown, LaidOut, FileType
  <2>2. /\ FileType'
        /\ Len(file') = Len(file) + Len(e)
        /\ \A p \in 1 .. Len(file) : file'[p] = file[p]
        /\ \A p \in 1 .. Len(e) : file'[Len(file) + p] = e[p]
        /\ Len(pieces') = n + 1
        /\ \A i \in 1 .. n : pieces'[i] = pieces[i] /\ ends'[i] = ends[i]
        /\ pieces'[n + 1] = piece
        /\ ends'[n + 1] = Len(file')
    BY <1>4, <2>1, GrownFacts
  <2>3. DOMAIN pieces' = 1 .. n + 1 /\ DOMAIN file' = 1 .. Len(file')
    BY <2>2 DEF FileType
  <2>4. \A p \in 1 .. Len(file) : file[p].byte = -CrcBytes =>
          \E i \in 1 .. n : pieces[i] # Torn /\ ends[i] = p /\ file[p].of = Content(pieces[i])
    BY <2>1 DEF ChecksumsTrue, End
  <2> HIDE DEF n
  <2>5. ASSUME NEW p \in 1 .. Len(file), file'[p].byte = -CrcBytes
        PROVE  Named(p)
    <3>1. file'[p] = file[p]
      BY <2>2
    <3>2. PICK i \in 1 .. n : pieces[i] # Torn /\ ends[i] = p /\ file[p].of = Content(pieces[i])
      BY <2>4, <2>5, <3>1
    <3>3. i \in DOMAIN pieces' /\ i # 0
      BY <2>1, <2>3
    <3>4. pieces'[i] = pieces[i] /\ ends'[i] = ends[i]
      BY <2>2
    <3> QED
      BY <3>1, <3>2, <3>3, <3>4
  <2>6. ASSUME NEW j \in 1 .. Len(e), file'[Len(file) + j].byte = -CrcBytes
        PROVE  Named(Len(file) + j)
    <3>1. file'[Len(file) + j] = e[j]
      BY <2>2
    <3>2. piece # Torn /\ j = Len(e) /\ e[j].of = Content(piece)
      BY <2>1, <2>6, <3>1, LastChecksumCellOfPiece
    <3>3. n + 1 \in DOMAIN pieces' /\ n + 1 # 0
      BY <2>1, <2>3
    <3>4. E1(n + 1) = Len(file) + j
      BY <2>2, <3>2, <3>3
    <3> QED
      BY <2>2, <3>1, <3>2, <3>3, <3>4
  <2>7. ASSUME NEW p \in DOMAIN file', file'[p].byte = -CrcBytes
        PROVE  Named(p)
    <3>1. p \in 1 .. Len(file) + Len(e)
      BY <2>2, <2>3
    <3>2. CASE p \in 1 .. Len(file)
      BY <2>5, <2>7, <3>2
    <3>3. CASE p \notin 1 .. Len(file)
      <4> DEFINE j == p - Len(file)
      <4>1. j \in 1 .. Len(e) /\ p = Len(file) + j
        BY <2>1, <3>1, <3>3
      <4> HIDE DEF j
      <4> QED
        BY <2>6, <2>7, <4>1
    <3> QED
      BY <3>2, <3>3
  <2> QED
    BY <2>7 DEF ChecksumsTrue, End
<1> QED
  BY <1>1, <1>2, <1>3, <1>4 DEF FileStep

LEMMA SubSeqOfEqual ==
  ASSUME NEW S, NEW s \in Seq(S), NEW t \in Seq(S), NEW a \in Nat, a > 0, NEW b \in Nat,
         b <= Len(s), b <= Len(t), \A i \in a .. b : s[i] = t[i]
  PROVE  SubSeq(s, a, b) = SubSeq(t, a, b)
<1>1. SubSeq(s, a, b) = [i \in 1 .. b - a + 1 |-> s[i + a - 1]]
  OBVIOUS
<1>2. SubSeq(t, a, b) = [i \in 1 .. b - a + 1 |-> t[i + a - 1]]
  OBVIOUS
<1>3. \A i \in 1 .. b - a + 1 : s[i + a - 1] = t[i + a - 1]
  <2> TAKE i \in 1 .. b - a + 1
  <2>1. i + a - 1 \in a .. b
    OBVIOUS
  <2> QED
    BY <2>1
<1> QED
  BY <1>1, <1>2, <1>3

\* The end of a sequence that was concatenated is what was put behind.
LEMMA SubSeqOfEnd ==
  ASSUME NEW S, NEW s \in Seq(S), NEW t \in Seq(S), NEW n \in Nat, Len(s) = n + Len(t),
         \A i \in 1 .. Len(t) : s[n + i] = t[i]
  PROVE  SubSeq(s, n + 1, Len(s)) = t
<1> DEFINE m == Len(t)
           u == SubSeq(s, n + 1, Len(s))
<1>1. m \in Nat /\ Len(s) = n + m /\ t = [i \in 1 .. m |-> t[i]]
  BY LenProperties
<1>2. u = [i \in 1 .. Len(s) - (n + 1) + 1 |-> s[i + (n + 1) - 1]]
  OBVIOUS
<1> HIDE DEF u
<1>3. Len(s) - (n + 1) + 1 = m
  BY <1>1
<1>4. \A i \in 1 .. m : s[i + (n + 1) - 1] = t[i]
  <2> TAKE i \in 1 .. m
  <2>1. i + (n + 1) - 1 = n + i
    OBVIOUS
  <2> QED
    BY <2>1
<1>5. u = [i \in 1 .. m |-> t[i]]
  BY <1>2, <1>3, <1>4
<1> QED
  BY <1>1, <1>5 DEF u

LEMMA UndamagedStep ==
  ASSUME FileType, LaidOut, Undamaged, FileStep
  PROVE  Undamaged'
<1>1. CASE Nothing
  BY <1>1 DEF Nothing, history, Undamaged, PieceCells, End
<1>2. CASE Cleared
  BY <1>2 DEF Cleared, Undamaged
<1>3. CASE Damaged
  <2>1. damage' # 0
    BY <1>3 DEF Damaged, FileType
  <2> QED
    BY <2>1 DEF Undamaged
<1>4. ASSUME NEW e, NEW piece, Grown(e, piece)
      PROVE  Undamaged'
  <2> SUFFICES ASSUME damage' = 0, NEW i \in DOMAIN pieces'
               PROVE  PieceOf(PieceCells(i)', pieces'[i])
    <3>1. ASSUME NEW i \in DOMAIN pieces', PieceOf(PieceCells(i)', pieces'[i])
          PROVE  IF pieces'[i] # Torn
                   THEN PieceCells(i)' = Encoded(pieces'[i])
                   ELSE \E r \in Records : \E n \in 1 .. Len(Encoded(r)) - 1 :
                          PieceCells(i)' = SubSeq(Encoded(r), 1, n)
      BY <3>1 DEF PieceOf
    <3> QED
      BY <3>1 DEF Undamaged
  <2> DEFINE n == Len(pieces)
  <2>1. /\ n \in Nat /\ Len(ends) = n /\ Len(file) \in Nat /\ Len(e) \in Nat /\ Len(e) > 0
        /\ PieceOf(e, piece) /\ DOMAIN pieces = 1 .. n /\ file \in Seq(Cell) /\ e \in Seq(Cell)
    BY <1>4, PieceOfType DEF Grown, LaidOut, FileType
  <2>2. /\ FileType'
        /\ Len(file') = Len(file) + Len(e)
        /\ \A p \in 1 .. Len(file) : file'[p] = file[p]
        /\ \A p \in 1 .. Len(e) : file'[Len(file) + p] = e[p]
        /\ Len(pieces') = n + 1
        /\ \A k \in 1 .. n : pieces'[k] = pieces[k] /\ ends'[k] = ends[k]
        /\ pieces'[n + 1] = piece
        /\ ends'[n + 1] = Len(file')
    BY <1>4, <2>1, GrownFacts
  <2>3. DOMAIN pieces' = 1 .. n + 1 /\ file' \in Seq(Cell)
    BY <2>2 DEF FileType
  <2>4. damage = 0
    BY <1>4 DEF Grown
  <2> DEFINE E0(k) == IF k = 0 THEN 0 ELSE ends[k]
             E1(k) == IF k = 0 THEN 0 ELSE ends'[k]
  <2>5. \A k \in 0 .. n : E1(k) = E0(k)
    BY <2>2
  <2>6. /\ E0(n) = Len(file)
        /\ \A k \in 0 .. n : \A l \in 0 .. k - 1 : E0(l) < E0(k)
    BY DEF LaidOut, End
  <2>7. \A k \in 0 .. n : E0(k) \in Nat /\ E0(k) <= Len(file)
    <3> TAKE k \in 0 .. n
    <3>1. k # 0 => ends[k] \in Nat
      BY <2>1, ElementOfSeq DEF FileType
    <3>2. E0(k) \in Nat
      BY <3>1
    <3>3. k = n \/ (k \in 0 .. n - 1 /\ n \in 0 .. n)
      BY <2>1
    <3> HIDE DEF n, E0
    <3> QED
      BY <2>1, <2>6, <3>2, <3>3
  <2>8. PieceCells(i)' = SubSeq(file', E1(i - 1) + 1, E1(i))
    BY DEF PieceCells, End
  <2>9. E1(n + 1) = Len(file')
    BY <2>1, <2>2
  <2>10. \A k \in 1 .. n : PieceOf(SubSeq(file, E0(k - 1) + 1, E0(k)), pieces[k])
    <3> TAKE k \in 1 .. n
    <3>0. k \in DOMAIN pieces
      BY <2>1
    <3>1. PieceCells(k) = SubSeq(file, E0(k - 1) + 1, E0(k))
      BY DEF PieceCells, End
    <3> HIDE DEF E0
    <3>2. pieces[k] # Torn => pieces[k] \in Records
      <4>1. pieces[k] \in Records \cup {Torn}
        BY <3>0, ElementOfSeq DEF FileType
      <4> QED
        BY <4>1
    <3>3. IF pieces[k] # Torn
            THEN PieceCells(k) = Encoded(pieces[k])
            ELSE \E r \in Records : \E m \in 1 .. Len(Encoded(r)) - 1 :
                   PieceCells(k) = SubSeq(Encoded(r), 1, m)
      BY <2>4, <3>0 DEF Undamaged
    <3>4. PieceOf(PieceCells(k), pieces[k])
      BY <3>2, <3>3 DEF PieceOf
    <3> QED
      BY <3>1, <3>4
  <2> HIDE DEF n, E0, E1
  <2>11. CASE i \in 1 .. n
    <3>1. i \in 0 .. n /\ i - 1 \in 0 .. n
      BY <2>1, <2>11
    <3>2. E1(i) = E0(i) /\ E1(i - 1) = E0(i - 1)
      BY <2>5, <3>1
    <3>3. /\ E0(i) \in Nat /\ E0(i) <= Len(file) /\ E0(i - 1) + 1 \in Nat /\ E0(i - 1) + 1 > 0
      BY <2>7, <3>1
    <3>4. E0(i) <= Len(file')
      BY <2>1, <2>2, <3>3
    <3>5. \A p \in E0(i - 1) + 1 .. E0(i) : file'[p] = file[p]
      <4> TAKE p \in E0(i - 1) + 1 .. E0(i)
      <4>1. p \in 1 .. Len(file)
        BY <2>1, <3>3
      <4> QED
        BY <2>2, <4>1
    <3> DEFINE a == E0(i - 1) + 1
               b == E0(i)
    <3>6. /\ a \in Nat /\ a > 0 /\ b \in Nat /\ b <= Len(file') /\ b <= Len(file)
          /\ \A p \in a .. b : file'[p] = file[p]
      BY <3>3, <3>4, <3>5
    <3> HIDE DEF a, b
    <3>7. SubSeq(file', a, b) = SubSeq(file, a, b)
      BY <2>1, <2>3, <3>6, SubSeqOfEqual
    <3>8. pieces'[i] = pieces[i]
      BY <2>2, <2>11
    <3> QED
      BY <2>8, <2>10, <2>11, <3>2, <3>7, <3>8 DEF a, b
  <2>12. CASE i = n + 1
    <3>1. i - 1 = n /\ n \in 0 .. n
      BY <2>1, <2>12
    <3>2. E1(i - 1) = Len(file) /\ E1(i) = Len(file')
      BY <2>5, <2>6, <2>9, <2>12, <3>1
    <3>3. SubSeq(file', Len(file) + 1, Len(file')) = e
      BY <2>1, <2>2, <2>3, SubSeqOfEnd
    <3> QED
      BY <2>1, <2>2, <2>8, <2>12, <3>2, <3>3
  <2> QED
    BY <2>1, <2>3, <2>11, <2>12
<1> QED
  BY <1>1, <1>2, <1>3, <1>4 DEF FileStep

-----------------------------------------------------------------------------
(* Replay follows the pieces.                                              *)

LEMMA EndOrder ==
  ASSUME FileType, LaidOut
  PROVE  /\ Len(pieces) \in Nat /\ End(0) = 0 /\ End(Len(pieces)) = Len(file)
         /\ \A i \in 0 .. Len(pieces) : End(i) \in Nat /\ End(i) <= Len(file)
         /\ \A i, j \in 0 .. Len(pieces) : i < j => End(i) < End(j)
         /\ \A i, j \in 0 .. Len(pieces) : End(i) = End(j) => i = j
<1> DEFINE n == Len(pieces)
<1>1. n \in Nat /\ Len(ends) = n /\ ends \in Seq(Nat) /\ Len(file) \in Nat
  BY DEF FileType, LaidOut
<1>2. End(0) = 0
  BY DEF End
<1>3. End(n) = Len(file) /\ \A i \in 0 .. n : \A j \in 0 .. i - 1 : End(j) < End(i)
  BY DEF LaidOut
<1> HIDE DEF n
<1>4. \A i \in 0 .. n : End(i) \in Nat
  <2> TAKE i \in 0 .. n
  <2>1. i # 0 => ends[i] \in Nat
    BY <1>1, ElementOfSeq
  <2> QED
    BY <2>1 DEF End
<1>5. \A i, j \in 0 .. n : i < j => End(i) < End(j)
  <2> TAKE i, j \in 0 .. n
  <2>1. i < j => i \in 0 .. j - 1
    OBVIOUS
  <2> QED
    BY <1>3, <2>1
<1>6. \A i, j \in 0 .. n : End(i) = End(j) => i = j
  <2> SUFFICES ASSUME NEW i \in 0 .. n, NEW j \in 0 .. n, End(i) = End(j), i # j PROVE FALSE
    OBVIOUS
  <2>1. i < j \/ j < i
    OBVIOUS
  <2> QED
    BY <1>4, <1>5, <2>1
<1>7. \A i \in 0 .. n : End(i) <= Len(file)
  <2> TAKE i \in 0 .. n
  <2>1. n \in 0 .. n /\ (i = n \/ i < n)
    BY <1>1
  <2> QED
    BY <1>1, <1>3, <1>4, <1>5, <2>1
<1> QED
  BY <1>1, <1>2, <1>3, <1>4, <1>5, <1>6, <1>7 DEF n

AllFit == \A r \in Records : RecordFits(r)

\* What replay hands out is the next piece, whose checksum no other has.
LEMMA DeliverIsNext ==
  ASSUME AllFit, FileType, ReplayType, LaidOut, ChecksumsTrue, ReplayFollows,
         NEW type \in TypesAt(in.at),
         NEW key_len \in decodeUint32LE(in.at + 1), key_len \in Nat,
         NEW val_len \in decodeUint32LE(in.at + 5), val_len \in Nat,
         Deliver(type, key_len, val_len)
  PROVE  LET n == Len(in.delivered)
         IN  /\ n + 1 <= Len(pieces)
             /\ pieces[n + 1] # Torn
             /\ pieces[n + 1] = [type  |-> type,
                                 key   |-> BytesAt(in.at + HeaderSize, key_len),
                                 value |-> BytesAt(in.at + HeaderSize + key_len, val_len)]
             /\ in.at + Size(key_len, val_len) = End(n + 1) + 1
<1> DEFINE n == Len(in.delivered)
           at == in.at
           size == Size(key_len, val_len)
           C == SubSeq(file, at, at + size - CrcBytes - 1)
<1>1. /\ CrcBytes \in Nat /\ CrcBytes > 0
      /\ size \in Nat /\ size >= HeaderSize + CrcBytes /\ HeaderSize = 9
  BY LogAssumption DEF Size, HeaderSize
<1>2. /\ file \in Seq(Cell) /\ Len(file) \in Nat
      /\ at \in Nat /\ at > 0 /\ at + size - 1 <= Len(file)
  <2>1. file \in Seq(Cell) /\ Len(file) \in Nat
    BY DEF FileType
  <2>2. at \in 1 .. Len(file) + 1
    BY DEF ReplayType
  <2>3. Len(file) - at + 1 >= size
    BY DEF Deliver, Left
  <2> HIDE DEF at, size
  <2> QED
    BY <1>1, <2>1, <2>2, <2>3
<1>3. n \in Nat /\ n <= Len(pieces) /\ at = End(n) + 1
  BY DEF ReplayType, ReplayFollows
<1>4. SubSeq(file, at + size - CrcBytes, at + size - 1) = crc32(C)
  BY DEF Deliver, ChecksumMatches
<1> HIDE DEF n, at, size
<1>5. /\ Len(C) = size - CrcBytes
      /\ \A j \in 1 .. size - CrcBytes : C[j] = file[at + j - 1]
  <2>1. C = [j \in 1 .. (at + size - CrcBytes - 1) - at + 1 |-> file[j + at - 1]]
    <3> DEFINE b == at + size - CrcBytes - 1
    <3>1. at \in Int /\ b \in Int
      BY <1>1, <1>2
    <3> HIDE DEF b
    <3>2. SubSeq(file, at, b) = [j \in 1 .. b - at + 1 |-> file[j + at - 1]]
      BY <3>1
    <3> QED
      BY <3>2 DEF b
  <2> HIDE DEF C
  <2>2. (at + size - CrcBytes - 1) - at + 1 = size - CrcBytes /\ size - CrcBytes \in Nat
    BY <1>1, <1>2
  <2>3. C = [j \in 1 .. size - CrcBytes |-> file[j + at - 1]]
    BY <2>1, <2>2
  <2>4. \A j \in 1 .. size - CrcBytes : j + at - 1 = at + j - 1
    BY <1>1, <1>2
  <2> QED
    BY <2>2, <2>3, <2>4
<1> HIDE DEF C
<1>6. file[at + size - 1] = CrcCell(CrcBytes, C)
  <2>1. crc32(C)[CrcBytes] = CrcCell(CrcBytes, C)
    BY <1>1 DEF crc32
  <2> DEFINE a == at + size - CrcBytes
             b == at + size - 1
  <2>2. SubSeq(file, a, b) = [j \in 1 .. b - a + 1 |-> file[j + a - 1]]
    <3>1. a \in Int /\ b \in Int
      BY <1>1, <1>2
    <3> HIDE DEF a, b
    <3> QED
      BY <3>1
  <2>3. b - a + 1 = CrcBytes /\ CrcBytes + a - 1 = at + size - 1 /\ CrcBytes \in 1 .. CrcBytes
    BY <1>1, <1>2
  <2> HIDE DEF a, b
  <2>4. SubSeq(file, a, b)[CrcBytes] = file[at + size - 1]
    BY <2>2, <2>3
  <2> QED
    BY <1>4, <2>1, <2>4 DEF a, b
<1>7. at + size - 1 \in DOMAIN file
  BY <1>1, <1>2
<1>8. PICK i \in DOMAIN pieces :
        pieces[i] # Torn /\ End(i) = at + size - 1 /\ C = Content(pieces[i])
  <2>1. file[at + size - 1].byte = -CrcBytes /\ file[at + size - 1].of = C
    BY <1>6 DEF CrcCell
  <2> QED
    BY <1>7, <2>1 DEF ChecksumsTrue
<1> DEFINE r == pieces[i]
<1>9. r \in Records /\ i \in 1 .. Len(pieces) /\ r # Torn
  <2>1. i \in 1 .. Len(pieces)
    BY DEF FileType
  <2>2. r \in Records \cup {Torn}
    BY <2>1, ElementOfSeq DEF FileType
  <2> QED
    BY <1>8, <2>1, <2>2
<1>10. End(i) = End(i - 1) + Len(Encoded(r))
  BY <1>8 DEF LaidOut
<1> HIDE DEF r
<1>11. Len(Encoded(r)) = size
  <2>1. Len(Encoded(r)) = Len(Content(r)) + CrcBytes
    BY <1>9, EncodedShape
  <2> QED
    BY <1>1, <1>5, <1>8, <2>1 DEF r
<1>12. i = n + 1
  <2>1. i - 1 \in 0 .. Len(pieces) /\ i \in 0 .. Len(pieces) /\ n \in 0 .. Len(pieces)
    BY <1>3, <1>9, EndOrder
  <2>2. End(i - 1) \in Nat /\ End(n) \in Nat
    BY <2>1, EndOrder
  <2>3. End(i - 1) = End(n)
    BY <1>1, <1>2, <1>3, <1>8, <1>10, <1>11, <2>2
  <2>4. i - 1 = n
    BY <2>1, <2>3, EndOrder
  <2> QED
    BY <1>9, <2>4
<1>13. /\ Content(r) = C /\ RecordFits(r) /\ at \in Int
       /\ \A j \in 1 .. Len(Content(r)) : file[at + j - 1] = Content(r)[j]
  BY <1>2, <1>5, <1>8, <1>9 DEF r, AllFit
<1>14. \A j \in 1 .. HeaderSize : file[at + j - 1] = Content(r)[j]
  <2>1. \A j \in 1 .. HeaderSize : j \in 1 .. Len(C)
    BY <1>1, <1>5
  <2> QED
    BY <1>13, <2>1
<1>15. /\ TypesAt(at) = {r.type}
       /\ decodeUint32LE(at + 1) = {Len(r.key)}
       /\ decodeUint32LE(at + 5) = {Len(r.value)}
  BY <1>9, <1>13, <1>14, HeaderRead
<1>16. type = r.type /\ key_len = Len(r.key) /\ val_len = Len(r.value)
  BY <1>15 DEF at
<1>17. /\ BytesAt(at + HeaderSize, key_len) = r.key
       /\ BytesAt(at + HeaderSize + key_len, val_len) = r.value
  BY <1>9, <1>13, <1>16, PayloadRead
<1>18. r = [type |-> r.type, key |-> r.key, value |-> r.value]
  BY <1>9, RecordType
<1>19. r = [type  |-> type,
            key   |-> BytesAt(at + HeaderSize, key_len),
            value |-> BytesAt(at + HeaderSize + key_len, val_len)]
  BY <1>16, <1>17, <1>18
<1>20. at + size = End(n + 1) + 1 /\ n + 1 <= Len(pieces) /\ pieces[n + 1] = r
  <2>1. End(n + 1) = at + size - 1
    BY <1>8, <1>12
  <2> QED
    BY <1>1, <1>2, <1>9, <1>12, <2>1 DEF r
<1> QED
  BY <1>9, <1>19, <1>20 DEF n, at, size

LEMMA FollowsFromStart ==
  ASSUME FileType', in' = Idle \/ in' = [Idle EXCEPT !.running = TRUE]
  PROVE  ReplayFollows'
<1>1. in'.delivered = <<>> /\ in'.at = 1 /\ in'.status = "none"
  BY DEF Idle
<1>2. Len(pieces') \in Nat
  BY DEF FileType
<1> QED
  BY <1>1, <1>2 DEF ReplayFollows, End

LEMMA FollowsToEnd ==
  ASSUME FileType, ReplayType, ReplayFollows, Nothing,
         NEW status \in {"ok", "truncated", "corruption"}, Ends(status),
         status = "ok" => Len(in.delivered) = Len(pieces)
  PROVE  ReplayFollows'
<1>1. in'.delivered = in.delivered /\ in'.at = in.at /\ in'.status = status
  BY EndsType DEF Nothing
<1> QED
  BY <1>1 DEF ReplayFollows, Nothing, history, End

LEMMA ReplayFollowsStep ==
  ASSUME AllFit, FileType, ReplayType, LaidOut, ChecksumsTrue, ReplayFollows,
         ReplayStep, Nothing
  PROVE  ReplayFollows'
<1> DEFINE n == Len(in.delivered)
<1>0. n \in Nat /\ n <= Len(pieces) /\ in.at = End(n) + 1
  BY DEF ReplayType, ReplayFollows
<1>1. CASE ReplayEnds
  <2>1. in.at = Len(file) + 1
    BY <1>1, ReplayStepCases DEF ReplayEnds, FileType
  <2>2. n \in 0 .. Len(pieces) /\ Len(pieces) \in 0 .. Len(pieces) /\ End(Len(pieces)) = Len(file)
    BY <1>0, EndOrder
  <2>3. End(n) \in Nat /\ Len(file) \in Nat
    BY <2>2, EndOrder DEF FileType
  <2>4. End(n) = End(Len(pieces))
    BY <1>0, <2>1, <2>2, <2>3
  <2>5. n = Len(pieces)
    BY <2>2, <2>4, EndOrder
  <2> QED
    BY <1>1, <2>5, FollowsToEnd DEF ReplayEnds
<1>2. CASE HeaderTruncated
  BY <1>2, FollowsToEnd DEF HeaderTruncated
<1>3. CASE TypeRefused
  BY <1>3, FollowsToEnd DEF TypeRefused
<1>4. ASSUME NEW type \in TypesAt(in.at), type \in {PUT, TOMBSTONE},
             NEW key_len \in decodeUint32LE(in.at + 1), key_len \in Nat,
             NEW val_len \in decodeUint32LE(in.at + 5), val_len \in Nat,
             HeaderStep(type, key_len, val_len)
      PROVE  ReplayFollows'
  <2>1. CASE LengthsRefused(key_len, val_len)
    BY <2>1, FollowsToEnd DEF LengthsRefused
  <2>2. CASE PayloadTruncated(key_len, val_len)
    BY <2>2, FollowsToEnd DEF PayloadTruncated
  <2>3. CASE ChecksumRefused(key_len, val_len)
    BY <2>3, FollowsToEnd DEF ChecksumRefused
  <2>4. CASE Deliver(type, key_len, val_len)
    <3> DEFINE r == [type  |-> type,
                     key   |-> BytesAt(in.at + HeaderSize, key_len),
                     value |-> BytesAt(in.at + HeaderSize + key_len, val_len)]
    <3>1. /\ n + 1 <= Len(pieces) /\ pieces[n + 1] # Torn /\ pieces[n + 1] = r
          /\ in.at + Size(key_len, val_len) = End(n + 1) + 1
      BY <1>4, <2>4, DeliverIsNext
    <3>2. /\ in'.at = in.at + Size(key_len, val_len)
          /\ in'.status = "none"
          /\ Len(in'.delivered) = n + 1
          /\ \A i \in 1 .. n : in'.delivered[i] = in.delivered[i]
          /\ in'.delivered[n + 1] = r
      BY <1>4, <2>4, ReplayStepCases, DeliverShape DEF Nothing
    <3>3. \A i \in 1 .. n : pieces[i] # Torn /\ in.delivered[i] = pieces[i]
      BY DEF ReplayFollows
    <3> HIDE DEF n, r
    <3>4. \A i \in 1 .. n + 1 : pieces[i] # Torn /\ in'.delivered[i] = pieces[i]
      <4> TAKE i \in 1 .. n + 1
      <4>1. i \in 1 .. n \/ i = n + 1
        BY <1>0
      <4> QED
        BY <3>1, <3>2, <3>3, <4>1
    <3>5. pieces' = pieces /\ ends' = ends
      BY DEF Nothing, history
    <3>6. in'.at = End(n + 1) + 1
      BY <3>1, <3>2
    <3> QED
      BY <3>1, <3>2, <3>4, <3>5, <3>6 DEF ReplayFollows, End
  <2> QED
    BY <1>4, <2>1, <2>2, <2>3, <2>4 DEF HeaderStep
<1> QED
  BY <1>1, <1>2, <1>3, <1>4, ReplayStepCases

-----------------------------------------------------------------------------
(* Replay stops at the first torn piece of a file that is not damaged.     *)

AllReadable == \A r \in Records : WithinLimits(Len(r.key), Len(r.value))

LEMMA ReadableFits == AllReadable => AllFit
<1> SUFFICES ASSUME AllReadable, NEW r \in Records PROVE RecordFits(r)
  BY DEF AllFit
<1>1. Len(r.key) <= MaxKeyLen /\ Len(r.value) <= MaxValueLen
  BY DEF AllReadable, WithinLimits
<1>2. Len(r.key) \in Nat /\ Len(r.value) \in Nat
  BY RecordType
<1>3. MaxKeyLen \in Nat /\ MaxValueLen \in Nat /\ MaxKeyLen + MaxValueLen < Word
  BY LogAssumption
<1>4. \A k, v, a, b, w \in Nat : k <= a /\ v <= b /\ a + b < w => k + v < w
  OBVIOUS
<1>5. Word \in Nat
  BY BaseType
<1>6. Len(r.key) + Len(r.value) < Word
  BY <1>1, <1>2, <1>3, <1>4, <1>5
<1> QED
  BY <1>6 DEF RecordFits

LEMMA CellsOfSubSeq ==
  ASSUME NEW s, NEW a \in Int, NEW b \in Int
  PROVE  SubSeq(s, a, b) = [j \in 1 .. b - a + 1 |-> s[j + a - 1]]
  OBVIOUS

\* The cells of a whole record pass the comparison of the checksums.
LEMMA WholeMatches ==
  ASSUME NEW r \in Records, NEW at \in Nat, NEW size, size = Len(Encoded(r)),
         \A j \in 1 .. size : file[at + j - 1] = Encoded(r)[j]
  PROVE  SubSeq(file, at + size - CrcBytes, at + size - 1)
           = crc32(SubSeq(file, at, at + size - CrcBytes - 1))
<1> DEFINE c == Content(r)
           x == Encoded(r)
           n == Len(c)
<1>1. /\ c \in Seq(ContentCell) /\ n \in Nat /\ size = n + CrcBytes /\ CrcBytes \in Nat
      /\ \A j \in 1 .. n : x[j] = c[j]
      /\ \A j \in 1 .. CrcBytes : x[n + j] = CrcCell(j, c)
  BY EncodedShape, LogAssumption
<1>2. \A j \in 1 .. size : file[at + j - 1] = x[j]
  OBVIOUS
<1>3. c = [j \in 1 .. n |-> c[j]]
  BY <1>1, LenProperties
<1> HIDE DEF c, x, n
<1>4. SubSeq(file, at, at + size - CrcBytes - 1) = c
  <2> DEFINE b == at + size - CrcBytes - 1
  <2>1. at \in Int /\ b \in Int /\ b - at + 1 = n
    BY <1>1
  <2> HIDE DEF b
  <2>2. SubSeq(file, at, b) = [j \in 1 .. b - at + 1 |-> file[j + at - 1]]
    BY <2>1, CellsOfSubSeq
  <2>3. \A j \in 1 .. n : file[j + at - 1] = c[j]
    <3> TAKE j \in 1 .. n
    <3>1. j \in 1 .. size /\ j + at - 1 = at + j - 1
      BY <1>1
    <3> QED
      BY <1>1, <1>2, <3>1
  <2> QED
    BY <1>3, <2>1, <2>2, <2>3 DEF b
<1>5. SubSeq(file, at + size - CrcBytes, at + size - 1) = crc32(c)
  <2> DEFINE a == at + size - CrcBytes
             b == at + size - 1
  <2>1. a \in Int /\ b \in Int /\ b - a + 1 = CrcBytes /\ a = at + n
    BY <1>1
  <2> HIDE DEF a, b
  <2>2. SubSeq(file, a, b) = [j \in 1 .. b - a + 1 |-> file[j + a - 1]]
    BY <2>1, CellsOfSubSeq
  <2>3. \A j \in 1 .. CrcBytes : file[j + a - 1] = CrcCell(j, c)
    <3> TAKE j \in 1 .. CrcBytes
    <3>1. n + j \in 1 .. size /\ j + a - 1 = at + (n + j) - 1
      BY <1>1, <2>1
    <3> QED
      BY <1>1, <1>2, <3>1
  <2> QED
    BY <2>1, <2>2, <2>3 DEF a, b, crc32
<1> QED
  BY <1>4, <1>5

\* The next piece: all of a record or the beginning of one, whose cells replay reads.
LEMMA NextPiece ==
  ASSUME FileType, ReplayType, LaidOut, Undamaged, ReplayFollows, damage = 0, Left > 0
  PROVE  LET next == Len(in.delivered) + 1
         IN  /\ next \in 1 .. Len(pieces)
             /\ \E r \in Records, m \in Nat :
                  /\ m > 0 /\ m <= Left
                  /\ \A j \in 1 .. m : file[in.at + j - 1] = Encoded(r)[j]
                  /\ m <= Len(Encoded(r))
                  /\ pieces[next] # Torn => m = Len(Encoded(r))
                  /\ pieces[next] = Torn => m < Len(Encoded(r))
                  /\ next = Len(pieces) => m = Left
<1> DEFINE n == Len(in.delivered)
           at == in.at
<1>1. n \in Nat /\ n <= Len(pieces) /\ at = End(n) + 1 /\ Left = Len(file) - at + 1
  BY DEF ReplayType, ReplayFollows, Left
<1>2. Len(pieces) \in Nat /\ Len(file) \in Nat /\ file \in Seq(Cell)
  BY DEF FileType
<1> HIDE DEF n, at
<1>3. n + 1 \in 1 .. Len(pieces)
  <2>1. End(n) # Len(file)
    BY <1>1, <1>2
  <2>2. n # Len(pieces)
    BY <2>1, EndOrder
  <2> QED
    BY <1>1, <1>2, <2>2
<1>4. /\ End(n) \in Nat /\ End(n + 1) \in Nat /\ End(n) < End(n + 1)
      /\ End(n + 1) <= Len(file)
      /\ n + 1 = Len(pieces) => End(n + 1) = Len(file)
  <2>1. n \in 0 .. Len(pieces) /\ n + 1 \in 0 .. Len(pieces) /\ n < n + 1
    BY <1>1, <1>3
  <2> QED
    BY <2>1, EndOrder
<1> DEFINE m == End(n + 1) - End(n)
           P == PieceCells(n + 1)
<1>5. /\ m \in Nat /\ m > 0 /\ m <= Left
      /\ n + 1 = Len(pieces) => m = Left
  BY <1>1, <1>2, <1>4
<1>6. P = [j \in 1 .. m |-> file[at + j - 1]]
  <2> DEFINE a == End(n) + 1
             b == End(n + 1)
  <2>1. a \in Int /\ b \in Int /\ b - a + 1 = m /\ a = at
    BY <1>1, <1>4
  <2>2. P = SubSeq(file, a, b)
    <3>1. (n + 1) - 1 = n
      BY <1>1
    <3> QED
      BY <3>1 DEF PieceCells
  <2> HIDE DEF a, b, P, m
  <2>3. P = [j \in 1 .. b - a + 1 |-> file[j + a - 1]]
    BY <2>1, <2>2, CellsOfSubSeq
  <2>4. \A j \in 1 .. m : j + a - 1 = at + j - 1
    BY <2>1
  <2> QED
    BY <2>1, <2>3, <2>4
<1>7. IF pieces[n + 1] # Torn
        THEN P = Encoded(pieces[n + 1])
        ELSE \E r \in Records : \E k \in 1 .. Len(Encoded(r)) - 1 : P = SubSeq(Encoded(r), 1, k)
  <2>1. n + 1 \in DOMAIN pieces
    BY <1>3 DEF FileType
  <2> QED
    BY <2>1 DEF Undamaged
<1>8. pieces[n + 1] \in Records \cup {Torn}
  BY <1>3, ElementOfSeq DEF FileType
<1> HIDE DEF m, P
<1>9. DOMAIN P = 1 .. m /\ \A j \in 1 .. m : P[j] = file[at + j - 1]
  BY <1>6
<1>10. CASE pieces[n + 1] # Torn
  <2> DEFINE r == pieces[n + 1]
             x == Encoded(r)
  <2>1. r \in Records /\ P = x
    BY <1>7, <1>8, <1>10
  <2>2. x \in Seq(Cell) /\ Len(x) \in Nat
    BY <2>1, EncodedShape
  <2> HIDE DEF x
  <2>3. DOMAIN P = 1 .. Len(x)
    BY <2>1, <2>2
  <2>4. m = Len(x)
    BY <1>5, <1>9, <2>2, <2>3
  <2>5. m = Len(Encoded(r)) /\ \A j \in 1 .. m : file[at + j - 1] = Encoded(r)[j]
    BY <1>9, <2>1, <2>4 DEF x
  <2>6. m <= Len(Encoded(r))
    BY <1>5, <2>5
  <2> QED
    BY <1>3, <1>5, <1>10, <2>1, <2>5, <2>6 DEF n, at
<1>11. CASE pieces[n + 1] = Torn
  <2>1. PICK r \in Records : \E k \in 1 .. Len(Encoded(r)) - 1 : P = SubSeq(Encoded(r), 1, k)
    BY <1>7, <1>11
  <2> DEFINE x == Encoded(r)
  <2>2. PICK k \in 1 .. Len(x) - 1 : P = SubSeq(x, 1, k)
    BY <2>1
  <2>3. x \in Seq(Cell) /\ Len(x) \in Nat
    BY <2>1, EncodedShape
  <2> HIDE DEF x
  <2>4. DOMAIN P = 1 .. k /\ (\A j \in 1 .. k : P[j] = x[j]) /\ k \in Nat
    BY <2>2, <2>3
  <2>5. m = k
    BY <1>5, <1>9, <2>4
  <2>6. m < Len(x) /\ m <= Len(x)
    BY <2>2, <2>3, <2>5
  <2>7. \A j \in 1 .. m : file[at + j - 1] = Encoded(r)[j]
    BY <1>9, <2>4, <2>5 DEF x
  <2>8. m < Len(Encoded(r)) /\ m <= Len(Encoded(r))
    BY <2>6 DEF x
  <2> QED
    BY <1>3, <1>5, <1>11, <2>7, <2>8 DEF n, at
<1> QED
  BY <1>10, <1>11

\* A status that says where replay stopped.
AtTear(status) ==
  LET next == Len(in.delivered) + 1
  IN  /\ next <= Len(pieces) /\ pieces[next] = Torn
      /\ next = Len(pieces) => status = "truncated"

LEMMA RefusedAtTear ==
  ASSUME AllReadable, FileType, ReplayType, LaidOut, Undamaged, ReplayFollows, ReplayStep,
         damage = 0
  PROVE  /\ HeaderTruncated => AtTear("truncated")
         /\ ~TypeRefused
         /\ \A key_len \in decodeUint32LE(in.at + 1), val_len \in decodeUint32LE(in.at + 5) :
              Left >= HeaderSize =>
                /\ LengthsRefused(key_len, val_len) => AtTear("corruption")
                /\ PayloadTruncated(key_len, val_len) => AtTear("truncated")
                /\ ChecksumRefused(key_len, val_len) => AtTear("corruption")
<1> DEFINE next == Len(in.delivered) + 1
           at == in.at
<1>0. at \in Nat /\ at > 0 /\ Left \in Nat /\ HeaderSize = 9 /\ CrcBytes \in Nat /\ CrcBytes > 0
  BY ReplayStepCases, LogAssumption DEF HeaderSize
<1> SUFFICES ASSUME Left > 0
             PROVE  /\ HeaderTruncated => AtTear("truncated")
                    /\ ~TypeRefused
                    /\ \A key_len \in decodeUint32LE(in.at + 1),
                          val_len \in decodeUint32LE(in.at + 5) :
                         Left >= HeaderSize =>
                           /\ LengthsRefused(key_len, val_len) => AtTear("corruption")
                           /\ PayloadTruncated(key_len, val_len) => AtTear("truncated")
                           /\ ChecksumRefused(key_len, val_len) => AtTear("corruption")
  <2>1. CASE Left > 0
    BY <2>1
  <2>2. CASE Left = 0
    <3>1. ~(Left \in 1 .. HeaderSize - 1) /\ ~(Left >= HeaderSize)
      BY <1>0, <2>2
    <3> QED
      BY <3>1 DEF HeaderTruncated, TypeRefused
  <2> QED
    BY <1>0, <2>1, <2>2
<1>1. next \in 1 .. Len(pieces)
  BY NextPiece
<1>2. PICK r \in Records, m \in Nat :
        /\ m > 0 /\ m <= Left
        /\ \A j \in 1 .. m : file[at + j - 1] = Encoded(r)[j]
        /\ m <= Len(Encoded(r))
        /\ pieces[next] # Torn => m = Len(Encoded(r))
        /\ pieces[next] = Torn => m < Len(Encoded(r))
        /\ next = Len(pieces) => m = Left
  BY NextPiece
<1> DEFINE size == Len(Encoded(r))
<1>3. /\ size \in Nat /\ size > HeaderSize
      /\ size = Len(Content(r)) + CrcBytes /\ Len(Content(r)) \in Nat
      /\ \A j \in 1 .. Len(Content(r)) : Encoded(r)[j] = Content(r)[j]
      /\ Len(Content(r)) >= HeaderSize
  <2>1. /\ size \in Nat /\ size = Len(Content(r)) + CrcBytes
        /\ Len(Content(r)) \in Nat /\ Len(Content(r)) >= HeaderSize
        /\ \A j \in 1 .. Len(Content(r)) : Encoded(r)[j] = Content(r)[j]
    BY EncodedShape
  <2> DEFINE k == Len(Content(r))
  <2> HIDE DEF size, k
  <2>2. size > HeaderSize
    BY <1>0, <2>1 DEF k
  <2> QED
    BY <2>1, <2>2 DEF size
<1>4. size = Size(Len(r.key), Len(r.value)) /\ RecordFits(r)
  <2>1. RecordFits(r)
    BY ReadableFits DEF AllFit
  <2>2. KeyLen(r) = Len(r.key) /\ ValLen(r) = Len(r.value)
    BY <2>1, FittingLengths
  <2>3. size = Size(KeyLen(r), ValLen(r))
    BY EncodedShape
  <2> QED
    BY <2>1, <2>2, <2>3
<1> HIDE DEF next, at, size
<1>5. HeaderTruncated => AtTear("truncated")
  <2>1. SUFFICES ASSUME HeaderTruncated PROVE pieces[next] = Torn
    BY <1>1 DEF AtTear, next
  <2>2. m < HeaderSize
    BY <1>0, <1>2, <2>1 DEF HeaderTruncated
  <2> QED
    BY <1>0, <1>2, <1>3, <2>2 DEF size
<1>6. ~TypeRefused
  <2>1. file[at + 1 - 1] = Encoded(r)[1] /\ at + 1 - 1 = at
    BY <1>0, <1>2
  <2>2. Encoded(r)[1] = Content(r)[1]
    BY <1>0, <1>3
  <2>3. Content(r)[1] = ByteCell(r.type)
    BY ContentShape
  <2>4. file[at] = ByteCell(r.type)
    BY <2>1, <2>2, <2>3
  <2>5. r.type \in {PUT, TOMBSTONE}
    BY RecordType
  <2>6. file[at].byte \in {PUT, TOMBSTONE}
    BY <2>4, <2>5 DEF ByteCell
  <2> QED
    BY <2>6 DEF TypeRefused, at
<1>7. ASSUME NEW key_len \in decodeUint32LE(at + 1), NEW val_len \in decodeUint32LE(at + 5),
             m >= HeaderSize
      PROVE  key_len = Len(r.key) /\ val_len = Len(r.value)
  <2>1. \A j \in 1 .. HeaderSize : file[at + j - 1] = Content(r)[j]
    <3> TAKE j \in 1 .. HeaderSize
    <3>1. j \in 1 .. m /\ j \in 1 .. Len(Content(r))
      BY <1>0, <1>3, <1>7
    <3> QED
      BY <1>2, <1>3, <3>1
  <2>2. at \in Int
    BY <1>0
  <2>3. decodeUint32LE(at + 1) = {Len(r.key)} /\ decodeUint32LE(at + 5) = {Len(r.value)}
    BY <1>4, <2>1, <2>2, HeaderRead
  <2> QED
    BY <2>3
<1>8. ASSUME NEW key_len \in decodeUint32LE(at + 1), NEW val_len \in decodeUint32LE(at + 5),
             Left >= HeaderSize
      PROVE  /\ LengthsRefused(key_len, val_len) => AtTear("corruption")
             /\ PayloadTruncated(key_len, val_len) => AtTear("truncated")
             /\ ChecksumRefused(key_len, val_len) => AtTear("corruption")
  \* A whole piece, or a torn one with nothing behind it, has all of its header.
  <2>1. pieces[next] # Torn \/ next = Len(pieces) => m >= HeaderSize
    BY <1>0, <1>2, <1>3, <1>8 DEF size
  <2>2. pieces[next] # Torn \/ next = Len(pieces) =>
          /\ key_len = Len(r.key) /\ val_len = Len(r.value)
          /\ Size(key_len, val_len) = size
    BY <1>4, <1>7, <1>8, <2>1
  <2>3. WithinLimits(Len(r.key), Len(r.value))
    BY DEF AllReadable
  <2>4. ASSUME LengthsRefused(key_len, val_len)
        PROVE  AtTear("corruption")
    <3>1. ~(pieces[next] # Torn \/ next = Len(pieces))
      BY <2>2, <2>3, <2>4 DEF LengthsRefused
    <3> QED
      BY <1>1, <3>1 DEF AtTear, next
  <2>5. ASSUME PayloadTruncated(key_len, val_len)
        PROVE  AtTear("truncated")
    <3>1. pieces[next] = Torn
      <4>1. SUFFICES ASSUME pieces[next] # Torn PROVE FALSE
        OBVIOUS
      <4>2. m = size /\ Size(key_len, val_len) = size
        BY <1>2, <2>2, <4>1 DEF size
      <4>3. Left < Size(key_len, val_len)
        BY <2>5 DEF PayloadTruncated
      <4> QED
        BY <1>0, <1>2, <1>3, <4>2, <4>3
    <3> QED
      BY <1>1, <3>1 DEF AtTear, next
  <2>6. ASSUME ChecksumRefused(key_len, val_len)
        PROVE  AtTear("corruption")
    <3>0. Left >= Size(key_len, val_len) /\ ~ChecksumMatches(key_len, val_len)
      BY <2>6 DEF ChecksumRefused
    <3>1. pieces[next] = Torn
      <4>1. SUFFICES ASSUME pieces[next] # Torn PROVE FALSE
        OBVIOUS
      <4>2. m = size /\ Size(key_len, val_len) = size
        BY <1>2, <2>2, <4>1 DEF size
      <4>3. \A j \in 1 .. size : file[at + j - 1] = Encoded(r)[j]
        BY <1>2, <4>2
      <4>4. SubSeq(file, at + size - CrcBytes, at + size - 1)
              = crc32(SubSeq(file, at, at + size - CrcBytes - 1))
        BY <1>0, <4>3, WholeMatches DEF size
      <4>5. ChecksumMatches(key_len, val_len)
        BY <4>2, <4>4 DEF ChecksumMatches, at
      <4> QED
        BY <3>0, <4>5
    <3>2. next # Len(pieces)
      <4>1. SUFFICES ASSUME next = Len(pieces) PROVE FALSE
        OBVIOUS
      <4>2. m = Left /\ Size(key_len, val_len) = size /\ m < size
        BY <1>2, <2>2, <3>1, <4>1 DEF size
      <4> QED
        BY <1>0, <1>3, <3>0, <4>2
    <3> QED
      BY <1>1, <3>1, <3>2 DEF AtTear, next
  <2> QED
    BY <2>4, <2>5, <2>6
<1> QED
  BY <1>5, <1>6, <1>8 DEF at

LEMMA StopsAtTearStep ==
  ASSUME AllReadable, FileType, ReplayType, LaidOut, Undamaged, ReplayFollows,
         ReplayStep, Nothing
  PROVE  StopsAtTear'
<1> SUFFICES ASSUME damage = 0 PROVE StopsAtTear'
  BY DEF StopsAtTear, Nothing, history
<1>1. ASSUME NEW status \in {"ok", "truncated", "corruption"}, Ends(status),
             status # "ok" => AtTear(status)
      PROVE  StopsAtTear'
  <2>1. in'.delivered = in.delivered /\ in'.status = status /\ pieces' = pieces
    BY <1>1, EndsType DEF Nothing, history
  <2> QED
    BY <1>1, <2>1 DEF StopsAtTear, AtTear
<1>2. CASE ReplayEnds
  BY <1>1, <1>2 DEF ReplayEnds
<1>3. CASE HeaderTruncated
  <2>1. Ends("truncated") /\ AtTear("truncated")
    BY <1>3, RefusedAtTear DEF HeaderTruncated
  <2> QED
    BY <1>1, <2>1
<1>4. CASE TypeRefused
  BY <1>4, RefusedAtTear
<1>5. ASSUME NEW type \in {PUT, TOMBSTONE},
             NEW key_len \in decodeUint32LE(in.at + 1), key_len \in Nat,
             NEW val_len \in decodeUint32LE(in.at + 5), val_len \in Nat,
             Left >= HeaderSize, HeaderStep(type, key_len, val_len)
      PROVE  StopsAtTear'
  <2>1. CASE LengthsRefused(key_len, val_len)
    <3>1. Ends("corruption") /\ AtTear("corruption")
      BY <1>5, <2>1, RefusedAtTear DEF LengthsRefused
    <3> QED
      BY <1>1, <3>1
  <2>2. CASE PayloadTruncated(key_len, val_len)
    <3>1. Ends("truncated") /\ AtTear("truncated")
      BY <1>5, <2>2, RefusedAtTear DEF PayloadTruncated
    <3> QED
      BY <1>1, <3>1
  <2>3. CASE ChecksumRefused(key_len, val_len)
    <3>1. Ends("corruption") /\ AtTear("corruption")
      BY <1>5, <2>3, RefusedAtTear DEF ChecksumRefused
    <3> QED
      BY <1>1, <3>1
  <2>4. CASE Deliver(type, key_len, val_len)
    <3>1. in'.status = "none"
      BY <1>5, <2>4, ReplayStepCases, DeliverShape DEF Nothing
    <3> QED
      BY <3>1 DEF StopsAtTear
  <2> QED
    BY <1>5, <2>1, <2>2, <2>3, <2>4 DEF HeaderStep
<1> QED
  BY <1>2, <1>3, <1>4, <1>5, ReplayStepCases

-----------------------------------------------------------------------------
(* The invariants.                                                         *)

LEMMA InitLog == Init => LogInv /\ IntactInv
<1> SUFFICES ASSUME Init PROVE LogInv /\ IntactInv
  OBVIOUS
<1>1. file = <<>> /\ pieces = <<>> /\ ends = <<>> /\ in.delivered = <<>> /\ in.at = 1
      /\ in.status = "none"
  BY DEF Init, Idle
<1>2. LaidOut
  BY <1>1 DEF LaidOut, End
<1>3. ChecksumsTrue
  BY <1>1 DEF ChecksumsTrue
<1>4. ReplayFollows
  BY <1>1 DEF ReplayFollows, End
<1>5. StreamOrReplay
  BY InitType
<1>6. Undamaged
  BY <1>1 DEF Undamaged
<1>7. StopsAtTear
  BY <1>1 DEF StopsAtTear
<1> QED
  BY <1>2, <1>3, <1>4, <1>5, <1>6, <1>7 DEF LogInv, IntactInv

LEMMA LogStep == AllFit /\ TypeOK /\ LogInv /\ [Next]_vars => TypeOK' /\ LogInv'
<1> SUFFICES ASSUME AllFit, TypeOK, LogInv, [Next]_vars PROVE TypeOK' /\ LogInv'
  OBVIOUS
<1>0. FileType /\ ReplayType /\ LaidOut /\ ChecksumsTrue /\ ReplayFollows /\ StreamOrReplay
  BY TypeParts DEF LogInv
<1>1. TypeOK' /\ StreamOrReplay'
  BY <1>0, TypeStep
<1>2. CASE Next
  <2>1. FileStep /\ (StreamStep \/ (ReplayStep /\ UNCHANGED stream /\ Nothing))
    BY <1>2, Steps
  <2>2. LaidOut' /\ ChecksumsTrue'
    BY <1>0, <2>1, LaidOutStep, ChecksumsStep
  <2>3. ReplayFollows'
    <3>1. CASE StreamStep
      <4>1. FileType'
        BY <1>0, <2>1, FileStepType
      <4> QED
        BY <1>0, <3>1, <4>1, StreamOrReplayStep, FollowsFromStart
    <3>2. CASE ReplayStep /\ Nothing
      BY <1>0, <3>2, ReplayFollowsStep
    <3> QED
      BY <2>1, <3>1, <3>2
  <2> QED
    BY <1>1, <2>2, <2>3 DEF LogInv
<1>3. CASE UNCHANGED vars
  BY <1>1, <1>3
     DEF LogInv, LaidOut, ChecksumsTrue, ReplayFollows, End, vars, stream, history
<1> QED
  BY <1>2, <1>3

LEMMA IntactStep ==
  AllReadable /\ TypeOK /\ LogInv /\ IntactInv /\ [Next]_vars => IntactInv'
<1> SUFFICES ASSUME AllReadable, TypeOK, LogInv, IntactInv, [Next]_vars PROVE IntactInv'
  OBVIOUS
<1>0. /\ FileType /\ ReplayType /\ LaidOut /\ ChecksumsTrue /\ ReplayFollows /\ StreamOrReplay
      /\ Undamaged /\ StopsAtTear
  BY TypeParts DEF LogInv, IntactInv
<1>1. CASE Next
  <2>1. FileStep /\ (StreamStep \/ (ReplayStep /\ UNCHANGED stream /\ Nothing))
    BY <1>1, Steps
  <2>2. Undamaged'
    BY <1>0, <2>1, UndamagedStep
  <2>3. StopsAtTear'
    <3>1. CASE StreamStep
      <4>1. in' = Idle \/ in' = [Idle EXCEPT !.running = TRUE]
        BY <1>0, <3>1, StreamOrReplayStep
      <4>2. in'.status = "none"
        BY <4>1 DEF Idle
      <4> QED
        BY <4>2 DEF StopsAtTear
    <3>2. CASE ReplayStep /\ Nothing
      BY <1>0, <3>2, StopsAtTearStep
    <3> QED
      BY <2>1, <3>1, <3>2
  <2> QED
    BY <2>2, <2>3 DEF IntactInv
<1>2. CASE UNCHANGED vars
  BY <1>0, <1>2
     DEF IntactInv, Undamaged, PieceCells, StopsAtTear, End, vars, stream, history
<1> QED
  BY <1>1, <1>2

\* If every record fits into the 32 bits its lengths are added in, then the file is its
\* pieces one behind the other, no checksum in it is true of anything but a whole record,
\* and what replay hands out are its first pieces (wal.cpp:54-93, 124-227).
THEOREM LogInvariant == ASSUME AllFit PROVE Spec => []LogInv
<1>1. Init => TypeOK /\ LogInv
  BY InitType, InitLog
<1>2. TypeOK /\ LogInv /\ [Next]_vars => TypeOK' /\ LogInv'
  BY LogStep
<1> QED
  BY <1>1, <1>2, PTL DEF Spec

\* If every record is also within the limits of replay, then replay of a file that is
\* not damaged stops at the first torn piece, and says what it is when nothing follows
\* (wal.cpp:147-226).
THEOREM IntactInvariant == ASSUME AllReadable PROVE Spec => []IntactInv
<1>1. Init => TypeOK /\ LogInv /\ IntactInv
  BY InitType, InitLog
<1>2. TypeOK /\ LogInv /\ IntactInv /\ [Next]_vars => TypeOK' /\ LogInv' /\ IntactInv'
  BY LogStep, IntactStep, ReadableFits
<1> QED
  BY <1>1, <1>2, PTL DEF Spec

-----------------------------------------------------------------------------
(* What the invariants mean for the records.                               *)

\* A set of positions up to n that is not empty has a last one.
LEMMA LastOfPositions ==
  ASSUME NEW n \in Nat, NEW S \in SUBSET (0 .. n), S # {}
  PROVE  Max(S) \in S /\ \A y \in S : y <= Max(S)
<1> DEFINE R == OpToRel(<, Nat)
           T == {n - x : x \in S}
<1>1. T \in SUBSET Nat /\ T # {}
  <2>1. \A x \in S : n - x \in Nat
    OBVIOUS
  <2> QED
    BY <2>1
<1>2. PICK m \in T : \A y \in T : ~ (<<y, m>> \in R)
  <2>1. IsWellFoundedOn(R, Nat)
    BY NatLessThanWellFounded
  <2> HIDE DEF R, T
  <2> QED
    BY <1>1, <2>1, WFMin
<1>3. PICK x \in S : m = n - x
  OBVIOUS
<1>4. \A y \in S : y <= x
  <2> TAKE y \in S
  <2>1. n - y \in T /\ n - y \in Nat /\ m \in Nat
    BY <1>1
  <2>2. n - y < m => <<n - y, m>> \in R
    BY <2>1 DEF OpToRel
  <2>3. ~(n - y < m)
    BY <1>2, <2>1, <2>2
  <2> QED
    BY <1>3, <2>1, <2>3
<1> QED
  BY <1>4 DEF Max

LEMMA BeforeTearIs ==
  ASSUME TypeOK
  PROVE  \E n \in 0 .. Len(pieces) :
           /\ BeforeTear = SubSeq(pieces, 1, n)
           /\ WholeUpTo(n)
           /\ \A m \in 0 .. Len(pieces) : WholeUpTo(m) => m <= n
<1> DEFINE S == {n \in 0 .. Len(pieces) : WholeUpTo(n)}
<1>1. Len(pieces) \in Nat
  BY DEF TypeOK
<1>2. 0 \in S
  BY <1>1 DEF WholeUpTo
<1>3. S \in SUBSET (0 .. Len(pieces)) /\ S # {}
  BY <1>2
<1>4. BeforeTear = SubSeq(pieces, 1, Max(S))
  BY DEF BeforeTear
<1> HIDE DEF S
<1>5. Max(S) \in S /\ \A m \in S : m <= Max(S)
  BY <1>1, <1>3, LastOfPositions
<1> QED
  BY <1>4, <1>5 DEF S

LEMMA DeliveredIsPrefix ==
  ASSUME TypeOK, LogInv
  PROVE  LET n == Len(in.delivered)
         IN  /\ n \in 0 .. Len(pieces) /\ WholeUpTo(n)
             /\ in.delivered = SubSeq(pieces, 1, n)
<1> DEFINE n == Len(in.delivered)
           D == [type : {PUT, TOMBSTONE}, key : Seq(Int), value : Seq(Int)]
<1>1. /\ n <= Len(pieces)
      /\ \A i \in 1 .. n : pieces[i] # Torn /\ in.delivered[i] = pieces[i]
  BY DEF LogInv, ReplayFollows
<1>2. in.delivered \in Seq(D) /\ n \in Nat /\ Len(pieces) \in Nat
  BY DEF TypeOK
<1>3. in.delivered = [i \in 1 .. n |-> in.delivered[i]]
  <2> HIDE DEF D
  <2> QED
    BY <1>2, LenProperties
<1> HIDE DEF n
<1>4. SubSeq(pieces, 1, n) = [i \in 1 .. n - 1 + 1 |-> pieces[i + 1 - 1]]
  <2>1. 1 \in Int /\ n \in Int
    BY <1>2
  <2> QED
    BY <2>1, CellsOfSubSeq
<1>5. SubSeq(pieces, 1, n) = [i \in 1 .. n |-> pieces[i]]
  <2>1. n - 1 + 1 = n /\ \A i \in 1 .. n : i + 1 - 1 = i
    BY <1>2
  <2> QED
    BY <1>4, <2>1
<1>6. WholeUpTo(n)
  BY <1>1 DEF WholeUpTo
<1>7. in.delivered = SubSeq(pieces, 1, n)
  BY <1>1, <1>3, <1>5
<1> QED
  BY <1>1, <1>2, <1>6, <1>7 DEF n

LEMMA NothingIsInvented == TypeOK /\ LogInv => NothingInvented
<1> SUFFICES ASSUME TypeOK, LogInv PROVE NothingInvented
  OBVIOUS
<1> DEFINE n == Len(in.delivered)
<1>1. n \in 0 .. Len(pieces) /\ WholeUpTo(n) /\ in.delivered = SubSeq(pieces, 1, n)
  BY DeliveredIsPrefix
<1>2. PICK m \in 0 .. Len(pieces) : /\ BeforeTear = SubSeq(pieces, 1, m)
                                   /\ n <= m
  BY <1>1, BeforeTearIs
<1>3. pieces \in Seq(Records \cup {Torn}) /\ Len(pieces) \in Nat
  BY DEF TypeOK
<1> HIDE DEF n
<1>4. /\ Len(BeforeTear) = m /\ SubSeq(BeforeTear, 1, n) = SubSeq(pieces, 1, n)
  <2>1. Len(SubSeq(pieces, 1, m)) = m
    BY <1>2, <1>3
  <2>2. SubSeq(SubSeq(pieces, 1, m), 1, n) = SubSeq(pieces, 1, n)
    <3> DEFINE t == SubSeq(pieces, 1, m)
    <3>1. t \in Seq(Records \cup {Torn}) /\ Len(t) = m /\ \A i \in 1 .. m : t[i] = pieces[i]
      BY <1>2, <1>3
    <3> HIDE DEF t
    <3>2. /\ 1 \in Nat /\ 1 > 0 /\ n \in Nat /\ n <= Len(t) /\ n <= Len(pieces)
          /\ \A i \in 1 .. n : t[i] = pieces[i]
      BY <1>1, <1>2, <1>3, <3>1
    <3>3. SubSeq(t, 1, n) = SubSeq(pieces, 1, n)
      BY <1>3, <3>1, <3>2, SubSeqOfEqual
    <3> QED
      BY <3>3 DEF t
  <2> QED
    BY <1>2, <2>1, <2>2
<1>5. SubSeq(in.delivered, 1, n) = SubSeq(pieces, 1, n)
  <2>1. SubSeq(pieces, 1, n) \in Seq(Records \cup {Torn}) /\ Len(SubSeq(pieces, 1, n)) = n
    BY <1>1, <1>3
  <2> DEFINE u == SubSeq(pieces, 1, n)
  <2> HIDE DEF u
  <2>2. SubSeq(u, 1, n) = u
    BY <2>1 DEF u
  <2> QED
    BY <1>1, <2>2 DEF u
<1> QED
  BY <1>2, <1>4, <1>5 DEF NothingInvented, IsPrefix, n

LEMMA OkIsAll == TypeOK /\ LogInv => OkIsComplete
<1> SUFFICES ASSUME TypeOK, LogInv, in.status = "ok" PROVE in.delivered = pieces
  BY DEF OkIsComplete
<1>1. Len(in.delivered) = Len(pieces)
  BY DEF LogInv, ReplayFollows
<1>2. in.delivered = SubSeq(pieces, 1, Len(pieces))
  BY <1>1, DeliveredIsPrefix
<1>3. SubSeq(pieces, 1, Len(pieces)) = pieces
  BY DEF TypeOK
<1> QED
  BY <1>2, <1>3

LEMMA AllIsGivenBack == TypeOK /\ LogInv /\ IntactInv => ReplayGivesBack
<1> SUFFICES ASSUME TypeOK, LogInv, IntactInv, in.status # "none", damage = 0
             PROVE  LET whole == Len(BeforeTear)
                    IN  /\ in.delivered = BeforeTear
                        /\ in.status = "ok" <=> whole = Len(pieces)
                        /\ whole = Len(pieces) - 1 => in.status = "truncated"
  BY DEF ReplayGivesBack
<1> DEFINE n == Len(in.delivered)
<1>1. n \in 0 .. Len(pieces) /\ WholeUpTo(n) /\ in.delivered = SubSeq(pieces, 1, n)
  BY DeliveredIsPrefix
<1>2. PICK m \in 0 .. Len(pieces) : /\ BeforeTear = SubSeq(pieces, 1, m)
                                   /\ WholeUpTo(m)
                                   /\ n <= m
  BY <1>1, BeforeTearIs
<1>3. /\ in.status = "ok" => n = Len(pieces)
      /\ in.status # "ok" => /\ n + 1 <= Len(pieces) /\ pieces[n + 1] = Torn
                             /\ n + 1 = Len(pieces) => in.status = "truncated"
  BY DEF LogInv, ReplayFollows, IntactInv, StopsAtTear, TypeOK
<1> HIDE DEF n
<1>4. Len(pieces) \in Nat /\ pieces \in Seq(Records \cup {Torn})
  BY DEF TypeOK
<1>5. m = n
  <2>1. CASE in.status = "ok"
    BY <1>2, <1>3, <1>4, <2>1
  <2>2. CASE in.status # "ok"
    <3>1. n + 1 \in 1 .. Len(pieces) /\ pieces[n + 1] = Torn
      BY <1>1, <1>3, <1>4, <2>2
    <3>2. ~(n + 1 \in 1 .. m)
      BY <1>2, <3>1 DEF WholeUpTo
    <3> QED
      BY <1>1, <1>2, <1>4, <3>2
  <2> QED
    BY <2>1, <2>2
<1>6. Len(BeforeTear) = n
  BY <1>1, <1>2, <1>4, <1>5
<1>7. in.delivered = BeforeTear
  BY <1>1, <1>2, <1>5
<1>8. in.status = "ok" <=> n = Len(pieces)
  BY <1>1, <1>3, <1>4
<1>9. n = Len(pieces) - 1 => in.status = "truncated"
  <2> SUFFICES ASSUME n = Len(pieces) - 1 PROVE in.status = "truncated"
    OBVIOUS
  <2>1. n # Len(pieces) /\ n + 1 = Len(pieces)
    BY <1>1, <1>4
  <2> QED
    BY <1>3, <2>1
<1> QED
  BY <1>6, <1>7, <1>8, <1>9

\* Whatever crashes, failing writes and changed bytes leave in the file, replay hands
\* out only records that were appended, in order and from the first on, and none from
\* behind a torn one (wal.cpp:147-224).
THEOREM NothingInventedCorrect == ASSUME AllFit PROVE Spec => []NothingInvented
<1>1. Init => TypeOK /\ LogInv
  BY InitType, InitLog
<1>2. TypeOK /\ LogInv /\ [Next]_vars => TypeOK' /\ LogInv'
  BY LogStep
<1>3. TypeOK /\ LogInv => NothingInvented
  BY NothingIsInvented
<1> QED
  BY <1>1, <1>2, <1>3, PTL DEF Spec

\* Replay says OK only when it has handed out every record of the log (wal.cpp:147-226).
THEOREM OkIsCompleteCorrect == ASSUME AllFit PROVE Spec => []OkIsComplete
<1>1. Init => TypeOK /\ LogInv
  BY InitType, InitLog
<1>2. TypeOK /\ LogInv /\ [Next]_vars => TypeOK' /\ LogInv'
  BY LogStep
<1>3. TypeOK /\ LogInv => OkIsComplete
  BY OkIsAll
<1> QED
  BY <1>1, <1>2, <1>3, PTL DEF Spec

\* What KVStore takes replay to do, of a log that is not damaged: it hands out all the
\* records before the first torn one, says OK if there is none, and that the log is
\* truncated if it is the last (wal.cpp:147-226, kv_store.cpp:100).
THEOREM ReplayGivesBackCorrect == ASSUME AllReadable PROVE Spec => []ReplayGivesBack
<1>1. Init => TypeOK /\ LogInv /\ IntactInv
  BY InitType, InitLog
<1>2. TypeOK /\ LogInv /\ IntactInv /\ [Next]_vars => TypeOK' /\ LogInv' /\ IntactInv'
  BY LogStep, IntactStep, ReadableFits
<1>3. TypeOK /\ LogInv /\ IntactInv => ReplayGivesBack
  BY AllIsGivenBack
<1> QED
  BY <1>1, <1>2, <1>3, PTL DEF Spec

-----------------------------------------------------------------------------
(* The bytes, as a log of records.                                         *)

LEMMA CloseStreamReleases ==
  ASSUME CloseStream
  PROVE  Log!Release /\ damage' = damage
  BY DEF CloseStream, Nothing, Whole, CutShort, history, Log!Release, Log!Lost

LEMMA WritingMaps ==
  ASSUME TypeOK, StreamOrReplay,
         \/ open \/ close \/ clear \/ ClearFails \/ StartReplay \/ Crash \/ Damage
         \/ \E r \in Records : appendRecord(r) \/ AppendFails(r) \/ AppendLost(r)
  PROVE  [Log!Next]_(Log!vars)
<1> DEFINE seen == [running |-> in.running, given |-> in.delivered, status |-> in.status]
<1>0. /\ in = Idle => in.running = FALSE /\ in.delivered = <<>> /\ in.status = "none"
      /\ in' = Idle => in'.running = FALSE /\ in'.delivered = <<>> /\ in'.status = "none"
  BY DEF Idle
<1>1. /\ is_open \in BOOLEAN /\ good \in BOOLEAN
      /\ damage \in Nat
      /\ is_open => in = Idle
      /\ in = Idle => seen = Log!NoReplay
      /\ in' = Idle => seen' = Log!NoReplay
      /\ in' = in => seen' = seen
  <2>1. /\ is_open \in BOOLEAN /\ good \in BOOLEAN
        /\ damage \in Nat
    BY LogAssumption DEF TypeOK
  <2>2. is_open => in = Idle
    BY DEF StreamOrReplay
  <2>3. /\ in = Idle => seen = Log!NoReplay
        /\ in' = Idle => seen' = Log!NoReplay
    BY <1>0 DEF Log!NoReplay, Log!Ended
  <2> QED
    BY <2>1, <2>2, <2>3
<1>2. seen.running = in.running
  OBVIOUS
<1> USE DEF Log!Next
<1> HIDE DEF seen
<1>3. CASE open
  BY <1>1, <1>2, <1>3, CloseStreamReleases DEF open, Log!Open, seen
<1>4. CASE close \/ ClearFails
  BY <1>1, <1>4, CloseStreamReleases DEF close, ClearFails, Log!Close, seen
<1>5. CASE clear
  BY <1>1, <1>5 DEF clear, Log!Clear, seen
<1>6. CASE StartReplay
  <2>1. in' = [Idle EXCEPT !.running = TRUE] /\ ~is_open /\ ~in.running
        /\ UNCHANGED <<stream, file, history>>
    BY <1>6 DEF StartReplay
  <2>2. seen' = Log!Running(<<>>)
    BY <2>1 DEF seen, Idle, Log!Running
  <2> QED
    BY <1>2, <2>1, <2>2 DEF seen, stream, history, Log!StartReplay
<1>7. CASE Crash
  BY <1>1, <1>7 DEF Crash, Nothing, CutShort, history, Log!Stop, Log!Lost, seen
<1>8. CASE Damage
  BY <1>1, <1>2, <1>8 DEF Damage, stream, Log!Damage, seen
<1>9. ASSUME NEW r \in Records, appendRecord(r) \/ AppendFails(r) \/ AppendLost(r)
      PROVE  Log!Next
  <2>1. CASE appendRecord(r)
    BY <1>1, <2>1 DEF appendRecord, Whole, stream, Log!AppendRecord, seen
  <2>2. CASE AppendFails(r) \/ AppendLost(r)
    BY <1>1, <2>2 DEF AppendFails, AppendLost, Nothing, CutShort, history, Log!AppendFails, Log!Lost, seen
  <2> QED
    BY <1>9, <2>1, <2>2
<1> QED
  BY <1>3, <1>4, <1>5, <1>6, <1>7, <1>8, <1>9

\* Replay that ends, short of the last record unless it says OK.
LEMMA EndMaps ==
  ASSUME FileType, ReplayType, LaidOut, ReplayFollows, ReplayFollows', StopsAtTear', Nothing,
         UNCHANGED stream, in.running, Left # 0,
         NEW status \in {"truncated", "corruption"}, Ends(status)
  PROVE  Log!End(status)
<1> DEFINE n == Len(in.delivered)
<1>1. /\ in'.delivered = in.delivered /\ in'.at = in.at /\ in'.status = status
      /\ in'.running = FALSE /\ in.status = "none"
  BY EndsType DEF Nothing, Ends, ReplayType
<1>2. pieces' = pieces /\ damage' = damage /\ damage \in Nat
  BY LogAssumption DEF Nothing, history, FileType
<1>3. n \in 0 .. Len(pieces) /\ Len(pieces) \in Nat /\ in.at = End(n) + 1
  BY DEF ReplayType, ReplayFollows, FileType
<1>4. n # Len(pieces)
  BY <1>3, EndOrder DEF Left, ReplayType, FileType
<1>5. damage = 0 => /\ pieces[n + 1] = Torn
                    /\ n + 1 = Len(pieces) => status = "truncated"
  BY <1>1, <1>2, <1>3 DEF StopsAtTear
<1> HIDE DEF n
<1>6. Len([running |-> in.running, given |-> in.delivered, status |-> in.status].given) = n
  BY DEF n
<1>7. Log!MayEnd(status)
  BY <1>2, <1>3, <1>4, <1>5, <1>6 DEF Log!MayEnd, Log!Position
<1> QED
  BY <1>1, <1>2, <1>7 DEF Log!End, Log!Ended, stream

LEMMA ReplayMaps ==
  ASSUME AllFit, TypeOK, LogInv, ReplayFollows', StopsAtTear', ReplayStep
  PROVE  Log!Next
<1>0. FileType /\ ReplayType /\ LaidOut /\ ChecksumsTrue /\ ReplayFollows
  BY TypeParts DEF LogInv
<1>1. Nothing /\ UNCHANGED stream
  BY DEF ReplayStep, Nothing
<1>2. in.running /\ in.status = "none" /\ Left \in Nat
  BY <1>0, ReplayStepCases
<1>3. pieces' = pieces /\ damage' = damage /\ Len(pieces) \in Nat
  BY <1>0, <1>1 DEF Nothing, history, FileType
<1> USE DEF Log!Next
<1>4. CASE ReplayEnds
  <2>1. /\ in'.delivered = in.delivered /\ in'.status = "ok" /\ in'.running = FALSE
    BY <1>0, <1>1, <1>4, EndsType DEF ReplayEnds, Nothing, Ends, ReplayType
  <2>2. Len(in.delivered) = Len(pieces)
    BY <1>3, <2>1 DEF ReplayFollows
  <2>3. Log!MayEnd("ok")
    BY <1>3, <2>2 DEF Log!MayEnd, Log!Position
  <2>4. Log!End("ok")
    BY <1>1, <1>2, <1>3, <2>1, <2>3 DEF Log!End, Log!Ended, stream
  <2> QED
    BY <2>4
<1>5. CASE HeaderTruncated
  BY <1>0, <1>1, <1>2, <1>5, EndMaps DEF HeaderTruncated
<1>6. CASE TypeRefused
  BY <1>0, <1>1, <1>2, <1>6, EndMaps DEF TypeRefused, HeaderSize
<1>7. ASSUME Left >= HeaderSize,
             NEW type \in TypesAt(in.at), type \in {PUT, TOMBSTONE},
             NEW key_len \in decodeUint32LE(in.at + 1), key_len \in Nat,
             NEW val_len \in decodeUint32LE(in.at + 5), val_len \in Nat,
             HeaderStep(type, key_len, val_len)
      PROVE  Log!Next
  <2>0. Left # 0
    BY <1>7 DEF HeaderSize
  <2>1. CASE LengthsRefused(key_len, val_len)
    BY <1>0, <1>1, <1>2, <2>0, <2>1, EndMaps DEF LengthsRefused
  <2>2. CASE PayloadTruncated(key_len, val_len)
    BY <1>0, <1>1, <1>2, <2>0, <2>2, EndMaps DEF PayloadTruncated
  <2>3. CASE ChecksumRefused(key_len, val_len)
    BY <1>0, <1>1, <1>2, <2>0, <2>3, EndMaps DEF ChecksumRefused
  <2>4. CASE Deliver(type, key_len, val_len)
    <3> DEFINE n == Len(in.delivered)
               r == [type  |-> type,
                     key   |-> BytesAt(in.at + HeaderSize, key_len),
                     value |-> BytesAt(in.at + HeaderSize + key_len, val_len)]
    <3>1. n + 1 <= Len(pieces) /\ pieces[n + 1] # Torn /\ pieces[n + 1] = r
      BY <1>0, <1>7, <2>4, DeliverIsNext
    <3> HIDE DEF r
    <3>2. /\ in'.delivered = Append(in.delivered, r)
          /\ in'.status = "none" /\ in'.running = TRUE
      BY <1>0, <1>2, <2>4 DEF Deliver, ReplayType, r
    <3>3. Log!Give
      BY <1>1, <1>2, <1>3, <3>1, <3>2 DEF Log!Give, Log!Position, Log!Running, stream
    <3> QED
      BY <3>3
  <2> QED
    BY <1>7, <2>1, <2>2, <2>3, <2>4 DEF HeaderStep
<1> QED
  BY <1>0, <1>4, <1>5, <1>6, <1>7, ReplayStepCases

\* If every record is within the limits of replay, then the bytes of the log are a
\* RecordLog, whatever is cut short and whatever changes in the file: what KVStore takes
\* its log for is what wal.cpp makes of it (wal.cpp:26-226).
THEOREM BytesImplementRecordLog == ASSUME AllReadable PROVE Spec => ImplementsLog
<1>1. Init => TypeOK /\ LogInv /\ IntactInv
  BY InitType, InitLog
<1>2. TypeOK /\ LogInv /\ IntactInv /\ [Next]_vars => TypeOK' /\ LogInv' /\ IntactInv'
  BY LogStep, IntactStep, ReadableFits
<1>3. Init => Log!Init
  BY LogAssumption DEF Init, Idle, Log!Init, Log!NoReplay, Log!Ended
<1>4. TypeOK /\ LogInv /\ LogInv' /\ IntactInv' /\ [Next]_vars => [Log!Next]_(Log!vars)
  <2> SUFFICES ASSUME TypeOK, LogInv, LogInv', IntactInv', [Next]_vars
               PROVE  [Log!Next]_(Log!vars)
    OBVIOUS
  <2>1. CASE ReplayStep
    BY <2>1, ReplayMaps, ReadableFits DEF LogInv, IntactInv
  <2>2. CASE UNCHANGED vars
    BY <2>2 DEF vars, stream, history, Log!vars
  <2> QED
    BY <2>1, <2>2, WritingMaps DEF Next, LogInv
<1> QED
  BY <1>1, <1>2, <1>3, <1>4, PTL DEF Spec, ImplementsLog, Log!Spec
=============================================================================
