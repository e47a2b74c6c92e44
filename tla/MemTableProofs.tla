--------------------------- MODULE MemTableProofs ---------------------------
(***************************************************************************)
(* The size estimate of the MemTable is the sum over its entries, for any  *)
(* keys, values and sizes.  The sum is a fold of the community modules, so *)
(* what a fold over a finite set is comes first: it has a value, which     *)
(* depends on the elements alone and not on the order they are taken in.   *)
(* Where an induction over the set is needed, a smallest subset for which  *)
(* the claim fails is taken instead, as strict inclusion is well founded.  *)
(***************************************************************************)
EXTENDS MemTable, FiniteSetTheorems, WellFoundedInduction, TLAPS

-----------------------------------------------------------------------------
(* The largest element of a finite set of positions.                       *)

\* The newest position of a set, when a known one is the newest.
LEMMA MaxIs ==
  ASSUME NEW S \in SUBSET Int, NEW m \in S, \A x \in S : x <= m
  PROVE  Max(S) = m
<1>1. \E x \in S : \A y \in S : x >= y
  OBVIOUS
<1>2. Max(S) \in S /\ \A y \in S : Max(S) >= y
  BY <1>1 DEF Max
<1>3. Max(S) \in Int /\ m \in Int
  BY <1>2
<1> HIDE DEF Max
<1> QED
  BY <1>2, <1>3

\* A set of positions that is not empty has a newest one.
LEMMA MaxExists ==
  ASSUME NEW n \in Nat, NEW S \in SUBSET (1 .. n), S # {}
  PROVE  Max(S) \in S /\ \A y \in S : y <= Max(S)
<1> DEFINE T == {n - x : x \in S}
<1>1. T \subseteq Nat /\ T # {}
  <2>1. \A x \in S : n - x \in Nat
    OBVIOUS
  <2> QED
    BY <2>1
<1> DEFINE R == OpToRel(<, Nat)
<1>2. PICK d \in T : \A e \in T : ~ (<<e, d>> \in R)
  <2>1. IsWellFoundedOn(R, Nat)
    BY NatLessThanWellFounded
  <2> HIDE DEF R, T
  <2> QED
    BY <1>1, <2>1, WFMin
<1>3. \A e \in T : d <= e
  <2> TAKE e \in T
  <2>1. e \in Nat /\ d \in Nat
    BY <1>1
  <2>2. e < d => <<e, d>> \in R
    BY <2>1 DEF OpToRel
  <2> HIDE DEF T, R
  <2> QED
    BY <1>2, <2>1, <2>2
<1>4. PICK x \in S : d = n - x
  OBVIOUS
<1>5. \A y \in S : x >= y
  <2> TAKE y \in S
  <2>1. n - y \in T
    OBVIOUS
  <2> QED
    BY <1>3, <1>4, <2>1
<1> QED
  BY <1>5 DEF Max

-----------------------------------------------------------------------------
(* Sums over a finite set.                                                 *)

AnyOf(s) == CHOOSE x \in s : TRUE

\* h sums up z over the subsets of S, the way the community modules' fold does.
Sums(h, z, S) ==
  h = [s \in SUBSET S |-> IF s = {} THEN 0 ELSE z[AnyOf(s)] + h[s \ {AnyOf(s)}]]

Total(z, S) == (CHOOSE h : Sums(h, z, S))[S]

LEMMA AnyOfIn == \A s : s # {} => AnyOf(s) \in s
  BY DEF AnyOf

\* There are such sums over a finite set: those up to a number of elements follow
\* from those with one element less.
LEMMA SumsExist ==
  ASSUME NEW S, IsFiniteSet(S), NEW z
  PROVE  \E h : Sums(h, z, S)
<1> DEFINE Next(h) == [s \in SUBSET S |-> IF s = {} THEN 0 ELSE z[AnyOf(s)] + h[s \ {AnyOf(s)}]]
           UpTo(n, h) == \A s \in SUBSET S : Cardinality(s) <= n => h[s] = Next(h)[s]
           N == Cardinality(S)
           Good == {n \in 1 .. N + 1 : \E h : UpTo(n - 1, h)}
<1>1. ASSUME NEW s \in SUBSET S
      PROVE  /\ IsFiniteSet(s) /\ Cardinality(s) \in Nat
             /\ Cardinality(s) = 0 <=> s = {}
             /\ Cardinality(s) <= Cardinality(S)
             /\ \A x \in s : Cardinality(s \ {x}) = Cardinality(s) - 1
  BY FS_Subset, FS_CardinalityType, FS_EmptySet, FS_RemoveElement
<1>2. \E h : UpTo(0, h)
  <2> DEFINE h == [s \in SUBSET S |-> 0]
  <2>1. \A s \in SUBSET S : Cardinality(s) <= 0 => s = {}
    BY <1>1
  <2>2. h[{}] = 0 /\ Next(h)[{}] = 0
    OBVIOUS
  <2>3. UpTo(0, h)
    BY <2>1, <2>2
  <2> QED
    BY <2>3
<1>3. ASSUME NEW n \in Nat, \E h : UpTo(n, h)
      PROVE  \E h : UpTo(n + 1, h)
  <2>1. PICK h : UpTo(n, h)
    BY <1>3
  <2> DEFINE g == Next(h)
  <2>2. ASSUME NEW s \in SUBSET S, Cardinality(s) <= n + 1
        PROVE  g[s] = Next(g)[s]
    <3>1. CASE s = {}
      BY <3>1
    <3>2. CASE s # {}
      <4> DEFINE t == s \ {AnyOf(s)}
      <4>1. t \in SUBSET S /\ Cardinality(t) <= n
        BY <1>1, <2>2, <3>2, AnyOfIn
      <4>2. h[t] = g[t]
        BY <2>1, <4>1
      <4>3. g[s] = z[AnyOf(s)] + h[t] /\ Next(g)[s] = z[AnyOf(s)] + g[t]
        BY <3>2
      <4> QED
        BY <4>2, <4>3
    <3> QED
      BY <3>1, <3>2
  <2>3. UpTo(n + 1, g)
    BY <2>2
  <2> QED
    BY <2>3
<1>4. N \in Nat
  BY <1>1
<1>5. N + 1 \in Good
  <2> HIDE DEF UpTo, N
  <2>1. 1 \in Good
    BY <1>2, <1>4
  <2>2. ASSUME NEW m \in Good, m # N + 1
        PROVE  m + 1 \in Good
    <3>1. (m - 1) + 1 = (m + 1) - 1 /\ m - 1 \in Nat
      BY <1>4
    <3>2. \E h : UpTo(m - 1, h)
      BY <2>2
    <3>3. \E h : UpTo((m - 1) + 1, h)
      BY <1>3, <3>1, <3>2
    <3> QED
      BY <1>4, <2>2, <3>1, <3>3
  <2>3. Good \in SUBSET (1 .. N + 1) /\ N + 1 \in Nat
    BY <1>4
  <2> HIDE DEF Good
  <2>4. Max(Good) \in Good /\ \A m \in Good : m <= Max(Good)
    BY <1>4, <2>1, <2>3, MaxExists
  <2>5. \A m \in Int : ~ (m + 1 <= m)
    OBVIOUS
  <2>6. Max(Good) \in Int
    <3>1. Max(Good) \in 1 .. N + 1
      BY <2>3, <2>4, Zenon
    <3> HIDE DEF N
    <3> QED
      BY <2>3, <3>1
  <2> QED
    BY <2>2, <2>4, <2>5, <2>6
<1>6. PICK h : UpTo(N, h)
  <2>1. (N + 1) - 1 = N
    BY <1>4
  <2> HIDE DEF UpTo, N
  <2> QED
    BY <1>5, <2>1
<1>7. Next(h) = Next(Next(h))
  <2>1. \A s \in SUBSET S : h[s] = Next(h)[s]
    BY <1>1, <1>6
  <2>2. ASSUME NEW s \in SUBSET S
        PROVE  Next(h)[s] = Next(Next(h))[s]
    <3>1. s \ {AnyOf(s)} \in SUBSET S
      OBVIOUS
    <3>2. h[s \ {AnyOf(s)}] = Next(h)[s \ {AnyOf(s)}]
      BY <2>1, <3>1
    <3> QED
      BY <3>2
  <2> QED
    BY <2>2
<1> QED
  BY <1>7 DEF Sums

\* They agree where what is summed up does.
LEMMA SumsAgree ==
  ASSUME NEW S, NEW T, NEW g, NEW h, NEW y, NEW z, Sums(g, y, S), Sums(h, z, T),
         NEW U, U \subseteq S, U \subseteq T, IsFiniteSet(U), \A x \in U : y[x] = z[x]
  PROVE  g[U] = h[U]
<1> DEFINE Bad == {s \in FiniteSubsetsOf(U) : g[s] # h[s]}
<1>1. SUFFICES ASSUME Bad # {} PROVE FALSE
  BY DEF FiniteSubsetsOf
<1>2. PICK s \in Bad : \A r \in Bad : ~ (<<r, s>> \in StrictSubsetOrdering(U))
  BY <1>1, FS_StrictSubsetOrderingWellFounded, WFMin
<1>3. /\ s \subseteq U /\ IsFiniteSet(s) /\ g[s] # h[s]
      /\ g[s] = IF s = {} THEN 0 ELSE y[AnyOf(s)] + g[s \ {AnyOf(s)}]
      /\ h[s] = IF s = {} THEN 0 ELSE z[AnyOf(s)] + h[s \ {AnyOf(s)}]
  <2>1. s \in SUBSET S /\ s \in SUBSET T
    BY <1>2 DEF FiniteSubsetsOf
  <2> QED
    BY <1>2, <2>1 DEF FiniteSubsetsOf, Sums
<1>4. s # {}
  BY <1>3
<1> DEFINE t == s \ {AnyOf(s)}
<1>5. t \in FiniteSubsetsOf(U) /\ <<t, s>> \in StrictSubsetOrdering(U)
  BY <1>3, <1>4, AnyOfIn, FS_RemoveElement, FS_Subset DEF FiniteSubsetsOf, StrictSubsetOrdering
<1>6. g[t] = h[t]
  BY <1>2, <1>5
<1>7. y[AnyOf(s)] = z[AnyOf(s)]
  BY <1>3, <1>4, AnyOfIn
<1> QED
  BY <1>3, <1>4, <1>6, <1>7

\* A total depends on the elements alone.
LEMMA TotalsAgree ==
  ASSUME NEW S, IsFiniteSet(S), NEW y, NEW z, \A x \in S : y[x] = z[x]
  PROVE  Total(y, S) = Total(z, S)
<1>1. Sums(CHOOSE h : Sums(h, y, S), y, S) /\ Sums(CHOOSE h : Sums(h, z, S), z, S)
  BY SumsExist
<1> QED
  BY <1>1, SumsAgree DEF Total

\* What the fold computes step by step.
LEMMA TotalStep ==
  ASSUME NEW S, IsFiniteSet(S), NEW z
  PROVE  Total(z, S) = IF S = {} THEN 0 ELSE z[AnyOf(S)] + Total(z, S \ {AnyOf(S)})
<1> DEFINE sum == CHOOSE h : Sums(h, z, S)
<1>1. Sums(sum, z, S)
  BY SumsExist
<1>2. sum[S] = IF S = {} THEN 0 ELSE z[AnyOf(S)] + sum[S \ {AnyOf(S)}]
  <2> HIDE DEF sum
  <2> QED
    BY <1>1 DEF Sums
<1>3. CASE S # {}
  <2> DEFINE T == S \ {AnyOf(S)}
             part == CHOOSE h : Sums(h, z, T)
  <2>1. IsFiniteSet(T)
    BY FS_Subset
  <2>2. Sums(part, z, T)
    BY <2>1, SumsExist
  <2>3. sum[T] = part[T]
    <3> HIDE DEF sum, part
    <3> QED
      BY <1>1, <2>1, <2>2, SumsAgree
  <2> QED
    BY <1>2, <1>3, <2>3 DEF Total
<1> QED
  BY <1>2, <1>3 DEF Total

\* A total of naturals is one.
LEMMA TotalType ==
  ASSUME NEW S, IsFiniteSet(S), NEW z, \A x \in S : z[x] \in Nat
  PROVE  Total(z, S) \in Nat
<1> DEFINE Bad == {s \in FiniteSubsetsOf(S) : Total(z, s) \notin Nat}
<1>1. SUFFICES ASSUME Bad # {} PROVE FALSE
  BY DEF FiniteSubsetsOf
<1>2. PICK s \in Bad : \A r \in Bad : ~ (<<r, s>> \in StrictSubsetOrdering(S))
  BY <1>1, FS_StrictSubsetOrderingWellFounded, WFMin
<1>3. s \subseteq S /\ IsFiniteSet(s) /\ Total(z, s) \notin Nat
  BY <1>2 DEF FiniteSubsetsOf
<1>4. Total(z, s) = IF s = {} THEN 0 ELSE z[AnyOf(s)] + Total(z, s \ {AnyOf(s)})
  BY <1>3, TotalStep
<1>5. s # {}
  BY <1>3, <1>4
<1> DEFINE t == s \ {AnyOf(s)}
<1>6. t \in FiniteSubsetsOf(S) /\ <<t, s>> \in StrictSubsetOrdering(S)
  BY <1>3, <1>5, AnyOfIn, FS_Subset DEF FiniteSubsetsOf, StrictSubsetOrdering
<1>7. Total(z, t) \in Nat /\ z[AnyOf(s)] \in Nat
  BY <1>2, <1>3, <1>5, <1>6, AnyOfIn
<1> QED
  BY <1>3, <1>4, <1>5, <1>7

\* Any element may be taken first.
LEMMA TotalWithout ==
  ASSUME NEW S, IsFiniteSet(S), NEW z, \A x \in S : z[x] \in Nat, NEW k \in S
  PROVE  Total(z, S) = z[k] + Total(z, S \ {k})
<1> DEFINE Holds(s, x) == Total(z, s) = z[x] + Total(z, s \ {x})
           Bad == {s \in FiniteSubsetsOf(S) : ~ \A x \in s : Holds(s, x)}
<1>1. SUFFICES ASSUME Bad # {} PROVE FALSE
  BY DEF FiniteSubsetsOf
<1>2. PICK s \in Bad : \A r \in Bad : ~ (<<r, s>> \in StrictSubsetOrdering(S))
  BY <1>1, FS_StrictSubsetOrderingWellFounded, WFMin
<1>3. s \subseteq S /\ IsFiniteSet(s)
  BY <1>2 DEF FiniteSubsetsOf
<1>4. PICK x \in s : ~ Holds(s, x)
  BY <1>2
<1> DEFINE c == AnyOf(s)
           both == (s \ {c}) \ {x}
<1>5. c \in s /\ Total(z, s) = z[c] + Total(z, s \ {c})
  BY <1>3, <1>4, TotalStep, AnyOfIn
<1>6. c # x
  BY <1>4, <1>5
<1>7. ASSUME NEW e \in s
      PROVE  /\ s \ {e} \in FiniteSubsetsOf(S) /\ <<s \ {e}, s>> \in StrictSubsetOrdering(S)
             /\ \A d \in s \ {e} : Holds(s \ {e}, d)
  <2>1. s \ {e} \in FiniteSubsetsOf(S) /\ <<s \ {e}, s>> \in StrictSubsetOrdering(S)
    BY <1>3, FS_Subset DEF FiniteSubsetsOf, StrictSubsetOrdering
  <2> QED
    BY <1>2, <2>1
<1>8. Total(z, s \ {c}) = z[x] + Total(z, both)
  BY <1>4, <1>5, <1>6, <1>7
<1>9. Total(z, s \ {x}) = z[c] + Total(z, both)
  <2>1. (s \ {x}) \ {c} = both
    OBVIOUS
  <2> QED
    BY <1>4, <1>5, <1>6, <1>7, <2>1
<1>10. Total(z, both) \in Nat /\ z[c] \in Nat /\ z[x] \in Nat
  <2>1. IsFiniteSet(both) /\ both \subseteq S
    BY <1>3, FS_Subset
  <2> QED
    BY <1>3, <1>4, <1>5, <2>1, TotalType
<1> HIDE DEF c, both
<1>11. Holds(s, x)
  BY <1>5, <1>8, <1>9, <1>10
<1> QED
  BY <1>4, <1>11

-----------------------------------------------------------------------------
(* The size of the MemTable is the total of its entries.                   *)

\* A put or a remove keeps the MemTable typed.
LEMMA MemStoreTypeOK ==
  ASSUME MemTypeOK, NEW k \in Keys, NEW e \in Entry, MemStore(k, e)
  PROVE  MemTypeOK'
<1>1. table' \in [Keys -> Slot]
  BY DEF MemTypeOK, MemStore, Slot
<1>2. \A d \in Entry : EntrySize(k, d) \in Nat
  BY SizeAssumption DEF EntrySize, Entry
<1>3. table[k] # Absent => table[k] \in Entry
  BY DEF MemTypeOK, Slot
<1>4. approximate_size' \in Nat
  <2>1. \A n \in Nat : SubSize(n) \in Nat
    BY DEF MemTypeOK, SubSize
  <2> QED
    BY <1>2, <1>3, <2>1 DEF MemTypeOK, MemStore, ChargeFor
<1> QED
  BY <1>1, <1>4 DEF MemTypeOK

PresentIn(t) == {k \in Keys : t[k] # Absent}

SizesIn(t) == [k \in Keys |-> EntrySize(k, t[k])]

EntrySum(t) == MapThenSumSet(LAMBDA k : EntrySize(k, t[k]), PresentIn(t))

\* The sum SizeIsSumOfEntries speaks of is the total over the keys present.
LEMMA EntrySumIsTotal ==
  ASSUME NEW t, IsFiniteSet(PresentIn(t))
  PROVE  EntrySum(t) = Total(SizesIn(t), PresentIn(t))
<1> DEFINE P == PresentIn(t)
           z == SizesIn(t)
           Folds(h) ==
             h = [s \in SUBSET P |->
                    IF s = {} THEN 0
                    ELSE EntrySize(AnyOf(s), t[AnyOf(s)]) + h[s \ {AnyOf(s)}]]
<1>1. EntrySum(t) = (CHOOSE h : Folds(h))[P]
  BY DEF EntrySum, MapThenSumSet, MapThenFoldSet, AnyOf
<1>2. \A h : Folds(h) <=> Sums(h, z, P)
  <2> TAKE h
  <2>1. \A s \in SUBSET P : s # {} => EntrySize(AnyOf(s), t[AnyOf(s)]) = z[AnyOf(s)]
    BY AnyOfIn DEF SizesIn, PresentIn
  <2> HIDE DEF P, z
  <2>2. [s \in SUBSET P |->
           IF s = {} THEN 0
           ELSE EntrySize(AnyOf(s), t[AnyOf(s)]) + h[s \ {AnyOf(s)}]]
        = [s \in SUBSET P |-> IF s = {} THEN 0 ELSE z[AnyOf(s)] + h[s \ {AnyOf(s)}]]
    BY <2>1
  <2> QED
    BY <2>2 DEF Sums
<1> DEFINE fold == CHOOSE h : Folds(h)
           sum  == CHOOSE h : Sums(h, z, P)
<1>3. \E h : Sums(h, z, P)
  BY SumsExist
<1> HIDE DEF Folds, P, z
<1>4. Sums(fold, z, P) /\ Sums(sum, z, P)
  BY <1>2, <1>3
<1>5. fold[P] = sum[P]
  <2> HIDE DEF fold, sum
  <2>1. IsFiniteSet(P)
    BY DEF P
  <2> QED
    BY <1>4, <2>1, SumsAgree
<1> QED
  BY <1>1, <1>5 DEF Total, P, z

\* What an inductive step needs besides: the map is finite.
SizeInv ==
  /\ IsFiniteSet(PresentIn(table))
  /\ SizeIsSumOfEntries

LEMMA SizeOfEntries ==
  /\ SizeIsSumOfEntries <=> approximate_size = EntrySum(table)
  /\ SizeIsSumOfEntries' <=> approximate_size' = EntrySum(table')
  BY DEF SizeIsSumOfEntries, EntrySum, MapThenSumSet, MapThenFoldSet, PresentIn

LEMMA EmptySum == IsFiniteSet(PresentIn(NoEntries)) /\ EntrySum(NoEntries) = 0
<1>1. PresentIn(NoEntries) = {} /\ IsFiniteSet({})
  BY FS_EmptySet DEF PresentIn, NoEntries
<1>2. EntrySum(NoEntries) = Total(SizesIn(NoEntries), {})
  BY <1>1, EntrySumIsTotal
<1> QED
  BY <1>1, <1>2, TotalStep

\* A put, an overwrite or a delete: the others keep their total, and what the key's old
\* entry had in it is given back in full.
LEMMA StoreKeepsSize ==
  ASSUME MemTypeOK, SizeInv, NEW k \in Keys, NEW e \in Entry, MemStore(k, e)
  PROVE  SizeInv'
<1> DEFINE P      == PresentIn(table)
           Q      == PresentIn(table')
           z      == SizesIn(table)
           y      == SizesIn(table')
           others == P \ {k}
           rest   == Total(z, others)
<1>1. /\ table \in [Keys -> Slot] /\ table' = [table EXCEPT ![k] = e]
      /\ approximate_size \in Nat /\ approximate_size' = ChargeFor(k, e)
      /\ table' \in [Keys -> Slot]
  BY MemStoreTypeOK DEF MemTypeOK, MemStore
<1>2. Q = others \cup {k} /\ k \in Q /\ Q \ {k} = others
  BY <1>1, SlotAssumption DEF PresentIn, Entry, Slot
<1>3. IsFiniteSet(others) /\ IsFiniteSet(P) /\ IsFiniteSet(Q)
  <2>1. IsFiniteSet(others)
    BY FS_Subset DEF SizeInv
  <2> QED
    BY <1>2, <2>1, FS_AddElement DEF SizeInv
<1>4. \A t \in [Keys -> Slot] : \A x \in PresentIn(t) : SizesIn(t)[x] \in Nat
  BY SizeAssumption DEF PresentIn, SizesIn, EntrySize, Slot, Entry
<1>5. (\A x \in P : z[x] \in Nat) /\ (\A x \in Q : y[x] \in Nat)
  BY <1>1, <1>4
<1>6. \A x \in others : y[x] = z[x]
  BY <1>1 DEF SizesIn, PresentIn
<1>7. y[k] = EntrySize(k, e) /\ EntrySize(k, e) \in Nat
  BY <1>1, <1>2, <1>5 DEF SizesIn
<1>8. rest \in Nat
  BY <1>3, <1>5, TotalType
<1>9. Total(y, Q) = EntrySize(k, e) + rest
  <2> HIDE DEF y, z, P, Q
  <2>1. Total(y, Q) = y[k] + Total(y, Q \ {k})
    BY <1>2, <1>3, <1>5, TotalWithout
  <2>2. Total(y, others) = rest
    BY <1>3, <1>6, TotalsAgree
  <2> QED
    BY <1>2, <1>7, <2>1, <2>2
<1>10. ChargeFor(k, e) = EntrySize(k, e) + rest
  <2>1. approximate_size = Total(z, P)
    BY <1>3, SizeOfEntries, EntrySumIsTotal DEF SizeInv
  <2>2. CASE k \notin P
    <3>1. P = others /\ table[k] = Absent
      BY <2>2 DEF PresentIn
    <3>2. approximate_size = rest
      BY <2>1, <3>1
    <3> HIDE DEF rest
    <3> QED
      BY <1>7, <1>8, <3>1, <3>2 DEF ChargeFor
  <2>3. CASE k \in P
    <3>1. approximate_size = z[k] + rest
      <4> HIDE DEF z, P
      <4> QED
        BY <1>3, <1>5, <2>1, <2>3, TotalWithout
    <3>2. z[k] = EntrySize(k, table[k]) /\ table[k] # Absent
      BY <2>3 DEF SizesIn, PresentIn
    <3>3. z[k] \in Nat
      BY <1>5, <2>3
    <3> HIDE DEF z, P, rest
    <3>4. SubSize(EntrySize(k, table[k])) = rest
      BY <1>8, <3>1, <3>2, <3>3 DEF SubSize
    <3> QED
      BY <1>7, <1>8, <3>2, <3>4 DEF ChargeFor
  <2> QED
    BY <2>2, <2>3
<1>11. EntrySum(table') = Total(y, Q)
  BY <1>3, EntrySumIsTotal
<1>12. SizeIsSumOfEntries'
  BY <1>1, <1>9, <1>10, <1>11, SizeOfEntries
<1> QED
  BY <1>3, <1>12 DEF SizeInv

LEMMA SizeStep ==
  ASSUME MemTypeOK, SizeInv,
         UNCHANGED memVars \/ MemClear \/ \E k \in Keys, e \in Entry : MemStore(k, e)
  PROVE  SizeInv'
<1>1. CASE UNCHANGED memVars
  BY <1>1, SizeOfEntries DEF memVars, SizeInv
<1>2. CASE MemClear
  BY <1>2, EmptySum, SizeOfEntries DEF MemClear, SizeInv
<1>3. CASE \E k \in Keys, e \in Entry : MemStore(k, e)
  BY <1>3, StoreKeepsSize
<1> QED
  BY <1>1, <1>2, <1>3

LEMMA InitSize == MemInit => MemTypeOK /\ SizeInv
<1>1. NoEntries \in [Keys -> Slot]
  BY DEF NoEntries, Slot
<1> QED
  BY <1>1, EmptySum, SizeOfEntries DEF MemInit, MemTypeOK, SizeInv

\* Of the MemTable by itself: whatever sequence of puts, deletes and clears, the estimate
\* is the sum of the sizes of the entries, and the subtraction never saturates
\* (memtable.cpp:8-59).
THEOREM SizeEstimateExact == MemSpec => []SizeIsSumOfEntries
<1>1. MemTypeOK /\ SizeInv /\ [MemNext]_memVars => MemTypeOK' /\ SizeInv'
  <2> SUFFICES ASSUME MemTypeOK, SizeInv, [MemNext]_memVars
               PROVE  MemTypeOK' /\ SizeInv'
    OBVIOUS
  <2>1. UNCHANGED memVars \/ MemClear \/ \E k \in Keys, e \in Entry : MemStore(k, e)
    BY DEF MemNext, MemPut, MemRemove, Entry
  <2>2. SizeInv'
    BY <2>1, SizeStep
  <2>3. MemTypeOK'
    <3>1. CASE UNCHANGED memVars
      BY <3>1 DEF memVars, MemTypeOK
    <3>2. CASE MemClear
      BY <3>2 DEF MemClear, MemTypeOK, NoEntries, Slot
    <3> QED
      BY <2>1, <3>1, <3>2, MemStoreTypeOK
  <2> QED
    BY <2>2, <2>3
<1>2. SizeInv => SizeIsSumOfEntries
  BY DEF SizeInv
<1> QED
  BY <1>1, <1>2, InitSize, PTL DEF MemSpec
=============================================================================
