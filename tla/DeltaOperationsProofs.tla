------------------------- MODULE DeltaOperationsProofs -------------------------
(***************************************************************************)
(* Whatever the results of a query, the operations that the engine         *)
(* computes lead a client's copy from one to the next, and send no row     *)
(* that it holds.                                                          *)
(*                                                                         *)
(* What the proof says of folds it says of the loops of scans as well,     *)
(* whose proofs rest on this module.                                       *)
(***************************************************************************)
EXTENDS DeltaOperations, RawWindowScan, SequenceTheorems, FiniteSetTheorems,
        WellFoundedInduction, TLAPS
-------------------------------------------------------------------------------
(* Numbers. *)

\* Every nonempty set of natural numbers has a least element.
LEMMA LeastNumber ==
  ASSUME NEW T, T \subseteq Nat, T # {}
  PROVE  \E n \in T : \A m \in T : n <= m
<1> DEFINE R == OpToRel(<, Nat)
<1>1. IsWellFoundedOn(R, Nat)
  BY NatLessThanWellFounded
<1>2. \A m, n \in Nat : m < n => <<m, n>> \in R
  BY DEF OpToRel
<1> HIDE DEF R
<1>3. PICK n \in T : \A m \in T : ~ (<<m, n>> \in R)
  BY <1>1, WFMin, Zenon
<1>4. ASSUME NEW m \in T PROVE n <= m
  <2>1. m \in Nat /\ n \in Nat
    OBVIOUS
  <2>2. ~ (m < n)
    BY <1>2, <1>3, <2>1
  <2> QED
    BY <2>1, <2>2
<1> QED
  BY <1>4

\* The greatest number of a set.
LEMMA GreatestIs ==
  ASSUME NEW n \in Nat, NEW s \in SUBSET (1..n), n \in s
  PROVE  Max(s) = n
<1>1. \A y \in s : n >= y
  OBVIOUS
<1>2. \A x \in s : (\A y \in s : x >= y) => x = n
  OBVIOUS
<1> QED
  BY <1>1, <1>2 DEF Max
-------------------------------------------------------------------------------
(* The row operations of deltas: sequences and what their parts are. *)

\* What holds of 0, and of a number when it holds of the one before, holds up to any bound.
LEMMA CountUp ==
  ASSUME NEW n \in Nat, NEW P, 0 \in P, \A i \in 1..n : i - 1 \in P => i \in P
  PROVE  \A i \in 0..n : i \in P
<1> SUFFICES ASSUME NEW u \in 0..n, u \notin P PROVE FALSE
  OBVIOUS
<1> DEFINE Bad == {i \in 0..n : i \notin P}
<1>1. Bad \subseteq Nat /\ Bad # {}
  OBVIOUS
<1>2. PICK i \in Bad : \A m \in Bad : i <= m
  <2> HIDE DEF Bad
  <2> QED
    BY <1>1, LeastNumber, Zenon
<1>3. i \in 1..n /\ i - 1 \in 0..n
  BY <1>2
<1>4. i - 1 \notin P
  BY <1>2, <1>3
<1>5. i - 1 \in Bad
  BY <1>3, <1>4
<1> QED
  BY <1>2, <1>3, <1>5

\* Of some indices there is a first and a last.
LEMMA EndsExist ==
  ASSUME NEW n \in Nat, NEW T \in SUBSET (1..n), T # {}
  PROVE  /\ Min(T) \in T /\ \A i \in T : Min(T) <= i
         /\ Max(T) \in T /\ \A i \in T : Max(T) >= i
<1>1. \E x \in T : \A y \in T : x <= y
  <2>1. T \subseteq Nat
    OBVIOUS
  <2> QED
    BY <2>1, LeastNumber
<1>2. \E x \in T : \A y \in T : x >= y
  <2> DEFINE U == {i \in 0..n : n - i \in T}
  <2>1. U \subseteq Nat /\ U # {}
    <3>1. PICK i \in T : TRUE
      OBVIOUS
    <3>2. n - i \in 0..n /\ n - (n - i) = i
      BY <3>1
    <3>3. n - i \in U
      BY <3>1, <3>2
    <3>4. U \subseteq Nat
      OBVIOUS
    <3> HIDE DEF U
    <3> QED
      BY <3>3, <3>4
  <2>2. PICK u \in U : \A m \in U : u <= m
    <3> HIDE DEF U
    <3> QED
      BY <2>1, LeastNumber
  <2>3. u \in 0..n /\ n - u \in T
    BY <2>2
  <2>4. ASSUME NEW y \in T PROVE n - u >= y
    <3>1. n - y \in 0..n /\ n - (n - y) = y
      OBVIOUS
    <3>2. n - y \in U
      BY <3>1
    <3> QED
      BY <2>2, <2>3, <3>1, <3>2
  <2> QED
    BY <2>3, <2>4
<1> QED
  BY <1>1, <1>2 DEF Min, Max

\* t is s with e put in at i.
WithEntry(t, s, i, e) ==
  /\ Len(t) = Len(s) + 1
  /\ \A j \in 1..(Len(s) + 1) : t[j] = IF j < i THEN s[j] ELSE IF j = i THEN e ELSE s[j - 1]

\* An entry more.
LEMMA InsertAtIs ==
  ASSUME NEW S, NEW s \in Seq(S), NEW i \in 1..(Len(s) + 1), NEW e \in S
  PROVE  InsertAt(s, i, e) \in Seq(S) /\ WithEntry(InsertAt(s, i, e), s, i, e)
<1> DEFINE a == SubSeq(s, 1, i - 1)
           b == SubSeq(s, i, Len(s))
<1>1. Len(s) \in Nat /\ i \in Nat
  BY LenProperties
<1>2. /\ a \in Seq(S) /\ Len(a) = i - 1
      /\ \A j \in 1..(i - 1) : a[j] = s[j]
  BY <1>1
<1>3. /\ b \in Seq(S) /\ Len(b) = Len(s) - i + 1
      /\ \A j \in 1..(Len(s) - i + 1) : b[j] = s[i + j - 1]
  BY <1>1
<1> HIDE DEF a, b
<1>4. <<e>> \in Seq(S) /\ Len(<<e>>) = 1 /\ <<e>>[1] = e
  OBVIOUS
<1> DEFINE c == a \o <<e>>
           t == c \o b
<1>5. /\ c \in Seq(S) /\ Len(c) = i
      /\ \A j \in 1..i : c[j] = IF j < i THEN s[j] ELSE e
  <2>1. /\ c \in Seq(S) /\ Len(c) = Len(a) + 1
        /\ \A j \in 1..(Len(a) + 1) : c[j] = IF j <= Len(a) THEN a[j] ELSE <<e>>[j - Len(a)]
    BY <1>2, <1>4, ConcatProperties
  <2> HIDE DEF c
  <2>2. ASSUME NEW j \in 1..i PROVE c[j] = IF j < i THEN s[j] ELSE e
    BY <1>1, <1>2, <1>4, <2>1
  <2> QED
    BY <1>1, <1>2, <2>1, <2>2
<1> HIDE DEF c
<1>6. /\ t \in Seq(S) /\ Len(t) = Len(c) + Len(b)
      /\ \A j \in 1..(Len(c) + Len(b)) : t[j] = IF j <= Len(c) THEN c[j] ELSE b[j - Len(c)]
  <2>1. c \in Seq(S) /\ b \in Seq(S)
    BY <1>3, <1>5
  <2> QED
    BY <2>1, ConcatProperties
<1> HIDE DEF t
<1>7. ASSUME NEW j \in 1..(Len(s) + 1)
      PROVE  t[j] = IF j < i THEN s[j] ELSE IF j = i THEN e ELSE s[j - 1]
  <2>1. CASE j <= i
    BY <1>1, <1>3, <1>5, <1>6, <2>1
  <2>2. CASE ~(j <= i)
    <3>1. j - i \in 1..(Len(s) - i + 1) /\ i + (j - i) - 1 = j - 1
      BY <1>1, <2>2
    <3>2. t[j] = b[j - i]
      BY <1>1, <1>3, <1>5, <1>6, <2>2
    <3>3. b[j - i] = s[i + (j - i) - 1]
      BY <1>3, <3>1
    <3> QED
      BY <1>1, <2>2, <3>1, <3>2, <3>3
  <2> QED
    BY <2>1, <2>2
<1>8. InsertAt(s, i, e) = t
  BY DEF InsertAt, a, b, c, t
<1> QED
  BY <1>1, <1>3, <1>5, <1>6, <1>7, <1>8 DEF WithEntry

\* An entry less.
LEMMA RemoveAtIs ==
  ASSUME NEW S, NEW s \in Seq(S), NEW i \in 1..Len(s)
  PROVE  LET t == RemoveAt(s, i)
         IN  /\ t \in Seq(S) /\ Len(t) = Len(s) - 1
             /\ \A j \in 1..(Len(s) - 1) : t[j] = IF j < i THEN s[j] ELSE s[j + 1]
<1> DEFINE a == SubSeq(s, 1, i - 1)
           b == SubSeq(s, i + 1, Len(s))
<1>1. Len(s) \in Nat /\ i \in Nat
  BY LenProperties
<1>2. /\ a \in Seq(S) /\ Len(a) = i - 1
      /\ \A j \in 1..(i - 1) : a[j] = s[j]
  BY <1>1
<1>3. /\ b \in Seq(S) /\ Len(b) = Len(s) - i
      /\ \A j \in 1..(Len(s) - i) : b[j] = s[i + j]
  BY <1>1
<1> HIDE DEF a, b
<1>4. RemoveAt(s, i) = a \o b
  BY DEF RemoveAt, a, b
<1>5. /\ a \o b \in Seq(S) /\ Len(a \o b) = Len(a) + Len(b)
      /\ \A j \in 1..(Len(a) + Len(b)) :
           (a \o b)[j] = IF j <= Len(a) THEN a[j] ELSE b[j - Len(a)]
  BY <1>2, <1>3, ConcatProperties
<1>6. ASSUME NEW j \in 1..(Len(s) - 1)
      PROVE  (a \o b)[j] = IF j < i THEN s[j] ELSE s[j + 1]
  <2>1. CASE j < i
    BY <1>1, <1>2, <1>3, <1>5, <2>1
  <2>2. CASE ~(j < i)
    <3>1. j - (i - 1) \in 1..(Len(s) - i) /\ i + (j - (i - 1)) = j + 1
      BY <1>1, <2>2
    <3>2. (a \o b)[j] = b[j - (i - 1)]
      BY <1>1, <1>2, <1>3, <1>5, <2>2
    <3>3. b[j - (i - 1)] = s[i + (j - (i - 1))]
      BY <1>3, <3>1
    <3> QED
      BY <2>2, <3>1, <3>2, <3>3
  <2> QED
    BY <2>1, <2>2
<1> QED
  BY <1>1, <1>2, <1>3, <1>4, <1>5, <1>6

\* Where a moved sequence has its entries from.
From(from, to, j) ==
  IF j = to THEN from
  ELSE IF from <= j /\ j < to THEN j + 1
  ELSE IF to < j /\ j <= from THEN j - 1
  ELSE j

\* An entry at another place.
LEMMA MovedIs ==
  ASSUME NEW S, NEW s \in Seq(S), NEW from \in 1..Len(s), NEW to \in 1..Len(s)
  PROVE  LET t == Moved(s, from, to)
         IN  /\ t \in Seq(S) /\ Len(t) = Len(s)
             /\ \A j \in 1..Len(s) : t[j] = s[From(from, to, j)]
<1> DEFINE r == RemoveAt(s, from)
<1>1. Len(s) \in Nat /\ s[from] \in S
  BY LenProperties, ElementOfSeq
<1>2. /\ r \in Seq(S) /\ Len(r) = Len(s) - 1
      /\ \A j \in 1..(Len(s) - 1) : r[j] = IF j < from THEN s[j] ELSE s[j + 1]
  BY RemoveAtIs
<1>3. Moved(s, from, to) = InsertAt(r, to, s[from])
  BY DEF Moved
<1> HIDE DEF r
<1>4. to \in 1..(Len(r) + 1)
  BY <1>1, <1>2
<1> DEFINE t == InsertAt(r, to, s[from])
<1>a. t \in Seq(S) /\ WithEntry(t, r, to, s[from])
  <2>1. r \in Seq(S) /\ s[from] \in S
    BY <1>1, <1>2
  <2> HIDE DEF r
  <2> QED
    BY <1>4, <2>1, InsertAtIs
<1> HIDE DEF t
<1>5. /\ t \in Seq(S) /\ Len(t) = Len(r) + 1
      /\ \A j \in 1..(Len(r) + 1) :
           t[j] = IF j < to THEN r[j] ELSE IF j = to THEN s[from] ELSE r[j - 1]
  BY <1>a DEF WithEntry
<1>6. ASSUME NEW j \in 1..Len(s) PROVE t[j] = s[From(from, to, j)]
  <2>1. j \in 1..(Len(r) + 1)
    BY <1>1, <1>2
  <2>2. CASE j = to
    BY <1>5, <2>1, <2>2 DEF From
  <2>3. CASE j < to
    <3>1. t[j] = r[j] /\ j \in 1..(Len(s) - 1)
      BY <1>1, <1>5, <2>1, <2>3
    <3> QED
      BY <1>1, <1>2, <2>3, <3>1 DEF From
  <2>4. CASE j > to
    <3>1. t[j] = r[j - 1] /\ j - 1 \in 1..(Len(s) - 1)
      BY <1>1, <1>5, <2>1, <2>4
    <3>2. r[j - 1] = IF j - 1 < from THEN s[j - 1] ELSE s[j]
      BY <1>2, <3>1
    <3> QED
      BY <1>1, <2>4, <3>1, <3>2 DEF From
  <2> QED
    BY <1>1, <2>2, <2>3, <2>4
<1>7. Moved(s, from, to) = t
  BY <1>3 DEF t
<1> QED
  BY <1>1, <1>2, <1>5, <1>6, <1>7
-------------------------------------------------------------------------------
(* Windows, and where their keys are. *)

\* Entries of which no two have a key.
Window(s) == s \in Seq(Entries) /\ \A i, j \in 1..Len(s) : s[i].key = s[j].key => i = j

\* at tells where each key is in s.
Tells(at, s) ==
  /\ at = [k \in Keys |-> at[k]]
  /\ \A i \in 1..Len(s) : at[s[i].key] = i
  /\ \A k \in Keys : k \notin KeySet(s) => at[k] = 0

LEMMA WindowEntries ==
  ASSUME NEW s, Window(s)
  PROVE  /\ Len(s) \in Nat /\ DOMAIN s = 1..Len(s)
         /\ \A i \in 1..Len(s) : s[i] \in Entries /\ s[i].key \in Keys /\ s[i].key \in KeySet(s)
         /\ \A k \in KeySet(s) : \E i \in 1..Len(s) : s[i].key = k
         /\ KeySet(s) = {s[i].key : i \in 1..Len(s)}
<1>1. Len(s) \in Nat /\ DOMAIN s = 1..Len(s)
  BY LenProperties DEF Window
<1>2. \A i \in 1..Len(s) : s[i] \in Entries
  BY ElementOfSeq DEF Window
<1> QED
  BY <1>1, <1>2 DEF Entries, KeySet

\* Only one map does.
LEMMA TellsOnce ==
  ASSUME NEW s, Window(s), NEW a, Tells(a, s), NEW b, Tells(b, s)
  PROVE  a = b
<1>1. ASSUME NEW k \in Keys PROVE a[k] = b[k]
  BY WindowEntries DEF Tells
<1> QED
  BY <1>1 DEF Tells

LEMMA IndexTells ==
  ASSUME NEW s, Window(s)
  PROVE  Tells(IndexOf(s), s)
<1>1. DOMAIN s = 1..Len(s) /\ \A i \in 1..Len(s) : s[i].key \in Keys /\ s[i].key \in KeySet(s)
  BY WindowEntries
<1>2. ASSUME NEW i \in 1..Len(s) PROVE IndexOf(s)[s[i].key] = i
  <2>1. \A j \in DOMAIN s : s[j].key = s[i].key => j = i
    BY <1>1 DEF Window
  <2> QED
    BY <1>1, <2>1 DEF IndexOf
<1>3. ASSUME NEW k \in Keys, k \notin KeySet(s) PROVE IndexOf(s)[k] = 0
  BY <1>1, <1>3 DEF IndexOf, KeySet
<1>4. IndexOf(s) = [k \in Keys |-> IndexOf(s)[k]]
  BY DEF IndexOf
<1> QED
  BY <1>2, <1>3, <1>4 DEF Tells

\* A map that is right before an index is right once the rest is indexed again.
LEMMA ReindexTells ==
  ASSUME NEW s, Window(s), NEW start \in Nat \ {0}, NEW at,
         \A i \in 1..Len(s) : i < start => at[s[i].key] = i,
         \A k \in Keys : k \notin KeySet(s) => at[k] = 0
  PROVE  Reindex(at, s, start) = IndexOf(s)
<1>1. DOMAIN s = 1..Len(s) /\ Len(s) \in Nat
      /\ \A i \in 1..Len(s) : s[i].key \in Keys /\ s[i].key \in KeySet(s)
  BY WindowEntries
<1> DEFINE r == Reindex(at, s, start)
<1>2. ASSUME NEW i \in 1..Len(s) PROVE r[s[i].key] = i
  <2>1. \A j \in start..Len(s) : s[j].key = s[i].key => j = i
    BY <1>1 DEF Window
  <2>2. CASE i < start
    <3>1. ~ \E j \in start..Len(s) : s[j].key = s[i].key
      BY <1>1, <2>1, <2>2
    <3> QED
      BY <1>1, <2>2, <3>1 DEF Reindex
  <2>3. CASE i >= start
    <3>1. i \in start..Len(s)
      BY <1>1, <2>3
    <3> QED
      BY <1>1, <2>1, <3>1 DEF Reindex
  <2> QED
    BY <1>1, <2>2, <2>3
<1>3. ASSUME NEW k \in Keys, k \notin KeySet(s) PROVE r[k] = 0
  <2>1. ~ \E j \in start..Len(s) : s[j].key = k
    BY <1>1, <1>3
  <2> QED
    BY <1>3, <2>1 DEF Reindex
<1>4. r = [k \in Keys |-> r[k]]
  BY DEF Reindex
<1> HIDE DEF r
<1>5. Tells(r, s)
  BY <1>2, <1>3, <1>4 DEF Tells
<1>6. r = IndexOf(s)
  BY <1>5, IndexTells, TellsOnce
<1> QED
  BY <1>6 DEF r
-------------------------------------------------------------------------------
(* What an operation does to a client's copy of a window. *)

\* The client's copy, indexed.
Copy(r) == [ok |-> TRUE, rows |-> r, index |-> IndexOf(r)]

\* Without an entry.
LEMMA RemovedWindow ==
  ASSUME NEW r, Window(r), NEW i \in 1..Len(r)
  PROVE  LET t == RemoveAt(r, i)
             k == r[i].key
         IN  /\ Window(t) /\ k \in Keys /\ IndexOf(r)[k] = i
             /\ Reindex([IndexOf(r) EXCEPT ![k] = 0], t, i) = IndexOf(t)
             /\ KeySet(t) = KeySet(r) \ {k}
<1> DEFINE t == RemoveAt(r, i)
           k == r[i].key
           at == [IndexOf(r) EXCEPT ![k] = 0]
<1>1. /\ Len(r) \in Nat /\ i \in Nat \ {0} /\ k \in Keys
      /\ \A j \in 1..Len(r) : r[j].key \in Keys /\ r[j].key \in KeySet(r)
      /\ KeySet(r) = {r[j].key : j \in 1..Len(r)}
  <2>1. /\ Len(r) \in Nat
        /\ \A j \in 1..Len(r) : r[j].key \in Keys /\ r[j].key \in KeySet(r)
        /\ KeySet(r) = {r[j].key : j \in 1..Len(r)}
    BY WindowEntries
  <2>2. i \in Nat \ {0}
    BY <2>1
  <2> QED
    BY <2>1, <2>2
<1>2. Tells(IndexOf(r), r)
  BY IndexTells
<1>3. /\ t \in Seq(Entries) /\ Len(t) = Len(r) - 1
      /\ \A j \in 1..(Len(r) - 1) : t[j] = IF j < i THEN r[j] ELSE r[j + 1]
  BY RemoveAtIs DEF Window
<1> HIDE DEF t
<1>4. Window(t)
  <2>1. ASSUME NEW a \in 1..Len(t), NEW b \in 1..Len(t), t[a].key = t[b].key PROVE a = b
    <3> DEFINE pa == IF a < i THEN a ELSE a + 1
               pb == IF b < i THEN b ELSE b + 1
    <3>1. pa \in 1..Len(r) /\ pb \in 1..Len(r) /\ t[a] = r[pa] /\ t[b] = r[pb]
      BY <1>1, <1>3
    <3>2. pa = pb
      <4> HIDE DEF pa, pb
      <4> QED
        BY <2>1, <3>1 DEF Window
    <3> QED
      BY <1>1, <1>3, <3>2
  <2> QED
    BY <1>3, <2>1 DEF Window
<1>5. KeySet(t) = KeySet(r) \ {k}
  <2>1. KeySet(t) = {t[j].key : j \in 1..Len(t)}
    BY <1>4, WindowEntries
  <2>2. ASSUME NEW j \in 1..Len(t) PROVE t[j].key \in KeySet(r) \ {k}
    <3> DEFINE p == IF j < i THEN j ELSE j + 1
    <3>1. p \in 1..Len(r) /\ t[j] = r[p] /\ p # i
      BY <1>1, <1>3
    <3> HIDE DEF p
    <3> QED
      BY <1>1, <3>1 DEF Window
  <2>3. ASSUME NEW j \in 1..Len(r), r[j].key # k PROVE r[j].key \in KeySet(t)
    <3>1. j # i
      BY <2>3
    <3>2. \E p \in 1..Len(t) : t[p] = r[j]
      <4>1. CASE j < i
        <5>1. j \in 1..(Len(r) - 1) /\ j \in 1..Len(t)
          BY <1>1, <1>3, <4>1
        <5>2. t[j] = r[j]
          BY <1>3, <4>1, <5>1
        <5> QED
          BY <5>1, <5>2
      <4>2. CASE j > i
        <5>1. j - 1 \in 1..(Len(r) - 1) /\ ~(j - 1 < i) /\ (j - 1) + 1 = j
          BY <1>1, <4>2
        <5> QED
          BY <1>3, <5>1
      <4> QED
        BY <1>1, <3>1, <4>1, <4>2
    <3> QED
      BY <2>1, <3>2
  <2> QED
    BY <1>1, <2>1, <2>2, <2>3
<1>6. IndexOf(r)[k] = i
  BY <1>2 DEF Tells
<1>7. Reindex(at, t, i) = IndexOf(t)
  <2>1. ASSUME NEW j \in 1..Len(t), j < i PROVE at[t[j].key] = j
    <3>1. j \in 1..(Len(r) - 1) /\ j \in 1..Len(r) /\ j # i
      BY <1>1, <1>3, <2>1
    <3>2. t[j] = r[j]
      BY <1>3, <2>1, <3>1
    <3>3. r[j].key # k
      BY <3>1 DEF Window
    <3> QED
      BY <1>1, <1>2, <3>1, <3>2, <3>3 DEF Tells
  <2>2. ASSUME NEW l \in Keys, l \notin KeySet(t) PROVE at[l] = 0
    BY <1>2, <1>5, <2>2 DEF Tells
  <2> HIDE DEF at
  <2> QED
    BY <1>1, <1>4, <2>1, <2>2, ReindexTells
<1> QED
  BY <1>1, <1>4, <1>5, <1>6, <1>7 DEF t

\* With an entry more.
LEMMA InsertedWindow ==
  ASSUME NEW r, Window(r), NEW i \in 1..(Len(r) + 1), NEW e \in Entries, e.key \notin KeySet(r)
  PROVE  LET t == InsertAt(r, i, e)
         IN  /\ Window(t) /\ WithEntry(t, r, i, e)
             /\ Reindex(IndexOf(r), t, i) = IndexOf(t)
             /\ KeySet(t) = KeySet(r) \union {e.key}
<1> DEFINE t == InsertAt(r, i, e)
<1>1. /\ Len(r) \in Nat /\ i \in Nat \ {0} /\ e.key \in Keys
      /\ \A j \in 1..Len(r) : r[j].key \in Keys /\ r[j].key \in KeySet(r)
      /\ KeySet(r) = {r[j].key : j \in 1..Len(r)}
  BY WindowEntries DEF Entries
<1>2. Tells(IndexOf(r), r)
  BY IndexTells
<1>3. t \in Seq(Entries) /\ WithEntry(t, r, i, e)
  BY InsertAtIs DEF Window
<1> HIDE DEF t
<1>4. /\ Len(t) = Len(r) + 1 /\ t[i] = e
      /\ \A j \in 1..(Len(r) + 1) : t[j] = IF j < i THEN r[j] ELSE IF j = i THEN e ELSE r[j - 1]
  BY <1>3 DEF WithEntry
<1>5. Window(t)
  <2>1. ASSUME NEW a \in 1..Len(t), a # i
        PROVE  LET p == IF a < i THEN a ELSE a - 1
               IN  p \in 1..Len(r) /\ t[a] = r[p] /\ t[a].key # e.key
    BY <1>1, <1>4, <2>1
  <2>2. ASSUME NEW a \in 1..Len(t), NEW b \in 1..Len(t), t[a].key = t[b].key PROVE a = b
    <3>1. CASE a = i \/ b = i
      BY <1>4, <2>1, <2>2, <3>1
    <3>2. CASE a # i /\ b # i
      <4> DEFINE pa == IF a < i THEN a ELSE a - 1
                 pb == IF b < i THEN b ELSE b - 1
      <4>1. pa \in 1..Len(r) /\ pb \in 1..Len(r) /\ t[a] = r[pa] /\ t[b] = r[pb]
        BY <2>1, <3>2
      <4>2. pa = pb
        <5> HIDE DEF pa, pb
        <5> QED
          BY <2>2, <4>1 DEF Window
      <4> QED
        BY <1>1, <1>4, <3>2, <4>2
    <3> QED
      BY <3>1, <3>2
  <2> QED
    BY <1>3, <2>2 DEF Window
<1>6. KeySet(t) = KeySet(r) \union {e.key}
  <2>1. KeySet(t) = {t[j].key : j \in 1..Len(t)}
    BY <1>5, WindowEntries
  <2>2. ASSUME NEW j \in 1..Len(t) PROVE t[j].key \in KeySet(r) \union {e.key}
    <3>1. CASE j = i
      BY <1>4, <3>1
    <3>2. CASE j # i
      <4> DEFINE p == IF j < i THEN j ELSE j - 1
      <4>1. p \in 1..Len(r) /\ t[j] = r[p]
        BY <1>1, <1>4, <3>2
      <4> HIDE DEF p
      <4> QED
        BY <1>1, <4>1
    <3> QED
      BY <3>1, <3>2
  <2>3. ASSUME NEW j \in 1..Len(r) PROVE r[j].key \in KeySet(t)
    <3>1. \E p \in 1..Len(t) : t[p] = r[j]
      <4>1. CASE j < i
        <5>1. j \in 1..(Len(r) + 1) /\ j \in 1..Len(t)
          BY <1>1, <1>4, <4>1
        <5>2. t[j] = r[j]
          BY <1>4, <4>1, <5>1
        <5> QED
          BY <5>1, <5>2
      <4>2. CASE j >= i
        <5>1. j + 1 \in 1..(Len(r) + 1) /\ ~(j + 1 < i) /\ j + 1 # i /\ (j + 1) - 1 = j
          BY <1>1, <4>2
        <5> QED
          BY <1>4, <5>1
      <4> QED
        BY <1>1, <4>1, <4>2
    <3> QED
      BY <2>1, <3>1
  <2>4. e.key \in KeySet(t)
    <3>1. i \in 1..Len(t)
      BY <1>1, <1>4
    <3> QED
      BY <1>4, <2>1, <3>1
  <2> QED
    BY <1>1, <2>1, <2>2, <2>3, <2>4
<1>7. Reindex(IndexOf(r), t, i) = IndexOf(t)
  <2>1. ASSUME NEW j \in 1..Len(t), j < i PROVE IndexOf(r)[t[j].key] = j
    <3>1. t[j] = r[j] /\ j \in 1..Len(r)
      BY <1>1, <1>4, <2>1
    <3> QED
      BY <1>2, <3>1 DEF Tells
  <2>2. ASSUME NEW l \in Keys, l \notin KeySet(t) PROVE IndexOf(r)[l] = 0
    BY <1>2, <1>6, <2>2 DEF Tells
  <2> QED
    BY <1>1, <1>5, <2>1, <2>2, ReindexTells
<1> QED
  BY <1>3, <1>5, <1>6, <1>7 DEF t

\* With an entry elsewhere.
LEMMA MovedWindow ==
  ASSUME NEW r, Window(r), NEW from \in 1..Len(r), NEW to \in 1..Len(r)
  PROVE  LET t == Moved(r, from, to)
         IN  /\ Window(t) /\ Len(t) = Len(r)
             /\ \A j \in 1..Len(r) : t[j] = r[From(from, to, j)]
             /\ Reindex(IndexOf(r), t, Min({from, to})) = IndexOf(t)
             /\ KeySet(t) = KeySet(r)
<1> DEFINE t == Moved(r, from, to)
           start == Min({from, to})
<1>1. /\ Len(r) \in Nat /\ from \in Nat \ {0} /\ to \in Nat \ {0}
      /\ \A j \in 1..Len(r) : r[j].key \in Keys /\ r[j].key \in KeySet(r)
      /\ KeySet(r) = {r[j].key : j \in 1..Len(r)}
  BY WindowEntries
<1>2. Tells(IndexOf(r), r)
  BY IndexTells
<1>3. /\ t \in Seq(Entries) /\ Len(t) = Len(r)
      /\ \A j \in 1..Len(r) : t[j] = r[From(from, to, j)]
  BY MovedIs DEF Window
<1> HIDE DEF t
<1>4. ASSUME NEW j \in 1..Len(r) PROVE From(from, to, j) \in 1..Len(r)
  BY <1>1 DEF From
<1>5. ASSUME NEW a \in 1..Len(r), NEW b \in 1..Len(r), From(from, to, a) = From(from, to, b)
      PROVE  a = b
  BY <1>1, <1>5 DEF From
<1>6. ASSUME NEW j \in 1..Len(r) PROVE From(to, from, j) \in 1..Len(r) /\ From(from, to, From(to, from, j)) = j
  BY <1>1 DEF From
<1>7. Window(t)
  <2>1. ASSUME NEW a \in 1..Len(t), NEW b \in 1..Len(t), t[a].key = t[b].key PROVE a = b
    <3>1. a \in 1..Len(r) /\ b \in 1..Len(r)
      BY <1>3
    <3>2. From(from, to, a) = From(from, to, b)
      <4>1. r[From(from, to, a)].key = r[From(from, to, b)].key
        BY <1>3, <2>1, <3>1
      <4> QED
        BY <1>4, <3>1, <4>1 DEF Window
    <3> QED
      BY <1>5, <3>1, <3>2
  <2> QED
    BY <1>3, <2>1 DEF Window
<1>8. KeySet(t) = KeySet(r)
  <2>1. KeySet(t) = {t[j].key : j \in 1..Len(r)}
    BY <1>3, <1>7, WindowEntries
  <2>2. ASSUME NEW j \in 1..Len(r) PROVE t[j].key \in KeySet(r)
    BY <1>1, <1>3, <1>4
  <2>3. ASSUME NEW j \in 1..Len(r) PROVE r[j].key \in KeySet(t)
    <3>1. t[From(to, from, j)] = r[j] /\ From(to, from, j) \in 1..Len(r)
      BY <1>3, <1>6
    <3> HIDE DEF From
    <3> QED
      BY <2>1, <3>1
  <2>4. KeySet(t) \subseteq KeySet(r)
    BY <2>1, <2>2
  <2>5. KeySet(r) \subseteq KeySet(t)
    BY <1>1, <2>3
  <2> QED
    BY <2>4, <2>5
<1>9. start \in Nat \ {0} /\ start <= from /\ start <= to
  <2>1. {from, to} \in SUBSET (1..Len(r)) /\ {from, to} # {}
    OBVIOUS
  <2> QED
    BY <1>1, <2>1, EndsExist
<1> HIDE DEF start
<1>10. Reindex(IndexOf(r), t, start) = IndexOf(t)
  <2>1. ASSUME NEW j \in 1..Len(t), j < start PROVE IndexOf(r)[t[j].key] = j
    <3>1. j \in 1..Len(r) /\ From(from, to, j) = j
      BY <1>1, <1>3, <1>9, <2>1 DEF From
    <3>2. t[j] = r[j]
      BY <1>3, <3>1
    <3> QED
      BY <1>2, <3>1, <3>2 DEF Tells
  <2>2. ASSUME NEW l \in Keys, l \notin KeySet(t) PROVE IndexOf(r)[l] = 0
    BY <1>2, <1>8, <2>2 DEF Tells
  <2> QED
    BY <1>7, <1>9, <2>1, <2>2, ReindexTells
<1> QED
  BY <1>3, <1>7, <1>8, <1>10 DEF t, start

\* With another row at an index.
LEMMA UpdatedWindow ==
  ASSUME NEW r, Window(r), NEW i \in 1..Len(r), NEW e \in Entries, e.key = r[i].key
  PROVE  LET t == [r EXCEPT ![i] = e]
         IN  Window(t) /\ Len(t) = Len(r) /\ IndexOf(t) = IndexOf(r) /\ KeySet(t) = KeySet(r)
<1> DEFINE t == [r EXCEPT ![i] = e]
<1>1. Len(r) \in Nat /\ DOMAIN r = 1..Len(r) /\ r \in Seq(Entries)
  BY WindowEntries DEF Window
<1>2. /\ t \in Seq(Entries) /\ Len(t) = Len(r) /\ DOMAIN t = 1..Len(r)
      /\ \A j \in 1..Len(r) : t[j].key = r[j].key
  BY <1>1
<1> HIDE DEF t
<1>3. Window(t)
  BY <1>2 DEF Window
<1>4. KeySet(t) = KeySet(r)
  BY <1>1, <1>2 DEF KeySet
<1>5. Tells(IndexOf(r), t)
  <2>1. Tells(IndexOf(r), r)
    BY IndexTells
  <2> QED
    BY <1>2, <1>4, <2>1 DEF Tells
<1>6. IndexOf(t) = IndexOf(r)
  BY <1>3, <1>5, IndexTells, TellsOnce
<1> QED
  BY <1>2, <1>3, <1>4, <1>6 DEF t

\* An operation that removes, inserts, moves or updates does what its name says.
LEMMA RemoveApplies ==
  ASSUME NEW r, Window(r), NEW i \in 1..Len(r)
  PROVE  ApplyOperation(Copy(r), RemoveOp(r[i].key)) = Copy(RemoveAt(r, i))
<1> DEFINE k == r[i].key
           op == RemoveOp(k)
           s == Copy(r)
<1>1. op.type = "remove" /\ op.key = k
  BY DEF RemoveOp
<1>2. s.ok /\ s.rows = r /\ s.index = IndexOf(r)
  BY DEF Copy
<1>3. /\ IndexOf(r)[k] = i
      /\ Reindex([IndexOf(r) EXCEPT ![k] = 0], RemoveAt(r, i), i) = IndexOf(RemoveAt(r, i))
  BY RemovedWindow
<1>4. i # 0
  BY WindowEntries
<1> HIDE DEF op, s, k
<1>5. ApplyOperation(s, op) =
        [ok |-> TRUE, rows |-> RemoveAt(r, i),
         index |-> Reindex([IndexOf(r) EXCEPT ![k] = 0], RemoveAt(r, i), i)]
  BY <1>1, <1>2, <1>3, <1>4 DEF ApplyOperation
<1> QED
  BY <1>3, <1>5 DEF Copy, k, op, s

LEMMA InsertApplies ==
  ASSUME NEW r, Window(r), NEW i \in 1..(Len(r) + 1), NEW e \in Entries, e.key \notin KeySet(r)
  PROVE  ApplyOperation(Copy(r), InsertOp(e, i)) = Copy(InsertAt(r, i, e))
<1> DEFINE op == InsertOp(e, i)
           s == Copy(r)
<1>1. /\ op.type = "insert" /\ op.key = e.key /\ op.index = i
      /\ [key |-> op.key, row |-> op.row] = e
  BY DEF InsertOp, Entries
<1>2. s.ok /\ s.rows = r /\ s.index = IndexOf(r)
  BY DEF Copy
<1>3. Reindex(IndexOf(r), InsertAt(r, i, e), i) = IndexOf(InsertAt(r, i, e))
  BY InsertedWindow
<1>4. IndexOf(r)[e.key] = 0
  BY IndexTells DEF Tells, Entries
<1> HIDE DEF op, s
<1>5. ApplyOperation(s, op) =
        [ok |-> TRUE, rows |-> InsertAt(r, i, e), index |-> Reindex(IndexOf(r), InsertAt(r, i, e), i)]
  BY <1>1, <1>2, <1>4 DEF ApplyOperation
<1> QED
  BY <1>3, <1>5 DEF Copy, op, s

LEMMA MoveApplies ==
  ASSUME NEW r, Window(r), NEW from \in 1..Len(r), NEW to \in 1..Len(r)
  PROVE  ApplyOperation(Copy(r), MoveOp(r[from].key, from, to)) = Copy(Moved(r, from, to))
<1> DEFINE op == MoveOp(r[from].key, from, to)
           s == Copy(r)
<1>1. op.type = "move" /\ op.key = r[from].key /\ op.from = from /\ op.to = to
  BY DEF MoveOp
<1>2. s.ok /\ s.rows = r /\ s.index = IndexOf(r)
  BY DEF Copy
<1>3. Reindex(IndexOf(r), Moved(r, from, to), Min({from, to})) = IndexOf(Moved(r, from, to))
  BY MovedWindow
<1>4. KeysOf(r)[from] = r[from].key
  BY WindowEntries DEF KeysOf
<1> HIDE DEF op, s
<1>5. ApplyOperation(s, op) =
        [ok |-> TRUE, rows |-> Moved(r, from, to),
         index |-> Reindex(IndexOf(r), Moved(r, from, to), Min({from, to}))]
  BY <1>1, <1>2, <1>4 DEF ApplyOperation
<1> QED
  BY <1>3, <1>5 DEF Copy, op, s

LEMMA UpdateApplies ==
  ASSUME NEW r, Window(r), NEW i \in 1..Len(r), NEW e \in Entries, e.key = r[i].key
  PROVE  ApplyOperation(Copy(r), UpdateOp(e, i)) = Copy([r EXCEPT ![i] = e])
<1> DEFINE op == UpdateOp(e, i)
           s == Copy(r)
<1>1. op.type = "update" /\ op.key = e.key /\ op.index = i /\ op.row = e.row
  BY DEF UpdateOp
<1>2. s = [ok |-> TRUE, rows |-> r, index |-> IndexOf(r)] /\ s.ok /\ s.rows = r
  BY DEF Copy
<1>3. KeysOf(r)[i] = e.key
  BY WindowEntries DEF KeysOf
<1>4. /\ DOMAIN r = 1..Len(r) /\ r[i] \in Entries /\ e.key \in Keys
  BY WindowEntries
<1>5. [r EXCEPT ![i].row = e.row] = [r EXCEPT ![i] = e]
  <2>1. [r[i] EXCEPT !.row = e.row] = e
    BY <1>4 DEF Entries
  <2> QED
    BY <2>1
<1>6. [IndexOf(r) EXCEPT ![e.key] = i] = IndexOf(r)
  <2>1. IndexOf(r)[e.key] = i /\ IndexOf(r) = [k \in Keys |-> IndexOf(r)[k]]
    BY IndexTells DEF Tells
  <2> QED
    BY <1>4, <2>1
<1>7. IndexOf([r EXCEPT ![i] = e]) = IndexOf(r)
  BY UpdatedWindow
<1> HIDE DEF op
<1>8. ApplyOperation(s, op) = [s EXCEPT !.rows[i].row = e.row, !.index[e.key] = i]
  <2> HIDE DEF s
  <2> QED
    BY <1>1, <1>2, <1>3 DEF ApplyOperation
<1>9. [s EXCEPT !.rows[i].row = e.row, !.index[e.key] = i]
        = [ok |-> TRUE, rows |-> [r EXCEPT ![i].row = e.row],
           index |-> [IndexOf(r) EXCEPT ![e.key] = i]]
  <2> DEFINE t == [s EXCEPT !.rows[i].row = e.row, !.index[e.key] = i]
             x == [r EXCEPT ![i].row = e.row]
             y == [IndexOf(r) EXCEPT ![e.key] = i]
  <2> HIDE DEF s
  <2>1. t.rows = x /\ t.index = y /\ t.ok = TRUE
    BY <1>2
  <2>2. t = [f \in {"ok", "rows", "index"} |-> t[f]]
    BY <1>2
  <2> HIDE DEF x, y, t
  <2>3. t = [ok |-> TRUE, rows |-> x, index |-> y]
    BY <2>1, <2>2
  <2> QED
    BY <2>3 DEF x, y, t
<1> HIDE DEF s
<1>10. ApplyOperation(s, op) =
         [ok |-> TRUE, rows |-> [r EXCEPT ![i] = e], index |-> IndexOf([r EXCEPT ![i] = e])]
  BY <1>5, <1>6, <1>7, <1>8, <1>9
<1> QED
  BY <1>10 DEF Copy, op, s
-------------------------------------------------------------------------------
(* Some indices in their order. *)

\* l lists the numbers of T in their order.
Rises(l, T) ==
  /\ l \in Seq(T)
  /\ \A i, j \in 1..Len(l) : i < j => l[i] < l[j]
  /\ \A x \in T : \E i \in 1..Len(l) : l[i] = x

\* Two lists that agree so far agree on what is next.
LEMMA RisesNext ==
  ASSUME NEW T, T \subseteq Nat, NEW p, Rises(p, T), NEW q, Rises(q, T),
         NEW i \in 1..Len(p), i \in 1..Len(q), \A j \in 1..(i - 1) : p[j] = q[j]
  PROVE  q[i] <= p[i]
<1>1. /\ Len(p) \in Nat /\ Len(q) \in Nat
      /\ \A j \in 1..Len(p) : p[j] \in Nat /\ p[j] \in T
      /\ \A j \in 1..Len(q) : q[j] \in Nat
  BY LenProperties, ElementOfSeq DEF Rises
<1>2. PICK j \in 1..Len(q) : q[j] = p[i]
  BY <1>1 DEF Rises
<1>3. CASE j < i
  <2>1. j \in 1..(i - 1) /\ j \in 1..Len(p)
    BY <1>1, <1>3
  <2>2. p[j] = p[i] /\ p[j] < p[i]
    BY <1>2, <1>3, <2>1 DEF Rises
  <2> QED
    BY <1>1, <2>1, <2>2
<1>4. CASE j = i
  BY <1>1, <1>2, <1>4
<1>5. CASE j > i
  BY <1>1, <1>2, <1>5 DEF Rises
<1> QED
  BY <1>1, <1>3, <1>4, <1>5

\* There is only one.
LEMMA RisesOnce ==
  ASSUME NEW T, T \subseteq Nat, NEW p, Rises(p, T), NEW q, Rises(q, T)
  PROVE  p = q
<1> DEFINE P == {i \in Nat : \A j \in 1..i : j <= Len(p) /\ j <= Len(q) => p[j] = q[j]}
<1>1. /\ Len(p) \in Nat /\ Len(q) \in Nat /\ p \in Seq(T) /\ q \in Seq(T)
      /\ \A j \in 1..Len(p) : p[j] \in Nat /\ p[j] \in T
      /\ \A j \in 1..Len(q) : q[j] \in Nat /\ q[j] \in T
  BY LenProperties, ElementOfSeq DEF Rises
<1>2. 0 \in P
  OBVIOUS
<1>3. ASSUME NEW n \in Nat, NEW i \in 1..n, i - 1 \in P PROVE i \in P
  <2>1. i \in Nat /\ \A j \in 1..(i - 1) : j <= Len(p) /\ j <= Len(q) => p[j] = q[j]
    BY <1>3
  <2>2. ASSUME i <= Len(p), i <= Len(q) PROVE p[i] = q[i]
    <3>1. i \in 1..Len(p) /\ i \in 1..Len(q) /\ \A j \in 1..(i - 1) : p[j] = q[j]
      BY <1>1, <2>1, <2>2
    <3>2. q[i] <= p[i]
      BY <3>1, RisesNext
    <3>3. p[i] <= q[i]
      <4>1. \A j \in 1..(i - 1) : q[j] = p[j]
        BY <3>1
      <4> QED
        BY <3>1, <4>1, RisesNext
    <3> QED
      BY <1>1, <3>1, <3>2, <3>3
  <2>3. ASSUME NEW j \in 1..i, j <= Len(p), j <= Len(q) PROVE p[j] = q[j]
    <3>1. CASE j = i
      BY <2>2, <2>3, <3>1
    <3>2. CASE j # i
      <4>1. j \in 1..(i - 1)
        BY <2>1, <3>2
      <4> QED
        BY <2>1, <2>3, <4>1
    <3> QED
      BY <3>1, <3>2
  <2> QED
    BY <2>1, <2>3
<1>4. ASSUME NEW n \in Nat, NEW j \in 1..n, j <= Len(p), j <= Len(q) PROVE p[j] = q[j]
  <2>1. \A i \in 1..n : i - 1 \in P => i \in P
    BY <1>3
  <2>2. \A i \in 0..n : i \in P
    <3> HIDE DEF P
    <3> QED
      BY <1>2, <2>1, CountUp
  <2>3. n \in P
    <3> HIDE DEF P
    <3> QED
      BY <2>2
  <2> QED
    BY <1>4, <2>3
<1>5. \A j \in Nat : 1 <= j /\ j <= Len(p) /\ j <= Len(q) => p[j] = q[j]
  <2>1. ASSUME NEW j \in Nat, 1 <= j, j <= Len(p), j <= Len(q) PROVE p[j] = q[j]
    <3>1. j \in 1..j
      BY <2>1
    <3> QED
      BY <1>4, <2>1, <3>1
  <2> QED
    BY <2>1
<1>6. Len(p) = Len(q)
  <2>1. ~(Len(p) < Len(q))
    <3>1. SUFFICES ASSUME Len(p) < Len(q) PROVE FALSE
      OBVIOUS
    <3> DEFINE m == Len(p) + 1
    <3>2. m \in 1..Len(q)
      BY <1>1, <3>1
    <3>3. PICK j \in 1..Len(p) : p[j] = q[m]
      BY <1>1, <3>2 DEF Rises
    <3>4. p[j] = q[j] /\ j < m /\ j \in 1..Len(q)
      BY <1>1, <1>5, <3>1, <3>3
    <3>5. q[j] < q[m]
      BY <3>2, <3>4 DEF Rises
    <3> QED
      BY <1>1, <3>2, <3>3, <3>4, <3>5
  <2>2. ~(Len(q) < Len(p))
    <3>1. SUFFICES ASSUME Len(q) < Len(p) PROVE FALSE
      OBVIOUS
    <3> DEFINE m == Len(q) + 1
    <3>2. m \in 1..Len(p)
      BY <1>1, <3>1
    <3>3. PICK j \in 1..Len(q) : q[j] = p[m]
      BY <1>1, <3>2 DEF Rises
    <3>4. q[j] = p[j] /\ j < m /\ j \in 1..Len(p)
      BY <1>1, <1>5, <3>1, <3>3
    <3>5. p[j] < p[m]
      BY <3>2, <3>4 DEF Rises
    <3> QED
      BY <1>1, <3>2, <3>3, <3>4, <3>5
  <2> QED
    BY <1>1, <2>1, <2>2
<1>7. \A j \in 1..Len(p) : p[j] = q[j]
  BY <1>1, <1>5, <1>6
<1> QED
  BY <1>1, <1>6, <1>7, SeqEqual

\* A list begins with the numbers that are there from 1 on.
LEMMA RisesFrom ==
  ASSUME NEW T, T \subseteq Nat \ {0}, NEW l, Rises(l, T), NEW n \in Nat, 1..n \subseteq T
  PROVE  \A j \in 1..n : j <= Len(l) /\ l[j] = j
<1> DEFINE P == {i \in 0..n : \A j \in 1..i : j <= Len(l) /\ l[j] = j}
<1>1. /\ Len(l) \in Nat
      /\ \A j \in 1..Len(l) : l[j] \in Nat \ {0}
  BY LenProperties, ElementOfSeq DEF Rises
<1>2. 0 \in P
  OBVIOUS
<1>3. ASSUME NEW i \in 1..n, i - 1 \in P PROVE i \in P
  <2>1. i \in T /\ \A j \in 1..(i - 1) : j <= Len(l) /\ l[j] = j
    BY <1>3
  <2>2. PICK k \in 1..Len(l) : l[k] = i
    BY <2>1 DEF Rises
  <2>3. ~(k < i)
    BY <1>1, <2>1, <2>2
  <2>4. ~(k > i)
    <3>1. SUFFICES ASSUME k > i PROVE FALSE
      OBVIOUS
    <3>2. i \in 1..Len(l) /\ l[i] < i
      BY <1>1, <2>2, <3>1 DEF Rises
    <3>3. l[i] \in 1..(i - 1) /\ l[i] \in 1..Len(l)
      BY <1>1, <3>2
    <3>4. l[l[i]] = l[i] /\ l[l[i]] < l[i]
      BY <2>1, <3>2, <3>3 DEF Rises
    <3> QED
      BY <1>1, <3>2, <3>4
  <2>5. k = i
    BY <1>1, <2>3, <2>4
  <2>6. ASSUME NEW j \in 1..i PROVE j <= Len(l) /\ l[j] = j
    <3>1. CASE j = i
      BY <1>1, <2>2, <2>5, <3>1
    <3>2. CASE j # i
      <4>1. j \in 1..(i - 1)
        BY <3>2
      <4> QED
        BY <2>1, <4>1
    <3> QED
      BY <3>1, <3>2
  <2> QED
    BY <2>6
<1>4. \A i \in 0..n : i \in P
  <2> HIDE DEF P
  <2> QED
    BY <1>2, <1>3, CountUp
<1>5. n \in P
  <2> HIDE DEF P
  <2> QED
    BY <1>4
<1> QED
  BY <1>5

\* A number less.
LEMMA RisesWithout ==
  ASSUME NEW T, T \subseteq Nat, NEW l, Rises(l, T), NEW i \in 1..Len(l)
  PROVE  Rises(RemoveAt(l, i), T \ {l[i]})
<1> DEFINE t == RemoveAt(l, i)
           x == l[i]
<1>1. /\ l \in Seq(T) /\ Len(l) \in Nat
      /\ \A j \in 1..Len(l) : l[j] \in Nat /\ l[j] \in T
      /\ \A j, k \in 1..Len(l) : j < k => l[j] < l[k]
      /\ \A y \in T : \E j \in 1..Len(l) : l[j] = y
  BY LenProperties, ElementOfSeq DEF Rises
<1>2. /\ t \in Seq(T) /\ Len(t) = Len(l) - 1
      /\ \A j \in 1..(Len(l) - 1) : t[j] = IF j < i THEN l[j] ELSE l[j + 1]
  BY <1>1, RemoveAtIs
<1> HIDE DEF t
<1>3. ASSUME NEW j \in 1..Len(t) PROVE t[j] \in T \ {x}
  <2>1. CASE j < i
    <3>1. j \in 1..Len(l) /\ t[j] = l[j] /\ l[j] < l[i]
      BY <1>1, <1>2, <2>1
    <3> QED
      BY <1>1, <3>1
  <2>2. CASE ~(j < i)
    <3>1. j + 1 \in 1..Len(l) /\ t[j] = l[j + 1] /\ l[i] < l[j + 1]
      BY <1>1, <1>2, <2>2
    <3> QED
      BY <1>1, <3>1
  <2> QED
    BY <2>1, <2>2
<1>4. t \in Seq(T \ {x})
  <2>1. t = [j \in 1..Len(t) |-> t[j]] /\ Len(t) \in Nat
    BY <1>2, LenProperties
  <2>2. t \in [1..Len(t) -> T \ {x}]
    BY <1>3, <2>1
  <2> QED
    BY <2>1, <2>2, SeqDef
<1>5. ASSUME NEW j \in 1..Len(t), NEW k \in 1..Len(t), j < k PROVE t[j] < t[k]
  <2> DEFINE pj == IF j < i THEN j ELSE j + 1
             pk == IF k < i THEN k ELSE k + 1
  <2>1. pj \in 1..Len(l) /\ pk \in 1..Len(l) /\ pj < pk /\ t[j] = l[pj] /\ t[k] = l[pk]
    <3>1. Len(l) \in Nat /\ Len(t) = Len(l) - 1 /\ j \in 1..(Len(l) - 1) /\ k \in 1..(Len(l) - 1)
      BY <1>1, <1>2, <1>5
    <3>2. pj \in 1..Len(l) /\ pk \in 1..Len(l) /\ pj < pk
      BY <1>5, <3>1
    <3>3. t[j] = l[pj] /\ t[k] = l[pk]
      BY <1>2, <3>1
    <3> QED
      BY <3>2, <3>3
  <2> HIDE DEF pj, pk
  <2> QED
    BY <1>1, <2>1
<1>6. ASSUME NEW y \in T \ {x} PROVE \E j \in 1..Len(t) : t[j] = y
  <2>1. PICK j \in 1..Len(l) : l[j] = y
    BY <1>1
  <2>2. j # i
    BY <2>1
  <2>3. CASE j < i
    <3>1. j \in 1..Len(t) /\ t[j] = l[j]
      BY <1>1, <1>2, <2>3
    <3> QED
      BY <2>1, <3>1
  <2>4. CASE j > i
    <3>1. j - 1 \in 1..(Len(l) - 1) /\ ~(j - 1 < i) /\ (j - 1) + 1 = j
      BY <1>1, <2>4
    <3>2. t[j - 1] = l[j] /\ j - 1 \in 1..Len(t)
      BY <1>2, <3>1
    <3> QED
      BY <2>1, <3>2
  <2> QED
    BY <1>1, <2>2, <2>3, <2>4
<1> QED
  BY <1>4, <1>5, <1>6 DEF Rises, t

\* The model's list rises.
LEMMA InOrderRises ==
  ASSUME NEW n \in Nat, NEW T \in SUBSET (1..n)
  PROVE  Rises(InOrder(T), T) /\ Len(InOrder(T)) \in Nat /\ DOMAIN InOrder(T) = 1..Len(InOrder(T))
<1> DEFINE part(m) == T \cap (1..m)
           P == {m \in 0..n : \E l : Rises(l, part(m)) /\ Len(l) = Cardinality(part(m))}
           c == Cardinality(T)
<1>1. IsFiniteSet(T) /\ c \in Nat
  <2>1. IsFiniteSet(1..n)
    BY FS_Interval
  <2> QED
    BY <2>1, FS_Subset, FS_CardinalityType
<1>2. \A m \in 0..n : IsFiniteSet(part(m)) /\ Cardinality(part(m)) \in Nat
  <2>1. \A m \in 0..n : part(m) \subseteq T
    OBVIOUS
  <2> HIDE DEF part
  <2> QED
    BY <1>1, <2>1, FS_Subset, FS_CardinalityType
<1>3. 0 \in P
  <2>1. part(0) = {}
    OBVIOUS
  <2>2. Rises(<<>>, {}) /\ Len(<<>>) = 0
    BY DEF Rises
  <2>3. Cardinality({}) = 0
    BY FS_EmptySet
  <2> QED
    BY <2>1, <2>2, <2>3
<1>4. ASSUME NEW m \in 1..n, m - 1 \in P PROVE m \in P
  <2> DEFINE k == m - 1
  <2>1. k \in 0..n /\ m = k + 1 /\ m \in Nat /\ m \in 0..n
    OBVIOUS
  <2>2. PICK l : Rises(l, part(k)) /\ Len(l) = Cardinality(part(k))
    BY <1>4
  <2>3. CASE m \notin T
    <3>1. part(m) = part(k)
      BY <2>1, <2>3
    <3> HIDE DEF part, k
    <3> QED
      BY <2>1, <2>2, <3>1
  <2>4. CASE m \in T
    <3> DEFINE q == Append(l, m)
    <3>1. part(m) = part(k) \union {m} /\ m \notin part(k) /\ \A x \in part(k) : x \in Nat /\ x < m
      BY <2>1, <2>4
    <3> HIDE DEF part, k
    <3>2. l \in Seq(part(k)) /\ Len(l) \in Nat /\ \A i \in 1..Len(l) : l[i] \in part(k)
      BY <2>2, LenProperties, ElementOfSeq DEF Rises
    <3>3. l \in Seq(part(m)) /\ m \in part(m)
      <4>1. l \in [1..Len(l) -> part(k)]
        BY <3>2, LenProperties
      <4>2. l \in [1..Len(l) -> part(m)]
        BY <3>1, <4>1
      <4> QED
        BY <3>1, <3>2, <4>2, SeqDef
    <3>4. /\ q \in Seq(part(m)) /\ Len(q) = Len(l) + 1 /\ q[Len(l) + 1] = m
          /\ \A i \in 1..Len(l) : q[i] = l[i]
      BY <3>2, <3>3, AppendProperties
    <3> HIDE DEF q
    <3>5. ASSUME NEW i \in 1..Len(q), NEW j \in 1..Len(q), i < j PROVE q[i] < q[j]
      <4>1. CASE j = Len(l) + 1
        <5>1. i \in 1..Len(l)
          BY <3>2, <3>4, <3>5, <4>1
        <5> QED
          BY <3>1, <3>2, <3>4, <4>1, <5>1
      <4>2. CASE j # Len(l) + 1
        <5>1. i \in 1..Len(l) /\ j \in 1..Len(l)
          BY <3>2, <3>4, <3>5, <4>2
        <5> QED
          BY <2>2, <3>4, <3>5, <5>1 DEF Rises
      <4> QED
        BY <4>1, <4>2
    <3>6. ASSUME NEW x \in part(m) PROVE \E i \in 1..Len(q) : q[i] = x
      <4>1. CASE x = m
        <5>1. Len(l) + 1 \in 1..Len(q)
          BY <3>2, <3>4
        <5> QED
          BY <3>4, <4>1, <5>1
      <4>2. CASE x # m
        <5>1. PICK i \in 1..Len(l) : l[i] = x
          BY <2>2, <3>1, <4>2 DEF Rises
        <5>2. i \in 1..Len(q)
          BY <3>2, <3>4
        <5> QED
          BY <3>4, <5>1, <5>2
      <4> QED
        BY <4>1, <4>2
    <3>7. Rises(q, part(m))
      BY <3>4, <3>5, <3>6 DEF Rises
    <3>8. Len(q) = Cardinality(part(m))
      BY <1>2, <2>1, <2>2, <3>1, <3>4, FS_AddElement
    <3> QED
      BY <2>1, <3>7, <3>8
  <2> QED
    BY <2>3, <2>4
<1>5. PICK l : Rises(l, T) /\ Len(l) = c
  <2>1. \A i \in 0..n : i \in P
    <3> HIDE DEF P
    <3> QED
      BY <1>3, <1>4, CountUp
  <2>2. n \in P
    <3> HIDE DEF P
    <3> QED
      BY <2>1
  <2>3. part(n) = T
    OBVIOUS
  <2> HIDE DEF part
  <2> QED
    BY <2>2, <2>3
<1> DEFINE a == InOrder(T)
<1>6. a \in [1..c -> T] /\ \A i, j \in DOMAIN a : i < j => a[i] < a[j]
  <2>1. l \in [1..c -> T] /\ \A i, j \in DOMAIN l : i < j => l[i] < l[j]
    <3>1. l \in [1..Len(l) -> T] /\ DOMAIN l = 1..Len(l)
      BY <1>5, LenProperties DEF Rises
    <3> QED
      BY <1>5, <3>1 DEF Rises
  <2> QED
    BY <2>1, Zenon DEF InOrder
<1> HIDE DEF a, c
<1>7. a \in Seq(T) /\ Len(a) = c /\ DOMAIN a = 1..c
  <2>1. a \in Seq(T) /\ DOMAIN a = 1..c
    BY <1>1, <1>6, SeqDef
  <2> QED
    BY <1>1, <2>1, LenProperties
<1>8. \A i, j \in 1..Len(a) : i < j => a[i] < a[j]
  BY <1>6, <1>7
<1>9. \A x \in T : \E i \in 1..Len(a) : a[i] = x
  <2>1. \A i \in 1..c : a[i] \in Nat
    <3>1. \A x \in T : x \in Nat
      OBVIOUS
    <3> QED
      BY <1>6, <3>1
  <2>2. \A i, j \in 1..c : a[i] = a[j] => i = j
    BY <1>1, <1>7, <1>8, <2>1
  <2>3. a \in Injection(1..c, T)
    BY <1>6, <2>2 DEF Injection, IsInjective
  <2>4. IsFiniteSet(1..c) /\ Cardinality(1..c) = c
    BY <1>1, FS_Interval
  <2>5. a \in Surjection(1..c, T)
    BY <1>1, <2>3, <2>4, FS_Injection DEF c
  <2> QED
    BY <1>7, <2>5 DEF Surjection
<1> QED
  BY <1>1, <1>7, <1>8, <1>9 DEF Rises, a
-------------------------------------------------------------------------------
(* Entries at some indices. *)

\* What is picked along a list.
LEMMA PickedIs ==
  ASSUME NEW s, Window(s), NEW T \in SUBSET (1..Len(s)), NEW l, Rises(l, T)
  PROVE  /\ Window(Picked(s, T)) /\ Len(Picked(s, T)) = Len(l) /\ Len(l) \in Nat
         /\ \A i \in 1..Len(l) : l[i] \in T /\ Picked(s, T)[i] = s[l[i]]
<1> DEFINE p == Picked(s, T)
<1>1. Len(s) \in Nat /\ T \subseteq Nat /\ \A i \in 1..Len(s) : s[i] \in Entries
  BY WindowEntries
<1>2. InOrder(T) = l /\ DOMAIN l = 1..Len(l) /\ Len(l) \in Nat
  <2>1. Rises(InOrder(T), T) /\ DOMAIN InOrder(T) = 1..Len(InOrder(T)) /\ Len(InOrder(T)) \in Nat
    BY <1>1, InOrderRises
  <2>2. InOrder(T) = l
    BY <1>1, <2>1, RisesOnce
  <2> QED
    BY <2>1, <2>2
<1>3. \A i \in 1..Len(l) : l[i] \in T /\ l[i] \in 1..Len(s)
  BY ElementOfSeq DEF Rises
<1>4. p = [i \in 1..Len(l) |-> s[l[i]]]
  BY <1>2 DEF Picked
<1>5. p \in Seq(Entries) /\ Len(p) = Len(l)
  <2>1. p \in [1..Len(l) -> Entries]
    BY <1>1, <1>3, <1>4
  <2>2. p \in Seq(Entries)
    BY <1>2, <2>1, SeqDef
  <2>3. DOMAIN p = 1..Len(l)
    BY <1>4
  <2> QED
    BY <1>2, <2>2, <2>3, LenProperties
<1>6. \A i \in 1..Len(l) : p[i] = s[l[i]]
  BY <1>4
<1> HIDE DEF p
<1>7. ASSUME NEW i \in 1..Len(p), NEW j \in 1..Len(p), p[i].key = p[j].key PROVE i = j
  <2>1. l[i] = l[j]
    BY <1>3, <1>5, <1>6, <1>7 DEF Window
  <2>2. l[i] \in Nat
    BY <1>1, <1>3, <1>5
  <2> QED
    BY <1>2, <1>5, <2>1, <2>2 DEF Rises
<1> QED
  BY <1>2, <1>3, <1>5, <1>6, <1>7 DEF Window, p

\* All of them.
LEMMA PickedAll ==
  ASSUME NEW s, Window(s)
  PROVE  Picked(s, 1..Len(s)) = s
<1> DEFINE n == Len(s)
           l == InOrder(1..n)
<1>1. n \in Nat /\ s \in Seq(Entries)
  BY WindowEntries DEF Window
<1>2. Rises(l, 1..n)
  BY <1>1, InOrderRises
<1> HIDE DEF l, n
<1>3. /\ Window(Picked(s, 1..n)) /\ Len(Picked(s, 1..n)) = Len(l) /\ Len(l) \in Nat
      /\ \A i \in 1..Len(l) : l[i] \in 1..n /\ Picked(s, 1..n)[i] = s[l[i]]
  BY <1>2, PickedIs DEF n
<1>4. \A j \in 1..n : j <= Len(l) /\ l[j] = j
  <2> DEFINE T == 1..n
  <2>1. T \subseteq Nat \ {0} /\ 1..n \subseteq T /\ Rises(l, T)
    BY <1>1, <1>2
  <2> HIDE DEF T
  <2> QED
    BY <1>1, <2>1, RisesFrom
<1>5. Len(l) = n
  <2>1. n <= Len(l)
    BY <1>1, <1>3, <1>4
  <2>2. ~(n < Len(l))
    <3>1. SUFFICES ASSUME n < Len(l) PROVE FALSE
      OBVIOUS
    <3>2. Len(l) \in 1..Len(l) /\ l[Len(l)] \in 1..n
      BY <1>1, <1>3, <3>1
    <3>3. l[l[Len(l)]] = l[Len(l)] /\ l[Len(l)] \in 1..Len(l) /\ l[Len(l)] < Len(l)
      BY <1>1, <1>3, <1>4, <3>1, <3>2
    <3>4. l[l[Len(l)]] < l[Len(l)]
      BY <1>2, <3>2, <3>3 DEF Rises
    <3> QED
      BY <1>1, <3>2, <3>3, <3>4
  <2> QED
    BY <1>1, <1>3, <2>1, <2>2
<1>6. \A i \in 1..n : Picked(s, 1..n)[i] = s[i]
  BY <1>3, <1>4, <1>5
<1>7. Picked(s, 1..n) \in Seq(Entries) /\ Len(Picked(s, 1..n)) = Len(s)
  BY <1>3, <1>5 DEF Window, n
<1>8. \A i \in 1..Len(Picked(s, 1..n)) : Picked(s, 1..n)[i] = s[i]
  BY <1>6, <1>7 DEF n
<1>9. Picked(s, 1..n) = s
  BY <1>1, <1>7, <1>8, SeqEqual
<1> QED
  BY <1>9 DEF n

\* One of them less.
LEMMA PickedLess ==
  ASSUME NEW s, Window(s), NEW T \in SUBSET (1..Len(s)), NEW x \in T
  PROVE  /\ \E i \in 1..Len(Picked(s, T)) :
              /\ Picked(s, T)[i] = s[x] /\ RemoveAt(Picked(s, T), i) = Picked(s, T \ {x})
              /\ 1..x \subseteq T => i = x
<1> DEFINE l == InOrder(T)
           p == Picked(s, T)
           q == Picked(s, T \ {x})
<1>1. Len(s) \in Nat /\ T \subseteq Nat \ {0} /\ T \subseteq Nat /\ x \in Nat
  BY WindowEntries
<1>2. Rises(l, T)
  BY <1>1, InOrderRises
<1> HIDE DEF l
<1>3. /\ Window(p) /\ Len(p) = Len(l) /\ Len(l) \in Nat
      /\ \A i \in 1..Len(l) : l[i] \in T /\ p[i] = s[l[i]]
  BY <1>2, PickedIs
<1>4. PICK i \in 1..Len(l) : l[i] = x
  BY <1>2 DEF Rises
<1> DEFINE m == RemoveAt(l, i)
           t == RemoveAt(p, i)
<1>5. Rises(m, T \ {x})
  BY <1>1, <1>2, <1>4, RisesWithout
<1>6. /\ Len(m) = Len(l) - 1
      /\ \A j \in 1..(Len(l) - 1) : m[j] = IF j < i THEN l[j] ELSE l[j + 1]
  <2>1. l \in Seq(T)
    BY <1>2 DEF Rises
  <2> QED
    BY <2>1, RemoveAtIs
<1> HIDE DEF m
<1>7. /\ Window(q) /\ Len(q) = Len(m)
      /\ \A j \in 1..Len(m) : q[j] = s[m[j]]
  <2> DEFINE V == T \ {x}
  <2>1. V \in SUBSET (1..Len(s)) /\ Rises(m, V)
    BY <1>5
  <2> HIDE DEF V
  <2>2. /\ Window(Picked(s, V)) /\ Len(Picked(s, V)) = Len(m) /\ Len(m) \in Nat
        /\ \A j \in 1..Len(m) : m[j] \in V /\ Picked(s, V)[j] = s[m[j]]
    BY <2>1, PickedIs
  <2> QED
    BY <2>2 DEF V
<1> HIDE DEF p, q
<1>8. /\ t \in Seq(Entries) /\ Len(t) = Len(l) - 1
      /\ \A j \in 1..(Len(l) - 1) : t[j] = IF j < i THEN p[j] ELSE p[j + 1]
  <2>1. p \in Seq(Entries) /\ i \in 1..Len(p)
    BY <1>3, <1>4 DEF Window
  <2> QED
    BY <1>3, <2>1, RemoveAtIs
<1> HIDE DEF t
<1>9. ASSUME NEW j \in 1..Len(t) PROVE t[j] = q[j]
  <2>1. CASE j < i
    <3>1. t[j] = p[j] /\ m[j] = l[j] /\ j \in 1..Len(l) /\ j \in 1..Len(m)
      BY <1>3, <1>4, <1>6, <1>8, <2>1
    <3> QED
      BY <1>3, <1>7, <3>1
  <2>2. CASE ~(j < i)
    <3>1. t[j] = p[j + 1] /\ m[j] = l[j + 1] /\ j + 1 \in 1..Len(l) /\ j \in 1..Len(m)
      BY <1>3, <1>4, <1>6, <1>8, <2>2
    <3> QED
      BY <1>3, <1>7, <3>1
  <2> QED
    BY <2>1, <2>2
<1>10. t = q
  <2>1. q \in Seq(Entries) /\ Len(t) = Len(q)
    BY <1>6, <1>7, <1>8 DEF Window
  <2> QED
    BY <1>8, <1>9, <2>1, SeqEqual
<1>11. ASSUME 1..x \subseteq T PROVE i = x
  <2>1. \A j \in 1..x : j <= Len(l) /\ l[j] = j
    BY <1>1, <1>2, <1>11, RisesFrom
  <2>2. x \in 1..x /\ x \in 1..Len(l) /\ l[x] = x
    BY <1>1, <1>3, <2>1
  <2>3. ~(i < x) /\ ~(x < i)
    BY <1>1, <1>2, <1>4, <2>2 DEF Rises
  <2> QED
    BY <1>1, <1>4, <2>2, <2>3
<1>12. i \in 1..Len(p) /\ p[i] = s[x] /\ RemoveAt(p, i) = q
  BY <1>3, <1>4, <1>10 DEF t
<1> QED
  BY <1>11, <1>12 DEF p, q

\* An entry that is removed is put back.
LEMMA InsertBack ==
  ASSUME NEW S, NEW s \in Seq(S), NEW i \in 1..Len(s)
  PROVE  InsertAt(RemoveAt(s, i), i, s[i]) = s
<1> DEFINE r == RemoveAt(s, i)
           e == s[i]
           t == InsertAt(r, i, e)
<1>1. Len(s) \in Nat /\ e \in S
  BY LenProperties, ElementOfSeq
<1>2. /\ r \in Seq(S) /\ Len(r) = Len(s) - 1
      /\ \A j \in 1..(Len(s) - 1) : r[j] = IF j < i THEN s[j] ELSE s[j + 1]
  BY RemoveAtIs
<1> HIDE DEF r, e
<1>3. t \in Seq(S) /\ WithEntry(t, r, i, e)
  <2>1. i \in 1..(Len(r) + 1)
    BY <1>1, <1>2
  <2> QED
    BY <1>1, <1>2, <2>1, InsertAtIs
<1> HIDE DEF t
<1>4. /\ Len(t) = Len(s)
      /\ \A j \in 1..Len(s) : t[j] = IF j < i THEN r[j] ELSE IF j = i THEN e ELSE r[j - 1]
  BY <1>1, <1>2, <1>3 DEF WithEntry
<1>5. ASSUME NEW j \in 1..Len(t) PROVE t[j] = s[j]
  <2>1. CASE j < i
    <3>1. j \in 1..(Len(s) - 1)
      BY <1>1, <1>4, <2>1
    <3> QED
      BY <1>2, <1>4, <2>1, <3>1
  <2>2. CASE j = i
    BY <1>4, <2>2 DEF e
  <2>3. CASE j > i
    <3>1. j - 1 \in 1..(Len(s) - 1) /\ ~(j - 1 < i) /\ (j - 1) + 1 = j
      BY <1>1, <1>4, <2>3
    <3>2. r[j - 1] = s[j]
      BY <1>2, <3>1
    <3> QED
      BY <1>1, <1>4, <2>3, <3>2
  <2> QED
    BY <1>1, <1>4, <2>1, <2>2, <2>3
<1>6. t = s
  BY <1>3, <1>4, <1>5, SeqEqual
<1> QED
  BY <1>6 DEF r, e, t

\* One of them more, of which no earlier one is missing.
LEMMA PickedMore ==
  ASSUME NEW s, Window(s), NEW T \in SUBSET (1..Len(s)), NEW x \in (1..Len(s)) \ T,
         1..(x - 1) \subseteq T
  PROVE  /\ x \in 1..(Len(Picked(s, T)) + 1) /\ s[x] \in Entries
         /\ s[x].key \notin KeySet(Picked(s, T))
         /\ InsertAt(Picked(s, T), x, s[x]) = Picked(s, T \union {x})
<1> DEFINE U == T \union {x}
           p == Picked(s, T)
           q == Picked(s, U)
<1>1. Len(s) \in Nat /\ U \in SUBSET (1..Len(s)) /\ U \ {x} = T /\ x \in U /\ s[x] \in Entries
  BY WindowEntries
<1>2. 1..x \subseteq U
  OBVIOUS
<1> HIDE DEF U
<1>3. x \in 1..Len(q) /\ q[x] = s[x] /\ RemoveAt(q, x) = p
  <2>1. PICK i \in 1..Len(q) :
          /\ q[i] = s[x] /\ RemoveAt(q, i) = Picked(s, U \ {x})
          /\ 1..x \subseteq U => i = x
    BY <1>1, PickedLess
  <2>2. Picked(s, U \ {x}) = p
    BY <1>1
  <2> HIDE DEF q, p
  <2>3. i = x
    BY <1>2, <2>1, Zenon
  <2>4. q[i] = s[x] /\ RemoveAt(q, i) = p
    BY <2>1, <2>2, Zenon
  <2> QED
    BY <2>3, <2>4
<1>4. Window(q) /\ q \in Seq(Entries)
  <2>1. Rises(InOrder(U), U)
    BY <1>1, InOrderRises
  <2> QED
    BY <1>1, <2>1, PickedIs DEF Window
<1> HIDE DEF q, p
<1>5. Window(p) /\ KeySet(p) = KeySet(q) \ {s[x].key} /\ Len(p) = Len(q) - 1 /\ Len(q) \in Nat
  <2>1. Window(p) /\ KeySet(p) = KeySet(q) \ {s[x].key}
    <3>1. Window(RemoveAt(q, x)) /\ KeySet(RemoveAt(q, x)) = KeySet(q) \ {q[x].key}
      BY <1>3, <1>4, RemovedWindow
    <3> QED
      BY <1>3, <3>1
  <2>2. Len(p) = Len(q) - 1 /\ Len(q) \in Nat
    BY <1>3, <1>4, RemoveAtIs, LenProperties
  <2> QED
    BY <2>1, <2>2
<1>6. InsertAt(p, x, s[x]) = q
  BY <1>3, <1>4, InsertBack
<1> QED
  BY <1>1, <1>3, <1>5, <1>6 DEF p, q, U
-------------------------------------------------------------------------------
(* Operations one after the other. *)

\* The operations lead a client's copy from x to y.
Leads(ops, x, y) ==
  \E c : /\ c[0] = x /\ c[Len(ops)] = y
         /\ \A m \in 1..Len(ops) : c[m] = ApplyOperation(c[m - 1], ops[m])

AnyOperation ==
  {RemoveOp(k) : k \in Keys} \union {MoveOp(k, i, j) : k \in Keys, i \in Nat, j \in Nat}
    \union {InsertOp(e, i) : e \in Entries, i \in Nat} \union {UpdateOp(e, i) : e \in Entries, i \in Nat}

\* One after others.
LEMMA LeadsOn ==
  ASSUME NEW ops \in Seq(AnyOperation), NEW op \in AnyOperation, NEW x, NEW y, Leads(ops, x, y)
  PROVE  Leads(Append(ops, op), x, ApplyOperation(y, op))
<1> DEFINE n == Len(ops)
           z == ApplyOperation(y, op)
           next == Append(ops, op)
<1>1. PICK c : /\ c[0] = x /\ c[n] = y
               /\ \A m \in 1..n : c[m] = ApplyOperation(c[m - 1], ops[m])
  BY DEF Leads
<1>2. n \in Nat /\ Len(next) = n + 1 /\ next[n + 1] = op /\ \A i \in 1..n : next[i] = ops[i]
  BY LenProperties, AppendProperties
<1> HIDE DEF n, z, next
<1> DEFINE d == [m \in 0..(n + 1) |-> IF m = n + 1 THEN z ELSE c[m]]
<1>3. d[0] = x /\ d[n + 1] = z /\ d[n] = y /\ \A m \in 1..n : d[m] = c[m] /\ d[m - 1] = c[m - 1]
  BY <1>1, <1>2
<1> HIDE DEF d
<1>4. ASSUME NEW m \in 1..(n + 1) PROVE d[m] = ApplyOperation(d[m - 1], next[m])
  <2>1. CASE m = n + 1
    <3>1. m - 1 = n /\ next[m] = op
      BY <1>2, <2>1
    <3> QED
      BY <1>3, <2>1, <3>1 DEF z
  <2>2. CASE m # n + 1
    <3>1. m \in 1..n
      BY <1>2, <2>2
    <3> QED
      BY <1>1, <1>2, <1>3, <3>1
  <2> QED
    BY <2>1, <2>2
<1>5. Leads(next, x, z)
  BY <1>2, <1>3, <1>4 DEF Leads
<1> QED
  BY <1>5 DEF next, z

\* Some after others.
LEMMA LeadsThen ==
  ASSUME NEW a \in Seq(AnyOperation), NEW b \in Seq(AnyOperation), NEW x, NEW y, NEW z,
         Leads(a, x, y), Leads(b, y, z)
  PROVE  Leads(a \o b, x, z)
<1> DEFINE ops == a \o b
           n == Len(a)
           k == Len(b)
<1>1. PICK c : /\ c[0] = x /\ c[n] = y
               /\ \A m \in 1..n : c[m] = ApplyOperation(c[m - 1], a[m])
  BY DEF Leads
<1>2. PICK d : /\ d[0] = y /\ d[k] = z
               /\ \A m \in 1..k : d[m] = ApplyOperation(d[m - 1], b[m])
  BY DEF Leads
<1>3. /\ n \in Nat /\ k \in Nat /\ Len(ops) = n + k
      /\ \A m \in 1..(n + k) : ops[m] = IF m <= n THEN a[m] ELSE b[m - n]
  BY LenProperties, ConcatProperties
<1> HIDE DEF n, k, ops
<1> DEFINE f == [m \in 0..(n + k) |-> IF m <= n THEN c[m] ELSE d[m - n]]
<1>4. /\ f[0] = x
      /\ \A m \in 0..n : f[m] = c[m]
      /\ \A m \in 0..k : f[n + m] = d[m]
  <2>1. f[0] = x /\ \A m \in 0..n : f[m] = c[m]
    BY <1>1, <1>3
  <2>2. ASSUME NEW m \in 0..k PROVE f[n + m] = d[m]
    <3>1. CASE m = 0
      <4>1. n + m = n
        BY <1>3, <3>1
      <4> QED
        BY <1>1, <1>2, <1>3, <2>1, <3>1, <4>1
    <3>2. CASE m # 0
      <4>1. n + m \in 0..(n + k) /\ ~(n + m <= n) /\ (n + m) - n = m
        BY <1>3, <3>2
      <4> QED
        BY <4>1
    <3> QED
      BY <3>1, <3>2
  <2> QED
    BY <2>1, <2>2
<1> HIDE DEF f
<1>5. ASSUME NEW m \in 1..(n + k) PROVE f[m] = ApplyOperation(f[m - 1], ops[m])
  <2>1. CASE m <= n
    <3>1. m \in 1..n /\ m \in 0..n /\ m - 1 \in 0..n /\ ops[m] = a[m]
      BY <1>3, <2>1
    <3> QED
      BY <1>1, <1>4, <3>1
  <2>2. CASE ~(m <= n)
    <3>1. m - n \in 1..k /\ m - n \in 0..k /\ m - n - 1 \in 0..k /\ ops[m] = b[m - n]
          /\ n + (m - n) = m /\ n + (m - n - 1) = m - 1
      BY <1>3, <2>2
    <3>2. f[m] = d[m - n] /\ f[m - 1] = d[m - n - 1]
      BY <1>4, <3>1
    <3> QED
      BY <1>2, <3>1, <3>2
  <2> QED
    BY <2>1, <2>2
<1>6. f[n + k] = z
  <2>1. k \in 0..k
    BY <1>3
  <2> QED
    BY <1>2, <1>4, <2>1
<1>7. Leads(ops, x, z)
  BY <1>3, <1>4, <1>5, <1>6 DEF Leads
<1> QED
  BY <1>7 DEF ops
-------------------------------------------------------------------------------
(* The operations at some indices, in order. *)

\* The first m numbers of a list.
Preceding(l, m) == {l[j] : j \in 1..m}

LEMMA ListedSoFar ==
  ASSUME NEW T, T \subseteq Nat, NEW l, Rises(l, T)
  PROVE  /\ Len(l) \in Nat /\ Preceding(l, 0) = {} /\ Preceding(l, Len(l)) = T
         /\ \A m \in 0..Len(l) : Preceding(l, m) \subseteq T
         /\ \A m \in 1..Len(l) :
              /\ l[m] \in T /\ l[m] \notin Preceding(l, m - 1)
              /\ Preceding(l, m) = Preceding(l, m - 1) \union {l[m]}
              /\ \A y \in T : y < l[m] => y \in Preceding(l, m - 1)
<1>1. Len(l) \in Nat /\ \A i \in 1..Len(l) : l[i] \in T /\ l[i] \in Nat
  BY LenProperties, ElementOfSeq DEF Rises
<1>2. Preceding(l, 0) = {} /\ Preceding(l, Len(l)) = T
  <2>1. \A x \in T : \E i \in 1..Len(l) : l[i] = x
    BY DEF Rises
  <2>2. T \subseteq Preceding(l, Len(l))
    BY <2>1 DEF Preceding
  <2>3. Preceding(l, Len(l)) \subseteq T
    BY <1>1 DEF Preceding
  <2>4. Preceding(l, 0) = {}
    BY DEF Preceding
  <2> QED
    BY <2>2, <2>3, <2>4
<1>3. ASSUME NEW m \in 0..Len(l) PROVE Preceding(l, m) \subseteq T
  BY <1>1 DEF Preceding
<1>4. ASSUME NEW m \in 1..Len(l)
      PROVE  /\ l[m] \in T /\ l[m] \notin Preceding(l, m - 1)
             /\ Preceding(l, m) = Preceding(l, m - 1) \union {l[m]}
             /\ \A y \in T : y < l[m] => y \in Preceding(l, m - 1)
  <2>1. \A j \in 1..(m - 1) : l[j] < l[m]
    BY <1>1 DEF Rises
  <2>2. l[m] \notin Preceding(l, m - 1)
    BY <1>1, <2>1 DEF Preceding
  <2>3. 1..m = (1..(m - 1)) \union {m}
    BY <1>1
  <2>4. Preceding(l, m) = Preceding(l, m - 1) \union {l[m]}
    BY <2>3 DEF Preceding
  <2>5. ASSUME NEW y \in T, y < l[m] PROVE y \in Preceding(l, m - 1)
    <3>1. PICK i \in 1..Len(l) : l[i] = y
      BY DEF Rises
    <3>2. i < m
      BY <1>1, <2>5, <3>1 DEF Rises
    <3>3. i \in 1..(m - 1)
      BY <1>1, <3>2
    <3> QED
      BY <3>1, <3>3 DEF Preceding
  <2> QED
    BY <1>1, <2>2, <2>4, <2>5
<1> QED
  BY <1>1, <1>2, <1>3, <1>4

LEMMA PickedWindow ==
  ASSUME NEW s, Window(s), NEW T \in SUBSET (1..Len(s))
  PROVE  Window(Picked(s, T))
<1>1. Len(s) \in Nat
  BY WindowEntries
<1>2. Rises(InOrder(T), T)
  BY <1>1, InOrderRises
<1> QED
  BY <1>2, PickedIs

\* The removals leave what is elsewhere.
LEMMA RemovalsLead ==
  ASSUME NEW s, Window(s), NEW T \in SUBSET (1..Len(s))
  PROVE  /\ Removals(s, T) \in Seq(AnyOperation)
         /\ Leads(Removals(s, T), Copy(s), Copy(Picked(s, (1..Len(s)) \ T)))
<1> DEFINE l == InOrder(T)
           D == 1..Len(s)
           n == Len(l)
           ops == Removals(s, T)
           left(m) == D \ Preceding(l, m)
           c == [m \in 0..n |-> Copy(Picked(s, left(m)))]
<1>1. /\ Len(s) \in Nat /\ T \subseteq Nat
      /\ \A i \in 1..Len(s) : s[i] \in Entries /\ s[i].key \in Keys
  BY WindowEntries
<1>2. Rises(l, T) /\ n \in Nat /\ DOMAIN l = 1..n
  BY <1>1, InOrderRises
<1>3. ops = [m \in 1..n |-> RemoveOp(s[l[m]].key)]
  BY <1>2 DEF Removals
<1> HIDE DEF l, n, ops
<1>4. /\ Preceding(l, 0) = {} /\ Preceding(l, n) = T
      /\ \A m \in 1..n : /\ l[m] \in T /\ l[m] \notin Preceding(l, m - 1)
                         /\ Preceding(l, m) = Preceding(l, m - 1) \union {l[m]}
  BY <1>1, <1>2, ListedSoFar DEF n
<1>5. ops \in Seq(AnyOperation) /\ Len(ops) = n
  <2>1. \A m \in 1..n : l[m] \in 1..Len(s)
    BY <1>4
  <2>2. \A m \in 1..n : RemoveOp(s[l[m]].key) \in AnyOperation
    BY <1>1, <2>1 DEF AnyOperation
  <2>3. ops \in [1..n -> AnyOperation] /\ DOMAIN ops = 1..n
    BY <1>3, <2>2
  <2>4. ops \in Seq(AnyOperation)
    BY <1>2, <2>3, SeqDef
  <2> QED
    BY <1>2, <2>3, <2>4, LenProperties
<1>6. ASSUME NEW m \in 1..n PROVE ApplyOperation(Copy(Picked(s, left(m - 1))), ops[m]) = Copy(Picked(s, left(m)))
  <2> DEFINE U == left(m - 1)
             p == Picked(s, U)
             x == l[m]
  <2>1. U \in SUBSET (1..Len(s)) /\ x \in U /\ U \ {x} = left(m)
    BY <1>4
  <2> HIDE DEF U, x, left
  <2>2. Window(p)
    BY <2>1, PickedWindow
  <2>3. PICK i \in 1..Len(p) : p[i] = s[x] /\ RemoveAt(p, i) = Picked(s, U \ {x})
    BY <2>1, PickedLess
  <2>4. ops[m] = RemoveOp(p[i].key)
    BY <1>3, <2>3 DEF x
  <2> HIDE DEF p
  <2>5. ApplyOperation(Copy(p), RemoveOp(p[i].key)) = Copy(RemoveAt(p, i))
    BY <2>2, RemoveApplies
  <2> QED
    BY <2>1, <2>3, <2>4, <2>5 DEF p, U
<1>7. left(0) = D /\ left(n) = D \ T
  BY <1>4
<1> HIDE DEF left, D
<1>8. c[0] = Copy(s) /\ c[n] = Copy(Picked(s, D \ T))
  <2>1. Picked(s, D) = s
    BY PickedAll DEF D
  <2>2. c[0] = Copy(Picked(s, left(0))) /\ c[n] = Copy(Picked(s, left(n)))
    BY <1>2
  <2> HIDE DEF c
  <2> QED
    BY <1>7, <2>1, <2>2
<1>9. ASSUME NEW m \in 1..n PROVE c[m] = ApplyOperation(c[m - 1], ops[m])
  <2>1. m \in 0..n /\ m - 1 \in 0..n
    BY <1>2
  <2> QED
    BY <1>6, <2>1
<1> HIDE DEF c
<1>10. Leads(ops, Copy(s), Copy(Picked(s, D \ T)))
  BY <1>5, <1>8, <1>9 DEF Leads
<1> QED
  BY <1>5, <1>10 DEF ops, D

\* The insertions put back what is missing.
LEMMA InsertionsLead ==
  ASSUME NEW s, Window(s), NEW T \in SUBSET (1..Len(s))
  PROVE  /\ Insertions(s, T) \in Seq(AnyOperation)
         /\ Leads(Insertions(s, T), Copy(Picked(s, (1..Len(s)) \ T)), Copy(s))
<1> DEFINE l == InOrder(T)
           D == 1..Len(s)
           n == Len(l)
           ops == Insertions(s, T)
           held(m) == (D \ T) \union Preceding(l, m)
           c == [m \in 0..n |-> Copy(Picked(s, held(m)))]
<1>1. /\ Len(s) \in Nat /\ T \subseteq Nat
      /\ \A i \in 1..Len(s) : s[i] \in Entries /\ s[i].key \in Keys
  BY WindowEntries
<1>2. Rises(l, T) /\ n \in Nat /\ DOMAIN l = 1..n
  BY <1>1, InOrderRises
<1>3. ops = [m \in 1..n |-> InsertOp(s[l[m]], l[m])]
  BY <1>2 DEF Insertions
<1> HIDE DEF l, n, ops
<1>4. /\ Preceding(l, 0) = {} /\ Preceding(l, n) = T
      /\ \A m \in 0..n : Preceding(l, m) \subseteq T
      /\ \A m \in 1..n : /\ l[m] \in T /\ l[m] \notin Preceding(l, m - 1)
                         /\ Preceding(l, m) = Preceding(l, m - 1) \union {l[m]}
                         /\ \A y \in T : y < l[m] => y \in Preceding(l, m - 1)
  BY <1>1, <1>2, ListedSoFar DEF n
<1>5. ops \in Seq(AnyOperation) /\ Len(ops) = n
  <2>1. \A m \in 1..n : l[m] \in 1..Len(s) /\ l[m] \in Nat
    BY <1>1, <1>4
  <2>2. \A m \in 1..n : InsertOp(s[l[m]], l[m]) \in AnyOperation
    BY <1>1, <2>1 DEF AnyOperation
  <2>3. ops \in [1..n -> AnyOperation] /\ DOMAIN ops = 1..n
    BY <1>3, <2>2
  <2>4. ops \in Seq(AnyOperation)
    BY <1>2, <2>3, SeqDef
  <2> QED
    BY <1>2, <2>3, <2>4, LenProperties
<1>6. ASSUME NEW m \in 1..n PROVE ApplyOperation(Copy(Picked(s, held(m - 1))), ops[m]) = Copy(Picked(s, held(m)))
  <2> DEFINE U == held(m - 1)
             p == Picked(s, U)
             x == l[m]
  <2>1. m - 1 \in 0..n
    BY <1>2
  <2>2. U \in SUBSET (1..Len(s)) /\ x \in (1..Len(s)) \ U /\ U \union {x} = held(m)
    BY <1>4, <2>1
  <2>3. 1..(x - 1) \subseteq U
    <3>1. ASSUME NEW y \in 1..(x - 1) PROVE y \in U
      <4>1. y \in D /\ y < x
        BY <1>1, <2>2
      <4> QED
        BY <1>4, <4>1
    <3> QED
      BY <3>1
  <2> HIDE DEF U, x, held
  <2>4. Window(p)
    BY <2>2, PickedWindow
  <2>5. /\ x \in 1..(Len(p) + 1) /\ s[x] \in Entries /\ s[x].key \notin KeySet(p)
        /\ InsertAt(p, x, s[x]) = Picked(s, U \union {x})
    BY <2>2, <2>3, PickedMore
  <2>6. ops[m] = InsertOp(s[x], x)
    BY <1>3 DEF x
  <2> HIDE DEF p
  <2>7. ApplyOperation(Copy(p), InsertOp(s[x], x)) = Copy(InsertAt(p, x, s[x]))
    BY <2>4, <2>5, InsertApplies
  <2> QED
    BY <2>2, <2>5, <2>6, <2>7 DEF p, U
<1>7. held(0) = D \ T /\ held(n) = D
  BY <1>4
<1> HIDE DEF held, D
<1>8. c[0] = Copy(Picked(s, D \ T)) /\ c[n] = Copy(s)
  <2>1. Picked(s, D) = s
    BY PickedAll DEF D
  <2>2. c[0] = Copy(Picked(s, held(0))) /\ c[n] = Copy(Picked(s, held(n)))
    BY <1>2
  <2> HIDE DEF c
  <2> QED
    BY <1>7, <2>1, <2>2
<1>9. ASSUME NEW m \in 1..n PROVE c[m] = ApplyOperation(c[m - 1], ops[m])
  <2>1. m \in 0..n /\ m - 1 \in 0..n
    BY <1>2
  <2> QED
    BY <1>6, <2>1
<1> HIDE DEF c
<1>10. Leads(ops, Copy(Picked(s, D \ T)), Copy(s))
  BY <1>5, <1>8, <1>9 DEF Leads
<1> QED
  BY <1>5, <1>10 DEF ops, D

\* The updates of the rows that differ.
LEMMA UpdatesLead ==
  ASSUME NEW r, Window(r), NEW next, Window(next), Len(next) = Len(r),
         \A i \in 1..Len(r) : next[i].key = r[i].key,
         NEW T, T = {i \in DOMAIN next : r[i].row # next[i].row}
  PROVE  Updates(next, T) \in Seq(AnyOperation) /\ Leads(Updates(next, T), Copy(r), Copy(next))
<1> DEFINE l == InOrder(T)
           D == 1..Len(r)
           n == Len(l)
           ops == Updates(next, T)
           half(m) == [i \in D |-> IF i \in Preceding(l, m) THEN next[i] ELSE r[i]]
           c == [m \in 0..n |-> Copy(half(m))]
<1>1. /\ Len(r) \in Nat /\ DOMAIN r = D /\ DOMAIN next = D /\ r \in Seq(Entries) /\ next \in Seq(Entries)
      /\ \A i \in D : /\ next[i] \in Entries /\ next[i].key \in Keys
                      /\ r[i] \in Entries /\ r[i].key \in Keys
  BY WindowEntries DEF Window
<1>2. T \in SUBSET D /\ T \subseteq Nat
  BY <1>1
<1>3. Rises(l, T) /\ n \in Nat /\ DOMAIN l = 1..n
  BY <1>1, <1>2, InOrderRises
<1>4. ops = [m \in 1..n |-> UpdateOp(next[l[m]], l[m])]
  BY <1>3 DEF Updates
<1> HIDE DEF l, n, ops, D
<1>5. /\ Preceding(l, 0) = {} /\ Preceding(l, n) = T
      /\ \A m \in 0..n : Preceding(l, m) \subseteq T
      /\ \A m \in 1..n : /\ l[m] \in T /\ l[m] \in D /\ l[m] \in Nat /\ l[m] \notin Preceding(l, m - 1)
                         /\ Preceding(l, m) = Preceding(l, m - 1) \union {l[m]}
  BY <1>2, <1>3, ListedSoFar DEF n
<1>6. ops \in Seq(AnyOperation) /\ Len(ops) = n
  <2>1. \A m \in 1..n : UpdateOp(next[l[m]], l[m]) \in AnyOperation
    BY <1>1, <1>5 DEF AnyOperation
  <2>2. ops \in [1..n -> AnyOperation] /\ DOMAIN ops = 1..n
    BY <1>4, <2>1
  <2>3. ops \in Seq(AnyOperation)
    BY <1>3, <2>2, SeqDef
  <2> QED
    BY <1>3, <2>2, <2>3, LenProperties
<1>7. ASSUME NEW m \in 0..n PROVE Window(half(m)) /\ Len(half(m)) = Len(r) /\ half(m) \in Seq(Entries)
  <2> DEFINE h == half(m)
  <2>1. h \in [D -> Entries] /\ DOMAIN h = D /\ \A i \in D : h[i].key = r[i].key
    BY <1>1, <1>5 DEF D
  <2> HIDE DEF h
  <2>2. h \in Seq(Entries)
    BY <1>1, <2>1, SeqDef DEF D
  <2>3. Len(h) = Len(r)
    BY <1>1, <2>1, <2>2, LenProperties DEF D
  <2>4. Window(h)
    BY <2>1, <2>2, <2>3 DEF Window, D
  <2> QED
    BY <2>2, <2>3, <2>4 DEF h
<1>8. ASSUME NEW m \in 1..n PROVE ApplyOperation(Copy(half(m - 1)), ops[m]) = Copy(half(m))
  <2> DEFINE h == half(m - 1)
             x == l[m]
  <2>1. m - 1 \in 0..n /\ x \in D
    BY <1>3, <1>5
  <2>2. h[x].key = next[x].key /\ h[x] = r[x]
    BY <1>5, <2>1 DEF D
  <2>3. [h EXCEPT ![x] = next[x]] = half(m)
    <3>1. \A i \in D : i \in Preceding(l, m) <=> i \in Preceding(l, m - 1) \/ i = x
      BY <1>5
    <3> QED
      BY <3>1
  <2>4. Window(h) /\ Len(h) = Len(r)
    BY <1>7, <2>1
  <2>5. ops[m] = UpdateOp(next[x], x)
    BY <1>4
  <2> HIDE DEF h, x
  <2>6. ApplyOperation(Copy(h), UpdateOp(next[x], x)) = Copy([h EXCEPT ![x] = next[x]])
    <3>1. x \in 1..Len(h) /\ next[x] \in Entries /\ next[x].key = h[x].key
      BY <1>1, <2>1, <2>2, <2>4 DEF D
    <3> QED
      BY <2>4, <3>1, UpdateApplies
  <2> HIDE DEF half
  <2> QED
    BY <2>3, <2>5, <2>6 DEF h
<1>9. half(0) = r /\ half(n) = next
  <2>1. half(0) = r
    <3>1. \A i \in D : half(0)[i] = r[i]
      BY <1>5
    <3>2. Len(half(0)) = Len(r) /\ half(0) \in Seq(Entries)
      BY <1>3, <1>7
    <3> HIDE DEF half
    <3> QED
      BY <1>1, <3>1, <3>2, SeqEqual DEF D
  <2>2. half(n) = next
    <3>1. \A i \in D : half(n)[i] = next[i]
      <4>1. \A i \in D : i \notin T => r[i] = next[i]
        BY <1>1 DEF Entries, D
      <4> QED
        BY <1>5, <4>1
    <3>2. Len(half(n)) = Len(next) /\ half(n) \in Seq(Entries)
      BY <1>3, <1>7
    <3> HIDE DEF half
    <3> QED
      BY <1>1, <3>1, <3>2, SeqEqual DEF D
  <2> QED
    BY <2>1, <2>2
<1> HIDE DEF half
<1>10. c[0] = Copy(r) /\ c[n] = Copy(next)
  BY <1>3, <1>9
<1>11. ASSUME NEW m \in 1..n PROVE c[m] = ApplyOperation(c[m - 1], ops[m])
  <2>1. m \in 0..n /\ m - 1 \in 0..n
    BY <1>3
  <2> QED
    BY <1>8, <2>1
<1> HIDE DEF c
<1>12. Leads(ops, Copy(r), Copy(next))
  BY <1>6, <1>10, <1>11 DEF Leads
<1> QED
  BY <1>6, <1>12 DEF ops
-------------------------------------------------------------------------------
(* The two quick ways. *)

\* A single operation.
LEMMA LeadsOne ==
  ASSUME NEW op \in AnyOperation, NEW x
  PROVE  <<op>> \in Seq(AnyOperation) /\ Leads(<<op>>, x, ApplyOperation(x, op))
<1> DEFINE z == ApplyOperation(x, op)
           c == [m \in 0..1 |-> IF m = 0 THEN x ELSE z]
<1>1. c[0] = x /\ c[1] = z
  OBVIOUS
<1>2. <<op>> \in Seq(AnyOperation) /\ Len(<<op>>) = 1 /\ <<op>>[1] = op
  OBVIOUS
<1> HIDE DEF c
<1>3. ASSUME NEW m \in 1..1 PROVE c[m] = ApplyOperation(c[m - 1], <<op>>[m])
  <2>1. m = 1 /\ m - 1 = 0
    OBVIOUS
  <2> QED
    BY <1>1, <1>2, <2>1
<1> HIDE DEF z
<1>4. Leads(<<op>>, x, z)
  BY <1>1, <1>2, <1>3 DEF Leads
<1> QED
  BY <1>2, <1>4 DEF z

\* A move and the updates after it.
LEMMA AlongLeads ==
  ASSUME NEW prev, Window(prev), NEW next, Window(next), Len(next) = Len(prev),
         NEW from \in 1..Len(prev), NEW to \in 1..Len(prev),
         KeysOf(Moved(prev, from, to)) = KeysOf(next),
         NEW ops, ops = <<MoveOp(prev[from].key, from, to)>> \o UpdatesAfter(prev, next, from, to)
  PROVE  ops \in Seq(AnyOperation) /\ Leads(ops, Copy(prev), Copy(next))
<1> DEFINE t == Moved(prev, from, to)
           T == {i \in DOMAIN next : t[i].row # next[i].row}
           op == MoveOp(prev[from].key, from, to)
<1>1. Len(prev) \in Nat /\ prev[from].key \in Keys /\ from \in Nat /\ to \in Nat
  BY WindowEntries
<1>2. Window(t) /\ Len(t) = Len(prev)
  BY MovedWindow
<1>3. ApplyOperation(Copy(prev), op) = Copy(t)
  BY MoveApplies
<1>4. op \in AnyOperation
  BY <1>1 DEF AnyOperation
<1>5. UpdatesAfter(prev, next, from, to) = Updates(next, T)
  BY DEF UpdatesAfter
<1> HIDE DEF t, op
<1>6. \A i \in 1..Len(t) : next[i].key = t[i].key
  <2>1. DOMAIN t = 1..Len(t) /\ DOMAIN next = 1..Len(t)
    BY <1>2, WindowEntries
  <2>2. KeysOf(t) = KeysOf(next)
    BY DEF t
  <2>3. \A i \in 1..Len(t) : KeysOf(t)[i] = t[i].key /\ KeysOf(next)[i] = next[i].key
    BY <2>1 DEF KeysOf
  <2> QED
    BY <2>2, <2>3
<1>7. Len(next) = Len(t)
  BY <1>2
<1>8. T = {i \in DOMAIN next : t[i].row # next[i].row}
  OBVIOUS
<1> HIDE DEF T
<1>9. Updates(next, T) \in Seq(AnyOperation) /\ Leads(Updates(next, T), Copy(t), Copy(next))
  BY <1>2, <1>6, <1>7, <1>8, UpdatesLead
<1>10. <<op>> \in Seq(AnyOperation) /\ Leads(<<op>>, Copy(prev), Copy(t))
  BY <1>3, <1>4, LeadsOne
<1>11. ops = <<op>> \o Updates(next, T)
  BY <1>5 DEF op
<1>12. Leads(<<op>> \o Updates(next, T), Copy(prev), Copy(next))
  BY <1>9, <1>10, LeadsThen
<1> QED
  BY <1>9, <1>10, <1>11, <1>12, ConcatProperties

\* Results with other keys differ somewhere.
LEMMA ChangedEnds ==
  ASSUME NEW prev, Window(prev), NEW next, Window(next), Len(prev) = Len(next),
         KeysOf(prev) # KeysOf(next)
  PROVE  LET changed == {i \in DOMAIN prev : prev[i].key # next[i].key}
         IN  Min(changed) \in 1..Len(prev) /\ Max(changed) \in 1..Len(prev)
<1> DEFINE changed == {i \in DOMAIN prev : prev[i].key # next[i].key}
<1>1. DOMAIN prev = 1..Len(prev) /\ DOMAIN next = 1..Len(prev) /\ Len(prev) \in Nat
  BY WindowEntries
<1>2. changed # {} /\ changed \in SUBSET (1..Len(prev))
  <2>1. SUFFICES ASSUME changed = {} PROVE FALSE
    BY <1>1
  <2>2. \A i \in 1..Len(prev) : prev[i].key = next[i].key
    BY <1>1, <2>1
  <2>3. KeysOf(prev) = KeysOf(next)
    BY <1>1, <2>2 DEF KeysOf
  <2> QED
    BY <2>3
<1> HIDE DEF changed
<1>3. Min(changed) \in 1..Len(prev) /\ Max(changed) \in 1..Len(prev)
  BY <1>1, <1>2, EndsExist
<1> QED
  BY <1>3 DEF changed

LEMMA SingleMoveLeads ==
  ASSUME NEW prev, Window(prev), NEW next, Window(next), NEW ops \in SingleMove(prev, next)
  PROVE  ops \in Seq(AnyOperation) /\ Leads(ops, Copy(prev), Copy(next))
<1> DEFINE changed == {i \in DOMAIN prev : prev[i].key # next[i].key}
           first   == Min(changed)
           last    == Max(changed)
           down    == KeysOf(Moved(prev, first, last)) = KeysOf(next)
           up      == KeysOf(Moved(prev, last, first)) = KeysOf(next)
           along(from, to) == <<MoveOp(prev[from].key, from, to)>> \o UpdatesAfter(prev, next, from, to)
<1>1. Len(prev) = Len(next) /\ KeysOf(prev) # KeysOf(next) /\ (down \/ up)
  BY DEF SingleMove
<1>2. (up /\ ops = along(last, first)) \/ (down /\ ops = along(first, last))
  BY <1>1 DEF SingleMove
<1>3. first \in 1..Len(prev) /\ last \in 1..Len(prev)
  BY <1>1, ChangedEnds
<1> HIDE DEF changed, first, last
<1>4. CASE up /\ ops = along(last, first)
  BY <1>1, <1>3, <1>4, AlongLeads
<1>5. CASE down /\ ops = along(first, last)
  BY <1>1, <1>3, <1>5, AlongLeads
<1> QED
  BY <1>2, <1>4, <1>5

LEMMA ReplacementLeads ==
  ASSUME NEW prev, Window(prev), NEW next, Window(next), NEW ops \in Replacement(prev, next)
  PROVE  ops \in Seq(AnyOperation) /\ Leads(ops, Copy(prev), Copy(next))
<1> DEFINE removed  == KeySet(prev) \ KeySet(next)
           inserted == KeySet(next) \ KeySet(prev)
           R == {i \in DOMAIN prev : prev[i].key \in removed}
           I == {i \in DOMAIN next : next[i].key \in inserted}
           kept == Without(prev, removed)
           a == Removals(prev, R)
           b == Insertions(next, I)
<1>1. Without(prev, removed) = Without(next, inserted) /\ ops = a \o b
  BY DEF Replacement
<1>2. DOMAIN prev = 1..Len(prev) /\ DOMAIN next = 1..Len(next)
  BY WindowEntries
<1>3. kept = Picked(prev, (1..Len(prev)) \ R) /\ R \in SUBSET (1..Len(prev))
  <2>1. {i \in DOMAIN prev : prev[i].key \notin removed} = (1..Len(prev)) \ R
    BY <1>2
  <2> QED
    BY <1>2, <2>1 DEF Without
<1>4. kept = Picked(next, (1..Len(next)) \ I) /\ I \in SUBSET (1..Len(next))
  <2>1. {i \in DOMAIN next : next[i].key \notin inserted} = (1..Len(next)) \ I
    BY <1>2
  <2>2. kept = Picked(next, {i \in DOMAIN next : next[i].key \notin inserted})
    BY <1>1 DEF Without
  <2> QED
    BY <1>2, <2>1, <2>2
<1> HIDE DEF R, I, kept
<1>5. a \in Seq(AnyOperation) /\ Leads(a, Copy(prev), Copy(kept))
  BY <1>3, RemovalsLead
<1>6. b \in Seq(AnyOperation) /\ Leads(b, Copy(kept), Copy(next))
  BY <1>4, InsertionsLead
<1> HIDE DEF a, b
<1>7. Leads(a \o b, Copy(prev), Copy(next))
  BY <1>5, <1>6, LeadsThen
<1> QED
  BY <1>1, <1>5, <1>6, <1>7, ConcatProperties
-------------------------------------------------------------------------------
(* Folds, step by step, whatever is folded. *)

Advance(kind, state, x) ==
  CASE kind.way = "drop"     -> Drop(state, x)
    [] kind.way = "place"    -> PlaceEntry(state, x)
    [] kind.way = "apply"    -> ApplyOperation(state, x)
    [] kind.way = "consider" -> Consider(kind.plan, kind.build, kind.excluded, kind.most, state, x)
    [] kind.way = "sort"     -> KeepSorted(kind.st, kind.by, kind.end, state, x)
    [] kind.way = "heap"     -> KeepInHeap(kind.st, kind.by, kind.end, state, x)

Way(way) == [way |-> way]

\* f folds the first m elements of the sequence s.
FoldsTo(f, kind, base, s, m) ==
  f = [t \in SUBSET (1..m) |-> IF t = {} THEN base ELSE Advance(kind, f[t \ {Max(t)}], s[Max(t)])]

\* There is a fold.
LEMMA FoldExists ==
  ASSUME NEW kind, NEW base, NEW s, NEW n \in Nat
  PROVE  \E f : FoldsTo(f, kind, base, s, n)
<1> DEFINE P == {m \in Nat : \E f : FoldsTo(f, kind, base, s, m)}
<1>1. 0 \in P
  <2> DEFINE g == [t \in SUBSET (1..0) |-> base]
  <2>1. \A t \in SUBSET (1..0) : t = {}
    OBVIOUS
  <2>2. FoldsTo(g, kind, base, s, 0)
    BY <2>1 DEF FoldsTo
  <2> QED
    BY <2>2
<1>2. ASSUME NEW m \in 1..n, m - 1 \in P PROVE m \in P
  <2> DEFINE k == m - 1
  <2>1. k \in Nat /\ m = k + 1 /\ m \in Nat
    OBVIOUS
  <2>2. PICK f : FoldsTo(f, kind, base, s, k)
    BY <1>2
  <2> HIDE DEF k
  <2> DEFINE g == [t \in SUBSET (1..m) |->
                     IF t \in SUBSET (1..k) THEN f[t] ELSE Advance(kind, f[t \ {m}], s[m])]
  <2>3. \A t \in SUBSET (1..k) : /\ t \in SUBSET (1..m) /\ g[t] = f[t]
                                 /\ t \ {Max(t)} \in SUBSET (1..k)
    <3>1. 1..k \subseteq 1..m
      BY <2>1
    <3>2. ASSUME NEW t \in SUBSET (1..k)
          PROVE  t \in SUBSET (1..m) /\ t \ {Max(t)} \in SUBSET (1..k)
      BY <3>1
    <3>3. ASSUME NEW t \in SUBSET (1..k) PROVE g[t] = f[t]
      BY <3>2
    <3> QED
      BY <3>2, <3>3
  <2>4. \A t \in SUBSET (1..m) : t \notin SUBSET (1..k) =>
          /\ m \in t /\ t # {} /\ Max(t) = m /\ t \ {m} \in SUBSET (1..k)
          /\ g[t] = Advance(kind, f[t \ {m}], s[m])
    <3>1. ASSUME NEW t \in SUBSET (1..m), t \notin SUBSET (1..k)
          PROVE  m \in t /\ t \ {m} \in SUBSET (1..k)
      BY <2>1, <3>1
    <3> QED
      BY <2>1, <3>1, GreatestIs
  <2>5. ASSUME NEW t \in SUBSET (1..m)
        PROVE  g[t] = IF t = {} THEN base ELSE Advance(kind, g[t \ {Max(t)}], s[Max(t)])
    <3>1. CASE t \in SUBSET (1..k)
      <4>1. f[t] = IF t = {} THEN base ELSE Advance(kind, f[t \ {Max(t)}], s[Max(t)])
        BY <2>2, <3>1 DEF FoldsTo
      <4> HIDE DEF g
      <4> QED
        BY <2>3, <3>1, <4>1
    <3>2. CASE t \notin SUBSET (1..k)
      <4> HIDE DEF g
      <4> QED
        BY <2>3, <2>4, <3>2
    <3> QED
      BY <3>1, <3>2
  <2>6. g = [t \in SUBSET (1..m) |-> g[t]]
    OBVIOUS
  <2> HIDE DEF g
  <2>7. FoldsTo(g, kind, base, s, m)
    BY <2>5, <2>6 DEF FoldsTo
  <2> QED
    BY <2>1, <2>7
<1>3. \A i \in 0..n : i \in P
  <2> HIDE DEF P
  <2> QED
    BY <1>1, <1>2, CountUp, Zenon
<1>4. n \in 0..n
  OBVIOUS
<1> QED
  BY <1>3, <1>4

Steps(f, kind, base, s, n) ==
  f[1..0] = base /\ \A m \in 1..n : f[1..m] = Advance(kind, f[1..(m - 1)], s[m])

\* A fold takes one step for each element.
LEMMA FoldSteps ==
  ASSUME NEW kind, NEW base, NEW s, NEW n \in Nat, NEW f, FoldsTo(f, kind, base, s, n)
  PROVE  Steps(f, kind, base, s, n)
<1>1. \A t \in SUBSET (1..n) : f[t] = IF t = {} THEN base ELSE Advance(kind, f[t \ {Max(t)}], s[Max(t)])
  BY DEF FoldsTo
<1>2. f[1..0] = base
  <2>1. 1..0 = {} /\ {} \in SUBSET (1..n)
    OBVIOUS
  <2> QED
    BY <1>1, <2>1
<1>3. ASSUME NEW m \in 1..n PROVE f[1..m] = Advance(kind, f[1..(m - 1)], s[m])
  <2>1. m \in Nat /\ m <= n /\ 1 <= m
    OBVIOUS
  <2>2. 1..m \in SUBSET (1..n) /\ m \in 1..m /\ 1..m # {} /\ (1..m) \ {m} = 1..(m - 1)
    BY <2>1
  <2>3. Max(1..m) = m
    BY <2>1, <2>2, GreatestIs
  <2> QED
    BY <1>1, <2>2, <2>3
<1> QED
  BY <1>2, <1>3 DEF Steps

\* The sequence s folds to the last of the states c.
Runs(c, kind, base, s) ==
  /\ c[0] = base
  /\ \A m \in 1..Len(s) : c[m] = Advance(kind, c[m - 1], s[m])

\* Keys that are dropped.
LEMMA DropsFold ==
  ASSUME NEW base, NEW s, Len(s) \in Nat, DOMAIN s = 1..Len(s)
  PROVE  \E c : /\ Runs(c, Way("drop"), base, s)
                /\ FoldLeft(Drop, base, s) = c[Len(s)]
<1> DEFINE n == Len(s)
           is(f) == f = [t \in SUBSET (1..n) |->
                           IF t = {} THEN base ELSE Drop(f[t \ {Max(t)}], s[Max(t)])]
           f == CHOOSE g : is(g)
           c == [m \in 0..n |-> f[1..m]]
<1>1. FoldLeft(Drop, base, s) = f[1..n]
  BY DEF FoldLeft, MapThenFoldSet
<1> HIDE DEF n
<1>2. n \in Nat /\ n = Len(s)
  BY DEF n
<1>3. PICK g : FoldsTo(g, Way("drop"), base, s, n)
  BY <1>2, FoldExists
<1>4. is(g)
  BY <1>3 DEF FoldsTo, Advance, Way
<1> HIDE DEF is
<1>5. is(f)
  BY <1>4, Zenon
<1> USE DEF is
<1>6. FoldsTo(f, Way("drop"), base, s, n)
  <2> HIDE DEF f
  <2> QED
    BY <1>5 DEF FoldsTo, Advance, Way
<1> HIDE DEF f, is
<1>7. f[1..0] = base /\ \A m \in 1..n : f[1..m] = Advance(Way("drop"), f[1..(m - 1)], s[m])
  <2>1. Steps(f, Way("drop"), base, s, n)
    BY <1>2, <1>6, FoldSteps
  <2> QED
    BY <2>1 DEF Steps
<1>8. c[0] = f[1..0] /\ c[n] = f[1..n] /\ \A m \in 1..n : c[m] = f[1..m] /\ c[m - 1] = f[1..(m - 1)]
  BY <1>2
<1> HIDE DEF c
<1>9. Runs(c, Way("drop"), base, s) /\ FoldLeft(Drop, base, s) = c[Len(s)]
  BY <1>1, <1>2, <1>7, <1>8 DEF Runs
<1> QED
  BY <1>9

\* Entries that are placed.
LEMMA PlacementsFold ==
  ASSUME NEW base, NEW s, Len(s) \in Nat, DOMAIN s = 1..Len(s)
  PROVE  \E c : /\ Runs(c, Way("place"), base, s)
                /\ FoldLeft(PlaceEntry, base, s) = c[Len(s)]
<1> DEFINE n == Len(s)
           is(f) == f = [t \in SUBSET (1..n) |->
                           IF t = {} THEN base ELSE PlaceEntry(f[t \ {Max(t)}], s[Max(t)])]
           f == CHOOSE g : is(g)
           c == [m \in 0..n |-> f[1..m]]
<1>1. FoldLeft(PlaceEntry, base, s) = f[1..n]
  BY DEF FoldLeft, MapThenFoldSet
<1> HIDE DEF n
<1>2. n \in Nat /\ n = Len(s)
  BY DEF n
<1>3. PICK g : FoldsTo(g, Way("place"), base, s, n)
  BY <1>2, FoldExists
<1>4. is(g)
  BY <1>3 DEF FoldsTo, Advance, Way
<1> HIDE DEF is
<1>5. is(f)
  BY <1>4, Zenon
<1> USE DEF is
<1>6. FoldsTo(f, Way("place"), base, s, n)
  <2> HIDE DEF f
  <2> QED
    BY <1>5 DEF FoldsTo, Advance, Way
<1> HIDE DEF f, is
<1>7. f[1..0] = base /\ \A m \in 1..n : f[1..m] = Advance(Way("place"), f[1..(m - 1)], s[m])
  <2>1. Steps(f, Way("place"), base, s, n)
    BY <1>2, <1>6, FoldSteps
  <2> QED
    BY <2>1 DEF Steps
<1>8. c[0] = f[1..0] /\ c[n] = f[1..n] /\ \A m \in 1..n : c[m] = f[1..m] /\ c[m - 1] = f[1..(m - 1)]
  BY <1>2
<1> HIDE DEF c
<1>9. Runs(c, Way("place"), base, s) /\ FoldLeft(PlaceEntry, base, s) = c[Len(s)]
  BY <1>1, <1>2, <1>7, <1>8 DEF Runs
<1> QED
  BY <1>9

\* Operations that are applied.
LEMMA OperationsFold ==
  ASSUME NEW base, NEW s, Len(s) \in Nat, DOMAIN s = 1..Len(s)
  PROVE  \E c : /\ Runs(c, Way("apply"), base, s)
                /\ FoldLeft(ApplyOperation, base, s) = c[Len(s)]
<1> DEFINE n == Len(s)
           is(f) == f = [t \in SUBSET (1..n) |->
                           IF t = {} THEN base ELSE ApplyOperation(f[t \ {Max(t)}], s[Max(t)])]
           f == CHOOSE g : is(g)
           c == [m \in 0..n |-> f[1..m]]
<1>1. FoldLeft(ApplyOperation, base, s) = f[1..n]
  BY DEF FoldLeft, MapThenFoldSet
<1> HIDE DEF n
<1>2. n \in Nat /\ n = Len(s)
  BY DEF n
<1>3. PICK g : FoldsTo(g, Way("apply"), base, s, n)
  BY <1>2, FoldExists
<1>4. is(g)
  BY <1>3 DEF FoldsTo, Advance, Way
<1> HIDE DEF is
<1>5. is(f)
  BY <1>4, Zenon
<1> USE DEF is
<1>6. FoldsTo(f, Way("apply"), base, s, n)
  <2> HIDE DEF f
  <2> QED
    BY <1>5 DEF FoldsTo, Advance, Way
<1> HIDE DEF f, is
<1>7. f[1..0] = base /\ \A m \in 1..n : f[1..m] = Advance(Way("apply"), f[1..(m - 1)], s[m])
  <2>1. Steps(f, Way("apply"), base, s, n)
    BY <1>2, <1>6, FoldSteps
  <2> QED
    BY <2>1 DEF Steps
<1>8. c[0] = f[1..0] /\ c[n] = f[1..n] /\ \A m \in 1..n : c[m] = f[1..m] /\ c[m - 1] = f[1..(m - 1)]
  BY <1>2
<1> HIDE DEF c
<1>9. Runs(c, Way("apply"), base, s) /\ FoldLeft(ApplyOperation, base, s) = c[Len(s)]
  BY <1>1, <1>2, <1>7, <1>8 DEF Runs
<1> QED
  BY <1>9

\* Filters that are considered.
LEMMA ConsidersFold ==
  ASSUME NEW st, NEW plan, NEW build, NEW excluded, NEW most,
         Len(plan.filters) \in Nat, DOMAIN plan.filters = 1..Len(plan.filters)
  PROVE  \E c :
           /\ Runs(c, [way |-> "consider", plan |-> plan, build |-> build, excluded |-> excluded, most |-> most],
                   Nothing(st), plan.filters)
           /\ Considered(st, plan, build, excluded, most) = c[Len(plan.filters)]
<1> DEFINE base == Nothing(st)
           s == plan.filters
           n == Len(s)
           kind == [way |-> "consider", plan |-> plan, build |-> build, excluded |-> excluded, most |-> most]
           is(f) == f = [t \in SUBSET (1..n) |->
                           IF t = {} THEN base ELSE Consider(plan, build, excluded, most, f[t \ {Max(t)}], s[Max(t)])]
           f == CHOOSE g : is(g)
           c == [m \in 0..n |-> f[1..m]]
<1>1. Considered(st, plan, build, excluded, most) = f[1..n]
  BY DEF Considered, FoldLeft, MapThenFoldSet
<1> HIDE DEF n, kind, base, s
<1>2. n \in Nat /\ n = Len(s)
  BY DEF n, s
<1>3. PICK g : FoldsTo(g, kind, base, s, n)
  BY <1>2, FoldExists
<1>4. is(g)
  BY <1>3 DEF FoldsTo, Advance, kind
<1> HIDE DEF is
<1>5. is(f)
  BY <1>4, Zenon
<1> USE DEF is
<1>6. FoldsTo(f, kind, base, s, n)
  <2> HIDE DEF f
  <2> QED
    BY <1>5 DEF FoldsTo, Advance, kind
<1> HIDE DEF f, is
<1>7. f[1..0] = base /\ \A m \in 1..n : f[1..m] = Advance(kind, f[1..(m - 1)], s[m])
  <2>1. Steps(f, kind, base, s, n)
    BY <1>2, <1>6, FoldSteps
  <2> QED
    BY <2>1 DEF Steps
<1>8. c[0] = f[1..0] /\ c[n] = f[1..n] /\ \A m \in 1..n : c[m] = f[1..m] /\ c[m - 1] = f[1..(m - 1)]
  BY <1>2
<1> HIDE DEF c
<1>9. Runs(c, kind, base, s) /\ Considered(st, plan, build, excluded, most) = c[Len(s)]
  BY <1>1, <1>2, <1>7, <1>8 DEF Runs
<1> QED
  BY <1>9 DEF kind, base, s

\* Slots for a sorted window.
LEMMA SortsFold ==
  ASSUME NEW st, NEW by, NEW end, NEW s, Len(s) \in Nat, DOMAIN s = 1..Len(s)
  PROVE  \E c :
           /\ Runs(c, [way |-> "sort", st |-> st, by |-> by, end |-> end], <<>>, s)
           /\ SortedWindow(st, by, end, s) = c[Len(s)]
<1> DEFINE base == <<>>
           n == Len(s)
           kind == [way |-> "sort", st |-> st, by |-> by, end |-> end]
           is(f) == f = [t \in SUBSET (1..n) |->
                           IF t = {} THEN base ELSE KeepSorted(st, by, end, f[t \ {Max(t)}], s[Max(t)])]
           f == CHOOSE g : is(g)
           c == [m \in 0..n |-> f[1..m]]
<1>1. SortedWindow(st, by, end, s) = f[1..n]
  BY DEF SortedWindow, FoldLeft, MapThenFoldSet
<1> HIDE DEF n, kind, base
<1>2. n \in Nat /\ n = Len(s)
  BY DEF n
<1>3. PICK g : FoldsTo(g, kind, base, s, n)
  BY <1>2, FoldExists
<1>4. is(g)
  BY <1>3 DEF FoldsTo, Advance, kind
<1> HIDE DEF is
<1>5. is(f)
  BY <1>4, Zenon
<1> USE DEF is
<1>6. FoldsTo(f, kind, base, s, n)
  <2> HIDE DEF f
  <2> QED
    BY <1>5 DEF FoldsTo, Advance, kind
<1> HIDE DEF f, is
<1>7. f[1..0] = base /\ \A m \in 1..n : f[1..m] = Advance(kind, f[1..(m - 1)], s[m])
  <2>1. Steps(f, kind, base, s, n)
    BY <1>2, <1>6, FoldSteps
  <2> QED
    BY <2>1 DEF Steps
<1>8. c[0] = f[1..0] /\ c[n] = f[1..n] /\ \A m \in 1..n : c[m] = f[1..m] /\ c[m - 1] = f[1..(m - 1)]
  BY <1>2
<1> HIDE DEF c
<1>9. Runs(c, kind, base, s) /\ SortedWindow(st, by, end, s) = c[Len(s)]
  BY <1>1, <1>2, <1>7, <1>8 DEF Runs
<1> QED
  BY <1>9 DEF kind, base

\* Slots for a heap.
LEMMA HeapsFold ==
  ASSUME NEW st, NEW by, NEW end, NEW s, Len(s) \in Nat, DOMAIN s = 1..Len(s)
  PROVE  \E c :
           /\ Runs(c, [way |-> "heap", st |-> st, by |-> by, end |-> end], <<>>, s)
           /\ HeapWindow(st, by, end, s) = c[Len(s)]
<1> DEFINE base == <<>>
           n == Len(s)
           kind == [way |-> "heap", st |-> st, by |-> by, end |-> end]
           is(f) == f = [t \in SUBSET (1..n) |->
                           IF t = {} THEN base ELSE KeepInHeap(st, by, end, f[t \ {Max(t)}], s[Max(t)])]
           f == CHOOSE g : is(g)
           c == [m \in 0..n |-> f[1..m]]
<1>1. HeapWindow(st, by, end, s) = f[1..n]
  BY DEF HeapWindow, FoldLeft, MapThenFoldSet
<1> HIDE DEF n, kind, base
<1>2. n \in Nat /\ n = Len(s)
  BY DEF n
<1>3. PICK g : FoldsTo(g, kind, base, s, n)
  BY <1>2, FoldExists
<1>4. is(g)
  BY <1>3 DEF FoldsTo, Advance, kind
<1> HIDE DEF is
<1>5. is(f)
  BY <1>4, Zenon
<1> USE DEF is
<1>6. FoldsTo(f, kind, base, s, n)
  <2> HIDE DEF f
  <2> QED
    BY <1>5 DEF FoldsTo, Advance, kind
<1> HIDE DEF f, is
<1>7. f[1..0] = base /\ \A m \in 1..n : f[1..m] = Advance(kind, f[1..(m - 1)], s[m])
  <2>1. Steps(f, kind, base, s, n)
    BY <1>2, <1>6, FoldSteps
  <2> QED
    BY <2>1 DEF Steps
<1>8. c[0] = f[1..0] /\ c[n] = f[1..n] /\ \A m \in 1..n : c[m] = f[1..m] /\ c[m - 1] = f[1..(m - 1)]
  BY <1>2
<1> HIDE DEF c
<1>9. Runs(c, kind, base, s) /\ HeapWindow(st, by, end, s) = c[Len(s)]
  BY <1>1, <1>2, <1>7, <1>8 DEF Runs
<1> QED
  BY <1>9 DEF kind, base
-------------------------------------------------------------------------------
(* The general way. *)

\* What the engine computes with: a client's copy, and the operations that lead to it.
Working(st, prev) ==
  /\ st = [rows |-> st.rows, ops |-> st.ops, index |-> st.index]
  /\ Window(st.rows) /\ st.index = IndexOf(st.rows)
  /\ st.ops \in Seq(AnyOperation) /\ Leads(st.ops, Copy(prev), Copy(st.rows))

LEMMA WorkingIs ==
  ASSUME NEW prev, NEW r, Window(r), NEW ops \in Seq(AnyOperation), NEW at, at = IndexOf(r),
         Leads(ops, Copy(prev), Copy(r)), NEW t, t = [rows |-> r, ops |-> ops, index |-> at]
  PROVE  Working(t, prev)
<1>1. t.rows = r /\ t.ops = ops /\ t.index = at
  OBVIOUS
<1> QED
  BY <1>1 DEF Working

\* One operation more.
LEMMA WorkingOn ==
  ASSUME NEW prev, NEW st, Working(st, prev), NEW op \in AnyOperation, NEW r, Window(r),
         ApplyOperation(Copy(st.rows), op) = Copy(r), NEW at, at = IndexOf(r),
         NEW t, t = [rows |-> r, ops |-> Append(st.ops, op), index |-> at]
  PROVE  Working(t, prev)
<1> DEFINE ops == Append(st.ops, op)
<1>1. st.ops \in Seq(AnyOperation) /\ Leads(st.ops, Copy(prev), Copy(st.rows))
  BY DEF Working
<1>2. ops \in Seq(AnyOperation)
  BY <1>1
<1>3. Leads(ops, Copy(prev), Copy(r))
  <2>1. Leads(ops, Copy(prev), ApplyOperation(Copy(st.rows), op))
    BY <1>1, LeadsOn
  <2> QED
    BY <2>1
<1> HIDE DEF ops
<1>4. t = [rows |-> r, ops |-> ops, index |-> at]
  BY DEF ops
<1> QED
  BY <1>2, <1>3, <1>4, WorkingIs

LEMMA DropWorks ==
  ASSUME NEW prev, NEW st, Working(st, prev), NEW k \in KeySet(st.rows)
  PROVE  Working(Drop(st, k), prev) /\ KeySet(Drop(st, k).rows) = KeySet(st.rows) \ {k}
<1> DEFINE r == st.rows
<1>1. Window(r) /\ st.index = IndexOf(r)
  BY DEF Working
<1>2. PICK i \in 1..Len(r) : r[i].key = k
  BY <1>1, WindowEntries
<1>3. /\ Window(RemoveAt(r, i)) /\ k \in Keys /\ IndexOf(r)[k] = i
      /\ Reindex([IndexOf(r) EXCEPT ![k] = 0], RemoveAt(r, i), i) = IndexOf(RemoveAt(r, i))
      /\ KeySet(RemoveAt(r, i)) = KeySet(r) \ {k}
  BY <1>1, <1>2, RemovedWindow
<1>4. ApplyOperation(Copy(r), RemoveOp(k)) = Copy(RemoveAt(r, i))
  BY <1>1, <1>2, RemoveApplies
<1>5. Drop(st, k) = [rows  |-> RemoveAt(r, i), ops |-> Append(st.ops, RemoveOp(k)),
                     index |-> Reindex([IndexOf(r) EXCEPT ![k] = 0], RemoveAt(r, i), i)]
  BY <1>1, <1>3 DEF Drop
<1>6. RemoveOp(k) \in AnyOperation
  BY <1>3 DEF AnyOperation
<1> HIDE DEF r
<1>7. Working(Drop(st, k), prev)
  BY <1>3, <1>4, <1>5, <1>6, WorkingOn DEF r
<1> QED
  BY <1>3, <1>5, <1>7 DEF r

\* The first i entries are those of next.
Agrees(r, next, i) == i <= Len(r) /\ \A j \in 1..i : r[j] = next[j]

\* The entry is not held: it is inserted.
LEMMA PlaceAbsent ==
  ASSUME NEW prev, NEW next, Window(next), NEW st, Working(st, prev),
         KeySet(st.rows) \subseteq KeySet(next), NEW i \in 1..Len(next), Agrees(st.rows, next, i - 1),
         next[i].key \notin KeySet(st.rows),
         NEW t, t = PlaceEntry(st, [entry |-> next[i], index |-> i])
  PROVE  Working(t, prev) /\ KeySet(t.rows) \subseteq KeySet(next) /\ Agrees(t.rows, next, i)
<1> DEFINE r == st.rows
           e == next[i]
           x == InsertAt(r, i, e)
<1>1. Window(r) /\ st.index = IndexOf(r)
  BY DEF Working
<1>2. Len(r) \in Nat /\ i \in Nat /\ e \in Entries /\ e.key \in Keys /\ e.key \in KeySet(next)
  BY <1>1, WindowEntries
<1>3. i \in 1..(Len(r) + 1)
  BY <1>2 DEF Agrees
<1>4. /\ Window(x) /\ WithEntry(x, r, i, e) /\ Reindex(IndexOf(r), x, i) = IndexOf(x)
      /\ KeySet(x) = KeySet(r) \union {e.key}
  BY <1>1, <1>2, <1>3, InsertedWindow
<1>5. ApplyOperation(Copy(r), InsertOp(e, i)) = Copy(x)
  BY <1>1, <1>2, <1>3, InsertApplies
<1>6. IndexOf(r)[e.key] = 0
  BY <1>1, <1>2, IndexTells DEF Tells
<1>7. t = [rows |-> x, ops |-> Append(st.ops, InsertOp(e, i)), index |-> Reindex(IndexOf(r), x, i)]
  BY <1>1, <1>6 DEF PlaceEntry
<1>8. InsertOp(e, i) \in AnyOperation
  BY <1>2 DEF AnyOperation
<1> HIDE DEF r, x, e
<1>9. Working(t, prev)
  BY <1>4, <1>5, <1>7, <1>8, WorkingOn DEF r
<1>10. t.rows = x
  BY <1>7
<1>11. Agrees(x, next, i)
  <2>1. i <= Len(x)
    BY <1>2, <1>3, <1>4 DEF WithEntry
  <2>2. ASSUME NEW j \in 1..i PROVE x[j] = next[j]
    <3>1. CASE j = i
      BY <1>3, <1>4, <3>1 DEF WithEntry, e
    <3>2. CASE j # i
      <4>1. j \in 1..(i - 1) /\ j < i /\ j \in 1..(Len(r) + 1)
        BY <1>2, <1>3, <3>2
      <4>2. x[j] = r[j]
        BY <1>4, <4>1 DEF WithEntry
      <4> QED
        BY <4>1, <4>2 DEF Agrees, r
    <3> QED
      BY <3>1, <3>2
  <2> QED
    BY <2>1, <2>2 DEF Agrees
<1>12. KeySet(x) \subseteq KeySet(next)
  BY <1>2, <1>4 DEF r
<1> QED
  BY <1>9, <1>10, <1>11, <1>12

\* The entry at `at` with e's key, brought to i.
Brought(st, e, at, i) ==
  IF at = i THEN st
  ELSE [rows  |-> Moved(st.rows, at, i), ops |-> Append(st.ops, MoveOp(e.key, at, i)),
        index |-> Reindex(st.index, Moved(st.rows, at, i), Min({at, i}))]

\* The entries before i are in their places, and the key of the one at i.
Underway(t, prev, next, i) ==
  /\ Working(t, prev) /\ KeySet(t.rows) \subseteq KeySet(next)
  /\ Agrees(t.rows, next, i - 1) /\ i \in 1..Len(t.rows) /\ t.rows[i].key = next[i].key

\* The entry is held: it is brought to its place.
LEMMA PlaceMoved ==
  ASSUME NEW prev, NEW next, Window(next), NEW st, Working(st, prev),
         KeySet(st.rows) \subseteq KeySet(next), NEW i \in 1..Len(next), Agrees(st.rows, next, i - 1),
         NEW at \in 1..Len(st.rows), st.rows[at].key = next[i].key
  PROVE  Underway(Brought(st, next[i], at, i), prev, next, i)
<1> DEFINE t == Brought(st, next[i], at, i)
           r == st.rows
           x == Moved(r, at, i)
<1>1. Window(r) /\ st.index = IndexOf(r)
  BY DEF Working
<1>2. Len(r) \in Nat /\ i \in Nat /\ at \in Nat /\ at \in 1..Len(r) /\ Len(next) \in Nat
  BY <1>1, WindowEntries
<1>3. i <= at
  <2>1. SUFFICES ASSUME at < i PROVE FALSE
    BY <1>2
  <2>2. at \in 1..(i - 1) /\ at \in 1..Len(next)
    BY <1>2, <2>1
  <2>3. next[at].key = next[i].key
    BY <2>2 DEF Agrees
  <2> QED
    BY <1>2, <2>1, <2>2, <2>3 DEF Window
<1>4. CASE at = i
  BY <1>2, <1>4 DEF Brought, Underway
<1>5. CASE at # i
  <2>1. i < at /\ i \in 1..Len(r)
    BY <1>2, <1>3, <1>5
  <2>2. /\ Window(x) /\ Len(x) = Len(r) /\ \A j \in 1..Len(r) : x[j] = r[From(at, i, j)]
        /\ Reindex(IndexOf(r), x, Min({at, i})) = IndexOf(x) /\ KeySet(x) = KeySet(r)
    BY <1>1, <1>2, <2>1, MovedWindow
  <2>3. ApplyOperation(Copy(r), MoveOp(next[i].key, at, i)) = Copy(x)
    <3>1. ApplyOperation(Copy(r), MoveOp(r[at].key, at, i)) = Copy(x)
      BY <1>1, <1>2, <2>1, MoveApplies
    <3> QED
      BY <3>1
  <2>4. MoveOp(next[i].key, at, i) \in AnyOperation
    BY <1>2, WindowEntries DEF AnyOperation
  <2>5. t = [rows |-> x, ops |-> Append(st.ops, MoveOp(next[i].key, at, i)),
             index |-> Reindex(IndexOf(r), x, Min({at, i}))]
    BY <1>1, <1>5 DEF Brought
  <2>6. x[i].key = next[i].key /\ \A j \in 1..(i - 1) : x[j] = next[j]
    <3>1. From(at, i, i) = at /\ \A j \in 1..(i - 1) : From(at, i, j) = j /\ j \in 1..Len(r)
      BY <1>2, <2>1 DEF From
    <3> HIDE DEF x
    <3> QED
      BY <2>1, <2>2, <3>1 DEF Agrees
  <2> HIDE DEF r, x, t
  <2>7. Working(t, prev)
    BY <2>2, <2>3, <2>4, <2>5, WorkingOn DEF r
  <2>8. t.rows = x
    BY <2>5
  <2>9. Agrees(x, next, i - 1)
    BY <1>2, <2>1, <2>2, <2>6 DEF Agrees
  <2> QED
    BY <2>1, <2>2, <2>6, <2>7, <2>8, <2>9 DEF r, t, Underway
<1> QED
  BY <1>4, <1>5

\* The first i entries are in their places.
Placed(st, prev, next, i) ==
  Working(st, prev) /\ KeySet(st.rows) \subseteq KeySet(next) /\ Agrees(st.rows, next, i)

\* The entry at i with e's row.
Refreshed(st, e, i) ==
  IF st.rows[i].row = e.row THEN st
  ELSE [st EXCEPT !.rows[i] = e, !.ops = Append(@, UpdateOp(e, i))]

\* Its row is brought up to date.
LEMMA PlaceUpdated ==
  ASSUME NEW prev, NEW next, Window(next), NEW i \in 1..Len(next), NEW st, Underway(st, prev, next, i)
  PROVE  Placed(Refreshed(st, next[i], i), prev, next, i)
<1> DEFINE t == Refreshed(st, next[i], i)
           r == st.rows
           e == next[i]
           x == [r EXCEPT ![i] = e]
<1>1. /\ Working(st, prev) /\ KeySet(r) \subseteq KeySet(next)
      /\ Agrees(r, next, i - 1) /\ i \in 1..Len(r) /\ r[i].key = e.key
      /\ Window(r) /\ st.index = IndexOf(r)
      /\ st = [rows |-> st.rows, ops |-> st.ops, index |-> st.index]
  BY DEF Underway, Working
<1>2. /\ Len(r) \in Nat /\ DOMAIN r = 1..Len(r) /\ i \in Nat /\ e \in Entries /\ r[i] \in Entries
  BY <1>1, WindowEntries
<1>3. CASE r[i].row = e.row
  <2>1. r[i] = e
    BY <1>1, <1>2, <1>3 DEF Entries
  <2>2. Agrees(r, next, i)
    <3>1. \A j \in 1..i : j = i \/ j \in 1..(i - 1)
      BY <1>2
    <3> QED
      BY <1>1, <1>2, <2>1, <3>1 DEF Agrees
  <2>3. t = st
    BY <1>3 DEF Refreshed
  <2> HIDE DEF t
  <2>4. Placed(t, prev, next, i)
    BY <1>1, <2>2, <2>3 DEF Placed
  <2> QED
    BY <2>4 DEF t
<1>4. CASE r[i].row # e.row
  <2>1. Window(x) /\ Len(x) = Len(r) /\ IndexOf(x) = IndexOf(r) /\ KeySet(x) = KeySet(r)
    BY <1>1, <1>2, UpdatedWindow
  <2>2. ApplyOperation(Copy(r), UpdateOp(e, i)) = Copy(x)
    BY <1>1, <1>2, UpdateApplies
  <2>3. UpdateOp(e, i) \in AnyOperation
    BY <1>2 DEF AnyOperation
  <2>4. t = [rows |-> x, ops |-> Append(st.ops, UpdateOp(e, i)), index |-> st.index]
    <3>1. t = [st EXCEPT !.rows[i] = e, !.ops = Append(@, UpdateOp(e, i))]
      BY <1>4 DEF Refreshed
    <3> HIDE DEF t
    <3> DEFINE o == Append(st.ops, UpdateOp(e, i))
    <3>2. t.rows = x /\ t.ops = o /\ t.index = st.index
      BY <1>1, <3>1
    <3>3. t = [f \in {"rows", "ops", "index"} |-> t[f]]
      BY <1>1, <3>1
    <3> HIDE DEF x, o
    <3>4. t = [rows |-> x, ops |-> o, index |-> st.index]
      BY <3>2, <3>3
    <3> QED
      BY <3>4 DEF o
  <2>5. t.rows = x
    <3>1. t = [st EXCEPT !.rows[i] = e, !.ops = Append(@, UpdateOp(e, i))]
      BY <1>4 DEF Refreshed
    <3> HIDE DEF t
    <3> QED
      BY <1>1, <3>1
  <2>6. Agrees(x, next, i)
    <3>1. \A j \in 1..i : j \in DOMAIN r /\ (j = i \/ j \in 1..(i - 1))
      BY <1>1, <1>2
    <3>2. ASSUME NEW j \in 1..i PROVE x[j] = next[j]
      BY <1>1, <3>1 DEF Agrees
    <3> HIDE DEF x
    <3> QED
      BY <1>1, <1>2, <2>1, <3>2 DEF Agrees
  <2> HIDE DEF r, x, e, t
  <2>7. Working(t, prev)
    BY <1>1, <2>1, <2>2, <2>3, <2>4, WorkingOn DEF r
  <2>8. KeySet(x) \subseteq KeySet(next)
    BY <1>1, <2>1
  <2>9. Placed(t, prev, next, i)
    BY <2>5, <2>6, <2>7, <2>8 DEF Placed
  <2> QED
    BY <2>9 DEF t, e
<1> QED
  BY <1>3, <1>4

LEMMA PlaceWorks ==
  ASSUME NEW prev, NEW next, Window(next), NEW i \in 1..Len(next), NEW st, Placed(st, prev, next, i - 1)
  PROVE  Placed(PlaceEntry(st, [entry |-> next[i], index |-> i]), prev, next, i)
<1> DEFINE t == PlaceEntry(st, [entry |-> next[i], index |-> i])
           r == st.rows
           e == next[i]
           at == st.index[e.key]
           u == Brought(st, e, at, i)
<1>1. /\ Window(r) /\ st.index = IndexOf(r)
      /\ Working(st, prev) /\ KeySet(r) \subseteq KeySet(next) /\ Agrees(r, next, i - 1)
  BY DEF Placed, Working
<1>2. CASE e.key \notin KeySet(r)
  <2>1. t = PlaceEntry(st, [entry |-> next[i], index |-> i])
    OBVIOUS
  <2> HIDE DEF t
  <2> QED
    BY <1>1, <1>2, <2>1, PlaceAbsent DEF Placed
<1>3. CASE e.key \in KeySet(r)
  <2>1. at \in 1..Len(r) /\ r[at].key = e.key /\ at # 0
    <3>1. PICK j \in 1..Len(r) : r[j].key = e.key
      BY <1>1, <1>3, WindowEntries
    <3>2. at = j
      BY <1>1, <3>1, IndexTells DEF Tells
    <3> QED
      BY <1>1, <3>1, <3>2, WindowEntries
  <2>2. t = Refreshed(u, e, i)
    BY <2>1 DEF PlaceEntry, Brought, Refreshed
  <2> HIDE DEF at
  <2>3. Underway(u, prev, next, i)
    BY <1>1, <2>1, PlaceMoved
  <2> HIDE DEF u, t
  <2>4. Placed(t, prev, next, i)
    BY <2>2, <2>3, PlaceUpdated
  <2> QED
    BY <2>4 DEF t
<1> QED
  BY <1>2, <1>3
-------------------------------------------------------------------------------
(* All ways. *)

\* The keys that are gone, each once.
LEMMA GoneIs ==
  ASSUME NEW prev, Window(prev), NEW next, NEW gone, gone = KeysOf(Without(prev, KeySet(next)))
  PROVE  /\ Len(gone) \in Nat /\ DOMAIN gone = 1..Len(gone)
         /\ \A m \in 1..Len(gone) : gone[m] \in KeySet(prev) \ KeySet(next)
         /\ \A i, j \in 1..Len(gone) : gone[i] = gone[j] => i = j
         /\ \A k \in KeySet(prev) \ KeySet(next) : \E m \in 1..Len(gone) : gone[m] = k
<1> DEFINE T == {i \in DOMAIN prev : prev[i].key \notin KeySet(next)}
           l == InOrder(T)
           w == Picked(prev, T)
<1>1. /\ Len(prev) \in Nat /\ DOMAIN prev = 1..Len(prev)
      /\ \A i \in 1..Len(prev) : prev[i].key \in Keys /\ prev[i].key \in KeySet(prev)
      /\ \A k \in KeySet(prev) : \E i \in 1..Len(prev) : prev[i].key = k
  BY WindowEntries
<1>2. T \in SUBSET (1..Len(prev)) /\ \A i \in T : prev[i].key \notin KeySet(next)
  BY <1>1
<1>3. gone = KeysOf(w)
  BY DEF Without
<1>4. \A i \in 1..Len(prev) : prev[i].key \notin KeySet(next) => i \in T
  BY <1>1
<1> HIDE DEF T, l
<1>5. Rises(l, T)
  BY <1>1, <1>2, InOrderRises DEF l
<1>6. /\ Window(w) /\ Len(w) = Len(l) /\ Len(l) \in Nat
      /\ \A i \in 1..Len(l) : l[i] \in T /\ w[i] = prev[l[i]]
  BY <1>2, <1>5, PickedIs
<1> HIDE DEF w
<1> DEFINE n == Len(l)
<1>7. /\ gone = [i \in 1..n |-> w[i].key] /\ \A i \in 1..n : w[i].key \in Keys
  <2>1. DOMAIN w = 1..n /\ \A i \in 1..n : w[i].key \in Keys
    BY <1>6, WindowEntries
  <2> QED
    BY <1>3, <2>1 DEF KeysOf
<1>8. Len(gone) = n /\ DOMAIN gone = 1..n
  <2>1. gone \in [1..n -> Keys]
    BY <1>7
  <2>2. gone \in Seq(Keys)
    BY <1>6, <2>1, SeqDef
  <2>3. DOMAIN gone = 1..n
    BY <1>7
  <2> QED
    BY <1>6, <2>2, <2>3, LenProperties
<1>9. \A m \in 1..n : gone[m] = w[m].key
  BY <1>7
<1> HIDE DEF n
<1>10. ASSUME NEW m \in 1..n PROVE gone[m] \in KeySet(prev) \ KeySet(next)
  <2>1. gone[m] = prev[l[m]].key /\ l[m] \in T
    BY <1>6, <1>9 DEF n
  <2>2. l[m] \in 1..Len(prev)
    BY <1>2, <2>1
  <2> QED
    BY <1>1, <1>2, <2>1, <2>2
<1>11. \A i, j \in 1..n : gone[i] = gone[j] => i = j
  BY <1>6, <1>9 DEF Window, n
<1>12. ASSUME NEW k \in KeySet(prev) \ KeySet(next) PROVE \E m \in 1..n : gone[m] = k
  <2>1. PICK i \in 1..Len(prev) : prev[i].key = k
    BY <1>1
  <2>2. PICK m \in 1..n : l[m] = i
    BY <1>4, <1>5, <2>1 DEF Rises, n
  <2>3. gone[m] = k
    BY <1>6, <1>9, <2>1, <2>2 DEF n
  <2> QED
    BY <2>3
<1> QED
  BY <1>6, <1>8, <1>10, <1>11, <1>12 DEF n

\* No operation leads nowhere.
LEMMA NothingLeads ==
  ASSUME NEW x
  PROVE  <<>> \in Seq(AnyOperation) /\ Leads(<<>>, x, x)
<1> DEFINE c == [m \in {0} |-> x]
<1>1. c[0] = x
  OBVIOUS
<1> HIDE DEF c
<1>2. Len(<<>>) = 0 /\ 1..0 = {}
  OBVIOUS
<1>3. Leads(<<>>, x, x)
  BY <1>1, <1>2 DEF Leads
<1> QED
  BY <1>3

\* What is gone is removed.
LEMMA KeptWorks ==
  ASSUME NEW prev, Window(prev), NEW next, NEW kept,
         kept = FoldLeft(Drop, [rows |-> prev, ops |-> <<>>, index |-> IndexOf(prev)],
                         KeysOf(Without(prev, KeySet(next))))
  PROVE  Working(kept, prev) /\ KeySet(kept.rows) \subseteq KeySet(next)
<1> DEFINE gone == KeysOf(Without(prev, KeySet(next)))
           base == [rows |-> prev, ops |-> <<>>, index |-> IndexOf(prev)]
           n == Len(gone)
<1>1. /\ n \in Nat /\ DOMAIN gone = 1..n
      /\ \A m \in 1..n : gone[m] \in KeySet(prev) \ KeySet(next)
      /\ \A i, j \in 1..n : gone[i] = gone[j] => i = j
      /\ \A k \in KeySet(prev) \ KeySet(next) : \E m \in 1..n : gone[m] = k
  BY GoneIs
<1>2. Working(base, prev) /\ base.rows = prev
  BY NothingLeads, WorkingIs
<1>3. kept = FoldLeft(Drop, base, gone)
  OBVIOUS
<1> HIDE DEF gone, base, n
<1>4. PICK c : Runs(c, Way("drop"), base, gone) /\ FoldLeft(Drop, base, gone) = c[n]
  BY <1>1, DropsFold DEF n
<1>5. c[0] = base /\ \A m \in 1..n : c[m] = Drop(c[m - 1], gone[m])
  BY <1>4 DEF Runs, Advance, Way, n
<1> DEFINE so(m) == {gone[j] : j \in 1..m}
           P == {m \in 0..n : Working(c[m], prev) /\ KeySet(c[m].rows) = KeySet(prev) \ so(m)}
<1>6. 0 \in P
  <2>1. 0 \in 0..n /\ so(0) = {}
    BY <1>1
  <2> QED
    BY <1>2, <1>5, <2>1
<1>7. ASSUME NEW m \in 1..n, m - 1 \in P PROVE m \in P
  <2>1. m \in 0..n /\ gone[m] \notin so(m - 1) /\ so(m) = so(m - 1) \union {gone[m]}
    <3>1. 1..m = (1..(m - 1)) \union {m} /\ m \in 0..n /\ \A j \in 1..(m - 1) : j \in 1..n /\ j # m
      BY <1>1
    <3> QED
      BY <1>1, <3>1
  <2> DEFINE st == c[m - 1]
             k == gone[m]
  <2>2. Working(st, prev) /\ KeySet(st.rows) = KeySet(prev) \ so(m - 1)
    BY <1>7
  <2>3. k \in KeySet(st.rows)
    BY <1>1, <2>1, <2>2
  <2>4. c[m] = Drop(st, k)
    BY <1>5
  <2> HIDE DEF st, k
  <2>5. Working(Drop(st, k), prev) /\ KeySet(Drop(st, k).rows) = KeySet(st.rows) \ {k}
    BY <2>2, <2>3, DropWorks
  <2>6. KeySet(c[m].rows) = KeySet(prev) \ so(m)
    BY <2>1, <2>2, <2>4, <2>5 DEF k
  <2> QED
    BY <2>1, <2>4, <2>5, <2>6
<1>8. n \in P
  <2>1. n \in 0..n
    BY <1>1
  <2> HIDE DEF P
  <2>2. \A m \in 0..n : m \in P
    BY <1>1, <1>6, <1>7, CountUp
  <2> QED
    BY <2>1, <2>2
<1>9. Working(kept, prev) /\ KeySet(kept.rows) = KeySet(prev) \ so(n)
  BY <1>3, <1>4, <1>8
<1>10. KeySet(prev) \ so(n) \subseteq KeySet(next)
  BY <1>1
<1> QED
  BY <1>9, <1>10

\* What comes next is placed.
LEMMA GeneralLeads ==
  ASSUME NEW prev, Window(prev), NEW next, Window(next)
  PROVE  General(prev, next) \in Seq(AnyOperation) /\ Leads(General(prev, next), Copy(prev), Copy(next))
<1> DEFINE kept == FoldLeft(Drop, [rows |-> prev, ops |-> <<>>, index |-> IndexOf(prev)],
                            KeysOf(Without(prev, KeySet(next))))
           puts == [i \in DOMAIN next |-> [entry |-> next[i], index |-> i]]
           n == Len(next)
<1>1. Working(kept, prev) /\ KeySet(kept.rows) \subseteq KeySet(next)
  BY KeptWorks
<1>2. General(prev, next) = FoldLeft(PlaceEntry, kept, puts).ops
  BY DEF General
<1>3. n \in Nat /\ DOMAIN next = 1..n
  BY WindowEntries
<1>4. puts = [i \in 1..n |-> [entry |-> next[i], index |-> i]]
  BY <1>3
<1> HIDE DEF kept, n, puts
<1>5. Len(puts) = n /\ DOMAIN puts = 1..n
  <2> DEFINE E == {puts[i] : i \in 1..n}
  <2>1. puts \in [1..n -> E] /\ DOMAIN puts = 1..n
    BY <1>4
  <2> HIDE DEF E
  <2>2. puts \in Seq(E)
    BY <1>3, <2>1, SeqDef
  <2> QED
    BY <1>3, <2>1, <2>2, LenProperties
<1>6. PICK c : Runs(c, Way("place"), kept, puts) /\ FoldLeft(PlaceEntry, kept, puts) = c[n]
  <2>1. Len(puts) \in Nat /\ DOMAIN puts = 1..Len(puts)
    BY <1>3, <1>5
  <2> QED
    BY <1>5, <2>1, PlacementsFold
<1>7. c[0] = kept /\ \A m \in 1..n : c[m] = PlaceEntry(c[m - 1], puts[m])
  BY <1>5, <1>6 DEF Runs, Advance, Way
<1> DEFINE P == {m \in 0..n : Placed(c[m], prev, next, m)}
<1>8. 0 \in P
  <2>1. 0 \in 0..n /\ Len(kept.rows) \in Nat
    BY <1>1, <1>3, WindowEntries DEF Working
  <2>2. Agrees(kept.rows, next, 0)
    BY <2>1 DEF Agrees
  <2> QED
    BY <1>1, <1>7, <2>1, <2>2 DEF Placed
<1>9. ASSUME NEW m \in 1..n, m - 1 \in P PROVE m \in P
  <2>1. Placed(c[m - 1], prev, next, m - 1)
    BY <1>9
  <2>2. c[m] = PlaceEntry(c[m - 1], [entry |-> next[m], index |-> m])
    BY <1>4, <1>7
  <2>3. m \in 1..Len(next) /\ m \in 0..n
    BY <1>3 DEF n
  <2>4. Placed(PlaceEntry(c[m - 1], [entry |-> next[m], index |-> m]), prev, next, m)
    BY <2>1, <2>3, PlaceWorks
  <2> QED
    BY <2>2, <2>3, <2>4
<1>10. n \in P
  <2>1. n \in 0..n
    BY <1>3
  <2> HIDE DEF P
  <2>2. \A m \in 0..n : m \in P
    BY <1>3, <1>8, <1>9, CountUp
  <2> QED
    BY <2>1, <2>2
<1> DEFINE st == c[n]
           r == st.rows
<1>11. Working(st, prev) /\ KeySet(r) \subseteq KeySet(next) /\ Agrees(r, next, n) /\ Window(r)
  BY <1>10 DEF Placed, Working
<1> HIDE DEF st, P
<1>12. r = next
  <2>1. /\ Len(r) \in Nat /\ n <= Len(r) /\ \A j \in 1..n : r[j] = next[j]
        /\ r \in Seq(Entries) /\ next \in Seq(Entries)
        /\ \A i \in 1..Len(r) : r[i].key \in KeySet(r)
        /\ \A k \in KeySet(next) : \E j \in 1..n : next[j].key = k
    BY <1>11, WindowEntries DEF Agrees, Window, n
  <2>2. ~(n < Len(r))
    <3>1. SUFFICES ASSUME n < Len(r) PROVE FALSE
      OBVIOUS
    <3>2. n + 1 \in 1..Len(r)
      BY <1>3, <2>1, <3>1
    <3>3. PICK j \in 1..n : next[j].key = r[n + 1].key
      BY <1>11, <2>1, <3>2
    <3>4. r[j].key = r[n + 1].key /\ j \in 1..Len(r) /\ j # n + 1
      BY <1>3, <2>1, <3>3
    <3> QED
      BY <1>11, <3>2, <3>4 DEF Window
  <2>3. Len(r) = n
    BY <1>3, <2>1, <2>2
  <2> HIDE DEF r
  <2> QED
    BY <2>1, <2>3, SeqEqual DEF n
<1>13. General(prev, next) = st.ops
  BY <1>2, <1>6 DEF st
<1> QED
  BY <1>11, <1>12, <1>13 DEF Working

\* Whichever way the operations are computed, they lead from one result to the next.
LEMMA OperationsLead ==
  ASSUME NEW prev, Window(prev), NEW next, Window(next)
  PROVE  /\ Operations(prev, next) \in Seq(AnyOperation)
         /\ Leads(Operations(prev, next), Copy(prev), Copy(next))
<1> DEFINE ops == Operations(prev, next)
<1>1. CASE SingleMove(prev, next) # {}
  <2>1. ops \in SingleMove(prev, next)
    BY <1>1 DEF Operations
  <2> QED
    BY <2>1, SingleMoveLeads
<1>2. CASE SingleMove(prev, next) = {} /\ Replacement(prev, next) # {}
  <2>1. ops \in Replacement(prev, next)
    BY <1>2 DEF Operations
  <2> QED
    BY <2>1, ReplacementLeads
<1>3. CASE SingleMove(prev, next) = {} /\ Replacement(prev, next) = {}
  <2>1. ops = General(prev, next)
    BY <1>3 DEF Operations
  <2> QED
    BY <2>1, GeneralLeads
<1> QED
  BY <1>1, <1>2, <1>3

\* The client's fold goes where the operations lead.
LEMMA ReplayLeads ==
  ASSUME NEW ops \in Seq(AnyOperation), NEW x, NEW y, Leads(ops, x, y)
  PROVE  FoldLeft(ApplyOperation, x, ops) = y
<1> DEFINE n == Len(ops)
<1>1. n \in Nat /\ DOMAIN ops = 1..n
  BY LenProperties
<1>2. PICK d : Runs(d, Way("apply"), x, ops) /\ FoldLeft(ApplyOperation, x, ops) = d[n]
  BY <1>1, OperationsFold
<1>3. d[0] = x /\ \A m \in 1..n : d[m] = ApplyOperation(d[m - 1], ops[m])
  BY <1>2 DEF Runs, Advance, Way
<1>4. PICK c : /\ c[0] = x /\ c[n] = y
               /\ \A m \in 1..n : c[m] = ApplyOperation(c[m - 1], ops[m])
  BY DEF Leads
<1> HIDE DEF n
<1> DEFINE P == {m \in 0..n : c[m] = d[m]}
<1>5. 0 \in P
  BY <1>1, <1>3, <1>4
<1>6. ASSUME NEW m \in 1..n, m - 1 \in P PROVE m \in P
  BY <1>1, <1>3, <1>4, <1>6
<1>7. n \in P
  <2>1. n \in 0..n
    BY <1>1
  <2> HIDE DEF P
  <2>2. \A m \in 0..n : m \in P
    BY <1>1, <1>5, <1>6, CountUp
  <2> QED
    BY <2>1, <2>2
<1> QED
  BY <1>2, <1>4, <1>7
-------------------------------------------------------------------------------
(* The client holds what the subscription has been sent. *)

\* A result is a window, of which no more rows are counted than there are.
DeltaInv == shown \in Evaluations /\ DeltaReplays

LEMMA EvaluationIs ==
  ASSUME NEW e \in Evaluations
  PROVE  Window(e.window) /\ e.total \in Nat /\ e.total >= Len(e.window)
         /\ e = [window |-> e.window, total |-> e.total]
<1>1. /\ e.window \in Results /\ e.total \in 0..(MaxWindow + MaxHidden)
      /\ e.total = Len(e.window) \/ (e.total > MaxWindow /\ Len(e.window) = MaxWindow)
      /\ e = [window |-> e.window, total |-> e.total]
  BY DEF Evaluations
<1>2. MaxWindow \in Nat /\ MaxHidden \in Nat
  BY BoundAssumption
<1> DEFINE s == e.window
<1>3. s \in Seq(Entries) /\ DOMAIN s = 1..Len(s) /\ Len(s) \in Nat
  <2>1. PICK m \in 0..MaxWindow : s \in [1..m -> Entries]
    BY <1>1 DEF Results, SeqOf
  <2>2. s \in Seq(Entries)
    BY <2>1, SeqDef
  <2> QED
    BY <2>2, LenProperties
<1>4. \A i, j \in DOMAIN s : s[i].key = s[j].key => i = j
  BY <1>1 DEF Results
<1>5. Window(s)
  BY <1>3, <1>4 DEF Window
<1> QED
  BY <1>1, <1>2, <1>3, <1>5

LEMMA DeltaStep ==
  ASSUME DeltaInv, NEW next \in Evaluations, Notify(next)
  PROVE  DeltaInv'
<1> DEFINE prev == shown.window
           ops == Operations(prev, next.window)
<1>1. Window(prev) /\ client = [window |-> prev, total |-> shown.total, ready |-> TRUE]
  BY EvaluationIs DEF DeltaInv, DeltaReplays
<1>2. Window(next.window) /\ next.total >= Len(next.window)
  BY EvaluationIs
<1>3. ops \in Seq(AnyOperation) /\ Leads(ops, Copy(prev), Copy(next.window))
  BY <1>1, <1>2, OperationsLead
<1>4. shown' = next /\ client' = ApplyDelta(client, ops, next.total)
  BY DEF Notify
<1> HIDE DEF ops
<1>5. FoldLeft(ApplyOperation, Copy(prev), ops) = Copy(next.window)
  BY <1>3, ReplayLeads
<1> HIDE DEF prev
<1>6. client.ready /\ client.window = prev
  BY <1>1
<1>7. FoldLeft(ApplyOperation, [ok |-> TRUE, rows |-> client.window, index |-> IndexOf(client.window)], ops)
        = Copy(next.window)
  BY <1>5, <1>6 DEF Copy
<1>8. Copy(next.window).ok /\ Copy(next.window).rows = next.window
  BY DEF Copy
<1>9. client' = [window |-> next.window, total |-> next.total, ready |-> TRUE]
  <2> HIDE DEF Copy
  <2> QED
    BY <1>2, <1>4, <1>6, <1>7, <1>8 DEF ApplyDelta
<1> QED
  BY <1>4, <1>9 DEF DeltaInv, DeltaReplays

LEMMA DeltaInductive == Spec => []DeltaInv
<1>1. Init => DeltaInv
  BY DEF Init, DeltaInv, DeltaReplays
<1>2. DeltaInv /\ [Next]_vars => DeltaInv'
  <2>1. SUFFICES ASSUME DeltaInv, [Next]_vars PROVE DeltaInv'
    OBVIOUS
  <2>2. CASE Next
    BY <2>1, <2>2, DeltaStep DEF Next
  <2>3. CASE UNCHANGED vars
    BY <2>1, <2>3 DEF vars, DeltaInv, DeltaReplays
  <2> QED
    BY <2>1, <2>2, <2>3
<1> QED
  BY <1>1, <1>2, PTL DEF Spec

\* Whatever the results, and however they follow each other, the client ends up with the
\* latest and refuses nothing (query-result.ts deltaOperations, live-query-state.ts applyDelta).
THEOREM Replays == Spec => []DeltaReplays
<1>1. DeltaInv => DeltaReplays
  BY DEF DeltaInv
<1> QED
  BY <1>1, DeltaInductive, PTL
-------------------------------------------------------------------------------
(* What a delta says is new, and said once. *)

\* Operations that carry a row, and the keys of those and of the others.
Bears(op) == op.type \in {"insert", "update"}
SentKeys(ops)  == {ops[m].key : m \in {i \in 1..Len(ops) : Bears(ops[i])}}
OtherKeys(ops) == {ops[m].key : m \in {i \in 1..Len(ops) : ~Bears(ops[i])}}

\* Entry e is not one of prev's.
News(e, prev) == \A i \in 1..Len(prev) : prev[i] # e

\* Economical, for sequences.
Thrifty(prev, ops) ==
  /\ \A i \in 1..Len(ops) : Bears(ops[i]) => News([key |-> ops[i].key, row |-> ops[i].row], prev)
  /\ \A i, j \in 1..Len(ops) : ops[i].key = ops[j].key /\ (Bears(ops[i]) <=> Bears(ops[j])) => i = j

LEMMA ThriftyIs ==
  ASSUME NEW prev, Window(prev), NEW ops \in Seq(AnyOperation), Thrifty(prev, ops)
  PROVE  Economical(prev, ops)
<1>1. DOMAIN ops = 1..Len(ops) /\ DOMAIN prev = 1..Len(prev)
  BY LenProperties, WindowEntries
<1>2. ASSUME NEW e, News(e, prev) PROVE e \notin ToSet(prev)
  BY <1>1, <1>2 DEF News, ToSet
<1> QED
  BY <1>1, <1>2 DEF Thrifty, Economical, Bears

LEMMA OperationsAre ==
  /\ \A k : ~Bears(RemoveOp(k)) /\ RemoveOp(k).key = k
  /\ \A k, i, j : ~Bears(MoveOp(k, i, j)) /\ MoveOp(k, i, j).key = k
  /\ \A e \in Entries : \A i :
       /\ Bears(InsertOp(e, i)) /\ InsertOp(e, i).key = e.key
       /\ [key |-> InsertOp(e, i).key, row |-> InsertOp(e, i).row] = e
       /\ Bears(UpdateOp(e, i)) /\ UpdateOp(e, i).key = e.key
       /\ [key |-> UpdateOp(e, i).key, row |-> UpdateOp(e, i).row] = e
  BY DEF Bears, RemoveOp, MoveOp, InsertOp, UpdateOp, Entries

\* One more operation that carries a row.
LEMMA SendMore ==
  ASSUME NEW prev, NEW ops \in Seq(AnyOperation), Thrifty(prev, ops), NEW op \in AnyOperation,
         Bears(op), News([key |-> op.key, row |-> op.row], prev), op.key \notin SentKeys(ops)
  PROVE  /\ Thrifty(prev, Append(ops, op)) /\ SentKeys(Append(ops, op)) = SentKeys(ops) \union {op.key}
         /\ OtherKeys(Append(ops, op)) = OtherKeys(ops)
<1> DEFINE n == Len(ops)
           next == Append(ops, op)
<1>1. n \in Nat /\ Len(next) = n + 1 /\ next[n + 1] = op /\ \A i \in 1..n : next[i] = ops[i]
  BY LenProperties, AppendProperties
<1>2. 1..(n + 1) = (1..n) \union {n + 1}
  BY <1>1
<1> HIDE DEF n, next
<1>3. Thrifty(prev, next)
  <2>1. ASSUME NEW i \in 1..n PROVE Bears(op) <=> Bears(ops[i]) => op.key # ops[i].key
    BY DEF SentKeys, n
  <2>2. ASSUME NEW i \in 1..(n + 1), Bears(next[i])
        PROVE  News([key |-> next[i].key, row |-> next[i].row], prev)
    BY <1>1, <1>2, <2>2 DEF Thrifty, n
  <2>3. ASSUME NEW i \in 1..(n + 1), NEW j \in 1..(n + 1),
               next[i].key = next[j].key, Bears(next[i]) <=> Bears(next[j])
        PROVE  i = j
    <3>1. CASE i \in 1..n /\ j \in 1..n
      BY <1>1, <2>3, <3>1 DEF Thrifty, n
    <3>2. CASE i = n + 1 /\ j \in 1..n
      BY <1>1, <2>1, <2>3, <3>2
    <3>3. CASE j = n + 1 /\ i \in 1..n
      BY <1>1, <2>1, <2>3, <3>3
    <3> QED
      BY <1>2, <3>1, <3>2, <3>3
  <2> QED
    BY <1>1, <2>2, <2>3 DEF Thrifty
<1>4. SentKeys(next) = SentKeys(ops) \union {op.key}
  BY <1>1, <1>2 DEF SentKeys, n
<1>5. OtherKeys(next) = OtherKeys(ops)
  BY <1>1, <1>2 DEF OtherKeys, n
<1> QED
  BY <1>3, <1>4, <1>5 DEF next

\* One more that does not.
LEMMA TellMore ==
  ASSUME NEW prev, NEW ops \in Seq(AnyOperation), Thrifty(prev, ops), NEW op \in AnyOperation,
         ~Bears(op), op.key \notin OtherKeys(ops)
  PROVE  /\ Thrifty(prev, Append(ops, op)) /\ OtherKeys(Append(ops, op)) = OtherKeys(ops) \union {op.key}
         /\ SentKeys(Append(ops, op)) = SentKeys(ops)
<1> DEFINE n == Len(ops)
           next == Append(ops, op)
<1>1. n \in Nat /\ Len(next) = n + 1 /\ next[n + 1] = op /\ \A i \in 1..n : next[i] = ops[i]
  BY LenProperties, AppendProperties
<1>2. 1..(n + 1) = (1..n) \union {n + 1}
  BY <1>1
<1> HIDE DEF n, next
<1>3. Thrifty(prev, next)
  <2>1. ASSUME NEW i \in 1..n PROVE Bears(op) <=> Bears(ops[i]) => op.key # ops[i].key
    BY DEF OtherKeys, n
  <2>2. ASSUME NEW i \in 1..(n + 1), Bears(next[i])
        PROVE  News([key |-> next[i].key, row |-> next[i].row], prev)
    BY <1>1, <1>2, <2>2 DEF Thrifty, n
  <2>3. ASSUME NEW i \in 1..(n + 1), NEW j \in 1..(n + 1),
               next[i].key = next[j].key, Bears(next[i]) <=> Bears(next[j])
        PROVE  i = j
    <3>1. CASE i \in 1..n /\ j \in 1..n
      BY <1>1, <2>3, <3>1 DEF Thrifty, n
    <3>2. CASE i = n + 1 /\ j \in 1..n
      BY <1>1, <2>1, <2>3, <3>2
    <3>3. CASE j = n + 1 /\ i \in 1..n
      BY <1>1, <2>1, <2>3, <3>3
    <3> QED
      BY <1>2, <3>1, <3>2, <3>3
  <2> QED
    BY <1>1, <2>2, <2>3 DEF Thrifty
<1>4. SentKeys(next) = SentKeys(ops)
  BY <1>1, <1>2 DEF SentKeys, n
<1>5. OtherKeys(next) = OtherKeys(ops) \union {op.key}
  BY <1>1, <1>2 DEF OtherKeys, n
<1> QED
  BY <1>3, <1>4, <1>5 DEF next

\* Some after others, that have no keys in common.
LEMMA ThriftyThen ==
  ASSUME NEW prev, NEW a \in Seq(AnyOperation), Thrifty(prev, a), NEW b \in Seq(AnyOperation),
         Thrifty(prev, b), \A i \in 1..Len(a) : ~Bears(a[i]), \A i \in 1..Len(b) : Bears(b[i])
  PROVE  Thrifty(prev, a \o b)
<1> DEFINE ops == a \o b
           n == Len(a)
           k == Len(b)
<1>1. /\ n \in Nat /\ k \in Nat /\ Len(ops) = n + k
      /\ \A m \in 1..(n + k) : ops[m] = IF m <= n THEN a[m] ELSE b[m - n]
  BY LenProperties, ConcatProperties
<1> HIDE DEF ops
<1>2. ASSUME NEW m \in 1..(n + k)
      PROVE  \/ m \in 1..n /\ ops[m] = a[m] /\ ~Bears(ops[m])
             \/ m - n \in 1..k /\ ops[m] = b[m - n] /\ Bears(ops[m])
  <2>1. CASE m <= n
    BY <1>1, <2>1
  <2>2. CASE ~(m <= n)
    <3>1. m - n \in 1..k /\ ops[m] = b[m - n]
      BY <1>1, <2>2
    <3> QED
      BY <3>1
  <2> QED
    BY <2>1, <2>2
<1>3. ASSUME NEW m \in 1..(n + k), Bears(ops[m])
      PROVE  News([key |-> ops[m].key, row |-> ops[m].row], prev)
  <2>1. m - n \in 1..k /\ ops[m] = b[m - n]
    BY <1>2, <1>3
  <2> QED
    BY <1>3, <2>1 DEF Thrifty
<1>4. ASSUME NEW i \in 1..(n + k), NEW j \in 1..(n + k),
             ops[i].key = ops[j].key, Bears(ops[i]) <=> Bears(ops[j])
      PROVE  i = j
  <2>1. CASE Bears(ops[i])
    <3>1. i - n \in 1..k /\ ops[i] = b[i - n] /\ j - n \in 1..k /\ ops[j] = b[j - n]
      BY <1>2, <1>4, <2>1
    <3>2. i - n = j - n
      BY <1>4, <3>1 DEF Thrifty
    <3> QED
      BY <1>1, <3>2
  <2>2. CASE ~Bears(ops[i])
    <3>1. i \in 1..n /\ ops[i] = a[i] /\ j \in 1..n /\ ops[j] = a[j]
      BY <1>2, <1>4, <2>2
    <3> QED
      BY <1>4, <3>1 DEF Thrifty
  <2> QED
    BY <2>1, <2>2
<1>5. Thrifty(prev, ops)
  BY <1>1, <1>3, <1>4 DEF Thrifty
<1> QED
  BY <1>5 DEF ops
-------------------------------------------------------------------------------
\* If it carries a row, then one that prev has not got.
SentIsNews(op, prev) == Bears(op) => News([key |-> op.key, row |-> op.row], prev)

\* Operations on different entries of a window, in order.
LEMMA ListedThrifty ==
  ASSUME NEW prev, NEW s, Window(s), NEW T \in SUBSET (1..Len(s)), NEW ops \in Seq(AnyOperation),
         NEW l, Rises(l, T), Len(ops) = Len(l), \A m \in 1..Len(l) : ops[m].key = s[l[m]].key,
         \A m \in 1..Len(l) : SentIsNews(ops[m], prev)
  PROVE  Thrifty(prev, ops)
<1>1. l \in Seq(T) /\ Len(l) \in Nat /\ \A m \in 1..Len(l) : l[m] \in T
  BY LenProperties, ElementOfSeq DEF Rises
<1>2. ASSUME NEW i \in 1..Len(l), NEW j \in 1..Len(l), ops[i].key = ops[j].key PROVE i = j
  <2>1. s[l[i]].key = s[l[j]].key
    BY <1>2
  <2>2. l[i] = l[j]
    BY <1>1, <2>1 DEF Window
  <2>3. l[i] \in Nat /\ i \in Nat /\ j \in Nat
    <3>1. Len(s) \in Nat /\ l[i] \in 1..Len(s)
      BY <1>1, WindowEntries
    <3> QED
      BY <1>1, <3>1
  <2> QED
    BY <1>1, <2>2, <2>3 DEF Rises
<1> QED
  BY <1>2 DEF Thrifty, SentIsNews

LEMMA RemovalsThrifty ==
  ASSUME NEW prev, NEW s, Window(s), NEW T \in SUBSET (1..Len(s))
  PROVE  Thrifty(prev, Removals(s, T)) /\ \A m \in 1..Len(Removals(s, T)) : ~Bears(Removals(s, T)[m])
<1> DEFINE l == InOrder(T)
           n == Len(l)
           ops == Removals(s, T)
<1>1. Len(s) \in Nat
  BY WindowEntries
<1>2. Rises(l, T) /\ n \in Nat /\ DOMAIN l = 1..n
  BY <1>1, InOrderRises
<1>3. ops = [m \in 1..n |-> RemoveOp(s[l[m]].key)] /\ ops \in Seq(AnyOperation)
  BY <1>2, RemovalsLead DEF Removals
<1> HIDE DEF l, ops
<1>4. Len(ops) = n
  BY <1>2, <1>3, LenProperties
<1>5. \A m \in 1..n : ~Bears(ops[m]) /\ ops[m].key = s[l[m]].key /\ SentIsNews(ops[m], prev)
  BY <1>3, OperationsAre DEF SentIsNews
<1>6. Thrifty(prev, ops)
  <2>1. ops \in Seq(AnyOperation) /\ Rises(l, T) /\ Len(ops) = Len(l)
    BY <1>2, <1>3, <1>4
  <2>2. /\ \A m \in 1..Len(l) : ops[m].key = s[l[m]].key
        /\ \A m \in 1..Len(l) : SentIsNews(ops[m], prev)
    BY <1>5
  <2> QED
    BY <2>1, <2>2, ListedThrifty
<1> QED
  BY <1>4, <1>5, <1>6 DEF ops

LEMMA InsertionsThrifty ==
  ASSUME NEW prev, NEW s, Window(s), NEW T \in SUBSET (1..Len(s)), \A i \in T : News(s[i], prev)
  PROVE  Thrifty(prev, Insertions(s, T)) /\ \A m \in 1..Len(Insertions(s, T)) : Bears(Insertions(s, T)[m])
<1> DEFINE l == InOrder(T)
           n == Len(l)
           ops == Insertions(s, T)
<1>1. Len(s) \in Nat /\ \A i \in 1..Len(s) : s[i] \in Entries
  BY WindowEntries
<1>2. Rises(l, T) /\ n \in Nat /\ DOMAIN l = 1..n
  BY <1>1, InOrderRises
<1>3. ops = [m \in 1..n |-> InsertOp(s[l[m]], l[m])] /\ ops \in Seq(AnyOperation)
  BY <1>2, InsertionsLead DEF Insertions
<1>4. \A m \in 1..n : l[m] \in T /\ s[l[m]] \in Entries
  BY <1>1, <1>2, LenProperties, ElementOfSeq DEF Rises
<1> HIDE DEF l, ops
<1>5. Len(ops) = n
  BY <1>2, <1>3, LenProperties
<1>6. ASSUME NEW m \in 1..n
      PROVE  /\ Bears(ops[m]) /\ ops[m].key = s[l[m]].key
             /\ SentIsNews(ops[m], prev)
  <2> DEFINE e == s[l[m]]
  <2>1. ops[m] = InsertOp(e, l[m]) /\ e \in Entries /\ News(e, prev)
    BY <1>3, <1>4
  <2> HIDE DEF e
  <2>2. /\ Bears(ops[m]) /\ ops[m].key = e.key
        /\ [key |-> ops[m].key, row |-> ops[m].row] = e
    BY <2>1, OperationsAre
  <2>3. SentIsNews(ops[m], prev)
    BY <2>1, <2>2 DEF SentIsNews
  <2> QED
    BY <2>2, <2>3 DEF e
<1>7. Thrifty(prev, ops)
  <2>1. ops \in Seq(AnyOperation) /\ Rises(l, T) /\ Len(ops) = Len(l)
    BY <1>2, <1>3, <1>5
  <2>2. /\ \A m \in 1..Len(l) : ops[m].key = s[l[m]].key
        /\ \A m \in 1..Len(l) : SentIsNews(ops[m], prev)
    BY <1>6
  <2> QED
    BY <2>1, <2>2, ListedThrifty
<1> QED
  BY <1>5, <1>6, <1>7 DEF ops

LEMMA UpdatesThrifty ==
  ASSUME NEW prev, NEW s, Window(s), NEW T \in SUBSET (1..Len(s)), Updates(s, T) \in Seq(AnyOperation),
         \A i \in T : News(s[i], prev)
  PROVE  Thrifty(prev, Updates(s, T)) /\ \A m \in 1..Len(Updates(s, T)) : Bears(Updates(s, T)[m])
<1> DEFINE l == InOrder(T)
           n == Len(l)
           ops == Updates(s, T)
<1>1. Len(s) \in Nat /\ \A i \in 1..Len(s) : s[i] \in Entries
  BY WindowEntries
<1>2. Rises(l, T) /\ n \in Nat /\ DOMAIN l = 1..n
  BY <1>1, InOrderRises
<1>3. ops = [m \in 1..n |-> UpdateOp(s[l[m]], l[m])] /\ ops \in Seq(AnyOperation)
  BY <1>2 DEF Updates
<1>4. \A m \in 1..n : l[m] \in T /\ s[l[m]] \in Entries
  BY <1>1, <1>2, LenProperties, ElementOfSeq DEF Rises
<1> HIDE DEF l, ops
<1>5. Len(ops) = n
  BY <1>2, <1>3, LenProperties
<1>6. ASSUME NEW m \in 1..n
      PROVE  /\ Bears(ops[m]) /\ ops[m].key = s[l[m]].key
             /\ SentIsNews(ops[m], prev)
  <2> DEFINE e == s[l[m]]
  <2>1. ops[m] = UpdateOp(e, l[m]) /\ e \in Entries /\ News(e, prev)
    BY <1>3, <1>4
  <2> HIDE DEF e
  <2>2. /\ Bears(ops[m]) /\ ops[m].key = e.key
        /\ [key |-> ops[m].key, row |-> ops[m].row] = e
    BY <2>1, OperationsAre
  <2>3. SentIsNews(ops[m], prev)
    BY <2>1, <2>2 DEF SentIsNews
  <2> QED
    BY <2>2, <2>3 DEF e
<1>7. Thrifty(prev, ops)
  <2>1. ops \in Seq(AnyOperation) /\ Rises(l, T) /\ Len(ops) = Len(l)
    BY <1>2, <1>3, <1>5
  <2>2. /\ \A m \in 1..Len(l) : ops[m].key = s[l[m]].key
        /\ \A m \in 1..Len(l) : SentIsNews(ops[m], prev)
    BY <1>6
  <2> QED
    BY <2>1, <2>2, ListedThrifty
<1> QED
  BY <1>5, <1>6, <1>7 DEF ops

LEMMA AlongThrifty ==
  ASSUME NEW prev, Window(prev), NEW next, Window(next), Len(next) = Len(prev),
         NEW from \in 1..Len(prev), NEW to \in 1..Len(prev),
         KeysOf(Moved(prev, from, to)) = KeysOf(next),
         NEW ops, ops = <<MoveOp(prev[from].key, from, to)>> \o UpdatesAfter(prev, next, from, to)
  PROVE  Thrifty(prev, ops)
<1> DEFINE t == Moved(prev, from, to)
           T == {i \in DOMAIN next : t[i].row # next[i].row}
           op == MoveOp(prev[from].key, from, to)
<1>1. /\ Len(prev) \in Nat /\ prev[from].key \in Keys /\ from \in Nat /\ to \in Nat
  BY WindowEntries
<1>2. Window(t) /\ Len(t) = Len(prev) /\ \A j \in 1..Len(prev) : t[j] = prev[From(from, to, j)]
  BY MovedWindow
<1>3. UpdatesAfter(prev, next, from, to) = Updates(next, T)
  BY DEF UpdatesAfter
<1>4. op \in AnyOperation /\ ~Bears(op)
  BY <1>1, OperationsAre DEF AnyOperation
<1> HIDE DEF t, op
<1>5. \A i \in 1..Len(t) : next[i].key = t[i].key
  <2>1. DOMAIN t = 1..Len(t) /\ DOMAIN next = 1..Len(t)
    BY <1>2, WindowEntries
  <2>2. KeysOf(t) = KeysOf(next)
    BY DEF t
  <2>3. \A i \in 1..Len(t) : KeysOf(t)[i] = t[i].key /\ KeysOf(next)[i] = next[i].key
    BY <2>1 DEF KeysOf
  <2> QED
    BY <2>2, <2>3
<1>6. T = {i \in DOMAIN next : t[i].row # next[i].row}
  OBVIOUS
<1>7. T \in SUBSET (1..Len(next)) /\ \A i \in T : t[i].row # next[i].row
  BY WindowEntries
<1> HIDE DEF T
<1>8. Len(next) = Len(t)
  BY <1>2
<1>9. Updates(next, T) \in Seq(AnyOperation)
  BY <1>2, <1>5, <1>6, <1>8, UpdatesLead
<1>10. ASSUME NEW i \in T PROVE News(next[i], prev)
  <2>1. SUFFICES ASSUME NEW q \in 1..Len(prev), prev[q] = next[i] PROVE FALSE
    BY DEF News
  <2>2. i \in 1..Len(prev) /\ i \in 1..Len(t)
    BY <1>2, <1>7
  <2>3. From(from, to, i) \in 1..Len(prev)
    BY <1>1, <2>2 DEF From
  <2>4. prev[q].key = prev[From(from, to, i)].key
    BY <1>2, <1>5, <2>1, <2>2
  <2>5. q = From(from, to, i)
    BY <2>3, <2>4 DEF Window
  <2> QED
    BY <1>2, <1>7, <2>1, <2>2, <2>5
<1>11. Thrifty(prev, Updates(next, T)) /\ \A m \in 1..Len(Updates(next, T)) : Bears(Updates(next, T)[m])
  BY <1>7, <1>9, <1>10, UpdatesThrifty
<1>12. /\ <<op>> \in Seq(AnyOperation) /\ Thrifty(prev, <<op>>)
       /\ \A m \in 1..Len(<<op>>) : ~Bears(<<op>>[m])
  <2>1. <<op>> \in Seq(AnyOperation) /\ Len(<<op>>) = 1 /\ <<op>>[1] = op
    BY <1>4
  <2>2. \A m \in 1..1 : m = 1
    OBVIOUS
  <2> QED
    BY <1>4, <2>1, <2>2 DEF Thrifty
<1>13. ops = <<op>> \o Updates(next, T)
  BY <1>3 DEF op
<1> QED
  BY <1>9, <1>11, <1>12, <1>13, ThriftyThen

LEMMA SingleMoveThrifty ==
  ASSUME NEW prev, Window(prev), NEW next, Window(next), NEW ops \in SingleMove(prev, next)
  PROVE  Thrifty(prev, ops)
<1> DEFINE changed == {i \in DOMAIN prev : prev[i].key # next[i].key}
           first   == Min(changed)
           last    == Max(changed)
           down    == KeysOf(Moved(prev, first, last)) = KeysOf(next)
           up      == KeysOf(Moved(prev, last, first)) = KeysOf(next)
           along(from, to) == <<MoveOp(prev[from].key, from, to)>> \o UpdatesAfter(prev, next, from, to)
<1>1. Len(prev) = Len(next) /\ KeysOf(prev) # KeysOf(next) /\ (down \/ up)
  BY DEF SingleMove
<1>2. (up /\ ops = along(last, first)) \/ (down /\ ops = along(first, last))
  BY <1>1 DEF SingleMove
<1>3. first \in 1..Len(prev) /\ last \in 1..Len(prev)
  BY <1>1, ChangedEnds
<1> HIDE DEF changed, first, last
<1>4. CASE up /\ ops = along(last, first)
  BY <1>1, <1>3, <1>4, AlongThrifty
<1>5. CASE down /\ ops = along(first, last)
  BY <1>1, <1>3, <1>5, AlongThrifty
<1> QED
  BY <1>2, <1>4, <1>5

LEMMA ReplacementThrifty ==
  ASSUME NEW prev, Window(prev), NEW next, Window(next), NEW ops \in Replacement(prev, next)
  PROVE  Thrifty(prev, ops)
<1> DEFINE removed  == KeySet(prev) \ KeySet(next)
           inserted == KeySet(next) \ KeySet(prev)
           R == {i \in DOMAIN prev : prev[i].key \in removed}
           I == {i \in DOMAIN next : next[i].key \in inserted}
           a == Removals(prev, R)
           b == Insertions(next, I)
<1>1. ops = a \o b
  BY DEF Replacement
<1>2. R \in SUBSET (1..Len(prev)) /\ I \in SUBSET (1..Len(next))
  BY WindowEntries
<1>3. ASSUME NEW i \in I PROVE News(next[i], prev)
  <2>1. \A q \in 1..Len(prev) : prev[q].key \in KeySet(prev)
    BY WindowEntries
  <2>2. next[i].key \notin KeySet(prev)
    OBVIOUS
  <2> QED
    BY <2>1, <2>2 DEF News
<1> HIDE DEF R, I
<1>4. a \in Seq(AnyOperation) /\ b \in Seq(AnyOperation)
  BY <1>2, RemovalsLead, InsertionsLead
<1>5. Thrifty(prev, a) /\ \A m \in 1..Len(a) : ~Bears(a[m])
  BY <1>2, RemovalsThrifty
<1>6. Thrifty(prev, b) /\ \A m \in 1..Len(b) : Bears(b[m])
  BY <1>2, <1>3, InsertionsThrifty
<1> HIDE DEF a, b
<1> QED
  BY <1>1, <1>4, <1>5, <1>6, ThriftyThen
-------------------------------------------------------------------------------
\* From some index on, entries are as they were in prev.
Older(r, prev, from) == \A j \in 1..Len(r) : from <= j => \E q \in 1..Len(prev) : r[j] = prev[q]

\* The keys of the first entries.
Firsts(s, i) == {s[j].key : j \in 1..i}

\* What the engine computes with when the first `sent` entries are as they will be
\* and the first `told` are where they will be.
Frugal(st, prev, next, sent, told) ==
  /\ Thrifty(prev, st.ops)
  /\ SentKeys(st.ops) \subseteq Firsts(next, sent)
  /\ OtherKeys(st.ops) \subseteq (KeySet(prev) \ KeySet(next)) \union Firsts(next, told)
  /\ KeySet(prev) \intersect KeySet(next) \subseteq KeySet(st.rows)
  /\ Older(st.rows, prev, sent + 1)

LEMMA FirstsGrow ==
  ASSUME NEW s, Window(s), NEW i \in 1..Len(s)
  PROVE  /\ Firsts(s, i) = Firsts(s, i - 1) \union {s[i].key} /\ s[i].key \notin Firsts(s, i - 1)
         /\ s[i].key \in KeySet(s)
<1>1. Len(s) \in Nat /\ i \in Nat /\ s[i].key \in KeySet(s)
  BY WindowEntries
<1>2. 1..i = (1..(i - 1)) \union {i} /\ \A j \in 1..(i - 1) : j \in 1..Len(s) /\ j # i
  BY <1>1
<1> QED
  BY <1>1, <1>2 DEF Firsts, Window

\* A row more is sent, which prev has not got.
LEMMA FrugalSends ==
  ASSUME NEW prev, NEW next, Window(next), NEW i \in 1..Len(next), NEW told \in {i - 1, i},
         NEW st, Working(st, prev), Frugal(st, prev, next, i - 1, told),
         News(next[i], prev), NEW op \in AnyOperation, Bears(op), op.key = next[i].key,
         [key |-> op.key, row |-> op.row] = next[i],
         NEW r, KeySet(st.rows) \subseteq KeySet(r), Older(r, prev, i + 1),
         NEW t, t.rows = r, t.ops = Append(st.ops, op)
  PROVE  Frugal(t, prev, next, i, i)
<1>1. /\ Firsts(next, i) = Firsts(next, i - 1) \union {next[i].key} /\ next[i].key \notin Firsts(next, i - 1)
      /\ i \in Nat
  BY FirstsGrow, WindowEntries
<1>2. /\ Thrifty(prev, st.ops) /\ SentKeys(st.ops) \subseteq Firsts(next, i - 1)
      /\ OtherKeys(st.ops) \subseteq (KeySet(prev) \ KeySet(next)) \union Firsts(next, told)
      /\ KeySet(prev) \intersect KeySet(next) \subseteq KeySet(st.rows)
      /\ st.ops \in Seq(AnyOperation)
  BY DEF Frugal, Working
<1>3. Firsts(next, told) \subseteq Firsts(next, i)
  BY <1>1
<1>4. News([key |-> op.key, row |-> op.row], prev)
  OBVIOUS
<1> DEFINE ops == Append(st.ops, op)
<1>5. op.key \notin SentKeys(st.ops)
  BY <1>1, <1>2
<1>6. /\ Thrifty(prev, ops) /\ SentKeys(ops) = SentKeys(st.ops) \union {op.key}
      /\ OtherKeys(ops) = OtherKeys(st.ops)
  BY <1>2, <1>4, <1>5, SendMore
<1> HIDE DEF ops
<1>7. t.ops = ops /\ SentKeys(ops) \subseteq Firsts(next, i)
      /\ OtherKeys(ops) \subseteq (KeySet(prev) \ KeySet(next)) \union Firsts(next, i)
  BY <1>1, <1>2, <1>3, <1>6 DEF ops
<1> QED
  BY <1>2, <1>6, <1>7 DEF Frugal

\* The next entry is inserted, brought to its place, and refreshed.
LEMMA PlaceFrugal ==
  ASSUME NEW prev, Window(prev), NEW next, Window(next), NEW i \in 1..Len(next),
         NEW st, Placed(st, prev, next, i - 1), Frugal(st, prev, next, i - 1, i - 1)
  PROVE  Frugal(PlaceEntry(st, [entry |-> next[i], index |-> i]), prev, next, i, i)
<1> DEFINE t == PlaceEntry(st, [entry |-> next[i], index |-> i])
           r == st.rows
           e == next[i]
           at == st.index[e.key]
           u == Brought(st, e, at, i)
<1>1. /\ Window(r) /\ st.index = IndexOf(r) /\ Working(st, prev) /\ KeySet(r) \subseteq KeySet(next)
      /\ Agrees(r, next, i - 1) /\ Older(r, prev, i)
      /\ KeySet(prev) \intersect KeySet(next) \subseteq KeySet(r)
  <2>1. i - 1 + 1 = i
    BY WindowEntries
  <2> QED
    BY <2>1 DEF Placed, Working, Frugal
<1>2. /\ Len(r) \in Nat /\ i \in Nat /\ e \in Entries /\ e.key \in Keys /\ e.key \in KeySet(next)
      /\ Len(next) \in Nat
  BY <1>1, WindowEntries
<1>3. CASE e.key \notin KeySet(r)
  <2> DEFINE x == InsertAt(r, i, e)
             op == InsertOp(e, i)
  <2>1. i \in 1..(Len(r) + 1)
    BY <1>1, <1>2 DEF Agrees
  <2>2. WithEntry(x, r, i, e) /\ KeySet(x) = KeySet(r) \union {e.key}
    BY <1>1, <1>2, <1>3, <2>1, InsertedWindow
  <2>3. at = 0
    BY <1>1, <1>2, <1>3, IndexTells DEF Tells
  <2>4. t = [rows |-> x, ops |-> Append(st.ops, op), index |-> Reindex(st.index, x, i)]
    BY <2>3 DEF PlaceEntry
  <2>5. op \in AnyOperation /\ Bears(op) /\ op.key = e.key /\ [key |-> op.key, row |-> op.row] = e
    BY <1>2, OperationsAre DEF AnyOperation
  <2>6. News(e, prev)
    <3>1. e.key \notin KeySet(prev)
      BY <1>1, <1>2, <1>3
    <3> QED
      BY <3>1, WindowEntries DEF News
  <2> HIDE DEF x, op, t, at
  <2>7. Older(x, prev, i + 1)
    <3>1. SUFFICES ASSUME NEW j \in 1..Len(x), i + 1 <= j PROVE \E q \in 1..Len(prev) : x[j] = prev[q]
      BY DEF Older
    <3>2. /\ j \in 1..(Len(r) + 1) /\ j \in Nat /\ ~(j < i) /\ j # i
          /\ j - 1 \in 1..Len(r) /\ i <= j - 1
      BY <1>2, <2>1, <2>2, <3>1 DEF WithEntry
    <3>3. x[j] = r[j - 1]
      BY <2>2, <3>2 DEF WithEntry
    <3> QED
      BY <1>1, <3>2, <3>3 DEF Older
  <2>8. t.rows = x /\ t.ops = Append(st.ops, op) /\ KeySet(r) \subseteq KeySet(x)
    BY <2>2, <2>4
  <2>9. i - 1 \in {i - 1, i}
    OBVIOUS
  <2>10. Frugal(t, prev, next, i, i)
    BY <1>1, <2>5, <2>6, <2>7, <2>8, <2>9, FrugalSends
  <2> QED
    BY <2>10 DEF t
<1>4. CASE e.key \in KeySet(r)
  <2>1. at \in 1..Len(r) /\ r[at].key = e.key /\ at # 0
    <3>1. PICK j \in 1..Len(r) : r[j].key = e.key
      BY <1>1, <1>4, WindowEntries
    <3>2. at = j
      BY <1>1, <3>1, IndexTells DEF Tells
    <3> QED
      BY <1>1, <3>1, <3>2, WindowEntries
  <2>2. t = Refreshed(u, e, i)
    BY <2>1 DEF PlaceEntry, Brought, Refreshed
  <2> HIDE DEF at, t
  <2>3. Underway(u, prev, next, i)
    BY <1>1, <2>1, PlaceMoved
  <2>4. i <= at
    <3>1. SUFFICES ASSUME at < i PROVE FALSE
      BY <1>2, <2>1
    <3>2. at \in 1..(i - 1) /\ at \in 1..Len(next)
      BY <1>2, <2>1, <3>1
    <3>3. next[at].key = next[i].key
      BY <1>1, <2>1, <3>2 DEF Agrees
    <3> QED
      BY <1>2, <3>1, <3>2, <3>3 DEF Window
  <2>5. Frugal(u, prev, next, i - 1, i)
    <3>1. CASE at = i
      BY <1>1, <3>1, FirstsGrow DEF Brought, Frugal
    <3>2. CASE at # i
      <4> DEFINE x == Moved(r, at, i)
                 op == MoveOp(e.key, at, i)
      <4>1. i < at /\ i \in 1..Len(r) /\ at \in Nat
        BY <1>2, <2>1, <2>4, <3>2
      <4>2. /\ Len(x) = Len(r) /\ \A j \in 1..Len(r) : x[j] = r[From(at, i, j)]
            /\ KeySet(x) = KeySet(r)
        <5>1. Window(r) /\ at \in 1..Len(r) /\ i \in 1..Len(r)
          BY <1>1, <2>1, <4>1
        <5> HIDE DEF r
        <5> QED
          BY <5>1, MovedWindow
      <4>3. op \in AnyOperation /\ ~Bears(op) /\ op.key = e.key
        BY <1>2, <4>1, OperationsAre DEF AnyOperation
      <4>4. u = [rows |-> x, ops |-> Append(st.ops, op), index |-> Reindex(st.index, x, Min({at, i}))]
        BY <3>2 DEF Brought
      <4> HIDE DEF x, op, u
      <4>5. Older(x, prev, i)
        <5>1. SUFFICES ASSUME NEW j \in 1..Len(x), i <= j PROVE \E q \in 1..Len(prev) : x[j] = prev[q]
          BY DEF Older
        <5>2. j \in 1..Len(r) /\ From(at, i, j) \in 1..Len(r) /\ i <= From(at, i, j)
          BY <1>2, <2>1, <4>1, <4>2, <5>1 DEF From
        <5> QED
          BY <1>1, <4>2, <5>2 DEF Older
      <4>6. /\ Thrifty(prev, st.ops) /\ SentKeys(st.ops) \subseteq Firsts(next, i - 1)
            /\ OtherKeys(st.ops) \subseteq (KeySet(prev) \ KeySet(next)) \union Firsts(next, i - 1)
            /\ st.ops \in Seq(AnyOperation)
        BY <1>1 DEF Frugal, Working
      <4>7. Firsts(next, i) = Firsts(next, i - 1) \union {e.key} /\ e.key \notin Firsts(next, i - 1)
        BY FirstsGrow
      <4> DEFINE ops == Append(st.ops, op)
      <4>8. op.key \notin OtherKeys(st.ops)
        BY <1>2, <4>3, <4>6, <4>7
      <4>9. /\ Thrifty(prev, ops) /\ OtherKeys(ops) = OtherKeys(st.ops) \union {op.key}
            /\ SentKeys(ops) = SentKeys(st.ops)
        BY <4>3, <4>6, <4>8, TellMore
      <4>10. u.rows = x /\ u.ops = ops
        BY <4>4
      <4>11. i - 1 + 1 = i
        BY <1>2
      <4> HIDE DEF ops
      <4> QED
        BY <1>1, <4>2, <4>3, <4>5, <4>6, <4>7, <4>9, <4>10, <4>11 DEF Frugal
    <3> QED
      BY <3>1, <3>2
  <2> HIDE DEF u
  <2>6. Frugal(Refreshed(u, e, i), prev, next, i, i)
    <3> DEFINE y == u.rows
               v == Refreshed(u, e, i)
    <3>1. /\ Working(u, prev) /\ Window(y) /\ i \in 1..Len(y) /\ y[i].key = e.key
          /\ u = [rows |-> u.rows, ops |-> u.ops, index |-> u.index] /\ Older(y, prev, i)
      <4>1. i - 1 + 1 = i
        BY <1>2
      <4> QED
        BY <2>3, <2>5, <4>1 DEF Underway, Working, Frugal
    <3>2. Len(y) \in Nat /\ DOMAIN y = 1..Len(y)
      BY <3>1, WindowEntries
    <3>3. CASE y[i].row = e.row
      <4>1. v = u
        BY <3>3 DEF Refreshed
      <4>2. Older(y, prev, i + 1)
        BY <1>2, <3>1, <3>2 DEF Older
      <4>3. Firsts(next, i - 1) \subseteq Firsts(next, i)
        BY FirstsGrow
      <4> HIDE DEF v
      <4>4. Frugal(v, prev, next, i, i)
        BY <2>5, <4>1, <4>2, <4>3 DEF Frugal
      <4> QED
        BY <4>4 DEF v
    <3>4. CASE y[i].row # e.row
      <4> DEFINE x == [y EXCEPT ![i] = e]
                 op == UpdateOp(e, i)
      <4>1. v = [u EXCEPT !.rows[i] = e, !.ops = Append(@, op)]
        BY <3>4 DEF Refreshed
      <4> HIDE DEF v
      <4>2. v.rows = x /\ v.ops = Append(u.ops, op)
        BY <3>1, <4>1
      <4>3. KeySet(x) = KeySet(y) /\ Len(x) = Len(y) /\ \A j \in 1..Len(y) : j # i => x[j] = y[j]
        <5>1. KeySet(x) = KeySet(y) /\ Len(x) = Len(y)
          BY <1>2, <3>1, UpdatedWindow
        <5>2. \A j \in 1..Len(y) : j # i => x[j] = y[j]
          BY <3>2
        <5> QED
          BY <5>1, <5>2
      <4>4. op \in AnyOperation /\ Bears(op) /\ op.key = e.key /\ [key |-> op.key, row |-> op.row] = e
        BY <1>2, OperationsAre DEF AnyOperation
      <4> HIDE DEF x, op
      <4>5. Older(x, prev, i + 1)
        <5>1. SUFFICES ASSUME NEW j \in 1..Len(x), i + 1 <= j PROVE \E q \in 1..Len(prev) : x[j] = prev[q]
          BY DEF Older
        <5>2. j \in 1..Len(y) /\ i <= j /\ j # i
          BY <1>2, <3>2, <4>3, <5>1
        <5> HIDE DEF y
        <5> QED
          BY <3>1, <4>3, <5>2 DEF Older
      <4>6. News(e, prev)
        <5>1. SUFFICES ASSUME NEW p \in 1..Len(prev), prev[p] = e PROVE FALSE
          BY DEF News
        <5>2. PICK q \in 1..Len(prev) : y[i] = prev[q]
          BY <1>2, <3>1 DEF Older
        <5>3. p = q
          BY <3>1, <5>1, <5>2 DEF Window
        <5> QED
          BY <3>4, <5>1, <5>2, <5>3
      <4>7. i \in {i - 1, i}
        OBVIOUS
      <4>8. KeySet(u.rows) \subseteq KeySet(x)
        BY <4>3
      <4>9. Frugal(v, prev, next, i, i)
        BY <2>5, <3>1, <4>2, <4>4, <4>5, <4>6, <4>7, <4>8, FrugalSends
      <4> QED
        BY <4>9 DEF v
    <3> QED
      BY <3>3, <3>4
  <2> QED
    BY <2>2, <2>6 DEF t
<1> QED
  BY <1>3, <1>4
-------------------------------------------------------------------------------
\* What the engine computes with while it removes: of what is gone, no row is sent.
Dropping(st, prev, told) ==
  /\ Working(st, prev) /\ KeySet(st.rows) = KeySet(prev) \ told
  /\ Thrifty(prev, st.ops) /\ SentKeys(st.ops) = {} /\ OtherKeys(st.ops) = told
  /\ Older(st.rows, prev, 1)

LEMMA DropFrugal ==
  ASSUME NEW prev, NEW told, NEW st, Dropping(st, prev, told), NEW k \in KeySet(st.rows)
  PROVE  Dropping(Drop(st, k), prev, told \union {k})
<1> DEFINE r == st.rows
           t == Drop(st, k)
           op == RemoveOp(k)
<1>1. /\ Window(r) /\ st.index = IndexOf(r) /\ st.ops \in Seq(AnyOperation) /\ Working(st, prev)
      /\ KeySet(r) = KeySet(prev) \ told /\ Thrifty(prev, st.ops) /\ SentKeys(st.ops) = {}
      /\ OtherKeys(st.ops) = told /\ Older(r, prev, 1)
  BY DEF Dropping, Working
<1>2. PICK i \in 1..Len(r) : r[i].key = k
  BY <1>1, WindowEntries
<1> DEFINE x == RemoveAt(r, i)
<1>3. Window(x) /\ k \in Keys /\ IndexOf(r)[k] = i /\ KeySet(x) = KeySet(r) \ {k}
  BY <1>1, <1>2, RemovedWindow
<1>4. /\ Len(r) \in Nat /\ Len(x) = Len(r) - 1
      /\ \A j \in 1..(Len(r) - 1) : x[j] = IF j < i THEN r[j] ELSE r[j + 1]
  <2>1. Len(r) \in Nat /\ r \in Seq(Entries)
    BY <1>1, WindowEntries DEF Window
  <2> HIDE DEF r
  <2> QED
    BY <2>1, RemoveAtIs
<1>5. t.rows = x /\ t.ops = Append(st.ops, op)
  BY <1>1, <1>3 DEF Drop
<1>6. op \in AnyOperation /\ ~Bears(op) /\ op.key = k
  BY <1>3, OperationsAre DEF AnyOperation
<1>7. Working(t, prev)
  BY <1>1, DropWorks
<1> HIDE DEF x, t, op
<1>8. Older(x, prev, 1)
  <2>1. SUFFICES ASSUME NEW j \in 1..Len(x) PROVE \E q \in 1..Len(prev) : x[j] = prev[q]
    BY DEF Older
  <2>2. PICK m \in 1..Len(r) : x[j] = r[m]
    <3>1. j \in 1..(Len(r) - 1) /\ j \in 1..Len(r) /\ j + 1 \in 1..Len(r)
      BY <1>4, <2>1
    <3> QED
      BY <1>4, <3>1
  <2> QED
    BY <1>1, <1>4, <2>2 DEF Older
<1>9. op.key \notin OtherKeys(st.ops)
  BY <1>1, <1>6
<1> DEFINE ops == Append(st.ops, op)
<1>10. /\ Thrifty(prev, ops) /\ OtherKeys(ops) = OtherKeys(st.ops) \union {op.key}
       /\ SentKeys(ops) = SentKeys(st.ops)
  BY <1>1, <1>6, <1>9, TellMore
<1>11. t.ops = ops
  BY <1>5
<1> HIDE DEF ops
<1>12. KeySet(x) = KeySet(prev) \ (told \union {k})
  BY <1>1, <1>3
<1>13. Dropping(t, prev, told \union {k})
  BY <1>1, <1>5, <1>6, <1>7, <1>8, <1>10, <1>11, <1>12 DEF Dropping
<1> QED
  BY <1>13 DEF t

LEMMA KeptFrugal ==
  ASSUME NEW prev, Window(prev), NEW next, NEW kept,
         kept = FoldLeft(Drop, [rows |-> prev, ops |-> <<>>, index |-> IndexOf(prev)],
                         KeysOf(Without(prev, KeySet(next))))
  PROVE  Frugal(kept, prev, next, 0, 0)
<1> DEFINE gone == KeysOf(Without(prev, KeySet(next)))
           base == [rows |-> prev, ops |-> <<>>, index |-> IndexOf(prev)]
           n == Len(gone)
<1>1. /\ n \in Nat /\ DOMAIN gone = 1..n
      /\ \A m \in 1..n : gone[m] \in KeySet(prev) \ KeySet(next)
      /\ \A i, j \in 1..n : gone[i] = gone[j] => i = j
  BY GoneIs
<1>2. Dropping(base, prev, {})
  <2>2. Working(base, prev)
    BY NothingLeads, WorkingIs
  <2>3. base.rows = prev /\ base.ops = <<>>
    OBVIOUS
  <2> HIDE DEF base
  <2>4. Thrifty(prev, <<>>) /\ SentKeys(<<>>) = {} /\ OtherKeys(<<>>) = {}
    <3>1. Len(<<>>) = 0 /\ 1..0 = {}
      OBVIOUS
    <3> QED
      BY <3>1 DEF Thrifty, SentKeys, OtherKeys
  <2>5. Older(prev, prev, 1)
    BY DEF Older
  <2> QED
    BY <2>2, <2>3, <2>4, <2>5 DEF Dropping
<1>3. kept = FoldLeft(Drop, base, gone)
  OBVIOUS
<1> HIDE DEF gone, base, n
<1>4. PICK c : Runs(c, Way("drop"), base, gone) /\ FoldLeft(Drop, base, gone) = c[n]
  BY <1>1, DropsFold DEF n
<1>5. c[0] = base /\ \A m \in 1..n : c[m] = Drop(c[m - 1], gone[m])
  BY <1>4 DEF Runs, Advance, Way, n
<1> DEFINE so(m) == {gone[j] : j \in 1..m}
           P == {m \in 0..n : Dropping(c[m], prev, so(m))}
<1>6. 0 \in P
  <2>1. 0 \in 0..n /\ so(0) = {}
    BY <1>1
  <2> QED
    BY <1>2, <1>5, <2>1
<1>7. ASSUME NEW m \in 1..n, m - 1 \in P PROVE m \in P
  <2>1. m \in 0..n /\ gone[m] \notin so(m - 1) /\ so(m) = so(m - 1) \union {gone[m]}
    <3>1. 1..m = (1..(m - 1)) \union {m} /\ m \in 0..n /\ \A j \in 1..(m - 1) : j \in 1..n /\ j # m
      BY <1>1
    <3> QED
      BY <1>1, <3>1
  <2> DEFINE st == c[m - 1]
             k == gone[m]
             told == so(m - 1)
  <2>2. Dropping(st, prev, told)
    BY <1>7
  <2>3. k \in KeySet(st.rows)
    <3>1. k \in KeySet(prev)
      BY <1>1
    <3>2. k \notin told
      BY <2>1
    <3> HIDE DEF st, k, told
    <3> QED
      BY <2>2, <3>1, <3>2 DEF Dropping
  <2>4. c[m] = Drop(st, k) /\ so(m) = told \union {k}
    BY <1>5, <2>1
  <2> HIDE DEF st, k, told
  <2>5. Dropping(Drop(st, k), prev, told \union {k})
    BY <2>2, <2>3, DropFrugal
  <2> QED
    BY <2>1, <2>4, <2>5
<1>8. n \in P
  <2>1. n \in 0..n
    BY <1>1
  <2> HIDE DEF P
  <2>2. \A m \in 0..n : m \in P
    BY <1>1, <1>6, <1>7, CountUp
  <2> QED
    BY <2>1, <2>2
<1>9. Dropping(kept, prev, so(n))
  BY <1>3, <1>4, <1>8
<1>10. so(n) \subseteq KeySet(prev) \ KeySet(next)
  BY <1>1
<1> DEFINE told == so(n)
<1> HIDE DEF told
<1>11. Dropping(kept, prev, told) /\ told \subseteq KeySet(prev) \ KeySet(next)
  BY <1>9, <1>10 DEF told
<1>12. 0 + 1 = 1
  OBVIOUS
<1> QED
  BY <1>11, <1>12 DEF Dropping, Frugal

LEMMA GeneralThrifty ==
  ASSUME NEW prev, Window(prev), NEW next, Window(next)
  PROVE  Thrifty(prev, General(prev, next))
<1> DEFINE kept == FoldLeft(Drop, [rows |-> prev, ops |-> <<>>, index |-> IndexOf(prev)],
                            KeysOf(Without(prev, KeySet(next))))
           puts == [i \in DOMAIN next |-> [entry |-> next[i], index |-> i]]
           n == Len(next)
<1>1. /\ Working(kept, prev) /\ KeySet(kept.rows) \subseteq KeySet(next)
      /\ Frugal(kept, prev, next, 0, 0)
  BY KeptWorks, KeptFrugal
<1>2. General(prev, next) = FoldLeft(PlaceEntry, kept, puts).ops
  BY DEF General
<1>3. n \in Nat /\ DOMAIN next = 1..n
  BY WindowEntries
<1>4. puts = [i \in 1..n |-> [entry |-> next[i], index |-> i]]
  BY <1>3
<1> HIDE DEF kept, n, puts
<1>5. Len(puts) = n /\ DOMAIN puts = 1..n
  <2> DEFINE E == {puts[i] : i \in 1..n}
  <2>1. puts \in [1..n -> E] /\ DOMAIN puts = 1..n
    BY <1>4
  <2> HIDE DEF E
  <2>2. puts \in Seq(E)
    BY <1>3, <2>1, SeqDef
  <2> QED
    BY <1>3, <2>1, <2>2, LenProperties
<1>6. PICK c : Runs(c, Way("place"), kept, puts) /\ FoldLeft(PlaceEntry, kept, puts) = c[n]
  <2>1. Len(puts) \in Nat /\ DOMAIN puts = 1..Len(puts)
    BY <1>3, <1>5
  <2> QED
    BY <1>5, <2>1, PlacementsFold
<1>7. c[0] = kept /\ \A m \in 1..n : c[m] = PlaceEntry(c[m - 1], puts[m])
  BY <1>5, <1>6 DEF Runs, Advance, Way
<1> DEFINE P == {m \in 0..n : Placed(c[m], prev, next, m) /\ Frugal(c[m], prev, next, m, m)}
<1>8. 0 \in P
  <2>1. 0 \in 0..n /\ Len(kept.rows) \in Nat
    BY <1>1, <1>3, WindowEntries DEF Working
  <2>2. Agrees(kept.rows, next, 0)
    BY <2>1 DEF Agrees
  <2> QED
    BY <1>1, <1>7, <2>1, <2>2 DEF Placed
<1>9. ASSUME NEW m \in 1..n, m - 1 \in P PROVE m \in P
  <2>1. Placed(c[m - 1], prev, next, m - 1) /\ Frugal(c[m - 1], prev, next, m - 1, m - 1)
    BY <1>9
  <2>2. c[m] = PlaceEntry(c[m - 1], [entry |-> next[m], index |-> m])
    BY <1>4, <1>7
  <2>3. m \in 1..Len(next) /\ m \in 0..n
    BY <1>3 DEF n
  <2>4. /\ Placed(PlaceEntry(c[m - 1], [entry |-> next[m], index |-> m]), prev, next, m)
        /\ Frugal(PlaceEntry(c[m - 1], [entry |-> next[m], index |-> m]), prev, next, m, m)
    BY <2>1, <2>3, PlaceWorks, PlaceFrugal
  <2> QED
    BY <2>2, <2>3, <2>4
<1>10. n \in P
  <2>1. n \in 0..n
    BY <1>3
  <2> HIDE DEF P
  <2>2. \A m \in 0..n : m \in P
    BY <1>3, <1>8, <1>9, CountUp
  <2> QED
    BY <2>1, <2>2
<1>11. Frugal(c[n], prev, next, n, n)
  BY <1>10
<1>12. General(prev, next) = c[n].ops
  BY <1>2, <1>6
<1> QED
  BY <1>11, <1>12 DEF Frugal

LEMMA OperationsEconomical ==
  ASSUME NEW prev, Window(prev), NEW next, Window(next)
  PROVE  Economical(prev, Operations(prev, next))
<1> DEFINE ops == Operations(prev, next)
<1>1. CASE SingleMove(prev, next) # {}
  <2>1. ops \in SingleMove(prev, next)
    BY <1>1 DEF Operations
  <2> QED
    BY <2>1, SingleMoveThrifty, OperationsLead, ThriftyIs
<1>2. CASE SingleMove(prev, next) = {} /\ Replacement(prev, next) # {}
  <2>1. ops \in Replacement(prev, next)
    BY <1>2 DEF Operations
  <2> QED
    BY <2>1, ReplacementThrifty, OperationsLead, ThriftyIs
<1>3. CASE SingleMove(prev, next) = {} /\ Replacement(prev, next) = {}
  <2>1. ops = General(prev, next)
    BY <1>3 DEF Operations
  <2> QED
    BY <2>1, GeneralThrifty, OperationsLead, ThriftyIs
<1> QED
  BY <1>1, <1>2, <1>3

\* Whatever the results, a delta sends no row that the client holds and says nothing
\* twice (query-result.ts deltaOperations).
THEOREM SentOnce == Spec => RowsSentOnce
<1> DEFINE Economy == \A ops \in {Operations(shown.window, shown'.window)} : Economical(shown.window, ops)
<1>1. DeltaInv /\ [Next]_vars => [Economy]_vars
  <2>1. SUFFICES ASSUME DeltaInv, NEW next \in Evaluations, Notify(next)
                 PROVE  Economical(shown.window, Operations(shown.window, shown'.window))
    BY DEF Next
  <2>2. shown' = next
    BY <2>1 DEF Notify
  <2>3. Window(shown.window) /\ Window(next.window)
    BY <2>1, EvaluationIs DEF DeltaInv
  <2> QED
    BY <2>2, <2>3, OperationsEconomical
<1> QED
  BY <1>1, DeltaInductive, PTL DEF Spec, RowsSentOnce
===============================================================================
