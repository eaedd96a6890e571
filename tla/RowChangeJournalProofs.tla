------------------------ MODULE RowChangeJournalProofs ------------------------
(***************************************************************************)
(* What the methods of the row change journal do, for changes of any kind: *)
(* what a change, a commit and a reference leave of it; and what the proofs *)
(* about executions need of numbers and finite sets.                        *)
(***************************************************************************)
EXTENDS Integers, FiniteSets, RowChangeJournal, SequenceTheorems, FiniteSetTheorems,
        FunctionTheorems, WellFoundedInduction, TLAPS
-------------------------------------------------------------------------------
\* Every nonempty set of natural numbers has a least element.
LEMMA LeastNumber ==
  ASSUME NEW T, T \subseteq Nat, T # {}
  PROVE  \E n \in T : \A m \in T : n <= m
<1> DEFINE R == OpToRel(<, Nat)
<1>1. IsWellFoundedOn(R, Nat)
  BY NatLessThanWellFounded
<1>2. \A m, n \in Nat : m < n => <<m, n>> \in R
  BY DEF OpToRel
<1> HIDE DEF R
<1>3. PICK n \in T : \A m \in T : ~ (<<m, n>> \in R)
  BY <1>1, WFMin, Zenon
<1>4. ASSUME NEW m \in T PROVE n <= m
  <2>1. m \in Nat /\ n \in Nat
    OBVIOUS
  <2>2. ~ (m < n)
    BY <1>2, <1>3, <2>1
  <2> QED
    BY <2>1, <2>2
<1> QED
  BY <1>4

\* What holds of 0, and of a number when it holds of the one before, holds up to any bound.
LEMMA CountUp ==
  ASSUME NEW n \in Nat, NEW P, 0 \in P, \A i \in 1..n : i - 1 \in P => i \in P
  PROVE  \A i \in 0..n : i \in P
<1> SUFFICES ASSUME NEW u \in 0..n, u \notin P PROVE FALSE
  OBVIOUS
<1> DEFINE Bad == {i \in 0..n : i \notin P}
<1>1. Bad \subseteq Nat /\ Bad # {}
  OBVIOUS
<1>2. PICK i \in Bad : \A m \in Bad : i <= m
  <2> HIDE DEF Bad
  <2> QED
    BY <1>1, LeastNumber, Zenon
<1>3. i \in 1..n /\ i - 1 \in 0..n
  BY <1>2
<1>4. i - 1 \notin P
  BY <1>2, <1>3
<1>5. i - 1 \in Bad
  BY <1>3, <1>4
<1> QED
  BY <1>2, <1>3, <1>5

\* The greatest element of a set of numbers is its maximum.
LEMMA GreatestIs ==
  ASSUME NEW n \in Nat, NEW s \in SUBSET (1..n), n \in s
  PROVE  Max(s) = n
<1>1. \A y \in s : n >= y
  OBVIOUS
<1>2. \A x \in s : (\A y \in s : x >= y) => x = n
  OBVIOUS
<1> QED
  BY <1>1, <1>2 DEF Max
-------------------------------------------------------------------------------
(* Finite sets and their elements in order. *)

\* A finite set is listed, each of its elements once.
LEMMA ListsAll ==
  ASSUME NEW S, IsFiniteSet(S)
  PROVE  LET s == SetToSeq(S)
         IN  /\ s \in Seq(S) /\ Len(s) \in Nat /\ DOMAIN s = 1..Len(s)
             /\ \A i \in 1..Len(s) : s[i] \in S
             /\ \A x \in S : \E i \in 1..Len(s) : s[i] = x
             /\ \A i, j \in 1..Len(s) : s[i] = s[j] => i = j
<1> DEFINE n == Cardinality(S)
           s == SetToSeq(S)
<1>1. n \in Nat /\ ExistsBijection(1..n, S)
  BY FS_NatBijection, FS_CountingElements, FS_CardinalityType
<1>2. \E f \in [1..n -> S] : IsInjective(f)
  <2>1. PICK f : f \in Bijection(1..n, S)
    BY <1>1 DEF ExistsBijection
  <2>2. f \in [1..n -> S] /\ \A a, b \in 1..n : f[a] = f[b] => a = b
    BY <2>1 DEF Bijection, Injection, IsInjective
  <2> QED
    BY <2>2 DEF IsInjective
<1>3. s \in [1..n -> S] /\ IsInjective(s)
  BY <1>2 DEF SetToSeq
<1> HIDE DEF s, n
<1>4. s \in Seq(S)
  BY <1>1, <1>3, SeqDef
<1>5. Len(s) \in Nat /\ DOMAIN s = 1..Len(s) /\ Len(s) = n
  <2>1. Len(s) \in Nat /\ DOMAIN s = 1..Len(s)
    BY <1>4, LenProperties
  <2>2. 1..Len(s) = 1..n
    BY <1>3, <2>1
  <2>3. Cardinality(1..Len(s)) = Len(s) /\ Cardinality(1..n) = n
    <3>1. \A m \in Nat : Cardinality(1..m) = IF 1 > m THEN 0 ELSE m - 1 + 1
      BY FS_Interval
    <3>2. \A m \in Nat : (IF 1 > m THEN 0 ELSE m - 1 + 1) = m
      OBVIOUS
    <3> QED
      BY <1>1, <2>1, <3>1, <3>2
  <2> QED
    BY <2>1, <2>2, <2>3
<1>6. \A x \in S : \E i \in 1..n : s[i] = x
  <2>1. s \in Injection(1..n, S)
    BY <1>3 DEF IsInjective, Injection
  <2>2. Cardinality(1..n) = n
    BY <1>1, FS_Interval
  <2>3. s \in Surjection(1..n, S)
    BY <2>1, <2>2, FS_Injection DEF n
  <2> QED
    BY <2>3 DEF Surjection
<1> QED
  BY <1>3, <1>4, <1>5, <1>6 DEF IsInjective, s

\* A sequence without repetitions has as many elements as it has places.
LEMMA ImageSize ==
  ASSUME NEW T, IsFiniteSet(T), NEW s, \A i, j \in T : s[i] = s[j] => i = j
  PROVE  /\ IsFiniteSet({s[i] : i \in T})
         /\ Cardinality({s[i] : i \in T}) = Cardinality(T)
<1> DEFINE U == {s[i] : i \in T}
           f == [i \in T |-> s[i]]
<1>1. f \in [T -> U] /\ \A i \in T : f[i] = s[i]
  OBVIOUS
<1>2. \A u \in U : \E i \in T : f[i] = u
  BY <1>1
<1> HIDE DEF f, U
<1>3. f \in Bijection(T, U)
  BY <1>1, <1>2 DEF Bijection, Injection, Surjection, IsInjective
<1>4. IsFiniteSet(U) /\ Cardinality(U) = Cardinality(T)
  <2>1. ExistsBijection(T, U)
    BY <1>3 DEF ExistsBijection
  <2> QED
    BY <2>1, FS_Bijection
<1> QED
  BY <1>4 DEF U

\* R puts the elements of S in one order.
OrderedBy(R, S) ==
  /\ \A x \in S : <<x, x>> \notin R
  /\ \A x, y \in S : x = y \/ <<x, y>> \in R \/ <<y, x>> \in R
  /\ \A x, y, z \in S : <<x, y>> \in R /\ <<y, z>> \in R => <<x, z>> \in R

\* The elements before x.
Preceding(R, S, x) == {y \in S : <<y, x>> \in R}

\* Fewer elements are before what comes first.
LEMMA RankGrows ==
  ASSUME NEW S, IsFiniteSet(S), NEW R, OrderedBy(R, S), NEW x \in S, NEW y \in S, <<x, y>> \in R
  PROVE  /\ Cardinality(Preceding(R, S, x)) \in Nat /\ Cardinality(Preceding(R, S, y)) \in Nat
         /\ Cardinality(Preceding(R, S, x)) < Cardinality(Preceding(R, S, y))
<1> DEFINE A == Preceding(R, S, x)
           B == Preceding(R, S, y)
<1>1. A \subseteq B /\ x \in B /\ x \notin A /\ A \subseteq S /\ B \subseteq S
  BY DEF Preceding, OrderedBy
<1> HIDE DEF A, B
<1>2. IsFiniteSet(A) /\ IsFiniteSet(B)
  BY <1>1, FS_Subset
<1>3. Cardinality(A) \in Nat /\ Cardinality(B) \in Nat
  BY <1>2, FS_CardinalityType
<1>4. Cardinality(B \ {x}) = Cardinality(B) - 1 /\ IsFiniteSet(B \ {x})
  BY <1>1, <1>2, FS_RemoveElement
<1>5. Cardinality(A) <= Cardinality(B \ {x})
  <2>1. A \subseteq B \ {x}
    BY <1>1
  <2> QED
    BY <2>1, <1>4, FS_Subset
<1> QED
  BY <1>3, <1>4, <1>5 DEF A, B

\* Elements with as many before them are the same.
LEMMA RankDetermines ==
  ASSUME NEW S, IsFiniteSet(S), NEW R, OrderedBy(R, S), NEW x \in S, NEW y \in S,
         Cardinality(Preceding(R, S, x)) = Cardinality(Preceding(R, S, y))
  PROVE  x = y
<1>1. SUFFICES ASSUME x # y PROVE FALSE
  OBVIOUS
<1>2. <<x, y>> \in R \/ <<y, x>> \in R
  BY <1>1 DEF OrderedBy
<1>3. CASE <<x, y>> \in R
  BY <1>3, RankGrows
<1>4. CASE <<y, x>> \in R
  BY <1>4, RankGrows
<1> QED
  BY <1>2, <1>3, <1>4

\* There is an element for every rank.
LEMMA RankExists ==
  ASSUME NEW S, IsFiniteSet(S), NEW R, OrderedBy(R, S), NEW n \in 0..(Cardinality(S) - 1)
  PROVE  \E x \in S : Cardinality(Preceding(R, S, x)) = n
<1> DEFINE top == Cardinality(S) - 1
           rank == [x \in S |-> Cardinality(Preceding(R, S, x))]
<1>1. Cardinality(S) \in Nat /\ top + 1 = Cardinality(S) /\ top \in Int
  BY FS_CardinalityType
<1>2. ASSUME NEW x \in S PROVE Cardinality(Preceding(R, S, x)) \in 0..top
  <2>1. Preceding(R, S, x) \subseteq S \ {x}
    BY DEF Preceding, OrderedBy
  <2>2. IsFiniteSet(S \ {x}) /\ Cardinality(S \ {x}) = top
    BY FS_RemoveElement
  <2> HIDE DEF top
  <2>3. IsFiniteSet(Preceding(R, S, x)) /\ Cardinality(Preceding(R, S, x)) <= Cardinality(S \ {x})
    BY <2>1, <2>2, FS_Subset
  <2>4. Cardinality(Preceding(R, S, x)) \in Nat
    BY <2>3, FS_CardinalityType
  <2> QED
    BY <1>1, <2>2, <2>3, <2>4
<1>3. rank \in Injection(S, 0..top)
  <2>1. rank \in [S -> 0..top]
    BY <1>2
  <2>2. \A x, y \in S : rank[x] = rank[y] => x = y
    BY RankDetermines
  <2> HIDE DEF rank
  <2> QED
    BY <2>1, <2>2 DEF Injection, IsInjective
<1>4. IsFiniteSet(0..top) /\ Cardinality(0..top) = Cardinality(S)
  <2>1. top >= -1
    BY <1>1
  <2> HIDE DEF top
  <2>2. IsFiniteSet(0..top) /\ Cardinality(0..top) = IF 0 > top THEN 0 ELSE top - 0 + 1
    BY <1>1, FS_Interval
  <2>3. (IF 0 > top THEN 0 ELSE top - 0 + 1) = top + 1
    BY <1>1, <2>1
  <2> QED
    BY <1>1, <2>2, <2>3
<1> HIDE DEF rank, top
<1>5. rank \in Surjection(S, 0..top)
  BY <1>3, <1>4, FS_Injection
<1>6. \E x \in S : rank[x] = n
  BY <1>5 DEF Surjection, top
<1> QED
  BY <1>6 DEF rank

\* Some element of a finite set is last.
LEMMA LastExists ==
  ASSUME NEW S, IsFiniteSet(S), S # {}, NEW R, OrderedBy(R, S)
  PROVE  \E x \in S : \A y \in S : <<x, y>> \notin R
<1> DEFINE top == Cardinality(S) - 1
<1>1. Cardinality(S) \in Nat /\ Cardinality(S) # 0
  BY FS_CardinalityType, FS_EmptySet
<1>2. top \in 0..(Cardinality(S) - 1) /\ top + 1 = Cardinality(S) /\ top \in Nat
  BY <1>1
<1> HIDE DEF top
<1>3. PICK x \in S : Cardinality(Preceding(R, S, x)) = top
  BY <1>2, RankExists
<1>4. ASSUME NEW y \in S, <<x, y>> \in R PROVE FALSE
  <2>1. /\ Cardinality(Preceding(R, S, y)) \in Nat
        /\ top < Cardinality(Preceding(R, S, y))
    BY <1>3, <1>4, RankGrows
  <2>2. Cardinality(Preceding(R, S, y)) <= Cardinality(S) - 1
    <3>1. Preceding(R, S, y) \subseteq S \ {y}
      BY DEF Preceding, OrderedBy
    <3>2. IsFiniteSet(S \ {y}) /\ Cardinality(S \ {y}) = Cardinality(S) - 1
      BY FS_RemoveElement
    <3> QED
      BY <3>1, <3>2, FS_Subset
  <2> QED
    BY <1>1, <1>2, <2>1, <2>2
<1> QED
  BY <1>4

\* A finite set of numbers has a greatest, which is its maximum.
LEMMA MaxIs ==
  ASSUME NEW S \in SUBSET Nat, IsFiniteSet(S), S # {}
  PROVE  Max(S) \in S /\ \A y \in S : y <= Max(S)
<1> DEFINE R == {p \in S \X S : p[1] < p[2]}
<1>1. OrderedBy(R, S) /\ \A x, y \in S : <<x, y>> \in R <=> x < y
  <2>1. \A x, y \in S : <<x, y>> \in R <=> x < y
    OBVIOUS
  <2>2. /\ \A x \in S : ~(x < x)
        /\ \A x, y \in S : x = y \/ x < y \/ y < x
        /\ \A x, y, z \in S : x < y /\ y < z => x < z
    OBVIOUS
  <2> HIDE DEF R
  <2> QED
    BY <2>1, <2>2 DEF OrderedBy
<1> HIDE DEF R
<1>2. OrderedBy(R, S)
  BY <1>1
<1>3. PICK x \in S : \A y \in S : <<x, y>> \notin R
  BY <1>2, LastExists
<1>4. \A y \in S : x >= y
  <2>1. \A y \in S : ~(x < y)
    BY <1>1, <1>3
  <2> QED
    BY <2>1
<1>5. Max(S) \in S /\ \A y \in S : Max(S) >= y
  BY <1>4 DEF Max
<1> QED
  BY <1>5
-------------------------------------------------------------------------------
(* Journals. *)

BatchOf(Changed) == [changes : Seq(Changed), version : Nat]

JournalFields == {"pending", "overflowed", "batches", "count", "invalidBefore", "refs"}

\* A journal has these parts; nothing is said about the count of its changes.
IsJournal(j, Changed) ==
  /\ DOMAIN j = JournalFields /\ j = [f \in JournalFields |-> j[f]]
  /\ j.pending \in Seq(Changed)
  /\ j.batches \in Seq(BatchOf(Changed))
  /\ j.overflowed \in BOOLEAN
  /\ j.refs \in Nat

\* A journal that nobody needs, or that has overflowed, is empty.
EmptyUnlessUsed(j) ==
  /\ j.refs = 0 => ~j.overflowed
  /\ j.refs = 0 \/ j.overflowed => j.pending = <<>> /\ j.batches = <<>>
-------------------------------------------------------------------------------
\* A journal that was cleared keeps only its references.
LEMMA ClearEmpties ==
  ASSUME NEW Changed, NEW j, IsJournal(j, Changed), NEW v
  PROVE  LET k == Clear(j, v)
         IN  /\ IsJournal(k, Changed) /\ k.refs = j.refs
             /\ k.pending = <<>> /\ k.batches = <<>> /\ ~k.overflowed
<1> DEFINE k == Clear(j, v)
<1>1. DOMAIN k = JournalFields /\ k = [f \in JournalFields |-> k[f]]
  BY DEF Clear, IsJournal, JournalFields
<1>2. k.refs = j.refs /\ k.pending = <<>> /\ k.batches = <<>> /\ k.overflowed = FALSE
  BY DEF Clear, IsJournal, JournalFields
<1>3. <<>> \in Seq(Changed) /\ <<>> \in Seq(BatchOf(Changed))
  BY EmptySeq
<1> HIDE DEF k
<1>4. IsJournal(k, Changed)
  BY <1>1, <1>2, <1>3 DEF IsJournal
<1> QED
  BY <1>2, <1>4 DEF k

\* A change is ignored, overflows the journal, or is recorded.
LEMMA RecordCases ==
  ASSUME NEW Changed, NEW j, IsJournal(j, Changed), NEW c \in Changed, NEW v
  PROVE  LET k == Record(j, c, v)
         IN  /\ IsJournal(k, Changed) /\ k.refs = j.refs
             /\ \/ k = j /\ (j.refs = 0 \/ j.overflowed)
                \/ j.refs # 0 /\ k.overflowed /\ k.pending = <<>> /\ k.batches = <<>>
                \/ /\ j.refs # 0 /\ ~j.overflowed /\ ~k.overflowed
                   /\ k.pending = Append(j.pending, c) /\ k.batches = j.batches
<1> DEFINE k == Record(j, c, v)
<1>1. CASE j.refs = 0 \/ j.overflowed
  <2>1. k = j
    BY <1>1 DEF Record
  <2> QED
    BY <2>1, <1>1
<1>2. CASE ~(j.refs = 0 \/ j.overflowed) /\ Len(j.pending) + 1 > MaxEntries
  <2> DEFINE l == Clear(j, v + 1)
  <2>1. k = [l EXCEPT !.overflowed = TRUE]
    BY <1>2 DEF Record
  <2>2. IsJournal(l, Changed) /\ l.refs = j.refs /\ l.pending = <<>> /\ l.batches = <<>>
    BY ClearEmpties
  <2> HIDE DEF l, k
  <2>3. k.pending = l.pending /\ k.overflowed /\ k.batches = l.batches /\ k.refs = l.refs
    BY <2>1, <2>2 DEF IsJournal, JournalFields
  <2>4. IsJournal(k, Changed)
    BY <2>1, <2>2 DEF IsJournal, JournalFields
  <2> QED
    BY <2>2, <2>3, <2>4, <1>2 DEF k
<1>3. CASE ~(j.refs = 0 \/ j.overflowed) /\ ~(Len(j.pending) + 1 > MaxEntries)
  <2>1. k = [j EXCEPT !.pending = Append(@, c)]
    BY <1>3 DEF Record
  <2> HIDE DEF k
  <2>2. /\ k.pending = Append(j.pending, c) /\ k.overflowed = j.overflowed
        /\ k.batches = j.batches /\ k.refs = j.refs
    BY <2>1 DEF IsJournal, JournalFields
  <2>3. Append(j.pending, c) \in Seq(Changed)
    BY AppendProperties DEF IsJournal
  <2>4. IsJournal(k, Changed)
    BY <2>1, <2>3 DEF IsJournal, JournalFields
  <2> QED
    BY <2>2, <2>4, <1>3 DEF k
<1> QED
  BY <1>1, <1>2, <1>3

\* The first batches go until few enough are left, or all go.
LEMMA TrimCases ==
  ASSUME NEW Changed, NEW j, IsJournal(j, Changed), ~j.overflowed, NEW v
  PROVE  LET k == Trim(j, v)
         IN  /\ IsJournal(k, Changed) /\ k.refs = j.refs /\ ~k.overflowed
             /\ \/ k.pending = <<>> /\ k.batches = <<>>
                \/ /\ k.pending = j.pending
                   /\ \E d \in 0..Len(j.batches) :
                        /\ Len(k.batches) = Len(j.batches) - d /\ Len(j.batches) - d <= MaxVersions
                        /\ \A i \in 1..(Len(j.batches) - d) : k.batches[i] = j.batches[d + i]
<1> DEFINE k == Trim(j, v)
           n == Len(j.batches)
           d == IF n > MaxVersions THEN n - MaxVersions ELSE 0
           c == j.count - Changes(SubSeq(j.batches, 1, d))
<1>1. n \in Nat /\ d \in 0..n /\ n - d <= MaxVersions
  BY LimitAssumption, LenProperties DEF IsJournal
<1>2. k = IF c > MaxEntries THEN Clear(j, v)
          ELSE [j EXCEPT !.batches = SubSeq(@, d + 1, Len(@)), !.count = c]
  BY DEF Trim
<1> HIDE DEF c, d, k
<1>3. CASE c > MaxEntries
  BY <1>2, <1>3, ClearEmpties DEF k
<1>4. CASE ~(c > MaxEntries)
  <2> DEFINE b == SubSeq(j.batches, d + 1, n)
  <2>1. k = [j EXCEPT !.batches = b, !.count = c]
    BY <1>2, <1>4
  <2>2. \A i \in (d + 1)..n : j.batches[i] \in BatchOf(Changed)
    BY <1>1, ElementOfSeq DEF IsJournal
  <2>3. d + 1 \in Int /\ n \in Int
    BY <1>1
  <2>4. /\ b \in Seq(BatchOf(Changed))
        /\ Len(b) = IF d + 1 <= n THEN n - (d + 1) + 1 ELSE 0
        /\ \A i \in 1..(n - (d + 1) + 1) : b[i] = j.batches[(d + 1) + i - 1]
    BY <2>2, <2>3, SubSeqProperties
  <2> HIDE DEF b, n
  <2>5. Len(b) = n - d /\ \A i \in 1..(n - d) : b[i] = j.batches[d + i]
    BY <2>4, <1>1
  <2>6. k.pending = j.pending /\ k.batches = b /\ k.refs = j.refs /\ ~k.overflowed
    BY <2>1 DEF IsJournal, JournalFields
  <2>7. IsJournal(k, Changed)
    BY <2>1, <2>4 DEF IsJournal, JournalFields
  <2> QED
    BY <2>5, <2>6, <2>7, <1>1 DEF k, n
<1> QED
  BY <1>3, <1>4

\* A commit without a reference does nothing; one after an overflow starts afresh; any
\* other adds a batch and drops the oldest.
Committed(j, k, v) ==
  LET n == Len(j.batches)
  IN  \/ j.refs = 0 /\ k = j
      \/ /\ j.refs # 0 /\ j.overflowed /\ ~k.overflowed
         /\ k.pending = <<>> /\ k.batches = j.batches
      \/ j.refs # 0 /\ ~k.overflowed /\ k.pending = <<>> /\ k.batches = <<>>
      \/ /\ j.refs # 0 /\ ~j.overflowed /\ ~k.overflowed /\ k.pending = <<>>
         /\ \E d \in 0..(n + 1) :
              /\ Len(k.batches) = n + 1 - d /\ n + 1 - d <= MaxVersions
              /\ \A i \in 1..(n + 1 - d) :
                   k.batches[i] = IF d + i <= n THEN j.batches[d + i]
                                  ELSE [changes |-> j.pending, version |-> v]

\* These are the ways to commit.
LEMMA CommitCases ==
  ASSUME NEW Changed, NEW j, IsJournal(j, Changed), NEW v \in Nat
  PROVE  LET k == CommitJournal(j, v)
         IN  IsJournal(k, Changed) /\ k.refs = j.refs /\ Committed(j, k, v)
<1> DEFINE k == CommitJournal(j, v)
           n == Len(j.batches)
<1>1. CASE j.refs = 0
  BY <1>1 DEF CommitJournal, Committed
<1>2. CASE j.refs # 0 /\ j.overflowed
  <2>1. k = [j EXCEPT !.pending = <<>>, !.overflowed = FALSE]
    BY <1>2 DEF CommitJournal
  <2> HIDE DEF k
  <2>2. /\ DOMAIN k = JournalFields /\ k = [f \in JournalFields |-> k[f]]
        /\ k.refs = j.refs /\ k.overflowed = FALSE /\ k.pending = <<>> /\ k.batches = j.batches
    BY <2>1 DEF IsJournal, JournalFields
  <2>3. IsJournal(k, Changed)
    BY <2>2, EmptySeq DEF IsJournal
  <2> QED
    BY <2>2, <2>3, <1>2 DEF k, Committed
<1>3. CASE j.refs # 0 /\ ~j.overflowed
  <2> DEFINE b == [changes |-> j.pending, version |-> v]
             l == [j EXCEPT !.batches = Append(@, b), !.pending = <<>>, !.count = @ + Len(j.pending)]
  <2>1. k = Trim(l, v)
    BY <1>3 DEF CommitJournal
  <2>2. b \in BatchOf(Changed)
    BY DEF BatchOf, IsJournal
  <2> HIDE DEF b
  <2>3. /\ Append(j.batches, b) \in Seq(BatchOf(Changed))
        /\ Len(Append(j.batches, b)) = n + 1
        /\ n \in Nat
        /\ \A i \in 1..(n + 1) : Append(j.batches, b)[i] = IF i <= n THEN j.batches[i] ELSE b
    BY <2>2, AppendProperties, LenProperties DEF IsJournal
  <2>4. /\ l.overflowed = FALSE /\ l.refs = j.refs /\ l.pending = <<>>
        /\ l.batches = Append(j.batches, b)
    BY <1>3 DEF IsJournal, JournalFields
  <2>b. DOMAIN l = JournalFields /\ l = [f \in JournalFields |-> l[f]]
    BY DEF IsJournal, JournalFields
  <2>5. IsJournal(l, Changed)
    <3> HIDE DEF l
    <3> QED
      BY <2>3, <2>4, <2>b, EmptySeq, <1>3 DEF IsJournal
  <2> HIDE DEF l
  <2>a. Len(l.batches) = n + 1
    BY <2>3, <2>4
  <2> HIDE DEF k, n
  <2>6. /\ IsJournal(k, Changed) /\ k.refs = j.refs /\ ~k.overflowed /\ k.pending = <<>>
        /\ \/ k.batches = <<>>
           \/ \E d \in 0..(n + 1) :
                /\ Len(k.batches) = n + 1 - d /\ n + 1 - d <= MaxVersions
                /\ \A i \in 1..(n + 1 - d) : k.batches[i] = l.batches[d + i]
    <3> DEFINE t == Trim(l, v)
    <3>1. /\ IsJournal(t, Changed) /\ t.refs = l.refs /\ ~t.overflowed
          /\ \/ t.pending = <<>> /\ t.batches = <<>>
             \/ /\ t.pending = l.pending
                /\ \E d \in 0..Len(l.batches) :
                     /\ Len(t.batches) = Len(l.batches) - d /\ Len(l.batches) - d <= MaxVersions
                     /\ \A i \in 1..(Len(l.batches) - d) : t.batches[i] = l.batches[d + i]
      <4>1. IsJournal(l, Changed) /\ ~l.overflowed
        BY <2>4, <2>5
      <4> QED
        BY <4>1, TrimCases
    <3> HIDE DEF t
    <3>2. k = t
      BY <2>1 DEF t
    <3>3. CASE t.batches = <<>>
      BY <3>1, <3>2, <3>3, <2>4
    <3>4. CASE t.batches # <<>>
      <4>1. PICK d \in 0..Len(l.batches) :
              /\ Len(t.batches) = Len(l.batches) - d /\ Len(l.batches) - d <= MaxVersions
              /\ \A i \in 1..(Len(l.batches) - d) : t.batches[i] = l.batches[d + i]
        BY <3>1, <3>4
      <4>2. /\ d \in 0..(n + 1) /\ Len(t.batches) = n + 1 - d /\ n + 1 - d <= MaxVersions
            /\ \A i \in 1..(n + 1 - d) : t.batches[i] = l.batches[d + i]
        <5>1. Len(l.batches) = n + 1 /\ n \in Nat
          BY <2>a, <2>3
        <5> QED
          BY <4>1, <5>1
      <4> QED
        BY <4>2, <3>1, <3>2, <3>4, <2>4
    <3> QED
      BY <3>3, <3>4
  <2>7. CASE \E d \in 0..(n + 1) :
                /\ Len(k.batches) = n + 1 - d /\ n + 1 - d <= MaxVersions
                /\ \A i \in 1..(n + 1 - d) : k.batches[i] = l.batches[d + i]
    <3>1. PICK d \in 0..(n + 1) :
                /\ Len(k.batches) = n + 1 - d /\ n + 1 - d <= MaxVersions
                /\ \A i \in 1..(n + 1 - d) : k.batches[i] = l.batches[d + i]
      BY <2>7
    <3>2. ASSUME NEW i \in 1..(n + 1 - d)
          PROVE  k.batches[i] = IF d + i <= n THEN j.batches[d + i] ELSE b
      <4>1. d + i \in 1..(n + 1)
        BY <2>3
      <4> QED
        BY <4>1, <3>1, <2>3, <2>4
    <3> QED
      BY <3>1, <3>2, <2>6, <1>3 DEF b, k, n, Committed
  <2> QED
    BY <2>6, <2>7, <1>3 DEF k, n, Committed
<1> QED
  BY <1>1, <1>2, <1>3

\* The first reference and the last one clear the journal.
LEMMA RetainCases ==
  ASSUME NEW Changed, NEW j, IsJournal(j, Changed), NEW v
  PROVE  LET k == Retain(j, v)
         IN  /\ IsJournal(k, Changed) /\ k.refs = j.refs + 1
             /\ \/ k.pending = <<>> /\ k.batches = <<>> /\ ~k.overflowed
                \/ /\ j.refs # 0 /\ k.pending = j.pending /\ k.batches = j.batches
                   /\ k.overflowed = j.overflowed
<1> DEFINE l == [j EXCEPT !.refs = @ + 1]
           k == Retain(j, v)
<1>1. k = IF l.refs = 1 THEN Clear(l, v) ELSE l
  BY DEF Retain
<1>2. /\ DOMAIN l = JournalFields /\ l = [f \in JournalFields |-> l[f]]
      /\ l.refs = j.refs + 1 /\ l.pending = j.pending /\ l.batches = j.batches
      /\ l.overflowed = j.overflowed /\ j.refs \in Nat
  BY DEF IsJournal, JournalFields
<1> HIDE DEF l, k
<1>3. IsJournal(l, Changed)
  BY <1>2 DEF IsJournal
<1>4. CASE l.refs = 1
  BY <1>1, <1>2, <1>3, <1>4, ClearEmpties DEF k
<1>5. CASE l.refs # 1
  BY <1>1, <1>2, <1>3, <1>5 DEF k
<1> QED
  BY <1>4, <1>5

\* The last reference that is released clears the journal; others only count.
LEMMA ReleaseCases ==
  ASSUME NEW Changed, NEW j, IsJournal(j, Changed), NEW v
  PROVE  LET k == Release(j, v)
         IN  /\ IsJournal(k, Changed)
             /\ k.refs = IF j.refs = 0 THEN 0 ELSE j.refs - 1
             /\ \/ k.pending = <<>> /\ k.batches = <<>> /\ ~k.overflowed
                \/ /\ k.refs # 0 /\ j.refs # 0 /\ k.pending = j.pending /\ k.batches = j.batches
                   /\ k.overflowed = j.overflowed
<1> DEFINE l == [j EXCEPT !.refs = IF @ = 0 THEN 0 ELSE @ - 1]
           k == Release(j, v)
           n == IF j.refs = 0 THEN 0 ELSE j.refs - 1
<1>1. k = IF l.refs = 0 THEN Clear(l, v) ELSE l
  BY DEF Release
<1>2. l = [j EXCEPT !.refs = n]
  BY DEF IsJournal, JournalFields
<1>3. n \in Nat /\ (n # 0 => j.refs # 0)
  BY DEF IsJournal
<1> HIDE DEF l, k, n
<1>4. /\ IsJournal(l, Changed) /\ l.refs = n /\ l.pending = j.pending /\ l.batches = j.batches
      /\ l.overflowed = j.overflowed
  BY <1>2, <1>3 DEF IsJournal, JournalFields
<1>5. CASE l.refs = 0
  <2>1. k = Clear(l, v)
    BY <1>1, <1>5
  <2>2. /\ IsJournal(k, Changed) /\ k.refs = l.refs
        /\ k.pending = <<>> /\ k.batches = <<>> /\ ~k.overflowed
    BY <1>4, <2>1, ClearEmpties
  <2>3. k.refs = n
    BY <1>4, <2>2
  <2> QED
    BY <2>2, <2>3 DEF k, n
<1>6. CASE l.refs # 0
  BY <1>1, <1>3, <1>4, <1>6 DEF k, n
<1> QED
  BY <1>5, <1>6
===============================================================================
