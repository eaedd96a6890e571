---------------------------- MODULE QueryDataProofs ----------------------------
(***************************************************************************)
(* Proofs about the data of queries.                                       *)
(*                                                                         *)
(* Whatever is published, patched, deleted and scanned, columns agree with *)
(* rows, keys lead to slots, ordered indexes list every slot once and in   *)
(* their order, and buckets hold the slots of their value.                 *)
(*                                                                         *)
(* However a scan reads and keeps what matches, by a filter's buckets, by  *)
(* an index, in a sorted window or in a heap, its answer is the one that   *)
(* filtering and sorting all rows gives.                                   *)
(*                                                                         *)
(* And whatever a query asks of a field, the plan that the storage         *)
(* evaluates on its columns decides as the query does.                     *)
(***************************************************************************)
EXTENDS DeltaOperationsProofs, QueryPredicates
-------------------------------------------------------------------------------
(* Searching. *)

\* A search by halves finds the cut of a sequence that is above it from there on.
LEMMA BisectFindsCut ==
  ASSUME NEW n \in Nat, NEW k \in 0..n, NEW above,
         \A i \in 1..n : above[i] <=> i > k
  PROVE  Bisect(n, above) = k
<1> DEFINE pairs == (0..n) \X (0..n)
           Halve(f, low, high) ==
             LET middle == (low + high) \div 2
             IN  IF low >= high THEN low
                 ELSE IF above[middle + 1] THEN f[<<low, middle>>]
                 ELSE f[<<middle + 1, high>>]
           Halves(f) == f = [bounds \in pairs |-> Halve(f, bounds[1], bounds[2])]
           cut(low, high) == IF low >= high \/ k < low THEN low ELSE IF k > high THEN high ELSE k
           g == [bounds \in pairs |-> cut(bounds[1], bounds[2])]
           c == CHOOSE f : Halves(f)
<1>1. ASSUME NEW low \in 0..n, NEW high \in 0..n, low < high
      PROVE  LET middle == (low + high) \div 2
             IN  /\ middle \in 0..n /\ middle + 1 \in 1..n /\ middle + 1 \in 0..n
                 /\ low <= middle /\ middle < high
  BY <1>1
<1>2. \A low, high \in 0..n : g[<<low, high>>] = cut(low, high)
  OBVIOUS
<1>3. ASSUME NEW low \in 0..n, NEW high \in 0..n
      PROVE  cut(low, high) =
               LET middle == (low + high) \div 2
               IN  IF low >= high THEN low
                   ELSE IF above[middle + 1] THEN cut(low, middle)
                   ELSE cut(middle + 1, high)
  <2> DEFINE middle == (low + high) \div 2
  <2>1. CASE low >= high
    BY <2>1
  <2>2. CASE low < high
    <3>1. /\ middle \in 0..n /\ middle + 1 \in 1..n /\ low <= middle /\ middle < high
      BY <2>2, <1>1
    <3> HIDE DEF middle
    <3>2. above[middle + 1] <=> middle + 1 > k
      BY <3>1
    <3>3. CASE above[middle + 1]
      <4>1. cut(low, high) = cut(low, middle)
        BY <3>1, <3>2, <3>3, <2>2
      <4> QED
        BY <4>1, <3>3, <2>2 DEF middle
    <3>4. CASE ~above[middle + 1]
      <4>1. cut(low, high) = cut(middle + 1, high)
        BY <3>1, <3>2, <3>4, <2>2
      <4> QED
        BY <4>1, <3>4, <2>2 DEF middle
    <3> QED
      BY <3>3, <3>4
  <2> QED
    BY <2>1, <2>2
<1>4. ASSUME NEW low \in 0..n, NEW high \in 0..n
      PROVE  cut(low, high) = Halve(g, low, high)
  <2> DEFINE middle == (low + high) \div 2
  <2>1. CASE low >= high
    BY <2>1
  <2>2. CASE ~(low >= high)
    <3>1. middle \in 0..n /\ middle + 1 \in 0..n
      BY <2>2, <1>1
    <3>2. g[<<low, middle>>] = cut(low, middle) /\ g[<<middle + 1, high>>] = cut(middle + 1, high)
      <4> HIDE DEF g, middle, cut
      <4> QED
        BY <3>1, <1>2
    <3> HIDE DEF g, cut
    <3> QED
      BY <3>2, <1>3
  <2> QED
    BY <2>1, <2>2
<1>5. Halves(g)
  <2>1. ASSUME NEW bounds \in pairs PROVE g[bounds] = Halve(g, bounds[1], bounds[2])
    <3>1. bounds[1] \in 0..n /\ bounds[2] \in 0..n
      OBVIOUS
    <3>2. g[bounds] = cut(bounds[1], bounds[2])
      OBVIOUS
    <3> HIDE DEF cut, g, Halve
    <3> QED
      BY <3>1, <3>2, <1>4
  <2>2. DOMAIN g = pairs /\ g = [p \in pairs |-> g[p]]
    OBVIOUS
  <2> HIDE DEF g, Halve, pairs
  <2> QED
    BY <2>1, <2>2
<1>6. Halves(c)
  <2> HIDE DEF Halves
  <2> QED
    BY <1>5, Zenon
<1>7. Bisect(n, above) = c[<<0, n>>]
  BY Zenon DEF Bisect
<1> HIDE DEF c, g
<1>8. ASSUME NEW low \in 0..n, NEW high \in 0..n PROVE c[<<low, high>>] = Halve(c, low, high)
  <2>1. <<low, high>> \in pairs /\ <<low, high>>[1] = low /\ <<low, high>>[2] = high
    OBVIOUS
  <2> HIDE DEF Halve, pairs
  <2>2. c[<<low, high>>] = Halve(c, <<low, high>>[1], <<low, high>>[2])
    BY <1>6, <2>1, Zenon
  <2> QED
    BY <2>1, <2>2
<1> DEFINE Off == {d \in Nat : \E low, high \in 0..n : high - low = d /\ c[<<low, high>>] # cut(low, high)}
<1>9. \A low, high \in 0..n : low >= high => c[<<low, high>>] = cut(low, high)
  BY <1>8
<1>10. Off = {}
  <2>1. SUFFICES ASSUME Off # {} PROVE FALSE
    OBVIOUS
  <2>2. PICK d \in Off : \A e \in Off : d <= e
    <3>1. Off \subseteq Nat
      OBVIOUS
    <3> HIDE DEF Off
    <3> QED
      BY <2>1, <3>1, LeastNumber, Zenon
  <2>3. PICK low \in 0..n, high \in 0..n : high - low = d /\ c[<<low, high>>] # cut(low, high)
    BY <2>2
  <2>4. low < high
    BY <2>3, <1>9
  <2> DEFINE middle == (low + high) \div 2
  <2>5. /\ middle \in 0..n /\ middle + 1 \in 0..n /\ low <= middle /\ middle < high
    BY <2>4, <1>1
  <2> HIDE DEF middle, cut
  <2>6. \A x, y \in 0..n : y - x < d => c[<<x, y>>] = cut(x, y)
    <3>1. ASSUME NEW x \in 0..n, NEW y \in 0..n, y - x < d, y - x \in Nat
          PROVE  c[<<x, y>>] = cut(x, y)
      <4>1. y - x \notin Off
        <5>1. d \in Nat /\ ~ (d <= y - x)
          BY <3>1, <2>3
        <5> HIDE DEF Off
        <5> QED
          BY <5>1, <2>2, Zenon
      <4> HIDE DEF cut
      <4> QED
        BY <3>1, <4>1
    <3>2. ASSUME NEW x \in 0..n, NEW y \in 0..n, x >= y PROVE c[<<x, y>>] = cut(x, y)
      BY <3>2, <1>9
    <3>3. \A x, y \in 0..n : x >= y \/ y - x \in Nat
      OBVIOUS
    <3> HIDE DEF Off
    <3> QED
      BY <3>1, <3>2, <3>3
  <2>7. c[<<low, middle>>] = cut(low, middle) /\ c[<<middle + 1, high>>] = cut(middle + 1, high)
    BY <2>5, <2>6, <2>3
  <2>8. c[<<low, high>>] = IF above[middle + 1] THEN c[<<low, middle>>] ELSE c[<<middle + 1, high>>]
    BY <1>8, <2>4 DEF middle
  <2>9. cut(low, high) = IF above[middle + 1] THEN cut(low, middle) ELSE cut(middle + 1, high)
    BY <1>3, <2>4 DEF middle
  <2> QED
    BY <2>3, <2>7, <2>8, <2>9
<1>11. c[<<0, n>>] = cut(0, n)
  <2>1. 0 \in 0..n /\ n \in 0..n /\ n - 0 = n
    OBVIOUS
  <2>2. n \notin Off
    <3> HIDE DEF Off
    <3> QED
      BY <1>10, Zenon
  <2> HIDE DEF cut
  <2> QED
    BY <2>1, <2>2
<1> QED
  BY <1>7, <1>11

-------------------------------------------------------------------------------
(* Lists of slots: the sequences of the ordered indexes. *)

\* What a slot holds.
SlotEntry == [key : RowKeys, row : StoredRows]

\* Slot l comes before slot r in order o: by value, then by key.
Ahead(slots, o, l, r) ==
  LET left  == slots[l].row[o.field]
      right == slots[r].row[o.field]
  IN  IF left = right THEN slots[l].key < slots[r].key
      ELSE IF o.descending THEN left > right ELSE left < right

\* No two slots of S hold the same key.
KeysDiffer(slots, S) == \A l, r \in S : slots[l].key = slots[r].key => l = r

\* The sequence has each slot of S, in order o.
Listed(q, slots, o, S) ==
  /\ q \in Seq(S)
  /\ \A s \in S : \E i \in 1..Len(q) : q[i] = s
  /\ \A i, j \in 1..Len(q) : i < j => Ahead(slots, o, q[i], q[j])

\* Slots with different keys have one order.
LEMMA AheadIsOrder ==
  ASSUME NEW slots \in Seq(SlotEntry), NEW S \in SUBSET (1..Len(slots)), KeysDiffer(slots, S),
         NEW o \in Orders
  PROVE  /\ \A l \in S : ~Ahead(slots, o, l, l)
         /\ \A l, r \in S : l = r \/ Ahead(slots, o, l, r) \/ Ahead(slots, o, r, l)
         /\ \A l, m, r \in S :
              Ahead(slots, o, l, m) /\ Ahead(slots, o, m, r) => Ahead(slots, o, l, r)
<1> DEFINE value(s) == slots[s].row[o.field]
           key(s)   == slots[s].key
<1>1. \A s \in S : value(s) \in Int /\ key(s) \in Nat
  <2>1. ASSUME NEW s \in S PROVE value(s) \in Int /\ key(s) \in Nat
    <3>1. slots[s] \in SlotEntry
      BY ElementOfSeq
    <3>2. slots[s].row \in [Fields -> Int] /\ slots[s].key \in Nat /\ o.field \in Fields
      BY <3>1, StorageAssumption DEF SlotEntry, Orders
    <3> QED
      BY <3>2
  <2> QED
    BY <2>1
<1>2. \A l, r \in S : key(l) = key(r) => l = r
  BY DEF KeysDiffer
<1>3. \A l, r \in S :
        Ahead(slots, o, l, r) <=>
          IF value(l) = value(r) THEN key(l) < key(r)
          ELSE IF o.descending THEN value(l) > value(r) ELSE value(l) < value(r)
  BY DEF Ahead
<1> HIDE DEF value, key
<1>4. \A l \in S : ~Ahead(slots, o, l, l)
  BY <1>1, <1>3
<1>5. ASSUME NEW l \in S, NEW r \in S
      PROVE  l = r \/ Ahead(slots, o, l, r) \/ Ahead(slots, o, r, l)
  <2>1. /\ value(l) \in Int /\ value(r) \in Int /\ key(l) \in Nat /\ key(r) \in Nat
        /\ key(l) = key(r) => l = r
    BY <1>1, <1>2
  <2> QED
    BY <1>3, <2>1
<1>6. ASSUME NEW l \in S, NEW m \in S, NEW r \in S,
             Ahead(slots, o, l, m), Ahead(slots, o, m, r)
      PROVE  Ahead(slots, o, l, r)
  <2>1. /\ value(l) \in Int /\ value(r) \in Int /\ value(m) \in Int
        /\ key(l) \in Nat /\ key(r) \in Nat /\ key(m) \in Nat
    BY <1>1
  <2> QED
    BY <1>3, <2>1, <1>6
<1> QED
  BY <1>4, <1>5, <1>6

\* No slot is listed twice.
LEMMA ListedOnce ==
  ASSUME NEW slots \in Seq(SlotEntry), NEW S \in SUBSET (1..Len(slots)), KeysDiffer(slots, S),
         NEW o \in Orders, NEW q, Listed(q, slots, o, S),
         NEW i \in 1..Len(q), NEW j \in 1..Len(q), q[i] = q[j]
  PROVE  i = j
<1>1. q[i] \in S /\ q[j] \in S
  BY DEF Listed
<1>2. ~Ahead(slots, o, q[i], q[j]) /\ ~Ahead(slots, o, q[j], q[i])
  BY <1>1, AheadIsOrder
<1>3. ~(i < j) /\ ~(j < i)
  BY <1>2 DEF Listed
<1> QED
  BY <1>3

\* A list of other rows in the same slots, if what it looks at is the same.
LEMMA ListedAlike ==
  ASSUME NEW q, NEW slots, NEW others, NEW o, NEW S, Listed(q, slots, o, S),
         \A l, r \in S : Ahead(slots, o, l, r) => Ahead(others, o, l, r)
  PROVE  Listed(q, others, o, S)
BY DEF Listed

\* Where a new slot goes.
LEMMA InsertListed ==
  ASSUME NEW slots \in Seq(SlotEntry), NEW S \in SUBSET (1..Len(slots)),
         NEW x \in 1..Len(slots), x \notin S, KeysDiffer(slots, S \union {x}),
         NEW o \in Orders, NEW q, Listed(q, slots, o, S),
         NEW above, \A i \in 1..Len(q) : above[i] <=> Ahead(slots, o, x, q[i])
  PROVE  Listed(InsertAt(q, Bisect(Len(q), above) + 1, x), slots, o, S \union {x})
<1> DEFINE n == Len(q)
           T == S \union {x}
           Above == {i \in 1..n : above[i]}
<1>1. /\ q \in Seq(S) /\ n \in Nat
      /\ \A i \in 1..n : q[i] \in S
      /\ \A s \in S : \E i \in 1..n : q[i] = s
      /\ \A i, j \in 1..n : i < j => Ahead(slots, o, q[i], q[j])
  BY DEF Listed
<1>2. /\ \A l, r \in T : l = r \/ Ahead(slots, o, l, r) \/ Ahead(slots, o, r, l)
      /\ \A l, m, r \in T :
           Ahead(slots, o, l, m) /\ Ahead(slots, o, m, r) => Ahead(slots, o, l, r)
  <2>1. T \in SUBSET (1..Len(slots))
    OBVIOUS
  <2> QED
    BY <2>1, AheadIsOrder
<1>3. \A i \in 1..n : above[i] <=> Ahead(slots, o, x, q[i])
  OBVIOUS
<1> HIDE DEF n
<1>4. PICK k \in 0..n : \A i \in 1..n : above[i] <=> i > k
  <2>1. CASE Above = {}
    <3>1. n \in 0..n /\ \A i \in 1..n : above[i] <=> i > n
      BY <1>1, <2>1
    <3> QED
      BY <3>1
  <2>2. CASE Above # {}
    <3>1. PICK m \in Above : \A i \in Above : m <= i
      <4>1. Above \subseteq Nat
        BY <1>1
      <4> HIDE DEF Above
      <4> QED
        BY <2>2, <4>1, LeastNumber, Zenon
    <3>2. ASSUME NEW i \in 1..n, i > m - 1 PROVE above[i]
      <4>1. CASE i = m
        BY <4>1
      <4>2. CASE i # m
        <5>1. m \in 1..n /\ m < i
          BY <3>2, <4>2, <1>1
        <5>2. Ahead(slots, o, x, q[m]) /\ Ahead(slots, o, q[m], q[i])
          BY <5>1, <1>1, <1>3
        <5> QED
          BY <5>1, <5>2, <1>1, <1>2, <1>3
      <4> QED
        BY <4>1, <4>2
    <3>3. m - 1 \in 0..n /\ \A i \in 1..n : above[i] => i > m - 1
      BY <3>1, <1>1
    <3> QED
      BY <3>2, <3>3
  <2> QED
    BY <2>1, <2>2
<1>5. Bisect(n, above) = k
  BY <1>1, <1>4, BisectFindsCut
<1> DEFINE before == SubSeq(q, 1, k)
           after  == SubSeq(q, k + 1, n)
           new    == (before \o <<x>>) \o after
<1>6. /\ before \in Seq(T) /\ Len(before) = k /\ \A i \in 1..k : before[i] = q[i]
      /\ after \in Seq(T) /\ Len(after) = n - k /\ \A i \in 1..(n - k) : after[i] = q[k + i]
  <2>1. /\ \A i \in 1..k : q[i] \in T
        /\ \A i \in (k + 1)..n : q[i] \in T
        /\ k \in Int /\ n \in Int /\ k <= n
    BY <1>1, <1>4
  <2>2. /\ SubSeq(q, 1, k) \in Seq(T)
        /\ Len(SubSeq(q, 1, k)) = IF 1 <= k THEN k - 1 + 1 ELSE 0
        /\ \A i \in 1..(k - 1 + 1) : SubSeq(q, 1, k)[i] = q[1 + i - 1]
    BY <2>1, SubSeqProperties
  <2>3. /\ SubSeq(q, k + 1, n) \in Seq(T)
        /\ Len(SubSeq(q, k + 1, n)) = IF k + 1 <= n THEN n - (k + 1) + 1 ELSE 0
        /\ \A i \in 1..(n - (k + 1) + 1) : SubSeq(q, k + 1, n)[i] = q[(k + 1) + i - 1]
    BY <2>1, SubSeqProperties
  <2> QED
    BY <2>1, <2>2, <2>3, <1>4
<1> HIDE DEF before, after
<1>7. /\ before \o <<x>> \in Seq(T) /\ Len(before \o <<x>>) = k + 1
      /\ \A i \in 1..(k + 1) : (before \o <<x>>)[i] = IF i <= k THEN q[i] ELSE x
  <2>1. <<x>> \in Seq(T) /\ Len(<<x>>) = 1 /\ <<x>>[1] = x
    OBVIOUS
  <2> HIDE DEF T
  <2>2. /\ before \o <<x>> \in Seq(T) /\ Len(before \o <<x>>) = Len(before) + Len(<<x>>)
        /\ \A i \in 1..(Len(before) + Len(<<x>>)) :
             (before \o <<x>>)[i] = IF i <= Len(before) THEN before[i] ELSE <<x>>[i - Len(before)]
    <3>1. before \in Seq(T) /\ <<x>> \in Seq(T)
      BY <1>6, <2>1
    <3> QED
      BY <3>1, ConcatProperties
  <2> QED
    BY <1>6, <2>1, <2>2, <1>4
<1>8. /\ new \in Seq(T) /\ Len(new) = n + 1
      /\ \A i \in 1..(n + 1) :
           new[i] = IF i <= k THEN q[i] ELSE IF i = k + 1 THEN x ELSE q[i - 1]
  <2> DEFINE first == before \o <<x>>
  <2>1. /\ first \in Seq(T) /\ Len(first) = k + 1
        /\ \A i \in 1..(k + 1) : first[i] = IF i <= k THEN q[i] ELSE x
        /\ new = first \o after
    BY <1>7
  <2> HIDE DEF first, new, T
  <2>2. /\ first \o after \in Seq(T) /\ Len(first \o after) = Len(first) + Len(after)
        /\ \A i \in 1..(Len(first) + Len(after)) :
             (first \o after)[i] = IF i <= Len(first) THEN first[i] ELSE after[i - Len(first)]
    <3>1. first \in Seq(T) /\ after \in Seq(T)
      BY <1>6, <2>1
    <3> QED
      BY <3>1, ConcatProperties
  <2>3. new \in Seq(T) /\ Len(new) = n + 1
    BY <1>1, <1>4, <1>6, <2>1, <2>2
  <2>4. ASSUME NEW i \in 1..(n + 1)
        PROVE  new[i] = IF i <= k THEN q[i] ELSE IF i = k + 1 THEN x ELSE q[i - 1]
    <3>1. new[i] = IF i <= k + 1 THEN first[i] ELSE after[i - (k + 1)]
      BY <1>1, <1>4, <1>6, <2>1, <2>2, SMTT(30)
    <3>2. CASE i <= k + 1
      BY <3>1, <3>2, <2>1, <1>4, <1>1
    <3>3. CASE i > k + 1
      <4>1. i - (k + 1) \in 1..(n - k) /\ k + (i - (k + 1)) = i - 1
        BY <3>3, <1>1, <1>4
      <4> QED
        BY <3>1, <3>3, <4>1, <1>6, <1>4, <1>1
    <3> QED
      BY <3>2, <3>3, <1>1, <1>4
  <2> QED
    BY <2>3, <2>4
<1>9. InsertAt(q, k + 1, x) = new
  <2>1. k + 1 - 1 = k
    BY <1>1, <1>4
  <2>2. InsertAt(q, k + 1, x) = SubSeq(q, 1, k) \o <<x>> \o SubSeq(q, k + 1, Len(q))
    <3> DEFINE at == k + 1
    <3>1. at - 1 = k
      BY <2>1
    <3> HIDE DEF at
    <3>2. InsertAt(q, at, x) = SubSeq(q, 1, at - 1) \o <<x>> \o SubSeq(q, at, Len(q))
      BY Zenon DEF InsertAt
    <3>3. InsertAt(q, at, x) = SubSeq(q, 1, k) \o <<x>> \o SubSeq(q, at, Len(q))
      BY <3>1, <3>2, Zenon
    <3> QED
      BY <3>3, Zenon DEF at
  <2> QED
    BY <2>2 DEF before, after, n
<1> HIDE DEF new
<1>10. \A s \in T : \E i \in 1..(n + 1) : new[i] = s
  <2>1. k + 1 \in 1..(n + 1) /\ new[k + 1] = x
    BY <1>1, <1>4, <1>8
  <2>2. ASSUME NEW s \in S PROVE \E i \in 1..(n + 1) : new[i] = s
    <3>1. PICK i \in 1..n : q[i] = s
      BY <1>1
    <3>2. CASE i <= k
      <4>1. i \in 1..(n + 1) /\ new[i] = s
        BY <3>1, <3>2, <1>1, <1>8
      <4> QED
        BY <4>1
    <3>3. CASE i > k
      <4>1. i + 1 \in 1..(n + 1) /\ ~(i + 1 <= k) /\ i + 1 # k + 1 /\ i + 1 - 1 = i
        BY <3>3, <1>1, <1>4
      <4>2. new[i + 1] = s
        BY <3>1, <4>1, <1>8
      <4> QED
        BY <4>1, <4>2
    <3> QED
      BY <3>2, <3>3, <1>4, <1>1
  <2> QED
    BY <2>1, <2>2
<1>11. ASSUME NEW i \in 1..(n + 1), NEW j \in 1..(n + 1), i < j
       PROVE  Ahead(slots, o, new[i], new[j])
  <2> USE <1>1, <1>4, <1>11
  <2>1. CASE j <= k
    <3>1. i \in 1..n /\ j \in 1..n /\ i <= k
      BY <2>1
    <3>2. new[i] = q[i] /\ new[j] = q[j]
      BY <2>1, <3>1, <1>8
    <3> QED
      BY <3>1, <3>2
  <2>2. CASE j = k + 1
    <3>1. i \in 1..n /\ i <= k
      BY <2>2
    <3>2. new[i] = q[i] /\ new[j] = x
      BY <2>2, <3>1, <1>8
    <3>3. ~Ahead(slots, o, x, q[i]) /\ q[i] \in S
      BY <3>1, <1>3
    <3> QED
      BY <3>2, <3>3, <1>2
  <2>3. CASE j > k + 1 /\ i <= k
    <3>1. i \in 1..n /\ j - 1 \in 1..n /\ i < j - 1
      BY <2>3
    <3>2. new[i] = q[i] /\ new[j] = q[j - 1]
      BY <2>3, <3>1, <1>8
    <3> QED
      BY <3>1, <3>2
  <2>4. CASE j > k + 1 /\ i = k + 1
    <3>1. j - 1 \in 1..n /\ j - 1 > k
      BY <2>4
    <3>2. new[i] = x /\ new[j] = q[j - 1]
      BY <2>4, <3>1, <1>8
    <3>3. Ahead(slots, o, x, q[j - 1])
      BY <3>1, <1>3
    <3> QED
      BY <3>2, <3>3
  <2>5. CASE j > k + 1 /\ i > k + 1
    <3>1. i - 1 \in 1..n /\ j - 1 \in 1..n /\ i - 1 < j - 1
      BY <2>5
    <3>2. new[i] = q[i - 1] /\ new[j] = q[j - 1]
      BY <2>5, <3>1, <1>8
    <3> QED
      BY <3>1, <3>2
  <2> QED
    BY <2>1, <2>2, <2>3, <2>4, <2>5
<1>12. Listed(new, slots, o, T)
  BY <1>8, <1>10, <1>11 DEF Listed
<1> QED
  BY <1>5, <1>9, <1>12 DEF n

\* A slot that is not listed any more.
LEMMA RemoveListed ==
  ASSUME NEW slots \in Seq(SlotEntry), NEW S \in SUBSET (1..Len(slots)), KeysDiffer(slots, S),
         NEW x \in S, NEW o \in Orders, NEW q, Listed(q, slots, o, S)
  PROVE  Listed(RemoveFirst(q, x), slots, o, S \ {x})
<1> DEFINE n == Len(q)
           T == S \ {x}
<1>1. /\ q \in Seq(S) /\ n \in Nat
      /\ \A i \in 1..n : q[i] \in S
      /\ \A s \in S : \E i \in 1..n : q[i] = s
      /\ \A i, j \in 1..n : i < j => Ahead(slots, o, q[i], q[j])
      /\ \A i, j \in 1..n : q[i] = q[j] => i = j
  BY ListedOnce, SMTT(30) DEF Listed
<1> HIDE DEF n
<1>2. PICK k \in 1..n : q[k] = x
  BY <1>1
<1> DEFINE before == SubSeq(q, 1, k - 1)
           after  == SubSeq(q, k + 1, n)
           new    == before \o after
<1>3. RemoveFirst(q, x) = new
  <2> DEFINE at == {i \in 1..Len(q) : q[i] = x}
  <2>1. at = {k}
    BY <1>1, <1>2 DEF n
  <2>2. \E i \in 1..Len(q) : q[i] = x
    BY <1>2 DEF n
  <2> DEFINE m == Min(at)
  <2>3. m = k
    BY <2>1 DEF Min
  <2>4. RemoveFirst(q, x) = RemoveAt(q, m)
    BY <2>1, <2>2 DEF RemoveFirst, SelectInSeq
  <2> HIDE DEF m
  <2>5. RemoveAt(q, m) = SubSeq(q, 1, m - 1) \o SubSeq(q, m + 1, Len(q))
    BY Zenon DEF RemoveAt
  <2> QED
    BY <2>3, <2>4, <2>5, Zenon DEF n
<1>4. /\ before \in Seq(T) /\ Len(before) = k - 1 /\ \A i \in 1..(k - 1) : before[i] = q[i]
      /\ after \in Seq(T) /\ Len(after) = n - k /\ \A i \in 1..(n - k) : after[i] = q[k + i]
  <2>1. /\ \A i \in 1..(k - 1) : q[i] \in T
        /\ \A i \in (k + 1)..n : q[i] \in T
        /\ k \in Int /\ k - 1 \in Int /\ n \in Int /\ k <= n
    BY <1>1, <1>2
  <2>2. /\ SubSeq(q, 1, k - 1) \in Seq(T)
        /\ Len(SubSeq(q, 1, k - 1)) = IF 1 <= k - 1 THEN (k - 1) - 1 + 1 ELSE 0
        /\ \A i \in 1..((k - 1) - 1 + 1) : SubSeq(q, 1, k - 1)[i] = q[1 + i - 1]
    BY <2>1, SubSeqProperties
  <2>3. /\ SubSeq(q, k + 1, n) \in Seq(T)
        /\ Len(SubSeq(q, k + 1, n)) = IF k + 1 <= n THEN n - (k + 1) + 1 ELSE 0
        /\ \A i \in 1..(n - (k + 1) + 1) : SubSeq(q, k + 1, n)[i] = q[(k + 1) + i - 1]
    BY <2>1, SubSeqProperties
  <2> QED
    BY <2>1, <2>2, <2>3, <1>2
<1> HIDE DEF before, after
<1>5. /\ new \in Seq(T) /\ Len(new) = n - 1
      /\ \A i \in 1..(n - 1) : new[i] = IF i < k THEN q[i] ELSE q[i + 1]
  <2>1. /\ before \o after \in Seq(T) /\ Len(before \o after) = Len(before) + Len(after)
        /\ \A i \in 1..(Len(before) + Len(after)) :
             (before \o after)[i] = IF i <= Len(before) THEN before[i] ELSE after[i - Len(before)]
    BY <1>4, ConcatProperties
  <2> HIDE DEF T
  <2>2. new \in Seq(T) /\ Len(new) = n - 1
    BY <1>1, <1>2, <1>4, <2>1
  <2>3. ASSUME NEW i \in 1..(n - 1) PROVE new[i] = IF i < k THEN q[i] ELSE q[i + 1]
    <3>1. new[i] = IF i <= k - 1 THEN before[i] ELSE after[i - (k - 1)]
      BY <1>1, <1>2, <1>4, <2>1, SMTT(30)
    <3>2. CASE i < k
      BY <3>1, <3>2, <1>4, <1>2, <1>1
    <3>3. CASE i >= k
      <4>1. i - (k - 1) \in 1..(n - k) /\ k + (i - (k - 1)) = i + 1
        BY <3>3, <1>1, <1>2
      <4> QED
        BY <3>1, <3>3, <4>1, <1>4, <1>2, <1>1
    <3>4. i < k \/ i >= k
      BY <1>1, <1>2
    <3> QED
      BY <3>2, <3>3, <3>4, Zenon
  <2> QED
    BY <2>2, <2>3
<1> HIDE DEF new
<1>6. ASSUME NEW s \in T PROVE \E i \in 1..(n - 1) : new[i] = s
  <2>1. PICK i \in 1..n : q[i] = s
    BY <1>1
  <2>2. CASE i < k
    <3>1. i \in 1..(n - 1) /\ new[i] = s
      BY <2>1, <2>2, <1>1, <1>2, <1>5
    <3> QED
      BY <3>1
  <2>3. CASE i > k
    <3>1. i - 1 \in 1..(n - 1) /\ ~(i - 1 < k) /\ i - 1 + 1 = i
      BY <2>3, <1>1, <1>2
    <3>2. new[i - 1] = s
      BY <2>1, <3>1, <1>5
    <3> QED
      BY <3>1, <3>2
  <2> QED
    BY <2>1, <2>2, <2>3, <1>1, <1>2
<1>7. ASSUME NEW i \in 1..(n - 1), NEW j \in 1..(n - 1), i < j
      PROVE  Ahead(slots, o, new[i], new[j])
  <2> USE <1>1, <1>2, <1>7
  <2>1. /\ i \in 1..n /\ j \in 1..n /\ i + 1 \in 1..n /\ j + 1 \in 1..n
        /\ i + 1 < j + 1 /\ i < j + 1
    OBVIOUS
  <2>2. new[i] = (IF i < k THEN q[i] ELSE q[i + 1]) /\ new[j] = IF j < k THEN q[j] ELSE q[j + 1]
    BY <1>5
  <2>3. CASE i < k /\ j < k
    BY <2>1, <2>2, <2>3
  <2>4. CASE i < k /\ ~(j < k)
    BY <2>1, <2>2, <2>4
  <2>5. CASE ~(i < k)
    <3>1. ~(j < k)
      BY <2>5
    <3> QED
      BY <2>1, <2>2, <2>5, <3>1
  <2> QED
    BY <2>3, <2>4, <2>5
<1>8. Listed(new, slots, o, T)
  BY <1>5, <1>6, <1>7 DEF Listed
<1> QED
  BY <1>3, <1>8

\* A list has as many elements as there are slots.
LEMMA ListedLength ==
  ASSUME NEW slots \in Seq(SlotEntry), NEW n \in Nat, n <= Len(slots), KeysDiffer(slots, 1..n),
         NEW o \in Orders, NEW q, Listed(q, slots, o, 1..n)
  PROVE  Len(q) = n
<1> DEFINE S == 1..n
<1>1. S \in SUBSET (1..Len(slots))
  BY LenProperties
<1>2. /\ q \in [1..Len(q) -> S] /\ Len(q) \in Nat
      /\ \A s \in S : \E i \in 1..Len(q) : q[i] = s
  <2>1. q \in Seq(S) /\ \A s \in S : \E i \in 1..Len(q) : q[i] = s
    BY DEF Listed
  <2> QED
    BY <2>1, LenProperties, Zenon
<1>3. \A i, j \in 1..Len(q) : q[i] = q[j] => i = j
  BY <1>1, ListedOnce
<1>4. ExistsBijection(1..Len(q), S)
  <2>1. q \in Bijection(1..Len(q), S)
    BY <1>2, <1>3 DEF Bijection, Injection, Surjection, IsInjective
  <2> QED
    BY <2>1 DEF ExistsBijection
<1>5. Cardinality(S) = Len(q)
  BY <1>2, <1>4, FS_CountingElements
<1>6. Cardinality(S) = n
  BY FS_Interval
<1> QED
  BY <1>5, <1>6

-------------------------------------------------------------------------------
(* Storages and what indexes hold of them. *)

\* What a storage consists of.
Parts == {"slots", "columns", "keyToSlot", "ordered", "buckets"}

\* The slots that bucket b holds, of those of S.
Held(slots, b, S) == {s \in S : slots[s].row[b.field] = b.value /\ b.value # MissingValue}

\* A storage whose columns agree with its rows.
IsStorage(st) ==
  /\ DOMAIN st = Parts
  /\ st.slots \in Seq(SlotEntry)
  /\ st.columns = [f \in Fields |-> [s \in 1..Len(st.slots) |-> st.slots[s].row[f]]]
  /\ DOMAIN st.ordered \subseteq Orders
  /\ DOMAIN st.buckets \subseteq [field : Fields, value : Int]

\* The indexes of these orders list the slots of S; the buckets hold those of S.
OrdersList(st, orders, S) == \A o \in orders : Listed(st.ordered[o], st.slots, o, S)
BucketsHold(st, S)        == \A b \in DOMAIN st.buckets : st.buckets[b] = Held(st.slots, b, S)

\* The storage and its indexes are about the slots of S.
Indexed(st, S) ==
  /\ IsStorage(st)
  /\ S \subseteq 1..Len(st.slots)
  /\ KeysDiffer(st.slots, S)
  /\ OrdersList(st, DOMAIN st.ordered, S)
  /\ BucketsHold(st, S)

\* The keys of the slots of S are stored, and lead there.
KeysLead(st, S) ==
  /\ st.keyToSlot = [k \in DOMAIN st.keyToSlot |-> st.keyToSlot[k]]
  /\ DOMAIN st.keyToSlot = {st.slots[s].key : s \in S}
  /\ \A s \in S : st.keyToSlot[st.slots[s].key] = s

\* The inductive invariant: every slot has a key of its own that leads to it, and is in
\* every index.
StorageInv(st) == Indexed(st, 1..Len(st.slots)) /\ KeysLead(st, 1..Len(st.slots))

\* A slot's values are in the columns.
LEMMA ValueOfRow ==
  ASSUME NEW st, IsStorage(st), NEW f \in Fields, NEW s \in 1..Len(st.slots)
  PROVE  /\ Value(st, f, s) = st.slots[s].row[f]
         /\ st.slots[s] \in SlotEntry /\ st.slots[s].row \in StoredRows /\ st.slots[s].key \in RowKeys
<1>1. Value(st, f, s) = st.slots[s].row[f]
  BY DEF IsStorage, Value
<1>2. st.slots[s] \in SlotEntry
  BY ElementOfSeq DEF IsStorage
<1> QED
  BY <1>1, <1>2 DEF SlotEntry

\* An order by one field compares what is in its column, then keys.
LEMMA PrecedesIsAhead ==
  ASSUME NEW st, IsStorage(st), NEW o \in Orders,
         NEW l \in 1..Len(st.slots), NEW r \in 1..Len(st.slots)
  PROVE  Precedes(st, <<o>>, l, r) <=> Ahead(st.slots, o, l, r)
<1> DEFINE by     == <<o>>
           left   == Value(st, o.field, l)
           right  == Value(st, o.field, r)
           differ == {i \in DOMAIN by : Value(st, by[i].field, l) # Value(st, by[i].field, r)}
           first  == Min(differ)
<1>1. o.field \in Fields
  BY DEF Orders
<1>2. left = st.slots[l].row[o.field] /\ right = st.slots[r].row[o.field]
  BY <1>1, ValueOfRow
<1>3. DOMAIN by = {1} /\ by[1] = o
  OBVIOUS
<1>4. Precedes(st, by, l, r) <=>
        IF differ = {} THEN st.slots[l].key < st.slots[r].key
        ELSE IF by[first].descending
             THEN Value(st, by[first].field, l) > Value(st, by[first].field, r)
             ELSE Value(st, by[first].field, l) < Value(st, by[first].field, r)
  BY DEF Precedes
<1> HIDE DEF by
<1>5. CASE left = right
  <2>1. differ = {}
    BY <1>3, <1>5
  <2> HIDE DEF differ, left, right
  <2> QED
    BY <1>2, <1>4, <1>5, <2>1 DEF Ahead, by
<1>6. CASE left # right
  <2>1. differ = {1}
    BY <1>3, <1>6
  <2>2. first = 1
    BY <2>1 DEF Min
  <2>3. differ # {}
    BY <2>1
  <2> HIDE DEF differ, first
  <2>4. Precedes(st, by, l, r) <=> IF o.descending THEN left > right ELSE left < right
    BY <1>3, <1>4, <2>2, <2>3
  <2> HIDE DEF left, right
  <2> QED
    BY <1>2, <1>6, <2>4 DEF Ahead, by
<1> QED
  BY <1>5, <1>6

-------------------------------------------------------------------------------
(* What the operators on indexes and rows do. *)

\* What the storage has apart from its indexes.
SameRows(t, st) ==
  /\ DOMAIN t = DOMAIN st /\ t.slots = st.slots /\ t.columns = st.columns
  /\ t.keyToSlot = st.keyToSlot

\* Its buckets, and its ordered indexes.
SameBuckets(t, st) == t.buckets = st.buckets
SameOrdered(t, st) == t.ordered = st.ordered

\* No index but those of the orders is another one.
SameOthers(t, st, orders) ==
  /\ DOMAIN t.ordered = DOMAIN st.ordered
  /\ \A o \in DOMAIN st.ordered \ orders : t.ordered[o] = st.ordered[o]

\* A slot is in its buckets.
LEMMA BucketOfRow ==
  ASSUME NEW st, IsStorage(st), NEW b \in DOMAIN st.buckets, NEW s \in 1..Len(st.slots)
  PROVE  InBucket(st, b, s) <=> st.slots[s].row[b.field] = b.value /\ b.value # MissingValue
<1>1. b.field \in Fields
  BY DEF IsStorage
<1> QED
  BY <1>1, ValueOfRow DEF InBucket

\* A slot enters its buckets; a bucket that is full is given up.
LEMMA AddEffect ==
  ASSUME NEW st, IsStorage(st), NEW slot \in 1..Len(st.slots),
         NEW S \in SUBSET (1..Len(st.slots)), BucketsHold(st, S),
         NEW t, t = AddToBuckets(st, slot)
  PROVE  /\ SameRows(t, st) /\ SameOrdered(t, st)
         /\ IsStorage(t) /\ BucketsHold(t, S \union {slot})
<1> DEFINE grown == [b \in DOMAIN st.buckets |->
                  IF InBucket(st, b, slot) THEN st.buckets[b] \union {slot} ELSE st.buckets[b]]
           kept  == {b \in DOMAIN grown : Cardinality(grown[b]) <= MaxBucket}
           after == [b \in kept |-> grown[b]]
<1>1. t = [st EXCEPT !.buckets = after]
  BY DEF AddToBuckets
<1>2. kept \subseteq DOMAIN st.buckets /\ DOMAIN after = kept
  OBVIOUS
<1>3. ASSUME NEW b \in kept PROVE after[b] = Held(st.slots, b, S \union {slot})
  <2>1. InBucket(st, b, slot) <=> st.slots[slot].row[b.field] = b.value /\ b.value # MissingValue
    BY BucketOfRow
  <2>2. st.buckets[b] = Held(st.slots, b, S)
    BY DEF BucketsHold
  <2>3. after[b] = IF InBucket(st, b, slot) THEN st.buckets[b] \union {slot} ELSE st.buckets[b]
    OBVIOUS
  <2> HIDE DEF after, kept
  <2> QED
    BY <2>1, <2>2, <2>3 DEF Held
<1> HIDE DEF kept, after
<1>4. SameRows(t, st) /\ t.ordered = st.ordered /\ t.buckets = after
  BY <1>1 DEF IsStorage, Parts, SameRows
<1>5. IsStorage(t)
  BY <1>2, <1>4 DEF IsStorage, SameRows
<1>6. BucketsHold(t, S \union {slot})
  BY <1>2, <1>3, <1>4 DEF BucketsHold, SameRows
<1> QED
  BY <1>4, <1>5, <1>6 DEF SameOrdered

\* A slot leaves its buckets.
LEMMA RemoveEffect ==
  ASSUME NEW st, IsStorage(st), NEW slot \in 1..Len(st.slots),
         NEW S \in SUBSET (1..Len(st.slots)), BucketsHold(st, S),
         NEW t, t = RemoveFromBuckets(st, slot)
  PROVE  /\ SameRows(t, st) /\ SameOrdered(t, st)
         /\ IsStorage(t) /\ BucketsHold(t, S \ {slot})
<1> DEFINE after == [b \in DOMAIN st.buckets |->
                  IF InBucket(st, b, slot) THEN st.buckets[b] \ {slot} ELSE st.buckets[b]]
<1>1. t = [st EXCEPT !.buckets = after]
  BY DEF RemoveFromBuckets
<1>2. DOMAIN after = DOMAIN st.buckets
  OBVIOUS
<1>3. ASSUME NEW b \in DOMAIN st.buckets PROVE after[b] = Held(st.slots, b, S \ {slot})
  <2>1. InBucket(st, b, slot) <=> st.slots[slot].row[b.field] = b.value /\ b.value # MissingValue
    BY BucketOfRow
  <2>2. st.buckets[b] = Held(st.slots, b, S)
    BY DEF BucketsHold
  <2>3. after[b] = IF InBucket(st, b, slot) THEN st.buckets[b] \ {slot} ELSE st.buckets[b]
    OBVIOUS
  <2> HIDE DEF after
  <2> QED
    BY <2>1, <2>2, <2>3 DEF Held
<1> HIDE DEF after
<1>4. SameRows(t, st) /\ t.ordered = st.ordered /\ t.buckets = after
  BY <1>1 DEF IsStorage, Parts, SameRows
<1>5. IsStorage(t)
  BY <1>2, <1>4 DEF IsStorage, SameRows
<1>6. BucketsHold(t, S \ {slot})
  BY <1>2, <1>3, <1>4 DEF BucketsHold, SameRows
<1> QED
  BY <1>4, <1>5, <1>6 DEF SameOrdered

\* A slot enters ordered indexes.
LEMMA IndexEffect ==
  ASSUME NEW st, IsStorage(st), NEW slot \in 1..Len(st.slots),
         NEW S \in SUBSET (1..Len(st.slots)), slot \notin S,
         KeysDiffer(st.slots, S \union {slot}),
         NEW orders \in SUBSET DOMAIN st.ordered, OrdersList(st, orders, S),
         NEW t, t = IndexSlot(st, orders, slot)
  PROVE  /\ SameRows(t, st) /\ SameBuckets(t, st) /\ SameOthers(t, st, orders)
         /\ IsStorage(t) /\ OrdersList(t, orders, S \union {slot})
<1> DEFINE after == [o \in DOMAIN st.ordered |->
              IF o \in orders THEN InsertSorted(st, <<o>>, st.ordered[o], slot) ELSE st.ordered[o]]
<1>1. t = [st EXCEPT !.ordered = after]
  BY DEF IndexSlot
<1>2. DOMAIN after = DOMAIN st.ordered /\ \A o \in DOMAIN st.ordered \ orders : after[o] = st.ordered[o]
  OBVIOUS
<1>3. ASSUME NEW o \in orders PROVE Listed(after[o], st.slots, o, S \union {slot})
  <2> DEFINE q == st.ordered[o]
  <2>1. Listed(q, st.slots, o, S) /\ o \in Orders /\ st.slots \in Seq(SlotEntry)
    BY DEF OrdersList, IsStorage
  <2>2. after[o] = InsertSorted(st, <<o>>, q, slot)
    OBVIOUS
  <2> HIDE DEF q, after
  <2>3. q \in Seq(S)
    BY <2>1 DEF Listed
  <2>4. DOMAIN q = 1..Len(q) /\ \A i \in 1..Len(q) : q[i] \in 1..Len(st.slots)
    BY <2>3, LenProperties, ElementOfSeq
  <2> DEFINE above == [i \in DOMAIN q |-> Precedes(st, <<o>>, slot, q[i])]
  <2>5. \A i \in 1..Len(q) : above[i] <=> Ahead(st.slots, o, slot, q[i])
    BY <2>1, <2>4, PrecedesIsAhead
  <2>6. after[o] = InsertAt(q, Bisect(Len(q), above) + 1, slot)
    BY <2>2, Zenon DEF InsertSorted
  <2> HIDE DEF above
  <2> QED
    BY <2>1, <2>5, <2>6, InsertListed
<1> HIDE DEF after
<1>4. SameRows(t, st) /\ t.buckets = st.buckets /\ t.ordered = after
  BY <1>1 DEF IsStorage, Parts, SameRows
<1>5. IsStorage(t)
  BY <1>2, <1>4 DEF IsStorage, SameRows
<1>6. OrdersList(t, orders, S \union {slot})
  BY <1>3, <1>4 DEF OrdersList, SameRows
<1> QED
  BY <1>2, <1>4, <1>5, <1>6 DEF SameBuckets, SameOthers

\* A slot leaves ordered indexes.
LEMMA UnindexEffect ==
  ASSUME NEW st, IsStorage(st), NEW S \in SUBSET (1..Len(st.slots)), NEW slot \in S,
         KeysDiffer(st.slots, S),
         NEW orders \in SUBSET DOMAIN st.ordered, OrdersList(st, orders, S),
         NEW t, t = UnindexSlot(st, orders, slot)
  PROVE  /\ SameRows(t, st) /\ SameBuckets(t, st) /\ SameOthers(t, st, orders)
         /\ IsStorage(t) /\ OrdersList(t, orders, S \ {slot})
<1> DEFINE after == [o \in DOMAIN st.ordered |->
              IF o \in orders THEN RemoveFirst(st.ordered[o], slot) ELSE st.ordered[o]]
<1>1. t = [st EXCEPT !.ordered = after]
  BY DEF UnindexSlot
<1>2. DOMAIN after = DOMAIN st.ordered /\ \A o \in DOMAIN st.ordered \ orders : after[o] = st.ordered[o]
  OBVIOUS
<1>3. ASSUME NEW o \in orders PROVE Listed(after[o], st.slots, o, S \ {slot})
  <2>1. Listed(st.ordered[o], st.slots, o, S) /\ o \in Orders /\ st.slots \in Seq(SlotEntry)
    BY DEF OrdersList, IsStorage
  <2>2. after[o] = RemoveFirst(st.ordered[o], slot)
    OBVIOUS
  <2> HIDE DEF after
  <2> QED
    BY <2>1, <2>2, RemoveListed
<1> HIDE DEF after
<1>4. SameRows(t, st) /\ t.buckets = st.buckets /\ t.ordered = after
  BY <1>1 DEF IsStorage, Parts, SameRows
<1>5. IsStorage(t)
  BY <1>2, <1>4 DEF IsStorage, SameRows
<1>6. OrdersList(t, orders, S \ {slot})
  BY <1>3, <1>4 DEF OrdersList, SameRows
<1> QED
  BY <1>2, <1>4, <1>5, <1>6 DEF SameBuckets, SameOthers

\* Indexes of slots that keep their rows.
LEMMA OtherSlots ==
  ASSUME NEW st, NEW t, NEW S, \A s \in S : t.slots[s] = st.slots[s],
         t.ordered = st.ordered, t.buckets = st.buckets
  PROVE  /\ \A orders : OrdersList(st, orders, S) => OrdersList(t, orders, S)
         /\ BucketsHold(st, S) => BucketsHold(t, S)
<1>1. \A o : \A l, r \in S : Ahead(st.slots, o, l, r) => Ahead(t.slots, o, l, r)
  BY DEF Ahead
<1>2. ASSUME NEW orders, OrdersList(st, orders, S) PROVE OrdersList(t, orders, S)
  <2>1. ASSUME NEW o \in orders PROVE Listed(t.ordered[o], t.slots, o, S)
    <3>1. Listed(st.ordered[o], st.slots, o, S)
      BY <1>2 DEF OrdersList
    <3> QED
      BY <3>1, <1>1, ListedAlike
  <2> QED
    BY <2>1 DEF OrdersList
<1>3. \A b : Held(st.slots, b, S) = Held(t.slots, b, S)
  BY DEF Held
<1> QED
  BY <1>2, <1>3 DEF BucketsHold

\* A row is written to a slot, perhaps a new one.
LEMMA WriteEffect ==
  ASSUME NEW st, IsStorage(st), NEW slot \in 1..(Len(st.slots) + 1),
         NEW key \in RowKeys, NEW row \in StoredRows,
         NEW t, t = WriteSlot(st, slot, key, row)
  PROVE  /\ IsStorage(t) /\ t.keyToSlot = st.keyToSlot
         /\ t.ordered = st.ordered /\ t.buckets = st.buckets
         /\ Len(t.slots) = IF slot > Len(st.slots) THEN Len(st.slots) + 1 ELSE Len(st.slots)
         /\ t.slots[slot] = [key |-> key, row |-> row]
         /\ \A s \in 1..Len(st.slots) : s # slot => t.slots[s] = st.slots[s]
<1> DEFINE n     == Len(st.slots)
           entry == [key |-> key, row |-> row]
           put(s, x) == IF slot > Len(s) THEN Append(s, x) ELSE [s EXCEPT ![slot] = x]
           slots   == put(st.slots, entry)
           columns == [f \in Fields |-> put(st.columns[f], row[f])]
<1>1. n \in Nat /\ st.slots \in Seq(SlotEntry) /\ entry \in SlotEntry
  BY LenProperties DEF IsStorage, SlotEntry
<1>2. t = [st EXCEPT !.slots = slots, !.columns = columns]
  BY DEF WriteSlot
<1> HIDE DEF entry
<1>3. /\ slots \in Seq(SlotEntry) /\ Len(slots) = IF slot > n THEN n + 1 ELSE n
      /\ slots[slot] = entry
      /\ \A s \in 1..n : s # slot => slots[s] = st.slots[s]
  <2>1. CASE slot > n
    <3>1. slot = n + 1
      BY <1>1, <2>1
    <3>2. slots = Append(st.slots, entry)
      BY <2>1
    <3> HIDE DEF slots
    <3> QED
      BY <1>1, <2>1, <3>1, <3>2, AppendProperties
  <2>2. CASE ~(slot > n)
    <3>1. slot \in 1..n
      BY <1>1, <2>2
    <3>2. slots = [st.slots EXCEPT ![slot] = entry]
      BY <2>2
    <3> HIDE DEF slots
    <3> QED
      BY <1>1, <2>2, <3>1, <3>2, ExceptSeq
  <2> QED
    BY <2>1, <2>2
<1>4. ASSUME NEW f \in Fields
      PROVE  columns[f] = [s \in 1..Len(slots) |-> slots[s].row[f]]
  <2> DEFINE c == st.columns[f]
             d == [s \in 1..Len(slots) |-> slots[s].row[f]]
  <2>1. c = [s \in 1..n |-> st.slots[s].row[f]]
    BY DEF IsStorage
  <2>2. c \in Seq(Int) /\ Len(c) = n /\ row[f] \in Int
    <3>1. \A s \in 1..n : st.slots[s].row[f] \in Int
      <4>1. ASSUME NEW s \in 1..n PROVE st.slots[s].row[f] \in Int
        <5>1. st.slots[s] \in SlotEntry
          BY <1>1, ElementOfSeq
        <5> QED
          BY <5>1, StorageAssumption DEF SlotEntry
      <4> QED
        BY <4>1
    <3>2. c \in [1..n -> Int]
      BY <2>1, <3>1
    <3>3. row[f] \in Int
      BY StorageAssumption
    <3> QED
      BY <1>1, <3>2, <3>3
  <2>3. columns[f] = put(c, row[f])
    OBVIOUS
  <2>4. entry.row[f] = row[f]
    BY DEF entry
  <2> HIDE DEF c, slots, columns
  <2>5. CASE slot > n
    <3>1. slot = n + 1
      BY <1>1, <2>5
    <3>2. columns[f] = Append(c, row[f])
      BY <2>2, <2>3, <2>5
    <3>3. /\ Append(c, row[f]) \in Seq(Int) /\ Len(Append(c, row[f])) = n + 1
          /\ \A s \in 1..n : Append(c, row[f])[s] = c[s]
          /\ Append(c, row[f])[n + 1] = row[f]
      BY <2>2, AppendProperties
    <3>4. DOMAIN Append(c, row[f]) = 1..(n + 1)
      BY <3>3, LenProperties
    <3>5. \A s \in 1..(n + 1) : Append(c, row[f])[s] = d[s]
      BY <1>1, <1>3, <2>1, <2>4, <2>5, <3>1, <3>3
    <3>6. Append(c, row[f]) = [s \in 1..(n + 1) |-> Append(c, row[f])[s]]
      BY <3>3, <3>4, LenProperties
    <3>7. DOMAIN d = 1..(n + 1) /\ d = [s \in 1..(n + 1) |-> d[s]]
      BY <1>3, <2>5
    <3> HIDE DEF d
    <3>8. Append(c, row[f]) = d
      BY <3>5, <3>6, <3>7
    <3> QED
      BY <3>2, <3>8 DEF d
  <2>6. CASE ~(slot > n)
    <3>1. slot \in 1..n
      BY <1>1, <2>6
    <3>2. columns[f] = [c EXCEPT ![slot] = row[f]]
      BY <2>2, <2>3, <2>6
    <3> QED
      BY <1>1, <1>3, <2>1, <2>4, <2>6, <3>1, <3>2
  <2> QED
    BY <2>5, <2>6
<1>5. columns = [f \in Fields |-> [s \in 1..Len(slots) |-> slots[s].row[f]]]
  <2>1. columns = [f \in Fields |-> columns[f]]
    OBVIOUS
  <2> HIDE DEF columns, slots
  <2> QED
    BY <1>4, <2>1
<1> HIDE DEF slots, columns
<1>6. /\ DOMAIN t = Parts /\ t.slots = slots /\ t.columns = columns
      /\ t.keyToSlot = st.keyToSlot /\ t.ordered = st.ordered /\ t.buckets = st.buckets
  BY <1>2 DEF IsStorage, Parts
<1>7. IsStorage(t)
  BY <1>3, <1>5, <1>6 DEF IsStorage
<1> QED
  BY <1>3, <1>6, <1>7 DEF entry

-------------------------------------------------------------------------------
(* Mutations keep the invariant. *)

\* A slot leaves the indexes.
LEMMA LeaveIndexes ==
  ASSUME NEW st, NEW S, Indexed(st, S), NEW slot \in S,
         NEW t, t = UnindexSlot(RemoveFromBuckets(st, slot), DOMAIN st.ordered, slot)
  PROVE  /\ SameRows(t, st) /\ SameOthers(t, st, DOMAIN st.ordered)
         /\ Indexed(t, S \ {slot})
<1> DEFINE r == RemoveFromBuckets(st, slot)
           D == DOMAIN st.ordered
<1>1. /\ IsStorage(st) /\ S \in SUBSET (1..Len(st.slots)) /\ slot \in 1..Len(st.slots)
      /\ KeysDiffer(st.slots, S) /\ OrdersList(st, D, S) /\ BucketsHold(st, S)
  BY DEF Indexed
<1>2. /\ SameRows(r, st) /\ SameOrdered(r, st)
      /\ IsStorage(r) /\ BucketsHold(r, S \ {slot})
  BY <1>1, RemoveEffect
<1>3. t = UnindexSlot(r, D, slot)
  OBVIOUS
<1> HIDE DEF r
<1>4. S \in SUBSET (1..Len(r.slots)) /\ KeysDiffer(r.slots, S) /\ OrdersList(r, D, S)
      /\ D \in SUBSET DOMAIN r.ordered
  BY <1>1, <1>2 DEF SameRows, SameOrdered, OrdersList
<1> HIDE DEF D
<1>5. /\ SameRows(t, r) /\ SameBuckets(t, r) /\ SameOthers(t, r, D)
      /\ IsStorage(t) /\ OrdersList(t, D, S \ {slot})
  <2>1. IsStorage(r)
    BY <1>2
  <2>2. OrdersList(r, D, S) /\ KeysDiffer(r.slots, S)
    BY <1>4
  <2> QED
    BY <1>3, <1>4, <2>1, <2>2, UnindexEffect
<1>6. BucketsHold(t, S \ {slot})
  BY <1>2, <1>5 DEF BucketsHold, SameRows, SameBuckets
<1>7. SameRows(t, st) /\ SameOthers(t, st, D) /\ DOMAIN t.ordered = D
  BY <1>2, <1>5 DEF SameRows, SameOrdered, SameOthers, D
<1>8. S \ {slot} \subseteq 1..Len(t.slots) /\ KeysDiffer(t.slots, S \ {slot})
  BY <1>1, <1>7 DEF SameRows, KeysDiffer
<1> QED
  BY <1>5, <1>6, <1>7, <1>8 DEF Indexed, D

\* A slot enters the indexes.
LEMMA EnterIndexes ==
  ASSUME NEW st, NEW S, Indexed(st, S), NEW slot \in 1..Len(st.slots), slot \notin S,
         KeysDiffer(st.slots, S \union {slot}),
         NEW t, t = IndexSlot(AddToBuckets(st, slot), DOMAIN st.ordered, slot)
  PROVE  /\ SameRows(t, st) /\ SameOthers(t, st, DOMAIN st.ordered)
         /\ Indexed(t, S \union {slot})
<1> DEFINE r == AddToBuckets(st, slot)
           D == DOMAIN st.ordered
<1>1. /\ IsStorage(st) /\ S \in SUBSET (1..Len(st.slots))
      /\ OrdersList(st, D, S) /\ BucketsHold(st, S)
  BY DEF Indexed
<1>2. /\ SameRows(r, st) /\ SameOrdered(r, st)
      /\ IsStorage(r) /\ BucketsHold(r, S \union {slot})
  BY <1>1, AddEffect
<1>3. t = IndexSlot(r, D, slot)
  OBVIOUS
<1> HIDE DEF r
<1>4. /\ S \in SUBSET (1..Len(r.slots)) /\ slot \in 1..Len(r.slots)
      /\ KeysDiffer(r.slots, S \union {slot}) /\ OrdersList(r, D, S) /\ D \in SUBSET DOMAIN r.ordered
  BY <1>1, <1>2 DEF SameRows, SameOrdered, OrdersList
<1> HIDE DEF D
<1>5. /\ SameRows(t, r) /\ SameBuckets(t, r) /\ SameOthers(t, r, D)
      /\ IsStorage(t) /\ OrdersList(t, D, S \union {slot})
  <2>1. IsStorage(r) /\ OrdersList(r, D, S)
    BY <1>2, <1>4
  <2>2. KeysDiffer(r.slots, S \union {slot})
    BY <1>4
  <2> QED
    BY <1>3, <1>4, <2>1, <2>2, IndexEffect
<1>6. BucketsHold(t, S \union {slot})
  BY <1>2, <1>5 DEF BucketsHold, SameRows, SameBuckets
<1>7. SameRows(t, st) /\ SameOthers(t, st, D) /\ DOMAIN t.ordered = D
  BY <1>2, <1>5 DEF SameRows, SameOrdered, SameOthers, D
<1>8. S \union {slot} \subseteq 1..Len(t.slots) /\ KeysDiffer(t.slots, S \union {slot})
  BY <1>1, <1>7 DEF SameRows, KeysDiffer
<1> QED
  BY <1>5, <1>6, <1>7, <1>8 DEF Indexed, D

\* A storage with other rows in the slots that are not indexed.
LEMMA OthersWritten ==
  ASSUME NEW st, NEW S, Indexed(st, S), NEW t, IsStorage(t),
         S \subseteq 1..Len(t.slots), \A s \in S : t.slots[s] = st.slots[s],
         t.ordered = st.ordered, t.buckets = st.buckets
  PROVE  Indexed(t, S)
<1>1. KeysDiffer(t.slots, S)
  BY DEF KeysDiffer, Indexed
<1>2. OrdersList(t, DOMAIN t.ordered, S) /\ BucketsHold(t, S)
  BY OtherSlots DEF Indexed
<1> QED
  BY <1>1, <1>2 DEF Indexed

\* A row with a new key.
LEMMA SetNew ==
  ASSUME NEW st, StorageInv(st), NEW key \in RowKeys, NEW row \in StoredRows,
         NEW patched, key \notin Stored(st)
  PROVE  StorageInv(SetPrepared(st, key, row, patched))
<1> DEFINE n == Len(st.slots)
           slot == n + 1
           append == [st EXCEPT !.keyToSlot = [k \in Stored(st) \union {key} |->
                                IF k = key THEN slot ELSE @[k]]]
           w == WriteSlot(append, slot, key, row)
           t == IndexSlot(AddToBuckets(w, slot), DOMAIN st.ordered, slot)
<1>1. /\ Indexed(st, 1..n) /\ IsStorage(st) /\ KeysLead(st, 1..n)
      /\ KeysDiffer(st.slots, 1..n) /\ n \in Nat
  BY LenProperties DEF StorageInv, Indexed, IsStorage
<1>2. SetPrepared(st, key, row, patched) = t
  BY DEF SetPrepared
<1>3. /\ DOMAIN append = DOMAIN st /\ append.slots = st.slots /\ append.columns = st.columns
      /\ append.ordered = st.ordered /\ append.buckets = st.buckets
      /\ append.keyToSlot = [k \in Stored(st) \union {key} |->
                               IF k = key THEN slot ELSE st.keyToSlot[k]]
  BY <1>1 DEF IsStorage, Parts
<1> HIDE DEF append
<1>4. IsStorage(append)
  BY <1>1, <1>3 DEF IsStorage
<1>5. /\ IsStorage(w) /\ w.keyToSlot = append.keyToSlot
      /\ w.ordered = st.ordered /\ w.buckets = st.buckets /\ Len(w.slots) = slot
      /\ w.slots[slot] = [key |-> key, row |-> row]
      /\ \A s \in 1..n : w.slots[s] = st.slots[s]
  <2>1. slot \in 1..(Len(append.slots) + 1) /\ slot > n /\ \A s \in 1..n : s # slot
    BY <1>1, <1>3
  <2> HIDE DEF w
  <2>2. /\ IsStorage(w) /\ w.keyToSlot = append.keyToSlot
        /\ w.ordered = append.ordered /\ w.buckets = append.buckets
        /\ Len(w.slots) = IF slot > Len(append.slots) THEN Len(append.slots) + 1 ELSE Len(append.slots)
        /\ w.slots[slot] = [key |-> key, row |-> row]
        /\ \A s \in 1..Len(append.slots) : s # slot => w.slots[s] = append.slots[s]
    BY <1>4, <2>1, WriteEffect, SMTT(30) DEF w
  <2> QED
    BY <1>3, <2>1, <2>2
<1> HIDE DEF w
<1>6. 1..n \subseteq 1..Len(w.slots) /\ slot \in 1..Len(w.slots) /\ slot \notin 1..n
      /\ (1..n) \union {slot} = 1..slot
  BY <1>1, <1>5
<1>7. Indexed(w, 1..n)
  <2> HIDE DEF n, slot
  <2> QED
    BY <1>1, <1>5, <1>6, OthersWritten
<1>8. KeysDiffer(w.slots, (1..n) \union {slot})
  <2>1. \A s \in 1..n : w.slots[s].key \in Stored(st) /\ w.slots[s].key # w.slots[slot].key
    BY <1>1, <1>5 DEF KeysLead, Stored
  <2>2. \A l, r \in 1..n : w.slots[l].key = w.slots[r].key => l = r
    BY <1>1, <1>5 DEF KeysDiffer
  <2> HIDE DEF n, slot
  <2> QED
    BY <2>1, <2>2 DEF KeysDiffer
<1>9. /\ SameRows(t, w)
      /\ Indexed(t, (1..n) \union {slot})
  <2>1. t = IndexSlot(AddToBuckets(w, slot), DOMAIN w.ordered, slot)
    BY <1>5
  <2> HIDE DEF t, n, slot
  <2> QED
    BY <1>6, <1>7, <1>8, <2>1, EnterIndexes
<1> HIDE DEF t
<1>10. KeysLead(t, 1..Len(t.slots))
  <2>1. /\ t.slots = w.slots /\ t.keyToSlot = append.keyToSlot /\ Len(t.slots) = slot
    BY <1>5, <1>9 DEF SameRows
  <2>2. /\ DOMAIN t.keyToSlot = Stored(st) \union {key}
        /\ t.keyToSlot = [k \in DOMAIN t.keyToSlot |-> t.keyToSlot[k]]
        /\ \A k \in Stored(st) : t.keyToSlot[k] = st.keyToSlot[k]
        /\ t.keyToSlot[key] = slot
    BY <1>3, <2>1
  <2>3. Stored(st) = {st.slots[s].key : s \in 1..n} /\ \A s \in 1..n : st.keyToSlot[st.slots[s].key] = s
    BY <1>1 DEF KeysLead, Stored
  <2>4. t.slots[slot].key = key /\ \A s \in 1..n : t.slots[s].key = st.slots[s].key
    BY <1>5, <2>1
  <2> HIDE DEF n, slot
  <2> DEFINE old(s) == st.slots[s].key
             new(s) == t.slots[s].key
  <2>5. /\ Stored(st) = {old(s) : s \in 1..n} /\ \A s \in 1..n : st.keyToSlot[old(s)] = s
        /\ new(slot) = key /\ \A s \in 1..n : new(s) = old(s)
    BY <2>3, <2>4
  <2> HIDE DEF old, new
  <2>6. DOMAIN t.keyToSlot = {new(s) : s \in (1..n) \union {slot}}
    <3>1. \A k \in DOMAIN t.keyToSlot : \E s \in (1..n) \union {slot} : k = new(s)
      BY <2>2, <2>5
    <3>2. \A s \in (1..n) \union {slot} : new(s) \in DOMAIN t.keyToSlot
      BY <2>2, <2>5
    <3> QED
      BY <3>1, <3>2
  <2>7. \A s \in (1..n) \union {slot} : t.keyToSlot[new(s)] = s
    BY <2>2, <2>5
  <2> QED
    BY <1>6, <2>1, <2>2, <2>6, <2>7 DEF KeysLead, new, slot, n
<1>11. Len(t.slots) = slot
  BY <1>5, <1>9 DEF SameRows
<1> QED
  BY <1>2, <1>6, <1>9, <1>10, <1>11 DEF StorageInv

\* A row with the key of another one takes its slot.
LEMMA SetReplaced ==
  ASSUME NEW st, StorageInv(st), NEW key \in RowKeys, NEW row \in StoredRows,
         NEW patched, key \in Stored(st), RowOf(st, key) # row
  PROVE  StorageInv(SetPrepared(st, key, row, patched))
<1> DEFINE n == Len(st.slots)
           slot == st.keyToSlot[key]
           all == 1..n
           rest == all \ {slot}
           D == DOMAIN st.ordered
           touched == TouchedOrders(st, key, row, patched)
           r == RemoveFromBuckets(st, slot)
           u == UnindexSlot(r, touched, slot)
           w == WriteSlot(u, slot, key, row)
           a == AddToBuckets(w, slot)
           t == IndexSlot(a, touched, slot)
<1>1. /\ IsStorage(st) /\ KeysLead(st, all) /\ KeysDiffer(st.slots, all) /\ n \in Nat
      /\ OrdersList(st, D, all) /\ BucketsHold(st, all)
  BY LenProperties DEF StorageInv, Indexed, IsStorage
<1>2. SetPrepared(st, key, row, patched) = t
  BY DEF SetPrepared
<1>3. slot \in all /\ st.slots[slot].key = key
  BY <1>1 DEF KeysLead, Stored
<1>4. /\ touched \subseteq D
      /\ \A o \in D \ touched : st.slots[slot].row[o.field] = row[o.field]
  <2>1. RowOf(st, key) = st.slots[slot].row
    BY DEF RowOf
  <2> QED
    BY <2>1 DEF TouchedOrders
<1>5. all = 1..Len(st.slots) /\ all \in SUBSET (1..Len(st.slots)) /\ rest \in SUBSET (1..Len(st.slots))
      /\ rest \union {slot} = all /\ slot \notin rest
  BY <1>3
<1> HIDE DEF slot, touched, D
<1>6. /\ SameRows(r, st) /\ SameOrdered(r, st) /\ IsStorage(r) /\ BucketsHold(r, rest)
  <2> HIDE DEF r, all
  <2> QED
    BY <1>1, <1>3, <1>5, RemoveEffect DEF r
<1>7. /\ SameRows(u, r) /\ SameBuckets(u, r) /\ SameOthers(u, r, touched)
      /\ IsStorage(u) /\ OrdersList(u, touched, rest)
  <2> HIDE DEF r
  <2>1. /\ all \in SUBSET (1..Len(r.slots)) /\ KeysDiffer(r.slots, all)
        /\ touched \in SUBSET DOMAIN r.ordered /\ OrdersList(r, touched, all)
    BY <1>1, <1>4, <1>6 DEF SameRows, SameOrdered, OrdersList, D
  <2> HIDE DEF u, all
  <2> QED
    BY <1>3, <1>6, <2>1, UnindexEffect DEF u
<1> HIDE DEF r, u
<1>8. u.slots = st.slots /\ u.keyToSlot = st.keyToSlot /\ DOMAIN u.ordered = D
  BY <1>6, <1>7 DEF SameRows, SameOrdered, SameOthers, D
<1>9. /\ IsStorage(w) /\ w.keyToSlot = st.keyToSlot
      /\ w.ordered = u.ordered /\ w.buckets = u.buckets
      /\ Len(w.slots) = n
      /\ w.slots[slot] = [key |-> key, row |-> row]
      /\ \A s \in rest : w.slots[s] = st.slots[s]
  <2>1. slot \in 1..(Len(u.slots) + 1) /\ ~(slot > Len(u.slots)) /\ Len(u.slots) = n
    BY <1>1, <1>3, <1>8
  <2> HIDE DEF w
  <2>2. /\ IsStorage(w) /\ w.keyToSlot = u.keyToSlot
        /\ w.ordered = u.ordered /\ w.buckets = u.buckets
        /\ Len(w.slots) = IF slot > Len(u.slots) THEN Len(u.slots) + 1 ELSE Len(u.slots)
        /\ w.slots[slot] = [key |-> key, row |-> row]
        /\ \A s \in 1..Len(u.slots) : s # slot => w.slots[s] = u.slots[s]
    BY <1>7, <2>1, WriteEffect DEF w
  <2> QED
    BY <1>8, <2>1, <2>2
<1> HIDE DEF w
<1>10. /\ rest \in SUBSET (1..Len(w.slots)) /\ slot \in 1..Len(w.slots)
  BY <1>3, <1>5, <1>9
<1>11. \A s \in all : w.slots[s].key = st.slots[s].key
  BY <1>3, <1>9
<1>12. KeysDiffer(w.slots, all)
  BY <1>1, <1>11 DEF KeysDiffer
<1>13. OrdersList(w, touched, rest) /\ BucketsHold(w, rest)
  <2> HIDE DEF n
  <2>1. OrdersList(u, touched, rest) /\ BucketsHold(u, rest)
    BY <1>6, <1>7 DEF BucketsHold, SameRows, SameBuckets
  <2>2. \A s \in rest : w.slots[s] = u.slots[s]
    BY <1>8, <1>9
  <2> HIDE DEF rest
  <2> QED
    BY <1>9, <2>1, <2>2, OtherSlots
<1>14. /\ SameRows(a, w) /\ SameOrdered(a, w) /\ IsStorage(a) /\ BucketsHold(a, all)
  <2> HIDE DEF a, n, rest, all
  <2>1. BucketsHold(w, rest) /\ IsStorage(w)
    BY <1>9, <1>13
  <2>2. /\ SameRows(a, w) /\ SameOrdered(a, w) /\ IsStorage(a)
        /\ BucketsHold(a, rest \union {slot})
    BY <1>10, <2>1, AddEffect DEF a
  <2> QED
    BY <1>5, <2>2
<1>15. /\ SameRows(t, a) /\ SameBuckets(t, a) /\ SameOthers(t, a, touched)
      /\ IsStorage(t) /\ OrdersList(t, touched, all)
  <2> HIDE DEF a, n
  <2>1. /\ rest \in SUBSET (1..Len(a.slots)) /\ slot \in 1..Len(a.slots)
        /\ KeysDiffer(a.slots, rest \union {slot})
        /\ touched \in SUBSET DOMAIN a.ordered /\ OrdersList(a, touched, rest)
    BY <1>4, <1>5, <1>8, <1>9, <1>10, <1>12, <1>13, <1>14 DEF SameRows, SameOrdered, OrdersList
  <2> HIDE DEF t, rest, all
  <2>2. /\ SameRows(t, a) /\ SameBuckets(t, a) /\ SameOthers(t, a, touched)
        /\ IsStorage(t) /\ OrdersList(t, touched, rest \union {slot})
    BY <1>5, <1>14, <2>1, IndexEffect DEF t
  <2> QED
    BY <1>5, <2>2
<1> HIDE DEF a, t
<1>16. t.slots = w.slots /\ t.keyToSlot = st.keyToSlot /\ DOMAIN t.ordered = D
  BY <1>8, <1>9, <1>14, <1>15 DEF SameRows, SameOrdered, SameOthers
<1>17. OrdersList(t, D, all)
  <2>1. ASSUME NEW o \in D \ touched PROVE Listed(t.ordered[o], t.slots, o, all)
    <3>1. t.ordered[o] = st.ordered[o]
      BY <2>1, <1>6, <1>7, <1>8, <1>9, <1>14, <1>15 DEF SameOrdered, SameOthers, D
    <3>2. Listed(st.ordered[o], st.slots, o, all)
      BY <1>1 DEF OrdersList
    <3>3. \A s \in all : t.slots[s].row[o.field] = st.slots[s].row[o.field] /\ t.slots[s].key = st.slots[s].key
      <4>1. t.slots[slot].row = row /\ \A s \in rest : t.slots[s] = st.slots[s]
        BY <1>9, <1>16
      <4>2. st.slots[slot].row[o.field] = row[o.field]
        BY <1>4
      <4> QED
        BY <1>11, <1>16, <4>1, <4>2
    <3>4. \A l, r2 \in all : Ahead(st.slots, o, l, r2) => Ahead(t.slots, o, l, r2)
      BY <3>3 DEF Ahead
    <3> HIDE DEF all
    <3> QED
      BY <3>1, <3>2, <3>4, ListedAlike
  <2>2. ASSUME NEW o \in touched PROVE Listed(t.ordered[o], t.slots, o, all)
    BY <1>15 DEF OrdersList
  <2> QED
    BY <2>1, <2>2, <1>4 DEF OrdersList
<1>18. BucketsHold(t, all)
  BY <1>14, <1>15 DEF BucketsHold, SameRows, SameBuckets
<1>19. Len(t.slots) = n /\ KeysDiffer(t.slots, all)
  BY <1>9, <1>12, <1>16
<1>20. KeysLead(t, all)
  <2> HIDE DEF n, all
  <2>1. \A s \in all : t.slots[s].key = st.slots[s].key
    BY <1>11, <1>16
  <2>2. {t.slots[s].key : s \in all} = {st.slots[s].key : s \in all}
    BY <2>1
  <2>3. t.keyToSlot = st.keyToSlot
    BY <1>16
  <2>4. KeysLead(st, all)
    BY <1>1
  <2>5. DOMAIN t.keyToSlot = {t.slots[s].key : s \in all}
    BY <2>2, <2>3, <2>4 DEF KeysLead
  <2>6. \A s \in all : t.keyToSlot[t.slots[s].key] = s
    BY <2>1, <2>3, <2>4 DEF KeysLead
  <2>7. t.keyToSlot = [k \in DOMAIN t.keyToSlot |-> t.keyToSlot[k]]
    BY <2>3, <2>4 DEF KeysLead
  <2> QED
    BY <2>5, <2>6, <2>7 DEF KeysLead
<1>21. Indexed(t, all)
  BY <1>15, <1>16, <1>17, <1>18, <1>19 DEF Indexed
<1> QED
  BY <1>2, <1>19, <1>20, <1>21 DEF StorageInv

\* A row that is set.
LEMMA SetKeeps ==
  ASSUME NEW st, StorageInv(st), NEW key \in RowKeys, NEW row \in StoredRows, NEW patched
  PROVE  StorageInv(SetPrepared(st, key, row, patched))
<1>1. CASE key \notin Stored(st)
  BY <1>1, SetNew
<1>2. CASE key \in Stored(st) /\ RowOf(st, key) = row
  BY <1>2 DEF SetPrepared
<1>3. CASE key \in Stored(st) /\ RowOf(st, key) # row
  BY <1>3, SetReplaced
<1> QED
  BY <1>1, <1>2, <1>3

\* t is the storage st with the row of one slot moved to another.
RowCarried(t, st, to, from) ==
  /\ IsStorage(t) /\ SameOrdered(t, st) /\ SameBuckets(t, st)
  /\ Len(t.slots) = Len(st.slots)
  /\ t.slots[to] = st.slots[from]
  /\ \A s \in 1..Len(st.slots) : s # to => t.slots[s] = st.slots[s]
  /\ t.keyToSlot = [st.keyToSlot EXCEPT ![st.slots[from].key] = to]

\* A row that moves to another slot.
LEMMA CopyEffect ==
  ASSUME NEW st, IsStorage(st), NEW to \in 1..Len(st.slots), NEW from \in 1..Len(st.slots),
         NEW t, t = CopySlot(st, to, from)
  PROVE  RowCarried(t, st, to, from)
<1> DEFINE n == Len(st.slots)
           slots == [st.slots EXCEPT ![to] = st.slots[from]]
           columns == [f \in Fields |-> [st.columns[f] EXCEPT ![to] = Value(st, f, from)]]
           keys == [st.keyToSlot EXCEPT ![st.slots[from].key] = to]
<1>1. /\ st.slots \in Seq(SlotEntry) /\ st.slots[from] \in SlotEntry /\ n \in Nat
  BY LenProperties, ElementOfSeq DEF IsStorage
<1>2. t = [st EXCEPT !.slots = slots, !.columns = columns, !.keyToSlot = keys]
  <2>1. t = [st EXCEPT !.slots[to] = st.slots[from],
             !.columns = [f \in Fields |-> [@[f] EXCEPT ![to] = Value(st, f, from)]],
             !.keyToSlot[st.slots[from].key] = to]
    BY DEF CopySlot
  <2> QED
    BY <2>1 DEF IsStorage, Parts
<1>3. /\ slots \in Seq(SlotEntry) /\ Len(slots) = n
      /\ slots[to] = st.slots[from]
      /\ \A s \in 1..n : s # to => slots[s] = st.slots[s]
  BY <1>1, ExceptSeq
<1>4. columns = [f \in Fields |-> [s \in 1..n |-> slots[s].row[f]]]
  <2>1. ASSUME NEW f \in Fields
        PROVE  columns[f] = [s \in 1..n |-> slots[s].row[f]]
    <3>1. st.columns[f] = [s \in 1..n |-> st.slots[s].row[f]]
      BY DEF IsStorage
    <3>2. Value(st, f, from) = st.slots[from].row[f]
      BY ValueOfRow
    <3>3. columns[f] = [st.columns[f] EXCEPT ![to] = st.slots[from].row[f]]
      BY <3>2
    <3> HIDE DEF slots, columns, n
    <3>4. \A s \in 1..n : slots[s].row[f] =
                            IF s = to THEN st.slots[from].row[f] ELSE st.slots[s].row[f]
      BY <1>3
    <3>5. [st.columns[f] EXCEPT ![to] = st.slots[from].row[f]]
            = [s \in 1..n |-> IF s = to THEN st.slots[from].row[f] ELSE st.slots[s].row[f]]
      BY <3>1 DEF n
    <3> QED
      BY <3>3, <3>4, <3>5
  <2>2. columns = [f \in Fields |-> columns[f]]
    OBVIOUS
  <2> HIDE DEF columns, slots
  <2> QED
    BY <2>1, <2>2
<1> HIDE DEF slots, columns, keys
<1>5. /\ DOMAIN t = Parts /\ t.slots = slots /\ t.columns = columns /\ t.keyToSlot = keys
      /\ t.ordered = st.ordered /\ t.buckets = st.buckets
  BY <1>2 DEF IsStorage, Parts
<1>6. IsStorage(t)
  BY <1>3, <1>4, <1>5 DEF IsStorage
<1> QED
  BY <1>3, <1>5, <1>6 DEF RowCarried, SameOrdered, SameBuckets, keys

\* The last slot goes.
LEMMA PopEffect ==
  ASSUME NEW st, NEW n \in Nat, Len(st.slots) = n + 1, Indexed(st, 1..n), KeysLead(st, 1..n),
         NEW t, t = PopSlot(st)
  PROVE  StorageInv(t)
<1> DEFINE slots == SubSeq(st.slots, 1, n)
           columns == [f \in Fields |-> Front(st.columns[f])]
<1>1. IsStorage(st) /\ st.slots \in Seq(SlotEntry) /\ n + 1 - 1 = n
  BY DEF Indexed, IsStorage
<1>2. t = [st EXCEPT !.slots = slots, !.columns = columns]
  <2>1. Front(st.slots) = SubSeq(st.slots, 1, n)
    <3>1. Front(st.slots) = SubSeq(st.slots, 1, Len(st.slots) - 1)
      BY DEF Front
    <3> QED
      BY <1>1, <3>1
  <2> QED
    BY <2>1 DEF PopSlot
<1>3. /\ slots \in Seq(SlotEntry) /\ Len(slots) = n
      /\ \A s \in 1..n : slots[s] = st.slots[s]
  <2>1. \A i \in 1..n : st.slots[i] \in SlotEntry
    BY <1>1, ElementOfSeq
  <2>2. /\ SubSeq(st.slots, 1, n) \in Seq(SlotEntry)
        /\ Len(SubSeq(st.slots, 1, n)) = IF 1 <= n THEN n - 1 + 1 ELSE 0
        /\ \A i \in 1..(n - 1 + 1) : SubSeq(st.slots, 1, n)[i] = st.slots[1 + i - 1]
    BY <2>1, SubSeqProperties
  <2> QED
    BY <2>2
<1> HIDE DEF slots
<1>4. columns = [f \in Fields |-> [s \in 1..n |-> slots[s].row[f]]]
  <2>1. ASSUME NEW f \in Fields
        PROVE  columns[f] = [s \in 1..n |-> slots[s].row[f]]
    <3> DEFINE c == st.columns[f]
               d == [s \in 1..n |-> slots[s].row[f]]
    <3>1. c = [s \in 1..(n + 1) |-> st.slots[s].row[f]]
      BY <1>1 DEF IsStorage
    <3>2. \A s \in 1..(n + 1) : c[s] \in Int
      <4>1. ASSUME NEW s \in 1..(n + 1) PROVE c[s] \in Int
        <5>1. st.slots[s] \in SlotEntry /\ c[s] = st.slots[s].row[f]
          BY <1>1, <3>1, ElementOfSeq
        <5> HIDE DEF c
        <5> QED
          BY <5>1, StorageAssumption DEF SlotEntry
      <4> QED
        BY <4>1
    <3>3. columns[f] = Front(c)
      OBVIOUS
    <3>4. DOMAIN c = 1..(n + 1) /\ c = [s \in 1..(n + 1) |-> c[s]]
      BY <3>1
    <3> HIDE DEF c, columns
    <3>5. c \in [1..(n + 1) -> Int]
      BY <3>2, <3>4
    <3>6. c \in Seq(Int) /\ Len(c) = n + 1
      BY <3>5
    <3>7. columns[f] = SubSeq(c, 1, n)
      <4>1. Front(c) = SubSeq(c, 1, Len(c) - 1)
        BY DEF Front
      <4> QED
        BY <1>1, <3>3, <3>6, <4>1
    <3>8. /\ SubSeq(c, 1, n) \in Seq(Int)
          /\ Len(SubSeq(c, 1, n)) = IF 1 <= n THEN n - 1 + 1 ELSE 0
          /\ \A i \in 1..(n - 1 + 1) : SubSeq(c, 1, n)[i] = c[1 + i - 1]
      BY <3>2, SubSeqProperties
    <3>9. /\ columns[f] = [s \in 1..n |-> columns[f][s]]
          /\ \A s \in 1..n : columns[f][s] = c[s]
      <4>1. Len(columns[f]) = n /\ columns[f] \in Seq(Int)
        BY <3>7, <3>8
      <4>2. columns[f] \in [1..n -> Int]
        BY <4>1, LenProperties
      <4> QED
        BY <3>7, <3>8, <4>2
    <3>10. \A s \in 1..n : columns[f][s] = d[s]
      <4>1. ASSUME NEW s \in 1..n PROVE columns[f][s] = d[s]
        <5>1. s \in 1..(n + 1)
          OBVIOUS
        <5>2. c[s] = st.slots[s].row[f]
          BY <3>1, <5>1
        <5> QED
          BY <1>3, <3>9, <5>2
      <4> QED
        BY <4>1
    <3> QED
      BY <3>9, <3>10
  <2>2. columns = [f \in Fields |-> columns[f]]
    OBVIOUS
  <2> HIDE DEF columns
  <2> QED
    BY <2>1, <2>2
<1> HIDE DEF columns
<1>5. /\ DOMAIN t = Parts /\ t.slots = slots /\ t.columns = columns
      /\ t.keyToSlot = st.keyToSlot /\ t.ordered = st.ordered /\ t.buckets = st.buckets
  BY <1>1, <1>2 DEF IsStorage, Parts
<1>6. IsStorage(t)
  BY <1>1, <1>3, <1>4, <1>5 DEF IsStorage
<1>7. Indexed(t, 1..n)
  <2> DEFINE S == 1..n
  <2>1. Indexed(st, S) /\ S \subseteq 1..Len(t.slots) /\ \A s \in S : t.slots[s] = st.slots[s]
    BY <1>3, <1>5
  <2> HIDE DEF S
  <2>2. Indexed(t, S)
    BY <1>5, <1>6, <2>1, OthersWritten
  <2> QED
    BY <2>2 DEF S
<1>8. KeysLead(t, 1..n)
  BY <1>3, <1>5 DEF KeysLead
<1> QED
  BY <1>3, <1>5, <1>7, <1>8 DEF StorageInv

\* The last row fills the slot of a row that is not indexed any more.
LEMMA FillEffect ==
  ASSUME NEW st, NEW n \in Nat, Len(st.slots) = n + 1, NEW slot \in 1..n,
         Indexed(st, (1..(n + 1)) \ {slot}), KeysLead(st, (1..(n + 1)) \ {slot}),
         NEW t, t = FillHole(st, slot)
  PROVE  Len(t.slots) = n + 1 /\ Indexed(t, 1..n) /\ KeysLead(t, 1..n)
<1> DEFINE last == n + 1
           held == (1..last) \ {slot}
           rest == held \ {last}
           D == DOMAIN st.ordered
           l == UnindexSlot(RemoveFromBuckets(st, last), D, last)
           c == CopySlot(l, slot, last)
<1>1. /\ held \union {slot} = 1..last /\ slot # last /\ last \in held /\ slot \notin rest
      /\ rest \union {slot} = 1..n /\ slot \in 1..last /\ last \in 1..last
      /\ rest \subseteq 1..last
  OBVIOUS
<1>2. Indexed(st, held) /\ KeysLead(st, held) /\ KeysDiffer(st.slots, held)
  BY DEF Indexed
<1>3. t = IndexSlot(AddToBuckets(c, slot), D, slot)
  <2>1. Len(st.slots) = last /\ slot # Len(st.slots)
    BY <1>1
  <2> QED
    BY <2>1, Zenon DEF FillHole
<1>4. SameRows(l, st) /\ SameOthers(l, st, D) /\ Indexed(l, rest)
  <2> HIDE DEF held, last, l, D
  <2> QED
    BY <1>1, <1>2, LeaveIndexes DEF l, D
<1> HIDE DEF l
<1>5. IsStorage(l) /\ Len(l.slots) = last /\ l.slots = st.slots /\ l.keyToSlot = st.keyToSlot
      /\ DOMAIN l.ordered = D
  BY <1>4 DEF Indexed, SameRows, SameOthers
<1>6. /\ IsStorage(c) /\ SameOrdered(c, l) /\ SameBuckets(c, l)
      /\ Len(c.slots) = last
      /\ c.slots[slot] = st.slots[last]
      /\ \A s \in 1..last : s # slot => c.slots[s] = st.slots[s]
      /\ c.keyToSlot = [st.keyToSlot EXCEPT ![st.slots[last].key] = slot]
  <2>1. slot \in 1..Len(l.slots) /\ last \in 1..Len(l.slots)
    BY <1>1, <1>5
  <2>3. c = CopySlot(l, slot, last) /\ IsStorage(l)
    BY <1>5
  <2> HIDE DEF c, last
  <2>2. RowCarried(c, l, slot, last)
    BY <2>1, <2>3, CopyEffect
  <2> QED
    BY <1>5, <2>2 DEF RowCarried
<1> HIDE DEF c
<1>7. Indexed(c, rest)
  <2>1. rest \subseteq 1..Len(c.slots) /\ \A s \in rest : c.slots[s] = l.slots[s]
    BY <1>1, <1>5, <1>6
  <2>2. c.ordered = l.ordered /\ c.buckets = l.buckets
    BY <1>6 DEF SameOrdered, SameBuckets
  <2>3. IsStorage(c) /\ Indexed(l, rest)
    BY <1>4, <1>6
  <2> HIDE DEF rest, last
  <2> QED
    BY <2>1, <2>2, <2>3, OthersWritten
<1> DEFINE old(s) == st.slots[s].key
           new(s) == c.slots[s].key
<1>8. new(slot) = old(last) /\ \A s \in rest : new(s) = old(s)
  BY <1>6
<1>9. \A x, y \in held : old(x) = old(y) => x = y
  BY <1>2 DEF KeysDiffer
<1>10. KeysDiffer(c.slots, rest \union {slot})
  <2>1. \A x, y \in rest \union {slot} : new(x) = new(y) => x = y
    <3> HIDE DEF old, new, last
    <3> QED
      BY <1>1, <1>8, <1>9
  <2> QED
    BY <2>1 DEF KeysDiffer
<1>11. SameRows(t, c) /\ Indexed(t, rest \union {slot})
  <2>1. t = IndexSlot(AddToBuckets(c, slot), DOMAIN c.ordered, slot)
    BY <1>3, <1>5, <1>6 DEF SameOrdered
  <2>2. slot \in 1..Len(c.slots)
    BY <1>1, <1>6
  <2> HIDE DEF rest
  <2> QED
    BY <1>1, <1>7, <1>10, <2>1, <2>2, EnterIndexes
<1>12. KeysLead(t, 1..n)
  <2> DEFINE keys == st.keyToSlot
             now  == t.keyToSlot
  <2>1. t.slots = c.slots /\ now = [keys EXCEPT ![old(last)] = slot]
    BY <1>6, <1>11 DEF SameRows
  <2>2. /\ DOMAIN keys = {old(s) : s \in held} /\ \A s \in held : keys[old(s)] = s
    BY <1>2 DEF KeysLead
  <2>3. \A s \in 1..n : t.slots[s].key = new(s)
    BY <2>1
  <2>4. now = [k \in DOMAIN now |-> now[k]] /\ DOMAIN now = DOMAIN keys
        /\ now[old(last)] = slot /\ \A k \in DOMAIN keys : k # old(last) => now[k] = keys[k]
    <3> HIDE DEF now, keys, old, held
    <3>1. old(last) \in DOMAIN keys
      BY <1>1, <2>2
    <3> QED
      BY <2>1, <3>1
  <2> HIDE DEF now, keys, old, new, last, rest, held
  <2>5. ASSUME NEW s \in 1..n PROVE new(s) \in DOMAIN now /\ now[new(s)] = s
    <3>1. CASE s = slot
      BY <1>1, <1>8, <2>2, <2>4, <3>1
    <3>2. CASE s # slot
      <4>1. s \in rest /\ s \in held /\ s # last
        BY <1>1, <3>2 DEF rest
      <4>2. new(s) = old(s) /\ old(s) # old(last) /\ old(s) \in DOMAIN keys /\ keys[old(s)] = s
        BY <4>1, <1>1, <1>8, <1>9, <2>2
      <4> QED
        BY <2>4, <4>2
    <3> QED
      BY <3>1, <3>2
  <2>6. ASSUME NEW k \in DOMAIN now PROVE \E s \in 1..n : k = new(s)
    <3>1. PICK x \in held : k = old(x)
      BY <2>2, <2>4
    <3>2. CASE x = last
      BY <3>1, <3>2, <1>1, <1>8
    <3>3. CASE x # last
      <4>1. x \in rest /\ x \in 1..n
        BY <1>1, <3>3 DEF rest
      <4> QED
        BY <3>1, <4>1, <1>8
    <3> QED
      BY <3>2, <3>3
  <2>7. DOMAIN now = {new(s) : s \in 1..n}
    BY <2>5, <2>6
  <2>8. {new(s) : s \in 1..n} = {t.slots[s].key : s \in 1..n}
    BY <2>3
  <2> QED
    BY <2>3, <2>4, <2>5, <2>7, <2>8 DEF KeysLead, now
<1> QED
  BY <1>1, <1>6, <1>11, <1>12 DEF SameRows

\* A row that is deleted.
LEMMA DeleteKeeps ==
  ASSUME NEW st, StorageInv(st), NEW key \in Stored(st)
  PROVE  StorageInv(DeleteKey(st, key))
<1> DEFINE m == Len(st.slots)
           n == m - 1
           slot == st.keyToSlot[key]
           all == 1..m
           held == all \ {slot}
           c == UnindexSlot(RemoveFromBuckets(st, slot), DOMAIN st.ordered, slot)
           d == [c EXCEPT !.keyToSlot = [k \in Stored(st) \ {key} |-> @[k]]]
           e == FillHole(d, slot)
<1>1. /\ IsStorage(st) /\ Indexed(st, all) /\ KeysLead(st, all) /\ KeysDiffer(st.slots, all)
      /\ m \in Nat
  BY LenProperties DEF StorageInv, Indexed, IsStorage
<1>2. DeleteKey(st, key) = PopSlot(e)
  BY DEF DeleteKey
<1>3. slot \in all /\ st.slots[slot].key = key
  BY <1>1 DEF KeysLead, Stored
<1>4. n \in Nat /\ m = n + 1
  BY <1>1, <1>3
<1> HIDE DEF m, n, slot
<1>5. SameRows(c, st) /\ Indexed(c, held)
  <2> HIDE DEF c, all
  <2> QED
    BY <1>1, <1>3, LeaveIndexes DEF c
<1> HIDE DEF c
<1>6. IsStorage(c) /\ c.slots = st.slots /\ c.keyToSlot = st.keyToSlot
  BY <1>5 DEF Indexed, SameRows
<1>7. /\ DOMAIN d = DOMAIN c /\ d.slots = st.slots /\ d.columns = c.columns
      /\ d.ordered = c.ordered /\ d.buckets = c.buckets
      /\ d.keyToSlot = [k \in Stored(st) \ {key} |-> st.keyToSlot[k]]
  BY <1>6 DEF IsStorage, Parts
<1> HIDE DEF d
<1>8. IsStorage(d)
  BY <1>6, <1>7 DEF IsStorage
<1>9. Indexed(d, held)
  <2>1. \A s \in held : d.slots[s] = c.slots[s]
    BY <1>6, <1>7
  <2>2. held \subseteq 1..Len(d.slots)
    BY <1>7 DEF m
  <2>3. Indexed(c, held) /\ d.ordered = c.ordered /\ d.buckets = c.buckets
    BY <1>5, <1>7
  <2> HIDE DEF held
  <2> QED
    BY <1>8, <2>1, <2>2, <2>3, OthersWritten, Zenon
<1>10. KeysLead(d, held)
  <2> DEFINE old(s) == st.slots[s].key
             now == d.keyToSlot
  <2>1. /\ Stored(st) = {old(s) : s \in all}
        /\ \A s \in all : st.keyToSlot[old(s)] = s
        /\ \A x, y \in all : old(x) = old(y) => x = y
    BY <1>1 DEF KeysLead, KeysDiffer, Stored
  <2>2. /\ now = [k \in DOMAIN now |-> now[k]] /\ DOMAIN now = Stored(st) \ {key}
        /\ \A k \in Stored(st) \ {key} : now[k] = st.keyToSlot[k]
    BY <1>7
  <2>3. old(slot) = key
    BY <1>3
  <2> HIDE DEF old, now, all
  <2>4. ASSUME NEW s \in held PROVE old(s) \in DOMAIN now /\ now[old(s)] = s
    BY <1>3, <2>1, <2>2, <2>3
  <2>5. ASSUME NEW k \in DOMAIN now PROVE \E s \in held : k = old(s)
    <3>1. PICK s \in all : k = old(s)
      BY <2>1, <2>2
    <3>2. s # slot
      BY <2>2, <2>3, <3>1
    <3> QED
      BY <3>1, <3>2
  <2>6. DOMAIN now = {old(s) : s \in held}
    BY <2>4, <2>5
  <2>7. \A s : d.slots[s].key = old(s)
    BY <1>7 DEF old
  <2> HIDE DEF held
  <2>8. DOMAIN now = {d.slots[s].key : s \in held}
    BY <2>6, <2>7
  <2> QED
    BY <2>2, <2>4, <2>7, <2>8 DEF KeysLead, now
<1>11. Len(d.slots) = n + 1
  BY <1>4, <1>7 DEF m
<1>12. Len(e.slots) = n + 1 /\ Indexed(e, 1..n) /\ KeysLead(e, 1..n)
  <2>1. CASE slot = n + 1
    <3>1. e = d
      BY <1>11, <2>1 DEF FillHole
    <3>2. held = 1..n
      BY <1>3, <1>4, <2>1
    <3> QED
      BY <1>9, <1>10, <1>11, <3>1, <3>2
  <2>2. CASE slot # n + 1
    <3>1. slot \in 1..n /\ held = (1..(n + 1)) \ {slot}
      BY <1>3, <1>4, <2>2
    <3> HIDE DEF e, held
    <3>2. Indexed(d, (1..(n + 1)) \ {slot}) /\ KeysLead(d, (1..(n + 1)) \ {slot})
      BY <1>9, <1>10, <3>1
    <3> QED
      BY <1>4, <1>11, <3>1, <3>2, FillEffect DEF e
  <2> QED
    BY <2>1, <2>2
<1> HIDE DEF e
<1> QED
  BY <1>2, <1>4, <1>12, PopEffect

-------------------------------------------------------------------------------
(* Several rows at once. *)

\* Several rows that are set, one after the other.
LEMMA SetAllKeeps ==
  ASSUME NEW base, StorageInv(base), NEW batch \in Seq(SlotEntry)
  PROVE  StorageInv(FoldLeft(LAMBDA s, e : SetPrepared(s, e.key, e.row, FALSE), base, batch))
<1> DEFINE n == Len(batch)
           step(st, x) == SetPrepared(st, batch[x].key, batch[x].row, FALSE)
           folds(f, m) == f = [s \in SUBSET (1..m) |->
                                 IF s = {} THEN base ELSE step(f[s \ {Max(s)}], Max(s))]
           c == CHOOSE f : folds(f, n)
           Odd == {m \in Nat : \A f : ~folds(f, m)}
           Bad == {m \in Nat : m <= n /\ ~StorageInv(c[1..m])}
<1>1. n \in Nat /\ DOMAIN batch = 1..n
  BY LenProperties
<1>2. FoldLeft(LAMBDA s, e : SetPrepared(s, e.key, e.row, FALSE), base, batch) = c[1..n]
  BY <1>1 DEF FoldLeft, MapThenFoldSet
<1>3. \A st : \A x \in 1..n : StorageInv(st) => StorageInv(step(st, x))
  <2>1. \A x \in 1..n : batch[x].key \in RowKeys /\ batch[x].row \in StoredRows
    <3>1. \A x \in 1..n : batch[x] \in SlotEntry
      BY ElementOfSeq
    <3> QED
      BY <3>1 DEF SlotEntry
  <2> QED
    BY <2>1, SetKeeps
<1> HIDE DEF step, n
<1>4. Odd = {}
  <2>1. SUFFICES ASSUME Odd # {} PROVE FALSE
    OBVIOUS
  <2>2. PICK m \in Odd : \A k \in Odd : m <= k
    <3>1. Odd \subseteq Nat
      OBVIOUS
    <3> HIDE DEF Odd
    <3> QED
      BY <2>1, <3>1, LeastNumber, Zenon
  <2>3. m \in Nat /\ \A f : ~folds(f, m)
    OBVIOUS
  <2>4. CASE m = 0
    <3> DEFINE g == [s \in SUBSET (1..0) |-> base]
    <3>1. \A s \in SUBSET (1..0) : s = {}
      OBVIOUS
    <3>2. folds(g, 0)
      BY <3>1
    <3> QED
      BY <2>3, <2>4, <3>2
  <2>5. CASE m # 0
    <3> DEFINE k == m - 1
    <3>1. k \in Nat /\ m = k + 1 /\ ~(m <= k)
      BY <2>3, <2>5
    <3> HIDE DEF k
    <3>2. PICK f : folds(f, k)
      <4>1. k \notin Odd
        <5> HIDE DEF Odd
        <5> QED
          BY <2>2, <3>1, Zenon
      <4> QED
        BY <3>1, <4>1
    <3> DEFINE g == [s \in SUBSET (1..m) |->
                       IF s \in SUBSET (1..k) THEN f[s] ELSE step(f[s \ {m}], m)]
    <3>3. \A s \in SUBSET (1..k) : /\ s \in SUBSET (1..m) /\ g[s] = f[s]
                                   /\ s \ {Max(s)} \in SUBSET (1..k)
      <4>1. 1..k \subseteq 1..m
        BY <2>3, <3>1
      <4>2. ASSUME NEW s \in SUBSET (1..k)
            PROVE  s \in SUBSET (1..m) /\ s \ {Max(s)} \in SUBSET (1..k)
        BY <4>1
      <4>3. ASSUME NEW s \in SUBSET (1..k) PROVE g[s] = f[s]
        BY <4>2
      <4> QED
        BY <4>2, <4>3
    <3>4. \A s \in SUBSET (1..m) : s \notin SUBSET (1..k) =>
            /\ m \in s /\ s # {} /\ Max(s) = m /\ s \ {m} \in SUBSET (1..k)
            /\ g[s] = step(f[s \ {m}], m)
      <4>1. ASSUME NEW s \in SUBSET (1..m), s \notin SUBSET (1..k)
            PROVE  m \in s /\ s \ {m} \in SUBSET (1..k)
        BY <3>1, <4>1
      <4> QED
        BY <2>3, <4>1, GreatestIs
    <3>5. ASSUME NEW s \in SUBSET (1..m)
          PROVE  g[s] = IF s = {} THEN base ELSE step(g[s \ {Max(s)}], Max(s))
      <4>1. CASE s \in SUBSET (1..k)
        <5>1. f[s] = IF s = {} THEN base ELSE step(f[s \ {Max(s)}], Max(s))
          BY <3>2, <4>1
        <5> HIDE DEF g
        <5> QED
          BY <3>3, <4>1, <5>1
      <4>2. CASE s \notin SUBSET (1..k)
        <5> HIDE DEF g
        <5> QED
          BY <3>3, <3>4, <4>2
      <4> QED
        BY <4>1, <4>2
    <3>6. g = [s \in SUBSET (1..m) |-> g[s]]
      OBVIOUS
    <3> HIDE DEF g
    <3>7. folds(g, m)
      BY <3>5, <3>6
    <3> QED
      BY <2>3, <3>7
  <2> QED
    BY <2>4, <2>5
<1>5. folds(c, n)
  <2>1. n \notin Odd
    <3> HIDE DEF Odd
    <3> QED
      BY <1>4, Zenon
  <2>2. \E f : folds(f, n)
    BY <1>1, <2>1
  <2> HIDE DEF folds
  <2> QED
    BY <2>2, Zenon
<1> HIDE DEF c
<1>6. c[{}] = base
  <2>1. {} \in SUBSET (1..n)
    OBVIOUS
  <2> QED
    BY <1>5, <2>1
<1>7. \A m \in 1..n : c[1..m] = step(c[1..(m - 1)], m)
  <2>1. ASSUME NEW m \in 1..n PROVE c[1..m] = step(c[1..(m - 1)], m)
    <3>1. /\ 1..m \in SUBSET (1..n) /\ 1..m # {} /\ m \in Nat
          /\ m \in 1..m /\ (1..m) \ {m} = 1..(m - 1)
      <4>1. m \in Nat /\ m <= n /\ 1 <= m
        BY <1>1
      <4>2. m \in 1..m /\ 1..m \subseteq 1..n
        BY <1>1, <4>1
      <4>3. (1..m) \ {m} = 1..(m - 1)
        BY <4>1
      <4> QED
        BY <4>1, <4>2, <4>3
    <3>2. Max(1..m) = m
      BY <3>1, GreatestIs
    <3>3. \A s \in SUBSET (1..n) : c[s] = IF s = {} THEN base ELSE step(c[s \ {Max(s)}], Max(s))
      BY <1>5
    <3> QED
      BY <3>1, <3>2, <3>3
  <2> QED
    BY <2>1
<1>8. Bad = {}
  <2>1. SUFFICES ASSUME Bad # {} PROVE FALSE
    OBVIOUS
  <2>2. PICK m \in Bad : \A k \in Bad : m <= k
    <3>1. Bad \subseteq Nat
      OBVIOUS
    <3> HIDE DEF Bad
    <3> QED
      BY <2>1, <3>1, LeastNumber, Zenon
  <2>3. m \in Nat /\ m <= n /\ ~StorageInv(c[1..m])
    OBVIOUS
  <2>4. CASE m = 0
    <3>1. 1..0 = {}
      OBVIOUS
    <3> QED
      BY <1>6, <2>3, <2>4, <3>1
  <2>5. CASE m # 0
    <3> DEFINE k == m - 1
    <3>1. k \in Nat /\ k <= n /\ ~(m <= k) /\ m \in 1..n
      BY <1>1, <2>3, <2>5
    <3>2. k \notin Bad
      <4> HIDE DEF Bad, k
      <4> QED
        BY <2>2, <3>1, Zenon
    <3>3. StorageInv(c[1..k])
      BY <3>1, <3>2
    <3> QED
      BY <1>3, <1>7, <2>3, <3>1, <3>3
  <2> QED
    BY <2>4, <2>5
<1>9. n \notin Bad
  <2> HIDE DEF Bad
  <2> QED
    BY <1>8, Zenon
<1>10. StorageInv(c[1..n])
  BY <1>1, <1>9
<1> QED
  BY <1>2, <1>10, Zenon

-------------------------------------------------------------------------------
(* Lists in an order: what sorting a set gives. *)

\* R is a strict order of S.
Strict(R, S) ==
  /\ \A x \in S : <<x, x>> \notin R
  /\ \A x, y \in S : x = y \/ <<x, y>> \in R \/ <<y, x>> \in R
  /\ \A x, y, z \in S : <<x, y>> \in R /\ <<y, z>> \in R => <<x, z>> \in R

\* The sequence has each element of S, in order R.
Lists(q, S, R) ==
  /\ q \in Seq(S)
  /\ \A s \in S : \E i \in 1..Len(q) : q[i] = s
  /\ \A i, j \in 1..Len(q) : i < j => <<q[i], q[j]>> \in R

\* A list has each element once, and is as long as there are elements.
LEMMA ListsOnce ==
  ASSUME NEW S, NEW R, Strict(R, S), NEW q, Lists(q, S, R)
  PROVE  /\ q \in [1..Len(q) -> S] /\ Len(q) \in Nat /\ DOMAIN q = 1..Len(q)
         /\ \A i, j \in 1..Len(q) : q[i] = q[j] => i = j
         /\ \A i, j \in 1..Len(q) : <<q[i], q[j]>> \in R => i < j
         /\ IsFiniteSet(S) /\ Cardinality(S) = Len(q)
<1>1. q \in [1..Len(q) -> S] /\ Len(q) \in Nat /\ DOMAIN q = 1..Len(q)
  BY LenProperties, Zenon DEF Lists
<1>2. \A i \in 1..Len(q) : q[i] \in S
  BY <1>1
<1>3. ASSUME NEW i \in 1..Len(q), NEW j \in 1..Len(q), <<q[i], q[j]>> \in R PROVE i < j
  <2>1. <<q[j], q[i]>> \notin R /\ q[i] # q[j]
    BY <1>2, <1>3 DEF Strict
  <2>2. ~(j < i) /\ i # j
    BY <2>1 DEF Lists
  <2> QED
    BY <1>1, <2>2
<1>4. ASSUME NEW i \in 1..Len(q), NEW j \in 1..Len(q), q[i] = q[j] PROVE i = j
  <2>1. <<q[i], q[j]>> \notin R /\ <<q[j], q[i]>> \notin R
    BY <1>2, <1>4 DEF Strict
  <2>2. ~(j < i) /\ ~(i < j)
    BY <2>1 DEF Lists
  <2> QED
    BY <1>1, <2>2
<1>5. IsFiniteSet(1..Len(q)) /\ Cardinality(1..Len(q)) = Len(q)
  <2> DEFINE n == Len(q)
  <2>1. n \in Nat
    BY <1>1
  <2> HIDE DEF n
  <2>2. IsFiniteSet(1..n) /\ Cardinality(1..n) = n
    BY <2>1, FS_Interval
  <2> QED
    BY <2>2 DEF n
<1>6. q \in Bijection(1..Len(q), S)
  <2>1. q \in Injection(1..Len(q), S)
    BY <1>1, <1>4 DEF Injection, IsInjective
  <2>2. q \in Surjection(1..Len(q), S)
    BY <1>1 DEF Surjection, Lists
  <2> QED
    BY <2>1, <2>2 DEF Bijection
<1>7. IsFiniteSet(S) /\ Cardinality(S) = Len(q)
  <2>1. ExistsBijection(1..Len(q), S)
    BY <1>6 DEF ExistsBijection
  <2> QED
    BY <1>5, <2>1, FS_Bijection
<1> QED
  BY <1>1, <1>3, <1>4, <1>7

\* What comes before an element of a list.
LEMMA ListsRank ==
  ASSUME NEW S, NEW R, Strict(R, S), NEW q, Lists(q, S, R), NEW i \in 1..Len(q)
  PROVE  Cardinality({y \in S : <<y, q[i]>> \in R}) = i - 1
<1> DEFINE E == {y \in S : <<y, q[i]>> \in R}
           k == i - 1
           f == [j \in 1..k |-> q[j]]
<1>1. /\ q \in [1..Len(q) -> S] /\ Len(q) \in Nat
      /\ \A l, j \in 1..Len(q) : q[l] = q[j] => l = j
      /\ \A l, j \in 1..Len(q) : <<q[l], q[j]>> \in R => l < j
  BY ListsOnce
<1>2. k \in Nat /\ i = k + 1 /\ \A j \in 1..k : j \in 1..Len(q) /\ j < i
  BY <1>1
<1>3. \A j \in 1..Len(q) : j < i => j \in 1..k
  BY <1>1
<1>4. \A j \in 1..k : q[j] \in E
  BY <1>1, <1>2 DEF Lists
<1>5. \A y \in E : \E j \in 1..k : q[j] = y
  <2>1. ASSUME NEW y \in E PROVE \E j \in 1..k : q[j] = y
    <3>1. PICK j \in 1..Len(q) : q[j] = y
      BY DEF Lists
    <3>2. j < i
      BY <1>1, <3>1
    <3> QED
      BY <1>3, <3>1, <3>2
  <2> QED
    BY <2>1
<1> HIDE DEF E, k
<1>6. f \in Bijection(1..k, E)
  <2>1. f \in [1..k -> E]
    BY <1>4
  <2>2. \A l, j \in 1..k : f[l] = f[j] => l = j
    BY <1>1, <1>2
  <2>3. \A y \in E : \E j \in 1..k : f[j] = y
    BY <1>5
  <2> QED
    BY <2>1, <2>2, <2>3 DEF Bijection, Injection, Surjection, IsInjective
<1>7. Cardinality(E) = k
  <2>1. IsFiniteSet(1..k) /\ Cardinality(1..k) = k
    BY <1>2, FS_Interval
  <2>2. ExistsBijection(1..k, E)
    BY <1>6 DEF ExistsBijection
  <2> QED
    BY <2>1, <2>2, FS_Bijection
<1> QED
  BY <1>7 DEF E, k

\* There is one list, and it is the one by ranks.
LEMMA ListsOrdered ==
  ASSUME NEW S, NEW R, Strict(R, S), NEW q, Lists(q, S, R)
  PROVE  q = Ordered(S, R)
<1> DEFINE earlier(x) == {y \in S : <<y, x>> \in R}
           n == Len(q)
<1>1. /\ q \in [1..n -> S] /\ n \in Nat /\ Cardinality(S) = n
  BY ListsOnce
<1>2. \A s \in S : \E i \in 1..n : q[i] = s
  BY DEF Lists
<1>3. \A i \in 1..n : Cardinality(earlier(q[i])) = i - 1
  BY ListsRank
<1>4. Ordered(S, R) = [i \in 1..n |-> CHOOSE x \in S : Cardinality(earlier(x)) = i - 1]
  BY <1>1 DEF Ordered
<1> HIDE DEF earlier, n
<1>5. ASSUME NEW i \in 1..n PROVE q[i] = CHOOSE x \in S : Cardinality(earlier(x)) = i - 1
  <2>1. q[i] \in S /\ Cardinality(earlier(q[i])) = i - 1
    BY <1>1, <1>3
  <2>2. ASSUME NEW x \in S, Cardinality(earlier(x)) = i - 1 PROVE x = q[i]
    <3>1. PICK j \in 1..n : q[j] = x
      BY <1>2
    <3>2. Cardinality(earlier(q[j])) = j - 1
      BY <1>3
    <3>3. j = i
      <4>1. j - 1 = i - 1 /\ j \in Nat /\ i \in Nat
        BY <1>1, <2>2, <3>1, <3>2
      <4> QED
        BY <4>1
    <3> QED
      BY <3>1, <3>3
  <2> QED
    BY <2>1, <2>2
<1> QED
  BY <1>1, <1>4, <1>5

\* A finite set in a strict order has a list: ranks are below the number of elements, and
\* no two of them are the same.
LEMMA OrderedLists ==
  ASSUME NEW S, IsFiniteSet(S), NEW R, Strict(R, S)
  PROVE  Lists(Ordered(S, R), S, R)
<1> DEFINE earlier(x) == {y \in S : <<y, x>> \in R}
           n == Cardinality(S)
           rank == [x \in S |-> Cardinality(earlier(x)) + 1]
           q == Ordered(S, R)
<1>1. n \in Nat /\ IsFiniteSet(1..n) /\ Cardinality(1..n) = n
  <2>1. n \in Nat
    BY FS_CardinalityType
  <2> QED
    BY <2>1, FS_Interval
<1>2. \A x \in S : earlier(x) \in SUBSET S
  OBVIOUS
<1>3. \A x, y \in S : y \in earlier(x) <=> <<y, x>> \in R
  OBVIOUS
<1> HIDE DEF earlier
<1>4. ASSUME NEW x \in S PROVE rank[x] \in 1..n /\ IsFiniteSet(earlier(x)) /\ Cardinality(earlier(x)) \in Nat
  <2>1. IsFiniteSet(earlier(x)) /\ Cardinality(earlier(x)) <= n /\ (n = Cardinality(earlier(x)) => S = earlier(x))
    BY <1>2, FS_Subset
  <2>2. Cardinality(earlier(x)) \in Nat
    BY <2>1, FS_CardinalityType
  <2>3. x \notin earlier(x)
    BY <1>3 DEF Strict
  <2>4. rank[x] = Cardinality(earlier(x)) + 1
    OBVIOUS
  <2> HIDE DEF rank, n
  <2> QED
    BY <1>1, <2>1, <2>2, <2>3, <2>4
<1>5. ASSUME NEW x \in S, NEW y \in S, <<x, y>> \in R PROVE rank[x] < rank[y]
  <2>1. earlier(x) \in SUBSET earlier(y)
    <3>1. ASSUME NEW z \in earlier(x) PROVE z \in earlier(y)
      <4>1. z \in S /\ <<z, x>> \in R
        BY <1>2, <1>3
      <4>2. <<z, y>> \in R
        BY <1>5, <4>1 DEF Strict
      <4> QED
        BY <1>3, <4>1, <4>2
    <3> QED
      BY <3>1
  <2>2. x \in earlier(y) /\ x \notin earlier(x)
    BY <1>3, <1>5 DEF Strict
  <2>3. /\ Cardinality(earlier(x)) <= Cardinality(earlier(y))
        /\ Cardinality(earlier(y)) = Cardinality(earlier(x)) => earlier(y) = earlier(x)
    BY <1>4, <2>1, FS_Subset
  <2>4. Cardinality(earlier(x)) \in Nat /\ Cardinality(earlier(y)) \in Nat
    BY <1>4
  <2>5. Cardinality(earlier(x)) # Cardinality(earlier(y))
    BY <2>2, <2>3
  <2> QED
    BY <2>3, <2>4, <2>5
<1>6. ASSUME NEW x \in S, NEW y \in S, rank[x] = rank[y] PROVE x = y
  <2>1. rank[x] \in Nat /\ rank[y] \in Nat
    BY <1>1, <1>4
  <2> HIDE DEF rank
  <2>2. <<x, y>> \notin R /\ <<y, x>> \notin R
    BY <1>5, <1>6, <2>1
  <2> QED
    BY <2>2 DEF Strict
<1>7. \A x, y \in S : rank[x] < rank[y] => <<x, y>> \in R
  <2>1. \A x \in S : rank[x] \in Nat
    BY <1>1, <1>4
  <2>2. ASSUME NEW x \in S, NEW y \in S, rank[x] < rank[y] PROVE <<x, y>> \in R
    <3> HIDE DEF rank
    <3>1. x # y /\ ~(rank[y] < rank[x])
      BY <2>1, <2>2
    <3> QED
      BY <1>5, <3>1 DEF Strict
  <2> QED
    BY <2>2
<1>8. \A i \in 1..n : \E x \in S : rank[x] = i
  <2>1. rank \in [S -> 1..n]
    <3> HIDE DEF n
    <3> QED
      BY <1>4
  <2> HIDE DEF rank
  <2>2. rank \in Injection(S, 1..n)
    BY <1>6, <2>1 DEF Injection, IsInjective
  <2>3. rank \in Surjection(S, 1..n)
    BY <1>1, <2>2, FS_Injection
  <2> QED
    BY <2>3 DEF Surjection
<1>9. q = [i \in 1..n |-> CHOOSE x \in S : Cardinality(earlier(x)) = i - 1]
  BY DEF Ordered, earlier
<1> HIDE DEF n
<1>10. ASSUME NEW i \in 1..n PROVE q[i] \in S /\ rank[q[i]] = i
  <2>1. PICK x \in S : rank[x] = i
    BY <1>8
  <2>2. Cardinality(earlier(x)) = i - 1
    BY <1>1, <1>4, <2>1
  <2>3. q[i] = CHOOSE y \in S : Cardinality(earlier(y)) = i - 1
    BY <1>9
  <2>4. q[i] \in S /\ Cardinality(earlier(q[i])) = i - 1
    BY <2>2, <2>3
  <2> QED
    BY <1>1, <2>4
<1> HIDE DEF q, rank
<1>11. q \in Seq(S) /\ Len(q) = n
  <2>1. q \in [1..n -> S]
    BY <1>9, <1>10
  <2> QED
    BY <1>1, <2>1, IsASeq, LenProperties
<1>12. ASSUME NEW s \in S PROVE \E i \in 1..n : q[i] = s
  <2>1. rank[s] \in 1..n
    BY <1>4
  <2>2. q[rank[s]] \in S /\ rank[q[rank[s]]] = rank[s]
    BY <1>10, <2>1
  <2> QED
    BY <1>6, <2>1, <2>2
<1>13. ASSUME NEW i \in 1..n, NEW j \in 1..n, i < j PROVE <<q[i], q[j]>> \in R
  BY <1>7, <1>10, <1>13
<1> QED
  BY <1>11, <1>12, <1>13 DEF Lists, q
-------------------------------------------------------------------------------
(* The order of a query, in which the first field that differs decides. *)

\* Entry a has a value before b's in order o.
Less(o, a, b) ==
  IF o.descending THEN a.row[o.field] > b.row[o.field] ELSE a.row[o.field] < b.row[o.field]

\* The entries agree in the first i fields.
Alike(by, i, a, b) == \A j \in 1..i : a.row[by[j].field] = b.row[by[j].field]

LEMMA RowPrecedesIs ==
  ASSUME NEW by, NEW a, NEW b
  PROVE  RowPrecedes(by, a, b) <=>
           \/ \E i \in DOMAIN by : Alike(by, i - 1, a, b) /\ Less(by[i], a, b)
           \/ Alike(by, Len(by), a, b) /\ a.key < b.key
BY DEF RowPrecedes, Alike, Less

\* Values of a field are in a strict order.
LEMMA LessIsOrder ==
  ASSUME NEW o \in Orders, NEW a \in SlotEntry, NEW b \in SlotEntry, NEW c \in SlotEntry
  PROVE  /\ a.row[o.field] = b.row[o.field] => ~Less(o, a, b)
         /\ a.row[o.field] = b.row[o.field] \/ Less(o, a, b) \/ Less(o, b, a)
         /\ Less(o, a, b) /\ Less(o, b, c) => Less(o, a, c)
         /\ a.row[o.field] = b.row[o.field] => (Less(o, b, c) <=> Less(o, a, c))
         /\ b.row[o.field] = c.row[o.field] => (Less(o, a, b) <=> Less(o, a, c))
<1>1. a.row[o.field] \in Int /\ b.row[o.field] \in Int /\ c.row[o.field] \in Int
  BY StorageAssumption DEF SlotEntry, Orders
<1> QED
  BY <1>1 DEF Less

\* Entries with different keys have one order.
LEMMA RowPrecedesIsOrder ==
  ASSUME NEW by \in Seq(Orders), NEW a \in SlotEntry, NEW b \in SlotEntry, NEW c \in SlotEntry
  PROVE  /\ ~RowPrecedes(by, a, a)
         /\ a.key = b.key \/ RowPrecedes(by, a, b) \/ RowPrecedes(by, b, a)
         /\ RowPrecedes(by, a, b) /\ RowPrecedes(by, b, c) => RowPrecedes(by, a, c)
<1> DEFINE m == Len(by)
<1>1. /\ m \in Nat /\ DOMAIN by = 1..m /\ \A i \in 1..m : by[i] \in Orders
  BY LenProperties, ElementOfSeq
<1>2. a.key \in Nat /\ b.key \in Nat /\ c.key \in Nat
  BY StorageAssumption DEF SlotEntry
<1>3. \A x, y \in SlotEntry :
        RowPrecedes(by, x, y) <=>
           \/ \E i \in 1..m : Alike(by, i - 1, x, y) /\ Less(by[i], x, y)
           \/ Alike(by, m, x, y) /\ x.key < y.key
  BY <1>1, RowPrecedesIs
<1> HIDE DEF m
<1>4. ~RowPrecedes(by, a, a)
  <2>1. \A i \in 1..m : ~Less(by[i], a, a)
    BY <1>1, LessIsOrder
  <2> QED
    BY <1>2, <1>3, <2>1
<1>5. a.key = b.key \/ RowPrecedes(by, a, b) \/ RowPrecedes(by, b, a)
  <2> DEFINE differ == {i \in 1..m : a.row[by[i].field] # b.row[by[i].field]}
  <2>1. CASE differ = {}
    <3>1. Alike(by, m, a, b) /\ Alike(by, m, b, a)
      BY <2>1 DEF Alike
    <3> QED
      BY <1>2, <1>3, <3>1
  <2>2. CASE differ # {}
    <3>1. PICK i \in differ : \A j \in differ : i <= j
      <4>1. differ \subseteq Nat
        BY <1>1
      <4> HIDE DEF differ
      <4> QED
        BY <2>2, <4>1, LeastNumber, Zenon
    <3>2. i \in 1..m /\ a.row[by[i].field] # b.row[by[i].field]
      OBVIOUS
    <3>3. \A j \in 1..(i - 1) : j \in 1..m /\ j \notin differ
      BY <1>1, <3>1, <3>2
    <3>4. Alike(by, i - 1, a, b) /\ Alike(by, i - 1, b, a)
      BY <3>3 DEF Alike
    <3>5. Less(by[i], a, b) \/ Less(by[i], b, a)
      BY <1>1, <3>2, LessIsOrder
    <3> QED
      BY <1>3, <3>2, <3>4, <3>5
  <2> QED
    BY <2>1, <2>2
<1>6. ASSUME RowPrecedes(by, a, b), RowPrecedes(by, b, c) PROVE RowPrecedes(by, a, c)
  <2>1. CASE \E i \in 1..m : Alike(by, i - 1, a, b) /\ Less(by[i], a, b)
    <3>1. PICK i \in 1..m : Alike(by, i - 1, a, b) /\ Less(by[i], a, b)
      BY <2>1
    <3>2. CASE \E j \in 1..m : Alike(by, j - 1, b, c) /\ Less(by[j], b, c)
      <4>1. PICK j \in 1..m : Alike(by, j - 1, b, c) /\ Less(by[j], b, c)
        BY <3>2
      <4>2. CASE i = j
        <5>1. Alike(by, i - 1, a, c)
          BY <3>1, <4>1, <4>2 DEF Alike
        <5>2. Less(by[i], a, c)
          BY <1>1, <3>1, <4>1, <4>2, LessIsOrder
        <5> QED
          BY <1>3, <5>1, <5>2
      <4>3. CASE i < j
        <5>1. Alike(by, i - 1, b, c) /\ b.row[by[i].field] = c.row[by[i].field]
          BY <1>1, <4>1, <4>3 DEF Alike
        <5>2. Alike(by, i - 1, a, c)
          BY <3>1, <5>1 DEF Alike
        <5>3. Less(by[i], a, c)
          BY <1>1, <3>1, <5>1, LessIsOrder
        <5> QED
          BY <1>3, <5>2, <5>3
      <4>4. CASE j < i
        <5>1. Alike(by, j - 1, a, b) /\ a.row[by[j].field] = b.row[by[j].field]
          BY <1>1, <3>1, <4>4 DEF Alike
        <5>2. Alike(by, j - 1, a, c)
          BY <4>1, <5>1 DEF Alike
        <5>3. Less(by[j], a, c)
          BY <1>1, <4>1, <5>1, LessIsOrder
        <5> QED
          BY <1>3, <5>2, <5>3
      <4> QED
        BY <1>1, <4>2, <4>3, <4>4
    <3>3. CASE Alike(by, m, b, c) /\ b.key < c.key
      <4>1. Alike(by, i - 1, b, c) /\ b.row[by[i].field] = c.row[by[i].field]
        BY <1>1, <3>3 DEF Alike
      <4>2. Alike(by, i - 1, a, c)
        BY <3>1, <4>1 DEF Alike
      <4>3. Less(by[i], a, c)
        BY <1>1, <3>1, <4>1, LessIsOrder
      <4> QED
        BY <1>3, <4>2, <4>3
    <3> QED
      BY <1>3, <1>6, <3>2, <3>3
  <2>2. CASE Alike(by, m, a, b) /\ a.key < b.key
    <3>1. CASE \E j \in 1..m : Alike(by, j - 1, b, c) /\ Less(by[j], b, c)
      <4>1. PICK j \in 1..m : Alike(by, j - 1, b, c) /\ Less(by[j], b, c)
        BY <3>1
      <4>2. Alike(by, j - 1, a, b) /\ a.row[by[j].field] = b.row[by[j].field]
        BY <1>1, <2>2 DEF Alike
      <4>3. Alike(by, j - 1, a, c)
        BY <4>1, <4>2 DEF Alike
      <4>4. Less(by[j], a, c)
        BY <1>1, <4>1, <4>2, LessIsOrder
      <4> QED
        BY <1>3, <4>3, <4>4
    <3>2. CASE Alike(by, m, b, c) /\ b.key < c.key
      <4>1. Alike(by, m, a, c) /\ a.key < c.key
        BY <1>2, <2>2, <3>2 DEF Alike
      <4> QED
        BY <1>3, <4>1
    <3> QED
      BY <1>3, <1>6, <3>1, <3>2
  <2> QED
    BY <1>3, <1>6, <2>1, <2>2
<1> QED
  BY <1>4, <1>5, <1>6

\* Storage compares slots as the rows in them.
LEMMA PrecedesIs ==
  ASSUME NEW st, IsStorage(st), NEW by \in Seq(Orders),
         NEW l \in 1..Len(st.slots), NEW r \in 1..Len(st.slots)
  PROVE  Precedes(st, by, l, r) <=> RowPrecedes(by, st.slots[l], st.slots[r])
<1> DEFINE m == Len(by)
           a == st.slots[l]
           b == st.slots[r]
           differ == {i \in 1..m : Value(st, by[i].field, l) # Value(st, by[i].field, r)}
           first == Min(differ)
<1>1. /\ m \in Nat /\ DOMAIN by = 1..m /\ \A i \in 1..m : by[i] \in Orders /\ by[i].field \in Fields
  <2>1. \A i \in 1..m : by[i] \in Orders
    BY ElementOfSeq
  <2> QED
    BY <2>1, LenProperties DEF Orders
<1>2. /\ \A i \in 1..m : /\ Value(st, by[i].field, l) = a.row[by[i].field]
                         /\ Value(st, by[i].field, r) = b.row[by[i].field]
      /\ a \in SlotEntry /\ b \in SlotEntry
  <2>1. a \in SlotEntry /\ b \in SlotEntry
    BY ElementOfSeq DEF IsStorage
  <2> HIDE DEF m
  <2> QED
    BY <1>1, <2>1, ValueOfRow
<1>3. Precedes(st, by, l, r) <=>
        IF differ = {} THEN a.key < b.key
        ELSE IF by[first].descending
             THEN Value(st, by[first].field, l) > Value(st, by[first].field, r)
             ELSE Value(st, by[first].field, l) < Value(st, by[first].field, r)
  BY <1>1 DEF Precedes
<1>4. RowPrecedes(by, a, b) <=>
           \/ \E i \in 1..m : Alike(by, i - 1, a, b) /\ Less(by[i], a, b)
           \/ Alike(by, m, a, b) /\ a.key < b.key
  BY <1>1, RowPrecedesIs
<1>5. \A i \in 1..m : i \in differ <=> a.row[by[i].field] # b.row[by[i].field]
  BY <1>2
<1>6. differ \in SUBSET (1..m)
  OBVIOUS
<1> HIDE DEF m, a, b, differ
<1>7. \A i \in 1..m : a.row[by[i].field] = b.row[by[i].field] => ~Less(by[i], a, b)
  BY <1>1, <1>2, LessIsOrder
<1>8. CASE differ = {}
  <2>1. Alike(by, m, a, b)
    BY <1>5, <1>8 DEF Alike
  <2>2. \A i \in 1..m : ~Less(by[i], a, b)
    BY <1>5, <1>7, <1>8
  <2> QED
    BY <1>3, <1>4, <1>8, <2>1, <2>2 DEF a, b
<1>9. CASE differ # {}
  <2>1. first \in differ /\ \A i \in differ : first <= i
    BY <1>1, <1>6, <1>9, EndsExist
  <2>2. first \in 1..m /\ a.row[by[first].field] # b.row[by[first].field]
    BY <1>5, <1>6, <2>1
  <2>3. Precedes(st, by, l, r) <=> Less(by[first], a, b)
    BY <1>2, <1>3, <1>9, <2>2 DEF Less
  <2> HIDE DEF first
  <2>4. Alike(by, first - 1, a, b)
    <3>1. \A j \in 1..(first - 1) : j \in 1..m /\ ~(first <= j)
      BY <1>1, <2>2
    <3>2. \A j \in 1..(first - 1) : j \in 1..m /\ j \notin differ
      BY <2>1, <3>1
    <3> QED
      BY <1>5, <3>2 DEF Alike
  <2>5. ~Alike(by, m, a, b)
    BY <2>2 DEF Alike
  <2>6. ASSUME NEW i \in 1..m, Alike(by, i - 1, a, b), Less(by[i], a, b) PROVE i = first
    <3>1. i \in differ
      BY <1>5, <1>7, <2>6
    <3>2. first <= i
      BY <2>1, <3>1
    <3>3. ~(first < i)
      <4>1. first < i => first \in 1..(i - 1)
        BY <1>1, <2>2
      <4> QED
        BY <2>2, <2>6, <4>1 DEF Alike
    <3> QED
      BY <1>1, <2>2, <3>2, <3>3
  <2>7. RowPrecedes(by, a, b) <=> Less(by[first], a, b)
    BY <1>4, <2>2, <2>4, <2>5, <2>6
  <2> QED
    BY <2>3, <2>7 DEF a, b
<1> QED
  BY <1>8, <1>9

\* The order of slots.
Before(st, by) ==
  {p \in (1..Len(st.slots)) \X (1..Len(st.slots)) : Precedes(st, by, p[1], p[2])}

LEMMA BeforeIsStrict ==
  ASSUME NEW st, IsStorage(st), KeysDiffer(st.slots, 1..Len(st.slots)), NEW by \in Seq(Orders),
         NEW S \in SUBSET (1..Len(st.slots))
  PROVE  /\ Strict(Before(st, by), S)
         /\ \A l, r \in S : <<l, r>> \in Before(st, by) <=> Precedes(st, by, l, r)
<1> DEFINE n == Len(st.slots)
           R == Before(st, by)
<1>1. \A l \in 1..n : st.slots[l] \in SlotEntry
  BY ElementOfSeq DEF IsStorage
<1>2. \A l, r \in 1..n : <<l, r>> \in R <=> Precedes(st, by, l, r)
  BY DEF Before
<1> HIDE DEF R, n
<1>3. \A l, r \in 1..n : Precedes(st, by, l, r) <=> RowPrecedes(by, st.slots[l], st.slots[r])
  BY PrecedesIs DEF n
<1>4. S \subseteq 1..n /\ \A l, r \in 1..n : st.slots[l].key = st.slots[r].key => l = r
  BY DEF n, KeysDiffer
<1>5. \A x \in S : <<x, x>> \notin R
  BY <1>1, <1>2, <1>3, <1>4, RowPrecedesIsOrder
<1>6. ASSUME NEW x \in S, NEW y \in S PROVE x = y \/ <<x, y>> \in R \/ <<y, x>> \in R
  <2>1. st.slots[x] \in SlotEntry /\ st.slots[y] \in SlotEntry /\ x \in 1..n /\ y \in 1..n
    BY <1>1, <1>4
  <2>2. \/ st.slots[x].key = st.slots[y].key \/ RowPrecedes(by, st.slots[x], st.slots[y])
        \/ RowPrecedes(by, st.slots[y], st.slots[x])
    BY <2>1, RowPrecedesIsOrder
  <2> QED
    BY <1>2, <1>3, <1>4, <2>1, <2>2
<1>7. ASSUME NEW x \in S, NEW y \in S, NEW z \in S, <<x, y>> \in R, <<y, z>> \in R
      PROVE  <<x, z>> \in R
  <2>1. /\ st.slots[x] \in SlotEntry /\ st.slots[y] \in SlotEntry /\ st.slots[z] \in SlotEntry
        /\ x \in 1..n /\ y \in 1..n /\ z \in 1..n
    BY <1>1, <1>4
  <2>2. RowPrecedes(by, st.slots[x], st.slots[y]) /\ RowPrecedes(by, st.slots[y], st.slots[z])
    BY <1>2, <1>3, <1>7, <2>1
  <2>3. RowPrecedes(by, st.slots[x], st.slots[z])
    BY <2>1, <2>2, RowPrecedesIsOrder
  <2> QED
    BY <1>2, <1>3, <2>1, <2>3
<1>8. Strict(R, S)
  BY <1>5, <1>6, <1>7 DEF Strict
<1> QED
  BY <1>2, <1>4, <1>8 DEF R

\* Sorting slots lists them.
LEMMA SortedLists ==
  ASSUME NEW st, IsStorage(st), KeysDiffer(st.slots, 1..Len(st.slots)), NEW by \in Seq(Orders),
         NEW S \in SUBSET (1..Len(st.slots))
  PROVE  Lists(Sorted(st, by, S), S, Before(st, by))
<1> DEFINE R == Before(st, by)
           T == {p \in S \X S : Precedes(st, by, p[1], p[2])}
<1>1. Strict(R, S) /\ \A l, r \in S : <<l, r>> \in R <=> Precedes(st, by, l, r)
  BY BeforeIsStrict
<1>2. \A l, r \in S : <<l, r>> \in T <=> <<l, r>> \in R
  BY <1>1
<1>3. Sorted(st, by, S) = Ordered(S, T)
  BY DEF Sorted
<1> HIDE DEF R, T
<1>4. Strict(T, S)
  BY <1>1, <1>2 DEF Strict
<1>5. IsFiniteSet(S)
  <2>1. Len(st.slots) \in Nat
    BY LenProperties DEF IsStorage
  <2>2. IsFiniteSet(1..Len(st.slots))
    BY <2>1, FS_Interval
  <2> QED
    BY <2>2, FS_Subset
<1>6. Lists(Ordered(S, T), S, T)
  BY <1>4, <1>5, OrderedLists
<1> DEFINE q == Ordered(S, T)
<1> HIDE DEF q
<1>7. Lists(q, S, T)
  BY <1>6 DEF q
<1>8. /\ q \in Seq(S) /\ \A i \in 1..Len(q) : q[i] \in S
      /\ \A s \in S : \E i \in 1..Len(q) : q[i] = s
      /\ \A i, j \in 1..Len(q) : i < j => <<q[i], q[j]>> \in T
  <2>1. q \in Seq(S)
    BY <1>7 DEF Lists
  <2>2. \A i \in 1..Len(q) : q[i] \in S
    BY <2>1, ElementOfSeq
  <2> QED
    BY <1>7, <2>1, <2>2 DEF Lists
<1>9. Lists(q, S, R)
  BY <1>2, <1>8 DEF Lists
<1> QED
  BY <1>3, <1>9 DEF q, R
-------------------------------------------------------------------------------
(* What a query asks, and what the columns say of it. *)

\* A list by a field, as the indexes have it.
LEMMA ListedIsLists ==
  ASSUME NEW st, IsStorage(st), NEW o \in Orders, NEW S \in SUBSET (1..Len(st.slots)), NEW q
  PROVE  Listed(q, st.slots, o, S) <=> Lists(q, S, Before(st, <<o>>))
<1> DEFINE n == Len(st.slots)
           R == Before(st, <<o>>)
<1>1. ASSUME NEW l \in S, NEW r \in S PROVE <<l, r>> \in R <=> Ahead(st.slots, o, l, r)
  <2>1. l \in 1..n /\ r \in 1..n
    OBVIOUS
  <2>2. <<l, r>> \in R <=> Precedes(st, <<o>>, l, r)
    BY <2>1 DEF Before
  <2> QED
    BY <2>1, <2>2, PrecedesIsAhead
<1> HIDE DEF R
<1>2. ASSUME q \in Seq(S) PROVE \A i \in 1..Len(q) : q[i] \in S
  BY <1>2, ElementOfSeq
<1>3. Listed(q, st.slots, o, S) <=> Lists(q, S, R)
  BY <1>1, <1>2 DEF Listed, Lists
<1> QED
  BY <1>3 DEF R

\* An index that is built lists all slots.
LEMMA SortedListed ==
  ASSUME NEW st, IsStorage(st), KeysDiffer(st.slots, 1..Len(st.slots)), NEW o \in Orders
  PROVE  Listed(Sorted(st, <<o>>, DOMAIN st.slots), st.slots, o, 1..Len(st.slots))
<1>1. DOMAIN st.slots = 1..Len(st.slots) /\ 1..Len(st.slots) \in SUBSET (1..Len(st.slots))
  BY LenProperties DEF IsStorage
<1>2. <<o>> \in Seq(Orders)
  OBVIOUS
<1>3. Lists(Sorted(st, <<o>>, 1..Len(st.slots)), 1..Len(st.slots), Before(st, <<o>>))
  BY <1>1, <1>2, SortedLists
<1> DEFINE q == Sorted(st, <<o>>, 1..Len(st.slots))
<1> HIDE DEF q
<1>4. Listed(q, st.slots, o, 1..Len(st.slots))
  BY <1>1, <1>3, ListedIsLists DEF q
<1> QED
  BY <1>1, <1>4 DEF q

\* The filters of a plan.
LEMMA FiltersOfPlan ==
  ASSUME NEW plan \in Plans
  PROVE  plan.filters \in Seq(Filters) /\ plan.orderBy \in Seq(Orders)
BY ScanAssumption

LEMMA FilterIs ==
  ASSUME NEW plan \in Plans, NEW i \in DOMAIN plan.filters
  PROVE  LET filter == plan.filters[i]
         IN  /\ filter.field \in Fields /\ filter.op \in Ranges \union {"in", "neq"}
             /\ filter.values \subseteq Comparable
             /\ filter.op # "in" => Bound(filter) \in filter.values /\ Bound(filter) \in Int
<1> DEFINE filter == plan.filters[i]
<1>1. filter \in Filters
  <2>1. i \in 1..Len(plan.filters)
    BY FiltersOfPlan, LenProperties
  <2> QED
    BY <2>1, FiltersOfPlan, ElementOfSeq
<1>2. filter.op # "in" => Cardinality(filter.values) = 1
  BY ScanAssumption
<1> HIDE DEF filter
<1>3. /\ filter.field \in Fields /\ filter.op \in Ranges \union {"in", "neq"}
      /\ filter.values \subseteq Comparable /\ Comparable \subseteq Int
  BY <1>1, ScanAssumption DEF Filters
<1>4. ASSUME filter.op # "in" PROVE Bound(filter) \in filter.values
  <2>1. filter.values # {}
    BY <1>2, <1>4, FS_EmptySet
  <2> QED
    BY <2>1 DEF Bound
<1>5. filter.op # "in" => Bound(filter) \in filter.values /\ Bound(filter) \in Int
  BY <1>3, <1>4
<1> QED
  BY <1>3, <1>5 DEF filter

\* What passes exactly passes leniently.
LEMMA ExactIsLenient ==
  ASSUME NEW plan \in Plans, NEW i \in DOMAIN plan.filters, NEW v \in Int
  PROVE  /\ Passes(plan.filters[i], v, TRUE) => Passes(plan.filters[i], v, FALSE)
         /\ plan.filters[i].op = "in" => (Passes(plan.filters[i], v, TRUE) <=> v \in plan.filters[i].values)
         /\ plan.filters[i].op \in Ranges =>
              (Passes(plan.filters[i], v, TRUE) <=>
                 v \in Comparable /\ InRange(plan.filters[i].op, v, Bound(plan.filters[i])))
<1> DEFINE filter == plan.filters[i]
<1>1. filter.op \in {"gt", "gte", "lt", "lte", "in", "neq"}
  BY FilterIs DEF Ranges
<1> HIDE DEF filter
<1>3. CASE filter.op = "in"
  BY <1>3 DEF Passes, Ranges, filter
<1>4. CASE filter.op = "neq"
  BY <1>4 DEF Passes, Ranges, filter
<1>5. CASE filter.op \in Ranges
  <2>1. ASSUME NEW e \in BOOLEAN
        PROVE  Passes(filter, v, e)
                 <=> IF v \in Comparable THEN InRange(filter.op, v, Bound(filter)) ELSE ~e
    <3>1. filter.op # "in" /\ filter.op # "neq"
      BY <1>5 DEF Ranges
    <3> QED
      BY <1>5, <3>1 DEF Passes
  <2>2. filter.op # "in"
    BY <1>5 DEF Ranges
  <2>3. Passes(filter, v, TRUE) <=> v \in Comparable /\ InRange(filter.op, v, Bound(filter))
    BY <2>1
  <2>4. Passes(filter, v, TRUE) => Passes(filter, v, FALSE)
    BY <2>1
  <2> QED
    BY <2>2, <2>3, <2>4 DEF filter
<1> QED
  BY <1>1, <1>3, <1>4, <1>5 DEF Ranges

\* A slot matches where its row is what the query asks for.
LEMMA MatchesIsAccepts ==
  ASSUME NEW st, IsStorage(st), NEW plan \in Plans, NEW s \in 1..Len(st.slots)
  PROVE  MatchesSlot(st, plan, s) <=> Accepts(plan, st.slots[s].row)
<1> DEFINE row == st.slots[s].row
           inCells == [f \in Fields |-> Value(st, f, s)]
           at(i) == row[plan.filters[i].field]
<1>1. row \in StoredRows /\ \A f \in Fields : Value(st, f, s) = row[f] /\ row[f] \in Int
  <2>1. st.slots[s] \in SlotEntry
    BY ElementOfSeq DEF IsStorage
  <2>2. row \in StoredRows
    BY <2>1 DEF SlotEntry
  <2>3. \A f \in Fields : row[f] \in Int
    BY <2>2, StorageAssumption
  <2> QED
    BY <2>2, <2>3, ValueOfRow
<1>2. \A i \in DOMAIN plan.filters : plan.filters[i].field \in Fields
  BY FilterIs
<1>3. \A i \in DOMAIN plan.filters : inCells[plan.filters[i].field] = at(i)
  BY <1>1, <1>2
<1>4. ASSUME NEW e \in BOOLEAN
      PROVE  PassesAll(plan, inCells, e) <=> \A i \in DOMAIN plan.filters : Passes(plan.filters[i], at(i), e)
  <2> HIDE DEF inCells
  <2> QED
    BY <1>3 DEF PassesAll
<1>5. Accepts(plan, row) <=>
        row \in plan.accepts /\ \A i \in DOMAIN plan.filters : Passes(plan.filters[i], at(i), TRUE)
  BY DEF Accepts, PassesAll
<1>6. (\A i \in DOMAIN plan.filters : Passes(plan.filters[i], at(i), TRUE))
        => \A i \in DOMAIN plan.filters : Passes(plan.filters[i], at(i), FALSE)
  <2>1. \A i \in DOMAIN plan.filters : at(i) \in Int
    BY <1>1, <1>2
  <2> HIDE DEF at
  <2> QED
    BY <2>1, ExactIsLenient
<1>7. MatchesSlot(st, plan, s) <=> PassesAll(plan, inCells, plan.exact) /\ (plan.exact \/ Accepts(plan, row))
  BY DEF MatchesSlot
<1>8. plan.exact \in BOOLEAN /\ (plan.exact => plan.accepts = StoredRows)
  BY ScanAssumption
<1> HIDE DEF inCells, at, row
<1>9. CASE plan.exact
  <2>1. plan.exact = TRUE
    BY <1>8, <1>9
  <2> QED
    BY <1>1, <1>4, <1>5, <1>7, <1>8, <2>1 DEF row
<1>10. CASE ~plan.exact
  <2>1. plan.exact = FALSE
    BY <1>8, <1>10
  <2> QED
    BY <1>4, <1>5, <1>6, <1>7, <2>1 DEF row
<1> QED
  BY <1>9, <1>10

\* The slots whose rows a query asks for.
Asked(st, plan) == {s \in 1..Len(st.slots) : Accepts(plan, st.slots[s].row)}

\* The reference, which sorts entries, is that list of slots.
LEMMA ReferenceIs ==
  ASSUME NEW st, IsStorage(st), KeysDiffer(st.slots, 1..Len(st.slots)), NEW plan \in Plans,
         NEW q, Lists(q, Asked(st, plan), Before(st, plan.orderBy)),
         NEW accepted, accepted = {e \in ToSet(st.slots) : Accepts(plan, e.row)}
  PROVE  Ordered(accepted, {p \in accepted \X accepted : RowPrecedes(plan.orderBy, p[1], p[2])})
           = [i \in 1..Len(q) |-> st.slots[q[i]]]
<1> DEFINE n == Len(st.slots)
           M == Asked(st, plan)
           by == plan.orderBy
           R == {p \in accepted \X accepted : RowPrecedes(by, p[1], p[2])}
           e == [i \in 1..Len(q) |-> st.slots[q[i]]]
<1>1. /\ st.slots \in Seq(SlotEntry) /\ n \in Nat /\ DOMAIN st.slots = 1..n
      /\ \A s \in 1..n : st.slots[s] \in SlotEntry
      /\ \A l, r \in 1..n : st.slots[l].key = st.slots[r].key => l = r
      /\ by \in Seq(Orders)
  <2>1. st.slots \in Seq(SlotEntry)
    BY DEF IsStorage
  <2> QED
    BY <2>1, LenProperties, ElementOfSeq, FiltersOfPlan DEF KeysDiffer
<1>2. M \subseteq 1..n /\ \A s \in 1..n : s \in M <=> Accepts(plan, st.slots[s].row)
  BY DEF Asked
<1>3. /\ \A s \in M : st.slots[s] \in accepted
      /\ \A x \in accepted : \E s \in M : st.slots[s] = x
      /\ accepted \subseteq SlotEntry
  <2>1. ToSet(st.slots) = {st.slots[s] : s \in 1..n}
    BY <1>1 DEF ToSet
  <2> HIDE DEF M, n
  <2> QED
    BY <1>1, <1>2, <2>1
<1>4. \A x, y \in accepted : x.key = y.key => x = y
  <2> HIDE DEF M, n
  <2> QED
    BY <1>1, <1>2, <1>3
<1>5. \A x, y \in accepted : <<x, y>> \in R <=> RowPrecedes(by, x, y)
  OBVIOUS
<1> HIDE DEF R
<1>6. Strict(R, accepted)
  <2>1. \A x \in accepted : <<x, x>> \notin R
    BY <1>1, <1>3, <1>5, RowPrecedesIsOrder
  <2>2. ASSUME NEW x \in accepted, NEW y \in accepted PROVE x = y \/ <<x, y>> \in R \/ <<y, x>> \in R
    BY <1>1, <1>3, <1>4, <1>5, RowPrecedesIsOrder
  <2>3. ASSUME NEW x \in accepted, NEW y \in accepted, NEW z \in accepted, <<x, y>> \in R, <<y, z>> \in R
        PROVE  <<x, z>> \in R
    <3>1. x \in SlotEntry /\ y \in SlotEntry /\ z \in SlotEntry
      BY <1>3
    <3>2. RowPrecedes(by, x, y) /\ RowPrecedes(by, y, z)
      BY <1>5, <2>3
    <3>3. RowPrecedes(by, x, z)
      BY <1>1, <3>1, <3>2, RowPrecedesIsOrder
    <3> QED
      BY <1>5, <3>3
  <2> QED
    BY <2>1, <2>2, <2>3 DEF Strict
<1>7. /\ \A i \in 1..Len(q) : q[i] \in M
      /\ \A s \in M : \E i \in 1..Len(q) : q[i] = s
      /\ \A i, j \in 1..Len(q) : i < j => <<q[i], q[j]>> \in Before(st, by)
      /\ Len(q) \in Nat
  <2>1. q \in Seq(M)
    BY DEF Lists
  <2> QED
    BY <2>1, LenProperties, ElementOfSeq DEF Lists
<1> HIDE DEF M
<1>8. /\ e \in Seq(accepted) /\ Len(e) = Len(q) /\ \A i \in 1..Len(q) : e[i] = st.slots[q[i]]
  <2>1. e \in [1..Len(q) -> accepted]
    BY <1>3, <1>7
  <2> HIDE DEF e
  <2>2. e \in Seq(accepted) /\ Len(e) = Len(q)
    BY <1>7, <2>1, IsASeq, LenProperties
  <2> QED
    BY <2>2 DEF e
<1> HIDE DEF e
<1>9. \A x \in accepted : \E i \in 1..Len(e) : e[i] = x
  <2>1. ASSUME NEW x \in accepted PROVE \E i \in 1..Len(e) : e[i] = x
    <3>1. PICK s \in M : st.slots[s] = x
      BY <1>3
    <3>2. PICK i \in 1..Len(q) : q[i] = s
      BY <1>7
    <3> QED
      BY <1>8, <3>1, <3>2
  <2> QED
    BY <2>1
<1>10. ASSUME NEW i \in 1..Len(e), NEW j \in 1..Len(e), i < j PROVE <<e[i], e[j]>> \in R
  <2>1. i \in 1..Len(q) /\ j \in 1..Len(q) /\ q[i] \in 1..n /\ q[j] \in 1..n
    BY <1>2, <1>7, <1>8
  <2>2. Precedes(st, by, q[i], q[j])
    <3>1. <<q[i], q[j]>> \in Before(st, by)
      BY <1>7, <1>10, <2>1
    <3> QED
      BY <3>1 DEF Before
  <2>3. RowPrecedes(by, st.slots[q[i]], st.slots[q[j]])
    BY <1>1, <2>1, <2>2, PrecedesIs
  <2>4. e[i] = st.slots[q[i]] /\ e[j] = st.slots[q[j]] /\ e[i] \in accepted /\ e[j] \in accepted
    BY <1>3, <1>7, <1>8, <2>1
  <2> QED
    BY <1>5, <2>3, <2>4
<1>11. Lists(e, accepted, R)
  BY <1>8, <1>9, <1>10 DEF Lists
<1>12. e = Ordered(accepted, R)
  BY <1>6, <1>11, ListsOrdered
<1> QED
  BY <1>12 DEF e, R
-------------------------------------------------------------------------------
(* The part of an index that filters allow. *)

\* What holds from some index on has a cut, and bisection finds it.
LEMMA BisectCuts ==
  ASSUME NEW n \in Nat, NEW above, \A i, j \in 1..n : i < j /\ above[i] => above[j]
  PROVE  Bisect(n, above) \in 0..n /\ \A i \in 1..n : above[i] <=> i > Bisect(n, above)
<1> DEFINE Above == {i \in 1..n : above[i]}
<1>1. PICK k \in 0..n : \A i \in 1..n : above[i] <=> i > k
  <2>1. CASE Above = {}
    <3>1. n \in 0..n /\ \A i \in 1..n : above[i] <=> i > n
      BY <2>1
    <3> QED
      BY <3>1
  <2>2. CASE Above # {}
    <3>1. PICK m \in Above : \A i \in Above : m <= i
      <4>1. Above \subseteq Nat
        OBVIOUS
      <4> HIDE DEF Above
      <4> QED
        BY <2>2, <4>1, LeastNumber, Zenon
    <3>2. m \in 1..n /\ above[m]
      OBVIOUS
    <3>3. \A i \in 1..n : above[i] <=> i > m - 1
      <4>1. ASSUME NEW i \in 1..n PROVE above[i] <=> i > m - 1
        <5>1. above[i] => m <= i
          BY <3>1
        <5>2. m < i => above[i]
          BY <3>2
        <5>3. i > m - 1 <=> m < i \/ i = m
          BY <3>2
        <5> QED
          BY <3>2, <5>1, <5>2, <5>3
      <4> QED
        BY <4>1
    <3>4. m - 1 \in 0..n
      BY <3>2
    <3> QED
      BY <3>3, <3>4
  <2> QED
    BY <2>1, <2>2
<1>2. Bisect(n, above) = k
  BY <1>1, BisectFindsCut
<1> QED
  BY <1>1, <1>2

\* These are bounds of the kinds `ops`.
Bounding(bounds, ops) == \A b \in bounds : b.op \in ops /\ Bound(b) \in Int

\* All bounds allow the value of the slot at position i of the index.
Within(st, o, bounds, i) ==
  \A b \in bounds : InRange(b.op, Value(st, o.field, st.ordered[o][i]), Bound(b))

\* What an index of the storage has.
LEMMA IndexIs ==
  ASSUME NEW st, StorageInv(st), NEW o \in DOMAIN st.ordered
  PROVE  /\ IsStorage(st) /\ KeysDiffer(st.slots, 1..Len(st.slots)) /\ Len(st.slots) \in Nat
         /\ o \in Orders /\ o.field \in Fields /\ o.descending \in BOOLEAN
         /\ Listed(st.ordered[o], st.slots, o, 1..Len(st.slots))
         /\ Len(st.ordered[o]) = Len(st.slots) /\ DOMAIN st.ordered[o] = 1..Len(st.slots)
         /\ \A i \in 1..Len(st.slots) : /\ st.ordered[o][i] \in 1..Len(st.slots)
                                        /\ Value(st, o.field, st.ordered[o][i]) \in Int
<1> DEFINE n == Len(st.slots)
           q == st.ordered[o]
<1>1. /\ IsStorage(st) /\ KeysDiffer(st.slots, 1..n) /\ OrdersList(st, DOMAIN st.ordered, 1..n)
      /\ st.slots \in Seq(SlotEntry) /\ o \in Orders
  BY DEF StorageInv, Indexed, IsStorage
<1>2. n \in Nat /\ Listed(q, st.slots, o, 1..n)
  BY <1>1, LenProperties DEF OrdersList
<1>3. o.field \in Fields /\ o.descending \in BOOLEAN
  BY <1>1 DEF Orders
<1>4. Len(q) = n
  <2>1. n <= Len(st.slots)
    BY <1>2
  <2> QED
    BY <1>1, <1>2, <2>1, ListedLength
<1>5. q \in Seq(1..n)
  BY <1>2 DEF Listed
<1>6. DOMAIN q = 1..n /\ \A i \in 1..n : q[i] \in 1..n
  BY <1>4, <1>5, LenProperties, ElementOfSeq
<1>7. ASSUME NEW i \in 1..n PROVE Value(st, o.field, q[i]) \in Int
  <2>1. q[i] \in 1..Len(st.slots)
    BY <1>6
  <2>2. Value(st, o.field, q[i]) = st.slots[q[i]].row[o.field] /\ st.slots[q[i]].row \in StoredRows
    BY <1>1, <1>3, <2>1, ValueOfRow
  <2> QED
    BY <1>3, <2>2, StorageAssumption
<1> QED
  BY <1>1, <1>2, <1>3, <1>4, <1>6, <1>7

\* Its values follow its order.
LEMMA IndexRises ==
  ASSUME NEW st, StorageInv(st), NEW o \in DOMAIN st.ordered,
         NEW i \in 1..Len(st.slots), NEW j \in 1..Len(st.slots), i < j
  PROVE  LET v(x) == Value(st, o.field, st.ordered[o][x])
         IN  IF o.descending THEN v(j) <= v(i) ELSE v(i) <= v(j)
<1> DEFINE q == st.ordered[o]
           v(x) == Value(st, o.field, q[x])
<1>1. /\ IsStorage(st) /\ Listed(q, st.slots, o, 1..Len(st.slots)) /\ Len(q) = Len(st.slots)
      /\ o.field \in Fields
      /\ q[i] \in 1..Len(st.slots) /\ q[j] \in 1..Len(st.slots) /\ v(i) \in Int /\ v(j) \in Int
  BY IndexIs
<1>2. Ahead(st.slots, o, q[i], q[j])
  BY <1>1 DEF Listed
<1>3. v(i) = st.slots[q[i]].row[o.field] /\ v(j) = st.slots[q[j]].row[o.field]
  BY <1>1, ValueOfRow
<1> HIDE DEF v, q
<1>4. v(i) = v(j) \/ IF o.descending THEN v(i) > v(j) ELSE v(i) < v(j)
  <2>1. \/ st.slots[q[i]].row[o.field] = st.slots[q[j]].row[o.field]
        \/ IF o.descending THEN st.slots[q[i]].row[o.field] > st.slots[q[j]].row[o.field]
           ELSE st.slots[q[i]].row[o.field] < st.slots[q[j]].row[o.field]
    BY <1>2 DEF Ahead
  <2> QED
    BY <1>3, <2>1
<1>5. IF o.descending THEN v(j) <= v(i) ELSE v(i) <= v(j)
  BY <1>1, <1>4
<1> QED
  BY <1>5 DEF v, q

\* A value within a bound, and a greater or lesser one.
LEMMA InRangeIs ==
  ASSUME NEW op, NEW v \in Int, NEW w \in Int, NEW bound \in Int, v <= w
  PROVE  /\ op \in {"gt", "gte"} /\ InRange(op, v, bound) => InRange(op, w, bound)
         /\ op \in {"lt", "lte"} /\ InRange(op, w, bound) => InRange(op, v, bound)
<1>1. CASE op = "gt"
  BY <1>1 DEF InRange
<1>2. CASE op = "gte"
  BY <1>2 DEF InRange
<1>3. CASE op = "lt"
  BY <1>3 DEF InRange
<1>4. CASE op = "lte"
  BY <1>4 DEF InRange
<1> QED
  BY <1>1, <1>2, <1>3, <1>4

\* The span is where all bounds allow the value.
LEMMA SpanIs ==
  ASSUME NEW st, StorageInv(st), NEW o \in DOMAIN st.ordered, NEW lower, NEW upper,
         Bounding(lower, {"gt", "gte"}), Bounding(upper, {"lt", "lte"})
  PROVE  Span(st, o, lower, upper) = {i \in 1..Len(st.slots) : Within(st, o, lower \union upper, i)}
<1> DEFINE n == Len(st.slots)
           q == st.ordered[o]
           v(i) == Value(st, o.field, q[i])
           within(i, b) == InRange(b.op, Value(st, o.field, q[i]), Bound(b))
           near == IF o.descending THEN upper ELSE lower
           far == IF o.descending THEN lower ELSE upper
           enters == [i \in 1..n |-> \A b \in near : within(i, b)]
           leaves == [i \in 1..n |-> \E b \in far : ~within(i, b)]
<1>1. /\ n \in Nat /\ Len(q) = n /\ DOMAIN q = 1..n /\ o.descending \in BOOLEAN
      /\ \A i \in 1..n : v(i) \in Int
  BY IndexIs
<1>2. Span(st, o, lower, upper) = (Bisect(n, enters) + 1)..Bisect(n, leaves)
  BY <1>1, Zenon DEF Span
<1>3. \A i, j \in 1..n : i < j => IF o.descending THEN v(j) <= v(i) ELSE v(i) <= v(j)
  BY IndexRises
<1>4. \A i \in 1..n : \A b : within(i, b) <=> InRange(b.op, v(i), Bound(b))
  OBVIOUS
<1> HIDE DEF v, within, q, n
<1>5. ASSUME NEW i \in 1..n, NEW j \in 1..n, i < j
      PROVE  /\ \A b \in near : within(i, b) => within(j, b)
             /\ \A b \in far : within(j, b) => within(i, b)
  <2>1. v(i) \in Int /\ v(j) \in Int
    BY <1>1
  <2>2. CASE o.descending
    <3>1. v(j) <= v(i) /\ near = upper /\ far = lower
      BY <1>3, <1>5, <2>2
    <3>2. ASSUME NEW b \in upper, within(i, b) PROVE within(j, b)
      BY <1>4, <2>1, <3>1, <3>2, InRangeIs DEF Bounding
    <3>3. ASSUME NEW b \in lower, within(j, b) PROVE within(i, b)
      BY <1>4, <2>1, <3>1, <3>3, InRangeIs DEF Bounding
    <3> QED
      BY <3>1, <3>2, <3>3
  <2>3. CASE ~o.descending
    <3>1. v(i) <= v(j) /\ near = lower /\ far = upper
      BY <1>3, <1>5, <2>3
    <3>2. ASSUME NEW b \in lower, within(i, b) PROVE within(j, b)
      BY <1>4, <2>1, <3>1, <3>2, InRangeIs DEF Bounding
    <3>3. ASSUME NEW b \in upper, within(j, b) PROVE within(i, b)
      BY <1>4, <2>1, <3>1, <3>3, InRangeIs DEF Bounding
    <3> QED
      BY <3>1, <3>2, <3>3
  <2> QED
    BY <2>2, <2>3
<1>6. near \union far = lower \union upper
  OBVIOUS
<1>7. /\ \A i \in 1..n : enters[i] <=> \A b \in near : within(i, b)
      /\ \A i \in 1..n : leaves[i] <=> \E b \in far : ~within(i, b)
  OBVIOUS
<1> HIDE DEF near, far, enters, leaves
<1>8. \A i, j \in 1..n : i < j /\ enters[i] => enters[j]
  BY <1>5, <1>7
<1>9. \A i, j \in 1..n : i < j /\ leaves[i] => leaves[j]
  BY <1>5, <1>7
<1>10. Bisect(n, enters) \in 0..n /\ \A i \in 1..n : enters[i] <=> i > Bisect(n, enters)
  BY <1>1, <1>8, BisectCuts
<1>11. Bisect(n, leaves) \in 0..n /\ \A i \in 1..n : leaves[i] <=> i > Bisect(n, leaves)
  BY <1>1, <1>9, BisectCuts
<1>12. \A i \in 1..n : Within(st, o, lower \union upper, i) <=> enters[i] /\ ~leaves[i]
  <2>1. \A i \in 1..n : Within(st, o, near \union far, i) <=> \A b \in near \union far : within(i, b)
    BY DEF Within, within, q
  <2> QED
    BY <1>6, <1>7, <2>1
<1> DEFINE low == Bisect(n, enters)
           high == Bisect(n, leaves)
<1>13. low \in 0..n /\ high \in 0..n /\ \A i \in 1..n : Within(st, o, lower \union upper, i) <=> i > low /\ ~(i > high)
  BY <1>10, <1>11, <1>12
<1> HIDE DEF low, high
<1>14. (low + 1)..high = {i \in 1..n : Within(st, o, lower \union upper, i)}
  <2>1. \A i : i \in (low + 1)..high <=> i \in 1..n /\ i > low /\ ~(i > high)
    BY <1>1, <1>13
  <2> QED
    BY <1>13, <2>1
<1> QED
  BY <1>2, <1>14 DEF low, high, n

\* The bounds of a plan are some of its filters.
LEMMA BoundsOfPlan ==
  ASSUME NEW plan \in Plans, NEW field
  PROVE  /\ Bounding(Lower(plan, field), {"gt", "gte"}) /\ Bounding(Upper(plan, field), {"lt", "lte"})
         /\ \A b \in Lower(plan, field) \union Upper(plan, field) :
              \E i \in DOMAIN plan.filters :
                 b = plan.filters[i] /\ b.field = field /\ b.op \in Ranges
<1>1. ASSUME NEW b \in Lower(plan, field)
      PROVE  /\ \E i \in DOMAIN plan.filters : b = plan.filters[i] /\ b.field = field /\ b.op \in Ranges
             /\ b.op \in {"gt", "gte"} /\ Bound(b) \in Int
  <2>1. PICK i \in DOMAIN plan.filters :
           b = plan.filters[i] /\ b.field = field /\ b.op \in {"gt", "gte"}
    BY DEF Lower, FiltersOn
  <2>2. b.op # "in" /\ b.op \in Ranges
    BY <2>1 DEF Ranges
  <2> QED
    BY <2>1, <2>2, FilterIs
<1>2. ASSUME NEW b \in Upper(plan, field)
      PROVE  /\ \E i \in DOMAIN plan.filters : b = plan.filters[i] /\ b.field = field /\ b.op \in Ranges
             /\ b.op \in {"lt", "lte"} /\ Bound(b) \in Int
  <2>1. PICK i \in DOMAIN plan.filters :
           b = plan.filters[i] /\ b.field = field /\ b.op \in {"lt", "lte"}
    BY DEF Upper, FiltersOn
  <2>2. b.op # "in" /\ b.op \in Ranges
    BY <2>1 DEF Ranges
  <2> QED
    BY <2>1, <2>2, FilterIs
<1> QED
  BY <1>1, <1>2 DEF Bounding

\* What a row that the query asks for has in a field.
LEMMA AskedIs ==
  ASSUME NEW st, IsStorage(st), NEW plan \in Plans, NEW s \in Asked(st, plan)
  PROVE  /\ s \in 1..Len(st.slots)
         /\ \A i \in DOMAIN plan.filters :
              LET filter == plan.filters[i]
                  v      == Value(st, filter.field, s)
              IN  /\ filter.op = "in" => v \in filter.values
                  /\ filter.op \in Ranges => v \in Comparable /\ InRange(filter.op, v, Bound(filter))
<1>1. s \in 1..Len(st.slots) /\ Accepts(plan, st.slots[s].row)
  BY DEF Asked
<1>2. ASSUME NEW i \in DOMAIN plan.filters
      PROVE  LET filter == plan.filters[i]
                 v      == Value(st, filter.field, s)
             IN  /\ filter.op = "in" => v \in filter.values
                 /\ filter.op \in Ranges => v \in Comparable /\ InRange(filter.op, v, Bound(filter))
  <2> DEFINE filter == plan.filters[i]
             v == Value(st, filter.field, s)
  <2>1. filter.field \in Fields
    BY FilterIs
  <2>2. v = st.slots[s].row[filter.field] /\ st.slots[s].row \in StoredRows
    BY <1>1, <2>1, ValueOfRow
  <2>3. v \in Int
    BY <2>1, <2>2, StorageAssumption
  <2>4. Passes(filter, st.slots[s].row[filter.field], TRUE)
    BY <1>1 DEF Accepts, PassesAll
  <2> HIDE DEF v
  <2>5. Passes(plan.filters[i], v, TRUE)
    BY <2>2, <2>4
  <2>6. /\ plan.filters[i].op = "in" => v \in plan.filters[i].values
        /\ plan.filters[i].op \in Ranges =>
             v \in Comparable /\ InRange(plan.filters[i].op, v, Bound(plan.filters[i]))
    BY <2>3, <2>5, ExactIsLenient
  <2> QED
    BY <2>6 DEF v
<1> QED
  BY <1>1, <1>2

\* Where nothing is between the bounds, no row is asked for.
LEMMA NothingAsked ==
  ASSUME NEW st, IsStorage(st), NEW plan \in Plans, NEW field,
         NothingBetween(Lower(plan, field), Upper(plan, field))
  PROVE  Asked(st, plan) = {}
<1> SUFFICES ASSUME NEW s \in Asked(st, plan) PROVE FALSE
  OBVIOUS
<1>1. PICK l \in Lower(plan, field), u \in Upper(plan, field) :
        Bound(l) > Bound(u) \/ (Bound(l) = Bound(u) /\ (l.op = "gt" \/ u.op = "lt"))
  BY DEF NothingBetween
<1>2. /\ l.op \in {"gt", "gte"} /\ Bound(l) \in Int /\ u.op \in {"lt", "lte"} /\ Bound(u) \in Int
  BY BoundsOfPlan DEF Bounding
<1>3. PICK i \in DOMAIN plan.filters : l = plan.filters[i] /\ l.field = field /\ l.op \in Ranges
  BY BoundsOfPlan
<1>4. PICK j \in DOMAIN plan.filters : u = plan.filters[j] /\ u.field = field /\ u.op \in Ranges
  BY BoundsOfPlan
<1> DEFINE v == Value(st, field, s)
<1>5. v \in Comparable /\ InRange(l.op, v, Bound(l)) /\ InRange(u.op, v, Bound(u))
  BY <1>3, <1>4, AskedIs
<1>6. v \in Int
  BY <1>5, ScanAssumption
<1> HIDE DEF v
<1>7. v >= Bound(l) /\ (l.op = "gt" => v > Bound(l))
  <2>1. CASE l.op = "gt"
    BY <1>2, <1>5, <1>6, <2>1 DEF InRange
  <2>2. CASE l.op = "gte"
    BY <1>2, <1>5, <1>6, <2>2 DEF InRange
  <2> QED
    BY <1>2, <2>1, <2>2
<1>8. v <= Bound(u) /\ (u.op = "lt" => v < Bound(u))
  <2>1. CASE u.op = "lt"
    BY <1>2, <1>5, <1>6, <2>1 DEF InRange
  <2>2. CASE u.op = "lte"
    BY <1>2, <1>5, <1>6, <2>2 DEF InRange
  <2> QED
    BY <1>2, <2>1, <2>2
<1> QED
  BY <1>1, <1>2, <1>6, <1>7, <1>8

\* The spans of an index have the slots that are asked for.
LEMMA SpansCover ==
  ASSUME NEW st, StorageInv(st), NEW plan \in Plans, NEW o \in DOMAIN st.ordered
  PROVE  /\ Spans(st, plan, o) \subseteq 1..Len(st.slots)
         /\ \A i \in 1..Len(st.slots) : st.ordered[o][i] \in Asked(st, plan) => i \in Spans(st, plan, o)
<1> DEFINE n == Len(st.slots)
           q == st.ordered[o]
           lower == Lower(plan, o.field)
           upper == Upper(plan, o.field)
           equal == FiltersOn(plan, o.field, {"in"})
           v(i) == Value(st, o.field, q[i])
           from(w) == {[op |-> "gte", values |-> {w}]}
           to(w) == {[op |-> "lte", values |-> {w}]}
           at(w) == Span(st, o, from(w), to(w))
           sought(w) == /\ \A e \in equal : w \in e.values
                        /\ \A b \in lower \union upper : InRange(b.op, w, Bound(b))
<1>1. IsStorage(st) /\ \A i \in 1..n : v(i) \in Int
  BY IndexIs
<1>2. Spans(st, plan, o) =
        IF equal = {} THEN Span(st, o, lower, upper)
        ELSE UNION {at(w) : w \in {x \in Comparable : sought(x)}}
  BY DEF Spans, SpansOf
<1>3. ASSUME NEW i \in 1..n, q[i] \in Asked(st, plan)
      PROVE  /\ \A b \in lower \union upper : InRange(b.op, v(i), Bound(b))
             /\ \A e \in equal : v(i) \in e.values /\ e.values \subseteq Comparable
  <2>1. ASSUME NEW b \in lower \union upper PROVE InRange(b.op, v(i), Bound(b))
    <3>1. PICK j \in DOMAIN plan.filters : b = plan.filters[j] /\ b.field = o.field /\ b.op \in Ranges
      BY BoundsOfPlan
    <3> QED
      BY <1>1, <1>3, <3>1, AskedIs
  <2>2. ASSUME NEW e \in equal PROVE v(i) \in e.values /\ e.values \subseteq Comparable
    <3>1. PICK j \in DOMAIN plan.filters : e = plan.filters[j] /\ e.field = o.field /\ e.op = "in"
      BY DEF FiltersOn
    <3>2. v(i) \in e.values
      BY <1>1, <1>3, <3>1, AskedIs
    <3> QED
      BY <3>1, <3>2, FilterIs
  <2> QED
    BY <2>1, <2>2
<1>4. CASE equal = {}
  <2>1. Span(st, o, lower, upper) = {i \in 1..n : Within(st, o, lower \union upper, i)}
    BY BoundsOfPlan, SpanIs
  <2>2. Spans(st, plan, o) = {i \in 1..n : Within(st, o, lower \union upper, i)}
    BY <1>2, <1>4, <2>1
  <2>3. ASSUME NEW i \in 1..n, q[i] \in Asked(st, plan) PROVE Within(st, o, lower \union upper, i)
    BY <1>3, <2>3 DEF Within
  <2> QED
    BY <2>2, <2>3
<1>5. CASE equal # {}
  <2>1. ASSUME NEW w \in Int
        PROVE  at(w) \subseteq 1..n /\ \A i \in 1..n : v(i) = w => i \in at(w)
    <3>1. /\ \A b \in from(w) : b.op = "gte" /\ Bound(b) = w
          /\ \A b \in to(w) : b.op = "lte" /\ Bound(b) = w
      BY DEF Bound
    <3> HIDE DEF from, to
    <3>2. Bounding(from(w), {"gt", "gte"}) /\ Bounding(to(w), {"lt", "lte"})
      BY <3>1 DEF Bounding
    <3>3. at(w) = {i \in 1..n : Within(st, o, from(w) \union to(w), i)}
      BY <3>2, SpanIs
    <3>4. InRange("gte", w, w) /\ InRange("lte", w, w)
      BY DEF InRange
    <3>5. ASSUME NEW i \in 1..n, v(i) = w PROVE Within(st, o, from(w) \union to(w), i)
      <4>1. ASSUME NEW b \in from(w) \union to(w) PROVE InRange(b.op, w, Bound(b))
        BY <3>1, <3>4
      <4> QED
        BY <3>5, <4>1 DEF Within
    <3> QED
      BY <3>3, <3>5
  <2>2. Spans(st, plan, o) = UNION {at(w) : w \in {x \in Comparable : sought(x)}}
    BY <1>2, <1>5
  <2>3. Comparable \subseteq Int
    BY ScanAssumption
  <2> HIDE DEF at
  <2>4. Spans(st, plan, o) \subseteq 1..n
    BY <2>1, <2>2, <2>3
  <2>5. ASSUME NEW i \in 1..n, q[i] \in Asked(st, plan) PROVE i \in Spans(st, plan, o)
    <3> DEFINE w == v(i)
    <3>1. sought(w) /\ w \in Comparable
      BY <1>3, <1>5, <2>5
    <3>2. i \in at(w)
      BY <1>1, <2>1
    <3> HIDE DEF w, sought
    <3> QED
      BY <2>2, <3>1, <3>2
  <2> QED
    BY <2>4, <2>5
<1> QED
  BY <1>4, <1>5

-------------------------------------------------------------------------------
(* Candidates, and the indexes that scans leave behind. *)

\* A scan builds an ordered index.
LEMMA BuildKeeps ==
  ASSUME NEW st, StorageInv(st), NEW o \in Orders
  PROVE  /\ StorageInv(BuildIndex(st, o)) /\ o \in DOMAIN BuildIndex(st, o).ordered
         /\ BuildIndex(st, o).slots = st.slots /\ BuildIndex(st, o).columns = st.columns
<1> DEFINE t == BuildIndex(st, o)
           S == 1..Len(st.slots)
           after == [p \in DOMAIN st.ordered \union {o} |->
                       IF p = o THEN Sorted(st, <<o>>, DOMAIN st.slots) ELSE st.ordered[p]]
<1>1. CASE o \in DOMAIN st.ordered
  BY <1>1 DEF BuildIndex
<1>2. CASE o \notin DOMAIN st.ordered
  <2>1. t = [st EXCEPT !.ordered = after]
    BY <1>2 DEF BuildIndex
  <2>2. /\ IsStorage(st) /\ KeysDiffer(st.slots, S) /\ KeysLead(st, S)
        /\ OrdersList(st, DOMAIN st.ordered, S) /\ BucketsHold(st, S)
    BY DEF StorageInv, Indexed
  <2>3. Listed(Sorted(st, <<o>>, DOMAIN st.slots), st.slots, o, S)
    BY <2>2, SortedListed
  <2>4. /\ DOMAIN after = DOMAIN st.ordered \union {o}
        /\ \A p \in DOMAIN after : Listed(after[p], st.slots, p, S)
    BY <2>2, <2>3 DEF OrdersList
  <2> HIDE DEF after, t, S
  <2>5. /\ DOMAIN t = Parts /\ t.slots = st.slots /\ t.columns = st.columns
        /\ t.keyToSlot = st.keyToSlot /\ t.buckets = st.buckets /\ t.ordered = after
    BY <2>1, <2>2 DEF IsStorage, Parts
  <2>6. IsStorage(t)
    BY <2>2, <2>4, <2>5 DEF IsStorage
  <2>7. OrdersList(t, DOMAIN t.ordered, S) /\ BucketsHold(t, S) /\ KeysLead(t, S)
    BY <2>2, <2>4, <2>5 DEF OrdersList, BucketsHold, KeysLead
  <2>8. Indexed(t, S) /\ S = 1..Len(t.slots)
    BY <2>2, <2>5, <2>6, <2>7 DEF Indexed, S
  <2> QED
    BY <2>4, <2>5, <2>7, <2>8 DEF StorageInv, t
<1> QED
  BY <1>1, <1>2

\* Candidates come with the storage, perhaps with more buckets, and no slot that is asked
\* for is outside them.
FoundInv(found, st, plan) ==
  /\ DOMAIN found = {"storage", "sets"}
  /\ StorageInv(found.storage)
  /\ found.storage.slots = st.slots /\ found.storage.columns = st.columns
  /\ \A c \in found.sets : c \subseteq 1..Len(st.slots) /\ Asked(st, plan) \subseteq c

LEMMA NothingFound ==
  ASSUME NEW st, NEW plan, NEW s, StorageInv(s), s.slots = st.slots, s.columns = st.columns
  PROVE  FoundInv(Nothing(s), st, plan)
BY DEF FoundInv, Nothing

\* A scan builds the buckets that it looks for, and keeps those that are not empty.
LEMMA FoundKeeps ==
  ASSUME NEW st, StorageInv(st), NEW plan, NEW known, NEW build, NEW most, NEW added,
         DOMAIN added \subseteq [field : Fields, value : Int],
         \A b \in DOMAIN added : added[b] = {s \in DOMAIN st.slots : InBucket(st, b, s)},
         known \subseteq 1..Len(st.slots), Asked(st, plan) \subseteq known \union UNION Range(added)
  PROVE  FoundInv(FoundOrBuilt(st, known, added, build, most), st, plan)
<1> DEFINE S == 1..Len(st.slots)
           built == {b \in DOMAIN added : added[b] # {}}
           after == [b \in DOMAIN st.buckets \union built |->
                       IF b \in DOMAIN st.buckets THEN st.buckets[b] ELSE added[b]]
           t == [st EXCEPT !.buckets = after]
           more == known \union UNION Range(added)
<1>1. \/ FoundOrBuilt(st, known, added, build, most) = Nothing(st)
      \/ FoundOrBuilt(st, known, added, build, most) = Found(st, known) /\ DOMAIN added = {}
      \/ FoundOrBuilt(st, known, added, build, most) = Found(t, more)
  BY DEF FoundOrBuilt
<1>2. /\ IsStorage(st) /\ KeysDiffer(st.slots, S) /\ KeysLead(st, S)
      /\ OrdersList(st, DOMAIN st.ordered, S) /\ BucketsHold(st, S)
      /\ DOMAIN st.slots = S
  BY LenProperties DEF StorageInv, Indexed, IsStorage
<1>3. \A b \in built : added[b] = Held(st.slots, b, S)
  <2>1. ASSUME NEW b \in built PROVE added[b] = Held(st.slots, b, S)
    <3>1. b.field \in Fields /\ added[b] = {s \in S : InBucket(st, b, s)}
      BY <1>2
    <3>2. \A s \in S : Value(st, b.field, s) = st.slots[s].row[b.field]
      BY <1>2, <3>1, ValueOfRow
    <3> QED
      BY <3>1, <3>2 DEF InBucket, Held
  <2> QED
    BY <2>1
<1>4. /\ DOMAIN after \subseteq [field : Fields, value : Int]
      /\ \A b \in DOMAIN after : after[b] = Held(st.slots, b, S)
  <2>1. DOMAIN after = DOMAIN st.buckets \union built
    OBVIOUS
  <2>2. DOMAIN after \subseteq [field : Fields, value : Int]
    BY <1>2, <2>1 DEF IsStorage
  <2>3. ASSUME NEW b \in DOMAIN after PROVE after[b] = Held(st.slots, b, S)
    BY <1>2, <1>3, <2>1 DEF BucketsHold
  <2> QED
    BY <2>2, <2>3
<1>11. /\ more \subseteq S /\ Asked(st, plan) \subseteq more
       /\ DOMAIN added = {} => Asked(st, plan) \subseteq known
  <2>1. Range(added) = {added[b] : b \in DOMAIN added}
    BY DEF Range
  <2>2. \A b \in DOMAIN added : added[b] \subseteq S
    BY <1>2
  <2> QED
    BY <2>1, <2>2
<1> HIDE DEF after
<1>5. /\ DOMAIN t = Parts /\ t.slots = st.slots /\ t.columns = st.columns
      /\ t.keyToSlot = st.keyToSlot /\ t.ordered = st.ordered /\ t.buckets = after
  BY <1>2 DEF IsStorage, Parts
<1> HIDE DEF t, S, more, built
<1>6. IsStorage(t)
  BY <1>2, <1>4, <1>5 DEF IsStorage
<1>7. OrdersList(t, DOMAIN t.ordered, S) /\ BucketsHold(t, S) /\ KeysLead(t, S)
  BY <1>2, <1>4, <1>5 DEF OrdersList, BucketsHold, KeysLead
<1>8. Indexed(t, S) /\ S = 1..Len(t.slots)
  BY <1>2, <1>5, <1>6, <1>7 DEF Indexed, S
<1>9. StorageInv(t)
  BY <1>7, <1>8 DEF StorageInv
<1>10. /\ FoundInv(Nothing(st), st, plan)
       /\ DOMAIN added = {} => FoundInv(Found(st, known), st, plan)
       /\ FoundInv(Found(t, more), st, plan)
  BY <1>5, <1>9, <1>11 DEF FoundInv, Nothing, Found, S
<1> QED
  BY <1>1, <1>10

\* Candidates from buckets.
LEMMA EqualityKeeps ==
  ASSUME NEW st, StorageInv(st), NEW plan \in Plans, NEW i \in DOMAIN plan.filters,
         plan.filters[i].op = "in", NEW build, NEW most
  PROVE  FoundInv(EqualityCandidates(st, plan.filters[i].field, plan.filters[i].values, build, most),
                  st, plan)
<1> DEFINE field == plan.filters[i].field
           values == plan.filters[i].values
           wanted == {Bucket(field, v) : v \in values}
           known == UNION {st.buckets[b] : b \in wanted \intersect DOMAIN st.buckets}
           added == [b \in wanted \ DOMAIN st.buckets |-> {s \in DOMAIN st.slots : InBucket(st, b, s)}]
           S == 1..Len(st.slots)
<1>1. \/ EqualityCandidates(st, field, values, build, most) = Nothing(st)
      \/ EqualityCandidates(st, field, values, build, most) = FoundOrBuilt(st, known, added, build, most)
  BY DEF EqualityCandidates
<1>2. field \in Fields /\ values \subseteq Comparable /\ Comparable \subseteq Int \ {MissingValue}
  BY FilterIs, ScanAssumption
<1>3. IsStorage(st) /\ BucketsHold(st, S) /\ DOMAIN st.slots = S
  BY LenProperties DEF StorageInv, Indexed, IsStorage
<1>4. /\ DOMAIN added = wanted \ DOMAIN st.buckets
      /\ DOMAIN added \subseteq [field : Fields, value : Int]
      /\ \A b \in DOMAIN added : added[b] = {s \in S : InBucket(st, b, s)}
  <2>1. DOMAIN added = wanted \ DOMAIN st.buckets
    OBVIOUS
  <2>2. ASSUME NEW b \in wanted PROVE b \in [field : Fields, value : Int]
    <3>1. PICK v \in values : b = Bucket(field, v)
      OBVIOUS
    <3>2. v \in Int
      BY <1>2
    <3> HIDE DEF values, field
    <3> QED
      BY <1>2, <3>1, <3>2 DEF Bucket
  <2>3. \A b \in DOMAIN added : added[b] = {s \in S : InBucket(st, b, s)}
    BY <1>3
  <2> HIDE DEF wanted, added
  <2> QED
    BY <2>1, <2>2, <2>3
<1>5. known \subseteq S
  BY <1>3 DEF BucketsHold, Held
<1>6. Asked(st, plan) \subseteq known \union UNION Range(added)
  <2>1. SUFFICES ASSUME NEW s \in Asked(st, plan) PROVE s \in known \union UNION Range(added)
    OBVIOUS
  <2> DEFINE v == Value(st, field, s)
             b == Bucket(field, v)
  <2>2. s \in S /\ v \in values
    BY <1>3, AskedIs
  <2>3. v = st.slots[s].row[field]
    BY <1>2, <1>3, <2>2, ValueOfRow
  <2>4. b \in wanted /\ b.field = field /\ b.value = v /\ v # MissingValue
    BY <1>2, <2>2 DEF Bucket
  <2> HIDE DEF v
  <2>5. CASE b \in DOMAIN st.buckets
    <3>1. s \in st.buckets[b]
      <4> HIDE DEF b
      <4>1. st.buckets[b] = Held(st.slots, b, S)
        BY <1>3, <2>5 DEF BucketsHold
      <4> QED
        BY <2>2, <2>3, <2>4, <4>1 DEF Held
    <3> HIDE DEF b
    <3> QED
      BY <2>4, <2>5, <3>1
  <2>6. CASE b \notin DOMAIN st.buckets
    <3>1. b \in DOMAIN added
      BY <1>4, <2>4, <2>6
    <3>2. InBucket(st, b, s)
      BY <2>4 DEF InBucket, v
    <3> HIDE DEF b, added
    <3>3. s \in added[b]
      BY <1>4, <2>2, <3>1, <3>2
    <3> QED
      BY <3>1, <3>3 DEF Range
  <2> QED
    BY <2>5, <2>6
<1> HIDE DEF added, known
<1>7. FoundInv(FoundOrBuilt(st, known, added, build, most), st, plan)
  <2>1. \A b \in DOMAIN added : added[b] = {s \in DOMAIN st.slots : InBucket(st, b, s)}
    BY <1>3, <1>4
  <2> HIDE DEF wanted, values, field
  <2> QED
    BY <1>4, <1>5, <1>6, <2>1, FoundKeeps
<1> QED
  BY <1>1, <1>7, NothingFound

\* Candidates from an ordered index build nothing.
LEMMA RangeKeeps ==
  ASSUME NEW st, StorageInv(st), NEW plan \in Plans, NEW field \in Fields, NEW most
  PROVE  FoundInv(RangeCandidates(st, plan, field, most), st, plan)
<1> DEFINE o == [field |-> field, descending |-> FALSE]
           lower == Lower(plan, field)
           upper == Upper(plan, field)
           span == Span(st, o, lower, upper)
           some == {st.ordered[o][i] : i \in span}
           n == Len(st.slots)
<1>1. \/ RangeCandidates(st, plan, field, most) = Nothing(st)
      \/ /\ NothingBetween(lower, upper)
         /\ RangeCandidates(st, plan, field, most) = Found(st, {})
      \/ /\ o \in DOMAIN st.ordered
         /\ RangeCandidates(st, plan, field, most) = Found(st, some)
  BY DEF RangeCandidates
<1>2. IsStorage(st)
  BY DEF StorageInv, Indexed
<1>3. NothingBetween(lower, upper) => FoundInv(Found(st, {}), st, plan)
  BY <1>2, NothingAsked DEF FoundInv, Found
<1>4. ASSUME o \in DOMAIN st.ordered PROVE FoundInv(Found(st, some), st, plan)
  <2>1. /\ \A i \in 1..n : st.ordered[o][i] \in 1..n
        /\ Listed(st.ordered[o], st.slots, o, 1..n) /\ Len(st.ordered[o]) = n
    BY <1>4, IndexIs
  <2>2. span = {i \in 1..n : Within(st, o, lower \union upper, i)}
    BY <1>4, BoundsOfPlan, SpanIs
  <2>3. some \subseteq 1..n
    BY <2>1, <2>2
  <2>4. ASSUME NEW s \in Asked(st, plan) PROVE s \in some
    <3>1. s \in 1..n
      BY <1>2, AskedIs
    <3>2. PICK i \in 1..n : st.ordered[o][i] = s
      BY <2>1, <3>1 DEF Listed
    <3>3. ASSUME NEW b \in lower \union upper PROVE InRange(b.op, Value(st, field, s), Bound(b))
      <4>1. PICK j \in DOMAIN plan.filters : b = plan.filters[j] /\ b.field = field /\ b.op \in Ranges
        BY BoundsOfPlan
      <4> QED
        BY <1>2, <4>1, AskedIs
    <3>4. Within(st, o, lower \union upper, i)
      BY <3>2, <3>3 DEF Within
    <3>5. i \in span
      BY <2>2, <3>4
    <3> HIDE DEF span
    <3> QED
      BY <3>2, <3>5
  <2> HIDE DEF some
  <2> QED
    BY <2>3, <2>4 DEF FoundInv, Found
<1> QED
  BY <1>1, <1>3, <1>4, NothingFound

\* What is found in a storage with other indexes is found in this one.
LEMMA FoundAlike ==
  ASSUME NEW st, NEW s, NEW plan, NEW found, FoundInv(found, s, plan),
         s.slots = st.slots, s.columns = st.columns
  PROVE  FoundInv(found, st, plan)
BY DEF FoundInv, Asked

\* One more filter.
LEMMA ConsiderKeeps ==
  ASSUME NEW st, StorageInv(st), NEW plan \in Plans, NEW build, NEW excluded, NEW most,
         NEW best, FoundInv(best, st, plan), NEW i \in DOMAIN plan.filters
  PROVE  FoundInv(Consider(plan, build, excluded, most, best, plan.filters[i]), st, plan)
<1> DEFINE filter == plan.filters[i]
           s == best.storage
           next == FilterCandidates(s, plan, filter, build, most)
<1>1. StorageInv(s) /\ s.slots = st.slots /\ s.columns = st.columns /\ filter.field \in Fields
  BY FilterIs DEF FoundInv
<1>2. FoundInv(next, s, plan)
  <2>1. filter.op = "in" =>
          FoundInv(EqualityCandidates(s, filter.field, filter.values, build, most), s, plan)
    BY <1>1, EqualityKeeps
  <2>2. FoundInv(RangeCandidates(s, plan, filter.field, most), s, plan)
    BY <1>1, RangeKeeps
  <2>3. FoundInv(Nothing(s), s, plan)
    BY <1>1, NothingFound
  <2> HIDE DEF filter, s
  <2> QED
    BY <2>1, <2>2, <2>3 DEF FilterCandidates
<1>3. FoundInv(next, st, plan)
  BY <1>1, <1>2, FoundAlike
<1> HIDE DEF next
<1>4. FoundInv(Better(best, next, most), st, plan)
  BY <1>3 DEF FoundInv, Better
<1> QED
  BY <1>4 DEF Consider, next

\* Candidates of all filters.
LEMMA CandidatesKeep ==
  ASSUME NEW st, StorageInv(st), NEW plan \in Plans, NEW build, NEW excluded, NEW most
  PROVE  FoundInv(Candidates(st, plan, build, excluded, most), st, plan)
<1> DEFINE n == Len(plan.filters)
           kind == [way |-> "consider", plan |-> plan, build |-> build, excluded |-> excluded, most |-> most]
<1>1. n \in Nat /\ DOMAIN plan.filters = 1..n
  BY FiltersOfPlan, LenProperties
<1>2. PICK c : /\ Runs(c, kind, Nothing(st), plan.filters)
               /\ Considered(st, plan, build, excluded, most) = c[n]
  BY <1>1, ConsidersFold
<1> DEFINE P == {m \in 0..n : FoundInv(c[m], st, plan)}
<1>3. 0 \in P
  <2>1. c[0] = Nothing(st)
    BY <1>2 DEF Runs
  <2> QED
    BY <1>1, <2>1, NothingFound
<1>4. ASSUME NEW m \in 1..n, m - 1 \in P PROVE m \in P
  <2>1. c[m] = Consider(plan, build, excluded, most, c[m - 1], plan.filters[m])
    <3>1. c[m] = Advance(kind, c[m - 1], plan.filters[m])
      BY <1>2 DEF Runs
    <3> QED
      BY <3>1 DEF Advance
  <2>2. FoundInv(c[m - 1], st, plan)
    BY <1>4
  <2>3. FoundInv(c[m], st, plan)
    BY <1>1, <2>1, <2>2, ConsiderKeeps
  <2> QED
    BY <1>1, <2>3
<1>5. FoundInv(c[n], st, plan)
  <2> HIDE DEF P
  <2>1. \A m \in 0..n : m \in P
    BY <1>1, <1>3, <1>4, CountUp
  <2> QED
    BY <1>1, <2>1 DEF P
<1> DEFINE all == c[n]
<1>6. Candidates(st, plan, build, excluded, most)
        = [all EXCEPT !.sets = {s \in @ : Cardinality(s) < Len(st.slots)}]
  BY <1>2 DEF Candidates
<1> HIDE DEF all
<1>7. FoundInv(all, st, plan)
  BY <1>5 DEF all
<1> QED
  BY <1>6, <1>7 DEF FoundInv
-------------------------------------------------------------------------------
(* The first of a set in an order. *)

\* T has the first elements of S, up to `end` of them.
Leading(T, S, R, end) ==
  /\ T \subseteq S /\ IsFiniteSet(T)
  /\ \A t \in T : \A s \in S \ T : <<t, s>> \in R
  /\ Cardinality(T) <= end
  /\ T # S => Cardinality(T) = end

\* An element with another order in it goes before one, after all others.
LEMMA StrictPart ==
  ASSUME NEW S, NEW R, Strict(R, S), NEW T \in SUBSET S
  PROVE  Strict(R, T)
BY DEF Strict

\* A list of the first elements is the first part of the list.
LEMMA LeadingFirst ==
  ASSUME NEW S, NEW R, Strict(R, S), NEW T, NEW end \in Nat, Leading(T, S, R, end),
         NEW p, Lists(p, T, R), NEW q, Lists(q, S, R)
  PROVE  p = FirstN(q, end)
<1> DEFINE n == Len(p)
<1>1. T \in SUBSET S /\ Strict(R, T)
  BY StrictPart DEF Leading
<1>2. p \in [1..n -> T] /\ n \in Nat /\ Cardinality(T) = n
  BY <1>1, ListsOnce
<1>3. /\ q \in [1..Len(q) -> S] /\ Len(q) \in Nat /\ IsFiniteSet(S) /\ Cardinality(S) = Len(q)
      /\ q \in Seq(S)
  BY ListsOnce DEF Lists
<1>4. n = Lesser(end, Len(q))
  <2>1. n <= end /\ n <= Len(q)
    BY <1>1, <1>2, <1>3, FS_Subset DEF Leading
  <2>2. n = end \/ n = Len(q)
    BY <1>2, <1>3 DEF Leading
  <2>3. \A a, b \in Nat : a <= b => Min({a, b}) = a /\ Min({b, a}) = a
    BY DEF Min
  <2> HIDE DEF n
  <2>4. CASE n = end
    BY <1>2, <1>3, <2>1, <2>3, <2>4 DEF Lesser
  <2>5. CASE n = Len(q)
    BY <1>2, <1>3, <2>1, <2>3, <2>5 DEF Lesser
  <2> QED
    BY <2>2, <2>4, <2>5
<1>5. n <= Len(q)
  BY <1>1, <1>2, <1>3, FS_Subset
<1>6. FirstN(q, end) = [i \in 1..n |-> q[i]]
  <2>1. SubSeq(q, 1, n) = [i \in 1..n |-> q[i]]
    <3> HIDE DEF n
    <3>1. SubSeq(q, 1, n) \in Seq(S) /\ Len(SubSeq(q, 1, n)) = n
          /\ \A i \in 1..n : SubSeq(q, 1, n)[i] = q[i]
      BY <1>2, <1>3, <1>5
    <3>2. SubSeq(q, 1, n) = [i \in 1..n |-> SubSeq(q, 1, n)[i]]
      BY <3>1, LenProperties
    <3> QED
      BY <3>1, <3>2
  <2> QED
    BY <1>4, <2>1 DEF FirstN
<1>7. ASSUME NEW i \in 1..n PROVE p[i] = q[i]
  <2>1. p[i] \in T /\ p[i] \in S
    BY <1>1, <1>2
  <2>2. PICK j \in 1..Len(q) : q[j] = p[i]
    BY <2>1 DEF Lists
  <2>3. {y \in S : <<y, p[i]>> \in R} = {y \in T : <<y, p[i]>> \in R}
    <3>1. ASSUME NEW y \in S, <<y, p[i]>> \in R PROVE y \in T
      <4>1. y \notin T => <<p[i], y>> \in R
        BY <2>1 DEF Leading
      <4>2. <<p[i], y>> \notin R
        BY <2>1, <3>1 DEF Strict
      <4> QED
        BY <4>1, <4>2
    <3> QED
      BY <1>1, <3>1
  <2>4. Cardinality({y \in T : <<y, p[i]>> \in R}) = i - 1
    BY <1>1, ListsRank
  <2>5. Cardinality({y \in S : <<y, q[j]>> \in R}) = j - 1
    BY ListsRank
  <2>6. i = j
    <3>1. i - 1 = j - 1
      BY <2>2, <2>3, <2>4, <2>5
    <3>2. i \in Nat /\ j \in Nat
      BY <1>2, <1>3
    <3> QED
      BY <3>1, <3>2
  <2> QED
    BY <2>2, <2>6
<1>8. p = [i \in 1..n |-> p[i]]
  BY <1>2
<1> QED
  BY <1>6, <1>7, <1>8

\* One more element: it is among the first while there are less than `end`.
LEMMA LeadingGrows ==
  ASSUME NEW S, NEW R, NEW T, NEW end \in Nat, Leading(T, S, R, end), NEW x, x \notin S,
         Cardinality(T) < end
  PROVE  T = S /\ Leading(T \union {x}, S \union {x}, R, end)
<1>1. T = S /\ IsFiniteSet(T) /\ x \notin T
  BY FS_CardinalityType DEF Leading
<1>2. IsFiniteSet(T \union {x}) /\ Cardinality(T \union {x}) = Cardinality(T) + 1
  BY <1>1, FS_AddElement
<1>3. Cardinality(T) \in Nat
  BY <1>1, FS_CardinalityType
<1> QED
  BY <1>1, <1>2, <1>3 DEF Leading

\* Then it takes the place of the last of them, or is not among them.
LEMMA LeadingTurns ==
  ASSUME NEW S, NEW R, NEW T, NEW end \in Nat, Leading(T, S, R, end), NEW x, x \notin S,
         Strict(R, S \union {x}), Cardinality(T) = end,
         NEW last \in T, \A t \in T : t # last => <<t, last>> \in R
  PROVE  /\ <<x, last>> \in R => Leading((T \ {last}) \union {x}, S \union {x}, R, end)
         /\ <<x, last>> \notin R => Leading(T, S \union {x}, R, end)
<1>1. /\ T \subseteq S /\ IsFiniteSet(T) /\ \A t \in T : \A s \in S \ T : <<t, s>> \in R
      /\ x # last /\ x \notin T
  BY DEF Leading
<1>2. ASSUME <<x, last>> \in R PROVE Leading((T \ {last}) \union {x}, S \union {x}, R, end)
  <2> DEFINE U == (T \ {last}) \union {x}
  <2>1. IsFiniteSet(T \ {last}) /\ Cardinality(T \ {last}) = end - 1
    BY <1>1, FS_RemoveElement
  <2>2. IsFiniteSet(U) /\ Cardinality(U) = end
    <3>1. IsFiniteSet(U) /\ Cardinality(U) = Cardinality(T \ {last}) + 1
      BY <1>1, <2>1, FS_AddElement
    <3> QED
      BY <2>1, <3>1
  <2>3. ASSUME NEW t \in U, NEW s \in (S \union {x}) \ U PROVE <<t, s>> \in R
    <3>1. s \in S /\ (s = last \/ s \notin T)
      BY <2>3
    <3>2. t \in S \union {x} /\ last \in S
      BY <1>1
    <3>3. <<t, last>> \in R
      BY <1>2
    <3>4. s \notin T => <<last, s>> \in R
      BY <1>1, <3>1
    <3> QED
      BY <3>1, <3>2, <3>3, <3>4 DEF Strict
  <2>4. U \subseteq S \union {x}
    BY <1>1
  <2> HIDE DEF U
  <2>5. Leading(U, S \union {x}, R, end)
    BY <2>2, <2>3, <2>4 DEF Leading
  <2> QED
    BY <2>5 DEF U
<1>3. ASSUME <<x, last>> \notin R PROVE Leading(T, S \union {x}, R, end)
  <2>1. <<last, x>> \in R
    BY <1>1, <1>3 DEF Strict
  <2>2. ASSUME NEW t \in T, NEW s \in (S \union {x}) \ T PROVE <<t, s>> \in R
    <3>1. <<t, x>> \in R
      BY <1>1, <2>1 DEF Strict
    <3> QED
      BY <1>1, <3>1
  <2> QED
    BY <1>1, <2>2 DEF Leading
<1> QED
  BY <1>2, <1>3

\* One more element for a list.
LEMMA InsertLists ==
  ASSUME NEW T, NEW R, NEW x, x \notin T, Strict(R, T \union {x}), NEW q, Lists(q, T, R),
         NEW above, \A i \in 1..Len(q) : above[i] <=> <<x, q[i]>> \in R
  PROVE  Lists(InsertAt(q, Bisect(Len(q), above) + 1, x), T \union {x}, R)
<1> DEFINE n == Len(q)
           k == Bisect(n, above)
           S == T \union {x}
           t == InsertAt(q, k + 1, x)
<1>1. /\ q \in [1..n -> T] /\ n \in Nat
      /\ \A i, j \in 1..n : i < j => <<q[i], q[j]>> \in R
      /\ \A s \in T : \E i \in 1..n : q[i] = s
  BY LenProperties DEF Lists
<1>2. \A i \in 1..n : q[i] \in T /\ q[i] \in S /\ q[i] # x
  BY <1>1
<1>3. x \in S
  OBVIOUS
<1>4. k \in 0..n /\ \A i \in 1..n : above[i] <=> i > k
  <2>1. \A i, j \in 1..n : i < j /\ above[i] => above[j]
    <3>1. ASSUME NEW i \in 1..n, NEW j \in 1..n, i < j, above[i] PROVE above[j]
      <4>1. <<x, q[i]>> \in R /\ <<q[i], q[j]>> \in R
        BY <1>1, <3>1
      <4>2. <<x, q[j]>> \in R
        BY <1>2, <1>3, <4>1 DEF Strict
      <4> QED
        BY <4>2
    <3> QED
      BY <3>1
  <2> HIDE DEF n
  <2> QED
    BY <1>1, <2>1, BisectCuts
<1>5. \A i \in 1..n : (i > k <=> <<x, q[i]>> \in R) /\ (i <= k => <<q[i], x>> \in R)
  <2>1. \A i \in 1..n : i > k <=> <<x, q[i]>> \in R
    BY <1>4
  <2>2. \A i \in 1..n : <<x, q[i]>> \notin R => <<q[i], x>> \in R
    BY <1>2, <1>3 DEF Strict
  <2>3. \A i \in 1..n : i <= k => ~(i > k)
    BY <1>1, <1>4
  <2> QED
    BY <2>1, <2>2, <2>3
<1>6. /\ t \in Seq(S) /\ Len(t) = n + 1
      /\ \A j \in 1..(n + 1) : t[j] = IF j < k + 1 THEN q[j] ELSE IF j = k + 1 THEN x ELSE q[j - 1]
  <2>1. q \in Seq(S) /\ k + 1 \in 1..(Len(q) + 1)
    <3>1. Seq(T) \subseteq Seq(S)
      OBVIOUS
    <3>2. k + 1 \in 1..(n + 1)
      BY <1>1, <1>4
    <3> QED
      BY <3>1, <3>2 DEF Lists
  <2> HIDE DEF k, S
  <2>2. t \in Seq(S) /\ WithEntry(t, q, k + 1, x)
    BY <1>3, <2>1, InsertAtIs
  <2> QED
    BY <2>2 DEF WithEntry
<1> HIDE DEF t, k, n
<1>7. ASSUME NEW i \in 1..(n + 1), NEW j \in 1..(n + 1), i < j PROVE <<t[i], t[j]>> \in R
  <2>1. i \in Nat /\ j \in Nat /\ 1 <= i /\ j <= n + 1 /\ k \in Nat
    BY <1>1, <1>4
  <2>2. CASE j < k + 1
    <3>1. i < k + 1 /\ i \in 1..n /\ j \in 1..n
      BY <1>1, <1>4, <1>7, <2>1, <2>2
    <3> QED
      BY <1>1, <1>6, <1>7, <2>2, <3>1
  <2>3. CASE j = k + 1
    <3>1. i < k + 1 /\ i \in 1..n /\ i <= k
      BY <1>1, <1>4, <1>7, <2>1, <2>3
    <3>2. ~(j < k + 1) /\ t[j] = x /\ t[i] = q[i]
      BY <1>6, <1>7, <2>1, <2>3, <3>1
    <3> QED
      BY <1>5, <3>1, <3>2
  <2>4. CASE j > k + 1
    <3>1. j - 1 \in 1..n /\ j - 1 > k /\ ~(j < k + 1) /\ j # k + 1
      BY <1>1, <1>4, <2>1, <2>4
    <3>2. CASE i < k + 1
      <4>1. i \in 1..n /\ i < j - 1
        BY <1>1, <1>4, <2>1, <2>4, <3>2
      <4> QED
        BY <1>1, <1>6, <3>1, <3>2, <4>1
    <3>3. CASE i = k + 1
      <4>1. ~(i < k + 1)
        BY <2>1, <3>3
      <4> QED
        BY <1>5, <1>6, <3>1, <3>3, <4>1
    <3>4. CASE i > k + 1
      <4>1. i - 1 \in 1..n /\ i - 1 < j - 1 /\ ~(i < k + 1) /\ i # k + 1
        BY <1>1, <1>4, <1>7, <2>1, <3>4
      <4>2. t[i] = q[i - 1] /\ t[j] = q[j - 1]
        BY <1>6, <3>1, <4>1
      <4> QED
        BY <1>1, <3>1, <4>1, <4>2
    <3> QED
      BY <2>1, <3>2, <3>3, <3>4
  <2> QED
    BY <2>1, <2>2, <2>3, <2>4
<1>8. ASSUME NEW s \in S PROVE \E i \in 1..(n + 1) : t[i] = s
  <2>1. CASE s = x
    <3>1. k + 1 \in 1..(n + 1) /\ ~(k + 1 < k + 1)
      BY <1>1, <1>4
    <3> QED
      BY <1>6, <2>1, <3>1
  <2>2. CASE s # x
    <3>1. PICK i \in 1..n : q[i] = s
      BY <1>1, <2>2
    <3>2. CASE i < k + 1
      <4>1. i \in 1..(n + 1)
        BY <1>1
      <4> QED
        BY <1>6, <3>1, <3>2, <4>1
    <3>3. CASE ~(i < k + 1)
      <4>1. i + 1 \in 1..(n + 1) /\ ~(i + 1 < k + 1) /\ i + 1 # k + 1 /\ (i + 1) - 1 = i
        BY <1>1, <1>4, <3>3
      <4> QED
        BY <1>6, <3>1, <4>1
    <3> QED
      BY <3>2, <3>3
  <2> QED
    BY <2>1, <2>2
<1>9. Lists(t, S, R)
  BY <1>6, <1>7, <1>8 DEF Lists
<1> QED
  BY <1>9 DEF t, k, n
-------------------------------------------------------------------------------
(* Keeping a sorted window. *)

\* Slots of the storage, each once.
Slots(s, st) ==
  /\ s \in Seq(1..Len(st.slots)) /\ Len(s) \in Nat /\ DOMAIN s = 1..Len(s)
  /\ \A i, j \in 1..Len(s) : s[i] = s[j] => i = j

\* The first m of them.
Until(s, m) == {s[i] : i \in 1..m}

LEMMA UntilIs ==
  ASSUME NEW st, NEW s, Slots(s, st)
  PROVE  /\ Until(s, 0) = {} /\ Until(s, Len(s)) = ToSet(s)
         /\ \A m \in 1..Len(s) : /\ Until(s, m) = Until(s, m - 1) \union {s[m]}
                                 /\ s[m] \notin Until(s, m - 1)
         /\ \A m \in 0..Len(s) : Until(s, m) \in SUBSET (1..Len(st.slots))
<1>1. Len(s) \in Nat /\ DOMAIN s = 1..Len(s) /\ \A i, j \in 1..Len(s) : s[i] = s[j] => i = j
  BY DEF Slots
<1>2. \A i \in 1..Len(s) : s[i] \in 1..Len(st.slots)
  BY ElementOfSeq DEF Slots
<1> DEFINE n == Len(s)
<1>3. n \in Nat /\ DOMAIN s = 1..n
  BY <1>1
<1>4. Until(s, 0) = {} /\ Until(s, n) = ToSet(s)
  BY <1>3 DEF Until, ToSet
<1> DEFINE N == 1..Len(st.slots)
<1>5. \A i \in 1..n : s[i] \in N
  BY <1>2
<1> HIDE DEF n, N
<1>6. ASSUME NEW m \in 1..n
      PROVE  Until(s, m) = Until(s, m - 1) \union {s[m]} /\ s[m] \notin Until(s, m - 1)
  <2>1. 1..m = 1..(m - 1) \union {m} /\ m \notin 1..(m - 1) /\ 1..m \subseteq 1..n
    BY <1>3
  <2>2. \A i \in 1..(m - 1) : s[i] # s[m]
    <3>1. \A i, j \in 1..n : s[i] = s[j] => i = j
      BY <1>1 DEF n
    <3> QED
      BY <2>1, <3>1
  <2> QED
    BY <2>1, <2>2 DEF Until
<1>7. ASSUME NEW m \in 0..n PROVE Until(s, m) \in SUBSET N
  <2>1. 1..m \subseteq 1..n
    BY <1>3
  <2> QED
    BY <1>5, <2>1 DEF Until
<1> QED
  BY <1>4, <1>6, <1>7 DEF n, N

\* A list without its last element.
LEMMA FrontLists ==
  ASSUME NEW T, NEW R, Strict(R, T), NEW q, Lists(q, T, R), Len(q) > 0
  PROVE  /\ Lists(Front(q), T \ {Last(q)}, R) /\ Len(Front(q)) = Len(q) - 1
         /\ Last(q) \in T /\ \A t \in T : t # Last(q) => <<t, Last(q)>> \in R
<1> DEFINE n == Len(q)
           last == q[n]
           p == SubSeq(q, 1, n - 1)
           U == T \ {last}
<1>1. /\ q \in [1..n -> T] /\ n \in Nat /\ n > 0 /\ q \in Seq(T)
      /\ \A i, j \in 1..n : q[i] = q[j] => i = j
  BY ListsOnce DEF Lists
<1>2. \A i, j \in 1..n : i < j => <<q[i], q[j]>> \in R
  BY DEF Lists
<1>3. \A t \in T : \E i \in 1..n : q[i] = t
  BY DEF Lists
<1>4. Front(q) = p /\ Last(q) = last
  BY DEF Front, Last
<1> HIDE DEF n
<1>5. n \in 1..n /\ n - 1 \in Nat /\ \A i \in 1..(n - 1) : i \in 1..n /\ i < n
  BY <1>1
<1>6. \A i \in 1..n : i # n => i \in 1..(n - 1)
  BY <1>1
<1>7. Len(p) = n - 1 /\ \A i \in 1..(n - 1) : p[i] = q[i]
  BY <1>1, <1>5
<1>8. p \in Seq(U)
  <2>1. p \in Seq(T)
    BY <1>1, <1>5
  <2>2. \A i \in 1..(n - 1) : p[i] \in U
    BY <1>1, <1>5, <1>7
  <2> HIDE DEF U
  <2>3. p = [i \in 1..(n - 1) |-> p[i]]
    BY <1>7, <2>1, LenProperties
  <2> HIDE DEF p
  <2>4. p \in [1..(n - 1) -> U]
    BY <2>2, <2>3
  <2> QED
    BY <1>5, <2>4, IsASeq
<1> HIDE DEF p
<1>9. ASSUME NEW t \in T, t # last PROVE <<t, last>> \in R /\ \E i \in 1..(n - 1) : p[i] = t
  <2>1. PICK i \in 1..n : q[i] = t
    BY <1>3
  <2>2. i \in 1..(n - 1)
    BY <1>6, <1>9, <2>1
  <2> QED
    BY <1>2, <1>5, <1>7, <2>1, <2>2
<1>10. Lists(p, U, R)
  <2>1. \A i, j \in 1..(n - 1) : i < j => <<p[i], p[j]>> \in R
    BY <1>2, <1>5, <1>7
  <2>2. \A u \in U : \E i \in 1..(n - 1) : p[i] = u
    BY <1>9
  <2> QED
    BY <1>7, <1>8, <2>1, <2>2 DEF Lists
<1>11. last \in T
  BY <1>1, <1>5
<1> QED
  BY <1>4, <1>7, <1>9, <1>10, <1>11 DEF n

\* A slot in a sorted sequence.
LEMMA InsertSortedLists ==
  ASSUME NEW st, IsStorage(st), KeysDiffer(st.slots, 1..Len(st.slots)), NEW by \in Seq(Orders),
         NEW T \in SUBSET (1..Len(st.slots)), NEW x \in 1..Len(st.slots), x \notin T,
         NEW q, Lists(q, T, Before(st, by))
  PROVE  Lists(InsertSorted(st, by, q, x), T \union {x}, Before(st, by))
<1> DEFINE R == Before(st, by)
           S == T \union {x}
           above == [i \in DOMAIN q |-> Precedes(st, by, x, q[i])]
<1>1. S \in SUBSET (1..Len(st.slots))
  OBVIOUS
<1>2. Strict(R, S) /\ \A l, r \in S : <<l, r>> \in R <=> Precedes(st, by, l, r)
  <2> HIDE DEF S
  <2> QED
    BY <1>1, BeforeIsStrict
<1>3. DOMAIN q = 1..Len(q) /\ \A i \in 1..Len(q) : q[i] \in T
  BY LenProperties, ElementOfSeq DEF Lists
<1>4. \A i \in 1..Len(q) : above[i] <=> <<x, q[i]>> \in R
  BY <1>2, <1>3
<1>5. InsertSorted(st, by, q, x) = InsertAt(q, Bisect(Len(q), above) + 1, x)
  BY DEF InsertSorted
<1> HIDE DEF above, R
<1>6. Lists(q, T, R)
  BY DEF R
<1>7. Lists(InsertAt(q, Bisect(Len(q), above) + 1, x), T \union {x}, R)
  BY <1>2, <1>4, <1>6, InsertLists
<1> QED
  BY <1>5, <1>7 DEF R

\* Some of the slots that were read are kept: the first of them.
KeptFirst(window, T, S, st, by, end) ==
  Leading(T, S, Before(st, by), end) /\ Lists(window, T, Before(st, by))

\* One more slot.
LEMMA KeepSortedKeeps ==
  ASSUME NEW st, IsStorage(st), KeysDiffer(st.slots, 1..Len(st.slots)), NEW by \in Seq(Orders),
         NEW end \in Nat, end > 0, NEW S \in SUBSET (1..Len(st.slots)),
         NEW x \in 1..Len(st.slots), x \notin S,
         NEW window, NEW T, KeptFirst(window, T, S, st, by, end)
  PROVE  \E U : KeptFirst(KeepSorted(st, by, end, window, x), U, S \union {x}, st, by, end)
<1> DEFINE R == Before(st, by)
           more == S \union {x}
<1>1. Leading(T, S, R, end) /\ Lists(window, T, R)
  BY DEF KeptFirst
<1>2. T \subseteq S /\ x \notin T /\ T \in SUBSET (1..Len(st.slots)) /\ more \in SUBSET (1..Len(st.slots))
  BY <1>1 DEF Leading
<1>3. Strict(R, more) /\ Strict(R, T) /\ \A l, r \in more : <<l, r>> \in R <=> Precedes(st, by, l, r)
  <2> HIDE DEF more
  <2> QED
    BY <1>2, BeforeIsStrict
<1> HIDE DEF R
<1>4. Len(window) \in Nat /\ Cardinality(T) = Len(window) /\ Len(window) <= end
  <2>1. Len(window) \in Nat /\ Cardinality(T) = Len(window)
    BY <1>1, <1>3, ListsOnce
  <2> QED
    BY <1>1, <2>1 DEF Leading
<1>5. CASE Len(window) < end
  <2>1. KeepSorted(st, by, end, window, x) = InsertSorted(st, by, window, x)
    BY <1>5 DEF KeepSorted
  <2>2. Lists(InsertSorted(st, by, window, x), T \union {x}, R)
    BY <1>1, <1>2, InsertSortedLists DEF R
  <2>3. Leading(T \union {x}, more, R, end)
    BY <1>1, <1>4, <1>5, LeadingGrows
  <2> QED
    BY <2>1, <2>2, <2>3 DEF KeptFirst, R
<1>6. CASE Len(window) = end
  <2> DEFINE last == Last(window)
             front == Front(window)
             rest == T \ {last}
  <2>1. /\ Lists(front, rest, R) /\ last \in T
        /\ \A t \in T : t # last => <<t, last>> \in R
    BY <1>1, <1>3, <1>4, <1>6, FrontLists
  <2> HIDE DEF last, front
  <2>2. <<x, last>> \in R <=> Precedes(st, by, x, last)
    BY <1>2, <1>3, <2>1
  <2>3. /\ <<x, last>> \in R => Leading(rest \union {x}, more, R, end)
        /\ <<x, last>> \notin R => Leading(T, more, R, end)
    BY <1>1, <1>3, <1>4, <1>6, <2>1, LeadingTurns
  <2>4. CASE Precedes(st, by, x, last)
    <3>1. KeepSorted(st, by, end, window, x) = InsertSorted(st, by, front, x)
      BY <1>4, <1>6, <2>4 DEF KeepSorted, last, front
    <3>2. rest \in SUBSET (1..Len(st.slots)) /\ x \notin rest
      BY <1>2
    <3> HIDE DEF rest
    <3>3. Lists(InsertSorted(st, by, front, x), rest \union {x}, R)
      BY <2>1, <3>2, InsertSortedLists DEF R
    <3> QED
      BY <2>2, <2>3, <2>4, <3>1, <3>3 DEF KeptFirst, R
  <2>5. CASE ~Precedes(st, by, x, last)
    <3>1. KeepSorted(st, by, end, window, x) = window
      BY <1>4, <1>6, <2>5 DEF KeepSorted, last
    <3> QED
      BY <1>1, <2>2, <2>3, <2>5, <3>1 DEF KeptFirst, R
  <2> QED
    BY <2>4, <2>5
<1>7. Len(window) < end \/ Len(window) = end
  BY <1>4
<1> QED
  BY <1>5, <1>6, <1>7

\* All slots.
LEMMA SortedWindowKeeps ==
  ASSUME NEW st, IsStorage(st), KeysDiffer(st.slots, 1..Len(st.slots)), NEW by \in Seq(Orders),
         NEW end \in Nat, end > 0, NEW s, Slots(s, st)
  PROVE  \E T : KeptFirst(SortedWindow(st, by, end, s), T, ToSet(s), st, by, end)
<1> DEFINE n == Len(s)
           kind == [way |-> "sort", st |-> st, by |-> by, end |-> end]
<1>1. n \in Nat /\ DOMAIN s = 1..n
  BY DEF Slots
<1>2. PICK c : Runs(c, kind, <<>>, s) /\ SortedWindow(st, by, end, s) = c[n]
  BY <1>1, SortsFold
<1> DEFINE P == {m \in 0..n : \E T : KeptFirst(c[m], T, Until(s, m), st, by, end)}
<1>3. 0 \in P
  <2>1. c[0] = <<>>
    BY <1>2 DEF Runs
  <2>2. Lists(<<>>, {}, Before(st, by))
    BY DEF Lists
  <2>3. Leading({}, {}, Before(st, by), end)
    BY FS_EmptySet DEF Leading
  <2>4. Until(s, 0) = {}
    BY UntilIs
  <2>5. KeptFirst(c[0], {}, Until(s, 0), st, by, end)
    BY <2>1, <2>2, <2>3, <2>4 DEF KeptFirst
  <2> QED
    BY <1>1, <2>5
<1>4. ASSUME NEW m \in 1..n, m - 1 \in P PROVE m \in P
  <2>1. c[m] = KeepSorted(st, by, end, c[m - 1], s[m])
    <3>1. c[m] = Advance(kind, c[m - 1], s[m])
      BY <1>2 DEF Runs
    <3> QED
      BY <3>1 DEF Advance
  <2>2. PICK T : KeptFirst(c[m - 1], T, Until(s, m - 1), st, by, end)
    BY <1>4
  <2>3. m - 1 \in 0..n /\ m \in 0..n
    BY <1>1
  <2>4. Until(s, m) = Until(s, m - 1) \union {s[m]} /\ s[m] \notin Until(s, m - 1)
        /\ Until(s, m - 1) \in SUBSET (1..Len(st.slots))
    BY <2>3, UntilIs
  <2>5. s[m] \in 1..Len(st.slots)
    BY ElementOfSeq DEF Slots
  <2> HIDE DEF n, P
  <2>6. \E U : KeptFirst(KeepSorted(st, by, end, c[m - 1], s[m]), U,
                         Until(s, m - 1) \union {s[m]}, st, by, end)
    BY <2>2, <2>4, <2>5, KeepSortedKeeps
  <2> QED
    BY <2>1, <2>3, <2>4, <2>6 DEF P
<1>5. n \in P
  <2> HIDE DEF P
  <2>1. \A m \in 0..n : m \in P
    BY <1>1, <1>3, <1>4, CountUp
  <2> QED
    BY <1>1, <2>1
<1>6. Until(s, n) = ToSet(s)
  BY UntilIs
<1> QED
  BY <1>2, <1>5, <1>6
-------------------------------------------------------------------------------
(* Descents: what the recursions of the heap are. *)

\* From each element of A, f goes on to the next until it stops, and gives what is out.
Descends(f, A, stop, next, out) == f = [a \in A |-> IF stop[a] THEN out[a] ELSE f[next[a]]]

\* The next element is in A and measures less.
Falls(A, n, measure, stop, next) ==
  \A a \in A : measure[a] \in 0..n /\ (~stop[a] => next[a] \in A /\ measure[next[a]] < measure[a])

\* There is a descent.
LEMMA DescentExists ==
  ASSUME NEW n \in Nat, NEW A, NEW measure, NEW stop, NEW next, NEW out,
         Falls(A, n, measure, stop, next)
  PROVE  \E f : Descends(f, A, stop, next, out)
<1> DEFINE step(f, a) == IF stop[a] THEN out[a] ELSE f[next[a]]
           to(f, k) == \A a \in A : measure[a] <= k => f[a] = step(f, a)
           P == {k \in 0..n : \E f : to(f, k)}
<1>1. \A a \in A : measure[a] \in 0..n /\ (~stop[a] => next[a] \in A /\ measure[next[a]] < measure[a])
  BY DEF Falls
<1>2. 0 \in P
  <2>1. ASSUME NEW a \in A, measure[a] <= 0 PROVE out[a] = step(out, a)
    <3>1. ~stop[a] => measure[next[a]] \in 0..n /\ measure[next[a]] < measure[a] /\ measure[a] \in 0..n
      BY <1>1
    <3>2. stop[a]
      BY <2>1, <3>1
    <3> QED
      BY <3>2
  <2> QED
    BY <2>1
<1>3. ASSUME NEW k \in 1..n, k - 1 \in P PROVE k \in P
  <2>1. PICK f : to(f, k - 1)
    BY <1>3
  <2> DEFINE g == [a \in A |-> IF measure[a] <= k - 1 THEN f[a] ELSE step(f, a)]
  <2>2. ASSUME NEW a \in A, measure[a] <= k PROVE g[a] = step(g, a)
    <3>1. g[a] = step(f, a)
      <4>1. measure[a] <= k - 1 => f[a] = step(f, a)
        BY <2>1
      <4> HIDE DEF step
      <4> QED
        BY <4>1
    <3>2. ~stop[a] => g[next[a]] = f[next[a]]
      <4>1. ASSUME ~stop[a] PROVE g[next[a]] = f[next[a]]
        <5>1. next[a] \in A /\ measure[next[a]] <= k - 1
          BY <1>1, <2>2, <4>1
        <5> QED
          BY <5>1
      <4> QED
        BY <4>1
    <3> HIDE DEF g
    <3> QED
      BY <3>1, <3>2
  <2> HIDE DEF g, step
  <2>3. to(g, k)
    BY <2>2
  <2> QED
    BY <2>3
<1>4. n \in P
  <2> HIDE DEF P
  <2>1. \A k \in 0..n : k \in P
    BY <1>2, <1>3, CountUp
  <2> QED
    BY <2>1
<1>5. PICK f : to(f, n)
  BY <1>4
<1> DEFINE g == [a \in A |-> f[a]]
<1>6. ASSUME NEW a \in A PROVE g[a] = step(g, a)
  <2>1. f[a] = step(f, a)
    <3>1. measure[a] <= n
      BY <1>1
    <3> HIDE DEF step
    <3> QED
      BY <1>5, <3>1
  <2>2. ~stop[a] => g[next[a]] = f[next[a]]
    BY <1>1
  <2> QED
    BY <2>1, <2>2
<1>7. g = [a \in A |-> g[a]]
  OBVIOUS
<1> HIDE DEF g
<1>8. Descends(g, A, stop, next, out)
  BY <1>6, <1>7 DEF Descends
<1> QED
  BY <1>8

\* It goes on in Inv and stops with a result in Res.
Remains(Inv, Res, stop, next, out) ==
  \A a \in Inv : IF stop[a] THEN out[a] \in Res ELSE next[a] \in Inv

\* The descent f ends, and does not leave Inv before.
Trapped(f, A, n, measure, stop, next, out, Inv, Res) ==
  /\ Falls(A, n, measure, stop, next) /\ Descends(f, A, stop, next, out)
  /\ Inv \in SUBSET A /\ Remains(Inv, Res, stop, next, out)

\* From a set that it does not leave, a descent gives what that set gives.
LEMMA DescentGives ==
  ASSUME NEW n \in Nat, NEW A, NEW measure, NEW stop, NEW next, NEW out,
         NEW f, NEW Inv, NEW Res, Trapped(f, A, n, measure, stop, next, out, Inv, Res)
  PROVE  \A a \in Inv : f[a] \in Res
<1> DEFINE P == {k \in 0..n : \A a \in Inv : measure[a] <= k => f[a] \in Res}
<1>1. \A a \in Inv : /\ measure[a] \in 0..n /\ a \in A
                     /\ ~stop[a] => measure[next[a]] < measure[a]
  BY DEF Trapped, Falls
<1>2. \A a \in Inv : f[a] = IF stop[a] THEN out[a] ELSE f[next[a]]
  BY DEF Trapped, Descends
<1>3. 0 \in P
  <2>1. ASSUME NEW a \in Inv, measure[a] <= 0 PROVE f[a] \in Res
    <3>1. ~stop[a] => measure[next[a]] \in 0..n /\ measure[next[a]] < measure[a] /\ measure[a] \in 0..n
      BY <1>1 DEF Trapped, Remains
    <3>2. stop[a]
      BY <2>1, <3>1
    <3> QED
      BY <1>2, <3>2 DEF Trapped, Remains
  <2> QED
    BY <2>1
<1>4. ASSUME NEW k \in 1..n, k - 1 \in P PROVE k \in P
  <2>1. ASSUME NEW a \in Inv, measure[a] <= k PROVE f[a] \in Res
    <3>1. CASE stop[a]
      BY <1>2, <3>1 DEF Trapped, Remains
    <3>2. CASE ~stop[a]
      <4>1. next[a] \in Inv /\ measure[next[a]] < measure[a]
        BY <1>1, <3>2 DEF Trapped, Remains
      <4>2. measure[next[a]] \in 0..n /\ measure[a] \in 0..n
        BY <1>1, <4>1
      <4>3. measure[next[a]] <= k - 1
        BY <2>1, <4>1, <4>2
      <4>4. f[next[a]] \in Res
        BY <1>4, <4>1, <4>3
      <4> QED
        BY <1>2, <3>2, <4>4
    <3> QED
      BY <3>1, <3>2
  <2> QED
    BY <2>1
<1>5. \A k \in 0..n : k \in P
  <2> HIDE DEF P
  <2> QED
    BY <1>3, <1>4, CountUp
<1>6. ASSUME NEW a \in Inv PROVE f[a] \in Res
  <2>1. n \in P /\ measure[a] <= n
    BY <1>1, <1>5
  <2> QED
    BY <2>1
<1> QED
  BY <1>6
-------------------------------------------------------------------------------
(* Heaps. *)

\* The heap has each element of T once.
Holds(h, n, T) ==
  /\ h \in [1..n -> T]
  /\ \A x \in T : \E i \in 1..n : h[i] = x
  /\ \A i, j \in 1..n : h[i] = h[j] => i = j

\* What swapping two elements gives.
Swaps(t, h, i, j, n) ==
  \A l \in 1..n : t[l] = IF l = i THEN h[j] ELSE IF l = j THEN h[i] ELSE h[l]

LEMMA SwappedHolds ==
  ASSUME NEW n \in Nat, NEW T, NEW h, Holds(h, n, T), NEW i \in 1..n, NEW j \in 1..n
  PROVE  Holds(Swapped(h, i, j), n, T) /\ Swaps(Swapped(h, i, j), h, i, j, n)
<1> DEFINE t == Swapped(h, i, j)
           to(l) == IF l = i THEN j ELSE IF l = j THEN i ELSE l
<1>1. h \in [1..n -> T]
  BY DEF Holds
<1>2. t \in [1..n -> T]
  BY <1>1 DEF Swapped
<1>3. \A l \in 1..n : t[l] = IF l = i THEN h[j] ELSE IF l = j THEN h[i] ELSE h[l]
  BY <1>1 DEF Swapped
<1> HIDE DEF t
<1>4. \A l \in 1..n : to(l) \in 1..n /\ t[l] = h[to(l)] /\ to(to(l)) = l
  BY <1>3
<1>5. \A l, m \in 1..n : to(l) = to(m) => l = m
  OBVIOUS
<1> HIDE DEF to
<1>6. \A l, m \in 1..n : t[l] = t[m] => l = m
  BY <1>4, <1>5 DEF Holds
<1>7. ASSUME NEW x \in T PROVE \E l \in 1..n : t[l] = x
  <2>1. PICK l \in 1..n : h[l] = x
    BY DEF Holds
  <2>2. to(l) \in 1..n /\ t[to(l)] = h[to(to(l))] /\ to(to(l)) = l
    BY <1>4
  <2> QED
    BY <2>1, <2>2
<1>8. Holds(t, n, T)
  BY <1>2, <1>6, <1>7 DEF Holds
<1> QED
  BY <1>3, <1>8 DEF t, Swaps

\* No element ranks above its parent.
Heaped(h, n, rank) == \A j \in 2..n : rank[h[j]] <= rank[h[j \div 2]]

\* The slots rank as they precede one another.
Ranking(rank, T, st, by) ==
  /\ rank \in [T -> Nat]
  /\ \A x, y \in T : Precedes(st, by, x, y) <=> rank[x] < rank[y]

\* Only the slot at i may rank above its parent; if it did not, its children would not
\* rank above it.
Rising(h, i, n, rank) ==
  /\ \A j \in 2..n : j # i => rank[h[j]] <= rank[h[j \div 2]]
  /\ \A j \in 2..n : i >= 2 /\ j \div 2 = i => rank[h[j]] <= rank[h[i \div 2]]

LEMMA RisingStep ==
  ASSUME NEW n \in Nat, NEW T, NEW rank \in [T -> Nat], NEW h, Holds(h, n, T),
         NEW i \in 1..n, Rising(h, i, n, rank), i # 1, rank[h[i \div 2]] < rank[h[i]]
  PROVE  i \div 2 \in 1..n /\ i \div 2 < i /\ Rising(Swapped(h, i \div 2, i), i \div 2, n, rank)
<1> DEFINE p == i \div 2
           t == Swapped(h, p, i)
<1>1. p \in 1..n /\ p < i
  OBVIOUS
<1>2. \A j \in 2..n : j \div 2 \in 1..n /\ j \div 2 < j
  OBVIOUS
<1>0. h \in [1..n -> T]
  BY DEF Holds
<1> DEFINE k == [l \in 1..n |-> rank[h[l]]]
           kt == [l \in 1..n |-> rank[t[l]]]
<1>3. \A l \in 1..n : k[l] \in Nat /\ k[l] = rank[h[l]]
  BY <1>0
<1>4. \A l \in 1..n : kt[l] = IF l = p THEN k[i] ELSE IF l = i THEN k[p] ELSE k[l]
  <2>1. \A l \in 1..n : t[l] = IF l = p THEN h[i] ELSE IF l = i THEN h[p] ELSE h[l]
    <3> HIDE DEF p
    <3>1. p \in 1..n
      BY <1>1
    <3>2. Swaps(Swapped(h, p, i), h, p, i, n)
      BY <3>1, SwappedHolds
    <3> QED
      BY <3>2 DEF Swaps
  <2> HIDE DEF t
  <2> QED
    BY <1>1, <2>1
<1>5. \A l \in 1..n : kt[l] = rank[t[l]]
  OBVIOUS
<1> HIDE DEF k, kt, t
<1>6. /\ \A j \in 2..n : j # i => k[j] <= k[j \div 2]
      /\ \A j \in 2..n : j \div 2 = i => k[j] <= k[p]
      /\ k[p] < k[i]
  <2> HIDE DEF p
  <2>1. p = i \div 2
    BY DEF p
  <2>2. i \in Nat /\ i >= 2
    OBVIOUS
  <2>3. \A j \in 2..n : j \in 1..n
    OBVIOUS
  <2> QED
    BY <1>1, <1>2, <1>3, <2>1, <2>2, <2>3 DEF Rising
<1> HIDE DEF p
<1>7. p = i \div 2 /\ i \in 2..n
  BY DEF p
<1>8. ASSUME NEW j \in 2..n, j # p PROVE kt[j] <= kt[j \div 2]
  <2>1. j \in 1..n /\ j \div 2 \in 1..n /\ j \div 2 < j
    BY <1>2
  <2>2. CASE j = i
    BY <1>1, <1>3, <1>4, <1>6, <1>7, <2>2
  <2>3. CASE j # i /\ j \div 2 = i
    <3>1. kt[j] = k[j] /\ kt[j \div 2] = k[p] /\ k[j] <= k[p]
      <4>1. i # p
        BY <1>1
      <4> QED
        BY <1>4, <1>6, <1>8, <2>1, <2>3, <4>1
    <3> QED
      BY <3>1
  <2>4. CASE j # i /\ j \div 2 = p
    <3>1. kt[j] = k[j] /\ kt[j \div 2] = k[i] /\ k[j] <= k[p]
      BY <1>4, <1>6, <1>8, <2>1, <2>4
    <3>2. k[j] \in Nat /\ k[i] \in Nat /\ k[p] \in Nat /\ k[p] < k[i]
      BY <1>1, <1>3, <1>6, <2>1
    <3> QED
      BY <3>1, <3>2
  <2>5. CASE j # i /\ j \div 2 # i /\ j \div 2 # p
    BY <1>4, <1>6, <1>8, <2>1, <2>5
  <2> QED
    BY <2>2, <2>3, <2>4, <2>5
<1>9. ASSUME NEW j \in 2..n, p >= 2, j \div 2 = p PROVE kt[j] <= kt[p \div 2]
  <2>1. /\ p \div 2 \in 1..n /\ p \div 2 < p /\ j \in 1..n /\ p \in 2..n
        /\ kt[p \div 2] = k[p \div 2] /\ k[p] <= k[p \div 2]
    <3>1. p \in 2..n
      BY <1>1, <1>9
    <3>2. p \div 2 \in 1..n /\ p \div 2 < p
      BY <1>2, <3>1
    <3>3. p \div 2 # p /\ p \div 2 # i /\ p # i
      BY <1>1, <3>2
    <3> QED
      BY <1>4, <1>6, <3>1, <3>2, <3>3
  <2>2. k[j] \in Nat /\ k[p] \in Nat /\ k[p \div 2] \in Nat
    BY <1>1, <1>3, <2>1
  <2>3. j # p
    BY <1>2, <1>9
  <2>4. CASE j = i
    BY <1>4, <2>1, <2>3, <2>4
  <2>5. CASE j # i
    <3>1. kt[j] = k[j] /\ k[j] <= k[p]
      BY <1>4, <1>6, <1>9, <2>1, <2>3, <2>5
    <3> QED
      BY <2>1, <2>2, <3>1
  <2> QED
    BY <2>4, <2>5
<1>10. Rising(t, p, n, rank)
  <2>1. \A j \in 2..n : j \in 1..n /\ j \div 2 \in 1..n
    BY <1>2
  <2>2. p >= 2 => p \div 2 \in 1..n
    BY <1>1
  <2> QED
    BY <1>5, <1>8, <1>9, <2>1, <2>2 DEF Rising
<1> QED
  BY <1>1, <1>10 DEF p, t

\* Only the children of the slot at i may rank above it, but not above its parent.
Sinking(h, i, n, rank) ==
  /\ \A j \in 2..n : j \div 2 # i => rank[h[j]] <= rank[h[j \div 2]]
  /\ \A j \in 2..n : i >= 2 /\ j \div 2 = i => rank[h[j]] <= rank[h[i \div 2]]

LEMMA SinkingStep ==
  ASSUME NEW n \in Nat, NEW T, NEW rank \in [T -> Nat], NEW h, Holds(h, n, T),
         NEW i \in 1..n, Sinking(h, i, n, rank), NEW c \in 2..n, c \div 2 = i,
         rank[h[i]] < rank[h[c]], \A j \in 2..n : j \div 2 = i => rank[h[j]] <= rank[h[c]]
  PROVE  Sinking(Swapped(h, i, c), c, n, rank)
<1> DEFINE t == Swapped(h, i, c)
<1>1. i \in 1..n /\ i < c /\ c \in 1..n
  OBVIOUS
<1>2. \A j \in 2..n : j \in 1..n /\ j \div 2 \in 1..n /\ j \div 2 < j
  OBVIOUS
<1>0. h \in [1..n -> T]
  BY DEF Holds
<1> DEFINE k == [l \in 1..n |-> rank[h[l]]]
           kt == [l \in 1..n |-> rank[t[l]]]
<1>3. \A l \in 1..n : k[l] \in Nat /\ k[l] = rank[h[l]]
  BY <1>0
<1>4. \A l \in 1..n : kt[l] = IF l = i THEN k[c] ELSE IF l = c THEN k[i] ELSE k[l]
  <2>1. \A l \in 1..n : t[l] = IF l = i THEN h[c] ELSE IF l = c THEN h[i] ELSE h[l]
    <3>1. Swaps(Swapped(h, i, c), h, i, c, n)
      BY <1>1, SwappedHolds
    <3> QED
      BY <3>1 DEF Swaps
  <2> HIDE DEF t
  <2> QED
    BY <1>1, <2>1
<1>5. \A l \in 1..n : kt[l] = rank[t[l]]
  OBVIOUS
<1> HIDE DEF k, kt, t
<1>6. /\ \A j \in 2..n : j \div 2 # i => k[j] <= k[j \div 2]
      /\ \A j \in 2..n : i >= 2 /\ j \div 2 = i => k[j] <= k[i \div 2]
      /\ \A j \in 2..n : j \div 2 = i => k[j] <= k[c]
      /\ k[i] < k[c]
  <2>1. i >= 2 => i \div 2 \in 1..n
    OBVIOUS
  <2> QED
    BY <1>1, <1>2, <1>3, <2>1 DEF Sinking
<1>7. ASSUME NEW j \in 2..n, j \div 2 # c PROVE kt[j] <= kt[j \div 2]
  <2>1. j \in 1..n /\ j \div 2 \in 1..n /\ j \div 2 < j
    BY <1>2
  <2>2. CASE j \div 2 = i /\ j = c
    BY <1>1, <1>3, <1>4, <1>6, <2>1, <2>2
  <2>3. CASE j \div 2 = i /\ j # c
    <3>1. j # i
      BY <2>1, <2>3
    <3>2. kt[j] = k[j] /\ kt[j \div 2] = k[c] /\ k[j] <= k[c]
      BY <1>4, <1>6, <2>1, <2>3, <3>1
    <3> QED
      BY <3>2
  <2>4. CASE j \div 2 # i /\ j = i
    <3>1. i >= 2 /\ kt[j] = k[c] /\ kt[j \div 2] = k[j \div 2]
      BY <1>4, <1>7, <2>1, <2>4
    <3> QED
      BY <1>6, <2>4, <3>1
  <2>5. CASE j \div 2 # i /\ j # i
    <3>1. j # c
      BY <2>5
    <3> QED
      BY <1>4, <1>6, <1>7, <2>1, <2>5, <3>1
  <2> QED
    BY <2>2, <2>3, <2>4, <2>5
<1>8. ASSUME NEW j \in 2..n, j \div 2 = c PROVE kt[j] <= kt[c \div 2]
  <2>1. j # i /\ j # c /\ c # i /\ j \in 1..n
    BY <1>1, <1>2, <1>8
  <2>2. kt[j] = k[j] /\ kt[c \div 2] = k[c]
    BY <1>1, <1>4, <2>1
  <2>3. k[j] <= k[j \div 2]
    BY <1>6, <1>8, <2>1
  <2> QED
    BY <1>8, <2>2, <2>3
<1>9. Sinking(t, c, n, rank)
  <2>1. c \div 2 \in 1..n
    OBVIOUS
  <2> QED
    BY <1>2, <1>5, <1>7, <1>8, <2>1 DEF Sinking
<1> QED
  BY <1>9 DEF t

\* No slot ranks above the top.
LEMMA TopIsLast ==
  ASSUME NEW n \in Nat, NEW T, NEW rank \in [T -> Nat], NEW h, Holds(h, n, T), Heaped(h, n, rank)
  PROVE  \A j \in 1..n : rank[h[j]] <= rank[h[1]]
<1> DEFINE P == {m \in 0..n : \A j \in 1..n : j <= m => rank[h[j]] <= rank[h[1]]}
<1>1. \A j \in 1..n : rank[h[j]] \in Nat
  BY DEF Holds
<1>2. 0 \in P
  OBVIOUS
<1>3. ASSUME NEW m \in 1..n, m - 1 \in P PROVE m \in P
  <2>1. ASSUME NEW j \in 1..n, j <= m PROVE rank[h[j]] <= rank[h[1]]
    <3>1. CASE j = 1
      BY <1>1, <3>1
    <3>2. CASE j # 1
      <4>1. j \in 2..n /\ j \div 2 \in 1..n /\ j \div 2 <= m - 1 /\ 1 \in 1..n
        BY <2>1, <3>2
      <4>2. rank[h[j \div 2]] <= rank[h[1]]
        BY <1>3, <4>1
      <4>3. rank[h[j]] <= rank[h[j \div 2]]
        BY <4>1 DEF Heaped
      <4>4. rank[h[j]] \in Nat /\ rank[h[j \div 2]] \in Nat /\ rank[h[1]] \in Nat
        BY <1>1, <4>1
      <4> QED
        BY <4>2, <4>3, <4>4
    <3> QED
      BY <3>1, <3>2
  <2> QED
    BY <2>1
<1>4. \A m \in 0..n : m \in P
  <2> HIDE DEF P
  <2> QED
    BY <1>2, <1>3, CountUp
<1>5. ASSUME NEW j \in 1..n PROVE rank[h[j]] <= rank[h[1]]
  <2>1. n \in P /\ j <= n
    BY <1>4
  <2> QED
    BY <2>1
<1> QED
  BY <1>5
-------------------------------------------------------------------------------
(* Sifting. *)

\* A slot that is put last rises to its place.
LEMMA SiftUpIs ==
  ASSUME NEW st, NEW by, NEW n \in Nat, n > 0, NEW T \in SUBSET Nat, NEW rank, Ranking(rank, T, st, by),
         NEW start, Holds(start, n, T), Rising(start, n, n, rank)
  PROVE  Holds(SiftUp(st, by, start), n, T) /\ Heaped(SiftUp(st, by, start), n, rank)
<1> DEFINE A == [1..n -> Nat] \X (1..n)
           stop == [at \in A |-> at[2] = 1 \/ ~Precedes(st, by, at[1][at[2] \div 2], at[1][at[2]])]
           next == [at \in A |-> <<Swapped(at[1], at[2] \div 2, at[2]), at[2] \div 2>>]
           out == [at \in A |-> at[1]]
           measure == [at \in A |-> at[2]]
           is(up) ==
             up = [at \in [DOMAIN start -> Nat] \X DOMAIN start |->
                     LET heap   == at[1]
                         i      == at[2]
                         parent == i \div 2
                     IN  IF i = 1 \/ ~Precedes(st, by, heap[parent], heap[i]) THEN heap
                         ELSE up[<<Swapped(heap, parent, i), parent>>]]
           up == CHOOSE f : is(f)
<1>1. SiftUp(st, by, start) = up[<<start, Len(start)>>]
  BY Zenon DEF SiftUp
<1>2. DOMAIN start = 1..n /\ Len(start) = n /\ start \in [1..n -> Nat]
  <2>1. start \in [1..n -> T]
    BY DEF Holds
  <2>2. start \in Seq(T)
    BY <2>1, IsASeq
  <2>3. DOMAIN start = 1..n /\ Len(start) = n
    BY <2>1, <2>2
  <2>4. start \in [1..n -> Nat]
    BY <2>1
  <2> QED
    BY <2>3, <2>4
<1>3. ASSUME NEW at \in A PROVE at[1] \in [1..n -> Nat] /\ at[2] \in 1..n
  OBVIOUS
<1>4. Falls(A, n, measure, stop, next)
  <2>1. ASSUME NEW at \in A PROVE measure[at] \in 0..n /\ (~stop[at] => next[at] \in A /\ measure[next[at]] < measure[at])
    <3> DEFINE h == at[1]
               i == at[2]
               p == i \div 2
    <3>1. h \in [1..n -> Nat] /\ i \in 1..n
      BY <1>3
    <3> HIDE DEF h, i
    <3>2. ~stop[at] => i # 1
      BY DEF i
    <3>3. i # 1 => p \in 1..n /\ p < i
      BY <3>1
    <3> HIDE DEF p
    <3>4. ASSUME i # 1 PROVE <<Swapped(h, p, i), p>> \in A
      <4>1. Swapped(h, p, i) \in [1..n -> Nat]
        BY <3>1, <3>3, <3>4 DEF Swapped
      <4> QED
        BY <3>3, <3>4, <4>1
    <3>5. next[at] = <<Swapped(h, p, i), p>> /\ measure[at] = i
      BY DEF h, i, p
    <3> HIDE DEF stop, next
    <3>6. i # 1 => next[at] \in A /\ measure[next[at]] = p
      BY <3>4, <3>5
    <3>7. i \in 0..n
      BY <3>1
    <3> HIDE DEF measure, A
    <3> QED
      BY <3>2, <3>3, <3>5, <3>6, <3>7
  <2> HIDE DEF A, measure, stop, next
  <2> QED
    BY <2>1 DEF Falls
<1>5. ASSUME NEW f PROVE is(f) <=> Descends(f, A, stop, next, out)
  <2>1. A = [DOMAIN start -> Nat] \X DOMAIN start
    BY <1>2
  <2>2. \A at \in A : /\ stop[at] <=> (at[2] = 1 \/ ~Precedes(st, by, at[1][at[2] \div 2], at[1][at[2]]))
                      /\ next[at] = <<Swapped(at[1], at[2] \div 2, at[2]), at[2] \div 2>>
                      /\ out[at] = at[1]
    OBVIOUS
  <2> DEFINE from(at) == IF at[2] = 1 \/ ~Precedes(st, by, at[1][at[2] \div 2], at[1][at[2]])
                         THEN at[1] ELSE f[<<Swapped(at[1], at[2] \div 2, at[2]), at[2] \div 2>>]
             goes(at) == IF stop[at] THEN out[at] ELSE f[next[at]]
  <2>3. is(f) <=> f = [at \in A |-> from(at)]
    <3> HIDE DEF A
    <3> QED
      BY <2>1
  <2> HIDE DEF A, stop, next, out, is
  <2>4. \A at \in A : from(at) = goes(at)
    BY <2>2
  <2>5. Descends(f, A, stop, next, out) <=> f = [at \in A |-> goes(at)]
    BY DEF Descends
  <2> HIDE DEF from, goes
  <2> QED
    BY <2>3, <2>4, <2>5
<1> HIDE DEF stop, next, out, measure, A, is
<1>6. \E f : Descends(f, A, stop, next, out)
  BY <1>4, DescentExists
<1>7. is(up)
  BY <1>5, <1>6, Zenon
<1>8. Descends(up, A, stop, next, out)
  BY <1>5, <1>7
<1> HIDE DEF up
<1> DEFINE Inv == {at \in A : Holds(at[1], n, T) /\ Rising(at[1], at[2], n, rank)}
           Res == {h \in [1..n -> Nat] : Holds(h, n, T) /\ Heaped(h, n, rank)}
<1>9. ASSUME NEW at \in Inv PROVE IF stop[at] THEN out[at] \in Res ELSE next[at] \in Inv
  <2> DEFINE h == at[1]
             i == at[2]
             p == i \div 2
  <2>1. at \in A /\ h \in [1..n -> Nat] /\ i \in 1..n /\ Holds(h, n, T) /\ Rising(h, i, n, rank)
    BY <1>3 DEF A
  <2>2. /\ stop[at] <=> (i = 1 \/ ~Precedes(st, by, h[p], h[i]))
        /\ next[at] = <<Swapped(h, p, i), p>> /\ out[at] = h
    BY <2>1 DEF stop, next, out
  <2> HIDE DEF h, i, Inv, Res
  <2>3. rank \in [T -> Nat] /\ \A x, y \in T : Precedes(st, by, x, y) <=> rank[x] < rank[y]
    BY DEF Ranking
  <2>4. h \in [1..n -> T] /\ h[i] \in T
    BY <2>1 DEF Holds
  <2>5. i # 1 => p \in 1..n /\ h[p] \in T
    <3>1. i # 1 => p \in 1..n
      BY <2>1
    <3> HIDE DEF p
    <3> QED
      BY <2>4, <3>1
  <2>6. CASE i = 1
    <3>1. Heaped(h, n, rank)
      <4>1. \A j \in 2..n : j # 1
        OBVIOUS
      <4> QED
        BY <2>1, <2>6, <4>1 DEF Rising, Heaped
    <3> QED
      BY <2>1, <2>2, <2>6, <3>1 DEF Res
  <2>7. CASE i # 1 /\ ~Precedes(st, by, h[p], h[i])
    <3>1. rank[h[i]] <= rank[h[p]]
      <4>1. ~(rank[h[p]] < rank[h[i]]) /\ rank[h[p]] \in Nat /\ rank[h[i]] \in Nat
        BY <2>3, <2>4, <2>5, <2>7
      <4> QED
        BY <4>1
    <3>2. Heaped(h, n, rank)
      BY <2>1, <3>1 DEF Rising, Heaped
    <3> QED
      BY <2>1, <2>2, <2>7, <3>2 DEF Res
  <2>8. CASE i # 1 /\ Precedes(st, by, h[p], h[i])
    <3>1. rank[h[p]] < rank[h[i]]
      BY <2>3, <2>4, <2>5, <2>8
    <3>2. p \in 1..n /\ Rising(Swapped(h, p, i), p, n, rank)
      BY <2>1, <2>3, <2>8, <3>1, RisingStep
    <3> HIDE DEF p
    <3>3. Holds(Swapped(h, p, i), n, T)
      BY <2>1, <3>2, SwappedHolds
    <3>4. Swapped(h, p, i) \in [1..n -> Nat]
      BY <3>3 DEF Holds
    <3>5. <<Swapped(h, p, i), p>> \in A
      BY <3>2, <3>4 DEF A
    <3>6. <<Swapped(h, p, i), p>> \in Inv
      BY <3>2, <3>3, <3>5 DEF Inv
    <3> QED
      BY <2>2, <2>8, <3>6
  <2> QED
    BY <2>6, <2>7, <2>8
<1>10. <<start, n>> \in Inv
  <2>1. <<start, n>> \in A
    BY <1>2 DEF A
  <2> QED
    BY <2>1
<1>11. Inv \in SUBSET A
  OBVIOUS
<1> HIDE DEF Inv, Res
<1>12. \A at \in Inv : up[at] \in Res
  <2>1. Remains(Inv, Res, stop, next, out)
    BY <1>9 DEF Remains
  <2>2. Trapped(up, A, n, measure, stop, next, out, Inv, Res)
    BY <1>4, <1>8, <1>11, <2>1 DEF Trapped
  <2> QED
    BY <2>2, DescentGives
<1>13. SiftUp(st, by, start) \in Res
  BY <1>1, <1>2, <1>10, <1>12
<1> QED
  BY <1>13 DEF Res

\* The child that the slot at i goes on to, if there is one.
Largest(st, by, heap, i) ==
  LET worse(j, k) == IF k <= Len(heap) /\ Precedes(st, by, heap[j], heap[k]) THEN k ELSE j
  IN  worse(worse(i, 2 * i), 2 * i + 1)

LEMMA LargestIs ==
  ASSUME NEW st, NEW by, NEW n \in Nat, NEW h, Len(h) = n, NEW i \in 1..n
  PROVE  /\ Largest(st, by, h, i) \in 1..n
         /\ Largest(st, by, h, i) # i => Largest(st, by, h, i) \in 2..n /\ Largest(st, by, h, i) \div 2 = i
                                         /\ Largest(st, by, h, i) > i
BY DEF Largest

\* A child that no other child ranks above, if it ranks above i.
LEMMA LargestRanks ==
  ASSUME NEW st, NEW by, NEW n \in Nat, NEW T, NEW rank, Ranking(rank, T, st, by),
         NEW h \in [1..n -> T], Len(h) = n, NEW i \in 1..n
  PROVE  /\ \A j \in 2..n : j \div 2 = i => rank[h[j]] <= rank[h[Largest(st, by, h, i)]]
         /\ Largest(st, by, h, i) # i => rank[h[i]] < rank[h[Largest(st, by, h, i)]]
<1> DEFINE k == [l \in 1..n |-> rank[h[l]]]
           c == Largest(st, by, h, i)
<1>1. rank \in [T -> Nat] /\ \A x, y \in T : Precedes(st, by, x, y) <=> rank[x] < rank[y]
  BY DEF Ranking
<1>2. \A l \in 1..n : h[l] \in T /\ k[l] = rank[h[l]] /\ k[l] \in Nat
  BY <1>1
<1>3. \A j, l \in 1..n : Precedes(st, by, h[j], h[l]) <=> k[j] < k[l]
  BY <1>1, <1>2
<1> HIDE DEF k
<1> DEFINE worse(j, l) == IF l <= n /\ Precedes(st, by, h[j], h[l]) THEN l ELSE j
           d == worse(i, 2 * i)
<1>4. c = worse(d, 2 * i + 1)
  BY DEF Largest
<1>5. \A j \in 1..n : \A l \in 2..(2 * n + 1) :
        /\ worse(j, l) \in 1..n /\ k[j] <= k[worse(j, l)]
        /\ worse(j, l) # j => k[j] < k[worse(j, l)]
        /\ l <= n => k[l] <= k[worse(j, l)]
  BY <1>2, <1>3
<1> HIDE DEF c, worse
<1>6. 2 * i \in 2..(2 * n + 1) /\ 2 * i + 1 \in 2..(2 * n + 1)
  OBVIOUS
<1>7. /\ d \in 1..n /\ k[i] <= k[d] /\ (d # i => k[i] < k[d])
      /\ 2 * i <= n => k[2 * i] <= k[d]
  BY <1>5, <1>6
<1> HIDE DEF d
<1>8. /\ c \in 1..n /\ k[d] <= k[c] /\ (c # d => k[d] < k[c])
      /\ 2 * i + 1 <= n => k[2 * i + 1] <= k[c]
  BY <1>4, <1>5, <1>6, <1>7
<1>9. k[i] \in Nat /\ k[d] \in Nat /\ k[c] \in Nat /\ \A j \in 2..n : k[j] \in Nat
  <2>1. \A j \in 2..n : j \in 1..n
    OBVIOUS
  <2> QED
    BY <1>2, <1>7, <1>8, <2>1
<1>10. ASSUME NEW j \in 2..n, j \div 2 = i PROVE k[j] <= k[c]
  <2>1. j = 2 * i \/ j = 2 * i + 1
    BY <1>10
  <2>2. CASE j = 2 * i
    <3>1. k[j] <= k[d] /\ k[d] <= k[c]
      BY <1>7, <1>8, <2>2
    <3> QED
      BY <1>9, <3>1
  <2>3. CASE j = 2 * i + 1
    BY <1>8, <2>3
  <2> QED
    BY <2>1, <2>2, <2>3
<1>11. ASSUME c # i PROVE k[i] < k[c]
  <2>1. c # d \/ d # i
    BY <1>11
  <2> QED
    BY <1>7, <1>8, <1>9, <2>1
<1>12. k[c] = rank[h[c]] /\ k[i] = rank[h[i]] /\ \A j \in 2..n : k[j] = rank[h[j]]
  <2>1. \A j \in 2..n : j \in 1..n
    OBVIOUS
  <2> QED
    BY <1>2, <1>8, <2>1
<1> QED
  BY <1>10, <1>11, <1>12 DEF c

\* A slot that is put on top sinks to its place.
LEMMA SiftDownIs ==
  ASSUME NEW st, NEW by, NEW n \in Nat, n > 0, NEW T \in SUBSET Nat, NEW rank, Ranking(rank, T, st, by),
         NEW start, Holds(start, n, T), Sinking(start, 1, n, rank)
  PROVE  Holds(SiftDown(st, by, start), n, T) /\ Heaped(SiftDown(st, by, start), n, rank)
<1> DEFINE A == [1..n -> Nat] \X (1..n)
           stop == [at \in A |-> Largest(st, by, at[1], at[2]) = at[2]]
           next == [at \in A |-> <<Swapped(at[1], at[2], Largest(st, by, at[1], at[2])),
                                   Largest(st, by, at[1], at[2])>>]
           out == [at \in A |-> at[1]]
           measure == [at \in A |-> n - at[2]]
           is(down) ==
             down = [at \in [DOMAIN start -> Nat] \X DOMAIN start |->
                       LET heap        == at[1]
                           i           == at[2]
                           worse(j, k) == IF k <= Len(heap) /\ Precedes(st, by, heap[j], heap[k]) THEN k ELSE j
                           largest     == worse(worse(i, 2 * i), 2 * i + 1)
                       IN  IF largest = i THEN heap ELSE down[<<Swapped(heap, i, largest), largest>>]]
           down == CHOOSE f : is(f)
<1>1. SiftDown(st, by, start) = down[<<start, 1>>]
  BY Zenon DEF SiftDown
<1>2. DOMAIN start = 1..n /\ start \in [1..n -> Nat]
  <2>1. start \in [1..n -> T]
    BY DEF Holds
  <2> QED
    BY <2>1
<1>3. ASSUME NEW at \in A PROVE at[1] \in [1..n -> Nat] /\ at[2] \in 1..n /\ Len(at[1]) = n
  <2>1. at[1] \in [1..n -> Nat] /\ at[2] \in 1..n
    OBVIOUS
  <2> DEFINE h == at[1]
  <2> HIDE DEF h
  <2>2. h \in [1..n -> Nat]
    BY <2>1 DEF h
  <2>3. h \in Seq(Nat) /\ DOMAIN h = 1..n
    BY <2>2, IsASeq
  <2>4. Len(h) = n
    BY <2>3
  <2> QED
    BY <2>1, <2>4 DEF h
<1>4. Falls(A, n, measure, stop, next)
  <2>1. ASSUME NEW at \in A PROVE measure[at] \in 0..n /\ (~stop[at] => next[at] \in A /\ measure[next[at]] < measure[at])
    <3> DEFINE h == at[1]
               i == at[2]
               c == Largest(st, by, h, i)
    <3>1. h \in [1..n -> Nat] /\ i \in 1..n /\ Len(h) = n
      BY <1>3
    <3> HIDE DEF h, i
    <3>2. c \in 1..n /\ (c # i => c > i)
      BY <3>1, LargestIs
    <3> HIDE DEF c
    <3>3. Swapped(h, i, c) \in [1..n -> Nat]
      BY <3>1, <3>2 DEF Swapped
    <3>4. <<Swapped(h, i, c), c>> \in A
      BY <3>2, <3>3
    <3>5. (stop[at] <=> c = i) /\ next[at] = <<Swapped(h, i, c), c>> /\ measure[at] = n - i
      BY DEF h, i, c
    <3> HIDE DEF stop, next
    <3>6. next[at] \in A /\ measure[next[at]] = n - c
      BY <3>4, <3>5
    <3> HIDE DEF measure, A
    <3>7. n - i \in 0..n /\ (c # i => n - c < n - i)
      BY <3>1, <3>2
    <3> QED
      BY <3>5, <3>6, <3>7
  <2> HIDE DEF A, measure, stop, next
  <2> QED
    BY <2>1 DEF Falls
<1>5. ASSUME NEW f PROVE is(f) <=> Descends(f, A, stop, next, out)
  <2>1. A = [DOMAIN start -> Nat] \X DOMAIN start
    BY <1>2
  <2>2. \A at \in A : /\ stop[at] <=> Largest(st, by, at[1], at[2]) = at[2]
                      /\ next[at] = <<Swapped(at[1], at[2], Largest(st, by, at[1], at[2])),
                                      Largest(st, by, at[1], at[2])>>
                      /\ out[at] = at[1]
    OBVIOUS
  <2> DEFINE from(at) == IF Largest(st, by, at[1], at[2]) = at[2] THEN at[1]
                         ELSE f[<<Swapped(at[1], at[2], Largest(st, by, at[1], at[2])),
                                  Largest(st, by, at[1], at[2])>>]
             goes(at) == IF stop[at] THEN out[at] ELSE f[next[at]]
  <2>3. is(f) <=> f = [at \in A |-> from(at)]
    <3> HIDE DEF A
    <3> QED
      BY <2>1 DEF Largest
  <2> HIDE DEF A, stop, next, out, is
  <2>4. \A at \in A : from(at) = goes(at)
    BY <2>2
  <2>5. Descends(f, A, stop, next, out) <=> f = [at \in A |-> goes(at)]
    BY DEF Descends
  <2> HIDE DEF from, goes
  <2> QED
    BY <2>3, <2>4, <2>5
<1> HIDE DEF stop, next, out, measure, A, is
<1>6. \E f : Descends(f, A, stop, next, out)
  BY <1>4, DescentExists
<1>7. is(down)
  BY <1>5, <1>6, Zenon
<1>8. Descends(down, A, stop, next, out)
  BY <1>5, <1>7
<1> HIDE DEF down
<1> DEFINE Inv == {at \in A : Holds(at[1], n, T) /\ Sinking(at[1], at[2], n, rank)}
           Res == {h \in [1..n -> Nat] : Holds(h, n, T) /\ Heaped(h, n, rank)}
<1>9. ASSUME NEW at \in Inv PROVE IF stop[at] THEN out[at] \in Res ELSE next[at] \in Inv
  <2> DEFINE h == at[1]
             i == at[2]
             c == Largest(st, by, h, i)
  <2>1. /\ at \in A /\ h \in [1..n -> Nat] /\ i \in 1..n /\ Holds(h, n, T) /\ Sinking(h, i, n, rank)
        /\ Len(h) = n
    BY <1>3 DEF A
  <2>2. (stop[at] <=> c = i) /\ next[at] = <<Swapped(h, i, c), c>> /\ out[at] = h
    BY <2>1 DEF stop, next, out
  <2> HIDE DEF h, i, Inv, Res
  <2>3. rank \in [T -> Nat] /\ h \in [1..n -> T]
    BY <2>1 DEF Ranking, Holds
  <2>4. /\ \A j \in 2..n : j \div 2 = i => rank[h[j]] <= rank[h[c]]
        /\ c # i => rank[h[i]] < rank[h[c]]
    BY <2>1, <2>3, LargestRanks
  <2>5. c \in 1..n /\ (c # i => c \in 2..n /\ c \div 2 = i)
    BY <2>1, LargestIs
  <2> HIDE DEF c
  <2>6. CASE c = i
    <3>1. Heaped(h, n, rank)
      BY <2>1, <2>4, <2>6 DEF Sinking, Heaped
    <3> QED
      BY <2>1, <2>2, <2>6, <3>1 DEF Res
  <2>7. CASE c # i
    <3>1. Sinking(Swapped(h, i, c), c, n, rank)
      BY <2>1, <2>3, <2>4, <2>5, <2>7, SinkingStep
    <3>2. Holds(Swapped(h, i, c), n, T)
      BY <2>1, <2>5, SwappedHolds
    <3>3. Swapped(h, i, c) \in [1..n -> Nat]
      BY <3>2 DEF Holds
    <3>4. <<Swapped(h, i, c), c>> \in A
      BY <2>5, <3>3 DEF A
    <3>5. <<Swapped(h, i, c), c>> \in Inv
      BY <3>1, <3>2, <3>4 DEF Inv
    <3> QED
      BY <2>2, <2>7, <3>5
  <2> QED
    BY <2>6, <2>7
<1>10. <<start, 1>> \in Inv
  <2>1. <<start, 1>> \in A
    BY <1>2 DEF A
  <2> QED
    BY <2>1
<1>11. Inv \in SUBSET A
  OBVIOUS
<1> HIDE DEF Inv, Res
<1>12. \A at \in Inv : down[at] \in Res
  <2>1. Remains(Inv, Res, stop, next, out)
    BY <1>9 DEF Remains
  <2>2. Trapped(down, A, n, measure, stop, next, out, Inv, Res)
    BY <1>4, <1>8, <1>11, <2>1 DEF Trapped
  <2> QED
    BY <2>2, DescentGives
<1>13. SiftDown(st, by, start) \in Res
  BY <1>1, <1>10, <1>12
<1> QED
  BY <1>13 DEF Res

\* Elements in a strict order have ranks.
LEMMA RanksExist ==
  ASSUME NEW st, IsStorage(st), KeysDiffer(st.slots, 1..Len(st.slots)), NEW by \in Seq(Orders),
         NEW T \in SUBSET (1..Len(st.slots)), IsFiniteSet(T)
  PROVE  \E rank : Ranking(rank, T, st, by)
<1> DEFINE R == Before(st, by)
           q == Ordered(T, R)
           rank == [x \in T |-> CHOOSE i \in 1..Len(q) : q[i] = x]
<1>1. Strict(R, T) /\ \A l, r \in T : <<l, r>> \in R <=> Precedes(st, by, l, r)
  BY BeforeIsStrict
<1> HIDE DEF R
<1>2. Lists(q, T, R)
  BY <1>1, OrderedLists
<1> HIDE DEF q
<1>3. /\ Len(q) \in Nat
      /\ \A i, j \in 1..Len(q) : <<q[i], q[j]>> \in R => i < j
  BY <1>1, <1>2, ListsOnce
<1>4. \A x \in T : rank[x] \in 1..Len(q) /\ q[rank[x]] = x
  BY <1>2 DEF Lists
<1>5. rank \in [T -> Nat]
  <2>1. 1..Len(q) \subseteq Nat
    BY <1>3
  <2>2. \A x \in T : rank[x] \in Nat
    BY <1>4, <2>1
  <2> QED
    BY <2>2
<1> HIDE DEF rank
<1>6. ASSUME NEW x \in T, NEW y \in T PROVE Precedes(st, by, x, y) <=> rank[x] < rank[y]
  <2>1. <<x, y>> \in R => rank[x] < rank[y]
    BY <1>3, <1>4
  <2>2. rank[x] < rank[y] => <<x, y>> \in R
    <3>1. rank[x] < rank[y] => <<q[rank[x]], q[rank[y]]>> \in R
      BY <1>2, <1>4 DEF Lists
    <3> QED
      BY <1>4, <3>1
  <2> QED
    BY <1>1, <2>1, <2>2
<1> QED
  BY <1>5, <1>6 DEF Ranking
-------------------------------------------------------------------------------
(* Keeping the window in a heap. *)

\* The heap has T, as many elements as it is long.
LEMMA HoldsCounts ==
  ASSUME NEW n \in Nat, NEW T, NEW h, Holds(h, n, T)
  PROVE  /\ IsFiniteSet(T) /\ Cardinality(T) = n
         /\ Len(h) = n /\ DOMAIN h = 1..n /\ h \in Seq(T)
<1>1. /\ h \in [1..n -> T] /\ \A x \in T : \E i \in 1..n : h[i] = x
      /\ \A i, j \in 1..n : h[i] = h[j] => i = j
  BY DEF Holds
<1>2. h \in Bijection(1..n, T)
  BY <1>1 DEF Bijection, Injection, Surjection, IsInjective
<1>3. ExistsBijection(1..n, T)
  BY <1>2 DEF ExistsBijection
<1>4. IsFiniteSet(1..n) /\ Cardinality(1..n) = n
  BY FS_Interval
<1>5. IsFiniteSet(T) /\ Cardinality(T) = n
  BY <1>3, <1>4, FS_Bijection
<1>6. h \in Seq(T) /\ DOMAIN h = 1..n
  BY <1>1, IsASeq
<1>7. Len(h) = n
  BY <1>6
<1> QED
  BY <1>5, <1>6, <1>7

\* No slot is after its parent.
Topped(h, n, st, by) == \A j \in 2..n : ~Precedes(st, by, h[j \div 2], h[j])

\* The heap has the first of the slots that were read.
HeapFirst(h, n, T, S, st, by, end) ==
  Leading(T, S, Before(st, by), end) /\ Holds(h, n, T) /\ Topped(h, n, st, by)

LEMMA ToppedIsHeaped ==
  ASSUME NEW n \in Nat, NEW T, NEW h, Holds(h, n, T), NEW st, NEW by, NEW rank, Ranking(rank, T, st, by)
  PROVE  Topped(h, n, st, by) <=> Heaped(h, n, rank)
<1>1. \A j \in 2..n : h[j] \in T /\ h[j \div 2] \in T
  <2>1. \A j \in 2..n : j \in 1..n /\ j \div 2 \in 1..n
    OBVIOUS
  <2> QED
    BY <2>1 DEF Holds
<1>2. \A j \in 2..n : ~Precedes(st, by, h[j \div 2], h[j]) <=> rank[h[j]] <= rank[h[j \div 2]]
  <2>1. ASSUME NEW j \in 2..n
        PROVE  ~Precedes(st, by, h[j \div 2], h[j]) <=> rank[h[j]] <= rank[h[j \div 2]]
    <3>1. Precedes(st, by, h[j \div 2], h[j]) <=> rank[h[j \div 2]] < rank[h[j]]
      BY <1>1 DEF Ranking
    <3>2. rank[h[j]] \in Nat /\ rank[h[j \div 2]] \in Nat
      BY <1>1 DEF Ranking
    <3> QED
      BY <3>1, <3>2
  <2> QED
    BY <2>1
<1> QED
  BY <1>2 DEF Topped, Heaped

\* A heap that grows.
LEMMA AppendHolds ==
  ASSUME NEW n \in Nat, NEW T, NEW h, Holds(h, n, T), NEW x, x \notin T
  PROVE  Holds(Append(h, x), n + 1, T \union {x})
<1> DEFINE t == Append(h, x)
           S == T \union {x}
<1>1. h \in [1..n -> T] /\ h \in Seq(T) /\ Len(h) = n
  BY HoldsCounts DEF Holds
<1>2. h \in Seq(S) /\ x \in S
  <2>1. Seq(T) \subseteq Seq(S)
    OBVIOUS
  <2> QED
    BY <1>1, <2>1
<1> HIDE DEF S
<1>3. t \in Seq(S) /\ Len(t) = n + 1 /\ (\A j \in 1..n : t[j] = h[j]) /\ t[n + 1] = x
  BY <1>1, <1>2
<1>4. t \in [1..(n + 1) -> S]
  BY <1>3, LenProperties
<1> HIDE DEF t
<1>5. ASSUME NEW i \in 1..(n + 1), NEW j \in 1..(n + 1), t[i] = t[j] PROVE i = j
  <2>1. \A l \in 1..(n + 1) : l = n + 1 \/ l \in 1..n
    OBVIOUS
  <2>2. \A l \in 1..n : t[l] \in T
    BY <1>1, <1>3
  <2>3. CASE i \in 1..n /\ j \in 1..n
    <3>1. h[i] = h[j]
      BY <1>3, <1>5, <2>3
    <3> QED
      BY <2>3, <3>1 DEF Holds
  <2>4. CASE i = n + 1 \/ j = n + 1
    BY <1>3, <1>5, <2>1, <2>2, <2>4
  <2> QED
    BY <2>1, <2>3, <2>4
<1>6. ASSUME NEW y \in S PROVE \E i \in 1..(n + 1) : t[i] = y
  <2>1. CASE y = x
    <3>1. n + 1 \in 1..(n + 1)
      OBVIOUS
    <3> QED
      BY <1>3, <2>1, <3>1
  <2>2. CASE y \in T
    <3>1. PICK i \in 1..n : h[i] = y
      BY <2>2 DEF Holds
    <3>2. i \in 1..(n + 1)
      OBVIOUS
    <3> QED
      BY <1>3, <3>1, <3>2
  <2> QED
    BY <1>6, <2>1, <2>2 DEF S
<1>7. Holds(t, n + 1, S)
  BY <1>4, <1>5, <1>6 DEF Holds
<1> QED
  BY <1>7 DEF t, S

\* A heap with another top.
LEMMA ReplacedHolds ==
  ASSUME NEW n \in Nat, n > 0, NEW T, NEW h, Holds(h, n, T), NEW x, x \notin T
  PROVE  /\ Holds([h EXCEPT ![1] = x], n, (T \ {h[1]}) \union {x})
         /\ \A j \in 2..n : [h EXCEPT ![1] = x][j] = h[j]
<1> DEFINE t == [h EXCEPT ![1] = x]
           S == (T \ {h[1]}) \union {x}
<1>1. /\ h \in [1..n -> T] /\ \A y \in T : \E i \in 1..n : h[i] = y
      /\ \A i, j \in 1..n : h[i] = h[j] => i = j
  BY DEF Holds
<1>2. 1 \in 1..n /\ \A j \in 1..n : j = 1 \/ j \in 2..n
  OBVIOUS
<1>3. \A j \in 2..n : j \in 1..n /\ j # 1
  OBVIOUS
<1>4. t = [j \in 1..n |-> t[j]] /\ t[1] = x /\ \A j \in 2..n : t[j] = h[j]
  BY <1>1, <1>2, <1>3
<1> HIDE DEF t
<1>5. \A j \in 2..n : h[j] \in T /\ h[j] # h[1] /\ h[j] # x
  BY <1>1, <1>2, <1>3
<1>6. \A j \in 1..n : t[j] \in S
  BY <1>2, <1>4, <1>5
<1>7. ASSUME NEW i \in 1..n, NEW j \in 1..n, t[i] = t[j] PROVE i = j
  <2>1. CASE i \in 2..n /\ j \in 2..n
    <3>1. h[i] = h[j]
      BY <1>4, <1>7, <2>1
    <3> QED
      BY <1>1, <3>1
  <2>2. CASE i = 1 \/ j = 1
    BY <1>2, <1>4, <1>5, <1>7, <2>2
  <2> QED
    BY <1>2, <2>1, <2>2
<1>8. ASSUME NEW y \in S PROVE \E i \in 1..n : t[i] = y
  <2>1. CASE y = x
    BY <1>2, <1>4, <2>1
  <2>2. CASE y \in T /\ y # h[1]
    <3>1. PICK i \in 1..n : h[i] = y
      BY <1>1, <2>2
    <3>2. i \in 2..n
      BY <1>2, <2>2, <3>1
    <3> QED
      BY <1>4, <3>1, <3>2
  <2> QED
    BY <2>1, <2>2
<1> HIDE DEF S
<1>9. t \in [1..n -> S]
  BY <1>4, <1>6
<1>10. Holds(t, n, S)
  BY <1>7, <1>8, <1>9 DEF Holds
<1> QED
  BY <1>4, <1>10 DEF t, S

\* The top is the last of the slots.
LEMMA TopFollows ==
  ASSUME NEW st, IsStorage(st), KeysDiffer(st.slots, 1..Len(st.slots)), NEW by \in Seq(Orders),
         NEW T \in SUBSET (1..Len(st.slots)), NEW n \in Nat, n > 0, NEW h, Holds(h, n, T),
         Topped(h, n, st, by)
  PROVE  h[1] \in T /\ \A t \in T : t # h[1] => <<t, h[1]>> \in Before(st, by)
<1>1. IsFiniteSet(T)
  BY HoldsCounts
<1>2. PICK rank : Ranking(rank, T, st, by)
  BY <1>1, RanksExist
<1>3. rank \in [T -> Nat] /\ \A x, y \in T : Precedes(st, by, x, y) <=> rank[x] < rank[y]
  BY <1>2 DEF Ranking
<1>4. \A j \in 1..n : rank[h[j]] <= rank[h[1]]
  <2>1. Heaped(h, n, rank)
    BY <1>2, ToppedIsHeaped
  <2> QED
    BY <1>3, <2>1, TopIsLast
<1>5. h[1] \in T
  BY DEF Holds
<1>6. /\ Strict(Before(st, by), T)
      /\ \A l, r \in T : <<l, r>> \in Before(st, by) <=> Precedes(st, by, l, r)
  BY BeforeIsStrict
<1>7. ASSUME NEW t \in T, t # h[1] PROVE <<t, h[1]>> \in Before(st, by)
  <2>1. PICK j \in 1..n : h[j] = t
    BY DEF Holds
  <2>2. rank[t] <= rank[h[1]]
    BY <1>4, <2>1
  <2>3. rank[t] \in Nat /\ rank[h[1]] \in Nat
    BY <1>3, <1>5
  <2>4. ~(rank[h[1]] < rank[t])
    BY <2>2, <2>3
  <2>5. <<h[1], t>> \notin Before(st, by)
    BY <1>3, <1>5, <1>6, <2>4
  <2> QED
    BY <1>5, <1>6, <1>7, <2>5 DEF Strict
<1> QED
  BY <1>5, <1>7

\* One more slot.
LEMMA KeepInHeapKeeps ==
  ASSUME NEW st, IsStorage(st), KeysDiffer(st.slots, 1..Len(st.slots)), NEW by \in Seq(Orders),
         NEW end \in Nat, end > 0, NEW S \in SUBSET (1..Len(st.slots)),
         NEW x \in 1..Len(st.slots), x \notin S,
         NEW h, NEW n \in Nat, NEW T, HeapFirst(h, n, T, S, st, by, end)
  PROVE  \E m \in Nat : \E U : HeapFirst(KeepInHeap(st, by, end, h, x), m, U, S \union {x}, st, by, end)
<1> DEFINE R == Before(st, by)
           more == S \union {x}
<1>1. Leading(T, S, R, end) /\ Holds(h, n, T) /\ Topped(h, n, st, by)
  BY DEF HeapFirst
<1>2. /\ T \subseteq S /\ x \notin T /\ T \in SUBSET (1..Len(st.slots))
      /\ more \in SUBSET (1..Len(st.slots)) /\ 1..Len(st.slots) \subseteq Nat
  BY <1>1 DEF Leading
<1>3. IsFiniteSet(T) /\ Cardinality(T) = n /\ Len(h) = n /\ n <= end
  BY <1>1, HoldsCounts DEF Leading
<1>4. Strict(R, more) /\ \A l, r \in more : <<l, r>> \in R <=> Precedes(st, by, l, r)
  <2> HIDE DEF more
  <2> QED
    BY <1>2, BeforeIsStrict
<1>5. \A j \in 2..n : j \in 1..n /\ j \div 2 \in 1..n
  OBVIOUS
<1> HIDE DEF R
<1>6. CASE n < end
  <2> DEFINE t == Append(h, x)
             U == T \union {x}
             m == n + 1
             after == SiftUp(st, by, t)
  <2>1. KeepInHeap(st, by, end, h, x) = after
    BY <1>3, <1>6 DEF KeepInHeap
  <2>2. Leading(U, more, R, end)
    BY <1>1, <1>3, <1>6, LeadingGrows
  <2>3. Holds(t, m, U) /\ \A j \in 1..n : t[j] = h[j]
    <3>1. h \in Seq(T) /\ Len(h) = n
      BY <1>1, HoldsCounts
    <3>2. Holds(Append(h, x), n + 1, T \union {x})
      BY <1>1, <1>2, AppendHolds
    <3>3. \A j \in 1..n : Append(h, x)[j] = h[j]
      BY <3>1
    <3> QED
      BY <3>2, <3>3
  <2>4. m \in Nat /\ m > 0 /\ U \in SUBSET (1..Len(st.slots)) /\ U \in SUBSET Nat
    BY <1>2
  <2> HIDE DEF U, t
  <2>5. PICK rank : Ranking(rank, U, st, by)
    <3>1. IsFiniteSet(U)
      BY <2>3, <2>4, HoldsCounts
    <3> QED
      BY <2>4, <3>1, RanksExist
  <2>6. Rising(t, m, m, rank)
    <3>1. \A j \in 2..m : j # m => j \in 2..n
      OBVIOUS
    <3>2. \A j \in 2..m : j \div 2 # m
      OBVIOUS
    <3>3. ASSUME NEW j \in 2..n PROVE rank[t[j]] <= rank[t[j \div 2]]
      <4>1. ~Precedes(st, by, t[j \div 2], t[j])
        BY <1>1, <1>5, <2>3 DEF Topped
      <4>2. j \in 1..m /\ j \div 2 \in 1..m
        OBVIOUS
      <4> HIDE DEF m
      <4>3. t[j] \in U /\ t[j \div 2] \in U
        BY <2>3, <4>2 DEF Holds
      <4>4. ~(rank[t[j \div 2]] < rank[t[j]]) /\ rank[t[j]] \in Nat /\ rank[t[j \div 2]] \in Nat
        BY <2>5, <4>1, <4>3 DEF Ranking
      <4> QED
        BY <4>4
    <3> HIDE DEF m
    <3> QED
      BY <3>1, <3>2, <3>3 DEF Rising
  <2> HIDE DEF m
  <2>7. Holds(after, m, U) /\ Heaped(after, m, rank)
    BY <2>3, <2>4, <2>5, <2>6, SiftUpIs
  <2> HIDE DEF after
  <2>8. Topped(after, m, st, by)
    BY <2>4, <2>5, <2>7, ToppedIsHeaped
  <2>9. HeapFirst(after, m, U, more, st, by, end)
    BY <2>2, <2>7, <2>8 DEF HeapFirst, R
  <2> QED
    BY <2>1, <2>4, <2>9
<1>7. CASE n = end
  <2> DEFINE top == h[1]
             t == [h EXCEPT ![1] = x]
             U == (T \ {top}) \union {x}
             after == SiftDown(st, by, t)
  <2>1. top \in T /\ \A y \in T : y # top => <<y, top>> \in R
    BY <1>1, <1>2, <1>7, TopFollows DEF R
  <2>2. <<x, top>> \in R <=> Precedes(st, by, x, top)
    <3> HIDE DEF top
    <3> QED
      BY <1>2, <1>4, <2>1
  <2>3. /\ <<x, top>> \in R => Leading(U, more, R, end)
        /\ <<x, top>> \notin R => Leading(T, more, R, end)
    <3> HIDE DEF top
    <3> QED
      BY <1>1, <1>3, <1>4, <1>7, <2>1, LeadingTurns
  <2>4. CASE ~Precedes(st, by, x, top)
    <3>1. KeepInHeap(st, by, end, h, x) = h
      BY <1>3, <1>7, <2>4 DEF KeepInHeap
    <3>2. HeapFirst(h, n, T, more, st, by, end)
      BY <1>1, <2>2, <2>3, <2>4 DEF HeapFirst, R
    <3> QED
      BY <3>1, <3>2
  <2>5. CASE Precedes(st, by, x, top)
    <3>1. KeepInHeap(st, by, end, h, x) = after
      BY <1>3, <1>7, <2>5 DEF KeepInHeap
    <3>2. Holds(t, n, U) /\ \A j \in 2..n : t[j] = h[j]
      BY <1>1, <1>2, <1>7, ReplacedHolds
    <3>3. U \in SUBSET (1..Len(st.slots)) /\ U \in SUBSET Nat /\ n > 0
      BY <1>2, <1>7
    <3> HIDE DEF U, t
    <3>4. PICK rank : Ranking(rank, U, st, by)
      <4>1. IsFiniteSet(U)
        BY <3>2, HoldsCounts
      <4> QED
        BY <3>3, <4>1, RanksExist
    <3>5. Sinking(t, 1, n, rank)
      <4>1. ASSUME NEW j \in 2..n, j \div 2 # 1 PROVE rank[t[j]] <= rank[t[j \div 2]]
        <5>1. j \div 2 \in 2..n /\ j \in 1..n /\ j \div 2 \in 1..n
          BY <4>1
        <5>2. ~Precedes(st, by, t[j \div 2], t[j])
          BY <1>1, <3>2, <5>1 DEF Topped
        <5>3. t[j] \in U /\ t[j \div 2] \in U
          BY <3>2, <5>1 DEF Holds
        <5>4. ~(rank[t[j \div 2]] < rank[t[j]]) /\ rank[t[j]] \in Nat /\ rank[t[j \div 2]] \in Nat
          BY <3>4, <5>2, <5>3 DEF Ranking
        <5> QED
          BY <5>4
      <4> QED
        BY <4>1 DEF Sinking
    <3>6. Holds(after, n, U) /\ Heaped(after, n, rank)
      BY <3>2, <3>3, <3>4, <3>5, SiftDownIs
    <3> HIDE DEF after
    <3>7. Topped(after, n, st, by)
      BY <3>4, <3>6, ToppedIsHeaped
    <3>8. HeapFirst(after, n, U, more, st, by, end)
      BY <2>2, <2>3, <2>5, <3>6, <3>7 DEF HeapFirst, R
    <3> QED
      BY <3>1, <3>8
  <2> QED
    BY <2>4, <2>5
<1>8. n < end \/ n = end
  BY <1>3
<1> QED
  BY <1>6, <1>7, <1>8

\* All slots.
LEMMA HeapWindowKeeps ==
  ASSUME NEW st, IsStorage(st), KeysDiffer(st.slots, 1..Len(st.slots)), NEW by \in Seq(Orders),
         NEW end \in Nat, end > 0, NEW s, Slots(s, st)
  PROVE  \E n \in Nat : \E T : HeapFirst(HeapWindow(st, by, end, s), n, T, ToSet(s), st, by, end)
<1> DEFINE n == Len(s)
           kind == [way |-> "heap", st |-> st, by |-> by, end |-> end]
<1>1. n \in Nat /\ DOMAIN s = 1..n
  BY DEF Slots
<1>2. PICK c : Runs(c, kind, <<>>, s) /\ HeapWindow(st, by, end, s) = c[n]
  BY <1>1, HeapsFold
<1> DEFINE P == {m \in 0..n : \E k \in Nat : \E T : HeapFirst(c[m], k, T, Until(s, m), st, by, end)}
<1>3. 0 \in P
  <2>1. c[0] = <<>>
    BY <1>2 DEF Runs
  <2>2. Holds(<<>>, 0, {})
    <3>1. 1..0 = {}
      OBVIOUS
    <3>2. <<>> \in [1..0 -> {}]
      BY <3>1
    <3> QED
      BY <3>1, <3>2 DEF Holds
  <2>3. Leading({}, {}, Before(st, by), end)
    BY FS_EmptySet DEF Leading
  <2>4. Topped(<<>>, 0, st, by)
    BY DEF Topped
  <2>5. Until(s, 0) = {}
    BY UntilIs
  <2>6. HeapFirst(c[0], 0, {}, Until(s, 0), st, by, end)
    BY <2>1, <2>2, <2>3, <2>4, <2>5 DEF HeapFirst
  <2> QED
    BY <1>1, <2>6
<1>4. ASSUME NEW m \in 1..n, m - 1 \in P PROVE m \in P
  <2>1. c[m] = KeepInHeap(st, by, end, c[m - 1], s[m])
    <3>1. c[m] = Advance(kind, c[m - 1], s[m])
      BY <1>2 DEF Runs
    <3> QED
      BY <3>1 DEF Advance
  <2>2. PICK k, T : k \in Nat /\ HeapFirst(c[m - 1], k, T, Until(s, m - 1), st, by, end)
    BY <1>4
  <2>3. m - 1 \in 0..n /\ m \in 0..n
    BY <1>1
  <2>4. Until(s, m) = Until(s, m - 1) \union {s[m]} /\ s[m] \notin Until(s, m - 1)
        /\ Until(s, m - 1) \in SUBSET (1..Len(st.slots))
    BY <2>3, UntilIs
  <2>5. s[m] \in 1..Len(st.slots)
    BY ElementOfSeq DEF Slots
  <2> HIDE DEF n, P
  <2>6. \E i \in Nat : \E U : HeapFirst(KeepInHeap(st, by, end, c[m - 1], s[m]), i, U,
                                        Until(s, m - 1) \union {s[m]}, st, by, end)
    BY <2>2, <2>4, <2>5, KeepInHeapKeeps
  <2> QED
    BY <2>1, <2>3, <2>4, <2>6 DEF P
<1>5. n \in P
  <2> HIDE DEF P
  <2>1. \A m \in 0..n : m \in P
    BY <1>1, <1>3, <1>4, CountUp
  <2> QED
    BY <1>1, <2>1
<1>6. Until(s, n) = ToSet(s)
  BY UntilIs
<1> QED
  BY <1>2, <1>5, <1>6

\* A list of slots, and its first ones.
LEMMA SortedIsList ==
  ASSUME NEW st, IsStorage(st), KeysDiffer(st.slots, 1..Len(st.slots)), NEW by \in Seq(Orders),
         NEW S \in SUBSET (1..Len(st.slots)), NEW q, Lists(q, S, Before(st, by))
  PROVE  Sorted(st, by, S) = q
<1> DEFINE R == Before(st, by)
<1>1. Strict(R, S) /\ Lists(Sorted(st, by, S), S, R)
  BY BeforeIsStrict, SortedLists
<1>2. Sorted(st, by, S) = Ordered(S, R) /\ q = Ordered(S, R)
  BY <1>1, ListsOrdered
<1> QED
  BY <1>2

LEMMA FirstIsLeading ==
  ASSUME NEW st, IsStorage(st), KeysDiffer(st.slots, 1..Len(st.slots)), NEW by \in Seq(Orders),
         NEW S \in SUBSET (1..Len(st.slots)), NEW q, Lists(q, S, Before(st, by)),
         NEW end \in Nat, NEW p, NEW T, KeptFirst(p, T, S, st, by, end)
  PROVE  p = FirstN(q, end)
<1> DEFINE R == Before(st, by)
<1>1. Strict(R, S) /\ Leading(T, S, R, end) /\ Lists(p, T, R)
  BY BeforeIsStrict DEF KeptFirst
<1> QED
  BY <1>1, LeadingFirst

\* Whichever way the window is kept, it has the first of the slots that match.
LEMMA KeptIs ==
  ASSUME NEW st, IsStorage(st), KeysDiffer(st.slots, 1..Len(st.slots)), NEW plan \in Plans,
         plan.limit # 0, NEW s, Slots(s, st), NEW n,
         NEW q, Lists(q, ToSet(s), Before(st, plan.orderBy))
  PROVE  Kept(st, plan, plan.offset + plan.limit, s, n)
           = IF plan.limit = Unlimited THEN q ELSE FirstN(q, plan.offset + plan.limit)
<1> DEFINE by == plan.orderBy
           S == ToSet(s)
           end == plan.offset + plan.limit
<1>1. by \in Seq(Orders) /\ (plan.limit # Unlimited => end \in Nat /\ end > 0)
  BY ScanAssumption
<1>2. S \in SUBSET (1..Len(st.slots))
  <2>1. \A i \in 1..Len(s) : s[i] \in 1..Len(st.slots)
    BY ElementOfSeq DEF Slots
  <2> QED
    BY <2>1 DEF Slots, ToSet
<1> HIDE DEF by, S, end
<1>3. Lists(q, S, Before(st, by))
  BY DEF by, S
<1>4. Sorted(st, by, S) = q
  BY <1>1, <1>2, <1>3, SortedIsList
<1>5. CASE plan.limit = Unlimited
  BY <1>4, <1>5 DEF Kept, by, S
<1>6. ASSUME plan.limit # Unlimited PROVE SortedWindow(st, by, end, s) = FirstN(q, end)
  <2>1. PICK T : KeptFirst(SortedWindow(st, by, end, s), T, S, st, by, end)
    BY <1>1, <1>6, SortedWindowKeeps DEF S
  <2> QED
    BY <1>1, <1>2, <1>3, <1>6, <2>1, FirstIsLeading
<1>7. ASSUME plan.limit # Unlimited PROVE Sorted(st, by, ToSet(HeapWindow(st, by, end, s))) = FirstN(q, end)
  <2> DEFINE h == HeapWindow(st, by, end, s)
  <2>1. PICK m, T : m \in Nat /\ HeapFirst(h, m, T, S, st, by, end)
    BY <1>1, <1>7, HeapWindowKeeps DEF S
  <2> HIDE DEF h
  <2>2. Leading(T, S, Before(st, by), end) /\ Holds(h, m, T)
    BY <2>1 DEF HeapFirst
  <2>3. ToSet(h) = T
    <3>1. DOMAIN h = 1..m /\ h \in [1..m -> T] /\ \A x \in T : \E i \in 1..m : h[i] = x
      BY <2>2 DEF Holds
    <3> QED
      BY <3>1 DEF ToSet
  <2>4. T \in SUBSET (1..Len(st.slots))
    BY <1>2, <2>2 DEF Leading
  <2>5. Lists(Sorted(st, by, T), T, Before(st, by))
    BY <1>1, <2>4, SortedLists
  <2>6. KeptFirst(Sorted(st, by, T), T, S, st, by, end)
    BY <2>2, <2>5 DEF KeptFirst
  <2>7. Sorted(st, by, T) = FirstN(q, end)
    BY <1>1, <1>2, <1>3, <1>7, <2>6, FirstIsLeading
  <2> QED
    BY <2>3, <2>7 DEF h
<1>8. CASE plan.limit # Unlimited
  <2>1. Kept(st, plan, end, s, n) \in {SortedWindow(st, by, end, s),
          Sorted(st, by, ToSet(HeapWindow(st, by, end, s))), FirstN(Sorted(st, by, S), end)}
    BY <1>8 DEF Kept, by, S
  <2>2. Kept(st, plan, end, s, n) = FirstN(q, end)
    BY <1>4, <1>6, <1>7, <1>8, <2>1
  <2> QED
    BY <1>8, <2>2 DEF end
<1> QED
  BY <1>5, <1>8
-------------------------------------------------------------------------------
(* The slots that match. *)

\* Slots picked from a list.
LEMMA PickedSlots ==
  ASSUME NEW st, NEW s, Slots(s, st), NEW T \in SUBSET (1..Len(s))
  PROVE  /\ Slots(Picked(s, T), st) /\ ToSet(Picked(s, T)) = {s[i] : i \in T}
         /\ \A R : Lists(s, ToSet(s), R) => Lists(Picked(s, T), {s[i] : i \in T}, R)
<1> DEFINE l == InOrder(T)
           p == Picked(s, T)
           n == Len(s)
           k == Len(l)
           U == {s[i] : i \in T}
           N == 1..Len(st.slots)
<1>1. n \in Nat /\ s \in Seq(N) /\ \A i, j \in 1..n : s[i] = s[j] => i = j
  BY DEF Slots
<1>2. \A i \in 1..n : s[i] \in N
  BY ElementOfSeq, <1>1
<1> HIDE DEF n, N
<1>3. /\ Rises(l, T) /\ k \in Nat /\ DOMAIN l = 1..k
  BY <1>1, InOrderRises DEF n
<1>4. p = [i \in 1..k |-> s[l[i]]]
  BY <1>3 DEF Picked
<1> HIDE DEF l, p, k
<1>5. \A i \in 1..k : l[i] \in T
  BY <1>3, ElementOfSeq DEF Rises, k
<1>6. \A i, j \in 1..k : i < j => l[i] < l[j]
  BY <1>3 DEF Rises, k
<1>7. \A x \in T : \E i \in 1..k : l[i] = x
  BY <1>3 DEF Rises, k
<1>8. T \subseteq 1..n /\ 1..n \subseteq Nat
  BY <1>1 DEF n
<1>9. \A i \in 1..k : p[i] = s[l[i]] /\ p[i] \in U /\ p[i] \in N /\ l[i] \in 1..n
  BY <1>2, <1>4, <1>5, <1>8
<1>10. p \in Seq(N) /\ p \in Seq(U) /\ Len(p) = k /\ DOMAIN p = 1..k
  <2>1. DOMAIN p = 1..k
    BY <1>4
  <2>2. p = [i \in 1..k |-> p[i]]
    BY <1>4, <2>1
  <2> HIDE DEF U
  <2>3. p \in [1..k -> N] /\ p \in [1..k -> U]
    BY <1>9, <2>2
  <2>4. p \in Seq(N) /\ p \in Seq(U)
    BY <1>3, <2>3, IsASeq
  <2>5. Len(p) = k
    BY <1>3, <2>1, <2>4
  <2> QED
    BY <2>1, <2>4, <2>5
<1>11. ASSUME NEW i \in 1..k, NEW j \in 1..k, p[i] = p[j] PROVE i = j
  <2>1. l[i] = l[j]
    BY <1>1, <1>9, <1>11
  <2>2. l[i] \in Nat /\ i \in Nat /\ j \in Nat
    BY <1>3, <1>8, <1>9
  <2>3. ~(i < j) /\ ~(j < i)
    BY <1>6, <2>1, <2>2
  <2> QED
    BY <2>2, <2>3
<1>12. Slots(p, st)
  BY <1>3, <1>10, <1>11 DEF Slots, N
<1>13. \A u \in U : \E i \in 1..k : p[i] = u
  BY <1>7, <1>9
<1>14. ToSet(p) = U
  <2> HIDE DEF U
  <2> QED
    BY <1>9, <1>10, <1>13 DEF ToSet
<1>15. ASSUME NEW R, Lists(s, ToSet(s), R) PROVE Lists(p, U, R)
  <2>1. \A i, j \in 1..n : i < j => <<s[i], s[j]>> \in R
    BY <1>15 DEF Lists, n
  <2>2. \A i, j \in 1..k : i < j => <<p[i], p[j]>> \in R
    BY <1>6, <1>9, <2>1
  <2> HIDE DEF U
  <2> QED
    BY <1>10, <1>13, <2>2 DEF Lists
<1> QED
  BY <1>12, <1>14, <1>15 DEF p

\* Slots in their order.
LEMMA InOrderSlots ==
  ASSUME NEW st, Len(st.slots) \in Nat, NEW T \in SUBSET (1..Len(st.slots))
  PROVE  Slots(InOrder(T), st) /\ ToSet(InOrder(T)) = T
<1> DEFINE l == InOrder(T)
           k == Len(l)
           N == 1..Len(st.slots)
<1>1. Rises(l, T) /\ k \in Nat /\ DOMAIN l = 1..k
  BY InOrderRises
<1>2. T \subseteq N /\ N \subseteq Nat
  OBVIOUS
<1> HIDE DEF l, k, N
<1>3. \A i \in 1..k : l[i] \in T
  BY <1>1, ElementOfSeq DEF Rises, k
<1>4. l \in Seq(N)
  <2>1. l = [i \in 1..k |-> l[i]]
    BY <1>1, LenProperties DEF Rises, k
  <2>2. l \in [1..k -> N]
    BY <1>2, <1>3, <2>1
  <2> QED
    BY <1>1, <2>2, IsASeq
<1>5. ASSUME NEW i \in 1..k, NEW j \in 1..k, l[i] = l[j] PROVE i = j
  <2>1. l[i] \in Nat
    BY <1>2, <1>3
  <2>2. ~(i < j) /\ ~(j < i)
    BY <1>1, <1>5, <2>1 DEF Rises, k
  <2>3. i \in Nat /\ j \in Nat
    BY <1>1
  <2> QED
    BY <2>2, <2>3
<1>6. ToSet(l) = T
  <2>1. \A x \in T : \E i \in 1..k : l[i] = x
    BY <1>1 DEF Rises, k
  <2> QED
    BY <1>1, <1>3, <2>1 DEF ToSet
<1>7. Slots(l, st)
  BY <1>1, <1>4, <1>5 DEF Slots, k, N
<1> QED
  BY <1>6, <1>7 DEF l
-------------------------------------------------------------------------------
(* What a scan answers. *)

LEMMA LesserIs ==
  ASSUME NEW a \in Nat, NEW b \in Nat
  PROVE  Lesser(a, b) \in Nat /\ Lesser(a, b) <= a /\ Lesser(a, b) <= b
<1>1. \A x, y \in Nat : x <= y => Min({x, y}) = x /\ Min({y, x}) = x
  BY DEF Min
<1>2. a <= b \/ b <= a
  OBVIOUS
<1> QED
  BY <1>1, <1>2 DEF Lesser

\* Slots and columns decide the order.
LEMMA BeforeAlike ==
  ASSUME NEW s, NEW t, s.slots = t.slots, s.columns = t.columns, NEW by
  PROVE  Before(s, by) = Before(t, by)
<1>1. \A f, l : Value(s, f, l) = Value(t, f, l)
  BY DEF Value
<1>2. ASSUME NEW l, NEW r PROVE Precedes(s, by, l, r) <=> Precedes(t, by, l, r)
  <2> DEFINE differ(x) == {i \in DOMAIN by : Value(x, by[i].field, l) # Value(x, by[i].field, r)}
  <2>1. differ(s) = differ(t)
    BY <1>1
  <2>2. \A x : Precedes(x, by, l, r) <=>
          IF differ(x) = {} THEN x.slots[l].key < x.slots[r].key
          ELSE IF by[Min(differ(x))].descending
          THEN Value(x, by[Min(differ(x))].field, l) > Value(x, by[Min(differ(x))].field, r)
          ELSE Value(x, by[Min(differ(x))].field, l) < Value(x, by[Min(differ(x))].field, r)
    BY DEF Precedes
  <2> HIDE DEF differ
  <2> QED
    BY <1>1, <2>1, <2>2
<1> QED
  BY <1>2 DEF Before

\* The slots among those read that match are those that the query asks for.
LEMMA MatchingIs ==
  ASSUME NEW st, IsStorage(st), NEW plan \in Plans, NEW s, Slots(s, st),
         Asked(st, plan) \subseteq ToSet(s)
  PROVE  /\ Slots(Matching(st, plan, s), st) /\ ToSet(Matching(st, plan, s)) = Asked(st, plan)
         /\ \A R : Lists(s, ToSet(s), R) => Lists(Matching(st, plan, s), Asked(st, plan), R)
<1> DEFINE T == {i \in DOMAIN s : MatchesSlot(st, plan, s[i])}
<1>1. DOMAIN s = 1..Len(s) /\ \A i \in 1..Len(s) : s[i] \in 1..Len(st.slots)
  BY ElementOfSeq DEF Slots
<1>2. \A i \in DOMAIN s : MatchesSlot(st, plan, s[i]) <=> s[i] \in Asked(st, plan)
  <2>1. ASSUME NEW i \in DOMAIN s PROVE MatchesSlot(st, plan, s[i]) <=> s[i] \in Asked(st, plan)
    <3>1. s[i] \in 1..Len(st.slots)
      BY <1>1
    <3>2. MatchesSlot(st, plan, s[i]) <=> Accepts(plan, st.slots[s[i]].row)
      BY <3>1, MatchesIsAccepts
    <3> QED
      BY <3>1, <3>2 DEF Asked
  <2> QED
    BY <2>1
<1>3. {s[i] : i \in T} = Asked(st, plan)
  <2>1. \A x \in Asked(st, plan) : \E i \in DOMAIN s : s[i] = x
    BY DEF ToSet
  <2> QED
    BY <1>2, <2>1
<1>4. T \in SUBSET (1..Len(s))
  BY <1>1
<1>5. Matching(st, plan, s) = Picked(s, T)
  BY DEF Matching
<1> HIDE DEF T
<1>6. /\ Slots(Picked(s, T), st) /\ ToSet(Picked(s, T)) = {s[i] : i \in T}
      /\ \A R : Lists(s, ToSet(s), R) => Lists(Picked(s, T), {s[i] : i \in T}, R)
  BY <1>4, PickedSlots
<1> QED
  BY <1>3, <1>5, <1>6

\* Slots are as many as they have elements.
LEMMA SlotsCount ==
  ASSUME NEW st, NEW s, Slots(s, st)
  PROVE  Cardinality(ToSet(s)) = Len(s) /\ Len(s) \in Nat
<1>1. Holds(s, Len(s), ToSet(s)) /\ Len(s) \in Nat
  BY DEF Slots, Holds, ToSet
<1> QED
  BY <1>1, HoldsCounts

\* The window of a plan: from its offset to its limit.
Cut(plan, s) ==
  Beyond(IF plan.limit = Unlimited THEN s ELSE FirstN(s, plan.offset + plan.limit), plan.offset)

\* As long as the sequence, or as the limit allows.
CutEnd(plan, n) == IF plan.limit = Unlimited THEN n ELSE Lesser(plan.offset + plan.limit, n)

LEMMA CutIs ==
  ASSUME NEW S, NEW s \in Seq(S), NEW plan \in Plans
  PROVE  /\ CutEnd(plan, Len(s)) \in 0..Len(s)
         /\ Cut(plan, s) = [i \in 1..(CutEnd(plan, Len(s)) - plan.offset) |-> s[i + plan.offset]]
<1> DEFINE off == plan.offset
           end == plan.offset + plan.limit
           n == Len(s)
           m == CutEnd(plan, n)
           p == IF plan.limit = Unlimited THEN s ELSE FirstN(s, end)
<1>1. off \in Nat /\ n \in Nat /\ (plan.limit # Unlimited => end \in Nat)
  BY ScanAssumption, LenProperties
<1>2. m \in 0..n
  <2>1. CASE plan.limit = Unlimited
    BY <1>1, <2>1 DEF CutEnd
  <2>2. CASE plan.limit # Unlimited
    <3> HIDE DEF end, n
    <3>1. m = Lesser(end, n)
      BY <2>2 DEF CutEnd, end
    <3> QED
      BY <1>1, <2>2, <3>1, LesserIs
  <2> QED
    BY <2>1, <2>2
<1>3. p \in Seq(S) /\ Len(p) = m /\ \A i \in 1..m : p[i] = s[i]
  <2>1. CASE plan.limit = Unlimited
    BY <1>1, <2>1 DEF CutEnd
  <2>2. CASE plan.limit # Unlimited
    <3>1. p = SubSeq(s, 1, m)
      BY <2>2 DEF FirstN, CutEnd
    <3> HIDE DEF p, m
    <3> QED
      BY <1>1, <1>2, <3>1
  <2> QED
    BY <2>1, <2>2
<1>4. Cut(plan, s) = SubSeq(p, off + 1, m)
  BY <1>3 DEF Cut, Beyond
<1> HIDE DEF p, m
<1>5. SubSeq(p, off + 1, m) = [i \in 1..(m - off) |-> p[i + off]]
  <2>1. m \in Nat /\ off \in Nat /\ p \in Seq(S) /\ m = Len(p)
    BY <1>1, <1>2, <1>3
  <2> HIDE DEF off, end, n
  <2> QED
    BY <2>1
<1>6. \A i \in 1..(m - off) : i + off \in 1..m
  BY <1>1, <1>2
<1>7. Cut(plan, s) = [i \in 1..(m - off) |-> s[i + off]]
  BY <1>3, <1>4, <1>5, <1>6
<1> QED
  BY <1>2, <1>7 DEF m

\* The entries that a query is to be answered with.
SlotEntries(st, q) == [i \in 1..Len(q) |-> st.slots[q[i]]]

\* Cutting slots and cutting their entries is the same.
LEMMA ResultAnswers ==
  ASSUME NEW st, IsStorage(st), NEW plan \in Plans, NEW q \in Seq(1..Len(st.slots)),
         NEW t, t.slots = st.slots
  PROVE  Answers(plan, Result(t, Cut(plan, q), Len(q)), SlotEntries(st, q))
<1> DEFINE e == SlotEntries(st, q)
           off == plan.offset
           n == Len(q)
           m == CutEnd(plan, n)
           scan == Result(t, Cut(plan, q), n)
<1>1. off \in Nat /\ n \in Nat /\ \A i \in 1..n : q[i] \in 1..Len(st.slots)
  BY ScanAssumption, LenProperties, ElementOfSeq
<1>2. \A i \in 1..Len(st.slots) : st.slots[i] \in SlotEntry
  BY ElementOfSeq DEF IsStorage
<1>3. e \in Seq(SlotEntry) /\ Len(e) = n /\ \A i \in 1..n : e[i] = st.slots[q[i]]
  <2>1. \A i \in 1..n : st.slots[q[i]] \in SlotEntry
    BY <1>1, <1>2
  <2>2. e = [i \in 1..n |-> st.slots[q[i]]]
    BY DEF SlotEntries
  <2> HIDE DEF e, n
  <2>3. e \in [1..n -> SlotEntry]
    BY <2>1, <2>2
  <2>4. e \in Seq(SlotEntry) /\ DOMAIN e = 1..n
    BY <1>1, <2>3, IsASeq
  <2>5. Len(e) = n
    BY <1>1, <2>4
  <2> QED
    BY <2>2, <2>4, <2>5
<1>4. m \in 0..n /\ Cut(plan, q) = [i \in 1..(m - off) |-> q[i + off]]
  BY CutIs
<1>5. Cut(plan, e) = [i \in 1..(m - off) |-> e[i + off]]
  <2> HIDE DEF e
  <2> QED
    BY <1>3, CutIs
<1>6. \A i \in 1..(m - off) : i + off \in 1..n
  <2> HIDE DEF m, n
  <2> QED
    BY <1>1, <1>4
<1> DEFINE c == Cut(plan, q)
           d == Cut(plan, e)
<1> HIDE DEF e, m, n
<1>7. DOMAIN c = 1..(m - off) /\ DOMAIN d = 1..(m - off)
  BY <1>4, <1>5
<1>8. \A i \in 1..(m - off) : d[i].key = st.slots[c[i]].key
  BY <1>3, <1>4, <1>5, <1>6
<1>9. scan.total = n /\ scan.keys = [i \in DOMAIN c |-> st.slots[c[i]].key]
  BY DEF Result
<1>10. Answers(plan, scan, e) <=>
         scan.total = Len(e) /\ scan.keys = [i \in DOMAIN d |-> d[i].key]
  BY DEF Answers, Cut
<1> HIDE DEF c, d, scan
<1>11. scan.keys = [i \in DOMAIN d |-> d[i].key]
  BY <1>7, <1>8, <1>9
<1>12. Answers(plan, scan, e)
  BY <1>3, <1>9, <1>10, <1>11
<1> QED
  BY <1>12 DEF scan, e, n

\* The slots that were found, or all: each once, and all that the query asks for.
LEMMA VisitedIs ==
  ASSUME NEW st, NEW plan, NEW found, FoundInv(found, st, plan)
  PROVE  /\ Slots(Visited(found), found.storage)
         /\ Asked(found.storage, plan) \subseteq ToSet(Visited(found))
<1> DEFINE t == found.storage
           T == IF found.sets = {} THEN DOMAIN t.slots ELSE UNION found.sets
<1>1. /\ StorageInv(t) /\ t.slots = st.slots
      /\ \A c \in found.sets : c \subseteq 1..Len(st.slots) /\ Asked(st, plan) \subseteq c
  BY DEF FoundInv
<1>2. Len(t.slots) \in Nat /\ DOMAIN t.slots = 1..Len(t.slots)
  BY <1>1, LenProperties DEF StorageInv, Indexed, IsStorage
<1>3. Asked(t, plan) = Asked(st, plan) /\ Asked(t, plan) \subseteq 1..Len(t.slots)
  BY <1>1 DEF Asked
<1>4. T \in SUBSET (1..Len(t.slots)) /\ Asked(t, plan) \subseteq T
  <2> HIDE DEF t
  <2>1. CASE found.sets = {}
    BY <1>2, <1>3, <2>1
  <2>2. CASE found.sets # {}
    BY <1>1, <1>3, <2>2
  <2> QED
    BY <2>1, <2>2
<1>5. Visited(found) = InOrder(T)
  BY DEF Visited
<1> HIDE DEF T, t
<1>6. Slots(InOrder(T), t) /\ ToSet(InOrder(T)) = T
  BY <1>2, <1>4, InOrderSlots
<1> QED
  BY <1>4, <1>5, <1>6 DEF t

\* A scan that reads slots answers its plan.
LEMMA ReadAnswers ==
  ASSUME NEW st, StorageInv(st), NEW plan \in Plans, NEW found, FoundInv(found, st, plan),
         NEW q, Lists(q, Asked(st, plan), Before(st, plan.orderBy))
  PROVE  /\ ScanSlots(plan, found).storage = found.storage
         /\ Answers(plan, ScanSlots(plan, found), SlotEntries(st, q))
<1> DEFINE t == found.storage
           visited == Visited(found)
           matches == Matching(t, plan, visited)
           n == Len(visited)
           by == plan.orderBy
<1>1. StorageInv(t) /\ t.slots = st.slots /\ t.columns = st.columns
  BY DEF FoundInv
<1>2. IsStorage(t) /\ KeysDiffer(t.slots, 1..Len(t.slots)) /\ IsStorage(st)
  BY <1>1 DEF StorageInv, Indexed
<1>3. Asked(t, plan) = Asked(st, plan) /\ Before(t, by) = Before(st, by)
  BY <1>1, BeforeAlike DEF Asked
<1>4. Slots(visited, t) /\ Asked(t, plan) \subseteq ToSet(visited)
  BY VisitedIs
<1>5. ScanSlots(plan, found) = ReadMatches(t, plan, matches, n)
  BY DEF ScanSlots, ReadVisited
<1> HIDE DEF t, visited
<1>6. Slots(matches, t) /\ ToSet(matches) = Asked(t, plan)
  BY <1>2, <1>4, MatchingIs
<1> HIDE DEF matches, n
<1>7. q \in Seq(1..Len(st.slots)) /\ Len(q) = Len(matches) /\ Len(q) \in Nat
  <2>1. q \in Seq(Asked(st, plan))
    BY DEF Lists
  <2>2. Asked(st, plan) \in SUBSET (1..Len(st.slots))
    BY DEF Asked
  <2>3. q \in Seq(1..Len(st.slots))
    <3> DEFINE N == 1..Len(st.slots)
               S == Asked(st, plan)
    <3> HIDE DEF N, S
    <3>1. S \subseteq N /\ q \in Seq(S)
      BY <2>1, <2>2 DEF N, S
    <3>2. q \in Seq(N)
      BY <3>1
    <3> QED
      BY <3>2 DEF N
  <2>4. Strict(Before(t, by), Asked(t, plan))
    <3>1. Asked(t, plan) \in SUBSET (1..Len(t.slots)) /\ by \in Seq(Orders)
      BY <1>1, <1>3, <2>2, ScanAssumption
    <3> HIDE DEF by
    <3> QED
      BY <1>2, <3>1, BeforeIsStrict
  <2>5. Cardinality(Asked(t, plan)) = Len(q) /\ Len(q) \in Nat
    <3>1. Lists(q, Asked(t, plan), Before(t, by))
      BY <1>3
    <3> HIDE DEF by
    <3> QED
      BY <2>4, <3>1, ListsOnce
  <2>6. Cardinality(Asked(t, plan)) = Len(matches)
    BY <1>6, SlotsCount
  <2> QED
    BY <2>3, <2>5, <2>6
<1>8. ReadMatches(t, plan, matches, n) = Result(t, Cut(plan, q), Len(q))
  <2>1. CASE plan.limit = 0
    <3>1. Cut(plan, q) = <<>>
      <4>1. plan.limit # Unlimited /\ plan.offset \in Nat
        BY <2>1, ScanAssumption
      <4>2. CutEnd(plan, Len(q)) = Lesser(plan.offset, Len(q))
        BY <2>1, <4>1 DEF CutEnd
      <4>3. Lesser(plan.offset, Len(q)) \in Nat /\ Lesser(plan.offset, Len(q)) <= plan.offset
        BY <1>7, <4>1, LesserIs
      <4>4. 1..(CutEnd(plan, Len(q)) - plan.offset) = {}
        BY <4>1, <4>2, <4>3
      <4>5. Cut(plan, q) = [i \in 1..(CutEnd(plan, Len(q)) - plan.offset) |-> q[i + plan.offset]]
        BY <1>7, CutIs
      <4>6. Cut(plan, q) = [i \in {} |-> q[i + plan.offset]]
        BY <4>4, <4>5
      <4> QED
        BY <4>6
    <3> QED
      BY <1>7, <2>1, <3>1 DEF ReadMatches
  <2>2. CASE plan.limit # 0
    <3>1. Lists(q, ToSet(matches), Before(t, by))
      BY <1>3, <1>6
    <3>2. Kept(t, plan, plan.offset + plan.limit, matches, n)
            = IF plan.limit = Unlimited THEN q ELSE FirstN(q, plan.offset + plan.limit)
      BY <1>2, <1>6, <2>2, <3>1, KeptIs
    <3> QED
      BY <1>7, <2>2, <3>2 DEF ReadMatches, Cut
  <2> QED
    BY <2>1, <2>2
<1>9. Result(t, Cut(plan, q), Len(q)).storage = t
  BY DEF Result
<1>10. Answers(plan, Result(t, Cut(plan, q), Len(q)), SlotEntries(st, q))
  BY <1>1, <1>2, <1>7, ResultAnswers
<1> QED
  BY <1>5, <1>8, <1>9, <1>10 DEF t

\* A part of the index of the plan's order: what matches there are the slots asked for,
\* in their order.
LEMMA AlongAnswers ==
  ASSUME NEW st, StorageInv(st), NEW plan \in Plans, Len(plan.orderBy) = 1, plan.limit # Unlimited,
         plan.orderBy[1] \in DOMAIN st.ordered,
         NEW q, Lists(q, Asked(st, plan), Before(st, plan.orderBy))
  PROVE  LET index == st.ordered[plan.orderBy[1]]
             along == Picked(index, Spans(st, plan, plan.orderBy[1]))
         IN  ReadIndex(st, plan, Matching(st, plan, along)) = Result(st, Cut(plan, q), Len(q))
<1> DEFINE o == plan.orderBy[1]
           index == st.ordered[o]
           span == Spans(st, plan, o)
           along == Picked(index, span)
           N == 1..Len(st.slots)
           matches == Matching(st, plan, along)
<1>1. /\ IsStorage(st) /\ KeysDiffer(st.slots, N) /\ Len(st.slots) \in Nat /\ o \in Orders
      /\ Listed(index, st.slots, o, N) /\ Len(index) = Len(st.slots) /\ DOMAIN index = N
  BY IndexIs
<1>2. plan.orderBy = <<o>> /\ <<o>> \in Seq(Orders)
  <2>1. plan.orderBy \in Seq(Orders)
    BY ScanAssumption
  <2> QED
    BY <2>1
<1> DEFINE R == Before(st, <<o>>)
<1>3. Lists(q, Asked(st, plan), R)
  BY <1>2
<1>4. /\ span \subseteq N
      /\ \A i \in N : index[i] \in Asked(st, plan) => i \in span
  BY SpansCover
<1> HIDE DEF o, index, span, N
<1>5. Lists(index, N, R)
  BY <1>1, ListedIsLists DEF N
<1>6. Asked(st, plan) \in SUBSET N
  BY DEF Asked, N
<1>7. Strict(R, N) /\ Strict(R, Asked(st, plan))
  BY <1>1, <1>2, <1>6, BeforeIsStrict DEF N
<1> HIDE DEF R
<1>8. /\ index \in Seq(N) /\ \A i, j \in 1..Len(index) : index[i] = index[j] => i = j
      /\ \A s \in N : \E i \in N : index[i] = s
      /\ N = 1..Len(index)
  <2>1. \A i, j \in 1..Len(index) : index[i] = index[j] => i = j
    BY <1>5, <1>7, ListsOnce
  <2> QED
    BY <1>1, <1>5, <2>1 DEF Lists, N
<1>9. Slots(index, st)
  BY <1>1, <1>8 DEF Slots, N
<1>10. ToSet(index) = N
  <2>1. \A i \in N : index[i] \in N
    BY <1>8, ElementOfSeq
  <2> QED
    BY <1>1, <1>8, <2>1 DEF ToSet
<1>11. /\ Slots(along, st) /\ ToSet(along) = {index[i] : i \in span}
       /\ Lists(along, {index[i] : i \in span}, R)
  <2>1. span \in SUBSET (1..Len(index))
    BY <1>4, <1>8
  <2>2. Lists(index, ToSet(index), R)
    BY <1>5, <1>10
  <2> QED
    BY <1>9, <2>1, <2>2, PickedSlots
<1> HIDE DEF along
<1>12. Asked(st, plan) \subseteq ToSet(along)
  <2>1. ASSUME NEW s \in Asked(st, plan) PROVE s \in ToSet(along)
    <3>1. PICK i \in N : index[i] = s
      BY <1>6, <1>8
    <3>2. i \in span
      BY <1>4, <3>1
    <3> QED
      BY <1>11, <3>1, <3>2
  <2> QED
    BY <2>1
<1>13. Lists(matches, Asked(st, plan), R)
  <2>1. Lists(along, ToSet(along), R)
    BY <1>11
  <2> QED
    BY <1>1, <1>11, <1>12, <2>1, MatchingIs
<1>14. matches = q
  <2>1. matches = Ordered(Asked(st, plan), R) /\ q = Ordered(Asked(st, plan), R)
    BY <1>3, <1>7, <1>13, ListsOrdered
  <2> QED
    BY <2>1
<1>15. ReadIndex(st, plan, matches) = Result(st, Cut(plan, q), Len(q))
  BY <1>14 DEF ReadIndex, Cut
<1> QED
  BY <1>15 DEF along, index, span, o

\* A scan along an index, or of what buckets know, answers its plan.
LEMMA IndexAnswers ==
  ASSUME NEW st, StorageInv(st), NEW plan \in Plans, Len(plan.orderBy) = 1, plan.limit # Unlimited,
         plan.orderBy[1] \in DOMAIN st.ordered,
         NEW q, Lists(q, Asked(st, plan), Before(st, plan.orderBy))
  PROVE  /\ StorageInv(ScanIndexed(st, plan, plan.orderBy[1]).storage)
         /\ Answers(plan, ScanIndexed(st, plan, plan.orderBy[1]), SlotEntries(st, q))
<1> DEFINE o == plan.orderBy[1]
           index == st.ordered[o]
           span == Spans(st, plan, o)
           most == Lesser(Cardinality(span), MaxBucket + 1)
           found == Candidates(st, plan, FALSE, {o.field}, most)
           along == Picked(index, span)
           scan == ScanIndexed(st, plan, o)
<1>1. scan = ScanSpan(st, plan, o, span, found)
  BY DEF ScanIndexed, ScanIndex
<1>2. FoundInv(found, st, plan)
  <2> HIDE DEF o, span, most
  <2> QED
    BY CandidatesKeep
<1>3. Matching(st, plan, [i \in DOMAIN InOrder(span) |-> index[InOrder(span)[i]]]) = Matching(st, plan, along)
  BY DEF Picked
<1>4. ReadIndex(st, plan, Matching(st, plan, along)) = Result(st, Cut(plan, q), Len(q))
  BY AlongAnswers
<1> HIDE DEF found, scan
<1>5. CASE found.sets # {}
  <2>1. scan = ScanSlots(plan, found)
    BY <1>1, <1>5 DEF ScanSpan
  <2>2. scan.storage = found.storage /\ Answers(plan, scan, SlotEntries(st, q))
    BY <1>2, <2>1, ReadAnswers
  <2> QED
    BY <1>2, <2>2 DEF FoundInv, scan
<1>6. CASE found.sets = {}
  <2>1. scan = ReadIndex(st, plan, Matching(st, plan, [i \in DOMAIN InOrder(span) |-> index[InOrder(span)[i]]]))
    BY <1>1, <1>6 DEF ScanSpan
  <2>2. scan = Result(st, Cut(plan, q), Len(q))
    BY <1>3, <1>4, <2>1
  <2>3. IsStorage(st) /\ q \in Seq(1..Len(st.slots))
    <3>1. q \in Seq(Asked(st, plan)) /\ Asked(st, plan) \subseteq 1..Len(st.slots)
      BY DEF Lists, Asked
    <3> DEFINE N == 1..Len(st.slots)
               S == Asked(st, plan)
    <3> HIDE DEF N, S
    <3>2. S \subseteq N /\ q \in Seq(S)
      BY <3>1 DEF N, S
    <3>3. q \in Seq(N)
      BY <3>2
    <3> QED
      BY <3>3 DEF N, StorageInv, Indexed
  <2>4. Answers(plan, scan, SlotEntries(st, q))
    BY <2>2, <2>3, ResultAnswers
  <2>5. scan.storage = st
    BY <2>2 DEF Result
  <2> QED
    BY <2>4, <2>5 DEF scan
<1> QED
  BY <1>5, <1>6

\* Whichever way a scan takes, it keeps the storage's invariant and answers its plan.
LEMMA ScanAnswers ==
  ASSUME NEW st, StorageInv(st), NEW plan \in Plans,
         NEW q, Lists(q, Asked(st, plan), Before(st, plan.orderBy))
  PROVE  StorageInv(Scan(st, plan).storage) /\ Answers(plan, Scan(st, plan), SlotEntries(st, q))
<1> DEFINE o == plan.orderBy[1]
<1>0. IsStorage(st)
  BY DEF StorageInv, Indexed
<1>1. CASE ~Indexable(plan)
  <2> DEFINE found == Candidates(st, plan, TRUE, {}, Lesser(Len(st.slots), MaxBucket + 1))
  <2>1. FoundInv(found, st, plan)
    BY CandidatesKeep
  <2>2. Scan(st, plan) = ScanSlots(plan, found)
    BY <1>1 DEF Scan
  <2> HIDE DEF found
  <2>3. ScanSlots(plan, found).storage = found.storage /\ Answers(plan, ScanSlots(plan, found), SlotEntries(st, q))
    BY <2>1, ReadAnswers
  <2> QED
    BY <2>1, <2>2, <2>3 DEF FoundInv
<1>2. CASE Indexable(plan) /\ NothingBetween(Lower(plan, o.field), Upper(plan, o.field))
  <2>1. Scan(st, plan) = Result(st, <<>>, 0)
    BY <1>2 DEF Scan
  <2>2. Asked(st, plan) = {}
    BY <1>0, <1>2, NothingAsked
  <2>3. q = <<>> /\ Len(q) = 0 /\ q \in Seq(1..Len(st.slots))
    <3>1. q \in Seq({})
      BY <2>2 DEF Lists
    <3>2. q = <<>>
      BY <3>1
    <3> QED
      BY <3>2
  <2>4. Cut(plan, q) = <<>>
    <3>1. CutEnd(plan, 0) \in 0..0 /\ plan.offset \in Nat
      BY <2>3, CutIs, ScanAssumption
    <3>2. 1..(CutEnd(plan, 0) - plan.offset) = {}
      BY <3>1
    <3>3. Cut(plan, q) = [i \in 1..(CutEnd(plan, Len(q)) - plan.offset) |-> q[i + plan.offset]]
      <4> DEFINE N == 1..Len(st.slots)
      <4> HIDE DEF N
      <4>1. q \in Seq(N)
        BY <2>3 DEF N
      <4> QED
        BY <4>1, CutIs
    <3>4. Cut(plan, q) = [i \in {} |-> q[i + plan.offset]]
      <4>1. CutEnd(plan, Len(q)) = CutEnd(plan, 0)
        BY <2>3
      <4> QED
        BY <3>2, <3>3, <4>1
    <3> QED
      BY <3>4
  <2>5. Answers(plan, Result(st, Cut(plan, q), Len(q)), SlotEntries(st, q))
    BY <1>0, <2>3, ResultAnswers
  <2>6. Result(st, <<>>, 0).storage = st
    BY DEF Result
  <2> QED
    BY <2>1, <2>3, <2>4, <2>5, <2>6
<1>3. CASE Indexable(plan) /\ ~NothingBetween(Lower(plan, o.field), Upper(plan, o.field))
  <2> DEFINE t == BuildIndex(st, o)
  <2>1. Scan(st, plan) = ScanIndexed(t, plan, o)
    BY <1>3 DEF Scan
  <2>2. plan.limit # Unlimited /\ Len(plan.orderBy) = 1
    BY <1>3 DEF Indexable
  <2>3. o \in Orders
    <3>1. plan.orderBy \in Seq(Orders) /\ 1 \in 1..Len(plan.orderBy)
      BY <2>2, ScanAssumption
    <3> QED
      BY <3>1, ElementOfSeq
  <2>4. StorageInv(t) /\ o \in DOMAIN t.ordered /\ t.slots = st.slots /\ t.columns = st.columns
    <3> HIDE DEF o
    <3> QED
      BY <2>3, BuildKeeps
  <2> HIDE DEF t
  <2>5. Before(t, plan.orderBy) = Before(st, plan.orderBy)
    BY <2>4, BeforeAlike
  <2>6. Lists(q, Asked(t, plan), Before(t, plan.orderBy)) /\ SlotEntries(t, q) = SlotEntries(st, q)
    BY <2>4, <2>5 DEF Asked, SlotEntries
  <2>7. StorageInv(ScanIndexed(t, plan, o).storage) /\ Answers(plan, ScanIndexed(t, plan, o), SlotEntries(t, q))
    BY <2>2, <2>4, <2>6, IndexAnswers
  <2> QED
    BY <2>1, <2>6, <2>7
<1> QED
  BY <1>1, <1>2, <1>3

\* The slots asked for have a list.
LEMMA AskedLists ==
  ASSUME NEW st, StorageInv(st), NEW plan \in Plans
  PROVE  Lists(Sorted(st, plan.orderBy, Asked(st, plan)), Asked(st, plan), Before(st, plan.orderBy))
<1>1. IsStorage(st) /\ KeysDiffer(st.slots, 1..Len(st.slots))
  BY DEF StorageInv, Indexed
<1>2. plan.orderBy \in Seq(Orders) /\ Asked(st, plan) \in SUBSET (1..Len(st.slots))
  BY ScanAssumption DEF Asked
<1> QED
  BY <1>1, <1>2, SortedLists

\* What a scan leaves behind.
LEMMA ScanKeeps ==
  ASSUME NEW st, StorageInv(st), NEW plan \in Plans
  PROVE  StorageInv(Scan(st, plan).storage)
BY AskedLists, ScanAnswers

\* What it answers is what filtering and sorting all rows gives.
LEMMA ScanRefers ==
  ASSUME NEW st, StorageInv(st), NEW plan \in Plans,
         NEW accepted, accepted = {e \in ToSet(st.slots) : Accepts(plan, e.row)}
  PROVE  Answers(plan, Scan(st, plan),
                 Ordered(accepted, {p \in accepted \X accepted : RowPrecedes(plan.orderBy, p[1], p[2])}))
<1> DEFINE q == Sorted(st, plan.orderBy, Asked(st, plan))
<1>1. IsStorage(st) /\ KeysDiffer(st.slots, 1..Len(st.slots))
  BY DEF StorageInv, Indexed
<1>2. Lists(q, Asked(st, plan), Before(st, plan.orderBy))
  BY AskedLists
<1> HIDE DEF q
<1>3. Answers(plan, Scan(st, plan), SlotEntries(st, q))
  BY <1>2, ScanAnswers
<1>4. Ordered(accepted, {p \in accepted \X accepted : RowPrecedes(plan.orderBy, p[1], p[2])})
        = [i \in 1..Len(q) |-> st.slots[q[i]]]
  BY <1>1, <1>2, ReferenceIs
<1> QED
  BY <1>3, <1>4 DEF SlotEntries


\* Rows that are published together.
LEMMA SetManyKeeps ==
  ASSUME NEW st, StorageInv(st), NEW batch \in Batches
  PROVE  StorageInv(SetPreparedMany(st, batch))
<1> DEFINE bare == [st EXCEPT !.ordered = <<>>]
           base == IF Len(batch) > 1 THEN bare ELSE st
           S == 1..Len(st.slots)
<1>1. batch \in Seq(SlotEntry)
  BY StorageAssumption DEF SlotEntry
<1>2. StorageInv(bare)
  <2>1. /\ IsStorage(st) /\ KeysDiffer(st.slots, S) /\ KeysLead(st, S) /\ BucketsHold(st, S)
    BY DEF StorageInv, Indexed
  <2>2. /\ DOMAIN bare = Parts /\ bare.slots = st.slots /\ bare.columns = st.columns
        /\ bare.keyToSlot = st.keyToSlot /\ bare.buckets = st.buckets /\ bare.ordered = <<>>
    BY <2>1 DEF IsStorage, Parts
  <2>3. DOMAIN bare.ordered = {}
    BY <2>2
  <2> HIDE DEF bare, S
  <2>4. IsStorage(bare) /\ OrdersList(bare, DOMAIN bare.ordered, S)
    BY <2>1, <2>2, <2>3 DEF IsStorage, OrdersList
  <2>5. BucketsHold(bare, S) /\ KeysLead(bare, S) /\ KeysDiffer(bare.slots, S)
    BY <2>1, <2>2 DEF BucketsHold, KeysLead
  <2>6. Indexed(bare, S) /\ S = 1..Len(bare.slots)
    BY <2>2, <2>4, <2>5 DEF Indexed, S
  <2> QED
    BY <2>5, <2>6 DEF StorageInv
<1>3. StorageInv(base)
  BY <1>2
<1>4. SetPreparedMany(st, batch)
        = FoldLeft(LAMBDA s, e : SetPrepared(s, e.key, e.row, FALSE), base, batch)
  BY DEF SetPreparedMany
<1> HIDE DEF base
<1> QED
  BY <1>1, <1>3, <1>4, SetAllKeeps

\* A storage without rows.
LEMMA EmptyIsIndexed == StorageInv(EmptyStorage)
<1>1. /\ DOMAIN EmptyStorage = Parts /\ EmptyStorage.slots = <<>>
      /\ EmptyStorage.columns = [f \in Fields |-> <<>>] /\ EmptyStorage.keyToSlot = <<>>
      /\ EmptyStorage.ordered = <<>> /\ EmptyStorage.buckets = <<>>
  BY DEF EmptyStorage, Parts
<1>2. 1..Len(EmptyStorage.slots) = {} /\ <<>> \in Seq(SlotEntry) /\ DOMAIN <<>> = {}
  BY <1>1, EmptySeq
<1>3. [s \in 1..Len(EmptyStorage.slots) |-> EmptyStorage.slots[s].row] = <<>>
  BY <1>2
<1>4. IsStorage(EmptyStorage)
  <2>1. \A f \in Fields : [s \in 1..Len(EmptyStorage.slots) |-> EmptyStorage.slots[s].row[f]] = <<>>
    BY <1>2
  <2> QED
    BY <1>1, <1>2, <2>1 DEF IsStorage
<1>5. Indexed(EmptyStorage, {})
  BY <1>1, <1>2, <1>4 DEF Indexed, KeysDiffer, OrdersList, BucketsHold
<1>6. KeysLead(EmptyStorage, {})
  BY <1>1, <1>2 DEF KeysLead
<1> QED
  BY <1>2, <1>5, <1>6 DEF StorageInv

\* Every mutation and every query.
LEMMA StorageStep == StorageInv(storage) /\ [ScanNext]_storage => StorageInv(storage')
<1> SUFFICES ASSUME StorageInv(storage), [ScanNext]_storage PROVE StorageInv(storage')
  OBVIOUS
<1>1. ASSUME NEW key \in RowKeys, Delete(key) PROVE StorageInv(storage')
  BY <1>1, DeleteKeeps DEF Delete
<1>2. ASSUME NEW key \in RowKeys, NEW row \in StoredRows, Publish(key, row)
      PROVE  StorageInv(storage')
  BY <1>2, SetKeeps DEF Publish
<1>3. ASSUME NEW key \in RowKeys, NEW row \in StoredRows, Patch(key, row)
      PROVE  StorageInv(storage')
  BY <1>3, SetKeeps DEF Patch
<1>4. ASSUME NEW batch \in Batches, PublishMany(batch) PROVE StorageInv(storage')
  BY <1>4, SetManyKeeps DEF PublishMany
<1>5. ASSUME Clear PROVE StorageInv(storage')
  BY <1>5, EmptyIsIndexed DEF Clear
<1>6. ASSUME NEW plan \in Plans, Query(plan) PROVE StorageInv(storage')
  BY <1>6, ScanKeeps DEF Query
<1>7. ASSUME UNCHANGED storage PROVE StorageInv(storage')
  BY <1>7
<1> QED
  BY <1>1, <1>2, <1>3, <1>4, <1>5, <1>6, <1>7 DEF ScanNext, Mutation

\* The invariant says what the property asks for.
LEMMA IndexedMatches == StorageInv(storage) => IndexesMatchRows
<1> SUFFICES ASSUME StorageInv(storage) PROVE IndexesMatchRows
  OBVIOUS
<1> DEFINE n == Len(storage.slots)
           S == 1..n
           key(s) == storage.slots[s].key
           keys == storage.keyToSlot
           leads == [k \in {key(s) : s \in S} |-> CHOOSE s \in S : key(s) = k]
<1>1. /\ IsStorage(storage) /\ KeysDiffer(storage.slots, S) /\ KeysLead(storage, S)
      /\ OrdersList(storage, DOMAIN storage.ordered, S) /\ BucketsHold(storage, S)
      /\ n \in Nat /\ storage.slots \in Seq(SlotEntry)
  BY LenProperties DEF StorageInv, Indexed, IsStorage
<1>2. \A f \in Fields : storage.columns[f] = [s \in S |-> storage.slots[s].row[f]]
  BY <1>1 DEF IsStorage
<1>3. /\ keys = [k \in DOMAIN keys |-> keys[k]] /\ DOMAIN keys = {key(s) : s \in S}
      /\ \A s \in S : keys[key(s)] = s
      /\ \A l, r \in S : key(l) = key(r) => l = r
  BY <1>1 DEF KeysLead, KeysDiffer
<1>4. keys = leads
  <2> HIDE DEF key, keys, S
  <2>1. ASSUME NEW k \in DOMAIN keys PROVE keys[k] = leads[k]
    <3>1. PICK s \in S : key(s) = k
      BY <1>3
    <3>2. (CHOOSE r \in S : key(r) = k) = s
      BY <1>3, <3>1
    <3> QED
      BY <1>3, <3>1, <3>2
  <2>2. DOMAIN leads = DOMAIN keys /\ leads = [k \in DOMAIN leads |-> leads[k]]
    BY <1>3
  <2> HIDE DEF leads
  <2> QED
    BY <1>3, <2>1, <2>2
<1>5. Cardinality(Stored(storage)) = n
  <2> DEFINE f == [s \in S |-> key(s)]
             K == Stored(storage)
  <2>1. K = {key(s) : s \in S}
    BY <1>3 DEF Stored
  <2> HIDE DEF key, K
  <2>2. f \in Bijection(S, K)
    BY <1>3, <2>1 DEF Bijection, Injection, Surjection, IsInjective
  <2>3. ExistsBijection(1..n, K)
    BY <2>2 DEF ExistsBijection
  <2> QED
    BY <1>1, <2>3, FS_CountingElements DEF K
<1>6. ASSUME NEW o \in DOMAIN storage.ordered
      PROVE  LET index == storage.ordered[o]
             IN  /\ Len(index) = n /\ ToSet(index) = S
                 /\ \A i \in 1..(n - 1) : Precedes(storage, <<o>>, index[i], index[i + 1])
  <2> DEFINE q == storage.ordered[o]
  <2>1. Listed(q, storage.slots, o, S) /\ o \in Orders
    BY <1>1 DEF OrdersList, IsStorage
  <2> HIDE DEF q
  <2>2. Len(q) = n
    <3>1. n <= Len(storage.slots)
      BY <1>1
    <3> QED
      BY <1>1, <2>1, <3>1, ListedLength
  <2>3. /\ q \in Seq(S) /\ DOMAIN q = S /\ \A i \in S : q[i] \in S
        /\ \A s \in S : \E i \in S : q[i] = s
        /\ \A i, j \in S : i < j => Ahead(storage.slots, o, q[i], q[j])
    <3>1. /\ q \in Seq(S)
          /\ \A s \in S : \E i \in 1..Len(q) : q[i] = s
          /\ \A i, j \in 1..Len(q) : i < j => Ahead(storage.slots, o, q[i], q[j])
      BY <2>1 DEF Listed
    <3>2. DOMAIN q = S /\ \A i \in S : q[i] \in S
      <4> HIDE DEF n
      <4> QED
        BY <2>2, <3>1, LenProperties, ElementOfSeq
    <3> HIDE DEF n
    <3> QED
      BY <2>2, <3>1, <3>2
  <2>4. ToSet(q) = S
    <3> HIDE DEF S
    <3> QED
      BY <2>3 DEF ToSet
  <2>5. ASSUME NEW i \in 1..(n - 1) PROVE Precedes(storage, <<o>>, q[i], q[i + 1])
    <3>1. i \in S /\ i + 1 \in S /\ i < i + 1
      BY <1>1
    <3>2. Ahead(storage.slots, o, q[i], q[i + 1]) /\ q[i] \in 1..Len(storage.slots)
          /\ q[i + 1] \in 1..Len(storage.slots)
      BY <2>3, <3>1
    <3> QED
      BY <1>1, <2>1, <3>2, PrecedesIsAhead
  <2> QED
    BY <2>2, <2>4, <2>5 DEF q
<1>7. ASSUME NEW b \in DOMAIN storage.buckets
      PROVE  storage.buckets[b] = {s \in S : InBucket(storage, b, s)}
  <2>1. storage.buckets[b] = Held(storage.slots, b, S)
    BY <1>1 DEF BucketsHold
  <2>2. \A s \in S : InBucket(storage, b, s) <=>
                       storage.slots[s].row[b.field] = b.value /\ b.value # MissingValue
    BY <1>1, BucketOfRow
  <2> QED
    BY <2>1, <2>2 DEF Held
<1> QED
  BY <1>2, <1>4, <1>5, <1>6, <1>7 DEF IndexesMatchRows

\* The invariant of the storage that is kept.
IndexInv == StorageInv(storage)

\* The invariant of the storage is inductive: it holds whatever is published, patched,
\* deleted and asked for.
THEOREM IndexesInductive == ScanSpec => []IndexInv
<1>1. StorageInit => IndexInv
  BY EmptyIsIndexed DEF StorageInit, IndexInv
<1>2. IndexInv /\ [ScanNext]_storage => IndexInv'
  BY StorageStep DEF IndexInv
<1> QED
  BY <1>1, <1>2, PTL DEF ScanSpec

\* Columns, keys, ordered indexes and buckets always say what the rows say.
THEOREM IndexesAgree == ScanSpec => []IndexesMatchRows
<1>1. IndexInv => IndexesMatchRows
  BY IndexedMatches DEF IndexInv
<1> QED
  BY <1>1, IndexesInductive, PTL

\* Whatever was published before, and whatever indexes, buckets and columns a query is read
\* from, it answers what filtering and sorting all rows does.
THEOREM ScansRefer == ScanSpec => []ScanIsReference
<1>1. IndexInv => ScanIsReference
  <2> SUFFICES ASSUME StorageInv(storage) PROVE ScanIsReference
    BY DEF IndexInv
  <2>1. ASSUME NEW plan \in Plans
        PROVE  LET accepted == {e \in ToSet(storage.slots) : Accepts(plan, e.row)}
                   before   == {p \in accepted \X accepted : RowPrecedes(plan.orderBy, p[1], p[2])}
               IN  Answers(plan, Scan(storage, plan), Ordered(accepted, before))
    BY ScanRefers
  <2> QED
    BY <2>1 DEF ScanIsReference
<1> QED
  BY <1>1, IndexesInductive, PTL
-------------------------------------------------------------------------------
(* Predicates.  Where a field has a typed column, its values are of its kind; *)
(* so a filter on the column and the operator it was planned from are asked  *)
(* of the same value, and differ at most where the filter does not decide    *)
(* alone.                                                                   *)

\* Values that a field can hold.
Fits(field, v) == v \in Values /\ v.kind \in KindsOf(field)

\* What is missing has a kind of its own.
LEMMA UndefinedKind == Undefined.kind = "undefined"
BY DEF Undefined, Of

\* A column has the values of its field as they are.
LEMMA ColumnHolds ==
  ASSUME NEW field, NEW v, Fits(field, v)
  PROVE  /\ Column(field) \in {"generic", v.kind}
         /\ Read(field, v) = v
<1>1. CASE field \in {{k} : k \in Numeric \union {"string"}}
  <2>1. PICK k \in Numeric \union {"string"} : field = {k}
    BY <1>1
  <2>2. Column(field) = k
    BY <1>1, <2>1 DEF Column
  <2>3. v.kind = k
    BY <2>1 DEF Fits, KindsOf, Numeric
  <2> QED
    BY <2>2, <2>3 DEF Read
<1>2. CASE field \notin {{k} : k \in Numeric \union {"string"}}
  BY <1>2 DEF Column, Read
<1> QED
  BY <1>1, <1>2

\* Where a field can have an object, only equalities are planned.
LEMMA ObjectsAreNotPlanned ==
  ASSUME NEW field, NEW clause, WellFormed(clause), Supported(field, clause),
         NEW v, Fits(field, v), v.kind = "object",
         NEW op \in PlannedOperators(field, clause)
  PROVE  op \in {"is", "eq", "in"}
<1>1. ~IsObject(field) /\ op \in DOMAIN clause /\ op \in Operators /\ Planned(field, op, clause[op])
  BY DEF PlannedOperators, WellFormed
<1>2. ~IsNumeric(field) /\ ~IsString(field)
  BY DEF Fits, IsNumeric, IsString, KindsOf, Numeric
<1>3. op # "startsWith" /\ op \notin RangeOperators
  BY <1>1, <1>2 DEF Supported, Has
<1>4. op # "neq"
  <2> SUFFICES ASSUME op = "neq" PROVE FALSE
    OBVIOUS
  <2>1. \A x \in clause[op] : IsNotEqualValue(field, x)
    BY <1>1 DEF Planned, RangeOperators
  <2>2. PICK x \in Values : clause[op] = {x}
    BY <1>1 DEF WellFormed
  <2> QED
    BY <1>2, <2>1, <2>2 DEF IsNotEqualValue
<1> QED
  BY <1>1, <1>3, <1>4 DEF Operators

\* What is planned has operands, and equalities are with scalars.
LEMMA ScalarsAreThere ==
  ASSUME NEW field, NEW clause, WellFormed(clause),
         NEW op \in PlannedOperators(field, clause)
  PROVE  /\ op \in {"is", "eq", "in"} => \A x \in clause[op] : x.kind \notin {"undefined", "object"}
         /\ clause[op] # {Undefined}
<1>1. op \in DOMAIN clause /\ op \in Operators /\ Planned(field, op, clause[op])
  BY DEF PlannedOperators, WellFormed
<1>2. Undefined.kind = "undefined"
  BY DEF Undefined, Of
<1>3. CASE op \in {"is", "eq", "in"}
  BY <1>1, <1>2, <1>3 DEF Planned, IsScalar, RangeOperators
<1>4. CASE op = "neq"
  BY <1>1, <1>2, <1>4 DEF Planned, IsNotEqualValue, IsScalar, RangeOperators
<1>5. CASE op = "startsWith"
  BY <1>1, <1>2, <1>5 DEF Planned, RangeOperators
<1>6. CASE op \in RangeOperators
  <2>1. \A x \in clause[op] : IsRangeValue(field, x)
    BY <1>1, <1>6 DEF Planned, RangeOperators
  <2>2. \A x \in clause[op] : x.kind # "undefined"
    BY <2>1 DEF IsRangeValue, IsRangeComparable, Numeric
  <2> QED
    BY <1>2, <1>6, <2>2 DEF RangeOperators
<1> QED
  BY <1>1, <1>3, <1>4, <1>5, <1>6 DEF Operators

\* What an operator accepts passes its filter when the filter does not decide alone.
LEMMA OperatorIsLenient ==
  ASSUME NEW field, NEW clause, WellFormed(clause),
         NEW op \in PlannedOperators(field, clause), op # "is",
         NEW v, MatchesOperator(op, clause[op], v)
  PROVE  PassesFilter(field, op, clause[op], v, FALSE)
<1>1. op \in DOMAIN clause /\ op \in Operators
  BY DEF PlannedOperators, WellFormed
<1>2. CASE op = "eq"
  BY <1>2 DEF MatchesOperator, PassesFilter, RangeOperators
<1>3. CASE op = "in"
  BY <1>3, ScalarsAreThere DEF MatchesOperator, PassesFilter, RangeOperators
<1>4. CASE op = "neq"
  BY <1>4 DEF MatchesOperator, PassesFilter, RangeOperators
<1>5. CASE op = "startsWith"
  BY <1>5 DEF MatchesOperator, PassesFilter, RangeOperators
<1>6. CASE op \in RangeOperators
  BY <1>6 DEF MatchesOperator, PassesFilter, RangeOperators
<1> QED
  BY <1>1, <1>2, <1>3, <1>4, <1>5, <1>6 DEF Operators

\* A filter that decides alone accepts exactly what its operator does.
LEMMA OperatorIsExact ==
  ASSUME NEW field, NEW clause, WellFormed(clause), Supported(field, clause),
         NEW op \in PlannedOperators(field, clause), op # "is",
         NEW v, Fits(field, v), v.kind # "object"
  PROVE  PassesFilter(field, op, clause[op], v, TRUE) <=> MatchesOperator(op, clause[op], v)
<1>1. op \in DOMAIN clause /\ op \in Operators /\ Planned(field, op, clause[op])
  BY DEF PlannedOperators, WellFormed
<1>2. CASE op = "eq"
  BY <1>2 DEF MatchesOperator, PassesFilter, RangeOperators
<1>3. CASE op = "in"
  <2>1. Undefined \notin clause[op]
    BY <1>3, ScalarsAreThere, UndefinedKind
  <2> QED
    BY <1>3, <2>1, ScalarsAreThere DEF MatchesOperator, PassesFilter, RangeOperators
<1>4. CASE op = "neq"
  <2> SUFFICES ASSUME NEW x \in clause[op], v # x
               PROVE  (IF Column(field) = x.kind THEN v # Undefined ELSE EqualityComparable(v, x))
                        <=> EqualityComparable(v, x)
    BY <1>4 DEF MatchesOperator, PassesFilter, RangeOperators
  <2>1. IsScalar(x)
    BY <1>1, <1>4 DEF Planned, IsNotEqualValue, RangeOperators
  <2>2. CASE Column(field) = x.kind
    <3>1. x.kind \in Numeric \union {"string"}
      BY <1>1, <1>4 DEF Planned, IsNotEqualValue, IsRangeValue, IsRangeComparable, RangeOperators
    <3>2. v.kind = x.kind
      BY <2>2, <3>1, ColumnHolds DEF Numeric
    <3>3. v # Undefined
      BY <3>1, <3>2, UndefinedKind DEF Numeric
    <3>4. EqualityComparable(v, x)
      BY <2>1, <3>2 DEF EqualityComparable, IsScalar
    <3> QED
      BY <2>2, <3>3, <3>4
  <2> QED
    BY <2>2
<1>5. CASE op = "startsWith"
  BY <1>5 DEF MatchesOperator, PassesFilter, RangeOperators
<1>6. CASE op \in RangeOperators
  <2>1. \A x \in clause[op] : IsRangeComparable(x)
    BY <1>1, <1>6 DEF Planned, IsRangeValue, RangeOperators
  <2>2. ~InDirection(op, Incomparable)
    <3>1. op = "gt" \/ op = "gte" \/ op = "lt" \/ op = "lte"
      BY <1>6 DEF RangeOperators
    <3>2. Incomparable # 1 /\ Incomparable # 0 /\ Incomparable # -1
      BY DEF Incomparable
    <3>3. Incomparable \notin {0, 1} /\ Incomparable \notin {-1, 0}
      BY <3>2
    <3> QED
      BY <3>1, <3>2, <3>3 DEF InDirection
  <2>3. MatchesOperator(op, clause[op], v) <=> \A x \in clause[op] : InDirection(op, CompareFilter(v, x))
    BY <1>6 DEF MatchesOperator, RangeOperators
  <2>4. PassesFilter(field, op, clause[op], v, TRUE) <=>
          \A x \in clause[op] : IF TRUE /\ ~IsRangeComparable(x) THEN TRUE
            ELSE IF CompareFilter(v, x) = Incomparable THEN ~TRUE
            ELSE InDirection(op, CompareFilter(v, x))
    BY <1>6 DEF PassesFilter, RangeOperators
  <2> QED
    BY <2>1, <2>2, <2>3, <2>4
<1> QED
  BY <1>1, <1>2, <1>3, <1>4, <1>5, <1>6 DEF Operators

\* A row's value is decided alike by the plan and by the clause.
LEMMA PlanDecides ==
  ASSUME NEW field, NEW clause, WellFormed(clause), Supported(field, clause),
         NEW v, Fits(field, v),
         NEW exact \in {FALSE, CallbackSkippable(field, clause)}
  PROVE  Selects(field, clause, v, exact) <=> Matches(clause, v)
<1>1. Read(field, v) = v
  BY ColumnHolds
<1>2. exact \in BOOLEAN
  BY DEF CallbackSkippable
<1>3. ASSUME ~exact, Matches(clause, v), NEW op \in PlannedOperators(field, clause)
      PROVE  PassesFilter(field, op, clause[op], v, FALSE)
  <2>1. op \in DOMAIN clause /\ op \in Operators
    BY DEF PlannedOperators, WellFormed
  <2>2. CASE op = "is"
    BY <1>3, <2>1, <2>2 DEF WellFormed, Matches, Has, PassesFilter, RangeOperators
  <2>3. CASE op # "is"
    <3>1. DOMAIN clause # {} /\ ~Has(clause, "is")
      BY <2>1, <2>3 DEF WellFormed, Has
    <3>2. MatchesOperator(op, clause[op], v)
      <4>1. CASE v.kind = "object"
        <5>1. MatchesObject(clause, v)
          BY <1>3, <3>1, <4>1 DEF Matches
        <5>2. op \in {"eq", "in"}
          BY <2>3, <4>1, ObjectsAreNotPlanned
        <5> QED
          BY <2>1, <5>1, <5>2, ScalarsAreThere DEF MatchesObject
      <4>2. CASE v.kind # "object"
        BY <1>3, <2>1, <3>1, <4>2 DEF Matches, MatchesScalar
      <4> QED
        BY <4>1, <4>2
    <3> QED
      BY <2>3, <3>2, OperatorIsLenient
  <2> QED
    BY <2>2, <2>3
<1>4. CASE ~exact
  BY <1>1, <1>2, <1>3, <1>4 DEF Selects, PassesPlan
<1>5. CASE exact
  <2>1. PlannedOperators(field, clause) = DOMAIN clause
    BY <1>5 DEF CallbackSkippable
  <2>2. Selects(field, clause, v, exact) <=>
          \A op \in DOMAIN clause : PassesFilter(field, op, clause[op], v, TRUE)
    BY <1>1, <1>2, <1>5, <2>1 DEF Selects, PassesPlan
  <2>3. CASE DOMAIN clause = {}
    BY <2>2, <2>3 DEF Matches
  <2>4. CASE "is" \in DOMAIN clause
    <3>1. DOMAIN clause = {"is"}
      BY <2>4 DEF WellFormed
    <3>2. PassesFilter(field, "is", clause["is"], v, TRUE) <=> v \in clause["is"]
      BY DEF PassesFilter, RangeOperators
    <3>3. Undefined \notin clause["is"]
      BY <2>1, <2>4, ScalarsAreThere, UndefinedKind
    <3>4. Matches(clause, v) <=> v # Undefined /\ v \in clause["is"]
      BY <2>4 DEF Matches, Has
    <3> QED
      BY <2>2, <3>1, <3>2, <3>3, <3>4
  <2>5. CASE DOMAIN clause # {} /\ "is" \notin DOMAIN clause /\ v.kind = "object"
    <3>1. DOMAIN clause \subseteq {"eq", "in"}
      BY <2>1, <2>5, ObjectsAreNotPlanned
    <3>2. \A op \in DOMAIN clause : v \notin clause[op] /\ clause[op] # {Undefined}
      BY <2>1, <2>5, <3>1, ScalarsAreThere
    <3>3. \A op \in DOMAIN clause : ~PassesFilter(field, op, clause[op], v, TRUE)
      BY <3>1, <3>2 DEF PassesFilter, RangeOperators
    <3>4. \A op \in DOMAIN clause : ~MatchesOperator(op, clause[op], v)
      BY <3>1, <3>2 DEF MatchesOperator, RangeOperators
    <3>5. ~MatchesObject(clause, v)
      BY <2>5, <3>1, <3>2, <3>4 DEF MatchesObject
    <3>6. ~Matches(clause, v)
      BY <2>5, <3>5 DEF Matches, Has
    <3> QED
      BY <2>2, <2>5, <3>3, <3>6
  <2>6. CASE DOMAIN clause # {} /\ "is" \notin DOMAIN clause /\ v.kind # "object"
    <3>1. \A op \in DOMAIN clause :
            PassesFilter(field, op, clause[op], v, TRUE) <=> MatchesOperator(op, clause[op], v)
      BY <2>1, <2>6, OperatorIsExact
    <3>2. \A op \in DOMAIN clause : clause[op] # {Undefined}
      BY <2>1, ScalarsAreThere
    <3>3. Matches(clause, v) <=> MatchesScalar(clause, v)
      BY <2>6 DEF Matches, Has
    <3> QED
      BY <2>2, <3>1, <3>2, <3>3 DEF MatchesScalar
  <2> QED
    BY <2>3, <2>4, <2>5, <2>6
<1> QED
  BY <1>2, <1>4, <1>5

-------------------------------------------------------------------------------

\* Every value has its place among the texts.
LEMMA TextIs == \A v \in Values : Text(v) \in 1..19 /\ ByText[Text(v)] = v
<1>1. DOMAIN ByText = 1..19
  BY DEF ByText
<1> QED
  BY <1>1 DEF Values, ToSet, Text

\* The kinds of the values, in the order of their texts.
LEMMA KindsListed ==
  /\ ByText[1].kind = "bigDecimal"
  /\ ByText[2].kind = "bigDecimal"
  /\ ByText[3].kind = "bigint"
  /\ ByText[4].kind = "bigint"
  /\ ByText[5].kind = "boolean"
  /\ ByText[6].kind = "boolean"
  /\ ByText[7].kind = "null"
  /\ ByText[8].kind = "number"
  /\ ByText[9].kind = "number"
  /\ ByText[10].kind = "number"
  /\ ByText[11].kind = "number"
  /\ ByText[12].kind = "number"
  /\ ByText[13].kind = "number"
  /\ ByText[14].kind = "number"
  /\ ByText[15].kind = "object"
  /\ ByText[16].kind = "string"
  /\ ByText[17].kind = "string"
  /\ ByText[18].kind = "string"
  /\ ByText[19].kind = "undefined"
BY DEF ByText, Of

\* The names of the finite numbers, and that other values do not have them.
LEMMA NamesListed ==
  /\ ByText[8] = NegativeZero
  /\ ByText[9].name = "-1"
  /\ ByText[10].name = "-Infinity"
  /\ ByText[11].name = "0"
  /\ ByText[12].name = "1"
  /\ ByText[13].name = "Infinity"
  /\ ByText[14].name = "NaN"
BY DEF ByText, Of, NegativeZero

\* No big decimal, bigint or string has the name of a number of another size.
LEMMA OtherNames ==
  /\ ByText[1].name \notin {"-1", "-0", "0"}
  /\ ByText[2].name \notin {"-1", "-0", "0"}
  /\ ByText[3].name \notin {"-1", "-0", "0"}
  /\ ByText[4].name \notin {"-1", "-0", "0"}
  /\ ByText[16].name \notin {"-1", "-0", "0"}
  /\ ByText[17].name \notin {"-1", "-0", "0"}
  /\ ByText[18].name \notin {"-1", "-0", "0"}
BY DEF ByText, Of

\* The places there are.
Position(i) ==
  \/ i = 1 \/ i = 2 \/ i = 3 \/ i = 4 \/ i = 5 \/ i = 6 \/ i = 7 \/ i = 8 \/ i = 9 \/ i = 10
  \/ i = 11 \/ i = 12 \/ i = 13 \/ i = 14 \/ i = 15 \/ i = 16 \/ i = 17 \/ i = 18 \/ i = 19

\* A value is one of those listed.
LEMMA ValuePlace ==
  ASSUME NEW v \in Values
  PROVE  \E i \in 1..19 : /\ Text(v) = i /\ Position(i)
                         /\ v.kind = ByText[i].kind /\ v.name = ByText[i].name /\ v = ByText[i]
<1>1. \A i \in 1..19 : Position(i)
  BY DEF Position
<1>2. Text(v) \in 1..19 /\ ByText[Text(v)] = v
  BY TextIs
<1>3. v.kind = ByText[Text(v)].kind /\ v.name = ByText[Text(v)].name
  BY <1>2
<1> QED
  BY <1>1, <1>2, <1>3

\* The kinds of values.
LEMMA KindsKnown ==
  ASSUME NEW v \in Values
  PROVE  v.kind \in {"bigDecimal", "bigint", "boolean", "null", "number", "object", "string", "undefined"}
<1>1. PICK i \in 1..19 : /\ Text(v) = i /\ Position(i)
                       /\ v.kind = ByText[i].kind /\ v.name = ByText[i].name /\ v = ByText[i]
  BY ValuePlace
<1> QED
  BY <1>1, KindsListed DEF Position

\* Finite numbers that are not -0 are -1, 0 and 1.
LEMMA NumberSizes ==
  ASSUME NEW v \in Values, v.kind = "number", IsFinite(v), v # NegativeZero
  PROVE  \/ Text(v) = 9 /\ Size(v) = -1
         \/ Text(v) = 11 /\ Size(v) = 0
         \/ Text(v) = 12 /\ Size(v) = 12
<1>1. PICK i \in 1..19 : /\ Text(v) = i /\ Position(i)
                       /\ v.kind = ByText[i].kind /\ v.name = ByText[i].name /\ v = ByText[i]
  BY ValuePlace
<1>2. i = 8 \/ i = 9 \/ i = 10 \/ i = 11 \/ i = 12 \/ i = 13 \/ i = 14
  BY <1>1, KindsListed DEF Position
<1>3. v.name # "-Infinity" /\ v.name # "Infinity" /\ v.name # "NaN"
  BY DEF IsFinite, NonFinite
<1>4. i = 9 \/ i = 11 \/ i = 12
  BY <1>1, <1>2, <1>3, NamesListed
<1>5. CASE i = 9
  BY <1>1, <1>5, NamesListed DEF Size
<1>6. CASE i = 11
  BY <1>1, <1>6, NamesListed DEF Size
<1>7. CASE i = 12
  BY <1>1, <1>7, NamesListed DEF Size
<1> QED
  BY <1>4, <1>5, <1>6, <1>7

\* All other values that are compared have the size of their text.
LEMMA TextSizes ==
  ASSUME NEW v \in Values, v.kind \in {"bigDecimal", "bigint", "string"}
  PROVE  Size(v) = Text(v)
<1>1. PICK i \in 1..19 : /\ Text(v) = i /\ Position(i)
                       /\ v.kind = ByText[i].kind /\ v.name = ByText[i].name /\ v = ByText[i]
  BY ValuePlace
<1>2. i = 1 \/ i = 2 \/ i = 3 \/ i = 4 \/ i = 16 \/ i = 17 \/ i = 18
  BY <1>1, KindsListed DEF Position
<1>3. v.name \notin {"-1", "-0", "0"}
  BY <1>1, <1>2, OtherNames
<1> QED
  BY <1>3 DEF Size

\* Negative zero aside, values of one kind are ordered by size as they are by text.
LEMMA SizesAreTexts ==
  ASSUME NEW v \in Values, NEW w \in Values, NegativeZero \notin {v, w},
         v.kind = w.kind, v.kind \in Numeric \union {"string"}, IsFinite(v), IsFinite(w)
  PROVE  Sign(Size(v), Size(w)) = Sign(Text(v), Text(w))
<1>1. CASE v.kind = "number"
  <2>1. v # NegativeZero /\ w # NegativeZero
    OBVIOUS
  <2>2. \/ Text(v) = 9 /\ Size(v) = -1
        \/ Text(v) = 11 /\ Size(v) = 0
        \/ Text(v) = 12 /\ Size(v) = 12
    BY <1>1, <2>1, NumberSizes
  <2>3. \/ Text(w) = 9 /\ Size(w) = -1
        \/ Text(w) = 11 /\ Size(w) = 0
        \/ Text(w) = 12 /\ Size(w) = 12
    BY <1>1, <2>1, NumberSizes
  <2> QED
    BY <2>2, <2>3 DEF Sign
<1>2. CASE v.kind # "number"
  BY <1>2, TextSizes DEF Numeric
<1> QED
  BY <1>1, <1>2

\* Every value has a rank.
LEMMA Ranked == ASSUME NEW v \in Values PROVE Rank(v) \in Int
BY KindsKnown DEF Rank, Numeric

\* Negative zero aside, values are ordered by rank and then by text.
LEMMA QueryOrder ==
  ASSUME NEW v \in Values, NEW w \in Values, NegativeZero \notin {v, w}
  PROVE  CompareQuery(v, w) = IF Rank(v) # Rank(w) THEN Sign(Rank(v), Rank(w))
                              ELSE Sign(Text(v), Text(w))
BY SizesAreTexts DEF CompareQuery, CompareFilter

\* A column compares its values as queries compare them.
LEMMA ColumnCompares ==
  ASSUME NEW field, NEW v, NEW w, Fits(field, v), Fits(field, w)
  PROVE  CompareColumn(field, Read(field, v), Read(field, w)) = CompareQuery(v, w)
<1>1. Read(field, v) = v /\ Read(field, w) = w /\ Column(field) \in {"generic", v.kind}
  BY ColumnHolds
<1>2. CASE Column(field) = v.kind /\ Column(field) = w.kind /\ IsFinite(v) /\ IsFinite(w)
  <2>1. v.kind # "generic"
    BY KindsKnown DEF Fits
  <2>2. v.kind \in Numeric \union {"string"}
    <3>1. CASE field \in {{k} : k \in Numeric \union {"string"}}
      BY <1>2, <3>1 DEF Column
    <3>2. CASE field \notin {{k} : k \in Numeric \union {"string"}}
      BY <1>2, <2>1, <3>2 DEF Column
    <3> QED
      BY <3>1, <3>2
  <2>3. Rank(v) = Rank(w)
    BY <1>2 DEF Rank
  <2>4. CompareFilter(v, w) = Sign(Size(v), Size(w))
    BY <1>2, <2>2 DEF CompareFilter
  <2>5. CompareFilter(v, w) # Incomparable
    BY <2>4 DEF Sign, Incomparable
  <2> QED
    BY <1>1, <1>2, <2>3, <2>4, <2>5 DEF CompareColumn, CompareQuery
<1>3. CASE ~(Column(field) = v.kind /\ Column(field) = w.kind /\ IsFinite(v) /\ IsFinite(w))
  BY <1>1, <1>3 DEF CompareColumn
<1> QED
  BY <1>2, <1>3

\* The question is a supported one and rows hold what its field can.
PredicateInv ==
  /\ asked \in Questions
  /\ Supported(asked.field, asked.clause)
  /\ DOMAIN cells \subseteq CellKeys
  /\ \A k \in DOMAIN cells : Fits(asked.field, cells[k])

\* Negative zero aside, the rows of a field have one order, ties in the order of keys.
LEMMA OneOrder ==
  ASSUME PredicateInv, NegativeZero \notin {cells[k] : k \in DOMAIN cells}
  PROVE  Linear(DOMAIN cells)
<1> DEFINE rank(a) == Rank(cells[a])
           text(a) == Text(cells[a])
<1>1. \A a \in DOMAIN cells : a \in Int /\ rank(a) \in Int /\ text(a) \in Int
  <2> SUFFICES ASSUME NEW a \in DOMAIN cells
               PROVE  a \in Int /\ rank(a) \in Int /\ text(a) \in Int
    OBVIOUS
  <2>1. a \in Int
    BY QuestionAssumption DEF PredicateInv
  <2>2. cells[a] \in Values
    BY DEF PredicateInv, Fits
  <2>3. Rank(cells[a]) \in Int /\ Text(cells[a]) \in 1..19
    BY <2>2, Ranked, TextIs
  <2> QED
    BY <2>1, <2>3
<1>2. \A a, b \in DOMAIN cells :
        RowBefore(a, b) <=> \/ rank(a) < rank(b)
                            \/ rank(a) = rank(b) /\ text(a) < text(b)
                            \/ rank(a) = rank(b) /\ text(a) = text(b) /\ a < b
  <2> SUFFICES ASSUME NEW a \in DOMAIN cells, NEW b \in DOMAIN cells
               PROVE  RowBefore(a, b) <=> \/ rank(a) < rank(b)
                                          \/ rank(a) = rank(b) /\ text(a) < text(b)
                                          \/ rank(a) = rank(b) /\ text(a) = text(b) /\ a < b
    OBVIOUS
  <2> DEFINE compared == CompareColumn(asked.field, Read(asked.field, cells[a]),
                                       Read(asked.field, cells[b]))
  <2>1. Fits(asked.field, cells[a]) /\ Fits(asked.field, cells[b])
    BY DEF PredicateInv
  <2>2. compared = IF rank(a) # rank(b) THEN Sign(rank(a), rank(b)) ELSE Sign(text(a), text(b))
    BY <2>1, ColumnCompares, QueryOrder DEF Fits
  <2>3. RowBefore(a, b) <=> compared = -1 \/ (compared = 0 /\ a < b)
    BY DEF RowBefore
  <2> HIDE DEF compared, rank, text
  <2> QED
    BY <1>1, <2>2, <2>3 DEF Sign
<1> HIDE DEF rank, text
<1> QED
  BY <1>1, <1>2 DEF Linear

\* Rows are stored with values that their field can hold, for any question and keys.
THEOREM PredicatesInductive == PredicateSpec => []PredicateInv
<1>1. PredicateInit => PredicateInv
  BY DEF PredicateInit, PredicateInv
<1>2. PredicateInv /\ [PredicateNext]_predicateVars => PredicateInv'
  <2> SUFFICES ASSUME PredicateInv, [PredicateNext]_predicateVars
               PROVE  PredicateInv'
    OBVIOUS
  <2>1. ASSUME NEW k \in CellKeys, NEW v \in Values, PutCell(k, v)
        PROVE  PredicateInv'
    BY <2>1 DEF PutCell, PredicateInv, Fits
  <2>2. CASE UNCHANGED predicateVars
    BY <2>2 DEF predicateVars, PredicateInv
  <2> QED
    BY <2>1, <2>2 DEF PredicateNext
<1> QED
  BY <1>1, <1>2, PTL DEF PredicateSpec

\* What the storage decides and orders by its columns is what queries say, for every
\* well-formed clause of every kind of field, and any number of rows.
THEOREM StorageDecides == PredicateSpec => []StorageDecidesAsQueries
<1>1. PredicateInv => StorageDecidesAsQueries
  <2> SUFFICES ASSUME PredicateInv PROVE StorageDecidesAsQueries
    OBVIOUS
  <2>1. ASSUME NEW k \in DOMAIN cells,
               NEW exact \in {FALSE, CallbackSkippable(asked.field, asked.clause)}
        PROVE  Selects(asked.field, asked.clause, cells[k], exact) <=> Matches(asked.clause, cells[k])
    BY <2>1, PlanDecides, QuestionAssumption DEF PredicateInv
  <2>2. ASSUME NEW a \in DOMAIN cells, NEW b \in DOMAIN cells
        PROVE  CompareColumn(asked.field, Read(asked.field, cells[a]), Read(asked.field, cells[b]))
                 = CompareQuery(cells[a], cells[b])
    BY <2>2, ColumnCompares DEF PredicateInv
  <2> QED
    BY <2>1, <2>2, OneOrder DEF StorageDecidesAsQueries
<1> QED
  BY <1>1, PredicatesInductive, PTL
===============================================================================
