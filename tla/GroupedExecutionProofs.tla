----------------------- MODULE GroupedExecutionProofs ------------------------
(***************************************************************************)
(* What a grouped execution keeps and shows, for any rows, queries,         *)
(* admission limits and number of leases: the groups it keeps, brought up   *)
(* to date change by change from the row change journal, are those of the  *)
(* rows it has seen; what it shows are those groups with their aggregates,  *)
(* in order and within offset and limit; and it holds a reference to the    *)
(* journal exactly while it uses it.                                       *)
(*                                                                         *)
(* First sums, groups and what an operation of the execution does to them;  *)
(* then folds, scans and updates; then the journal and the history of rows  *)
(* it leads through; then results; last the invariant and the theorems.     *)
(***************************************************************************)
EXTENDS GroupedExecution, RowChangeJournalProofs, FiniteSetTheorems, FunctionTheorems, TLAPS
-------------------------------------------------------------------------------
(* Finite sets, element by element. *)

\* What holds of the empty set, and of a set when it holds without any one of its elements,
\* holds of every subset.
LEMMA SubsetInduction ==
  ASSUME NEW S, IsFiniteSet(S), NEW P, {} \in P,
         \A t \in SUBSET S : t # {} /\ (\A x \in t : t \ {x} \in P) => t \in P
  PROVE  \A t \in SUBSET S : t \in P
<1> SUFFICES ASSUME NEW u \in SUBSET S, u \notin P PROVE FALSE
  OBVIOUS
<1> DEFINE Sizes == {n \in Nat : \E t \in SUBSET S : t \notin P /\ Cardinality(t) = n}
<1>1. \A t \in SUBSET S : IsFiniteSet(t) /\ Cardinality(t) \in Nat
  BY FS_Subset, FS_CardinalityType
<1>2. Sizes \subseteq Nat /\ Sizes # {}
  BY <1>1
<1>3. PICK n \in Sizes : \A m \in Sizes : n <= m
  <2> HIDE DEF Sizes
  <2> QED
    BY <1>2, LeastNumber, Zenon
<1>4. PICK t \in SUBSET S : t \notin P /\ Cardinality(t) = n
  BY <1>3
<1>5. t # {}
  BY <1>4
<1>6. PICK x \in t : t \ {x} \notin P
  BY <1>4, <1>5
<1>7. t \ {x} \in SUBSET S /\ Cardinality(t \ {x}) = n - 1 /\ n \in Nat
  BY <1>1, <1>4, <1>6, FS_RemoveElement
<1>9. Cardinality(t \ {x}) \in Sizes
  BY <1>1, <1>6, <1>7
<1>10. n <= n - 1
  <2> HIDE DEF Sizes
  <2> QED
    BY <1>3, <1>7, <1>9
<1> QED
  BY <1>7, <1>10

-------------------------------------------------------------------------------
(* Sums. *)

\* F adds up the numbers of w over the subsets of S.
Adds(F, S, w) ==
  /\ F \in [SUBSET S -> Nat]
  /\ F[{}] = 0
  /\ \A t \in SUBSET S : \A x \in t : F[t] = w[x] + F[t \ {x}]

\* The numbers of a finite set can be added up.
LEMMA AddsExists ==
  ASSUME NEW S, IsFiniteSet(S), NEW w \in [S -> Nat]
  PROVE  \E F : Adds(F, S, w)
<1> DEFINE P == {t \in SUBSET S : \E F : Adds(F, t, w)}
<1>1. {} \in P
  <2> DEFINE F == [t \in SUBSET {} |-> 0]
  <2>1. Adds(F, {}, w)
    BY DEF Adds
  <2> QED
    BY <2>1
<1>2. ASSUME NEW t \in SUBSET S, t # {}, \A x \in t : t \ {x} \in P PROVE t \in P
  <2> PICK x \in t : TRUE
    BY <1>2
  <2> DEFINE r == t \ {x}
  <2>1. PICK G : Adds(G, r, w)
    BY <1>2
  <2> DEFINE F == [s \in SUBSET t |-> IF x \in s THEN w[x] + G[s \ {x}] ELSE G[s]]
  <2>2. w[x] \in Nat /\ \A s \in SUBSET r : G[s] \in Nat
    BY <2>1 DEF Adds
  <2>3. \A s \in SUBSET t : s \ {x} \in SUBSET r /\ (x \notin s => s \in SUBSET r)
    OBVIOUS
  <2>4. F \in [SUBSET t -> Nat]
    BY <2>2, <2>3
  <2>5. F[{}] = 0
    BY <2>1 DEF Adds
  <2>6. ASSUME NEW s \in SUBSET t, NEW y \in s PROVE F[s] = w[y] + F[s \ {y}]
    <3>1. w[y] \in Nat
      OBVIOUS
    <3>2. CASE x \notin s
      <4>1. s \in SUBSET r /\ F[s] = G[s] /\ F[s \ {y}] = G[s \ {y}]
        BY <3>2
      <4> QED
        BY <2>1, <4>1 DEF Adds
    <3>3. CASE y = x
      BY <3>3, <2>6
    <3>4. CASE x \in s /\ y # x
      <4> DEFINE q == s \ {x}
      <4>1. q \in SUBSET r /\ y \in q /\ (s \ {y}) \ {x} = q \ {y} /\ q \ {y} \in SUBSET r /\ x \in s \ {y}
        BY <3>4
      <4>2. G[q] = w[y] + G[q \ {y}]
        BY <2>1, <4>1 DEF Adds
      <4>3. F[s] = w[x] + G[q] /\ F[s \ {y}] = w[x] + G[q \ {y}]
        BY <3>4, <4>1
      <4>4. G[q] \in Nat /\ G[q \ {y}] \in Nat
        BY <2>2, <4>1
      <4> HIDE DEF F, q
      <4> QED
        BY <2>2, <3>1, <4>2, <4>3, <4>4
    <3> QED
      BY <3>2, <3>3, <3>4
  <2>7. Adds(F, t, w)
    <3> HIDE DEF F
    <3> QED
      BY <2>4, <2>5, <2>6 DEF Adds
  <2> QED
    BY <2>7
<1>3. S \in P
  <2> HIDE DEF P
  <2> QED
    BY <1>1, <1>2, SubsetInduction
<1> QED
  BY <1>3

\* Two sums agree on a set on which what they add up agrees.
LEMMA AddsAgree ==
  ASSUME NEW S, NEW w, NEW F, Adds(F, S, w), NEW T, NEW v, NEW G, Adds(G, T, v),
         NEW u, IsFiniteSet(u), u \subseteq S, u \subseteq T, \A x \in u : w[x] = v[x]
  PROVE  F[u] = G[u]
<1> DEFINE P == {t \in SUBSET u : F[t] = G[t]}
<1>1. {} \in P
  BY DEF Adds
<1>2. ASSUME NEW t \in SUBSET u, t # {}, \A x \in t : t \ {x} \in P PROVE t \in P
  <2> PICK x \in t : TRUE
    BY <1>2
  <2>1. F[t] = w[x] + F[t \ {x}] /\ G[t] = v[x] + G[t \ {x}]
    BY DEF Adds
  <2> QED
    BY <1>2, <2>1
<1>3. u \in P
  <2> HIDE DEF P
  <2>1. \A t \in SUBSET u : t \in P
    BY <1>1, <1>2, SubsetInduction, Zenon
  <2> QED
    BY <2>1
<1> QED
  BY <1>3

\* The values of the rows c has for the keys in S, added up.
SumOver(c, S) == MapThenSumSet(LAMBDA k : ValueOf[c[k]], S)

\* The sum is one.
LEMMA SumAdds ==
  ASSUME NEW S, IsFiniteSet(S), NEW c, \A k \in S : c[k] \in Rows
  PROVE  \E F : Adds(F, S, [k \in S |-> ValueOf[c[k]]]) /\ SumOver(c, S) = F[S]
<1> DEFINE w == [k \in S |-> ValueOf[c[k]]]
           one(s) == CHOOSE x \in s : TRUE
           sums(f) == f = [s \in SUBSET S |-> IF s = {} THEN 0 ELSE ValueOf[c[one(s)]] + f[s \ {one(s)}]]
           f == CHOOSE g : sums(g)
<1>1. SumOver(c, S) = f[S]
  BY DEF SumOver, MapThenSumSet, MapThenFoldSet
<1>2. w \in [S -> Nat]
  BY GroupedAssumption
<1>3. PICK F : Adds(F, S, w)
  BY <1>2, AddsExists
<1>4. \A s \in SUBSET S : s # {} => one(s) \in s /\ ValueOf[c[one(s)]] = w[one(s)]
  OBVIOUS
<1>5. sums(F)
  <2>1. ASSUME NEW s \in SUBSET S
        PROVE  F[s] = IF s = {} THEN 0 ELSE ValueOf[c[one(s)]] + F[s \ {one(s)}]
    BY <1>3, <1>4 DEF Adds
  <2>2. F = [s \in SUBSET S |-> F[s]]
    BY <1>3 DEF Adds
  <2> HIDE DEF one
  <2> QED
    BY <2>1, <2>2
<1>6. sums(f)
  <2> HIDE DEF sums
  <2> QED
    BY <1>5, Zenon
<1> HIDE DEF f
<1> DEFINE P == {s \in SUBSET S : f[s] = F[s]}
<1>7. {} \in P
  BY <1>3, <1>6 DEF Adds
<1>8. ASSUME NEW s \in SUBSET S, \A x \in s : s \ {x} \in P, s # {} PROVE s \in P
  <2>1. f[s] = w[one(s)] + f[s \ {one(s)}]
    BY <1>4, <1>6, <1>8
  <2>2. F[s] = w[one(s)] + F[s \ {one(s)}]
    BY <1>3, <1>4, <1>8 DEF Adds
  <2>3. f[s \ {one(s)}] = F[s \ {one(s)}]
    BY <1>4, <1>8
  <2> QED
    BY <2>1, <2>2, <2>3
<1>9. S \in P
  <2> HIDE DEF P
  <2>1. \A t \in SUBSET S : t \in P
    BY <1>7, <1>8, SubsetInduction, Zenon
  <2> QED
    BY <2>1
<1> QED
  BY <1>1, <1>3, <1>9

\* Nothing adds up to nothing.
LEMMA SumOfNone == ASSUME NEW c PROVE SumOver(c, {}) = 0
<1>1. PICK F : Adds(F, {}, [k \in {} |-> ValueOf[c[k]]]) /\ SumOver(c, {}) = F[{}]
  BY FS_EmptySet, SumAdds
<1> QED
  BY <1>1 DEF Adds

\* A sum is a number.
LEMMA SumIsNumber ==
  ASSUME NEW S, IsFiniteSet(S), NEW c, \A k \in S : c[k] \in Rows
  PROVE  SumOver(c, S) \in Nat
<1>1. PICK F : Adds(F, S, [k \in S |-> ValueOf[c[k]]]) /\ SumOver(c, S) = F[S]
  BY SumAdds
<1> QED
  BY <1>1 DEF Adds

\* One more key adds its value.
LEMMA SumOfMore ==
  ASSUME NEW S, IsFiniteSet(S), NEW x, x \notin S,
         NEW c, \A k \in S : c[k] \in Rows,
         NEW d, \A k \in S : d[k] = c[k], d[x] \in Rows
  PROVE  SumOver(d, S \union {x}) = SumOver(c, S) + ValueOf[d[x]]
<1> DEFINE T == S \union {x}
           w == [k \in S |-> ValueOf[c[k]]]
           v == [k \in T |-> ValueOf[d[k]]]
<1>1. IsFiniteSet(T) /\ \A k \in T : d[k] \in Rows
  BY FS_AddElement
<1>2. PICK F : Adds(F, S, w) /\ SumOver(c, S) = F[S]
  BY SumAdds
<1>3. PICK G : Adds(G, T, v) /\ SumOver(d, T) = G[T]
  BY <1>1, SumAdds
<1>4. S \subseteq T /\ T \ {x} = S /\ x \in T /\ v[x] = ValueOf[d[x]] /\ \A k \in S : w[k] = v[k]
  OBVIOUS
<1> HIDE DEF w, v, T
<1>5. F[S] = G[S]
  BY <1>2, <1>3, <1>4, AddsAgree
<1>6. G[T] = v[x] + G[T \ {x}]
  BY <1>3, <1>4 DEF Adds
<1>7. v[x] \in Nat
  BY <1>1, <1>4, GroupedAssumption
<1>8. F[S] \in Nat
  BY <1>2 DEF Adds
<1>9. G[T] = v[x] + G[S]
  BY <1>4, <1>6
<1>10. G[T] = F[S] + v[x]
  BY <1>5, <1>7, <1>8, <1>9
<1>11. SumOver(d, T) = SumOver(c, S) + ValueOf[d[x]]
  BY <1>2, <1>3, <1>4, <1>10
<1> QED
  BY <1>11 DEF T

\* Equal values have one sum.
LEMMA SumAlike ==
  ASSUME NEW S, IsFiniteSet(S), NEW c, NEW d,
         \A k \in S : c[k] \in Rows /\ d[k] \in Rows /\ ValueOf[c[k]] = ValueOf[d[k]]
  PROVE  SumOver(c, S) = SumOver(d, S)
<1> DEFINE w == [k \in S |-> ValueOf[c[k]]]
           v == [k \in S |-> ValueOf[d[k]]]
<1>2. PICK F : Adds(F, S, w) /\ SumOver(c, S) = F[S]
  BY SumAdds
<1>3. PICK G : Adds(G, S, v) /\ SumOver(d, S) = G[S]
  BY SumAdds
<1>4. \A k \in S : w[k] = v[k]
  OBVIOUS
<1> HIDE DEF w, v
<1>5. F[S] = G[S]
  BY <1>2, <1>3, <1>4, AddsAgree
<1> QED
  BY <1>2, <1>3, <1>5
-------------------------------------------------------------------------------
(* What a group keeps of its members m: their number, how often each value is *)
(* among them, and their aggregates.                                        *)

ValuesIn(m)  == {ValueOf[m[k]] : k \in DOMAIN m}
Copies(m, v) == {k \in DOMAIN m : ValueOf[m[k]] = v}

\* The group of the members m, with the members x listed and l for its minimum.
Tallied(x, m, l) ==
  [members |-> x, values |-> [v \in Amounts |-> Cardinality(Copies(m, v))],
   count |-> Cardinality(DOMAIN m), distinct |-> Cardinality(ValuesIn(m)),
   total |-> SumOver(m, DOMAIN m), least |-> l]

AreMembers(m) == IsFiniteSet(DOMAIN m) /\ m \in [DOMAIN m -> Rows]

\* What is kept of members is finite.
LEMMA TalliesAreFinite ==
  ASSUME NEW m, AreMembers(m)
  PROVE  /\ IsFiniteSet(ValuesIn(m)) /\ ValuesIn(m) \subseteq Amounts \intersect Nat
         /\ Cardinality(ValuesIn(m)) \in Nat /\ Cardinality(DOMAIN m) \in Nat
         /\ SumOver(m, DOMAIN m) \in Nat
         /\ \A v : /\ IsFiniteSet(Copies(m, v)) /\ Cardinality(Copies(m, v)) \in Nat
                   /\ Cardinality(Copies(m, v)) = 0 <=> v \notin ValuesIn(m)
<1>1. IsFiniteSet(DOMAIN m) /\ m \in [DOMAIN m -> Rows]
  BY DEF AreMembers
<1>2. IsFiniteSet(ValuesIn(m))
  <2> DEFINE f == [k \in DOMAIN m |-> ValueOf[m[k]]]
  <2>1. f \in [DOMAIN m -> ValuesIn(m)] /\ \A v \in ValuesIn(m) : \E k \in DOMAIN m : f[k] = v
    BY DEF ValuesIn
  <2> HIDE DEF f
  <2>2. f \in Surjection(DOMAIN m, ValuesIn(m))
    BY <2>1, Fun_IsSurj
  <2> QED
    BY <1>1, <2>2, FS_Surjection
<1>3. ValuesIn(m) \subseteq Amounts \intersect Nat
  BY <1>1, GroupedAssumption DEF ValuesIn, Amounts
<1>4. ASSUME NEW v
      PROVE  /\ IsFiniteSet(Copies(m, v)) /\ Cardinality(Copies(m, v)) \in Nat
             /\ Cardinality(Copies(m, v)) = 0 <=> v \notin ValuesIn(m)
  <2>1. Copies(m, v) \in SUBSET (DOMAIN m) /\ (Copies(m, v) = {} <=> v \notin ValuesIn(m))
    BY DEF Copies, ValuesIn
  <2>2. IsFiniteSet(Copies(m, v))
    BY <1>1, <2>1, FS_Subset
  <2> QED
    BY <2>1, <2>2, FS_EmptySet, FS_CardinalityType
<1>5. SumOver(m, DOMAIN m) \in Nat
  BY <1>1, SumIsNumber
<1> QED
  BY <1>1, <1>2, <1>3, <1>4, <1>5, FS_CardinalityType

\* The members n are the members m and one of value v.
OneMore(m, n, v) ==
  /\ Cardinality(DOMAIN n) = Cardinality(DOMAIN m) + 1
  /\ ValuesIn(n) = ValuesIn(m) \union {v}
  /\ \A u : Cardinality(Copies(n, u)) =
             IF u = v THEN Cardinality(Copies(m, u)) + 1 ELSE Cardinality(Copies(m, u))
  /\ Cardinality(ValuesIn(n)) =
        IF Cardinality(Copies(m, v)) = 0 THEN Cardinality(ValuesIn(m)) + 1
        ELSE Cardinality(ValuesIn(m))
  /\ SumOver(n, DOMAIN n) = SumOver(m, DOMAIN m) + v

\* One more member.
LEMMA MoreMembers ==
  ASSUME NEW m, AreMembers(m), NEW k, k \notin DOMAIN m, NEW r \in Rows
  PROVE  LET n == With(m, k, r)
         IN  /\ AreMembers(n) /\ DOMAIN n = DOMAIN m \union {k}
             /\ ValueOf[r] \in Nat /\ OneMore(m, n, ValueOf[r])
<1> DEFINE n == With(m, k, r)
           v == ValueOf[r]
<1>1. IsFiniteSet(DOMAIN m) /\ m \in [DOMAIN m -> Rows]
  BY DEF AreMembers
<1>2. DOMAIN n = DOMAIN m \union {k} /\ n[k] = r /\ \A l \in DOMAIN m : n[l] = m[l]
  BY DEF With
<1>3. n \in [DOMAIN n -> Rows]
  BY <1>1 DEF With
<1>5. v \in Nat
  BY GroupedAssumption
<1> HIDE DEF n
<1>6. IsFiniteSet(DOMAIN n) /\ Cardinality(DOMAIN n) = Cardinality(DOMAIN m) + 1
  BY <1>1, <1>2, FS_AddElement
<1>7. ValuesIn(n) = ValuesIn(m) \union {v}
  BY <1>2 DEF ValuesIn
<1>8. ASSUME NEW u
      PROVE  Cardinality(Copies(n, u)) =
               IF u = v THEN Cardinality(Copies(m, u)) + 1 ELSE Cardinality(Copies(m, u))
  <2>1. IsFiniteSet(Copies(m, u)) /\ k \notin Copies(m, u)
    BY TalliesAreFinite DEF Copies
  <2>2. Copies(n, u) = IF u = v THEN Copies(m, u) \union {k} ELSE Copies(m, u)
    BY <1>2 DEF Copies
  <2> QED
    BY <2>1, <2>2, FS_AddElement
<1>9. Cardinality(ValuesIn(n)) =
        IF Cardinality(Copies(m, v)) = 0 THEN Cardinality(ValuesIn(m)) + 1
        ELSE Cardinality(ValuesIn(m))
  <2>1. IsFiniteSet(ValuesIn(m)) /\ (Cardinality(Copies(m, v)) = 0 <=> v \notin ValuesIn(m))
    BY TalliesAreFinite
  <2>2. Cardinality(ValuesIn(m) \union {v}) =
          IF v \in ValuesIn(m) THEN Cardinality(ValuesIn(m)) ELSE Cardinality(ValuesIn(m)) + 1
    BY <2>1, FS_AddElement
  <2> QED
    BY <1>7, <2>1, <2>2
<1>10. SumOver(n, DOMAIN n) = SumOver(m, DOMAIN m) + v
  <2>1. \A l \in DOMAIN m : m[l] \in Rows
    BY <1>1
  <2> QED
    BY <1>1, <1>2, <2>1, SumOfMore
<1> QED
  BY <1>2, <1>3, <1>5, <1>6, <1>7, <1>8, <1>9, <1>10 DEF AreMembers, OneMore, n

\* l is the minimum of the members m, or -1 when there are none.
LeastOf(m, l) ==
  IF DOMAIN m = {} THEN l = -1 ELSE l \in ValuesIn(m) /\ \A v \in ValuesIn(m) : l <= v

\* What counting a value does to the parts of a group.
LEMMA AddFields ==
  ASSUME NEW x, NEW f, NEW c, NEW d, NEW t, NEW l, NEW v
  PROVE  AddValue([members |-> x, values |-> f, count |-> c, distinct |-> d, total |-> t,
                   least |-> l], v)
         = [members |-> x, values |-> [f EXCEPT ![v] = @ + 1], count |-> c + 1,
            distinct |-> IF f[v] = 0 THEN d + 1 ELSE d, total |-> t + v,
            least |-> IF l = -1 \/ v < l THEN v ELSE l]
<1> DEFINE g == [members |-> x, values |-> f, count |-> c, distinct |-> d, total |-> t, least |-> l]
           F == {"members", "values", "count", "distinct", "total", "least"}
<1>1. /\ g.members = x /\ g.values = f /\ g.count = c /\ g.distinct = d /\ g.total = t /\ g.least = l
      /\ DOMAIN g = F /\ g = [h \in F |-> g[h]]
  OBVIOUS
<1> HIDE DEF g
<1> DEFINE R == AddValue(g, v)
<1>2. /\ R.members = x /\ R.count = c + 1 /\ R.distinct = IF f[v] = 0 THEN d + 1 ELSE d
      /\ R.total = t + v /\ R.least = IF l = -1 \/ v < l THEN v ELSE l
  BY <1>1 DEF AddValue
<1>3. R.values = [f EXCEPT ![v] = @ + 1]
  BY <1>1 DEF AddValue
<1>4. DOMAIN R = F /\ R = [h \in F |-> R[h]]
  BY <1>1 DEF AddValue
<1> HIDE DEF R
<1> QED
  BY <1>2, <1>3, <1>4 DEF g, R

\* What undoing a value does to them.
LEMMA RemoveFields ==
  ASSUME NEW x, NEW f, NEW c, NEW d, NEW t, NEW l, NEW v
  PROVE  RemoveValue([members |-> x, values |-> f, count |-> c, distinct |-> d, total |-> t,
                      least |-> l], v)
         = [members |-> x, values |-> [f EXCEPT ![v] = @ - 1], count |-> c - 1,
            distinct |-> IF f[v] = 1 THEN d - 1 ELSE d, total |-> t - v, least |-> l]
<1> DEFINE g == [members |-> x, values |-> f, count |-> c, distinct |-> d, total |-> t, least |-> l]
           F == {"members", "values", "count", "distinct", "total", "least"}
<1>1. /\ g.members = x /\ g.values = f /\ g.count = c /\ g.distinct = d /\ g.total = t /\ g.least = l
      /\ DOMAIN g = F /\ g = [h \in F |-> g[h]]
  OBVIOUS
<1> HIDE DEF g
<1> DEFINE R == RemoveValue(g, v)
<1>2. /\ R.members = x /\ R.count = c - 1 /\ R.distinct = IF f[v] = 1 THEN d - 1 ELSE d
      /\ R.total = t - v /\ R.least = l
  BY <1>1 DEF RemoveValue
<1>3. R.values = [f EXCEPT ![v] = @ - 1]
  BY <1>1 DEF RemoveValue
<1>4. DOMAIN R = F /\ R = [h \in F |-> R[h]]
  BY <1>1 DEF RemoveValue
<1> HIDE DEF R
<1> QED
  BY <1>2, <1>3, <1>4 DEF g, R

\* Counting a value is counting one more member.
LEMMA AddTally ==
  ASSUME NEW m, AreMembers(m), NEW k, k \notin DOMAIN m, NEW r \in Rows, NEW x, NEW l
  PROVE  LET n == With(m, k, r)
             p == IF l = -1 \/ ValueOf[r] < l THEN ValueOf[r] ELSE l
         IN  /\ AddValue(Tallied(x, m, l), ValueOf[r]) = Tallied(x, n, p)
             /\ LeastOf(m, l) => LeastOf(n, p)
<1> DEFINE n == With(m, k, r)
           v == ValueOf[r]
           p == IF l = -1 \/ v < l THEN v ELSE l
           f == [u \in Amounts |-> Cardinality(Copies(m, u))]
           g == [u \in Amounts |-> Cardinality(Copies(n, u))]
<1>a. AreMembers(n) /\ DOMAIN n = DOMAIN m \union {k} /\ v \in Nat /\ OneMore(m, n, v)
  BY MoreMembers
<1> HIDE DEF n
<1>1. /\ Cardinality(DOMAIN n) = Cardinality(DOMAIN m) + 1
      /\ ValuesIn(n) = ValuesIn(m) \union {v}
      /\ \A u : Cardinality(Copies(n, u)) =
                 IF u = v THEN Cardinality(Copies(m, u)) + 1 ELSE Cardinality(Copies(m, u))
      /\ Cardinality(ValuesIn(n)) =
            IF Cardinality(Copies(m, v)) = 0 THEN Cardinality(ValuesIn(m)) + 1
            ELSE Cardinality(ValuesIn(m))
      /\ SumOver(n, DOMAIN n) = SumOver(m, DOMAIN m) + v
  BY <1>a DEF OneMore
<1>2. v \in Amounts
  BY DEF Amounts
<1>3. g = [f EXCEPT ![v] = @ + 1]
  BY <1>1, <1>2
<1>4. f[v] = Cardinality(Copies(m, v))
  BY <1>2
<1> HIDE DEF f, g, p
<1>5. AddValue([members |-> x, values |-> f, count |-> Cardinality(DOMAIN m),
                distinct |-> Cardinality(ValuesIn(m)), total |-> SumOver(m, DOMAIN m), least |-> l], v)
      = [members |-> x, values |-> [f EXCEPT ![v] = @ + 1], count |-> Cardinality(DOMAIN m) + 1,
         distinct |-> IF f[v] = 0 THEN Cardinality(ValuesIn(m)) + 1 ELSE Cardinality(ValuesIn(m)),
         total |-> SumOver(m, DOMAIN m) + v, least |-> p]
  BY AddFields DEF p
<1>6. AddValue(Tallied(x, m, l), v) = Tallied(x, n, p)
  BY <1>1, <1>3, <1>4, <1>5 DEF Tallied, f, g
<1>7. ASSUME LeastOf(m, l) PROVE LeastOf(n, p)
  <2>1. DOMAIN n # {} /\ ValuesIn(n) = ValuesIn(m) \union {v} /\ v \in Nat
    BY <1>a, <1>1
  <2>2. CASE DOMAIN m = {}
    <3>1. ValuesIn(m) = {} /\ l = -1
      BY <1>7, <2>2 DEF LeastOf, ValuesIn
    <3> QED
      BY <2>1, <3>1 DEF LeastOf, p
  <2>3. CASE DOMAIN m # {}
    <3>1. ValuesIn(m) \subseteq Nat
      BY TalliesAreFinite
    <3>2. l \in Nat /\ l \in ValuesIn(m) /\ \A u \in ValuesIn(m) : l <= u
      BY <1>7, <2>3, <3>1 DEF LeastOf
    <3>3. p \in ValuesIn(n) /\ \A u \in ValuesIn(n) : p <= u
      BY <2>1, <3>1, <3>2 DEF p
    <3> QED
      BY <2>1, <3>3 DEF LeastOf
  <2> QED
    BY <2>2, <2>3
<1> QED
  BY <1>6, <1>7 DEF n, p

\* Without one of its members, another map of members.
LEMMA FewerMembers ==
  ASSUME NEW m, AreMembers(m), NEW k \in DOMAIN m
  PROVE  LET n == Without(m, k)
         IN  /\ AreMembers(n) /\ DOMAIN n = DOMAIN m \ {k} /\ k \notin DOMAIN n
             /\ m[k] \in Rows /\ m = With(n, k, m[k])
<1> DEFINE n == Without(m, k)
<1>1. IsFiniteSet(DOMAIN m) /\ m \in [DOMAIN m -> Rows]
  BY DEF AreMembers
<1>2. DOMAIN n = DOMAIN m \ {k} /\ n \in [DOMAIN n -> Rows]
  BY <1>1 DEF Without
<1>3. m = With(n, k, m[k])
  BY <1>1 DEF With, Without
<1> HIDE DEF n
<1>4. IsFiniteSet(DOMAIN n)
  BY <1>1, <1>2, FS_RemoveElement
<1> QED
  BY <1>1, <1>2, <1>3, <1>4 DEF AreMembers, n

\* Undoing a value is counting one member less; the minimum stays right unless its last
\* copy goes.
LEMMA RemoveTally ==
  ASSUME NEW m, AreMembers(m), NEW k \in DOMAIN m, NEW x, NEW l, NEW y
  PROVE  /\ RemoveValue(Tallied(x, m, l), ValueOf[m[k]]) = Tallied(x, Without(m, k), l)
         /\ ~Outdated(Tallied(y, m, l), ValueOf[m[k]]) /\ LeastOf(m, l)
              => LeastOf(Without(m, k), l)
<1> DEFINE n == Without(m, k)
           v == ValueOf[m[k]]
           f == [u \in Amounts |-> Cardinality(Copies(m, u))]
           g == [u \in Amounts |-> Cardinality(Copies(n, u))]
<1>0. /\ AreMembers(n) /\ DOMAIN n = DOMAIN m \ {k} /\ k \notin DOMAIN n
      /\ m[k] \in Rows /\ m = With(n, k, m[k])
  BY FewerMembers
<1> HIDE DEF n
<1>a. v \in Nat /\ OneMore(n, m, v)
  <2>1. OneMore(n, With(n, k, m[k]), ValueOf[m[k]]) /\ ValueOf[m[k]] \in Nat
    BY <1>0, MoreMembers
  <2> QED
    BY <1>0, <2>1
<1>1. /\ Cardinality(DOMAIN m) = Cardinality(DOMAIN n) + 1
      /\ ValuesIn(m) = ValuesIn(n) \union {v}
      /\ \A u : Cardinality(Copies(m, u)) =
                 IF u = v THEN Cardinality(Copies(n, u)) + 1 ELSE Cardinality(Copies(n, u))
      /\ Cardinality(ValuesIn(m)) =
            IF Cardinality(Copies(n, v)) = 0 THEN Cardinality(ValuesIn(n)) + 1
            ELSE Cardinality(ValuesIn(n))
      /\ SumOver(m, DOMAIN m) = SumOver(n, DOMAIN n) + v
  BY <1>a DEF OneMore
<1>2. v \in Amounts
  BY <1>0 DEF Amounts
<1>3. \A u : Cardinality(Copies(n, u)) \in Nat /\ (Cardinality(Copies(n, u)) = 0 <=> u \notin ValuesIn(n))
  BY <1>0, TalliesAreFinite
<1>4. /\ Cardinality(DOMAIN n) \in Nat /\ Cardinality(ValuesIn(n)) \in Nat
      /\ SumOver(n, DOMAIN n) \in Nat
  BY <1>0, TalliesAreFinite
<1>5. g = [f EXCEPT ![v] = @ - 1]
  BY <1>1, <1>2, <1>3
<1>6. f[v] = Cardinality(Copies(n, v)) + 1
  BY <1>1, <1>2
<1> HIDE DEF f, g
<1>7. RemoveValue([members |-> x, values |-> f, count |-> Cardinality(DOMAIN m),
                   distinct |-> Cardinality(ValuesIn(m)), total |-> SumOver(m, DOMAIN m), least |-> l], v)
      = [members |-> x, values |-> [f EXCEPT ![v] = @ - 1], count |-> Cardinality(DOMAIN m) - 1,
         distinct |-> IF f[v] = 1 THEN Cardinality(ValuesIn(m)) - 1 ELSE Cardinality(ValuesIn(m)),
         total |-> SumOver(m, DOMAIN m) - v, least |-> l]
  BY RemoveFields
<1>8. /\ Cardinality(DOMAIN m) - 1 = Cardinality(DOMAIN n)
      /\ SumOver(m, DOMAIN m) - v = SumOver(n, DOMAIN n)
  BY <1>1, <1>4, <1>a
<1>b. (IF f[v] = 1 THEN Cardinality(ValuesIn(m)) - 1 ELSE Cardinality(ValuesIn(m)))
           = Cardinality(ValuesIn(n))
  <2>1. Cardinality(Copies(n, v)) \in Nat
    BY <1>3
  <2>2. f[v] = 1 <=> Cardinality(Copies(n, v)) = 0
    BY <1>6, <2>1
  <2> QED
    BY <1>1, <1>4, <2>2
<1>9. RemoveValue(Tallied(x, m, l), v) = Tallied(x, n, l)
  BY <1>5, <1>7, <1>8, <1>b DEF Tallied, f, g
<1>10. ASSUME ~Outdated(Tallied(y, m, l), v), LeastOf(m, l) PROVE LeastOf(n, l)
  <2>1. ~(f[v] = 1 /\ l = v)
    BY <1>10 DEF Outdated, Tallied, f
  <2>2. DOMAIN m # {}
    OBVIOUS
  <2>3. l \in ValuesIn(m) /\ \A u \in ValuesIn(m) : l <= u
    BY <1>10, <2>2 DEF LeastOf
  <2>4. l \in ValuesIn(n)
    BY <1>1, <1>3, <1>6, <2>1, <2>3
  <2>5. DOMAIN n # {}
    BY <2>4 DEF ValuesIn
  <2> QED
    BY <1>1, <2>3, <2>4, <2>5 DEF LeastOf
<1> QED
  BY <1>9, <1>10 DEF n

\* Members whose values are the same have the same aggregates.
LEMMA TalliedAlike ==
  ASSUME NEW m, AreMembers(m), NEW n, AreMembers(n), DOMAIN m = DOMAIN n,
         \A k \in DOMAIN m : ValueOf[m[k]] = ValueOf[n[k]], NEW x, NEW l
  PROVE  Tallied(x, m, l) = Tallied(x, n, l) /\ (LeastOf(m, l) <=> LeastOf(n, l))
<1>1. ValuesIn(m) = ValuesIn(n) /\ \A v : Copies(m, v) = Copies(n, v)
  BY DEF ValuesIn, Copies
<1>2. \A k \in DOMAIN m : m[k] \in Rows /\ n[k] \in Rows
  BY DEF AreMembers
<1>3. SumOver(m, DOMAIN m) = SumOver(n, DOMAIN n)
  BY <1>2, SumAlike DEF AreMembers
<1> QED
  BY <1>1, <1>3 DEF Tallied, LeastOf

\* A new group is that of no members.
LEMMA NewIsTallied ==
  LET none == [k \in {} |-> NoRow]
  IN  AreMembers(none) /\ NewGroup = Tallied(none, none, -1) /\ LeastOf(none, -1)
<1> DEFINE none == [k \in {} |-> NoRow]
<1>1. DOMAIN none = {} /\ none \in [DOMAIN none -> Rows]
  OBVIOUS
<1> HIDE DEF none
<1>2. ValuesIn(none) = {} /\ \A v : Copies(none, v) = {}
  BY <1>1 DEF ValuesIn, Copies
<1>3. Cardinality({}) = 0 /\ IsFiniteSet({}) /\ SumOver(none, {}) = 0
  BY FS_EmptySet, SumOfNone
<1>4. Tallied(none, none, -1) = [members |-> none, values |-> [v \in Amounts |-> 0],
                                count |-> 0, distinct |-> 0, total |-> 0, least |-> -1]
  BY <1>1, <1>2, <1>3 DEF Tallied
<1> QED
  BY <1>1, <1>3, <1>4 DEF NewGroup, LeastOf, AreMembers, none

\* The values counted give the minimum back.
LEMMA RecomputedLeast ==
  ASSUME NEW m, AreMembers(m), DOMAIN m # {}, NEW x, NEW l
  PROVE  /\ Recomputed(Tallied(x, m, l)) = Tallied(x, m, Min(ValuesIn(m)))
         /\ LeastOf(m, Min(ValuesIn(m)))
<1>1. /\ ValuesIn(m) \subseteq Amounts \intersect Nat
      /\ \A v : /\ Cardinality(Copies(m, v)) \in Nat
                /\ Cardinality(Copies(m, v)) = 0 <=> v \notin ValuesIn(m)
  BY TalliesAreFinite
<1>2. {v \in Amounts : Tallied(x, m, l).values[v] > 0} = ValuesIn(m)
  <2>1. \A v \in Amounts : Tallied(x, m, l).values[v] = Cardinality(Copies(m, v))
    BY DEF Tallied
  <2> QED
    BY <1>1, <2>1
<1>3. Recomputed(Tallied(x, m, l)) = Tallied(x, m, Min(ValuesIn(m)))
  <2>1. Recomputed(Tallied(x, m, l)) = [Tallied(x, m, l) EXCEPT !.least = Min(ValuesIn(m))]
    BY <1>2 DEF Recomputed
  <2> QED
    BY <2>1 DEF Tallied
<1>4. ValuesIn(m) # {}
  BY DEF ValuesIn
<1>5. PICK v \in ValuesIn(m) : \A u \in ValuesIn(m) : v <= u
  BY <1>1, <1>4, LeastNumber, Zenon
<1>6. Min(ValuesIn(m)) \in ValuesIn(m) /\ \A u \in ValuesIn(m) : Min(ValuesIn(m)) <= u
  BY <1>5 DEF Min
<1> QED
  BY <1>3, <1>6 DEF LeastOf
-------------------------------------------------------------------------------
(* The groups of what is stored. *)

Contents == [Keys -> Rows \union {NoRow}]

KeysIn(c, g)    == {k \in Keys : c[k] \in Matching /\ GroupOf[c[k]] = g}
MembersOf(c, g) == [k \in KeysIn(c, g) |-> c[k]]
GroupsIn(c)     == {g \in GroupKeys : KeysIn(c, g) # {}}
SelectedIn(c)   == {k \in Keys : c[k] \in Matching}

\* The members of a group are some of the keys, with their rows.
LEMMA MembersAre ==
  ASSUME NEW c \in Contents, NEW g
  PROVE  /\ AreMembers(MembersOf(c, g)) /\ DOMAIN MembersOf(c, g) = KeysIn(c, g)
         /\ IsFiniteSet(KeysIn(c, g)) /\ Cardinality(KeysIn(c, g)) \in Nat
         /\ KeysIn(c, g) # {} <=> g \in GroupsIn(c)
         /\ \A k \in KeysIn(c, g) : MembersOf(c, g)[k] = c[k] /\ c[k] \in Rows
<1>1. DOMAIN MembersOf(c, g) = KeysIn(c, g) /\ KeysIn(c, g) \in SUBSET Keys
  BY DEF MembersOf, KeysIn
<1>2. IsFiniteSet(KeysIn(c, g)) /\ Cardinality(KeysIn(c, g)) \in Nat
  BY <1>1, GroupedAssumption, FS_Subset, FS_CardinalityType
<1>3. \A k \in KeysIn(c, g) : c[k] \in Rows /\ GroupOf[c[k]] = g
  BY GroupedAssumption DEF KeysIn
<1>4. MembersOf(c, g) \in [KeysIn(c, g) -> Rows]
  BY <1>3 DEF MembersOf
<1>5. KeysIn(c, g) # {} <=> g \in GroupsIn(c)
  BY <1>3 DEF GroupsIn, GroupKeys
<1> QED
  BY <1>1, <1>2, <1>3, <1>4, <1>5 DEF AreMembers, MembersOf

\* What is selected is finite.
LEMMA SelectedIsFinite ==
  ASSUME NEW c \in Contents
  PROVE  IsFiniteSet(SelectedIn(c)) /\ Cardinality(SelectedIn(c)) \in Nat
<1>1. SelectedIn(c) \in SUBSET Keys
  BY DEF SelectedIn
<1> QED
  BY <1>1, GroupedAssumption, FS_Subset, FS_CardinalityType

\* Every group has a key of its own; there are finitely many.
LEMMA GroupsAreFinite ==
  ASSUME NEW c \in Contents
  PROVE  /\ IsFiniteSet(GroupsIn(c)) /\ Cardinality(GroupsIn(c)) \in Nat
         /\ GroupsIn(c) = {GroupOf[c[k]] : k \in SelectedIn(c)}
         /\ GroupsIn(c) \subseteq Nat
<1>1. GroupsIn(c) = {GroupOf[c[k]] : k \in SelectedIn(c)}
  BY GroupedAssumption DEF GroupsIn, GroupKeys, KeysIn, SelectedIn
<1> DEFINE f == [k \in SelectedIn(c) |-> GroupOf[c[k]]]
<1>2. f \in [SelectedIn(c) -> GroupsIn(c)] /\ \A g \in GroupsIn(c) : \E k \in SelectedIn(c) : f[k] = g
  BY <1>1
<1> HIDE DEF f
<1>3. f \in Surjection(SelectedIn(c), GroupsIn(c))
  BY <1>2, Fun_IsSurj
<1>4. GroupsIn(c) \subseteq Nat
  BY GroupedAssumption DEF GroupsIn, GroupKeys
<1> QED
  BY <1>1, <1>3, <1>4, SelectedIsFinite, FS_Surjection, FS_CardinalityType

\* The contents d are c with the row r, which is selected, under the key k, which had no such row.
Enters(c, d, k, r) ==
  /\ d \in Contents /\ GroupOf[r] \in GroupKeys /\ r \in Rows
  /\ \A g : /\ k \notin KeysIn(c, g)
            /\ MembersOf(d, g) = IF g = GroupOf[r] THEN With(MembersOf(c, g), k, r)
                                 ELSE MembersOf(c, g)
  /\ SelectedIn(d) = SelectedIn(c) \union {k} /\ k \notin SelectedIn(c)
  /\ GroupsIn(d) = GroupsIn(c) \union {GroupOf[r]}

\* The contents d are c without the row selected under the key k.
Leaves(c, d, k) ==
  LET h == GroupOf[c[k]]
  IN  /\ d \in Contents /\ d[k] \notin Matching
      /\ k \in KeysIn(c, h) /\ h \in GroupsIn(c) /\ c[k] \in Rows
      /\ \A g : MembersOf(d, g) = IF g = h THEN Without(MembersOf(c, g), k) ELSE MembersOf(c, g)
      /\ SelectedIn(d) = SelectedIn(c) \ {k} /\ k \in SelectedIn(c)
      /\ KeysIn(d, h) = KeysIn(c, h) \ {k}
      /\ GroupsIn(d) = IF KeysIn(d, h) = {} THEN GroupsIn(c) \ {h} ELSE GroupsIn(c)

\* The contents d are c with the row r instead of another of its group under the key k.
Remains(c, d, k, r) ==
  LET h == GroupOf[r]
  IN  /\ d \in Contents /\ k \in KeysIn(c, h) /\ h \in GroupsIn(c) /\ r \in Rows
      /\ \A g : /\ KeysIn(d, g) = KeysIn(c, g)
                /\ MembersOf(d, g) = IF g = h THEN With(MembersOf(c, g), k, r) ELSE MembersOf(c, g)
      /\ SelectedIn(d) = SelectedIn(c) /\ GroupsIn(d) = GroupsIn(c)

\* A selected row is stored under a key that had none.
LEMMA Entering ==
  ASSUME NEW c \in Contents, NEW k \in Keys, c[k] \notin Matching, NEW r \in Matching
  PROVE  Enters(c, [c EXCEPT ![k] = r], k, r)
<1> DEFINE d == [c EXCEPT ![k] = r]
<1>1. r \in Rows /\ d \in Contents /\ d[k] = r /\ \A l \in Keys : l # k => d[l] = c[l]
  BY GroupedAssumption DEF Contents
<1>2. GroupOf[r] \in GroupKeys
  BY <1>1 DEF GroupKeys
<1> HIDE DEF d
<1>3. \A g : k \notin KeysIn(c, g)
  BY DEF KeysIn
<1>4. \A g : KeysIn(d, g) = IF g = GroupOf[r] THEN KeysIn(c, g) \union {k} ELSE KeysIn(c, g)
  BY <1>1 DEF KeysIn
<1>5. ASSUME NEW g
      PROVE  MembersOf(d, g) = IF g = GroupOf[r] THEN With(MembersOf(c, g), k, r)
                               ELSE MembersOf(c, g)
  <2>1. \A l \in KeysIn(c, g) : d[l] = c[l]
    BY <1>1 DEF KeysIn
  <2>2. CASE g = GroupOf[r]
    BY <1>1, <1>4, <2>1, <2>2 DEF MembersOf, With
  <2>3. CASE g # GroupOf[r]
    BY <1>4, <2>1, <2>3 DEF MembersOf
  <2> QED
    BY <2>2, <2>3
<1>6. SelectedIn(d) = SelectedIn(c) \union {k} /\ k \notin SelectedIn(c)
  BY <1>1 DEF SelectedIn
<1>7. GroupsIn(d) = GroupsIn(c) \union {GroupOf[r]}
  BY <1>2, <1>4 DEF GroupsIn
<1> QED
  BY <1>1, <1>2, <1>3, <1>5, <1>6, <1>7 DEF Enters, d

\* A selected row goes.
LEMMA Leaving ==
  ASSUME NEW c \in Contents, NEW k \in Keys, c[k] \in Matching
  PROVE  Leaves(c, [c EXCEPT ![k] = NoRow], k)
<1> DEFINE d == [c EXCEPT ![k] = NoRow]
           h == GroupOf[c[k]]
<1>1. /\ d \in Contents /\ d[k] = NoRow /\ NoRow \notin Matching /\ c[k] \in Rows
      /\ \A l \in Keys : l # k => d[l] = c[l]
  BY GroupedAssumption DEF Contents
<1> HIDE DEF d
<1>2. k \in KeysIn(c, h)
  BY DEF KeysIn
<1>3. h \in GroupsIn(c)
  BY <1>2, MembersAre
<1>4. \A g : KeysIn(d, g) = IF g = h THEN KeysIn(c, g) \ {k} ELSE KeysIn(c, g)
  BY <1>1 DEF KeysIn
<1>5. ASSUME NEW g
      PROVE  MembersOf(d, g) = IF g = h THEN Without(MembersOf(c, g), k) ELSE MembersOf(c, g)
  <2>1. \A l \in KeysIn(d, g) : d[l] = c[l]
    BY <1>1 DEF KeysIn
  <2>2. CASE g = h
    BY <1>4, <2>1, <2>2 DEF MembersOf, Without
  <2>3. CASE g # h
    BY <1>4, <2>1, <2>3 DEF MembersOf
  <2> QED
    BY <2>2, <2>3
<1>6. SelectedIn(d) = SelectedIn(c) \ {k} /\ k \in SelectedIn(c)
  BY <1>1 DEF SelectedIn
<1>7. GroupsIn(d) = IF KeysIn(d, h) = {} THEN GroupsIn(c) \ {h} ELSE GroupsIn(c)
  BY <1>3, <1>4 DEF GroupsIn
<1> QED
  BY <1>1, <1>2, <1>3, <1>4, <1>5, <1>6, <1>7 DEF Leaves, d

\* A selected row is replaced by one of the same group.
LEMMA Staying ==
  ASSUME NEW c \in Contents, NEW k \in Keys, c[k] \in Matching, NEW r \in Matching,
         GroupOf[r] = GroupOf[c[k]]
  PROVE  Remains(c, [c EXCEPT ![k] = r], k, r)
<1> DEFINE d == [c EXCEPT ![k] = r]
           h == GroupOf[r]
<1>1. r \in Rows /\ d \in Contents /\ d[k] = r /\ \A l \in Keys : l # k => d[l] = c[l]
  BY GroupedAssumption DEF Contents
<1> HIDE DEF d
<1>2. k \in KeysIn(c, h)
  BY DEF KeysIn
<1>3. h \in GroupsIn(c)
  BY <1>2, MembersAre
<1>4. \A g : KeysIn(d, g) = KeysIn(c, g)
  BY <1>1 DEF KeysIn
<1>5. ASSUME NEW g
      PROVE  MembersOf(d, g) = IF g = h THEN With(MembersOf(c, g), k, r) ELSE MembersOf(c, g)
  <2>1. KeysIn(d, g) = KeysIn(c, g)
    BY <1>4
  <2>2. CASE g = h
    <3>1. \A l \in KeysIn(c, g) : d[l] = IF l = k THEN r ELSE c[l]
      BY <1>1 DEF KeysIn
    <3> QED
      BY <1>2, <2>1, <2>2, <3>1 DEF MembersOf, With
  <2>3. CASE g # h
    <3>1. k \notin KeysIn(c, g)
      BY <2>3 DEF KeysIn
    <3>2. \A l \in KeysIn(c, g) : d[l] = c[l]
      BY <1>1, <3>1 DEF KeysIn
    <3> QED
      BY <2>1, <2>3, <3>2 DEF MembersOf
  <2> QED
    BY <2>2, <2>3
<1>6. SelectedIn(d) = SelectedIn(c)
  BY <1>1 DEF SelectedIn
<1>7. GroupsIn(d) = GroupsIn(c)
  BY <1>4 DEF GroupsIn
<1> QED
  BY <1>1, <1>2, <1>3, <1>4, <1>5, <1>6, <1>7 DEF Remains, d

\* Rows that are not selected come and go unseen.
LEMMA Passing ==
  ASSUME NEW c \in Contents, NEW k \in Keys, c[k] \notin Matching,
         NEW r \in Rows \union {NoRow}, r \notin Matching
  PROVE  LET d == [c EXCEPT ![k] = r]
         IN  /\ d \in Contents
             /\ \A g : KeysIn(d, g) = KeysIn(c, g) /\ MembersOf(d, g) = MembersOf(c, g)
             /\ SelectedIn(d) = SelectedIn(c) /\ GroupsIn(d) = GroupsIn(c)
<1> DEFINE d == [c EXCEPT ![k] = r]
<1>1. d \in Contents /\ d[k] = r /\ \A l \in Keys : l # k => d[l] = c[l]
  BY DEF Contents
<1> HIDE DEF d
<1>2. \A g : KeysIn(d, g) = KeysIn(c, g)
  BY <1>1 DEF KeysIn
<1>3. ASSUME NEW g PROVE MembersOf(d, g) = MembersOf(c, g)
  <2>1. \A l \in KeysIn(c, g) : d[l] = c[l]
    BY <1>1 DEF KeysIn
  <2> QED
    BY <1>2, <2>1 DEF MembersOf
<1>4. SelectedIn(d) = SelectedIn(c) /\ GroupsIn(d) = GroupsIn(c)
  BY <1>1, <1>2 DEF SelectedIn, GroupsIn
<1> QED
  BY <1>1, <1>2, <1>3, <1>4 DEF d
-------------------------------------------------------------------------------
(* Groups that are kept. *)

\* The groups gs are those of the contents c; only the minima of the groups in stale may
\* be wrong.
GroupsKept(gs, c, stale) ==
  /\ DOMAIN gs = GroupsIn(c)
  /\ \A g \in GroupsIn(c) :
       /\ gs[g] = Tallied(MembersOf(c, g), MembersOf(c, g), gs[g].least)
       /\ g \in stale \/ LeastOf(MembersOf(c, g), gs[g].least)

\* The members listed and the minimum are as they are.
LEMMA TalliedParts ==
  ASSUME NEW x, NEW m, NEW l
  PROVE  Tallied(x, m, l).members = x /\ Tallied(x, m, l).least = l
BY DEF Tallied

\* The members listed do not matter to the rest of a group.
LEMMA MembersListed ==
  ASSUME NEW x, NEW m, NEW l, NEW y
  PROVE  [Tallied(x, m, l) EXCEPT !.members = y] = Tallied(y, m, l)
<1> DEFINE f == [v \in Amounts |-> Cardinality(Copies(m, v))]
           n == Cardinality(DOMAIN m)
           e == Cardinality(ValuesIn(m))
           t == SumOver(m, DOMAIN m)
<1>1. \A z : Tallied(z, m, l) = [members |-> z, values |-> f, count |-> n, distinct |-> e, total |-> t, least |-> l]
  BY DEF Tallied
<1> HIDE DEF f, n, e, t
<1> QED
  BY <1>1

\* One more member is listed.
LEMMA MemberListed ==
  ASSUME NEW x, NEW m, NEW l, NEW k, NEW r
  PROVE  WithMember(Tallied(x, m, l), k, r) = Tallied(With(x, k, r), m, l)
<1> DEFINE g == Tallied(x, m, l)
<1>1. g.members = x
  BY TalliedParts
<1>2. WithMember(g, k, r) = [g EXCEPT !.members = With(g.members, k, r)]
  BY DEF WithMember
<1> HIDE DEF g
<1>3. WithMember(g, k, r) = [g EXCEPT !.members = With(x, k, r)]
  BY <1>1, <1>2
<1> QED
  BY <1>3, MembersListed DEF g

\* A group that is not there has no members.
LEMMA GroupFound ==
  ASSUME NEW c \in Contents, NEW gs, NEW stale, GroupsKept(gs, c, stale), NEW h
  PROVE  LET g == IF h \in DOMAIN gs THEN gs[h] ELSE NewGroup
         IN  /\ g = Tallied(MembersOf(c, h), MembersOf(c, h), g.least)
             /\ h \in stale \/ LeastOf(MembersOf(c, h), g.least)
<1>1. CASE h \in DOMAIN gs
  BY <1>1 DEF GroupsKept
<1>2. CASE h \notin DOMAIN gs
  <2> DEFINE none == [k \in {} |-> NoRow]
  <2>1. KeysIn(c, h) = {}
    BY <1>2, MembersAre DEF GroupsKept
  <2>2. MembersOf(c, h) = none
    BY <2>1 DEF MembersOf
  <2>3. NewGroup = Tallied(none, none, -1) /\ LeastOf(none, -1)
    BY NewIsTallied
  <2> HIDE DEF none
  <2>4. NewGroup.least = -1
    BY <2>3, TalliedParts
  <2> QED
    BY <1>2, <2>2, <2>3, <2>4
<1> QED
  BY <1>1, <1>2

\* A row that enters is counted in its group.
LEMMA UpsertKeeps ==
  ASSUME NEW c \in Contents, NEW gs, NEW stale, GroupsKept(gs, c, stale),
         NEW k \in Keys, c[k] \notin Matching, NEW r \in Matching
  PROVE  GroupsKept(Upsert(gs, k, r), [c EXCEPT ![k] = r], stale)
<1> DEFINE h == GroupOf[r]
           m == MembersOf(c, h)
           d == [c EXCEPT ![k] = r]
           g == IF h \in DOMAIN gs THEN gs[h] ELSE NewGroup
           n == With(m, k, r)
           l == g.least
           p == IF l = -1 \/ ValueOf[r] < l THEN ValueOf[r] ELSE l
<1>1. /\ d \in Contents /\ h \in GroupKeys /\ r \in Rows
      /\ \A f : /\ k \notin KeysIn(c, f)
                /\ MembersOf(d, f) = IF f = h THEN With(MembersOf(c, f), k, r) ELSE MembersOf(c, f)
      /\ GroupsIn(d) = GroupsIn(c) \union {h}
  <2>1. Enters(c, d, k, r)
    BY Entering
  <2> HIDE DEF d, m, g, n, l, p
  <2> QED
    BY <2>1 DEF Enters
<1>2. AreMembers(m) /\ k \notin DOMAIN m
  BY <1>1, MembersAre
<1>3. g = Tallied(m, m, l) /\ (h \in stale \/ LeastOf(m, l))
  BY GroupFound
<1> DEFINE u == Upsert(gs, k, r)
<1>4. u = With(gs, h, AddValue(WithMember(IF k \in DOMAIN g.members THEN RemoveValue(g, ValueOf[g.members[k]]) ELSE g, k, r), ValueOf[r]))
  BY DEF Upsert
<1> HIDE DEF g, m, d, l, u
<1>5. g.members = m /\ WithMember(g, k, r) = Tallied(n, m, l)
  <2>1. Tallied(m, m, l).members = m /\ WithMember(Tallied(m, m, l), k, r) = Tallied(n, m, l)
    BY MemberListed, TalliedParts
  <2> QED
    BY <1>3, <2>1
<1>6. AddValue(Tallied(n, m, l), ValueOf[r]) = Tallied(n, n, p) /\ (LeastOf(m, l) => LeastOf(n, p))
  BY <1>1, <1>2, AddTally
<1> HIDE DEF n, p
<1>7. u = With(gs, h, Tallied(n, n, p))
  BY <1>2, <1>4, <1>5, <1>6
<1>8. DOMAIN gs = GroupsIn(c)
  BY DEF GroupsKept
<1>9. DOMAIN u = GroupsIn(d) /\ u[h] = Tallied(n, n, p) /\ \A f \in GroupsIn(c) : f # h => u[f] = gs[f]
  BY <1>1, <1>7, <1>8 DEF With
<1>10. ASSUME NEW f \in GroupsIn(d)
       PROVE  /\ u[f] = Tallied(MembersOf(d, f), MembersOf(d, f), u[f].least)
              /\ f \in stale \/ LeastOf(MembersOf(d, f), u[f].least)
  <2>1. CASE f = h
    <3>1. MembersOf(d, f) = n /\ u[f] = Tallied(n, n, p)
      BY <1>1, <1>9, <2>1 DEF m, n
    <3>2. u[f].least = p
      BY <3>1, TalliedParts
    <3> QED
      BY <1>3, <1>6, <2>1, <3>1, <3>2
  <2>2. CASE f # h
    <3>1. f \in GroupsIn(c) /\ MembersOf(d, f) = MembersOf(c, f) /\ u[f] = gs[f]
      BY <1>1, <1>9, <2>2
    <3> QED
      BY <3>1 DEF GroupsKept
  <2> QED
    BY <2>1, <2>2
<1> QED
  BY <1>9, <1>10 DEF GroupsKept, d, u
-------------------------------------------------------------------------------
(* Updates. *)

UpdateFields == {"groups", "members", "ok", "outdated", "changed", "reorder"}

IsUpdate(st) ==
  /\ DOMAIN st = UpdateFields /\ st = [f \in UpdateFields |-> st[f]]
  /\ st.ok \in BOOLEAN /\ st.reorder \in BOOLEAN

\* What the limits admit.
Within(c) ==
  /\ Cardinality(GroupsIn(c)) <= MaxGroups
  /\ Cardinality(SelectedIn(c)) <= MaxMembers
  /\ Cardinality(SelectedIn(c)) * RetainedAggregates <= MaxRetainedValues
  /\ \A g \in GroupsIn(c) : Cardinality(KeysIn(c, g)) <= MaxMembersPerGroup

\* Every key is in the same group in c as in a; outside the groups in changed it has the
\* same value.
SameGroups(a, c, changed) ==
  \A k \in Keys :
    /\ c[k] \in Matching <=> a[k] \in Matching
    /\ c[k] \in Matching =>
         /\ GroupOf[c[k]] = GroupOf[a[k]]
         /\ GroupOf[c[k]] \in changed \/ ValueOf[c[k]] = ValueOf[a[k]]

\* Until it is told to order the groups again, an update changed nothing that orders them.
Unmoved(st, a, c) ==
  ~st.reorder => SameGroups(a, c, st.changed) /\ (OrderedByValue => st.changed = {})

\* The update st leads from the groups of a to those of c, or beyond the limits.
Kept(st, a, c) ==
  /\ IsUpdate(st)
  /\ st.ok => /\ GroupsKept(st.groups, c, st.outdated)
              /\ st.members = Cardinality(SelectedIn(c))
              /\ Within(c)
              /\ Unmoved(st, a, c)

\* With fewer members the limits still hold.
LEMMA FewerWithin ==
  ASSUME NEW c \in Contents, Within(c), NEW d \in Contents, GroupsIn(d) \subseteq GroupsIn(c),
         SelectedIn(d) \subseteq SelectedIn(c), \A g : KeysIn(d, g) \subseteq KeysIn(c, g)
  PROVE  Within(d)
<1>1. /\ Cardinality(GroupsIn(d)) <= Cardinality(GroupsIn(c))
      /\ Cardinality(GroupsIn(d)) \in Nat /\ Cardinality(GroupsIn(c)) \in Nat
  BY GroupsAreFinite, FS_Subset
<1>2. /\ Cardinality(SelectedIn(d)) <= Cardinality(SelectedIn(c))
      /\ Cardinality(SelectedIn(d)) \in Nat /\ Cardinality(SelectedIn(c)) \in Nat
  BY SelectedIsFinite, FS_Subset
<1>3. ASSUME NEW g
      PROVE  /\ Cardinality(KeysIn(d, g)) <= Cardinality(KeysIn(c, g))
             /\ Cardinality(KeysIn(d, g)) \in Nat /\ Cardinality(KeysIn(c, g)) \in Nat
  BY MembersAre, FS_Subset
<1>4. MaxGroups \in Nat /\ MaxMembers \in Nat /\ MaxMembersPerGroup \in Nat /\ MaxRetainedValues \in Nat
  BY GroupedAssumption
<1> QED
  BY <1>1, <1>2, <1>3, <1>4 DEF Within, RetainedAggregates

\* Admission looks at what is kept.
LEMMA AdmittedIsWithin ==
  ASSUME NEW c \in Contents, NEW gs, NEW stale, GroupsKept(gs, c, stale), ~CountsOnly
  PROVE  Admitted(gs, Cardinality(SelectedIn(c))) <=> Within(c)
<1>1. DOMAIN gs = GroupsIn(c)
  BY DEF GroupsKept
<1>2. ASSUME NEW g \in GroupsIn(c) PROVE DOMAIN gs[g].members = KeysIn(c, g)
  <2>1. gs[g].members = MembersOf(c, g)
    <3>1. gs[g] = Tallied(MembersOf(c, g), MembersOf(c, g), gs[g].least)
      BY DEF GroupsKept
    <3>2. Tallied(MembersOf(c, g), MembersOf(c, g), gs[g].least).members = MembersOf(c, g)
      BY TalliedParts
    <3> QED
      BY <3>1, <3>2
  <2> QED
    BY <2>1, MembersAre
<1> QED
  BY <1>1, <1>2 DEF Admitted, Within
-------------------------------------------------------------------------------
(* A change. *)

\* What an update looks like after some of its parts changed.
LEMMA UpdateParts ==
  ASSUME NEW st, IsUpdate(st), NEW gs, NEW n, NEW stale, NEW changed, NEW ok \in BOOLEAN,
         NEW reorder \in BOOLEAN
  PROVE  LET u == [st EXCEPT !.groups = gs, !.members = n, !.ok = ok, !.outdated = stale,
                             !.changed = changed, !.reorder = reorder]
         IN  /\ IsUpdate(u)
             /\ u.groups = gs /\ u.members = n /\ u.ok = ok /\ u.outdated = stale
             /\ u.changed = changed /\ u.reorder = reorder
BY DEF IsUpdate, UpdateFields

\* The group that a member leaves is kept without it, or goes with its last member.
LEMMA RemovedKeeps ==
  ASSUME NEW a, NEW c \in Contents, NEW st, Kept(st, a, c), st.ok, NEW k \in Keys, c[k] \in Matching
  PROVE  LET d == [c EXCEPT ![k] = NoRow]
         IN  Kept(Removed(st, k, c[k]), a, d) /\ Removed(st, k, c[k]).ok
<1> DEFINE d == [c EXCEPT ![k] = NoRow]
           h == GroupOf[c[k]]
           v == ValueOf[c[k]]
           m == MembersOf(c, h)
           n == Without(m, k)
           gs == st.groups
           l == gs[h].least
           u == Removed(st, k, c[k])
<1>0. Leaves(c, d, k)
  BY Leaving
<1>1. /\ d \in Contents /\ k \in KeysIn(c, h) /\ h \in GroupsIn(c)
      /\ SelectedIn(d) = SelectedIn(c) \ {k} /\ k \in SelectedIn(c)
      /\ KeysIn(d, h) = KeysIn(c, h) \ {k}
      /\ GroupsIn(d) = IF KeysIn(d, h) = {} THEN GroupsIn(c) \ {h} ELSE GroupsIn(c)
  <2> HIDE DEF d
  <2> QED
    BY <1>0 DEF Leaves
<1>2. \A g : MembersOf(d, g) = IF g = h THEN Without(MembersOf(c, g), k) ELSE MembersOf(c, g)
  <2> HIDE DEF d
  <2> QED
    BY <1>0 DEF Leaves
<1>3. /\ IsUpdate(st) /\ GroupsKept(gs, c, st.outdated)
      /\ st.members = Cardinality(SelectedIn(c)) /\ Within(c)
  BY DEF Kept
<1>4. AreMembers(m) /\ DOMAIN m = KeysIn(c, h) /\ m[k] = c[k]
  BY <1>1, MembersAre
<1>5. h \in DOMAIN gs /\ gs[h] = Tallied(m, m, l) /\ (h \in st.outdated \/ LeastOf(m, l))
  BY <1>1, <1>3 DEF GroupsKept
<1> DEFINE left == [gs[h] EXCEPT !.members = Without(@, k)]
<1>6. gs[h].members = m /\ left = Tallied(n, m, l)
  <2>1. gs[h].members = m
    BY <1>5, TalliedParts
  <2>2. left = [gs[h] EXCEPT !.members = n]
    BY <2>1
  <2> QED
    BY <1>5, <2>1, <2>2, MembersListed
<1> HIDE DEF d, m
<1>7. DOMAIN n = KeysIn(d, h) /\ n = MembersOf(d, h)
  BY <1>1, <1>2, <1>4 DEF Without, m
<1>8. left.members = n
  BY <1>6, TalliedParts
<1>9. Within(d)
  <2>1. GroupsIn(d) \subseteq GroupsIn(c) /\ SelectedIn(d) \subseteq SelectedIn(c)
    BY <1>1
  <2>2. ASSUME NEW g PROVE KeysIn(d, g) \subseteq KeysIn(c, g)
    <3>1. DOMAIN MembersOf(d, g) = KeysIn(d, g) /\ DOMAIN MembersOf(c, g) = KeysIn(c, g)
      BY DEF MembersOf
    <3>2. CASE g = h
      BY <1>1, <3>2
    <3>3. CASE g # h
      BY <1>2, <3>1, <3>3
    <3> QED
      BY <3>2, <3>3
  <2> QED
    BY <1>1, <1>3, <2>1, <2>2, FewerWithin
<1>10. st.members - 1 = Cardinality(SelectedIn(d))
  <2>1. IsFiniteSet(SelectedIn(c)) /\ Cardinality(SelectedIn(c)) \in Nat
    BY SelectedIsFinite
  <2>2. Cardinality(SelectedIn(c) \ {k}) = Cardinality(SelectedIn(c)) - 1
    BY <1>1, <2>1, FS_RemoveElement
  <2> QED
    BY <1>1, <1>3, <2>2
<1>11. CASE KeysIn(d, h) = {}
  <2> DEFINE w == Without(gs, h)
             stale == st.outdated \ {h}
  <2>1. u = [st EXCEPT !.groups = w, !.members = st.members - 1, !.reorder = TRUE, !.outdated = stale]
    BY <1>4, <1>5, <1>6, <1>7, <1>8, <1>11, <1>1 DEF Removed
  <2>2. GroupsKept(w, d, stale)
    <3>1. DOMAIN w = GroupsIn(d) /\ \A g \in GroupsIn(d) : g # h /\ g \in GroupsIn(c) /\ w[g] = gs[g]
      BY <1>1, <1>3, <1>11 DEF GroupsKept, Without
    <3> HIDE DEF w
    <3>2. \A g \in GroupsIn(d) : MembersOf(d, g) = MembersOf(c, g)
      BY <1>2, <3>1
    <3> QED
      BY <1>3, <3>1, <3>2 DEF GroupsKept
  <2> HIDE DEF w, stale, u
  <2>3. /\ IsUpdate(u) /\ u.groups = w /\ u.members = st.members - 1 /\ u.ok = st.ok
        /\ u.outdated = stale /\ u.reorder = TRUE
    BY <1>3, <2>1 DEF IsUpdate, UpdateFields
  <2> QED
    BY <1>9, <1>10, <2>2, <2>3 DEF Kept, Unmoved, d, u
<1>12. CASE KeysIn(d, h) # {}
  <2> DEFINE w == [gs EXCEPT ![h] = RemoveValue(left, v)]
             stale == IF Outdated(left, v) THEN st.outdated \union {h} ELSE st.outdated
  <2>1. u = [st EXCEPT !.groups = w, !.members = st.members - 1, !.reorder = TRUE, !.outdated = stale]
    <3>1. k \in DOMAIN gs[h].members /\ DOMAIN left.members # {} /\ h \in DOMAIN gs
      BY <1>1, <1>4, <1>5, <1>6, <1>7, <1>8, <1>12
    <3>2. u = [st EXCEPT !.groups[h] = RemoveValue(left, v), !.members = @ - 1, !.reorder = TRUE,
                         !.outdated = stale]
      BY <3>1 DEF Removed
    <3> HIDE DEF left, stale, u
    <3> QED
      BY <3>2
  <2>2. /\ RemoveValue(left, v) = Tallied(n, n, l)
        /\ ~Outdated(left, v) /\ LeastOf(m, l) => LeastOf(n, l)
    <3>1. left = Tallied(n, m, l) /\ v = ValueOf[m[k]] /\ AreMembers(m) /\ k \in DOMAIN m
      BY <1>1, <1>4, <1>6
    <3>2. RemoveValue(Tallied(n, m, l), ValueOf[m[k]]) = Tallied(n, Without(m, k), l)
      BY <3>1, RemoveTally
    <3>3. ~Outdated(Tallied(n, m, l), ValueOf[m[k]]) /\ LeastOf(m, l) => LeastOf(Without(m, k), l)
      BY <3>1, RemoveTally
    <3> HIDE DEF left, v, m, l
    <3> QED
      BY <3>1, <3>2, <3>3
  <2> HIDE DEF left, n
  <2>3. GroupsKept(w, d, stale)
    <3>1. /\ DOMAIN w = GroupsIn(d) /\ GroupsIn(d) = GroupsIn(c) /\ w[h] = Tallied(n, n, l)
          /\ \A g \in GroupsIn(d) : g # h => w[g] = gs[g]
      BY <1>1, <1>3, <1>5, <1>12, <2>2 DEF GroupsKept
    <3> HIDE DEF w
    <3>2. ASSUME NEW g \in GroupsIn(d)
          PROVE  /\ w[g] = Tallied(MembersOf(d, g), MembersOf(d, g), w[g].least)
                 /\ g \in stale \/ LeastOf(MembersOf(d, g), w[g].least)
      <4>1. CASE g = h
        <5>1. w[g] = Tallied(n, n, l) /\ MembersOf(d, g) = n /\ w[g].least = l
          BY <1>7, <3>1, <4>1, TalliedParts
        <5> QED
          BY <1>5, <2>2, <4>1, <5>1
      <4>2. CASE g # h
        <5>1. w[g] = gs[g] /\ MembersOf(d, g) = MembersOf(c, g) /\ g \in GroupsIn(c)
          BY <1>2, <3>1, <4>2
        <5> QED
          BY <1>3, <5>1 DEF GroupsKept
      <4> QED
        BY <4>1, <4>2
    <3> QED
      BY <3>1, <3>2 DEF GroupsKept
  <2> HIDE DEF w, stale, u
  <2>4. /\ IsUpdate(u) /\ u.groups = w /\ u.members = st.members - 1 /\ u.ok = st.ok
        /\ u.outdated = stale /\ u.reorder = TRUE
    BY <1>3, <2>1 DEF IsUpdate, UpdateFields
  <2> QED
    BY <1>9, <1>10, <2>3, <2>4 DEF Kept, Unmoved, d, u
<1> QED
  BY <1>11, <1>12

\* A member enters; the limits are looked at.
LEMMA InsertedKeeps ==
  ASSUME NEW a, NEW c \in Contents, NEW st, Kept(st, a, c), st.ok, NEW k \in Keys,
         c[k] \notin Matching, NEW r \in Matching, ~CountsOnly
  PROVE  Kept(Inserted(st, k, r), a, [c EXCEPT ![k] = r])
<1> DEFINE d == [c EXCEPT ![k] = r]
           h == GroupOf[r]
           gs == st.groups
           w == Upsert(gs, k, r)
           n == st.members + 1
           u == Inserted(st, k, r)
<1>1. /\ IsUpdate(st) /\ GroupsKept(gs, c, st.outdated)
      /\ st.members = Cardinality(SelectedIn(c))
  BY DEF Kept
<1>2. GroupsKept(w, d, st.outdated)
  BY <1>1, UpsertKeeps
<1>3. d \in Contents /\ SelectedIn(d) = SelectedIn(c) \union {k} /\ k \notin SelectedIn(c)
  <2>1. Enters(c, d, k, r)
    BY Entering
  <2> HIDE DEF d
  <2> QED
    BY <2>1 DEF Enters
<1>4. n = Cardinality(SelectedIn(d))
  <2>1. IsFiniteSet(SelectedIn(c))
    BY SelectedIsFinite
  <2>2. Cardinality(SelectedIn(c) \union {k}) = Cardinality(SelectedIn(c)) + 1
    BY <1>3, <2>1, FS_AddElement
  <2> HIDE DEF d
  <2> QED
    BY <1>1, <1>3, <2>2
<1>5. ~(h \in DOMAIN gs /\ k \in DOMAIN gs[h].members)
  <2> SUFFICES ASSUME h \in DOMAIN gs, k \in DOMAIN gs[h].members PROVE FALSE
    OBVIOUS
  <2>1. gs[h] = Tallied(MembersOf(c, h), MembersOf(c, h), gs[h].least)
    BY <1>1 DEF GroupsKept
  <2>2. Tallied(MembersOf(c, h), MembersOf(c, h), gs[h].least).members = MembersOf(c, h)
    BY TalliedParts
  <2>3. k \in KeysIn(c, h)
    BY <2>1, <2>2 DEF MembersOf
  <2> QED
    BY <2>3 DEF KeysIn
<1>6. u = [st EXCEPT !.groups = w, !.members = n, !.reorder = TRUE, !.ok = Admitted(w, n)]
  BY <1>5 DEF Inserted
<1>7. Admitted(w, n) <=> Within(d)
  BY <1>2, <1>3, <1>4, AdmittedIsWithin
<1>8. Admitted(w, n) \in BOOLEAN
  BY DEF Admitted
<1> HIDE DEF w, n, u, d
<1>9. /\ IsUpdate(u) /\ u.groups = w /\ u.members = n /\ u.ok = Admitted(w, n)
      /\ u.outdated = st.outdated /\ u.reorder = TRUE
  BY <1>1, <1>6, <1>8 DEF IsUpdate, UpdateFields
<1> QED
  BY <1>2, <1>4, <1>7, <1>9 DEF Kept, Unmoved, d, u

\* A member is replaced in its group.
LEMMA ReplacedKeeps ==
  ASSUME NEW a, NEW c \in Contents, NEW st, Kept(st, a, c), st.ok, NEW k \in Keys,
         c[k] \in Matching, NEW r \in Matching, GroupOf[r] = GroupOf[c[k]]
  PROVE  Kept(Replaced(st, k, c[k], r), a, [c EXCEPT ![k] = r])
<1> DEFINE d == [c EXCEPT ![k] = r]
           h == GroupOf[c[k]]
           v == ValueOf[c[k]]
           m == MembersOf(c, h)
           n == With(m, k, r)
           gs == st.groups
           l == gs[h].least
           p == IF l = -1 \/ ValueOf[r] < l THEN ValueOf[r] ELSE l
           was == WithMember(gs[h], k, r)
           u == Replaced(st, k, c[k], r)
<1>0. Remains(c, d, k, r) /\ GroupOf[r] = h
  BY Staying
<1>1. /\ d \in Contents /\ k \in KeysIn(c, h) /\ h \in GroupsIn(c) /\ r \in Rows
      /\ SelectedIn(d) = SelectedIn(c) /\ GroupsIn(d) = GroupsIn(c)
  <2> HIDE DEF d, h
  <2> QED
    BY <1>0 DEF Remains
<1>2. \A g : /\ KeysIn(d, g) = KeysIn(c, g)
             /\ MembersOf(d, g) = IF g = h THEN With(MembersOf(c, g), k, r) ELSE MembersOf(c, g)
  <2> HIDE DEF d, h
  <2> QED
    BY <1>0 DEF Remains
<1>3. /\ IsUpdate(st) /\ GroupsKept(gs, c, st.outdated)
      /\ st.members = Cardinality(SelectedIn(c)) /\ Within(c) /\ Unmoved(st, a, c)
  BY DEF Kept
<1>4. AreMembers(m) /\ k \in DOMAIN m /\ m[k] = c[k]
  BY <1>1, MembersAre
<1>5. h \in DOMAIN gs /\ gs[h] = Tallied(m, m, l) /\ (h \in st.outdated \/ LeastOf(m, l))
  BY <1>1, <1>3 DEF GroupsKept
<1>6. was = Tallied(n, m, l)
  <2> HIDE DEF m, n, l, was
  <2>1. WithMember(Tallied(m, m, l), k, r) = Tallied(With(m, k, r), m, l)
    BY MemberListed
  <2> QED
    BY <1>5, <2>1 DEF was, n
<1> HIDE DEF d, m
<1>7. n = MembersOf(d, h)
  BY <1>2 DEF m
<1>8. Within(d)
  BY <1>1, <1>2, <1>3, FewerWithin
<1>9. \A x \in Keys : x # k => d[x] = c[x]
  BY DEF d
<1>10. d[k] = r
  BY DEF d, Contents
<1>11. ASSUME NEW w, NEW stale, NEW q, st.outdated \subseteq stale,
              w = [gs EXCEPT ![h] = Tallied(n, n, q)], h \in stale \/ LeastOf(n, q)
       PROVE  GroupsKept(w, d, stale)
  <2>1. /\ DOMAIN w = GroupsIn(d) /\ w[h] = Tallied(n, n, q)
        /\ \A g \in GroupsIn(d) : g # h => w[g] = gs[g]
    BY <1>1, <1>3, <1>5, <1>11 DEF GroupsKept
  <2> HIDE DEF n
  <2>2. ASSUME NEW g \in GroupsIn(d)
        PROVE  /\ w[g] = Tallied(MembersOf(d, g), MembersOf(d, g), w[g].least)
               /\ g \in stale \/ LeastOf(MembersOf(d, g), w[g].least)
    <3>1. CASE g = h
      <4>1. w[g] = Tallied(n, n, q) /\ MembersOf(d, g) = n /\ w[g].least = q
        BY <1>7, <2>1, <3>1, TalliedParts
      <4> QED
        BY <1>11, <3>1, <4>1
    <3>2. CASE g # h
      <4>1. w[g] = gs[g] /\ MembersOf(d, g) = MembersOf(c, g) /\ g \in GroupsIn(c)
        BY <1>1, <1>2, <2>1, <3>2
      <4> QED
        BY <1>3, <1>11, <4>1 DEF GroupsKept
    <3> QED
      BY <3>1, <3>2
  <2> QED
    BY <2>1, <2>2 DEF GroupsKept
<1>12. CASE v = ValueOf[r]
  <2> DEFINE w == [gs EXCEPT ![h] = was]
  <2>1. u = [st EXCEPT !.groups = w]
    BY <1>12 DEF Replaced
  <2>2. Tallied(n, m, l) = Tallied(n, n, l) /\ (LeastOf(m, l) <=> LeastOf(n, l))
    <3>1. AreMembers(n) /\ DOMAIN n = DOMAIN m /\ \A x \in DOMAIN m : ValueOf[m[x]] = ValueOf[n[x]]
      BY <1>1, <1>4, <1>12 DEF AreMembers, With
    <3> HIDE DEF n
    <3> QED
      BY <1>4, <3>1, TalliedAlike
  <2>3. GroupsKept(w, d, st.outdated)
    BY <1>5, <1>6, <1>11, <2>2
  <2>4. Unmoved(st, a, d)
    BY <1>1, <1>3, <1>9, <1>10, <1>12 DEF Unmoved, SameGroups
  <2> HIDE DEF w, u
  <2>5. /\ IsUpdate(u) /\ u.groups = w /\ u.members = st.members /\ u.ok = st.ok
        /\ u.outdated = st.outdated /\ u.changed = st.changed /\ u.reorder = st.reorder
    BY <1>3, <2>1 DEF IsUpdate, UpdateFields
  <2> QED
    BY <1>1, <1>3, <1>8, <2>3, <2>4, <2>5 DEF Kept, Unmoved, d, u
<1>13. CASE v # ValueOf[r]
  <2> DEFINE new == AddValue(RemoveValue(was, v), ValueOf[r])
             w == [gs EXCEPT ![h] = new]
             stale == IF Outdated(was, v) THEN st.outdated \union {h} ELSE st.outdated
             changed == st.changed \union {h}
             reorder == st.reorder \/ OrderedByValue
  <2>1. u = [st EXCEPT !.groups = w, !.outdated = stale, !.changed = changed, !.reorder = reorder]
    <3>1. u = [st EXCEPT !.groups[h] = new, !.outdated = stale, !.changed = @ \union {h},
                         !.reorder = @ \/ OrderedByValue]
      BY <1>13 DEF Replaced
    <3> HIDE DEF new, u, stale
    <3> QED
      BY <3>1
  <2>2. /\ new = Tallied(n, n, p)
        /\ ~Outdated(was, v) /\ LeastOf(m, l) => LeastOf(n, p)
    <3> DEFINE o == Without(m, k)
    <3>1. /\ RemoveValue(Tallied(n, m, l), v) = Tallied(n, o, l)
          /\ ~Outdated(Tallied(n, m, l), v) /\ LeastOf(m, l) => LeastOf(o, l)
      BY <1>4, RemoveTally
    <3>2. AreMembers(o) /\ k \notin DOMAIN o
      BY <1>4, FewerMembers
    <3>3. With(o, k, r) = n
      BY <1>4 DEF With, Without
    <3> HIDE DEF o, n, was, p
    <3>4. /\ AddValue(Tallied(n, o, l), ValueOf[r]) = Tallied(n, With(o, k, r), p)
          /\ LeastOf(o, l) => LeastOf(With(o, k, r), p)
      BY <1>1, <3>2, AddTally DEF p
    <3> QED
      BY <1>6, <3>1, <3>3, <3>4
  <2> HIDE DEF new, was, p
  <2>3. GroupsKept(w, d, stale)
    <3>1. h \in stale \/ LeastOf(n, p)
      BY <1>5, <2>2
    <3> HIDE DEF n
    <3> QED
      BY <1>11, <2>2, <3>1
  <2>4. ~reorder => SameGroups(a, d, changed) /\ ~OrderedByValue
    BY <1>1, <1>3, <1>9, <1>10 DEF Unmoved, SameGroups
  <2>5. stale = st.outdated \/ stale = st.outdated \union {h}
    OBVIOUS
  <2>6. reorder \in BOOLEAN
    BY <1>3 DEF IsUpdate, OrderedByValue
  <2> HIDE DEF w, u, stale, changed, reorder
  <2>7. /\ IsUpdate(u) /\ u.groups = w /\ u.members = st.members /\ u.ok = st.ok
        /\ u.outdated = stale /\ u.changed = changed /\ u.reorder = reorder
    BY <1>3, <2>1, <2>6 DEF IsUpdate, UpdateFields
  <2> QED
    BY <1>1, <1>3, <1>8, <2>3, <2>4, <2>7 DEF Kept, Unmoved, d, u
<1> QED
  BY <1>12, <1>13
-------------------------------------------------------------------------------
\* Rows that are not selected leave an update what it is.
LEMMA KeptPassing ==
  ASSUME NEW a, NEW c \in Contents, NEW st, Kept(st, a, c), NEW k \in Keys, c[k] \notin Matching,
         NEW r \in Rows \union {NoRow}, r \notin Matching
  PROVE  Kept(st, a, [c EXCEPT ![k] = r])
<1> DEFINE d == [c EXCEPT ![k] = r]
<1>1. /\ d \in Contents
      /\ \A g : KeysIn(d, g) = KeysIn(c, g) /\ MembersOf(d, g) = MembersOf(c, g)
      /\ SelectedIn(d) = SelectedIn(c) /\ GroupsIn(d) = GroupsIn(c)
  BY Passing
<1>2. d[k] = r /\ \A x \in Keys : x # k => d[x] = c[x]
  BY DEF Contents
<1> HIDE DEF d
<1>3. GroupsKept(st.groups, c, st.outdated) => GroupsKept(st.groups, d, st.outdated)
  BY <1>1 DEF GroupsKept
<1>4. Within(c) => Within(d)
  BY <1>1 DEF Within
<1>5. Unmoved(st, a, c) => Unmoved(st, a, d)
  <2>1. \A s : SameGroups(a, c, s) => SameGroups(a, d, s)
    BY <1>2 DEF SameGroups
  <2> QED
    BY <2>1 DEF Unmoved
<1> QED
  BY <1>1, <1>3, <1>4, <1>5 DEF Kept, d

\* A change of the row c has for its key.
Follows(ch, c) ==
  ch.key \in Keys /\ ch.previous = c[ch.key] /\ ch.next \in Rows \union {NoRow}

After(c, ch) == [c EXCEPT ![ch.key] = ch.next]

\* One change brings the groups up to date with it.
LEMMA ApplyChangeKeeps ==
  ASSUME NEW a, NEW c \in Contents, NEW st, Kept(st, a, c), NEW ch, Follows(ch, c), ~CountsOnly
  PROVE  Kept(ApplyChange(st, ch), a, After(c, ch))
<1> DEFINE k == ch.key
           old == c[k]
           new == ch.next
           d == [c EXCEPT ![k] = new]
           e == [c EXCEPT ![k] = NoRow]
           left == IF ch.previous \in Matching THEN Removed(st, k, ch.previous) ELSE st
           u == ApplyChange(st, ch)
<1>1. /\ k \in Keys /\ ch.previous = old /\ new \in Rows \union {NoRow} /\ After(c, ch) = d
  BY DEF Follows, After
<1>2. u = IF ~st.ok THEN st
          ELSE IF Stays(st.groups, ch) THEN Replaced(st, k, old, new)
          ELSE IF new \in Matching THEN Inserted(left, k, new)
          ELSE left
  BY <1>1 DEF ApplyChange
<1> DEFINE within == /\ {old, new} \subseteq Matching /\ GroupOf[old] = GroupOf[new]
<1>3. st.ok => (Stays(st.groups, ch) <=> within)
  <2> SUFFICES ASSUME st.ok, within PROVE Stays(st.groups, ch)
    BY <1>1 DEF Stays
  <2> DEFINE h == GroupOf[old]
  <2>1. k \in KeysIn(c, h) /\ h \in GroupsIn(c)
    BY <1>1, Leaving DEF Leaves
  <2>2. h \in DOMAIN st.groups /\ st.groups[h] = Tallied(MembersOf(c, h), MembersOf(c, h), st.groups[h].least)
    BY <2>1 DEF Kept, GroupsKept
  <2>3. st.groups[h].members = MembersOf(c, h)
    BY <2>2, TalliedParts
  <2>4. k \in DOMAIN st.groups[h].members
    BY <2>1, <2>3 DEF MembersOf
  <2> QED
    BY <1>1, <2>2, <2>4 DEF Stays
<1>4. NoRow \notin Matching
  BY GroupedAssumption
<1>5. CASE ~st.ok
  BY <1>1, <1>2, <1>5 DEF Kept
<1>6. CASE st.ok /\ within
  <2>1. u = Replaced(st, k, old, new)
    BY <1>2, <1>3, <1>6
  <2>2. Kept(Replaced(st, k, c[k], new), a, [c EXCEPT ![k] = new])
    BY <1>1, <1>6, ReplacedKeeps
  <2> QED
    BY <1>1, <2>1, <2>2
<1>7. CASE st.ok /\ ~within /\ old \in Matching
  <2>1. left = Removed(st, k, old)
    BY <1>1, <1>7
  <2>0. Kept(Removed(st, k, c[k]), a, e) /\ Removed(st, k, c[k]).ok
    <3>1. k \in Keys /\ c[k] \in Matching /\ st.ok
      BY <1>1, <1>7
    <3> HIDE DEF k, old, new, left, u
    <3> QED
      BY <3>1, RemovedKeeps
  <2>2. Kept(left, a, e) /\ left.ok
    BY <2>0, <2>1
  <2>3. e \in Contents /\ e[k] = NoRow
    BY <1>1 DEF Contents
  <2>4. [e EXCEPT ![k] = new] = d
    OBVIOUS
  <2> HIDE DEF e, left, d, u
  <2>5. CASE new \in Matching
    <3>1. u = Inserted(left, k, new)
      BY <1>2, <1>3, <1>7, <2>5
    <3>2. Kept(Inserted(left, k, new), a, [e EXCEPT ![k] = new])
      BY <1>1, <1>4, <2>2, <2>3, <2>5, InsertedKeeps
    <3> QED
      BY <1>1, <2>4, <3>1, <3>2 DEF u
  <2>6. CASE new \notin Matching
    <3>1. u = left
      BY <1>2, <1>3, <1>7, <2>6
    <3>2. Kept(left, a, [e EXCEPT ![k] = new])
      BY <1>1, <1>4, <2>2, <2>3, <2>6, KeptPassing
    <3> QED
      BY <1>1, <2>4, <3>1, <3>2 DEF u
  <2> QED
    BY <2>5, <2>6
<1>8. CASE st.ok /\ old \notin Matching
  <2>1. left = st
    BY <1>1, <1>8
  <2> HIDE DEF left, u
  <2>2. CASE new \in Matching
    <3>1. u = Inserted(st, k, new)
      BY <1>2, <1>3, <1>8, <2>1, <2>2
    <3>2. Kept(Inserted(st, k, new), a, d)
      BY <1>1, <1>8, <2>2, InsertedKeeps
    <3> QED
      BY <1>1, <3>1, <3>2 DEF u
  <2>3. CASE new \notin Matching
    <3>1. u = st
      BY <1>2, <1>3, <1>8, <2>1, <2>3
    <3>2. Kept(st, a, d)
      BY <1>1, <1>8, <2>3, KeptPassing
    <3> QED
      BY <1>1, <3>1, <3>2 DEF u
  <2> QED
    BY <2>2, <2>3
<1> QED
  BY <1>5, <1>6, <1>7, <1>8
-------------------------------------------------------------------------------
(* A query that shows no rows. *)

\* The sizes gs are those of the groups of the contents c.
CountsKept(gs, c) ==
  DOMAIN gs = GroupsIn(c) /\ \A g \in GroupsIn(c) : gs[g] = Cardinality(KeysIn(c, g))

\* One row more in its group.
LEMMA CountEntering ==
  ASSUME NEW c \in Contents, NEW gs, CountsKept(gs, c), NEW k \in Keys, c[k] \notin Matching,
         NEW r \in Matching
  PROVE  CountsKept(Count(gs, GroupOf[r], 1), [c EXCEPT ![k] = r])
<1> DEFINE d == [c EXCEPT ![k] = r]
           h == GroupOf[r]
           was == IF h \in DOMAIN gs THEN gs[h] ELSE 0
           u == Count(gs, h, 1)
<1>0. Enters(c, d, k, r)
  BY Entering
<1>1. d \in Contents /\ GroupsIn(d) = GroupsIn(c) \union {h} /\ h \in GroupKeys
  <2> HIDE DEF d
  <2> QED
    BY <1>0 DEF Enters
<1>2. \A f : /\ k \notin KeysIn(c, f)
            /\ MembersOf(d, f) = IF f = h THEN With(MembersOf(c, f), k, r) ELSE MembersOf(c, f)
  <2> HIDE DEF d
  <2> QED
    BY <1>0 DEF Enters
<1>3. \A f : KeysIn(d, f) = IF f = h THEN KeysIn(c, f) \union {k} ELSE KeysIn(c, f)
  <2>1. \A f : KeysIn(d, f) = DOMAIN MembersOf(d, f) /\ KeysIn(c, f) = DOMAIN MembersOf(c, f)
    BY DEF MembersOf
  <2> QED
    BY <1>2, <2>1 DEF With
<1>4. was = Cardinality(KeysIn(c, h))
  <2>1. CASE h \in DOMAIN gs
    BY <2>1 DEF CountsKept
  <2>2. CASE h \notin DOMAIN gs
    <3>1. KeysIn(c, h) = {}
      BY <2>2, MembersAre DEF CountsKept
    <3> QED
      BY <2>2, <3>1, FS_EmptySet
  <2> QED
    BY <2>1, <2>2
<1>5. Cardinality(KeysIn(c, h)) \in Nat /\ Cardinality(KeysIn(d, h)) = was + 1
  <2>1. IsFiniteSet(KeysIn(c, h)) /\ Cardinality(KeysIn(c, h)) \in Nat
    BY MembersAre
  <2>2. KeysIn(d, h) = KeysIn(c, h) \union {k} /\ k \notin KeysIn(c, h)
    BY <1>2, <1>3
  <2> HIDE DEF was, d, u
  <2>3. Cardinality(KeysIn(c, h) \union {k}) = Cardinality(KeysIn(c, h)) + 1
    BY <2>1, <2>2, FS_AddElement
  <2> QED
    BY <1>4, <2>1, <2>2, <2>3
<1>6. u = IF was + 1 = 0 THEN Without(gs, h) ELSE With(gs, h, was + 1)
  BY DEF Count
<1> HIDE DEF was, d, u
<1>7. u = With(gs, h, Cardinality(KeysIn(d, h)))
  BY <1>4, <1>5, <1>6
<1>8. DOMAIN u = GroupsIn(d)
  BY <1>1, <1>7 DEF CountsKept, With
<1>9. ASSUME NEW g \in GroupsIn(d) PROVE u[g] = Cardinality(KeysIn(d, g))
  <2>1. u[g] = IF g = h THEN Cardinality(KeysIn(d, h)) ELSE gs[g]
    BY <1>7, <1>8 DEF With
  <2>2. g # h => g \in GroupsIn(c) /\ KeysIn(d, g) = KeysIn(c, g)
    BY <1>1, <1>3
  <2> QED
    BY <2>1, <2>2 DEF CountsKept
<1> QED
  BY <1>8, <1>9 DEF CountsKept, d, u

\* One row less.
LEMMA CountLeaving ==
  ASSUME NEW c \in Contents, NEW gs, CountsKept(gs, c), NEW k \in Keys, c[k] \in Matching
  PROVE  CountsKept(Count(gs, GroupOf[c[k]], -1), [c EXCEPT ![k] = NoRow])
<1> DEFINE d == [c EXCEPT ![k] = NoRow]
           h == GroupOf[c[k]]
           was == IF h \in DOMAIN gs THEN gs[h] ELSE 0
           u == Count(gs, h, -1)
<1>0. Leaves(c, d, k)
  BY Leaving
<1>1. /\ d \in Contents /\ k \in KeysIn(c, h) /\ h \in GroupsIn(c)
      /\ KeysIn(d, h) = KeysIn(c, h) \ {k}
      /\ GroupsIn(d) = IF KeysIn(d, h) = {} THEN GroupsIn(c) \ {h} ELSE GroupsIn(c)
  <2> HIDE DEF d
  <2> QED
    BY <1>0 DEF Leaves
<1>2. \A f : MembersOf(d, f) = IF f = h THEN Without(MembersOf(c, f), k) ELSE MembersOf(c, f)
  <2> HIDE DEF d
  <2> QED
    BY <1>0 DEF Leaves
<1>3. \A f : f # h => KeysIn(d, f) = KeysIn(c, f)
  <2>1. \A f : KeysIn(d, f) = DOMAIN MembersOf(d, f) /\ KeysIn(c, f) = DOMAIN MembersOf(c, f)
    BY DEF MembersOf
  <2> QED
    BY <1>2, <2>1
<1>4. was = Cardinality(KeysIn(c, h)) /\ h \in DOMAIN gs
  BY <1>1 DEF CountsKept
<1> HIDE DEF d
<1>5. /\ Cardinality(KeysIn(c, h)) \in Nat /\ Cardinality(KeysIn(d, h)) = was - 1
      /\ was - 1 = 0 <=> KeysIn(d, h) = {}
  <2>1. IsFiniteSet(KeysIn(c, h)) /\ IsFiniteSet(KeysIn(d, h)) /\ Cardinality(KeysIn(c, h)) \in Nat
    BY <1>1, MembersAre
  <2>2. Cardinality(KeysIn(d, h)) = Cardinality(KeysIn(c, h)) - 1
    BY <1>1, <2>1, FS_RemoveElement
  <2>3. Cardinality(KeysIn(d, h)) = 0 <=> KeysIn(d, h) = {}
    BY <2>1, FS_EmptySet
  <2> QED
    BY <1>4, <2>1, <2>2, <2>3
<1>6. u = IF was + (-1) = 0 THEN Without(gs, h) ELSE With(gs, h, was + (-1))
  BY DEF Count
<1> HIDE DEF was, u
<1>6a. was \in Nat
  BY <1>4, <1>5
<1>7. u = IF KeysIn(d, h) = {} THEN Without(gs, h) ELSE With(gs, h, Cardinality(KeysIn(d, h)))
  <2>1. was + (-1) = was - 1
    BY <1>6a
  <2> QED
    BY <1>5, <1>6, <2>1
<1>8. DOMAIN gs = GroupsIn(c) /\ \A g \in GroupsIn(c) : gs[g] = Cardinality(KeysIn(c, g))
  BY DEF CountsKept
<1>9. CASE KeysIn(d, h) = {}
  <2>1. DOMAIN u = GroupsIn(d) /\ \A g \in GroupsIn(d) : g # h /\ g \in GroupsIn(c) /\ u[g] = gs[g]
    BY <1>1, <1>7, <1>8, <1>9 DEF Without
  <2> QED
    BY <1>3, <1>8, <2>1 DEF CountsKept, d, u
<1>10. CASE KeysIn(d, h) # {}
  <2>1. /\ DOMAIN u = GroupsIn(d) /\ GroupsIn(d) = GroupsIn(c)
        /\ \A g \in GroupsIn(d) : u[g] = IF g = h THEN Cardinality(KeysIn(d, h)) ELSE gs[g]
    BY <1>1, <1>7, <1>8, <1>10 DEF With
  <2> QED
    BY <1>3, <1>8, <2>1 DEF CountsKept, d, u
<1> QED
  BY <1>9, <1>10

\* The update st leads to the sizes of the groups of c, or beyond the limits.
Counted(st, c) ==
  /\ IsUpdate(st) /\ st.reorder
  /\ st.ok => CountsKept(st.groups, c) /\ Cardinality(GroupsIn(c)) <= MaxGroups

\* One change brings the sizes up to date with it.
LEMMA CountChangeKeeps ==
  ASSUME NEW c \in Contents, NEW st, Counted(st, c), NEW ch, Follows(ch, c), CountsOnly
  PROVE  Counted(CountChange(st, ch), After(c, ch))
<1> DEFINE k == ch.key
           old == c[k]
           new == ch.next
           d == [c EXCEPT ![k] = new]
           e == [c EXCEPT ![k] = NoRow]
           left == IF ch.previous \in Matching THEN Count(st.groups, GroupOf[ch.previous], -1)
                   ELSE st.groups
           next == IF new \in Matching THEN Count(left, GroupOf[new], 1) ELSE left
           ok == new \in Matching => Admitted(next, 0)
           u == CountChange(st, ch)
<1>1. k \in Keys /\ ch.previous = old /\ new \in Rows \union {NoRow} /\ After(c, ch) = d
  BY DEF Follows, After
<1>2. u = IF ~st.ok THEN st ELSE [st EXCEPT !.groups = next, !.ok = ok]
  BY DEF CountChange
<1>3. NoRow \notin Matching
  BY GroupedAssumption
<1>4. CASE ~st.ok
  BY <1>1, <1>2, <1>4 DEF Counted
<1>5. CASE st.ok
  <2>1. CountsKept(st.groups, c) /\ Cardinality(GroupsIn(c)) <= MaxGroups /\ IsUpdate(st) /\ st.reorder
    BY <1>5 DEF Counted
  <2>2. e \in Contents /\ e[k] = NoRow /\ [e EXCEPT ![k] = new] = d /\ d \in Contents
    BY <1>1 DEF Contents
  <2>3. CountsKept(left, e)
    <3>1. CASE old \in Matching
      <4>1. left = Count(st.groups, GroupOf[c[k]], -1)
        BY <1>1, <3>1
      <4> QED
        BY <1>1, <2>1, <3>1, <4>1, CountLeaving
    <3>2. CASE old \notin Matching
      <4>1. left = st.groups
        BY <1>1, <3>2
      <4>2. GroupsIn(e) = GroupsIn(c) /\ \A g : KeysIn(e, g) = KeysIn(c, g)
        <5>1. k \in Keys /\ c[k] \notin Matching /\ NoRow \notin Matching
          BY <1>1, <1>3, <3>2
        <5> HIDE DEF k, left, next, u
        <5>2. NoRow \in Rows \union {NoRow}
          OBVIOUS
        <5>3. GroupsIn([c EXCEPT ![k] = NoRow]) = GroupsIn(c)
          BY <5>1, <5>2, Passing
        <5>4. \A g : KeysIn([c EXCEPT ![k] = NoRow], g) = KeysIn(c, g)
          BY <5>1, <5>2, Passing
        <5> QED
          BY <5>3, <5>4
      <4> QED
        BY <2>1, <4>1, <4>2 DEF CountsKept
    <3> QED
      BY <3>1, <3>2
  <2>4. GroupsIn(e) \subseteq GroupsIn(c)
    BY <1>1, <1>3 DEF GroupsIn, KeysIn, Contents
  <2> HIDE DEF e, left, u
  <2>5. CountsKept(next, d)
    <3>1. CASE new \in Matching
      BY <1>1, <1>3, <2>2, <2>3, <3>1, CountEntering
    <3>2. CASE new \notin Matching
      <4>1. GroupsIn(d) = GroupsIn(e) /\ \A g : KeysIn(d, g) = KeysIn(e, g)
        <5>1. k \in Keys /\ e[k] \notin Matching /\ e \in Contents /\ [e EXCEPT ![k] = new] = d
          BY <1>1, <1>3, <2>2
        <5> HIDE DEF d, k, new, next, ok
        <5>2. new \in Rows \union {NoRow} /\ new \notin Matching
          BY <1>1, <3>2
        <5> QED
          BY <5>1, <5>2, Passing
      <4> QED
        BY <2>3, <3>2, <4>1 DEF CountsKept
    <3> QED
      BY <3>1, <3>2
  <2>6. ok => Cardinality(GroupsIn(d)) <= MaxGroups
    <3>1. CASE new \in Matching
      BY <2>5, <3>1 DEF CountsKept, Admitted
    <3>2. CASE new \notin Matching
      <4>1. GroupsIn(d) = GroupsIn(e)
        BY <1>1, <1>3, <2>2, <3>2, Passing
      <4>2. /\ Cardinality(GroupsIn(d)) <= Cardinality(GroupsIn(c))
            /\ Cardinality(GroupsIn(d)) \in Nat /\ Cardinality(GroupsIn(c)) \in Nat
        <5>1. /\ IsFiniteSet(GroupsIn(c)) /\ Cardinality(GroupsIn(c)) \in Nat
              /\ Cardinality(GroupsIn(e)) \in Nat
          BY <2>2, GroupsAreFinite
        <5> QED
          BY <2>4, <4>1, <5>1, FS_Subset
      <4> QED
        BY <2>1, <4>2, GroupedAssumption
    <3> QED
      BY <3>1, <3>2
  <2>7. ok \in BOOLEAN
    OBVIOUS
  <2> HIDE DEF next, ok, d
  <2>8. IsUpdate(u) /\ u.groups = next /\ u.ok = ok /\ u.reorder = st.reorder
    BY <1>2, <1>5, <2>1, <2>7 DEF IsUpdate, UpdateFields
  <2> QED
    BY <1>1, <2>1, <2>5, <2>6, <2>8 DEF Counted, u
<1> QED
  BY <1>4, <1>5
-------------------------------------------------------------------------------
(* Folds, step by step.  The rows of a scan, the changes of a version and the *)
(* versions of the journal are folded alike.                                 *)

Step(kind, x, e) ==
  IF kind = "row" THEN AddRow(x, e)
  ELSE IF kind = "change" THEN AnyChange(x, e)
  ELSE ApplyLater(x, e)

\* f folds the first m elements of the sequence s.
FoldsTo(f, kind, base, s, m) ==
  f = [t \in SUBSET (1..m) |-> IF t = {} THEN base ELSE Step(kind, f[t \ {Max(t)}], s[Max(t)])]

\* There is a fold.
LEMMA FoldExists ==
  ASSUME NEW kind, NEW base, NEW s, NEW n \in Nat
  PROVE  \E f : FoldsTo(f, kind, base, s, n)
<1> DEFINE P == {m \in Nat : \E f : FoldsTo(f, kind, base, s, m)}
<1>1. 0 \in P
  <2> DEFINE g == [t \in SUBSET (1..0) |-> base]
  <2>1. \A t \in SUBSET (1..0) : t = {}
    OBVIOUS
  <2>2. FoldsTo(g, kind, base, s, 0)
    BY <2>1 DEF FoldsTo
  <2> QED
    BY <2>2
<1>2. ASSUME NEW m \in 1..n, m - 1 \in P PROVE m \in P
  <2> DEFINE k == m - 1
  <2>1. k \in Nat /\ m = k + 1 /\ m \in Nat
    OBVIOUS
  <2>2. PICK f : FoldsTo(f, kind, base, s, k)
    BY <1>2
  <2> HIDE DEF k
  <2> DEFINE g == [t \in SUBSET (1..m) |->
                     IF t \in SUBSET (1..k) THEN f[t] ELSE Step(kind, f[t \ {m}], s[m])]
  <2>3. \A t \in SUBSET (1..k) : /\ t \in SUBSET (1..m) /\ g[t] = f[t]
                                 /\ t \ {Max(t)} \in SUBSET (1..k)
    <3>1. 1..k \subseteq 1..m
      BY <2>1
    <3>2. ASSUME NEW t \in SUBSET (1..k)
          PROVE  t \in SUBSET (1..m) /\ t \ {Max(t)} \in SUBSET (1..k)
      BY <3>1
    <3>3. ASSUME NEW t \in SUBSET (1..k) PROVE g[t] = f[t]
      BY <3>2
    <3> QED
      BY <3>2, <3>3
  <2>4. \A t \in SUBSET (1..m) : t \notin SUBSET (1..k) =>
          /\ m \in t /\ t # {} /\ Max(t) = m /\ t \ {m} \in SUBSET (1..k)
          /\ g[t] = Step(kind, f[t \ {m}], s[m])
    <3>1. ASSUME NEW t \in SUBSET (1..m), t \notin SUBSET (1..k)
          PROVE  m \in t /\ t \ {m} \in SUBSET (1..k)
      BY <2>1, <3>1
    <3> QED
      BY <2>1, <3>1, GreatestIs
  <2>5. ASSUME NEW t \in SUBSET (1..m)
        PROVE  g[t] = IF t = {} THEN base ELSE Step(kind, g[t \ {Max(t)}], s[Max(t)])
    <3>1. CASE t \in SUBSET (1..k)
      <4>1. f[t] = IF t = {} THEN base ELSE Step(kind, f[t \ {Max(t)}], s[Max(t)])
        BY <2>2, <3>1 DEF FoldsTo
      <4> HIDE DEF g
      <4> QED
        BY <2>3, <3>1, <4>1
    <3>2. CASE t \notin SUBSET (1..k)
      <4> HIDE DEF g
      <4> QED
        BY <2>3, <2>4, <3>2
    <3> QED
      BY <3>1, <3>2
  <2>6. g = [t \in SUBSET (1..m) |-> g[t]]
    OBVIOUS
  <2> HIDE DEF g
  <2>7. FoldsTo(g, kind, base, s, m)
    BY <2>5, <2>6 DEF FoldsTo
  <2> QED
    BY <2>1, <2>7
<1>3. \A i \in 0..n : i \in P
  <2> HIDE DEF P
  <2> QED
    BY <1>1, <1>2, CountUp, Zenon
<1>4. n \in 0..n
  OBVIOUS
<1> QED
  BY <1>3, <1>4

\* A fold takes one step for each element.
LEMMA FoldSteps ==
  ASSUME NEW kind, NEW base, NEW s, NEW n \in Nat, NEW f, FoldsTo(f, kind, base, s, n)
  PROVE  f[1..0] = base /\ \A m \in 1..n : f[1..m] = Step(kind, f[1..(m - 1)], s[m])
<1>1. \A t \in SUBSET (1..n) : f[t] = IF t = {} THEN base ELSE Step(kind, f[t \ {Max(t)}], s[Max(t)])
  BY DEF FoldsTo
<1>2. f[1..0] = base
  <2>1. 1..0 = {} /\ {} \in SUBSET (1..n)
    OBVIOUS
  <2> QED
    BY <1>1, <2>1
<1>3. ASSUME NEW m \in 1..n PROVE f[1..m] = Step(kind, f[1..(m - 1)], s[m])
  <2>1. m \in Nat /\ m <= n /\ 1 <= m
    OBVIOUS
  <2>2. 1..m \in SUBSET (1..n) /\ m \in 1..m /\ 1..m # {} /\ (1..m) \ {m} = 1..(m - 1)
    BY <2>1
  <2>3. Max(1..m) = m
    BY <2>1, <2>2, GreatestIs
  <2> QED
    BY <1>1, <2>2, <2>3
<1> QED
  BY <1>2, <1>3

\* The sequence s folds to the last of the states c.
Runs(c, kind, base, s) ==
  /\ c[0] = base
  /\ \A m \in 1..Len(s) : c[m] = Step(kind, c[m - 1], s[m])

\* The rows of a scan.
LEMMA ScanFolds ==
  ASSUME NEW base, NEW s, Len(s) \in Nat, DOMAIN s = 1..Len(s)
  PROVE  \E c : /\ Runs(c, "row", base, s)
                /\ FoldLeft(AddRow, base, s) = c[Len(s)]
<1> DEFINE n == Len(s)
           is(f) == f = [t \in SUBSET (1..n) |->
                           IF t = {} THEN base ELSE AddRow(f[t \ {Max(t)}], s[Max(t)])]
           f == CHOOSE g : is(g)
           c == [m \in 0..n |-> f[1..m]]
<1>1. FoldLeft(AddRow, base, s) = f[1..n]
  BY DEF FoldLeft, MapThenFoldSet
<1> HIDE DEF n
<1>2. n \in Nat /\ n = Len(s)
  BY DEF n
<1>3. PICK g : FoldsTo(g, "row", base, s, n)
  BY <1>2, FoldExists
<1>4. is(g)
  BY <1>3 DEF FoldsTo, Step
<1> HIDE DEF is
<1>5. is(f)
  BY <1>4, Zenon
<1> USE DEF is
<1>6. FoldsTo(f, "row", base, s, n)
  <2> HIDE DEF f
  <2> QED
    BY <1>5 DEF FoldsTo, Step
<1> HIDE DEF f
<1>7. f[1..0] = base /\ \A m \in 1..n : f[1..m] = Step("row", f[1..(m - 1)], s[m])
  BY <1>2, <1>6, FoldSteps
<1>8. c[0] = f[1..0] /\ c[n] = f[1..n] /\ \A m \in 1..n : c[m] = f[1..m] /\ c[m - 1] = f[1..(m - 1)]
  BY <1>2
<1> HIDE DEF c
<1>9. Runs(c, "row", base, s) /\ FoldLeft(AddRow, base, s) = c[Len(s)]
  BY <1>1, <1>2, <1>7, <1>8 DEF Runs
<1> QED
  BY <1>9
\* The changes of a version.
LEMMA ChangesFold ==
  ASSUME NEW base, NEW s, Len(s) \in Nat, DOMAIN s = 1..Len(s)
  PROVE  \E c : /\ Runs(c, "change", base, s)
                /\ FoldLeft(AnyChange, base, s) = c[Len(s)]
<1> DEFINE n == Len(s)
           is(f) == f = [t \in SUBSET (1..n) |->
                           IF t = {} THEN base ELSE AnyChange(f[t \ {Max(t)}], s[Max(t)])]
           f == CHOOSE g : is(g)
           c == [m \in 0..n |-> f[1..m]]
<1>1. FoldLeft(AnyChange, base, s) = f[1..n]
  BY DEF FoldLeft, MapThenFoldSet
<1> HIDE DEF n
<1>2. n \in Nat /\ n = Len(s)
  BY DEF n
<1>3. PICK g : FoldsTo(g, "change", base, s, n)
  BY <1>2, FoldExists
<1>4. is(g)
  BY <1>3 DEF FoldsTo, Step
<1> HIDE DEF is
<1>5. is(f)
  BY <1>4, Zenon
<1> USE DEF is
<1>6. FoldsTo(f, "change", base, s, n)
  <2> HIDE DEF f
  <2> QED
    BY <1>5 DEF FoldsTo, Step
<1> HIDE DEF f
<1>7. f[1..0] = base /\ \A m \in 1..n : f[1..m] = Step("change", f[1..(m - 1)], s[m])
  BY <1>2, <1>6, FoldSteps
<1>8. c[0] = f[1..0] /\ c[n] = f[1..n] /\ \A m \in 1..n : c[m] = f[1..m] /\ c[m - 1] = f[1..(m - 1)]
  BY <1>2
<1> HIDE DEF c
<1>9. Runs(c, "change", base, s) /\ FoldLeft(AnyChange, base, s) = c[Len(s)]
  BY <1>1, <1>2, <1>7, <1>8 DEF Runs
<1> QED
  BY <1>9
\* The versions of the journal.
LEMMA VersionsFold ==
  ASSUME NEW base, NEW s, Len(s) \in Nat, DOMAIN s = 1..Len(s)
  PROVE  \E c : /\ Runs(c, "version", base, s)
                /\ FoldLeft(ApplyLater, base, s) = c[Len(s)]
<1> DEFINE n == Len(s)
           is(f) == f = [t \in SUBSET (1..n) |->
                           IF t = {} THEN base ELSE ApplyLater(f[t \ {Max(t)}], s[Max(t)])]
           f == CHOOSE g : is(g)
           c == [m \in 0..n |-> f[1..m]]
<1>1. FoldLeft(ApplyLater, base, s) = f[1..n]
  BY DEF FoldLeft, MapThenFoldSet
<1> HIDE DEF n
<1>2. n \in Nat /\ n = Len(s)
  BY DEF n
<1>3. PICK g : FoldsTo(g, "version", base, s, n)
  BY <1>2, FoldExists
<1>4. is(g)
  BY <1>3 DEF FoldsTo, Step
<1> HIDE DEF is
<1>5. is(f)
  BY <1>4, Zenon
<1> USE DEF is
<1>6. FoldsTo(f, "version", base, s, n)
  <2> HIDE DEF f
  <2> QED
    BY <1>5 DEF FoldsTo, Step
<1> HIDE DEF f
<1>7. f[1..0] = base /\ \A m \in 1..n : f[1..m] = Step("version", f[1..(m - 1)], s[m])
  BY <1>2, <1>6, FoldSteps
<1>8. c[0] = f[1..0] /\ c[n] = f[1..n] /\ \A m \in 1..n : c[m] = f[1..m] /\ c[m - 1] = f[1..(m - 1)]
  BY <1>2
<1> HIDE DEF c
<1>9. Runs(c, "version", base, s) /\ FoldLeft(ApplyLater, base, s) = c[Len(s)]
  BY <1>1, <1>2, <1>7, <1>8 DEF Runs
<1> QED
  BY <1>9
-------------------------------------------------------------------------------
(* A scan. *)

\* Rows that are not selected do not matter.
LEMMA SeenAlike ==
  ASSUME NEW c \in Contents, NEW d \in Contents,
         \A k \in Keys : c[k] = d[k] \/ (c[k] \notin Matching /\ d[k] \notin Matching)
  PROVE  /\ \A g : KeysIn(c, g) = KeysIn(d, g) /\ MembersOf(c, g) = MembersOf(d, g)
         /\ GroupsIn(c) = GroupsIn(d) /\ SelectedIn(c) = SelectedIn(d)
<1>1. \A g : KeysIn(c, g) = KeysIn(d, g) /\ \A k \in KeysIn(c, g) : c[k] = d[k]
  BY DEF KeysIn
<1>2. \A g : MembersOf(c, g) = MembersOf(d, g)
  BY <1>1 DEF MembersOf
<1>3. GroupsIn(c) = GroupsIn(d) /\ SelectedIn(c) = SelectedIn(d)
  BY <1>1 DEF GroupsIn, SelectedIn
<1> QED
  BY <1>1, <1>2, <1>3

\* gs is what the query keeps of the contents c.
Holds(gs, c) == IF CountsOnly THEN CountsKept(gs, c) ELSE GroupsKept(gs, c, {})

\* A scan finds the groups of the rows.
LEMMA ScanFinds ==
  ASSUME rows \in Contents
  PROVE  Holds(Scanned, rows)
<1> DEFINE s == SetToSeq(SelectedKeys)
           n == Len(s)
           part(i) == [k \in Keys |-> IF \E j \in 1..i : s[j] = k THEN rows[k] ELSE NoRow]
<1>1. IsFiniteSet(SelectedKeys)
  <2>1. SelectedKeys \subseteq Keys
    BY DEF SelectedKeys
  <2> QED
    BY <2>1, GroupedAssumption, FS_Subset
<1>2. /\ n \in Nat /\ DOMAIN s = 1..n
      /\ \A i \in 1..n : s[i] \in SelectedKeys
      /\ \A x \in SelectedKeys : \E i \in 1..n : s[i] = x
      /\ \A i, j \in 1..n : s[i] = s[j] => i = j
  BY <1>1, ListsAll
<1> HIDE DEF s
<1>3. PICK c : Runs(c, "row", NoGroups, s) /\ FoldLeft(AddRow, NoGroups, s) = c[n]
  BY <1>2, ScanFolds
<1>4. Scanned = c[n]
  BY <1>3 DEF Scanned, s
<1>5. c[0] = NoGroups /\ \A i \in 1..n : c[i] = AddRow(c[i - 1], s[i])
  BY <1>3 DEF Runs, Step
<1>6. \A i : part(i) \in Contents
  BY DEF Contents
<1>7. NoRow \notin Matching
  BY GroupedAssumption
<1> DEFINE P == {i \in 0..n : Holds(c[i], part(i))}
<1>8. 0 \in P
  <2>1. \A g : KeysIn(part(0), g) = {}
    BY <1>7 DEF KeysIn
  <2>2. GroupsIn(part(0)) = {}
    BY <2>1 DEF GroupsIn
  <2>3. DOMAIN NoGroups = {}
    BY DEF NoGroups
  <2>4. Holds(NoGroups, part(0))
    BY <2>2, <2>3 DEF Holds, CountsKept, GroupsKept
  <2>5. 0 \in 0..n
    BY <1>2
  <2> QED
    BY <1>5, <2>4, <2>5
<1>9. ASSUME NEW i \in 1..n, i - 1 \in P PROVE i \in P
  <2> DEFINE k == s[i]
             r == rows[k]
             was == part(i - 1)
             now == part(i)
  <2>1. k \in Keys /\ r \in Matching /\ i \in 0..n
    BY <1>2 DEF SelectedKeys
  <2>2. was[k] = NoRow
    <3>1. ~\E j \in 1..(i - 1) : s[j] = k
      BY <1>2
    <3> QED
      BY <2>1, <3>1
  <2>3. now = [was EXCEPT ![k] = r]
    <3>1. \A x \in Keys : (\E j \in 1..i : s[j] = x) <=> x = k \/ \E j \in 1..(i - 1) : s[j] = x
      <4>1. \A j : j \in 1..i <=> j = i \/ j \in 1..(i - 1)
        BY <1>2
      <4> QED
        BY <4>1
    <3> QED
      BY <2>1, <3>1
  <2>4. was \in Contents /\ Holds(c[i - 1], was)
    BY <1>6, <1>9
  <2>5. c[i] = AddRow(c[i - 1], k)
    BY <1>5
  <2> HIDE DEF was, now, part
  <2>6. Holds(c[i], now)
    <3>1. CASE CountsOnly
      <4>1. c[i] = Count(c[i - 1], GroupOf[r], 1) /\ CountsKept(c[i - 1], was)
        BY <2>4, <2>5, <3>1 DEF AddRow, Holds
      <4>2. CountsKept(Count(c[i - 1], GroupOf[r], 1), [was EXCEPT ![k] = r])
        BY <1>7, <2>1, <2>2, <2>4, <4>1, CountEntering
      <4> QED
        BY <2>3, <3>1, <4>1, <4>2 DEF Holds
    <3>2. CASE ~CountsOnly
      <4>1. c[i] = Upsert(c[i - 1], k, r) /\ GroupsKept(c[i - 1], was, {})
        BY <2>4, <2>5, <3>2 DEF AddRow, Holds
      <4>2. GroupsKept(Upsert(c[i - 1], k, r), [was EXCEPT ![k] = r], {})
        BY <1>7, <2>1, <2>2, <2>4, <4>1, UpsertKeeps
      <4> QED
        BY <2>3, <3>2, <4>1, <4>2 DEF Holds
    <3> QED
      BY <3>1, <3>2
  <2> QED
    BY <2>1, <2>6 DEF now
<1>10. n \in P
  <2> HIDE DEF P, n
  <2>1. \A i \in 0..n : i \in P
    BY <1>2, <1>8, <1>9, CountUp, Zenon
  <2> QED
    BY <1>2, <2>1
<1>11. Holds(c[n], part(n))
  BY <1>10
<1>12. \A k \in Keys : part(n)[k] = rows[k] \/ (part(n)[k] \notin Matching /\ rows[k] \notin Matching)
  BY <1>2, <1>7 DEF SelectedKeys
<1>13. part(n) \in Contents
  BY <1>6
<1> HIDE DEF part
<1>14. /\ \A g : KeysIn(part(n), g) = KeysIn(rows, g) /\ MembersOf(part(n), g) = MembersOf(rows, g)
       /\ GroupsIn(part(n)) = GroupsIn(rows)
  BY <1>12, <1>13, SeenAlike
<1> QED
  BY <1>4, <1>11, <1>14 DEF Holds, CountsKept, GroupsKept
-------------------------------------------------------------------------------
(* The changes of a version. *)

Change == [key : Keys, previous : Rows \union {NoRow}, next : Rows \union {NoRow}]

\* The changes lead from the contents a to b, each from the row before it.
LeadsBy(h, a, changes, b) ==
  /\ h \in [0..Len(changes) -> Contents]
  /\ h[0] = a /\ h[Len(changes)] = b
  /\ \A i \in 1..Len(changes) : Follows(changes[i], h[i - 1]) /\ h[i] = After(h[i - 1], changes[i])

Leads(a, changes, b) == \E h : LeadsBy(h, a, changes, b)

\* Nothing leads nowhere.
LEMMA LeadsNowhere ==
  ASSUME NEW a \in Contents
  PROVE  Leads(a, <<>>, a)
<1> DEFINE h == [i \in 0..0 |-> a]
<1>1. Len(<<>>) = 0
  OBVIOUS
<1>2. LeadsBy(h, a, <<>>, a)
  BY <1>1 DEF LeadsBy
<1> QED
  BY <1>2 DEF Leads

\* One change more.
LEMMA LeadsFurther ==
  ASSUME NEW a, NEW changes \in Seq(Change), NEW b, Leads(a, changes, b),
         NEW ch \in Change, Follows(ch, b)
  PROVE  Leads(a, Append(changes, ch), After(b, ch)) /\ After(b, ch) \in Contents
<1> DEFINE n == Len(changes)
           more == Append(changes, ch)
<1>1. PICK h : LeadsBy(h, a, changes, b)
  BY DEF Leads
<1>2. n \in Nat /\ Len(more) = n + 1 /\ more[n + 1] = ch /\ \A i \in 1..n : more[i] = changes[i]
  BY AppendProperties, LenProperties
<1>3. /\ h \in [0..n -> Contents] /\ h[0] = a /\ h[n] = b
      /\ \A i \in 1..n : Follows(changes[i], h[i - 1]) /\ h[i] = After(h[i - 1], changes[i])
  BY <1>1 DEF LeadsBy
<1> HIDE DEF n, more
<1>4. b \in Contents
  BY <1>2, <1>3
<1>5. After(b, ch) \in Contents
  BY <1>4 DEF After, Contents, Change
<1> DEFINE g == [i \in 0..(n + 1) |-> IF i = n + 1 THEN After(b, ch) ELSE h[i]]
<1>6. g \in [0..(n + 1) -> Contents] /\ g[0] = a /\ g[n + 1] = After(b, ch)
  BY <1>2, <1>3, <1>5
<1>7. ASSUME NEW i \in 1..(n + 1)
      PROVE  Follows(more[i], g[i - 1]) /\ g[i] = After(g[i - 1], more[i])
  <2>1. CASE i = n + 1
    <3>1. g[i] = After(b, ch) /\ g[i - 1] = b /\ more[i] = ch
      BY <1>2, <1>3, <2>1
    <3> QED
      BY <3>1
  <2>2. CASE i # n + 1
    <3>1. i \in 1..n /\ g[i] = h[i] /\ g[i - 1] = h[i - 1] /\ more[i] = changes[i]
      BY <1>2, <2>2
    <3> QED
      BY <1>3, <3>1
  <2> QED
    BY <2>1, <2>2
<1> HIDE DEF g
<1>8. LeadsBy(g, a, more, After(b, ch))
  BY <1>2, <1>6, <1>7 DEF LeadsBy
<1> QED
  BY <1>5, <1>8 DEF Leads, more

\* What is kept under way from a to c: the groups, or their sizes.
Underway(st, a, c) == IF CountsOnly THEN Counted(st, c) ELSE Kept(st, a, c)

\* All changes of a version bring the groups up to date with it.
LEMMA ChangesKeep ==
  ASSUME NEW a, NEW b, NEW changes \in Seq(Change), NEW d, Leads(b, changes, d),
         NEW st, Underway(st, a, b)
  PROVE  Underway(FoldLeft(AnyChange, st, changes), a, d)
<1> DEFINE n == Len(changes)
<1>1. PICK h : LeadsBy(h, b, changes, d)
  BY DEF Leads
<1>2. n \in Nat /\ DOMAIN changes = 1..n
  BY LenProperties
<1>3. /\ h \in [0..n -> Contents] /\ h[0] = b /\ h[n] = d
      /\ \A i \in 1..n : Follows(changes[i], h[i - 1]) /\ h[i] = After(h[i - 1], changes[i])
  BY <1>1 DEF LeadsBy
<1>4. PICK c : Runs(c, "change", st, changes) /\ FoldLeft(AnyChange, st, changes) = c[n]
  BY <1>2, ChangesFold
<1>5. c[0] = st /\ \A i \in 1..n : c[i] = AnyChange(c[i - 1], changes[i])
  BY <1>4 DEF Runs, Step
<1> HIDE DEF n
<1> DEFINE P == {i \in 0..n : Underway(c[i], a, h[i])}
<1>6. 0 \in P
  BY <1>2, <1>3, <1>5
<1>7. ASSUME NEW i \in 1..n, i - 1 \in P PROVE i \in P
  <2>1. /\ h[i - 1] \in Contents /\ Underway(c[i - 1], a, h[i - 1]) /\ i \in 0..n
        /\ Follows(changes[i], h[i - 1]) /\ h[i] = After(h[i - 1], changes[i])
        /\ c[i] = AnyChange(c[i - 1], changes[i])
    BY <1>3, <1>5, <1>7
  <2>2. CASE CountsOnly
    <3>1. Counted(CountChange(c[i - 1], changes[i]), After(h[i - 1], changes[i]))
      BY <2>1, <2>2, CountChangeKeeps DEF Underway
    <3> QED
      BY <2>1, <2>2, <3>1 DEF Underway, AnyChange
  <2>3. CASE ~CountsOnly
    <3>1. Kept(ApplyChange(c[i - 1], changes[i]), a, After(h[i - 1], changes[i]))
      BY <2>1, <2>3, ApplyChangeKeeps DEF Underway
    <3> QED
      BY <2>1, <2>3, <3>1 DEF Underway, AnyChange
  <2> QED
    BY <2>2, <2>3
<1>8. n \in P
  <2> HIDE DEF P
  <2>1. \A i \in 0..n : i \in P
    BY <1>2, <1>6, <1>7, CountUp, Zenon
  <2> QED
    BY <1>2, <2>1
<1> QED
  BY <1>3, <1>4, <1>8

\* Recomputed minima are right.
LEMMA WithMinimaKeeps ==
  ASSUME NEW a, NEW c \in Contents, NEW st, Kept(st, a, c), st.ok
  PROVE  Kept(WithMinima(st), a, c) /\ WithMinima(st).outdated = {}
<1> DEFINE gs == st.groups
           w == [g \in DOMAIN gs |-> IF g \in st.outdated THEN Recomputed(gs[g]) ELSE gs[g]]
           u == WithMinima(st)
<1>1. /\ IsUpdate(st) /\ GroupsKept(gs, c, st.outdated)
      /\ st.members = Cardinality(SelectedIn(c)) /\ Within(c) /\ Unmoved(st, a, c)
  BY DEF Kept
<1>2. u = [st EXCEPT !.groups = w, !.outdated = {}]
  BY DEF WithMinima
<1>3. DOMAIN w = GroupsIn(c) /\ DOMAIN gs = GroupsIn(c)
  BY <1>1 DEF GroupsKept
<1>4. ASSUME NEW g \in GroupsIn(c)
      PROVE  /\ w[g] = Tallied(MembersOf(c, g), MembersOf(c, g), w[g].least)
             /\ LeastOf(MembersOf(c, g), w[g].least)
  <2> DEFINE m == MembersOf(c, g)
             l == gs[g].least
  <2>1. gs[g] = Tallied(m, m, l) /\ (g \in st.outdated \/ LeastOf(m, l))
    BY <1>1 DEF GroupsKept
  <2>2. AreMembers(m) /\ DOMAIN m # {}
    BY MembersAre
  <2>3. w[g] = IF g \in st.outdated THEN Recomputed(gs[g]) ELSE gs[g]
    BY <1>3
  <2> HIDE DEF m, l, w
  <2>4. CASE g \in st.outdated
    <3> DEFINE q == Min(ValuesIn(m))
    <3>1. Recomputed(Tallied(m, m, l)) = Tallied(m, m, q) /\ LeastOf(m, q)
      BY <2>2, RecomputedLeast
    <3> HIDE DEF q
    <3>2. w[g] = Tallied(m, m, q) /\ w[g].least = q
      BY <2>1, <2>3, <2>4, <3>1, TalliedParts
    <3> QED
      BY <3>1, <3>2 DEF m
  <2>5. CASE g \notin st.outdated
    BY <2>1, <2>3, <2>5 DEF m, l
  <2> QED
    BY <2>4, <2>5
<1> HIDE DEF w, u
<1>5. GroupsKept(w, c, {})
  BY <1>3, <1>4 DEF GroupsKept
<1>6. /\ IsUpdate(u) /\ u.groups = w /\ u.members = st.members /\ u.ok = st.ok
      /\ u.outdated = {} /\ u.changed = st.changed /\ u.reorder = st.reorder
  BY <1>1, <1>2 DEF IsUpdate, UpdateFields
<1> QED
  BY <1>1, <1>5, <1>6 DEF Kept, Unmoved, u

\* What is kept from one version to the next.
Tracks(st, a, c) == Underway(st, a, c) /\ (st.ok /\ ~CountsOnly => st.outdated = {})

\* A version brings what is kept up to date with it.
LEMMA BatchKeeps ==
  ASSUME NEW a, NEW b, NEW batch \in BatchOf(Change), NEW d \in Contents,
         Leads(b, batch.changes, d), NEW st, Tracks(st, a, b)
  PROVE  Tracks(ApplyBatch(st, batch), a, d)
<1> DEFINE next == FoldLeft(AnyChange, st, batch.changes)
<1>1. batch.changes \in Seq(Change)
  BY DEF BatchOf
<1>2. Underway(next, a, d)
  BY <1>1, ChangesKeep DEF Tracks
<1>3. ApplyBatch(st, batch) = IF CountsOnly \/ ~next.ok THEN next ELSE WithMinima(next)
  BY DEF ApplyBatch
<1> HIDE DEF next
<1>4. CASE CountsOnly \/ ~next.ok
  BY <1>2, <1>3, <1>4 DEF Tracks
<1>5. CASE ~(CountsOnly \/ ~next.ok)
  BY <1>2, <1>3, <1>5, WithMinimaKeeps DEF Tracks, Underway
<1> QED
  BY <1>4, <1>5
-------------------------------------------------------------------------------
(* What is kept, and the history it is kept for. *)

\* The groups gs and the number n of members are right for the contents c.
GroupsRight(gs, n, c) ==
  IF CountsOnly
  THEN CountsKept(gs, c) /\ Cardinality(GroupsIn(c)) <= MaxGroups
  ELSE GroupsKept(gs, c, {}) /\ n = Cardinality(SelectedIn(c)) /\ Within(c)

\* The batches, of which the last is that of version v, lead from one version to the next.
Follow(h, v, batches) ==
  LET n == Len(batches)
  IN  /\ n <= v
      /\ \A i \in 1..n : /\ batches[i].version = v - n + i
                         /\ Leads(h[v - n + i - 1], batches[i].changes, h[v - n + i])

\* The journal j fits the history h up to version v, with the rows c being written.
Fits(j, h, v, c) ==
  /\ IsJournal(j, Change) /\ EmptyUnlessUsed(j)
  /\ Follow(h, v, j.batches)
  /\ j.refs # 0 /\ ~j.overflowed => Leads(h[v], j.pending, c)

\* h[v] are the rows of version v.
History(h) ==
  /\ h \in [Nat -> Contents]
  /\ Fits(journal, h, version, rows)
  /\ writing = 0 => rows = h[version]
  /\ mode # "none" => evaluation.version \in 0..version /\ seen = h[evaluation.version]

\* An update starts from what is kept.
LEMMA StartTracks ==
  ASSUME NEW c \in Contents, NEW gs, NEW n, GroupsRight(gs, n, c)
  PROVE  Tracks([groups |-> gs, members |-> n, ok |-> TRUE, outdated |-> {}, changed |-> {},
                 reorder |-> CountsOnly], c, c)
<1> DEFINE u == [groups |-> gs, members |-> n, ok |-> TRUE, outdated |-> {}, changed |-> {},
                 reorder |-> CountsOnly]
<1>1. /\ u.groups = gs /\ u.members = n /\ u.ok = TRUE /\ u.outdated = {} /\ u.changed = {}
      /\ u.reorder = CountsOnly /\ DOMAIN u = UpdateFields /\ u = [f \in UpdateFields |-> u[f]]
  BY DEF UpdateFields
<1>2. CountsOnly \in BOOLEAN
  BY DEF CountsOnly
<1> HIDE DEF u
<1>3. IsUpdate(u)
  BY <1>1, <1>2 DEF IsUpdate
<1>4. CASE CountsOnly
  BY <1>1, <1>3, <1>4 DEF Tracks, Underway, Counted, GroupsRight, u
<1>5. CASE ~CountsOnly
  <2>1. SameGroups(c, c, {})
    BY DEF SameGroups
  <2>2. Unmoved(u, c, c)
    BY <1>1, <2>1 DEF Unmoved
  <2>3. Kept(u, c, c)
    BY <1>1, <1>3, <1>5, <2>2 DEF Kept, GroupsRight
  <2> QED
    BY <1>1, <1>5, <2>3 DEF Tracks, Underway, u
<1> QED
  BY <1>4, <1>5

\* The later versions in the journal bring what is kept up to date with the rows.
LEMMA UpdatedTracks ==
  ASSUME rows \in Contents, version \in Nat, writing = 0,
         NEW h, History(h), mode # "none", GroupsRight(groups, members, seen),
         evaluation.version # version, Covers(journal, evaluation.version, version)
  PROVE  Tracks(Updated, seen, rows)
<1> DEFINE b == journal.batches
           n == Len(b)
           e == evaluation.version
           start == [groups |-> groups, members |-> members, ok |-> TRUE, outdated |-> {},
                     changed |-> {}, reorder |-> CountsOnly]
<1>1. b \in Seq(BatchOf(Change)) /\ n \in Nat /\ DOMAIN b = 1..n
  BY LenProperties DEF IsJournal, History, Fits
<1>2. /\ h \in [Nat -> Contents] /\ n <= version /\ e \in 0..version /\ seen = h[e]
      /\ rows = h[version]
      /\ \A i \in 1..n : /\ b[i].version = version - n + i
                         /\ Leads(h[version - n + i - 1], b[i].changes, h[version - n + i])
  BY DEF History, Fits, Follow
<1>3. version - n <= e /\ e < version
  <2>1. e < version /\ b # <<>> /\ e + 1 >= b[1].version
    BY <1>2 DEF Covers
  <2>2. n # 0
    BY <1>1, <2>1, EmptySeq
  <2>3. b[1].version = version - n + 1
    <3>1. 1 \in 1..n
      BY <1>1, <2>2
    <3> QED
      BY <1>2, <3>1
  <2> QED
    BY <1>1, <1>2, <2>1, <2>3
<1>4. \A i \in 1..n : b[i] \in BatchOf(Change)
  BY <1>1, ElementOfSeq
<1>5. PICK c : Runs(c, "version", start, b) /\ FoldLeft(ApplyLater, start, b) = c[n]
  BY <1>1, VersionsFold
<1>6. Updated = c[n]
  BY <1>5 DEF Updated
<1>7. c[0] = start /\ \A i \in 1..n : c[i] = ApplyLater(c[i - 1], b[i])
  BY <1>5 DEF Runs, Step
<1>8. Tracks(start, seen, seen)
  BY <1>2, StartTracks
<1> HIDE DEF start, b, n, e
<1> DEFINE at(i) == IF version - n + i <= e THEN e ELSE version - n + i
           P == {i \in 0..n : Tracks(c[i], seen, h[at(i)])}
<1>9. 0 \in P
  <2>1. at(0) = e
    BY <1>1, <1>2, <1>3
  <2> HIDE DEF at
  <2> QED
    BY <1>1, <1>2, <1>7, <1>8, <2>1
<1>10. ASSUME NEW i \in 1..n, i - 1 \in P PROVE i \in P
  <2>1. /\ b[i].version = version - n + i /\ i \in 0..n /\ i \in Nat
        /\ Leads(h[version - n + i - 1], b[i].changes, h[version - n + i])
        /\ Tracks(c[i - 1], seen, h[at(i - 1)])
        /\ c[i] = IF b[i].version > e THEN ApplyBatch(c[i - 1], b[i]) ELSE c[i - 1]
    BY <1>1, <1>2, <1>7, <1>10 DEF ApplyLater, e
  <2>2. CASE b[i].version > e
    <3>1. at(i) = version - n + i /\ at(i - 1) = version - n + i - 1
      BY <1>1, <1>2, <1>3, <2>1, <2>2
    <3>2. h[version - n + i] \in Contents
      <4>1. version - n + i \in Nat
        BY <1>1, <1>2, <2>1
      <4> QED
        BY <1>2, <4>1
    <3> HIDE DEF at
    <3>3. Tracks(ApplyBatch(c[i - 1], b[i]), seen, h[version - n + i])
      BY <1>4, <2>1, <3>1, <3>2, BatchKeeps
    <3> QED
      BY <2>1, <2>2, <3>1, <3>3
  <2>3. CASE ~(b[i].version > e)
    <3>1. at(i) = e /\ at(i - 1) = e
      BY <1>1, <1>2, <1>3, <2>1, <2>3
    <3> HIDE DEF at
    <3> QED
      BY <2>1, <2>3, <3>1
  <2> QED
    BY <2>2, <2>3
<1>11. n \in P
  <2> HIDE DEF P
  <2>1. \A i \in 0..n : i \in P
    BY <1>1, <1>9, <1>10, CountUp, Zenon
  <2> QED
    BY <1>1, <2>1
<1>12. at(n) = version
  BY <1>1, <1>2, <1>3
<1> HIDE DEF at
<1> QED
  BY <1>2, <1>6, <1>11, <1>12

\* A scan that is admitted is right for the rows.
LEMMA ScanIsRight ==
  ASSUME rows \in Contents, Admitted(Scanned, MemberCount)
  PROVE  GroupsRight(Scanned, MemberCount, rows)
<1>1. Holds(Scanned, rows)
  BY ScanFinds
<1>2. SelectedKeys = SelectedIn(rows)
  BY DEF SelectedKeys, SelectedIn
<1>3. CASE CountsOnly
  BY <1>1, <1>3 DEF Holds, GroupsRight, Admitted, CountsKept
<1>4. CASE ~CountsOnly
  <2>1. GroupsKept(Scanned, rows, {}) /\ MemberCount = Cardinality(SelectedIn(rows))
    BY <1>1, <1>2, <1>4 DEF Holds, MemberCount
  <2>2. Within(rows)
    BY <1>4, <2>1, AdmittedIsWithin
  <2> QED
    BY <1>4, <2>1, <2>2 DEF GroupsRight
<1> QED
  BY <1>3, <1>4

\* What an update tracks is right, unless it goes beyond the limits.
LEMMA TrackedIsRight ==
  ASSUME NEW a, NEW c, NEW st, Tracks(st, a, c), st.ok
  PROVE  GroupsRight(st.groups, st.members, c)
BY DEF Tracks, Underway, Counted, Kept, GroupsRight
-------------------------------------------------------------------------------
(* The journal fits the history whatever happens to it. *)

\* No batches follow any history.
LEMMA NoneFollow == ASSUME NEW h, NEW v \in Nat PROVE Follow(h, v, <<>>)
<1>1. Len(<<>>) = 0
  OBVIOUS
<1> QED
  BY <1>1 DEF Follow

\* A journal that was cleared fits.
LEMMA EmptyFits ==
  ASSUME NEW j, IsJournal(j, Change), j.pending = <<>>, j.batches = <<>>, ~j.overflowed,
         NEW h \in [Nat -> Contents], NEW v \in Nat
  PROVE  Fits(j, h, v, h[v])
BY NoneFollow, LeadsNowhere DEF Fits, EmptyUnlessUsed

\* A change is recorded.
LEMMA RecordFits ==
  ASSUME NEW j, NEW h, NEW v \in Nat, NEW c, Fits(j, h, v, c), NEW ch \in Change, Follows(ch, c)
  PROVE  Fits(Record(j, ch, v), h, v, After(c, ch))
<1> DEFINE k == Record(j, ch, v)
<1>1. /\ IsJournal(j, Change) /\ EmptyUnlessUsed(j) /\ Follow(h, v, j.batches)
      /\ j.refs # 0 /\ ~j.overflowed => Leads(h[v], j.pending, c)
  BY DEF Fits
<1>2. /\ IsJournal(k, Change) /\ k.refs = j.refs
      /\ \/ k = j /\ (j.refs = 0 \/ j.overflowed)
         \/ j.refs # 0 /\ k.overflowed /\ k.pending = <<>> /\ k.batches = <<>>
         \/ /\ j.refs # 0 /\ ~j.overflowed /\ ~k.overflowed
            /\ k.pending = Append(j.pending, ch) /\ k.batches = j.batches
  BY <1>1, RecordCases
<1> HIDE DEF k
<1>3. CASE k = j /\ (j.refs = 0 \/ j.overflowed)
  BY <1>1, <1>3 DEF Fits, k
<1>4. CASE j.refs # 0 /\ k.overflowed /\ k.pending = <<>> /\ k.batches = <<>>
  BY <1>2, <1>4, NoneFollow DEF Fits, EmptyUnlessUsed, k
<1>5. CASE /\ j.refs # 0 /\ ~j.overflowed /\ ~k.overflowed
           /\ k.pending = Append(j.pending, ch) /\ k.batches = j.batches
  <2>1. j.pending \in Seq(Change)
    BY <1>1 DEF IsJournal
  <2>2. Leads(h[v], Append(j.pending, ch), After(c, ch))
    BY <1>1, <1>5, <2>1, LeadsFurther
  <2> QED
    BY <1>1, <1>2, <1>5, <2>2 DEF Fits, EmptyUnlessUsed, k
<1> QED
  BY <1>2, <1>3, <1>4, <1>5

\* A version is committed.
LEMMA CommitFits ==
  ASSUME NEW j, NEW h \in [Nat -> Contents], NEW v \in Nat, NEW c \in Contents, Fits(j, h, v, c)
  PROVE  Fits(CommitJournal(j, v + 1), [h EXCEPT ![v + 1] = c], v + 1, c)
<1> DEFINE k == CommitJournal(j, v + 1)
           n == Len(j.batches)
           g == [h EXCEPT ![v + 1] = c]
<1>1. /\ IsJournal(j, Change) /\ EmptyUnlessUsed(j) /\ Follow(h, v, j.batches)
      /\ j.refs # 0 /\ ~j.overflowed => Leads(h[v], j.pending, c)
  BY DEF Fits
<1>0. v + 1 \in Nat /\ IsJournal(j, Change)
  BY <1>1
<1>2. /\ IsJournal(k, Change) /\ k.refs = j.refs
      /\ \/ j.refs = 0 /\ k = j
         \/ /\ j.refs # 0 /\ j.overflowed /\ ~k.overflowed
            /\ k.pending = <<>> /\ k.batches = j.batches
         \/ j.refs # 0 /\ ~k.overflowed /\ k.pending = <<>> /\ k.batches = <<>>
         \/ /\ j.refs # 0 /\ ~j.overflowed /\ ~k.overflowed /\ k.pending = <<>>
            /\ \E d \in 0..(n + 1) :
                 /\ Len(k.batches) = n + 1 - d /\ n + 1 - d <= MaxVersions
                 /\ \A i \in 1..(n + 1 - d) :
                      k.batches[i] = IF d + i <= n THEN j.batches[d + i]
                                     ELSE [changes |-> j.pending, version |-> v + 1]
  <2>1. IsJournal(k, Change) /\ k.refs = j.refs /\ Committed(j, k, v + 1)
    BY <1>0, CommitCases
  <2> HIDE DEF k
  <2> QED
    BY <2>1 DEF Committed
<1>3. g \in [Nat -> Contents] /\ g[v + 1] = c /\ \A x \in Nat : x # v + 1 => g[x] = h[x]
  OBVIOUS
<1>4. n \in Nat
  BY <1>1, LenProperties DEF IsJournal
<1> HIDE DEF k, g, n
<1>5. CASE k.batches = <<>> /\ k.pending = <<>> /\ ~k.overflowed
  <2>1. Fits(k, g, v + 1, g[v + 1])
    BY <1>2, <1>3, <1>5, EmptyFits
  <2> QED
    BY <1>3, <2>1 DEF k, g
<1>6. CASE j.refs = 0 /\ k = j
  <2>1. k.batches = <<>> /\ k.pending = <<>> /\ ~k.overflowed
    BY <1>1, <1>6 DEF EmptyUnlessUsed
  <2> QED
    BY <1>5, <2>1
<1>7. CASE j.overflowed /\ ~k.overflowed /\ k.pending = <<>> /\ k.batches = j.batches
  <2>1. k.batches = <<>>
    BY <1>1, <1>7 DEF EmptyUnlessUsed
  <2> QED
    BY <1>5, <1>7, <2>1
<1>8. CASE /\ j.refs # 0 /\ ~j.overflowed /\ ~k.overflowed /\ k.pending = <<>>
           /\ \E d \in 0..(n + 1) :
                /\ Len(k.batches) = n + 1 - d /\ n + 1 - d <= MaxVersions
                /\ \A i \in 1..(n + 1 - d) :
                     k.batches[i] = IF d + i <= n THEN j.batches[d + i]
                                    ELSE [changes |-> j.pending, version |-> v + 1]
  <2>1. PICK d \in 0..(n + 1) :
          /\ Len(k.batches) = n + 1 - d
          /\ \A i \in 1..(n + 1 - d) :
               k.batches[i] = IF d + i <= n THEN j.batches[d + i]
                              ELSE [changes |-> j.pending, version |-> v + 1]
    BY <1>8
  <2>2. /\ n <= v
        /\ \A i \in 1..n : /\ j.batches[i].version = v - n + i
                           /\ Leads(h[v - n + i - 1], j.batches[i].changes, h[v - n + i])
    BY <1>1 DEF Follow, n
  <2> DEFINE m == n + 1 - d
  <2>3. m \in Nat /\ m <= v + 1
    BY <1>4, <2>2
  <2>4. ASSUME NEW i \in 1..m
        PROVE  /\ k.batches[i].version = v + 1 - m + i
               /\ Leads(g[v + 1 - m + i - 1], k.batches[i].changes, g[v + 1 - m + i])
    <3>1. CASE d + i <= n
      <4>1. d + i \in 1..n /\ k.batches[i] = j.batches[d + i]
        BY <1>4, <2>1, <3>1
      <4>2. /\ v + 1 - m + i = v - n + (d + i) /\ v + 1 - m + i - 1 = v - n + (d + i) - 1
            /\ v - n + (d + i) \in Nat /\ v - n + (d + i) - 1 \in Nat
            /\ v - n + (d + i) # v + 1 /\ v - n + (d + i) - 1 # v + 1
        BY <1>4, <2>2, <3>1
      <4>3. g[v - n + (d + i)] = h[v - n + (d + i)] /\ g[v - n + (d + i) - 1] = h[v - n + (d + i) - 1]
        BY <1>3, <4>2
      <4> HIDE DEF m
      <4> QED
        BY <2>2, <4>1, <4>2, <4>3
    <3>2. CASE ~(d + i <= n)
      <4>1. k.batches[i] = [changes |-> j.pending, version |-> v + 1]
        BY <2>1, <3>2
      <4>2. v + 1 - m + i = v + 1 /\ v + 1 - m + i - 1 = v /\ v # v + 1
        BY <1>4, <3>2
      <4>3. g[v] = h[v] /\ g[v + 1] = c
        BY <1>3, <4>2
      <4>4. Leads(h[v], j.pending, c)
        BY <1>1, <1>8
      <4> HIDE DEF m
      <4> QED
        BY <4>1, <4>2, <4>3, <4>4
    <3> QED
      BY <3>1, <3>2
  <2> HIDE DEF m
  <2>5. Follow(g, v + 1, k.batches)
    <3>1. Len(k.batches) = m
      BY <2>1 DEF m
    <3> QED
      BY <2>3, <2>4, <3>1 DEF Follow
  <2>6. Leads(g[v + 1], <<>>, c)
    BY <1>3, LeadsNowhere
  <2>7. EmptyUnlessUsed(k)
    BY <1>2, <1>8 DEF EmptyUnlessUsed
  <2> QED
    BY <1>2, <1>8, <2>5, <2>6, <2>7 DEF Fits, k, g
<1> QED
  BY <1>2, <1>5, <1>6, <1>7, <1>8

\* A reference is added or taken away between mutations.
LEMMA ReferencesFit ==
  ASSUME NEW j, NEW h \in [Nat -> Contents], NEW v \in Nat, Fits(j, h, v, h[v]), NEW w
  PROVE  Fits(Retain(j, w), h, v, h[v]) /\ Fits(Release(j, w), h, v, h[v])
<1>1. /\ IsJournal(j, Change) /\ EmptyUnlessUsed(j) /\ Follow(h, v, j.batches)
      /\ j.refs # 0 /\ ~j.overflowed => Leads(h[v], j.pending, h[v])
  BY DEF Fits
<1>2. ASSUME NEW k, IsJournal(k, Change),
             \/ k.pending = <<>> /\ k.batches = <<>> /\ ~k.overflowed
             \/ /\ k.refs # 0 /\ j.refs # 0 /\ k.pending = j.pending /\ k.batches = j.batches
                /\ k.overflowed = j.overflowed
      PROVE  Fits(k, h, v, h[v])
  <2>1. CASE k.pending = <<>> /\ k.batches = <<>> /\ ~k.overflowed
    BY <1>2, <2>1, EmptyFits
  <2>2. CASE /\ k.refs # 0 /\ j.refs # 0 /\ k.pending = j.pending /\ k.batches = j.batches
             /\ k.overflowed = j.overflowed
    BY <1>1, <1>2, <2>2 DEF Fits, EmptyUnlessUsed
  <2> QED
    BY <1>2, <2>1, <2>2
<1>3. Fits(Retain(j, w), h, v, h[v])
  <2> DEFINE k == Retain(j, w)
  <2>1. /\ IsJournal(k, Change) /\ k.refs = j.refs + 1
        /\ \/ k.pending = <<>> /\ k.batches = <<>> /\ ~k.overflowed
           \/ /\ j.refs # 0 /\ k.pending = j.pending /\ k.batches = j.batches
              /\ k.overflowed = j.overflowed
    BY <1>1, RetainCases
  <2>2. j.refs \in Nat
    BY <1>1 DEF IsJournal
  <2> HIDE DEF k
  <2>3. k.refs # 0
    BY <2>1, <2>2
  <2> QED
    BY <1>2, <2>1, <2>3 DEF k
<1>4. Fits(Release(j, w), h, v, h[v])
  <2> DEFINE k == Release(j, w)
  <2>1. /\ IsJournal(k, Change)
        /\ \/ k.pending = <<>> /\ k.batches = <<>> /\ ~k.overflowed
           \/ /\ k.refs # 0 /\ j.refs # 0 /\ k.pending = j.pending /\ k.batches = j.batches
              /\ k.overflowed = j.overflowed
    BY <1>1, ReleaseCases
  <2> HIDE DEF k
  <2> QED
    BY <1>2, <2>1 DEF k
<1> QED
  BY <1>3, <1>4
-------------------------------------------------------------------------------
(* Results. *)

\* The aggregates of group g in the contents c.
AggregatesOf(c, g) ==
  [key |-> g, count |-> Cardinality(KeysIn(c, g)), distinct |-> Cardinality(ValuesIn(MembersOf(c, g))),
   total |-> SumOver(c, KeysIn(c, g)), least |-> Min(ValuesIn(MembersOf(c, g)))]

\* The groups before g, and the places of the result.
Ahead(c, g) == {f \in GroupsIn(c) : Before(AggregatesOf(c, f), AggregatesOf(c, g))}

Places(c) ==
  {i \in 1..Cardinality(GroupsIn(c)) :
     /\ plan.offset + i <= Cardinality(GroupsIn(c))
     /\ plan.limit # NoLimit => i <= plan.limit}

\* The result e shows the groups of the contents c, in their places.
Shown(e, c) ==
  /\ e.total = Cardinality(GroupsIn(c))
  /\ DOMAIN e.window = Places(c)
  /\ \A i \in Places(c) :
       \E g \in GroupsIn(c) :
         e.window[i] = AggregatesOf(c, g) /\ Cardinality(Ahead(c, g)) = plan.offset + i - 1

\* A minimum is one number.
LEMMA LeastIsMin ==
  ASSUME NEW m, AreMembers(m), DOMAIN m # {}, NEW l, LeastOf(m, l)
  PROVE  l = Min(ValuesIn(m)) /\ l \in Nat
<1>1. l \in ValuesIn(m) /\ ValuesIn(m) \subseteq Nat /\ \A v \in ValuesIn(m) : l <= v
  BY TalliesAreFinite DEF LeastOf
<1> DEFINE V == ValuesIn(m)
<1>2. \A x \in V : (\A y \in V : x <= y) => x = l
  BY <1>1
<1> QED
  BY <1>1, <1>2 DEF Min

\* A group that is kept is shown with its aggregates.
LEMMA FinalizedIs ==
  ASSUME NEW c \in Contents, NEW gs, GroupsKept(gs, c, {}), NEW g \in GroupsIn(c)
  PROVE  Finalized(gs, g) = AggregatesOf(c, g)
<1> DEFINE m == MembersOf(c, g)
           l == gs[g].least
<1>1. gs[g] = Tallied(m, m, l) /\ LeastOf(m, l)
  BY DEF GroupsKept
<1>2. /\ AreMembers(m) /\ DOMAIN m = KeysIn(c, g) /\ KeysIn(c, g) # {}
      /\ IsFiniteSet(KeysIn(c, g)) /\ \A k \in KeysIn(c, g) : m[k] = c[k] /\ c[k] \in Rows
  BY MembersAre
<1> HIDE DEF m
<1>3. l = Min(ValuesIn(m))
  BY <1>1, <1>2, LeastIsMin
<1>4. SumOver(m, DOMAIN m) = SumOver(c, KeysIn(c, g))
  BY <1>2, SumAlike
<1>5. /\ gs[g].count = Cardinality(DOMAIN m) /\ gs[g].distinct = Cardinality(ValuesIn(m))
      /\ gs[g].total = SumOver(m, DOMAIN m)
  <2> HIDE DEF l
  <2> QED
    BY <1>1 DEF Tallied
<1> QED
  BY <1>2, <1>3, <1>4, <1>5 DEF Finalized, AggregatesOf, m

\* What orders groups are numbers.
LEMMA AggregatesAreNumbers ==
  ASSUME plan \in Plans, NEW c \in Contents, NEW g \in GroupsIn(c)
  PROVE  AggregatesOf(c, g)[plan.orderBy] \in Int /\ AggregatesOf(c, g).key = g /\ g \in Nat
<1> DEFINE m == MembersOf(c, g)
<1>1. /\ AreMembers(m) /\ DOMAIN m = KeysIn(c, g) /\ KeysIn(c, g) # {}
      /\ IsFiniteSet(KeysIn(c, g)) /\ Cardinality(KeysIn(c, g)) \in Nat
      /\ \A k \in KeysIn(c, g) : m[k] = c[k] /\ c[k] \in Rows
  BY MembersAre
<1>2. g \in Nat
  BY GroupsAreFinite
<1> HIDE DEF m
<1>3. Cardinality(ValuesIn(m)) \in Nat
  BY <1>1, TalliesAreFinite
<1>4. SumOver(c, KeysIn(c, g)) \in Nat
  BY <1>1, SumIsNumber
<1>5. Min(ValuesIn(m)) \in Nat
  <2>1. LeastOf(m, Min(ValuesIn(m)))
    BY <1>1, RecomputedLeast
  <2> QED
    BY <1>1, <2>1, LeastIsMin
<1>6. plan.orderBy \in Orders
  BY GroupedAssumption
<1>7. AggregatesOf(c, g) =
        [key |-> g, count |-> Cardinality(KeysIn(c, g)), distinct |-> Cardinality(ValuesIn(m)),
         total |-> SumOver(c, KeysIn(c, g)), least |-> Min(ValuesIn(m))]
  BY DEF AggregatesOf, m
<1> DEFINE x == Cardinality(KeysIn(c, g))
           y == Cardinality(ValuesIn(m))
           z == SumOver(c, KeysIn(c, g))
           l == Min(ValuesIn(m))
<1>8. x \in Int /\ y \in Int /\ z \in Int /\ l \in Int
  BY <1>1, <1>3, <1>4, <1>5
<1> HIDE DEF x, y, z, l
<1>9. AggregatesOf(c, g) = [key |-> g, count |-> x, distinct |-> y, total |-> z, least |-> l]
  BY <1>7 DEF x, y, z, l
<1> QED
  BY <1>2, <1>6, <1>8, <1>9 DEF Orders

\* The groups are in one order.
LEMMA GroupsAreOrdered ==
  ASSUME plan \in Plans, NEW c \in Contents
  PROVE  /\ \A f \in GroupsIn(c) : ~Before(AggregatesOf(c, f), AggregatesOf(c, f))
         /\ \A f, g \in GroupsIn(c) :
              f = g \/ Before(AggregatesOf(c, f), AggregatesOf(c, g))
                    \/ Before(AggregatesOf(c, g), AggregatesOf(c, f))
         /\ \A f, g, h \in GroupsIn(c) :
              Before(AggregatesOf(c, f), AggregatesOf(c, g)) /\ Before(AggregatesOf(c, g), AggregatesOf(c, h))
              => Before(AggregatesOf(c, f), AggregatesOf(c, h))
<1> DEFINE x(g) == AggregatesOf(c, g)[plan.orderBy]
<1>1. \A g \in GroupsIn(c) : x(g) \in Int /\ AggregatesOf(c, g).key = g /\ g \in Nat
  BY AggregatesAreNumbers
<1>2. \A f, g \in GroupsIn(c) :
        Before(AggregatesOf(c, f), AggregatesOf(c, g)) <=> x(f) < x(g) \/ (x(f) = x(g) /\ f < g)
  BY <1>1 DEF Before
<1> HIDE DEF x
<1> QED
  BY <1>1, <1>2

\* There is a group for every rank.
LEMMA EveryRank ==
  ASSUME plan \in Plans, NEW c \in Contents, NEW n \in 0..(Cardinality(GroupsIn(c)) - 1)
  PROVE  \E g \in GroupsIn(c) : Cardinality(Ahead(c, g)) = n
<1> DEFINE G == GroupsIn(c)
           top == Cardinality(G) - 1
           rank == [g \in G |-> Cardinality(Ahead(c, g))]
<1>1. IsFiniteSet(G) /\ Cardinality(G) \in Nat /\ top + 1 = Cardinality(G)
  BY GroupsAreFinite
<1>2. ASSUME NEW g \in G
      PROVE  /\ IsFiniteSet(Ahead(c, g)) /\ Cardinality(Ahead(c, g)) \in 0..top
             /\ Ahead(c, g) \subseteq G \ {g}
  <2>1. Ahead(c, g) \subseteq G \ {g}
    BY GroupsAreOrdered DEF Ahead
  <2>2. IsFiniteSet(G \ {g}) /\ Cardinality(G \ {g}) = top
    BY <1>1, FS_RemoveElement
  <2> HIDE DEF G, top
  <2>3. IsFiniteSet(Ahead(c, g)) /\ Cardinality(Ahead(c, g)) <= Cardinality(G \ {g})
    BY <2>1, <2>2, FS_Subset
  <2>4. Cardinality(Ahead(c, g)) \in Nat
    BY <2>3, FS_CardinalityType
  <2> QED
    BY <1>1, <2>1, <2>2, <2>3, <2>4
<1>3. \A f, g \in G : Before(AggregatesOf(c, f), AggregatesOf(c, g)) => rank[f] < rank[g]
  <2> SUFFICES ASSUME NEW f \in G, NEW g \in G, Before(AggregatesOf(c, f), AggregatesOf(c, g))
               PROVE  rank[f] < rank[g]
    OBVIOUS
  <2>1. Ahead(c, f) \subseteq Ahead(c, g) /\ f \in Ahead(c, g) /\ f \notin Ahead(c, f)
    BY GroupsAreOrdered DEF Ahead
  <2>2. IsFiniteSet(Ahead(c, g)) /\ IsFiniteSet(Ahead(c, f))
    BY <1>2
  <2>3. Cardinality(Ahead(c, f)) <= Cardinality(Ahead(c, g) \ {f})
    <3>1. IsFiniteSet(Ahead(c, g) \ {f}) /\ Ahead(c, f) \subseteq Ahead(c, g) \ {f}
      BY <2>1, <2>2, FS_Subset
    <3> QED
      BY <3>1, FS_Subset
  <2>4. Cardinality(Ahead(c, g) \ {f}) = Cardinality(Ahead(c, g)) - 1
    BY <2>1, <2>2, FS_RemoveElement
  <2>5. Cardinality(Ahead(c, f)) \in Nat /\ Cardinality(Ahead(c, g)) \in Nat
    BY <2>2, FS_CardinalityType
  <2> QED
    BY <2>3, <2>4, <2>5
<1>4. rank \in Injection(G, 0..top)
  <2>1. rank \in [G -> 0..top]
    BY <1>2
  <2>2. \A f, g \in G : rank[f] = rank[g] => f = g
    <3>1. \A f \in G : rank[f] \in Nat
      BY <2>1
    <3> HIDE DEF rank
    <3> QED
      BY <1>3, <3>1, GroupsAreOrdered
  <2> HIDE DEF rank
  <2> QED
    BY <2>1, <2>2 DEF Injection, IsInjective
<1>5. IsFiniteSet(0..top) /\ Cardinality(0..top) = Cardinality(G)
  <2>1. top \in Int /\ top >= -1
    BY <1>1
  <2> HIDE DEF G, top
  <2>2. IsFiniteSet(0..top) /\ Cardinality(0..top) = IF 0 > top THEN 0 ELSE top - 0 + 1
    BY <2>1, FS_Interval
  <2>3. (IF 0 > top THEN 0 ELSE top - 0 + 1) = top + 1
    BY <2>1
  <2> QED
    BY <1>1, <2>2, <2>3
<1> HIDE DEF rank, G, top
<1>6. rank \in Surjection(G, 0..top)
  BY <1>4, <1>5, FS_Injection
<1>7. \E g \in G : rank[g] = n
  BY <1>6 DEF Surjection, G, top
<1> QED
  BY <1>7 DEF rank, G
-------------------------------------------------------------------------------
\* What is kept of the contents evaluates to what they show.
LEMMA EvaluationShows ==
  ASSUME plan \in Plans, NEW c \in Contents, NEW gs, Holds(gs, c)
  PROVE  Shown(EvaluationOf(gs), c)
<1> DEFINE e == EvaluationOf(gs)
           count == Cardinality(GroupsIn(c))
           results == {Finalized(gs, g) : g \in DOMAIN gs}
           end == IF plan.limit = NoLimit THEN count ELSE Less(plan.offset + plan.limit, count)
<1>1. DOMAIN gs = GroupsIn(c)
  BY DEF Holds, CountsKept, GroupsKept
<1>2. e.total = count /\ e.window = WindowOf(gs)
  BY <1>1 DEF EvaluationOf
<1>3. plan.offset \in Nat /\ (plan.limit = NoLimit \/ plan.limit \in Nat) /\ NoLimit \notin Nat
  BY GroupedAssumption
<1>4. count \in Nat
  BY GroupsAreFinite
<1> HIDE DEF e
<1>5. CASE CountsOnly
  <2>1. e.window = <<>>
    BY <1>2, <1>5 DEF WindowOf
  <2>2. Places(c) = {}
    BY <1>3, <1>4, <1>5 DEF Places, CountsOnly
  <2>3. DOMAIN <<>> = {}
    OBVIOUS
  <2> QED
    BY <1>2, <2>1, <2>2, <2>3 DEF Shown, e
<1>6. CASE ~CountsOnly
  <2>1. GroupsKept(gs, c, {})
    BY <1>6 DEF Holds
  <2>2. \A g \in GroupsIn(c) : Finalized(gs, g) = AggregatesOf(c, g)
    BY <2>1, FinalizedIs
  <2>3. results = {AggregatesOf(c, g) : g \in GroupsIn(c)}
    BY <1>1, <2>2
  <2>4. e.window = [i \in 1..(end - plan.offset) |-> Ranked(results, plan.offset + i - 1)]
    BY <1>1, <1>2, <1>6 DEF WindowOf
  <2>5. 1..(end - plan.offset) = Places(c)
    <3>1. CASE plan.limit = NoLimit
      <4>1. Places(c) = {i \in 1..count : plan.offset + i <= count}
        BY <3>1 DEF Places
      <4>2. end = count
        BY <3>1
      <4> HIDE DEF count, end
      <4> QED
        BY <1>3, <1>4, <4>1, <4>2
    <3>2. CASE plan.limit # NoLimit
      <4>1. Places(c) = {i \in 1..count : plan.offset + i <= count /\ i <= plan.limit}
        BY <3>2 DEF Places
      <4>2. end = IF plan.offset + plan.limit < count THEN plan.offset + plan.limit ELSE count
        BY <3>2 DEF Less
      <4> HIDE DEF count, end
      <4>3. CASE plan.offset + plan.limit < count
        <5>1. end - plan.offset = plan.limit /\ plan.limit \in Nat
          BY <1>3, <3>2, <4>2, <4>3
        <5>2. \A i \in Int : i \in 1..plan.limit
                <=> i \in 1..count /\ plan.offset + i <= count /\ i <= plan.limit
          BY <1>3, <1>4, <4>3, <5>1
        <5> QED
          BY <4>1, <5>1, <5>2
      <4>4. CASE ~(plan.offset + plan.limit < count)
        <5>1. end = count /\ plan.limit \in Nat
          BY <1>3, <3>2, <4>2, <4>4
        <5>2. \A i \in Int : i \in 1..(count - plan.offset)
                <=> i \in 1..count /\ plan.offset + i <= count /\ i <= plan.limit
          BY <1>3, <1>4, <4>4, <5>1
        <5> QED
          BY <4>1, <5>1, <5>2
      <4> QED
        BY <4>3, <4>4
    <3> QED
      BY <3>1, <3>2
  <2>6. ASSUME NEW i \in Places(c)
        PROVE  \E g \in GroupsIn(c) :
                 e.window[i] = AggregatesOf(c, g) /\ Cardinality(Ahead(c, g)) = plan.offset + i - 1
    <3> DEFINE n == plan.offset + i - 1
    <3>1. n \in 0..(count - 1)
      BY <1>3, <1>4 DEF Places
    <3>2. e.window[i] = Ranked(results, n)
      BY <2>4, <2>5
    <3> HIDE DEF n
    <3>3. \E g \in GroupsIn(c) : Cardinality(Ahead(c, g)) = n
      BY <3>1, EveryRank
    <3>4. ASSUME NEW g \in GroupsIn(c)
          PROVE  Cardinality({f \in results : Before(f, AggregatesOf(c, g))}) = Cardinality(Ahead(c, g))
      <4> DEFINE A == Ahead(c, g)
                 R == {f \in results : Before(f, AggregatesOf(c, g))}
                 key == [x \in R |-> x.key]
      <4>1. \A f \in GroupsIn(c) : AggregatesOf(c, f).key = f
        BY AggregatesAreNumbers
      <4>2. R = {AggregatesOf(c, f) : f \in A}
        BY <2>3 DEF Ahead
      <4>3. IsFiniteSet(A)
        BY GroupsAreFinite, FS_Subset DEF Ahead
      <4>4. A \subseteq GroupsIn(c)
        BY DEF Ahead
      <4> HIDE DEF A, R
      <4>5. [f \in A |-> AggregatesOf(c, f)] \in Bijection(A, R)
        <5> DEFINE b == [f \in A |-> AggregatesOf(c, f)]
        <5>1. b \in [A -> R] /\ \A x \in R : \E f \in A : b[f] = x
          BY <4>2
        <5>2. \A f, h \in A : b[f] = b[h] => f = h
          BY <4>1, <4>4
        <5> HIDE DEF b
        <5>3. b \in Injection(A, R)
          BY <5>1, <5>2 DEF Injection, IsInjective
        <5>4. b \in Surjection(A, R)
          BY <5>1 DEF Surjection
        <5> QED
          BY <5>3, <5>4 DEF Bijection, b
      <4>6. ExistsBijection(A, R)
        BY <4>5 DEF ExistsBijection
      <4>7. Cardinality(R) = Cardinality(A)
        BY <4>3, <4>6, FS_Bijection
      <4> QED
        BY <4>7 DEF A, R
    <3>5. \E x \in results : Cardinality({f \in results : Before(f, x)}) = n
      BY <2>3, <3>3, <3>4
    <3>6. /\ Ranked(results, n) \in results
          /\ Cardinality({f \in results : Before(f, Ranked(results, n))}) = n
      <4> HIDE DEF results
      <4> QED
        BY <3>5 DEF Ranked
    <3>7. PICK g \in GroupsIn(c) : Ranked(results, n) = AggregatesOf(c, g)
      BY <2>3, <3>6
    <3> HIDE DEF results
    <3>8. Cardinality(Ahead(c, g)) = n
      BY <3>4, <3>6, <3>7
    <3> QED
      BY <3>2, <3>7, <3>8 DEF n
  <2>7. DOMAIN e.window = Places(c)
    BY <2>4, <2>5
  <2> QED
    BY <1>2, <2>6, <2>7 DEF Shown, e
<1> QED
  BY <1>5, <1>6

\* Groups that did not change are shown as they were.
LEMMA AggregatesAlike ==
  ASSUME NEW a \in Contents, NEW c \in Contents, NEW changed, SameGroups(a, c, changed)
  PROVE  /\ GroupsIn(c) = GroupsIn(a)
         /\ \A g : KeysIn(c, g) = KeysIn(a, g)
         /\ \A g : g \in changed \/ AggregatesOf(c, g) = AggregatesOf(a, g)
<1>1. \A g : KeysIn(c, g) = KeysIn(a, g)
  BY DEF SameGroups, KeysIn
<1>2. GroupsIn(c) = GroupsIn(a)
  BY <1>1 DEF GroupsIn
<1>3. ASSUME NEW g, g \notin changed
      PROVE  AggregatesOf(c, g) = AggregatesOf(a, g)
  <2> DEFINE S == KeysIn(a, g)
  <2>1. \A k \in S : c[k] \in Rows /\ a[k] \in Rows /\ ValueOf[c[k]] = ValueOf[a[k]]
    <3>1. \A k \in S : /\ k \in Keys /\ a[k] \in Matching /\ c[k] \in Matching
                       /\ GroupOf[a[k]] = g /\ GroupOf[c[k]] = g
      BY <1>1 DEF KeysIn
    <3> QED
      BY <1>3, <3>1, GroupedAssumption DEF SameGroups
  <2>2. IsFiniteSet(S)
    BY MembersAre
  <2>3. ValuesIn(MembersOf(c, g)) = ValuesIn(MembersOf(a, g))
    BY <1>1, <2>1 DEF ValuesIn, MembersOf
  <2>4. KeysIn(c, g) = S
    BY <1>1
  <2> HIDE DEF S
  <2>5. SumOver(c, S) = SumOver(a, S)
    BY <2>1, <2>2, SumAlike
  <2> QED
    BY <2>3, <2>4, <2>5 DEF AggregatesOf, S
<1> QED
  BY <1>1, <1>2, <1>3

\* A result has these parts.
IsEvaluation(e) ==
  DOMAIN e = {"window", "total", "version"} /\ e = [f \in {"window", "total", "version"} |-> e[f]]

\* Rows of changed groups are replaced in place while nothing moved.
LEMMA PatchedShows ==
  ASSUME plan \in Plans, NEW a \in Contents, NEW c \in Contents, Shown(evaluation, a),
         IsEvaluation(evaluation), NEW st, Kept(st, a, c), st.ok, st.outdated = {}, ~st.reorder
  PROVE  Shown(Patched(st), c)
<1> DEFINE e == Patched(st)
           w == evaluation.window
           now == [i \in DOMAIN w |->
                     IF w[i].key \in st.changed THEN Finalized(st.groups, w[i].key) ELSE w[i]]
<1>1. e.window = now /\ e.total = evaluation.total
  BY DEF Patched, IsEvaluation
<1>2. /\ GroupsKept(st.groups, c, {}) /\ SameGroups(a, c, st.changed)
      /\ OrderedByValue => st.changed = {}
  BY DEF Kept, Unmoved
<1>3. /\ GroupsIn(c) = GroupsIn(a)
      /\ \A g : KeysIn(c, g) = KeysIn(a, g)
      /\ \A g : g \in st.changed \/ AggregatesOf(c, g) = AggregatesOf(a, g)
  BY <1>2, AggregatesAlike
<1>4. /\ evaluation.total = Cardinality(GroupsIn(a)) /\ DOMAIN w = Places(a)
      /\ \A i \in Places(a) :
           \E g \in GroupsIn(a) :
             w[i] = AggregatesOf(a, g) /\ Cardinality(Ahead(a, g)) = plan.offset + i - 1
  BY DEF Shown
<1>5. Places(c) = Places(a)
  BY <1>3 DEF Places
<1>6. \A g \in GroupsIn(a) :
        /\ AggregatesOf(a, g).key = g /\ AggregatesOf(c, g).key = g
        /\ AggregatesOf(a, g)[plan.orderBy] = AggregatesOf(c, g)[plan.orderBy]
  <2>1. plan.orderBy \in Orders
    BY GroupedAssumption
  <2>2. CASE OrderedByValue
    BY <1>2, <1>3, <2>2 DEF AggregatesOf
  <2>3. CASE plan.orderBy = "key"
    BY <2>3 DEF AggregatesOf
  <2>4. CASE plan.orderBy = "count"
    BY <1>3, <2>4 DEF AggregatesOf
  <2> QED
    BY <2>1, <2>2, <2>3, <2>4 DEF Orders, OrderedByValue
<1>7. \A g \in GroupsIn(a) : Ahead(c, g) = Ahead(a, g)
  <2>1. \A f, g \in GroupsIn(a) : Before(AggregatesOf(c, f), AggregatesOf(c, g))
                                   <=> Before(AggregatesOf(a, f), AggregatesOf(a, g))
    BY <1>6 DEF Before
  <2> QED
    BY <1>3, <2>1 DEF Ahead
<1> HIDE DEF e, now
<1>8. ASSUME NEW i \in Places(c)
      PROVE  \E g \in GroupsIn(c) :
               e.window[i] = AggregatesOf(c, g) /\ Cardinality(Ahead(c, g)) = plan.offset + i - 1
  <2>1. PICK g \in GroupsIn(a) :
          w[i] = AggregatesOf(a, g) /\ Cardinality(Ahead(a, g)) = plan.offset + i - 1
    BY <1>4, <1>5
  <2>2. w[i].key = g
    BY <1>6, <2>1
  <2>3. e.window[i] = IF g \in st.changed THEN Finalized(st.groups, g) ELSE w[i]
    BY <1>1, <1>4, <1>5, <2>2 DEF now
  <2>4. Finalized(st.groups, g) = AggregatesOf(c, g)
    BY <1>2, <1>3, <2>1, FinalizedIs
  <2>5. e.window[i] = AggregatesOf(c, g)
    BY <1>3, <2>1, <2>3, <2>4
  <2> QED
    BY <1>3, <1>7, <2>1, <2>5
<1>9. DOMAIN e.window = Places(c)
  BY <1>1, <1>4, <1>5 DEF now
<1> QED
  BY <1>1, <1>3, <1>4, <1>8, <1>9 DEF Shown, e
-------------------------------------------------------------------------------
(* The invariant of grouped executions. *)

\* There is an execution while it is leased, and the journal is kept for those that use it.
LeasesInv ==
  /\ others \in Nat
  /\ refs \in Nat
  /\ retained \in BOOLEAN
  /\ mode \in {"none", "incremental", "fallback"}
  /\ mode = "none" <=> refs = 0
  /\ JournalReferences

\* An execution keeps and shows what it has seen.
ExecutionInv ==
  /\ mode = "incremental" => GroupsRight(groups, members, seen)
  /\ mode # "none" => Shown(evaluation, seen) /\ IsEvaluation(evaluation)

GroupedInv ==
  /\ plan \in Plans
  /\ rows \in Contents
  /\ version \in Nat
  /\ writing \in Nat
  /\ LeasesInv
  /\ \E h : History(h)
  /\ ExecutionInv

\* The query stays what it is.
LEMMA SameQuery ==
  ASSUME plan' = plan, plan \in Plans
  PROVE  /\ Shown(evaluation', seen') => Shown(evaluation, seen)'
         /\ GroupsRight(groups', members', seen') => GroupsRight(groups, members, seen)'
<1>1. Shown(evaluation', seen') => Shown(evaluation, seen)'
  BY DEF Shown, Places, Ahead, Before
<1>2. CountsOnly' = CountsOnly
  BY DEF CountsOnly
<1>3. GroupsRight(groups', members', seen') => GroupsRight(groups, members, seen)'
  BY <1>2 DEF GroupsRight
<1> QED
  BY <1>1, <1>3

\* Nothing is added for an execution that keeps no reference.
LEMMA PlusZero == \A n \in Nat : n + 0 = n
OBVIOUS

\* What to show of a step: an incremental execution has a reference, any other has none.
LEMMA Balanced ==
  ASSUME others' \in Nat, refs' \in Nat,
         mode' \in {"none", "incremental", "fallback"}, mode' = "none" <=> refs' = 0,
         \/ retained' = TRUE /\ mode' = "incremental" /\ journal'.refs = others' + 1
         \/ retained' = FALSE /\ mode' # "incremental" /\ journal'.refs = others'
  PROVE  LeasesInv'
<1>1. CASE retained' = TRUE /\ mode' = "incremental" /\ journal'.refs = others' + 1
  <2>1. JournalReferences'
    BY <1>1 DEF JournalReferences
  <2> QED
    BY <1>1, <2>1 DEF LeasesInv
<1>2. CASE retained' = FALSE /\ mode' # "incremental" /\ journal'.refs = others'
  <2>1. others' + 0 = others'
    BY PlusZero, Zenon
  <2>2. JournalReferences'
    BY <1>2, <2>1 DEF JournalReferences
  <2> QED
    BY <1>2, <2>2 DEF LeasesInv
<1> QED
  BY <1>1, <1>2

\* What keeps a result has what it shows.
LEMMA RightShows ==
  ASSUME plan \in Plans, NEW c \in Contents, NEW gs, NEW n, GroupsRight(gs, n, c)
  PROVE  Shown(EvaluationOf(gs), c) /\ IsEvaluation(EvaluationOf(gs))
         /\ EvaluationOf(gs).version = version
<1>1. Holds(gs, c)
  BY DEF GroupsRight, Holds
<1>2. IsEvaluation(EvaluationOf(gs)) /\ EvaluationOf(gs).version = version
  BY DEF IsEvaluation, EvaluationOf
<1> QED
  BY <1>1, <1>2, EvaluationShows

\* So has a scan.
LEMMA ScanShows ==
  ASSUME plan \in Plans, rows \in Contents
  PROVE  Shown(EvaluationOf(Scanned), rows) /\ IsEvaluation(EvaluationOf(Scanned))
         /\ EvaluationOf(Scanned).version = version
<1>1. Holds(Scanned, rows)
  BY ScanFinds
<1>2. IsEvaluation(EvaluationOf(Scanned)) /\ EvaluationOf(Scanned).version = version
  BY DEF IsEvaluation, EvaluationOf
<1> QED
  BY <1>1, <1>2, EvaluationShows

\* An execution that is brought up to date keeps and shows the rows there are.
LEMMA RefreshKnows ==
  ASSUME GroupedInv, writing = 0, refs > 0, Refresh
  PROVE  /\ seen' = rows /\ evaluation'.version = version
         /\ Shown(evaluation', rows) /\ IsEvaluation(evaluation')
         /\ mode' = "incremental" => GroupsRight(groups', members', rows)
         /\ \/ UNCHANGED <<mode, retained, journal>>
            \/ /\ mode = "incremental" /\ mode' = "fallback" /\ retained' = FALSE
               /\ journal' = Release(journal, version)
<1>1. /\ plan \in Plans /\ rows \in Contents /\ version \in Nat
      /\ refs \in Nat /\ mode \in {"none", "incremental", "fallback"}
      /\ mode = "none" <=> refs = 0
      /\ retained <=> mode = "incremental"
  BY DEF GroupedInv, LeasesInv, JournalReferences
<1>2. mode # "none"
  BY <1>1
<1>3. PICK h : History(h)
  BY DEF GroupedInv
<1>4. /\ h \in [Nat -> Contents] /\ rows = h[version]
      /\ evaluation.version \in 0..version /\ seen = h[evaluation.version]
  BY <1>2, <1>3 DEF History
<1>5. /\ mode = "incremental" => GroupsRight(groups, members, seen)
      /\ Shown(evaluation, seen) /\ IsEvaluation(evaluation)
  BY <1>2 DEF GroupedInv, ExecutionInv
<1>6. seen' = rows
  BY DEF Refresh
<1>7. ASSUME mode = "incremental", FallBack
      PROVE  /\ evaluation'.version = version /\ Shown(evaluation', rows) /\ IsEvaluation(evaluation')
             /\ mode' = "fallback" /\ retained' = FALSE /\ journal' = Release(journal, version)
  BY <1>1, <1>7, ScanShows DEF FallBack
<1>8. CASE evaluation.version = version
  <2>1. UNCHANGED <<mode, retained, journal, groups, members, evaluation>>
    BY <1>8 DEF Refresh, Keep
  <2> QED
    BY <1>4, <1>5, <1>6, <1>8, <2>1
<1>9. CASE evaluation.version # version /\ mode = "fallback"
  <2>1. UNCHANGED <<mode, retained, journal>> /\ evaluation' = EvaluationOf(Scanned)
    BY <1>9 DEF Refresh, Keep
  <2> QED
    BY <1>1, <1>6, <1>9, <2>1, ScanShows
<1>10. CASE /\ evaluation.version # version /\ mode # "fallback"
            /\ Covers(journal, evaluation.version, version)
  <2> DEFINE st == Updated
  <2>1. mode = "incremental" /\ CatchUp
    BY <1>1, <1>2, <1>10 DEF Refresh
  <2>2. Tracks(st, seen, rows)
    BY <1>1, <1>2, <1>3, <1>5, <1>10, <2>1, UpdatedTracks
  <2>3. IF ~st.ok THEN FallBack
        ELSE Keep(st.groups, st.members, IF st.reorder THEN EvaluationOf(st.groups) ELSE Patched(st))
    BY <2>1 DEF CatchUp
  <2> HIDE DEF st
  <2>4. CASE ~st.ok
    BY <1>6, <1>7, <2>1, <2>3, <2>4
  <2>5. CASE st.ok
    <3>1. /\ groups' = st.groups /\ members' = st.members /\ UNCHANGED <<mode, retained, journal>>
          /\ evaluation' = IF st.reorder THEN EvaluationOf(st.groups) ELSE Patched(st)
      BY <2>3, <2>5 DEF Keep
    <3>2. GroupsRight(st.groups, st.members, rows)
      BY <2>2, <2>5, TrackedIsRight
    <3>3. CASE st.reorder
      BY <1>1, <1>6, <3>1, <3>2, <3>3, RightShows
    <3>4. CASE ~st.reorder
      <4>1. ~CountsOnly
        BY <2>2, <3>4 DEF Tracks, Underway, Counted
      <4>2. Kept(st, seen, rows) /\ st.outdated = {}
        BY <2>2, <2>5, <4>1 DEF Tracks, Underway
      <4>3. seen \in Contents
        BY <1>4
      <4>4. Shown(Patched(st), rows)
        BY <1>1, <1>5, <2>5, <3>4, <4>2, <4>3, PatchedShows
      <4>5. IsEvaluation(Patched(st)) /\ Patched(st).version = version
        <5> DEFINE w == [i \in DOMAIN evaluation.window |->
                           IF evaluation.window[i].key \in st.changed
                           THEN Finalized(st.groups, evaluation.window[i].key)
                           ELSE evaluation.window[i]]
        <5>1. Patched(st) = [evaluation EXCEPT !.version = version, !.window = w]
          BY DEF Patched
        <5> HIDE DEF w
        <5> QED
          BY <1>5, <5>1 DEF IsEvaluation
      <4> QED
        BY <1>6, <3>1, <3>2, <3>4, <4>4, <4>5
    <3> QED
      BY <3>3, <3>4
  <2> QED
    BY <2>4, <2>5
<1>11. CASE /\ evaluation.version # version /\ mode # "fallback"
            /\ ~Covers(journal, evaluation.version, version)
  <2>1. mode = "incremental" /\ Rebuild
    BY <1>1, <1>2, <1>11 DEF Refresh
  <2>2. CASE Admitted(Scanned, MemberCount)
    <3>1. Keep(Scanned, MemberCount, EvaluationOf(Scanned))
      BY <2>1, <2>2 DEF Rebuild
    <3>2. GroupsRight(Scanned, MemberCount, rows)
      BY <1>1, <2>2, ScanIsRight
    <3> QED
      BY <1>1, <1>6, <3>1, <3>2, RightShows DEF Keep
  <2>3. CASE ~Admitted(Scanned, MemberCount)
    <3>1. FallBack
      BY <2>1, <2>3 DEF Rebuild
    <3> QED
      BY <1>6, <1>7, <2>1, <3>1
  <2> QED
    BY <2>2, <2>3
<1> QED
  BY <1>8, <1>9, <1>10, <1>11

\* Bringing it up to date keeps the invariant.
LEMMA RefreshKeeps ==
  ASSUME GroupedInv, writing = 0, refs > 0, Refresh, refs' \in Nat, refs' > 0,
         UNCHANGED <<plan, storeVars, others>>
  PROVE  GroupedInv'
<1>1. /\ plan \in Plans /\ rows \in Contents /\ version \in Nat /\ LeasesInv
      /\ plan' = plan /\ rows' = rows /\ version' = version /\ writing' = writing /\ others' = others
  BY DEF GroupedInv, storeVars
<1>2. /\ seen' = rows /\ evaluation'.version = version
      /\ Shown(evaluation', rows) /\ IsEvaluation(evaluation')
      /\ mode' = "incremental" => GroupsRight(groups', members', rows)
      /\ \/ UNCHANGED <<mode, retained, journal>>
         \/ /\ mode = "incremental" /\ mode' = "fallback" /\ retained' = FALSE
            /\ journal' = Release(journal, version)
  BY RefreshKnows
<1>3. PICK h : History(h)
  BY DEF GroupedInv
<1>4. h \in [Nat -> Contents] /\ rows = h[version] /\ Fits(journal, h, version, h[version])
  BY <1>3 DEF History
<1>5. IsJournal(journal, Change)
  BY <1>4 DEF Fits
<1>6. History(h)'
  <2>1. Fits(journal', h, version, h[version])
    BY <1>1, <1>2, <1>4, ReferencesFit
  <2>2. version \in 0..version
    BY <1>1
  <2> QED
    BY <1>1, <1>2, <1>4, <2>1, <2>2 DEF History
<1>7. ExecutionInv'
  BY <1>1, <1>2, SameQuery DEF ExecutionInv
<1>8. LeasesInv'
  <2>1. CASE UNCHANGED <<mode, retained, journal>>
    BY <1>1, <2>1 DEF LeasesInv, JournalReferences
  <2>2. CASE /\ mode = "incremental" /\ mode' = "fallback" /\ retained' = FALSE
             /\ journal' = Release(journal, version)
    <3>1. journal.refs = others + 1 /\ others \in Nat
      BY <1>1, <2>2 DEF LeasesInv, JournalReferences
    <3>2. journal'.refs = IF journal.refs = 0 THEN 0 ELSE journal.refs - 1
      BY <1>5, <2>2, ReleaseCases
    <3>3. others' \in Nat /\ journal'.refs = others'
      BY <1>1, <3>1, <3>2
    <3>4. mode' \in {"none", "incremental", "fallback"} /\ mode' # "incremental" /\ mode' # "none" /\ refs' # 0
      BY <2>2
    <3> QED
      BY <2>2, <3>3, <3>4, Balanced, Zenon
  <2> QED
    BY <1>2, <2>1, <2>2
<1> QED
  BY <1>1, <1>6, <1>7, <1>8 DEF GroupedInv
-------------------------------------------------------------------------------
(* Every step keeps it. *)

\* Nothing but the history changes for an execution that is left alone.
LEMMA LeftAlone ==
  ASSUME GroupedInv, UNCHANGED <<plan, mode, groups, members, evaluation, seen>>
  PROVE  ExecutionInv'
<1>1. plan' = plan /\ plan \in Plans
  BY DEF GroupedInv
<1> QED
  BY <1>1, SameQuery DEF GroupedInv, ExecutionInv

\* The first lease makes an execution.
LEMMA CreateKeeps ==
  ASSUME GroupedInv, writing = 0, refs = 0, Create, refs' = 1, UNCHANGED <<plan, storeVars, others>>
  PROVE  GroupedInv'
<1>1. /\ plan \in Plans /\ rows \in Contents /\ version \in Nat /\ LeasesInv
      /\ plan' = plan /\ rows' = rows /\ version' = version /\ writing' = writing /\ others' = others
  BY DEF GroupedInv, storeVars
<1>2. PICK h : History(h)
  BY DEF GroupedInv
<1>3. h \in [Nat -> Contents] /\ rows = h[version] /\ Fits(journal, h, version, h[version])
  BY <1>2 DEF History
<1>4. IsJournal(journal, Change) /\ others \in Nat /\ journal.refs = others
  <2>1. mode = "none" /\ retained = FALSE
    BY <1>1 DEF LeasesInv, JournalReferences
  <2>2. journal.refs = others + 0 /\ others \in Nat
    BY <1>1, <2>1 DEF LeasesInv, JournalReferences
  <2> QED
    BY <1>3, <2>2 DEF Fits
<1>5. seen' = rows /\ evaluation' = EvaluationOf(Scanned)
  BY DEF Create
<1>6. /\ Shown(evaluation', rows) /\ IsEvaluation(evaluation') /\ evaluation'.version = version
  BY <1>1, <1>5, ScanShows
<1>7. CASE Admitted(Scanned, MemberCount)
  <2>1. /\ mode' = "incremental" /\ groups' = Scanned /\ members' = MemberCount
        /\ retained' = TRUE /\ journal' = Retain(journal, version)
    BY <1>7 DEF Create
  <2>2. GroupsRight(groups', members', rows)
    BY <1>1, <1>7, <2>1, ScanIsRight
  <2>3. Fits(journal', h, version, h[version])
    BY <1>1, <1>3, <2>1, ReferencesFit
  <2>4. journal'.refs = others' + 1
    BY <1>1, <1>4, <2>1, RetainCases
  <2>5. LeasesInv'
    BY <1>1, <1>4, <2>1, <2>4, Balanced
  <2>6. History(h)'
    BY <1>1, <1>3, <1>5, <1>6, <2>3 DEF History
  <2>7. ExecutionInv'
    BY <1>1, <1>5, <1>6, <2>2, SameQuery DEF ExecutionInv
  <2> QED
    BY <1>1, <2>5, <2>6, <2>7 DEF GroupedInv
<1>8. CASE ~Admitted(Scanned, MemberCount)
  <2>1. mode' = "fallback" /\ retained' = FALSE /\ journal' = journal
    BY <1>8 DEF Create
  <2>2. LeasesInv'
    <3>1. others' \in Nat /\ refs' \in Nat /\ journal'.refs = others'
      BY <1>1, <1>4, <2>1
    <3>2. mode' \in {"none", "incremental", "fallback"} /\ mode' # "incremental" /\ mode' # "none" /\ refs' # 0
      BY <2>1
    <3> QED
      BY <2>1, <3>1, <3>2, Balanced, Zenon
  <2>3. History(h)'
    BY <1>1, <1>3, <1>5, <1>6, <2>1 DEF History
  <2>4. ExecutionInv'
    BY <1>1, <1>5, <1>6, <2>1, SameQuery DEF ExecutionInv
  <2> QED
    BY <1>1, <2>2, <2>3, <2>4 DEF GroupedInv
<1> QED
  BY <1>7, <1>8

\* A row is stored.
LEMMA StoreKeeps ==
  ASSUME GroupedInv, NEW k \in Keys, NEW r \in Rows \union {NoRow}, Store(k, r),
         version' = version, writing' \in Nat, writing' # 0
  PROVE  GroupedInv'
<1> DEFINE ch == [key |-> k, previous |-> rows[k], next |-> r]
<1>1. /\ plan' = plan /\ rows' = [rows EXCEPT ![k] = r] /\ others' = others
      /\ journal' = Record(journal, ch, version)
      /\ UNCHANGED <<refs, mode, retained, groups, members, evaluation, seen>>
  BY DEF Store, executionVars
<1>2. plan \in Plans /\ rows \in Contents /\ version \in Nat /\ LeasesInv
  BY DEF GroupedInv
<1>3. PICK h : History(h)
  BY DEF GroupedInv
<1>4. /\ h \in [Nat -> Contents] /\ Fits(journal, h, version, rows)
      /\ mode # "none" => evaluation.version \in 0..version /\ seen = h[evaluation.version]
  BY <1>3 DEF History
<1>5. ch \in Change /\ Follows(ch, rows) /\ After(rows, ch) = rows'
  BY <1>1, <1>2 DEF Change, Follows, After, Contents
<1> HIDE DEF ch
<1>6. Fits(journal', h, version, rows')
  <2>1. Fits(Record(journal, ch, version), h, version, After(rows, ch))
    BY <1>2, <1>4, <1>5, RecordFits
  <2> QED
    BY <1>1, <1>5, <2>1
<1>7. rows' \in Contents
  BY <1>1, <1>2 DEF Contents
<1>8. journal'.refs = journal.refs
  <2>1. IsJournal(journal, Change)
    BY <1>4 DEF Fits
  <2> QED
    BY <1>1, <1>5, <2>1, RecordCases
<1>9. History(h)'
  BY <1>1, <1>4, <1>6 DEF History
<1>10. LeasesInv'
  BY <1>1, <1>2, <1>8 DEF LeasesInv, JournalReferences
<1>11. ExecutionInv'
  BY <1>1, LeftAlone
<1> QED
  BY <1>1, <1>2, <1>7, <1>9, <1>10, <1>11 DEF GroupedInv

\* A version is committed.
LEMMA CommitKeeps ==
  ASSUME GroupedInv, Commit
  PROVE  GroupedInv'
<1>1. /\ plan' = plan /\ rows' = rows /\ others' = others /\ writing' = 0 /\ version' = version + 1
      /\ journal' = CommitJournal(journal, version + 1)
      /\ UNCHANGED <<refs, mode, retained, groups, members, evaluation, seen>>
  BY DEF Commit, executionVars
<1>2. plan \in Plans /\ rows \in Contents /\ version \in Nat /\ LeasesInv
  BY DEF GroupedInv
<1>3. PICK h : History(h)
  BY DEF GroupedInv
<1>4. /\ h \in [Nat -> Contents] /\ Fits(journal, h, version, rows)
      /\ mode # "none" => evaluation.version \in 0..version /\ seen = h[evaluation.version]
  BY <1>3 DEF History
<1>5. PICK g : /\ g \in [Nat -> Contents] /\ g[version + 1] = rows
               /\ \A v \in 0..version : g[v] = h[v]
               /\ Fits(CommitJournal(journal, version + 1), g, version + 1, rows)
  <2> DEFINE f == [h EXCEPT ![version + 1] = rows]
  <2>1. f \in [Nat -> Contents] /\ f[version + 1] = rows /\ \A v \in 0..version : f[v] = h[v]
    BY <1>2, <1>4
  <2>2. Fits(CommitJournal(journal, version + 1), f, version + 1, rows)
    BY <1>2, <1>4, CommitFits
  <2> HIDE DEF f
  <2> QED
    BY <2>1, <2>2
<1>6. Fits(journal', g, version', rows')
  BY <1>1, <1>5
<1>7. mode' # "none" => evaluation'.version \in 0..version' /\ seen' = g[evaluation'.version]
  BY <1>1, <1>2, <1>4, <1>5
<1>8. History(g)'
  <2>1. version' = version + 1 /\ rows' = g[version']
    BY <1>1, <1>5
  <2> QED
    BY <1>5, <1>6, <1>7, <2>1 DEF History
<1>9. journal'.refs = journal.refs
  <2>1. IsJournal(journal, Change) /\ version + 1 \in Nat
    BY <1>2, <1>4 DEF Fits
  <2> QED
    BY <1>1, <2>1, CommitCases
<1>10. LeasesInv'
  BY <1>1, <1>2, <1>9 DEF LeasesInv, JournalReferences
<1>11. ExecutionInv'
  BY <1>1, LeftAlone
<1>12. version' \in Nat /\ writing' \in Nat
  BY <1>1, <1>2
<1> QED
  BY <1>1, <1>2, <1>8, <1>10, <1>11, <1>12 DEF GroupedInv

\* The last lease gives the reference back and the execution goes.
LEMMA DiscardKeeps ==
  ASSUME GroupedInv, writing = 0, Discard,
         journal' = IF retained THEN Release(journal, version) ELSE journal,
         UNCHANGED <<plan, storeVars, others>>
  PROVE  GroupedInv'
<1>1. /\ plan \in Plans /\ rows \in Contents /\ version \in Nat /\ LeasesInv
      /\ plan' = plan /\ rows' = rows /\ version' = version /\ writing' = writing /\ others' = others
      /\ refs' = 0 /\ mode' = "none" /\ retained' = FALSE
  BY DEF GroupedInv, storeVars, Discard
<1>2. PICK h : History(h)
  BY DEF GroupedInv
<1>3. h \in [Nat -> Contents] /\ rows = h[version] /\ Fits(journal, h, version, h[version])
  BY <1>2 DEF History
<1>4. Fits(journal', h, version, h[version])
  BY <1>1, <1>3, ReferencesFit
<1>5. journal'.refs = others'
  <2>1. IsJournal(journal, Change)
    BY <1>3 DEF Fits
  <2>2. others \in Nat /\ journal.refs = others + IF retained THEN 1 ELSE 0
    BY <1>1 DEF LeasesInv, JournalReferences
  <2>3. CASE retained
    <3>1. journal'.refs = IF journal.refs = 0 THEN 0 ELSE journal.refs - 1
      BY <2>1, <2>3, ReleaseCases
    <3> QED
      BY <1>1, <2>2, <2>3, <3>1
  <2>4. CASE ~retained
    BY <1>1, <2>2, <2>4
  <2> QED
    BY <2>3, <2>4
<1>6. History(h)'
  BY <1>1, <1>3, <1>4 DEF History
<1>7. ExecutionInv'
  BY <1>1 DEF ExecutionInv
<1>8. LeasesInv'
  BY <1>1, <1>5, Balanced DEF LeasesInv
<1> QED
  BY <1>1, <1>6, <1>7, <1>8 DEF GroupedInv

\* Executions of other queries come and go.
LEMMA ElsewhereKeeps ==
  ASSUME GroupedInv, RetainElsewhere \/ ReleaseElsewhere
  PROVE  GroupedInv'
<1>1. /\ plan \in Plans /\ rows \in Contents /\ version \in Nat /\ LeasesInv /\ writing = 0
      /\ plan' = plan /\ rows' = rows /\ version' = version /\ writing' = writing
      /\ UNCHANGED <<refs, mode, retained, groups, members, evaluation, seen>>
  BY DEF GroupedInv, RetainElsewhere, ReleaseElsewhere, storeVars, executionVars
<1>2. PICK h : History(h)
  BY DEF GroupedInv
<1>3. /\ h \in [Nat -> Contents] /\ rows = h[version] /\ Fits(journal, h, version, h[version])
      /\ mode # "none" => evaluation.version \in 0..version /\ seen = h[evaluation.version]
  BY <1>1, <1>2 DEF History
<1>4. Fits(journal', h, version, h[version])
  BY <1>1, <1>3, ReferencesFit DEF RetainElsewhere, ReleaseElsewhere
<1>5. /\ IsJournal(journal, Change) /\ others \in Nat
      /\ journal.refs = others + IF retained THEN 1 ELSE 0
  BY <1>1, <1>3 DEF Fits, LeasesInv, JournalReferences
<1>6. others' \in Nat /\ journal'.refs = others' + IF retained THEN 1 ELSE 0
  <2>1. CASE RetainElsewhere
    <3>1. others' = others + 1 /\ journal' = Retain(journal, version)
      BY <2>1 DEF RetainElsewhere
    <3>2. journal'.refs = journal.refs + 1
      BY <1>5, <3>1, RetainCases
    <3> QED
      BY <1>5, <3>1, <3>2
  <2>2. CASE ReleaseElsewhere
    <3>1. others > 0 /\ others' = others - 1 /\ journal' = Release(journal, version)
      BY <2>2 DEF ReleaseElsewhere
    <3>2. journal'.refs = IF journal.refs = 0 THEN 0 ELSE journal.refs - 1
      BY <1>5, <3>1, ReleaseCases
    <3> QED
      BY <1>5, <3>1, <3>2
  <2> QED
    BY <2>1, <2>2
<1>7. History(h)'
  BY <1>1, <1>3, <1>4 DEF History
<1>8. ExecutionInv'
  BY <1>1, LeftAlone
<1>9. LeasesInv'
  BY <1>1, <1>6 DEF LeasesInv, JournalReferences
<1> QED
  BY <1>1, <1>7, <1>8, <1>9 DEF GroupedInv

\* A reset takes every execution and starts a new history.
LEMMA ResetKeeps ==
  ASSUME GroupedInv, Reset
  PROVE  GroupedInv'
<1> DEFINE none == [k \in Keys |-> NoRow]
           left == [journal EXCEPT !.refs = @ - others - IF retained THEN 1 ELSE 0]
           h == [v \in Nat |-> none]
<1>1. /\ plan \in Plans /\ LeasesInv /\ plan' = plan /\ rows' = none /\ version' = 0
      /\ writing' = writing /\ writing = 0 /\ others' = 0 /\ \E v : journal' = Clear(left, v)
      /\ refs' = 0 /\ mode' = "none" /\ retained' = FALSE
  BY DEF GroupedInv, Reset, Discard
<1>2. none \in Contents /\ h \in [Nat -> Contents] /\ h[0] = none
  BY DEF Contents
<1>3. IsJournal(left, Change) /\ left.refs = 0
  <2>1. IsJournal(journal, Change)
    BY DEF GroupedInv, History, Fits
  <2>2. others \in Nat /\ journal.refs - others - (IF retained THEN 1 ELSE 0) = 0
    BY <1>1 DEF LeasesInv, JournalReferences
  <2>3. left = [journal EXCEPT !.refs = journal.refs - others - (IF retained THEN 1 ELSE 0)]
    OBVIOUS
  <2>4. left = [journal EXCEPT !.refs = 0]
    BY <2>2, <2>3
  <2> HIDE DEF left
  <2> QED
    BY <2>1, <2>4 DEF IsJournal, JournalFields
<1> HIDE DEF left, h, none
<1>4. /\ IsJournal(journal', Change) /\ journal'.refs = 0
      /\ journal'.pending = <<>> /\ journal'.batches = <<>> /\ ~journal'.overflowed
  BY <1>1, <1>3, ClearEmpties
<1>5. Fits(journal', h, 0, h[0])
  BY <1>2, <1>4, EmptyFits
<1>6. History(h)'
  BY <1>1, <1>2, <1>5 DEF History
<1>7. ExecutionInv'
  BY <1>1 DEF ExecutionInv
<1>8. LeasesInv'
  BY <1>1, <1>4, Balanced
<1> QED
  BY <1>1, <1>2, <1>6, <1>7, <1>8 DEF GroupedInv

\* The empty journal is one.
LEMMA InitKeeps == Init => GroupedInv
<1> SUFFICES ASSUME Init PROVE GroupedInv
  OBVIOUS
<1> DEFINE none == [k \in Keys |-> NoRow]
           h == [v \in Nat |-> none]
<1>1. none \in Contents /\ h \in [Nat -> Contents] /\ h[0] = none
  BY DEF Contents
<1>2. /\ plan \in Plans /\ rows = none /\ version = 0 /\ writing = 0 /\ journal = EmptyJournal
      /\ others = 0 /\ refs = 0 /\ mode = "none" /\ retained = FALSE
  BY DEF Init
<1> HIDE DEF h, none
<1>3. /\ IsJournal(EmptyJournal, Change) /\ EmptyJournal.refs = 0
      /\ EmptyJournal.pending = <<>> /\ EmptyJournal.batches = <<>> /\ ~EmptyJournal.overflowed
  BY EmptySeq DEF EmptyJournal, IsJournal, JournalFields
<1>4. Fits(journal, h, 0, h[0])
  BY <1>1, <1>2, <1>3, EmptyFits
<1>5. History(h)
  BY <1>1, <1>2, <1>4 DEF History
<1>6. ExecutionInv
  BY <1>2 DEF ExecutionInv
<1>7. LeasesInv
  <2>1. others + 0 = others /\ others = 0 /\ journal.refs = 0
    BY <1>2, <1>3
  <2>2. JournalReferences
    BY <1>2, <2>1 DEF JournalReferences
  <2> QED
    BY <1>2, <2>2 DEF LeasesInv
<1> QED
  BY <1>1, <1>2, <1>5, <1>6, <1>7 DEF GroupedInv

\* The invariant of grouped executions, for any rows, queries and admission limits.
THEOREM GroupedInductive == Spec => []GroupedInv
<1>1. Init => GroupedInv
  BY InitKeeps
<1>2. GroupedInv /\ [Next]_vars => GroupedInv'
  <2> SUFFICES ASSUME GroupedInv, [Next]_vars
               PROVE  GroupedInv'
    OBVIOUS
  <2>a. writing \in Nat /\ refs \in Nat /\ Budget \in Nat \ {0}
    BY GroupedAssumption DEF GroupedInv, LeasesInv, Budget
  <2>1. ASSUME NEW k \in Keys, NEW r \in Rows, SetRow(k, r) PROVE GroupedInv'
    <3>1. Store(k, r) /\ writing' = writing + 1
      BY <2>1 DEF SetRow
    <3>2. version' = version
      BY <3>1 DEF Store
    <3>3. writing' \in Nat /\ writing' # 0
      BY <2>a, <3>1
    <3> QED
      BY <3>1, <3>2, <3>3, StoreKeeps
  <2>2. ASSUME NEW k \in Keys, DeleteRow(k) PROVE GroupedInv'
    <3>1. Store(k, NoRow) /\ writing' = Budget
      BY <2>2 DEF DeleteRow
    <3>2. version' = version
      BY <3>1 DEF Store
    <3>3. writing' \in Nat /\ writing' # 0
      BY <2>a, <3>1
    <3> QED
      BY <3>1, <3>2, <3>3, StoreKeeps
  <2>3. CASE Commit
    BY <2>3, CommitKeeps
  <2>4. CASE Acquire
    <3>1. CASE refs = 0
      BY <2>4, <3>1, CreateKeeps DEF Acquire
    <3>2. CASE refs # 0
      BY <2>a, <2>4, <3>2, RefreshKeeps DEF Acquire
    <3> QED
      BY <3>1, <3>2
  <2>5. CASE ReleaseLease
    <3>1. CASE refs > 1
      <4>1. /\ refs' = refs - 1 /\ UNCHANGED <<plan, rows, version, writing, others, mode, retained>>
            /\ UNCHANGED <<groups, members, evaluation, seen, journal>>
        BY <2>5, <3>1 DEF ReleaseLease, storeVars
      <4>2. \A h : History(h) => History(h)'
        BY <4>1 DEF History
      <4>3. LeasesInv'
        BY <2>a, <3>1, <4>1 DEF GroupedInv, LeasesInv, JournalReferences
      <4>4. ExecutionInv'
        BY <4>1, LeftAlone
      <4> QED
        BY <4>1, <4>2, <4>3, <4>4 DEF GroupedInv
    <3>2. CASE ~(refs > 1)
      BY <2>5, <3>2, DiscardKeeps DEF ReleaseLease
    <3> QED
      BY <3>1, <3>2
  <2>6. CASE Notify
    BY <2>a, <2>6, RefreshKeeps DEF Notify
  <2>7. CASE RetainElsewhere \/ ReleaseElsewhere
    BY <2>7, ElsewhereKeeps
  <2>8. CASE Reset
    BY <2>8, ResetKeeps
  <2>9. CASE UNCHANGED vars
    <3>1. /\ UNCHANGED <<plan, rows, version, writing, others, mode, retained, refs>>
          /\ UNCHANGED <<groups, members, evaluation, seen, journal>>
      BY <2>9 DEF vars, storeVars, executionVars
    <3>2. \A h : History(h) => History(h)'
      BY <3>1 DEF History
    <3>3. LeasesInv'
      BY <3>1 DEF GroupedInv, LeasesInv, JournalReferences
    <3>4. ExecutionInv'
      BY <3>1, LeftAlone
    <3> QED
      BY <3>1, <3>2, <3>3, <3>4 DEF GroupedInv
  <2> QED
    BY <2>1, <2>2, <2>3, <2>4, <2>5, <2>6, <2>7, <2>8, <2>9 DEF Next
<1> QED
  BY <1>1, <1>2, PTL DEF Spec

\* Every reference to the journal belongs to an execution that uses it: one that falls back,
\* loses its last lease or is reset gives it back, and none gives it back twice.
THEOREM ReferencesBalance == Spec => []JournalReferences
BY GroupedInductive, PTL DEF GroupedInv, LeasesInv
-------------------------------------------------------------------------------
(* What the properties say of the rows seen. *)

\* A result is for rows there were.
LEMMA SeenIsContents ==
  ASSUME GroupedInv, mode # "none"
  PROVE  seen \in Contents
<1>1. version \in Nat
  BY DEF GroupedInv
<1>2. PICK h : History(h)
  BY DEF GroupedInv
<1> QED
  BY <1>1, <1>2 DEF History

\* The definitions of the model are those of the proof, for the rows seen.
LEMMA SeenIs ==
  ASSUME seen \in Contents
  PROVE  /\ \A g : KeysOf(g) = KeysIn(seen, g) /\ ValuesOf(g) = ValuesIn(MembersOf(seen, g))
         /\ \A g : Aggregates(g) = AggregatesOf(seen, g)
         /\ GroupsSeen = GroupsIn(seen)
         /\ UNION {KeysOf(g) : g \in GroupsSeen} = SelectedIn(seen)
<1>1. \A g : KeysOf(g) = KeysIn(seen, g)
  BY DEF KeysOf, KeysIn
<1>2. GroupsSeen = GroupsIn(seen)
  BY <1>1 DEF GroupsSeen, GroupsIn
<1>3. ASSUME NEW g PROVE ValuesOf(g) = ValuesIn(MembersOf(seen, g))
  BY <1>1 DEF ValuesOf, ValuesIn, MembersOf
<1>4. ASSUME NEW g
      PROVE  MapThenSumSet(LAMBDA k : ValueOf[seen[k]], KeysOf(g)) = SumOver(seen, KeysIn(seen, g))
  BY <1>1 DEF SumOver, MapThenSumSet, MapThenFoldSet
<1>5. ASSUME NEW g PROVE Aggregates(g) = AggregatesOf(seen, g)
  BY <1>1, <1>3, <1>4 DEF Aggregates, AggregatesOf
<1>6. UNION {KeysOf(g) : g \in GroupsSeen} = SelectedIn(seen)
  <2>1. \A g : KeysOf(g) \subseteq SelectedIn(seen)
    BY <1>1 DEF KeysIn, SelectedIn
  <2>2. ASSUME NEW k \in SelectedIn(seen)
        PROVE  GroupOf[seen[k]] \in GroupsSeen /\ k \in KeysOf(GroupOf[seen[k]])
    <3>1. k \in KeysOf(GroupOf[seen[k]])
      BY <1>1, <2>2 DEF KeysIn, SelectedIn
    <3>2. GroupOf[seen[k]] \in GroupKeys
      BY <2>2, GroupedAssumption DEF SelectedIn, GroupKeys
    <3> QED
      BY <3>1, <3>2 DEF GroupsSeen
  <2> QED
    BY <2>1, <2>2
<1> QED
  BY <1>1, <1>2, <1>3, <1>5, <1>6

\* The groups an incremental execution keeps are those of the rows it has seen, with the
\* members, aggregates and counted values of each, and within the limits.
THEOREM GroupsMatch == Spec => []GroupsMatchRows
<1>1. GroupedInv => GroupsMatchRows
  <2> SUFFICES ASSUME GroupedInv, mode = "incremental"
               PROVE  GroupsMatchRows
    BY DEF GroupsMatchRows
  <2>1. GroupsRight(groups, members, seen) /\ seen \in Contents
    BY SeenIsContents DEF GroupedInv, ExecutionInv
  <2>2. /\ \A g : KeysOf(g) = KeysIn(seen, g)
        /\ \A g : Aggregates(g) = AggregatesOf(seen, g)
        /\ GroupsSeen = GroupsIn(seen)
        /\ UNION {KeysOf(g) : g \in GroupsSeen} = SelectedIn(seen)
    BY <2>1, SeenIs
  <2>3. CASE CountsOnly
    BY <2>1, <2>2, <2>3 DEF GroupsRight, CountsKept, GroupsMatchRows
  <2>4. CASE ~CountsOnly
    <3>1. GroupsKept(groups, seen, {}) /\ members = Cardinality(SelectedIn(seen)) /\ Within(seen)
      BY <2>1, <2>4 DEF GroupsRight
    <3>2. ASSUME NEW g \in GroupsSeen
          PROVE  /\ groups[g].members = [k \in KeysOf(g) |-> seen[k]]
                 /\ Finalized(groups, g) = Aggregates(g)
                 /\ \A v \in Amounts :
                      groups[g].values[v] = Cardinality({k \in KeysOf(g) : ValueOf[seen[k]] = v})
      <4> DEFINE m == MembersOf(seen, g)
      <4>1. Finalized(groups, g) = Aggregates(g)
        BY <2>1, <2>2, <3>1, <3>2, FinalizedIs
      <4>2. groups[g] = Tallied(m, m, groups[g].least)
        BY <2>2, <3>1, <3>2 DEF GroupsKept
      <4>3. m = [k \in KeysOf(g) |-> seen[k]]
        BY <2>2 DEF MembersOf
      <4>4. \A v : Copies(m, v) = {k \in KeysOf(g) : ValueOf[seen[k]] = v}
        BY <4>3 DEF Copies
      <4> DEFINE l == groups[g].least
      <4> HIDE DEF m, l
      <4>5. groups[g].members = m /\ groups[g].values = [v \in Amounts |-> Cardinality(Copies(m, v))]
        BY <4>2 DEF Tallied, l
      <4>6. ASSUME NEW v \in Amounts
            PROVE  groups[g].values[v] = Cardinality({k \in KeysOf(g) : ValueOf[seen[k]] = v})
        BY <4>4, <4>5
      <4> QED
        BY <4>1, <4>3, <4>5, <4>6
    <3> QED
      BY <2>2, <2>4, <3>1, <3>2 DEF GroupsKept, Within, GroupsMatchRows
  <2> QED
    BY <2>3, <2>4
<1> QED
  BY <1>1, GroupedInductive, PTL

\* A leased execution shows exactly the groups of the rows its result was computed for, with
\* their aggregates, in order and within offset and limit, however it was brought up to date.
THEOREM GroupedShows == Spec => []ShownIsReference
<1>1. GroupedInv => ShownIsReference
  <2> SUFFICES ASSUME GroupedInv, Leased
               PROVE  ShownIsReference
    BY DEF ShownIsReference
  <2>1. mode # "none"
    BY DEF GroupedInv, LeasesInv, Leased
  <2>2. seen \in Contents /\ Shown(evaluation, seen)
    BY <2>1, SeenIsContents DEF GroupedInv, ExecutionInv
  <2>3. (\A g : Aggregates(g) = AggregatesOf(seen, g)) /\ GroupsSeen = GroupsIn(seen)
    BY <2>2, SeenIs
  <2>4. Places(seen) = ShownPlaces
    BY <2>3 DEF Places, ShownPlaces
  <2>5. ASSUME NEW i \in ShownPlaces
        PROVE  /\ evaluation.window[i].key \in GroupsSeen
               /\ evaluation.window[i] = Aggregates(evaluation.window[i].key)
               /\ Place(evaluation.window[i], i)
    <3>1. PICK g \in GroupsIn(seen) :
            evaluation.window[i] = AggregatesOf(seen, g) /\ Cardinality(Ahead(seen, g)) = plan.offset + i - 1
      BY <2>2, <2>4 DEF Shown
    <3>2. AggregatesOf(seen, g).key = g
      BY DEF AggregatesOf
    <3>3. Ahead(seen, g) = {f \in GroupsSeen : Before(Aggregates(f), evaluation.window[i])}
      BY <2>3, <3>1 DEF Ahead
    <3> QED
      BY <2>3, <3>1, <3>2, <3>3 DEF Place
  <2>6. evaluation.total = Cardinality(GroupsSeen) /\ DOMAIN evaluation.window = ShownPlaces
    BY <2>2, <2>3, <2>4 DEF Shown
  <2> QED
    BY <2>5, <2>6 DEF ShownIsReference
<1> QED
  BY <1>1, GroupedInductive, PTL
===============================================================================
