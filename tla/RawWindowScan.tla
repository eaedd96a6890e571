---------------------------- MODULE RawWindowScan -----------------------------
(***************************************************************************)
(* How a query reads its window from the storage: through an ordered index, *)
(* from candidates that an index narrows the scan to, or from all slots;    *)
(* keeping only the window while it reads, in a sorted sequence or in a     *)
(* heap, or sorting everything.  Which of these is chosen may change what   *)
(* it costs and which indexes exist afterwards, never what it returns.      *)
(*                                                                         *)
(* A plan has filters [field, op, values], where `in` stands for an equality *)
(* too and the others compare with the only element of values; it is exact  *)
(* if its filters say all that its query asks for, and `accepts` the rows   *)
(* that the query accepts beyond them.                                      *)
(***************************************************************************)
EXTENDS RowStorage, Listing

CONSTANTS
  Plans,          \* the plans of queries
  Comparable,     \* values a filter can name, and the only ones a range filter takes
  Unlimited,      \* the limit of a window without one
  MaxSorted,      \* the end of the largest window kept sorted, 1 024 in the code
  MaxHeap,        \* the end of the largest window kept in a heap, 100 000 in the code
  HeapShare       \* slots read per slot kept for a heap to pay off, 4 in the code

Ranges  == {"gt", "gte", "lt", "lte"}
Filters == [field : Fields, op : Ranges \union {"in", "neq"}, values : SUBSET Comparable]

ASSUME ScanAssumption ==
  /\ Comparable \subseteq Int \ {MissingValue}
  /\ Unlimited \notin Nat
  /\ {MaxSorted, MaxHeap, HeapShare} \subseteq Nat
  /\ \A p \in Plans :
       /\ p.filters \in Seq(Filters) /\ p.orderBy \in Seq(Orders)
       /\ p.exact \in BOOLEAN /\ p.accepts \subseteq StoredRows
       /\ p.exact => p.accepts = StoredRows
       /\ p.offset \in Nat /\ p.limit \in Nat \union {Unlimited}
       /\ \A i \in DOMAIN p.filters :
            p.filters[i].op # "in" => Cardinality(p.filters[i].values) = 1

Bound(filter)       == CHOOSE v \in filter.values : TRUE
Lesser(a, b)        == Min({a, b})
FirstN(seq, n)      == SubSeq(seq, 1, Lesser(n, Len(seq)))
Beyond(seq, n)      == SubSeq(seq, n + 1, Len(seq))

\* Some slots in the order `by`.
Sorted(st, by, some) ==
  Ordered(some, {p \in some \X some : Precedes(st, by, p[1], p[2])})
-------------------------------------------------------------------------------
(* Predicates. *)

InRange(op, v, bound) ==
  CASE op = "gt" -> v > bound [] op = "gte" -> v >= bound
    [] op = "lt" -> v < bound [] op = "lte" -> v <= bound

\* Value v passes the filter.  Filters that do not decide alone are lenient with
\* values that a range cannot be compared with, and with missing ones.
Passes(filter, v, exact) ==
  CASE filter.op = "in"    -> v \in filter.values
    [] filter.op = "neq"   -> v \notin filter.values /\ (exact => v # MissingValue)
    [] filter.op \in Ranges -> IF v \in Comparable THEN InRange(filter.op, v, Bound(filter))
                               ELSE ~exact

PassesAll(plan, row, exact) ==
  \A i \in DOMAIN plan.filters : Passes(plan.filters[i], row[plan.filters[i].field], exact)

\* What the query asks of a row.
Accepts(plan, row) == row \in plan.accepts /\ PassesAll(plan, row, TRUE)

\* The filters look at the columns; the row itself is asked if they are not exact.
MatchesSlot(st, plan, slot) ==
  /\ PassesAll(plan, [f \in Fields |-> Value(st, f, slot)], plan.exact)
  /\ plan.exact \/ Accepts(plan, st.slots[slot].row)
-------------------------------------------------------------------------------
(* The part of an ordered index that can pass the filters of its field. *)

FiltersOn(plan, field, ops) ==
  {plan.filters[i] : i \in {j \in DOMAIN plan.filters :
                              plan.filters[j].field = field /\ plan.filters[j].op \in ops}}

\* The strongest of the filters that bound the field from below, if there is one.
Lower(plan, field) ==
  LET bounds == FiltersOn(plan, field, {"gt", "gte"})
  IN  {b \in bounds : \A c \in bounds :
         Bound(c) < Bound(b) \/ (Bound(c) = Bound(b) /\ (b.op = "gt" \/ c.op = "gte"))}

Upper(plan, field) ==
  LET bounds == FiltersOn(plan, field, {"lt", "lte"})
  IN  {b \in bounds : \A c \in bounds :
         Bound(c) > Bound(b) \/ (Bound(c) = Bound(b) /\ (b.op = "lt" \/ c.op = "lte"))}

\* No value is between the bounds.
NothingBetween(lower, upper) ==
  \E l \in lower, u \in upper :
    Bound(l) > Bound(u) \/ (Bound(l) = Bound(u) /\ (l.op = "gt" \/ u.op = "lt"))

\* The positions in the index of order o from the first that is within the bound that
\* the order meets first, to the last that is within the other one.
Span(st, o, lower, upper) ==
  LET index     == st.ordered[o]
      near      == IF o.descending THEN upper ELSE lower
      far       == IF o.descending THEN lower ELSE upper
      within(i, b) == InRange(b.op, Value(st, o.field, index[i]), Bound(b))
  IN  (Bisect(Len(index), [i \in DOMAIN index |-> \A b \in near : within(i, b)]) + 1)
        ..Bisect(Len(index), [i \in DOMAIN index |-> \E b \in far : ~within(i, b)])

\* Where values are asked for, one span for each of them that is within the range.
SpansOf(st, o, lower, upper, equal) ==
  LET at(v)     == Span(st, o, {[op |-> "gte", values |-> {v}]}, {[op |-> "lte", values |-> {v}]})
      sought(v) == /\ \A e \in equal : v \in e.values
                   /\ \A b \in lower \union upper : InRange(b.op, v, Bound(b))
  IN  IF equal = {} THEN Span(st, o, lower, upper)
      ELSE UNION {at(v) : v \in {w \in Comparable : sought(w)}}

Spans(st, plan, o) ==
  SpansOf(st, o, Lower(plan, o.field), Upper(plan, o.field), FiltersOn(plan, o.field, {"in"}))

\* The window of a plan can be read along an index of its order.
Indexable(plan) ==
  /\ plan.limit # Unlimited /\ plan.limit > 0 /\ Len(plan.orderBy) = 1 /\ plan.exact
  /\ \A i \in DOMAIN plan.filters :
       \/ plan.filters[i].op = "in"
       \/ plan.filters[i].op \in Ranges /\ plan.filters[i].field = plan.orderBy[1].field

BuildIndex(st, o) ==
  IF o \in DOMAIN st.ordered THEN st
  ELSE [st EXCEPT !.ordered =
          [p \in DOMAIN @ \union {o} |-> IF p = o THEN Sorted(st, <<o>>, DOMAIN st.slots) ELSE @[p]]]
-------------------------------------------------------------------------------
(* Candidates: a set of slots outside which no slot passes a filter. *)

Nothing(st)      == [storage |-> st, sets |-> {}]
Found(st, slots) == [storage |-> st, sets |-> {slots}]

\* The slots with one of the values.  Buckets that are missing are built if that is
\* allowed, but not if one of them, or all together, hold too many slots to be worth it.
FoundOrBuilt(st, known, added, build, most) ==
  IF Cardinality(known) >= most THEN Nothing(st)
  ELSE IF DOMAIN added = {} THEN Found(st, known)
  ELSE IF \/ ~build
          \/ \E b \in DOMAIN added : Cardinality(added[b]) > MaxBucket
          \/ Cardinality(known \union UNION Range(added)) >= most
  THEN Nothing(st)
  ELSE LET built == {b \in DOMAIN added : added[b] # {}}
       IN  Found([st EXCEPT !.buckets =
                    [b \in DOMAIN @ \union built |-> IF b \in DOMAIN @ THEN @[b] ELSE added[b]]],
                 known \union UNION Range(added))

EqualityCandidates(st, field, values, build, most) ==
  LET asked == {Bucket(field, v) : v \in values}
  IN  IF ~build /\ \A b \in DOMAIN st.buckets : b.field # field THEN Nothing(st)
      ELSE FoundOrBuilt(st, UNION {st.buckets[b] : b \in asked \intersect DOMAIN st.buckets},
             [b \in asked \ DOMAIN st.buckets |-> {s \in DOMAIN st.slots : InBucket(st, b, s)}],
             build, most)

\* The slots in the range of the field, if an index knows them.
RangeCandidates(st, plan, field, most) ==
  LET o == [field |-> field, descending |-> FALSE]
      worth(span) == Cardinality(span) < Lesser(most, Len(st.slots))
      take(span)  == IF worth(span) THEN Found(st, {st.ordered[o][i] : i \in span}) ELSE Nothing(st)
  IN  IF NothingBetween(Lower(plan, field), Upper(plan, field)) THEN Found(st, {})
      ELSE IF o \in DOMAIN st.ordered
      THEN take(Span(st, o, Lower(plan, field), Upper(plan, field)))
      ELSE Nothing(st)

\* The smaller set of two, if it is small enough.
Better(best, next, most) ==
  [storage |-> next.storage,
   sets    |-> IF \E c \in next.sets :
                    /\ Cardinality(c) < most
                    /\ \A d \in best.sets : Cardinality(c) < Cardinality(d)
               THEN next.sets ELSE best.sets]

\* What a filter yields.
FilterCandidates(st, plan, filter, build, most) ==
  IF filter.op = "in" THEN EqualityCandidates(st, filter.field, filter.values, build, most)
  ELSE IF filter.op \in Ranges /\ plan.exact THEN RangeCandidates(st, plan, filter.field, most)
  ELSE Nothing(st)

Consider(plan, build, excluded, most, best, filter) ==
  IF filter.field \in excluded THEN best
  ELSE Better(best, FilterCandidates(best.storage, plan, filter, build, most), most)

\* The smallest set that a filter yields.
Considered(st, plan, build, excluded, most) ==
  FoldLeft(LAMBDA best, filter : Consider(plan, build, excluded, most, best, filter),
           Nothing(st), plan.filters)

\* It is of use if it spares any slot at all.
Candidates(st, plan, build, excluded, most) ==
  [Considered(st, plan, build, excluded, most)
     EXCEPT !.sets = {c \in @ : Cardinality(c) < Len(st.slots)}]
-------------------------------------------------------------------------------
(* Keeping the window while slots are read. *)

\* One more slot for the sorted window that ends at `end`.
KeepSorted(st, by, end, window, slot) ==
  IF Len(window) < end \/ Precedes(st, by, slot, Last(window))
  THEN InsertSorted(st, by, IF Len(window) < end THEN window ELSE Front(window), slot)
  ELSE window

SortedWindow(st, by, end, matches) ==
  FoldLeft(LAMBDA window, slot : KeepSorted(st, by, end, window, slot), <<>>, matches)

Swapped(heap, i, j) == [heap EXCEPT ![i] = heap[j], ![j] = heap[i]]

\* A heap with the last slot of the window on top.
SiftUp(st, by, start) ==
  LET up[at \in [DOMAIN start -> Nat] \X DOMAIN start] ==
        LET heap   == at[1]
            i      == at[2]
            parent == i \div 2
        IN  IF i = 1 \/ ~Precedes(st, by, heap[parent], heap[i]) THEN heap
            ELSE up[<<Swapped(heap, parent, i), parent>>]
  IN  up[<<start, Len(start)>>]

SiftDown(st, by, start) ==
  LET down[at \in [DOMAIN start -> Nat] \X DOMAIN start] ==
        LET heap        == at[1]
            i           == at[2]
            worse(j, k) == IF k <= Len(heap) /\ Precedes(st, by, heap[j], heap[k]) THEN k ELSE j
            largest     == worse(worse(i, 2 * i), 2 * i + 1)
        IN  IF largest = i THEN heap ELSE down[<<Swapped(heap, i, largest), largest>>]
  IN  down[<<start, 1>>]

\* One more slot for the heap.
KeepInHeap(st, by, end, heap, slot) ==
  IF Len(heap) < end THEN SiftUp(st, by, Append(heap, slot))
  ELSE IF Precedes(st, by, slot, heap[1]) THEN SiftDown(st, by, [heap EXCEPT ![1] = slot])
  ELSE heap

HeapWindow(st, by, end, matches) ==
  FoldLeft(LAMBDA heap, slot : KeepInHeap(st, by, end, heap, slot), <<>>, matches)

\* The window of a plan, of the slots that match among n slots that were read.
Kept(st, plan, end, matches, n) ==
  IF plan.limit = Unlimited THEN Sorted(st, plan.orderBy, ToSet(matches))
  ELSE IF end <= MaxSorted
  THEN SortedWindow(st, plan.orderBy, end, matches)
  ELSE IF end <= MaxHeap /\ end * HeapShare <= n
  THEN Sorted(st, plan.orderBy, ToSet(HeapWindow(st, plan.orderBy, end, matches)))
  ELSE FirstN(Sorted(st, plan.orderBy, ToSet(matches)), end)
-------------------------------------------------------------------------------
(* The scan. *)

Result(st, window, total) ==
  [storage |-> st, keys |-> [i \in DOMAIN window |-> st.slots[window[i]].key], total |-> total]

Matching(st, plan, visited) ==
  Picked(visited, {i \in DOMAIN visited : MatchesSlot(st, plan, visited[i])})

Visited(found) ==
  InOrder(IF found.sets = {} THEN DOMAIN found.storage.slots ELSE UNION found.sets)

\* The slots that were found are read, or all if none were.  A limit of 0 asks for the
\* total alone.
ReadMatches(st, plan, matches, n) ==
  IF plan.limit = 0 THEN Result(st, <<>>, Len(matches))
  ELSE Result(st, Beyond(Kept(st, plan, plan.offset + plan.limit, matches, n), plan.offset),
              Len(matches))

ReadVisited(st, plan, visited) ==
  ReadMatches(st, plan, Matching(st, plan, visited), Len(visited))

ScanSlots(plan, found) == ReadVisited(found.storage, plan, Visited(found))

\* A part of the index, in order.
ReadIndex(st, plan, matches) ==
  Result(st, Beyond(FirstN(matches, plan.offset + plan.limit), plan.offset), Len(matches))

\* Along the index, unless the buckets that exist know of fewer slots to look at.
ScanSpan(st, plan, o, span, found) ==
  IF found.sets # {} THEN ScanSlots(plan, found)
  ELSE LET along(positions) == [i \in DOMAIN positions |-> st.ordered[o][positions[i]]]
       IN  ReadIndex(st, plan, Matching(st, plan, along(InOrder(span))))

ScanIndex(st, plan, o, span) ==
  ScanSpan(st, plan, o, span,
           Candidates(st, plan, FALSE, {o.field}, Lesser(Cardinality(span), MaxBucket + 1)))

ScanIndexed(st, plan, o) == ScanIndex(st, plan, o, Spans(st, plan, o))

Scan(st, plan) ==
  IF ~Indexable(plan)
  THEN ScanSlots(plan, Candidates(st, plan, TRUE, {}, Lesser(Len(st.slots), MaxBucket + 1)))
  ELSE IF NothingBetween(Lower(plan, plan.orderBy[1].field), Upper(plan, plan.orderBy[1].field))
  THEN Result(st, <<>>, 0)
  ELSE ScanIndexed(BuildIndex(st, plan.orderBy[1]), plan, plan.orderBy[1])
-------------------------------------------------------------------------------
\* A query is evaluated; the indexes that it built remain.
Query(plan) == storage' = Scan(storage, plan).storage

ScanNext == Mutation \/ \E plan \in Plans : Query(plan)

ScanSpec == StorageInit /\ [][ScanNext]_storage
-------------------------------------------------------------------------------
\* Row entry a comes before b in the orders `by`.
RowPrecedes(by, a, b) ==
  LET less(o) == IF o.descending THEN a.row[o.field] > b.row[o.field]
                 ELSE a.row[o.field] < b.row[o.field]
      same(i) == \A j \in 1..i : a.row[by[j].field] = b.row[by[j].field]
  IN  \/ \E i \in DOMAIN by : same(i - 1) /\ less(by[i])
      \/ same(Len(by)) /\ a.key < b.key

\* A plan was answered with the rows that its query accepts, in its order, from its
\* offset to its limit, and with their number.
Answers(plan, scan, accepted) ==
  /\ scan.total = Len(accepted)
  /\ scan.keys = LET window == Beyond(IF plan.limit = Unlimited THEN accepted
                                      ELSE FirstN(accepted, plan.offset + plan.limit), plan.offset)
                 IN  [i \in DOMAIN window |-> window[i].key]

\* Whatever indexes earlier queries left behind, and whichever way of reading, every
\* plan is answered as if all rows had been filtered and sorted: rows with missing
\* values, or with values that no filter can name, included
\* (topic-raw-window-scanner.ts scanTopicRawWindow).
ScanIsReference ==
  \A plan \in Plans :
    LET accepted == {e \in ToSet(storage.slots) : Accepts(plan, e.row)}
        before   == {p \in accepted \X accepted : RowPrecedes(plan.orderBy, p[1], p[2])}
    IN  Answers(plan, Scan(storage, plan), Ordered(accepted, before))
===============================================================================
