------------------------------ MODULE RowStorage ------------------------------
(***************************************************************************)
(* The row storage of a topic: rows in slots, a column per field, and the   *)
(* two kinds of indexes that a scan builds and every mutation keeps up to   *)
(* date.  An ordered index lists all slots in the order of one field; a     *)
(* bucket holds the slots that have one value in one field.                 *)
(*                                                                         *)
(* Slots count from 1.  Values are numbers, in the order in which rows are  *)
(* sorted by them; keys are numbers too, and break ties.  The journal that  *)
(* mutations write is the business of RetainedWindow.                       *)
(***************************************************************************)
EXTENDS Integers, Sequences, FiniteSets, SequencesExt

CONSTANTS
  RowKeys,        \* row keys
  Fields,         \* fields of a row
  StoredRows,     \* rows: functions from Fields to values
  MissingValue,   \* the value of a field that a row does not have
  Batches,        \* the batches of rows that are published together
  MaxBucket       \* slots that a bucket may hold, 100 000 in the code

ASSUME StorageAssumption ==
  /\ RowKeys \subseteq Nat
  /\ StoredRows \subseteq [Fields -> Int]
  /\ MissingValue \in Int
  /\ Batches \subseteq Seq([key : RowKeys, row : StoredRows])
  /\ MaxBucket \in Nat

VARIABLE storage

\* An order by one field.
Orders == [field : Fields, descending : BOOLEAN]

EmptyStorage ==
  [slots     |-> <<>>,                     \* keys and rows
   columns   |-> [f \in Fields |-> <<>>],  \* the value of every slot in a field
   keyToSlot |-> <<>>,                     \* the slot of a key that is stored
   ordered   |-> <<>>,                     \* from orders to the slots in that order
   buckets   |-> <<>>]                     \* from fields and values to sets of slots

Value(st, f, slot) == st.columns[f][slot]
-------------------------------------------------------------------------------
(* Sorted sequences of slots. *)

\* The index, from 0 to n, before which a sorted sequence of n slots is cut: the
\* slots after it are those that are above.
Bisect(n, above) ==
  LET search[bounds \in (0..n) \X (0..n)] ==
        LET low    == bounds[1]
            high   == bounds[2]
            middle == (low + high) \div 2
        IN  IF low >= high THEN low
            ELSE IF above[middle + 1] THEN search[<<low, middle>>]
            ELSE search[<<middle + 1, high>>]
  IN  search[<<0, n>>]

\* Slot l comes before slot r in the sequence `by` of orders.
Precedes(st, by, l, r) ==
  LET differ == {i \in DOMAIN by : Value(st, by[i].field, l) # Value(st, by[i].field, r)}
      order  == by[Min(differ)]
      left   == Value(st, order.field, l)
      right  == Value(st, order.field, r)
  IN  IF differ = {} THEN st.slots[l].key < st.slots[r].key
      ELSE IF order.descending THEN left > right ELSE left < right

InsertSorted(st, by, sorted, slot) ==
  LET at == Bisect(Len(sorted), [i \in DOMAIN sorted |-> Precedes(st, by, slot, sorted[i])])
  IN  InsertAt(sorted, at + 1, slot)

IndexSlot(st, orders, slot) ==
  [st EXCEPT !.ordered = [o \in DOMAIN @ |->
     IF o \in orders THEN InsertSorted(st, <<o>>, @[o], slot) ELSE @[o]]]

UnindexSlot(st, orders, slot) ==
  [st EXCEPT !.ordered = [o \in DOMAIN @ |->
     IF o \in orders THEN RemoveFirst(@[o], slot) ELSE @[o]]]
-------------------------------------------------------------------------------
(* Buckets.  A bucket that outgrows its budget is given up. *)

Bucket(f, v) == [field |-> f, value |-> v]

\* A field that a row does not have is in no bucket.
InBucket(st, b, slot) == Value(st, b.field, slot) = b.value /\ b.value # MissingValue

\* MUTANT of AddToBuckets: the bucket stays when it is full, without the slot.
AddToFullBuckets(st, slot) ==
  [st EXCEPT !.buckets = [b \in DOMAIN @ |->
     IF InBucket(st, b, slot) /\ Cardinality(@[b]) < MaxBucket
     THEN @[b] \union {slot} ELSE @[b]]]

AddToBuckets(st, slot) ==
  LET grown == [b \in DOMAIN st.buckets |->
                  IF InBucket(st, b, slot) THEN st.buckets[b] \union {slot} ELSE st.buckets[b]]
      kept  == {b \in DOMAIN grown : Cardinality(grown[b]) <= MaxBucket}
  IN  [st EXCEPT !.buckets = [b \in kept |-> grown[b]]]

RemoveFromBuckets(st, slot) ==
  [st EXCEPT !.buckets = [b \in DOMAIN @ |->
     IF InBucket(st, b, slot) THEN @[b] \ {slot} ELSE @[b]]]
-------------------------------------------------------------------------------
(* Mutations of the storage. *)

Stored(st)     == DOMAIN st.keyToSlot
RowOf(st, key) == st.slots[st.keyToSlot[key]].row

\* The slot is one of the storage's or the next one.
WriteSlot(st, slot, key, row) ==
  LET put(s, x) == IF slot > Len(s) THEN Append(s, x) ELSE [s EXCEPT ![slot] = x]
  IN  [st EXCEPT !.slots = put(@, [key |-> key, row |-> row]),
                 !.columns = [f \in Fields |-> put(@[f], row[f])]]

\* The indexes in which a replaced row may have to move: where only some fields were
\* patched, those of other fields need not be looked at.
TouchedOrders(st, key, row, patched) ==
  {o \in DOMAIN st.ordered : patched => RowOf(st, key)[o.field] # row[o.field]}

SetPrepared(st, key, row, patched) ==
  LET slot    == IF key \in Stored(st) THEN st.keyToSlot[key] ELSE Len(st.slots) + 1
      touched == TouchedOrders(st, key, row, patched)
      cleared == UnindexSlot(RemoveFromBuckets(st, slot), touched, slot)
      append  == [st EXCEPT !.keyToSlot = [k \in Stored(st) \union {key} |->
                              IF k = key THEN slot ELSE @[k]]]
  IN  IF key \notin Stored(st)
      THEN IndexSlot(AddToBuckets(WriteSlot(append, slot, key, row), slot),
                     DOMAIN st.ordered, slot)
      ELSE IF RowOf(st, key) = row THEN st
      ELSE IndexSlot(AddToBuckets(WriteSlot(cleared, slot, key, row), slot), touched, slot)

\* Several rows at once drop the ordered indexes; the next scan builds them again.
SetPreparedMany(st, batch) ==
  FoldLeft(LAMBDA s, e : SetPrepared(s, e.key, e.row, FALSE),
           IF Len(batch) > 1 THEN [st EXCEPT !.ordered = <<>>] ELSE st,
           batch)

\* The row in slot `from` is also in slot `to`.
CopySlot(st, to, from) ==
  [st EXCEPT !.slots[to] = st.slots[from],
             !.columns = [f \in Fields |-> [@[f] EXCEPT ![to] = Value(st, f, from)]],
             !.keyToSlot[st.slots[from].key] = to]

PopSlot(st) ==
  [st EXCEPT !.slots = Front(@), !.columns = [f \in Fields |-> Front(@[f])]]

\* MUTANT of FillHole: the row that fills the hole keeps its old slot in the buckets.
FillHoleLeavingBuckets(st, slot) ==
  LET last   == Len(st.slots)
      lifted == UnindexSlot(st, DOMAIN st.ordered, last)
  IN  IF slot = last THEN st
      ELSE IndexSlot(AddToBuckets(CopySlot(lifted, slot, last), slot), DOMAIN st.ordered, slot)

\* The last row takes over the slot that a deleted row leaves.
FillHole(st, slot) ==
  LET last   == Len(st.slots)
      lifted == UnindexSlot(RemoveFromBuckets(st, last), DOMAIN st.ordered, last)
  IN  IF slot = last THEN st
      ELSE IndexSlot(AddToBuckets(CopySlot(lifted, slot, last), slot), DOMAIN st.ordered, slot)

DeleteKey(st, key) ==
  LET slot    == st.keyToSlot[key]
      cleared == UnindexSlot(RemoveFromBuckets(st, slot), DOMAIN st.ordered, slot)
      dropped == [cleared EXCEPT !.keyToSlot = [k \in Stored(st) \ {key} |-> @[k]]]
  IN  PopSlot(FillHole(dropped, slot))
-------------------------------------------------------------------------------
StorageInit == storage = EmptyStorage

Publish(key, row) == storage' = SetPrepared(storage, key, row, FALSE)

\* A patch of a key that is not stored is refused.
Patch(key, row) ==
  /\ key \in Stored(storage)
  /\ storage' = SetPrepared(storage, key, row, TRUE)

PublishMany(batch) == storage' = SetPreparedMany(storage, batch)

Delete(key) ==
  /\ key \in Stored(storage)
  /\ storage' = DeleteKey(storage, key)

Clear == storage' = EmptyStorage

Mutation ==
  \/ \E key \in RowKeys : Delete(key)
  \/ \E key \in RowKeys, row \in StoredRows : Publish(key, row) \/ Patch(key, row)
  \/ \E batch \in Batches : PublishMany(batch)
  \/ Clear
-------------------------------------------------------------------------------
\* Whatever was published, patched, deleted and scanned before: columns agree with
\* the rows, a key leads to its slot, every ordered index holds each slot once and
\* in its order, and every bucket holds the slots of its value and no others
\* (topic-row-storage.ts setPrepared, setPreparedMany, delete).
IndexesMatchRows ==
  LET n == Len(storage.slots)
  IN  /\ \A f \in Fields :
           storage.columns[f] = [s \in 1..n |-> storage.slots[s].row[f]]
      /\ storage.keyToSlot =
           [k \in {storage.slots[s].key : s \in 1..n} |->
              CHOOSE s \in 1..n : storage.slots[s].key = k]
      /\ Cardinality(Stored(storage)) = n
      /\ \A o \in DOMAIN storage.ordered :
           LET index == storage.ordered[o]
           IN  /\ Len(index) = n /\ ToSet(index) = 1..n
               /\ \A i \in 1..(n - 1) : Precedes(storage, <<o>>, index[i], index[i + 1])
      /\ \A b \in DOMAIN storage.buckets :
           storage.buckets[b] = {s \in 1..n : InBucket(storage, b, s)}
===============================================================================
