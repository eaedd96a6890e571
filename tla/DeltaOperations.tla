---------------------------- MODULE DeltaOperations ----------------------------
(***************************************************************************)
(* The row operations of a delta: what the engine computes from two        *)
(* results of a live query, and what the client does with them.  Indices   *)
(* count from 1; a result is a window of entries and the total number of   *)
(* rows that it is a window of.                                            *)
(***************************************************************************)
EXTENDS Naturals, Sequences, FiniteSets, SequencesExt, Listing

CONSTANTS
  Keys,             \* keys of result rows
  Rows,             \* rows
  MaxWindow,        \* the limit of the window
  MaxHidden,        \* bound on the rows outside it
  MinReplacement    \* fewer removals and insertions take the general path, 8 in the code

ASSUME BoundAssumption ==
  MaxWindow \in Nat /\ MaxHidden \in Nat /\ MinReplacement \in Nat

VARIABLES
  shown,   \* the evaluation in the subscription's cursor
  client   \* the state of its client

vars == <<shown, client>>

Entries == [key : Keys, row : Rows]

\* The windows a query can have: no key twice.
Results ==
  {s \in SeqOf(Entries, MaxWindow) :
     \A i, j \in DOMAIN s : s[i].key = s[j].key => i = j}

\* Rows are outside the window only if it is full.
Evaluations ==
  {e \in [window : Results, total : 0..(MaxWindow + MaxHidden)] :
     e.total = Len(e.window) \/ (e.total > MaxWindow /\ Len(e.window) = MaxWindow)}

KeysOf(s)   == [i \in DOMAIN s |-> s[i].key]
KeySet(s)   == {s[i].key : i \in DOMAIN s}
Moved(s, from, to)  == InsertAt(RemoveAt(s, from), to, s[from])

Without(s, dropped) == Picked(s, {i \in DOMAIN s : s[i].key \notin dropped})

RemoveOp(k)         == [type |-> "remove", key |-> k]
InsertOp(e, i)      == [type |-> "insert", key |-> e.key, row |-> e.row, index |-> i]
UpdateOp(e, i)      == [type |-> "update", key |-> e.key, row |-> e.row, index |-> i]
MoveOp(k, from, to) == [type |-> "move", key |-> k, from |-> from, to |-> to]

-------------------------------------------------------------------------------
(* Where each key is in a sequence of entries: a map that is brought up to    *)
(* date from the first index that changed.  0 is the index of no entry.       *)

IndexOf(s) == [k \in Keys |-> IF \E i \in DOMAIN s : s[i].key = k
                              THEN CHOOSE i \in DOMAIN s : s[i].key = k ELSE 0]

\* MUTANT of Reindex: the entry at the first index itself is forgotten.
ReindexAfter(index, s, start) ==
  [k \in Keys |-> IF \E i \in (start + 1)..Len(s) : s[i].key = k
                  THEN CHOOSE i \in (start + 1)..Len(s) : s[i].key = k ELSE index[k]]

Reindex(index, s, start) ==
  [k \in Keys |-> IF \E i \in start..Len(s) : s[i].key = k
                  THEN CHOOSE i \in start..Len(s) : s[i].key = k ELSE index[k]]
-------------------------------------------------------------------------------
(* The operations, in three ways. *)

\* Of entries s, at some indices in order: removals, insertions and updates.
Removals(s, some) ==
  LET at == InOrder(some) IN [n \in DOMAIN at |-> RemoveOp(s[at[n]].key)]
Insertions(s, some) ==
  LET at == InOrder(some) IN [n \in DOMAIN at |-> InsertOp(s[at[n]], at[n])]
Updates(s, some) ==
  LET at == InOrder(some) IN [n \in DOMAIN at |-> UpdateOp(s[at[n]], at[n])]

\* Updates of the rows that differ once prev's entry at `from` is at `to`.
UpdatesAfter(prev, next, from, to) ==
  Updates(next, {i \in DOMAIN next : Moved(prev, from, to)[i].row # next[i].row})

\* Results whose keys differ by one moved key.  Two neighbours that changed places
\* can be either's move: the second moves up if its row alone has changed.
SingleMove(prev, next) ==
  LET changed == {i \in DOMAIN prev : prev[i].key # next[i].key}
      first   == Min(changed)
      last    == Max(changed)
      down    == KeysOf(Moved(prev, first, last)) = KeysOf(next)
      up      == KeysOf(Moved(prev, last, first)) = KeysOf(next)
      preferUp == prev[last].row # next[first].row /\ prev[first].row = next[last].row
      along(from, to) == <<MoveOp(prev[from].key, from, to)>> \o UpdatesAfter(prev, next, from, to)
  IN  IF Len(prev) # Len(next) \/ KeysOf(prev) = KeysOf(next) \/ ~(down \/ up) THEN {}
      ELSE IF up /\ (down => preferUp) THEN {along(last, first)}
      ELSE {along(first, last)}

\* Results that keep what they share as it is.
Replacement(prev, next) ==
  LET removed  == KeySet(prev) \ KeySet(next)
      inserted == KeySet(next) \ KeySet(prev)
      removals   == Removals(prev, {i \in DOMAIN prev : prev[i].key \in removed})
      insertions == Insertions(next, {i \in DOMAIN next : next[i].key \in inserted})
  IN  IF /\ removed # {} /\ inserted # {}
         /\ Cardinality(removed) + Cardinality(inserted) >= MinReplacement
         /\ Without(prev, removed) = Without(next, inserted)
      THEN {removals \o insertions}
      ELSE {}

\* What is gone is removed.
Drop(state, k) ==
  LET i    == state.index[k]
      rows == RemoveAt(state.rows, i)
  IN  [rows  |-> rows, ops |-> Append(state.ops, RemoveOp(k)),
       index |-> Reindex([state.index EXCEPT ![k] = 0], rows, i)]

\* One more entry of the next result, with its index, is put in its place.
PlaceEntry(state, put) ==
  LET e      == put.entry
      i      == put.index
      at     == state.index[e.key]
      rows   == IF at = 0 THEN InsertAt(state.rows, i, e) ELSE Moved(state.rows, at, i)
      absent == [rows  |-> rows, ops |-> Append(state.ops, InsertOp(e, i)),
                 index |-> Reindex(state.index, rows, i)]
      placed == IF at = i THEN state
                ELSE [rows  |-> rows, ops |-> Append(state.ops, MoveOp(e.key, at, i)),
                      index |-> Reindex(state.index, rows, Min({at, i}))]
  IN  IF at = 0 THEN absent
      ELSE IF placed.rows[i].row = e.row THEN placed
      ELSE [placed EXCEPT !.rows[i] = e, !.ops = Append(@, UpdateOp(e, i))]

\* Any two results: what is gone is removed, then entry after entry is placed.
General(prev, next) ==
  LET gone == KeysOf(Without(prev, KeySet(next)))
      kept == FoldLeft(Drop, [rows |-> prev, ops |-> <<>>, index |-> IndexOf(prev)], gone)
  IN  FoldLeft(PlaceEntry, kept, [i \in DOMAIN next |-> [entry |-> next[i], index |-> i]]).ops

Operations(prev, next) ==
  LET moves == SingleMove(prev, next)
      swaps == Replacement(prev, next)
  IN  IF moves # {} THEN CHOOSE ops \in moves : TRUE
      ELSE IF swaps # {} THEN CHOOSE ops \in swaps : TRUE
      ELSE General(prev, next)
-------------------------------------------------------------------------------
(* The client. *)

\* One operation on the client's copy of the entries; `ok` while all have applied.
ApplyOperation(state, op) ==
  LET rows == state.rows
      n    == Len(rows)
      at   == state.index[op.key]
      fail == [state EXCEPT !.ok = FALSE]
      to(changed, index, start) ==
        [ok |-> TRUE, rows |-> changed, index |-> Reindex(index, changed, start)]
  IN  CASE ~state.ok -> state
        [] state.ok /\ op.type = "insert" ->
             IF op.index \notin 1..(n + 1) \/ at # 0 THEN fail
             ELSE to(InsertAt(rows, op.index, [key |-> op.key, row |-> op.row]),
                     state.index, op.index)
        [] state.ok /\ op.type = "update" ->
             IF op.index \notin 1..n \/ KeysOf(rows)[op.index] # op.key THEN fail
             ELSE [state EXCEPT !.rows[op.index].row = op.row, !.index[op.key] = op.index]
        [] state.ok /\ op.type = "move" ->
             IF op.from \notin 1..n \/ op.to \notin 1..n \/ KeysOf(rows)[op.from] # op.key
             THEN fail
             ELSE to(Moved(rows, op.from, op.to), state.index, Min({op.from, op.to}))
        [] state.ok /\ op.type = "remove" ->
             IF at = 0 THEN fail
             ELSE to(RemoveAt(rows, at), [state.index EXCEPT ![op.key] = 0], at)

\* A delta is applied as a whole or leaves what is shown and marks it stale.
ApplyDelta(state, ops, total) ==
  LET replay == FoldLeft(ApplyOperation,
                         [ok |-> TRUE, rows |-> state.window, index |-> IndexOf(state.window)],
                         ops)
  IN  IF state.ready /\ replay.ok /\ total >= Len(replay.rows)
      THEN [window |-> replay.rows, total |-> total, ready |-> TRUE]
      ELSE [state EXCEPT !.ready = FALSE]
-------------------------------------------------------------------------------
\* The subscription starts from a snapshot.
Init ==
  /\ shown \in Evaluations
  /\ client = [window |-> shown.window, total |-> shown.total, ready |-> TRUE]

\* The latest result is `next`: a delta is sent unless nothing is to be said.
Notify(next) ==
  LET ops == Operations(shown.window, next.window)
  IN  /\ ops # <<>> \/ shown.total # next.total
      /\ shown' = next
      /\ client' = ApplyDelta(client, ops, next.total)

Next == \E next \in Evaluations : Notify(next)

Spec == Init /\ [][Next]_vars
-------------------------------------------------------------------------------
\* Whatever the two results, however rows moved, came, went and changed at once,
\* the client ends up with the new one, and finds nothing to refuse on the way
\* (query-result.ts deltaOperations and live-query-state.ts applyDelta).
DeltaReplays ==
  client = [window |-> shown.window, total |-> shown.total, ready |-> TRUE]

\* No operation of ops sends a row that entries prev already hold, and no key is in
\* two operations that carry a row, or two that do not.
Economical(prev, ops) ==
  LET Bears(op) == op.type \in {"insert", "update"}
  IN  /\ \A i \in DOMAIN ops :
           Bears(ops[i]) => [key |-> ops[i].key, row |-> ops[i].row] \notin ToSet(prev)
      /\ \A i, j \in DOMAIN ops :
           ops[i].key = ops[j].key /\ (Bears(ops[i]) <=> Bears(ops[j])) => i = j

\* Every delta is economical, whichever of the three ways computed it
\* (query-result.ts deltaOperations).
RowsSentOnce ==
  [][\A ops \in {Operations(shown.window, shown'.window)} : Economical(shown.window, ops)]_vars
===============================================================================
