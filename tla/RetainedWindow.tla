---------------------------- MODULE RetainedWindow ----------------------------
(***************************************************************************)
(* The shared execution of a raw live query: the window of rows it retains *)
(* for all leases of the query, brought up to date from the row change     *)
(* journal where that is possible and evaluated again where it is not.     *)
(*                                                                         *)
(* Keys are numbers, so that a row's key breaks ties; a row is a number,   *)
(* by which the query orders; Matching rows are those it selects.          *)
(***************************************************************************)
EXTENDS Integers, Sequences, FiniteSets, SequencesExt, RowChangeJournal

CONSTANTS
  Keys,              \* row keys
  Rows,              \* rows, in the order of the query
  Matching,          \* the rows the query selects
  Windows,           \* the windows subscriptions ask for
  NoLimit,           \* the limit of a window without one
  YieldBeforeCommit, \* may a notification run between write and commit
  MaxLoad,           \* bound on the rows the first mutation changes
  MaxBatch,          \* bound on the rows a later mutation changes
  MaxLeases,         \* bound on the leases of the execution
  MaxOthers,         \* bound on the executions of other queries
  MaxVersion         \* bound on the version

ASSUME DataAssumption ==
  /\ Keys \subseteq Nat /\ IsFiniteSet(Keys)
  /\ Rows \subseteq Nat \ {NoRow}
  /\ Matching \subseteq Rows
  /\ NoLimit \notin Nat
  /\ Windows \subseteq [offset : Nat, limit : Nat \union {NoLimit}]
  /\ YieldBeforeCommit \in BOOLEAN
  /\ MaxLoad \in Nat \ {0}
  /\ {MaxBatch, MaxLeases, MaxOthers, MaxVersion} \subseteq Nat

VARIABLES
  rows,        \* the row storage
  version,     \* its committed version
  writing,     \* rows changed by the mutation in progress, 0 if there is none
  journal,     \* the row change journal
  windows,     \* leases of the execution by window
  base,        \* limit of the base window
  evaluation,  \* the retained result
  past,        \* history: the rows that the versions a journal may reach back to committed
  seen         \* history: the rows that evaluation.version committed

storeVars     == <<rows, version, writing, past>>
executionVars == <<windows, base, evaluation, seen>>
vars == <<storeVars, journal, executionVars>>

Entry(k, r) == [key |-> k, row |-> r]
NoRows      == [k \in Keys |-> NoRow]
FirstVersion == [v \in {0} |-> NoRows]
Least(a, b) == Min({a, b})

Leases == FoldFunction(LAMBDA n, m : n + m, 0, windows)
Live   == Leases > 0
-------------------------------------------------------------------------------
(* Evaluation from the rows. *)

\* The order of the query, keys breaking ties.
Before(a, b) == a.row < b.row \/ (a.row = b.row /\ a.key < b.key)

\* Sequence s in an order; what it does not tell apart stays as it was.
Sorted(s, Precedes(_, _)) ==
  LET Earlier(i, j) == Precedes(s[i], s[j]) \/ (~Precedes(s[j], s[i]) /\ i < j)
  IN  [n \in DOMAIN s |->
         s[CHOOSE i \in DOMAIN s : Cardinality({j \in DOMAIN s : Earlier(j, i)}) = n - 1]]

\* What the query selects of rows r, and that in its order.
Found(r)    == {Entry(k, r[k]) : k \in {l \in Keys : r[l] \in Matching}}
Selected(r) == Sorted(SetToSeq(Found(r)), Before)

Limited(entries, limit) ==
  IF limit = NoLimit THEN entries ELSE SubSeq(entries, 1, Least(limit, Len(entries)))

\* What a lease with window w shows.
Slice(entries, w) ==
  SubSeq(entries, w.offset + 1,
         IF w.limit = NoLimit THEN Len(entries) ELSE Least(w.offset + w.limit, Len(entries)))

Filled(entries, total, limit) == limit = NoLimit \/ Len(entries) >= Least(total, limit)

\* One or more entries beyond what the leases need are kept, so that a removal
\* does not always force a new evaluation.
Retained(limit) ==
  IF limit \in {NoLimit, 0} THEN limit
  ELSE limit + (IF limit >= 128 THEN 64 ELSE 1)

\* The window that covers the windows of all leases ws.
BaseLimit(ws) ==
  LET leased == {w \in Windows : ws[w] > 0}
      ends   == {IF w.limit = 0 THEN 0 ELSE w.offset + w.limit : w \in leased}
  IN  IF \E w \in leased : w.limit = NoLimit THEN NoLimit
      ELSE Max(ends \union {0})

Evaluate(limit) ==
  LET all    == Selected(rows)
      window == Limited(all, limit)
  IN  [window |-> window, total |-> Len(all), version |-> version,
       filled |-> Filled(window, Len(all), limit)]
-------------------------------------------------------------------------------
(* Evaluation from the changes. *)

\* The order in which retained entries are sorted: that of the rows in storage,
\* or of the entries where a row is not stored any more.
Ordered(a, b) ==
  IF NoRow \in {rows[a.key], rows[b.key]}
  THEN Before(a, b)
  ELSE Before(Entry(a.key, rows[a.key]), Entry(b.key, rows[b.key]))

Held(entries) == {entries[i].key : i \in DOMAIN entries}

\* The entries that are not removed, in the order they are in.
Without(entries, removed) ==
  LET left == {i \in DOMAIN entries : entries[i].key \notin removed}
  IN  [n \in 1..Cardinality(left) |->
         entries[CHOOSE i \in left : Cardinality({j \in left : j < i}) = n - 1]]

\* A selected row is replaced by a selected row.  In a limited window one that
\* moves down may have to leave it for a row that is not retained.
Replace(state, change) ==
  LET limit  == Retained(base)
      window == evaluation.window
      i      == CHOOSE i \in DOMAIN window : window[i].key = change.key
  IN  IF limit = 0 THEN state
      ELSE IF state.inserted[change.key] # NoRow
      THEN [state EXCEPT !.inserted[change.key] = change.next]
      ELSE IF \/ change.key \notin Held(window) \ state.removed
              \/ limit # NoLimit /\ change.next > state.window[i].row
      THEN [state EXCEPT !.ok = FALSE]
      ELSE [state EXCEPT !.window[i].row = change.next, !.replaced = TRUE]

\* What one change does to the update of the evaluation.
ApplyChange(state, change) ==
  LET before == change.previous \in Matching
      after  == change.next \in Matching
  IN  IF ~state.ok \/ (~before /\ ~after) THEN state
      ELSE IF before /\ after THEN Replace(state, change)
      ELSE IF before
      THEN [state EXCEPT !.total = @ - 1,
                         !.inserted[change.key] = NoRow,
                         !.removed = @ \union ({change.key} \intersect Held(evaluation.window))]
      ELSE [state EXCEPT !.total = @ + 1,
                         !.inserted[change.key] = change.next]

\* MUTANT of SafeLimit: the window is refilled whatever was removed from it.
SafeLimitAlways(state, kept, added) == Retained(base)

\* How much of the window can be trusted: where entries were removed, rows that
\* are not retained may belong after the last one that was kept.
SafeLimit(state, kept, added) ==
  IF state.removed = {} \/ base = NoLimit
  THEN Retained(base)
  ELSE Least(Retained(base),
             Len(kept) + Cardinality({a \in added : kept # <<>> /\ ~Ordered(Last(kept), a)}))

\* The rows that entered.
Added(state) == {Entry(k, state.inserted[k]) : k \in {l \in Keys : state.inserted[l] # NoRow}}

\* The retained entries that stay.
Kept(state) ==
  LET rest == Without(state.window, state.removed)
  IN  IF state.replaced THEN Sorted(rest, Ordered) ELSE rest

\* The window with the rows that entered.
Refilled(state) ==
  LET kept  == Kept(state)
      added == Added(state)
  IN  IF added = {} THEN kept
      ELSE Limited(Sorted(kept \o SetToSeq(added), Ordered), SafeLimit(state, kept, added))

\* The changes since the retained evaluation, applied to it.
Changed ==
  FoldLeft(ApplyChange,
           [ok |-> TRUE, replaced |-> FALSE, total |-> evaluation.total,
            window |-> evaluation.window, removed |-> {}, inserted |-> NoRows],
           ChangesSince(journal, evaluation.version))

\* Do they say what the window is now?
Suffices(state) ==
  /\ Covers(journal, evaluation.version, version)
  /\ state.ok
  /\ base # NoLimit => Len(Kept(state)) >= Least(state.total, base)
  /\ Added(state) # {} => evaluation.filled

\* The retained evaluation brought to the current version.
Updated(state) ==
  [window |-> Refilled(state), total |-> state.total, version |-> version,
   filled |-> Filled(Refilled(state), state.total, Retained(base))]

\* By the changes where they suffice, and otherwise from the rows.
Latest == IF Suffices(Changed) THEN Updated(Changed) ELSE Evaluate(Retained(base))

\* There is no execution.
NoEvaluation == [window |-> <<>>, total |-> 0, version |-> 0, filled |-> TRUE]

\* MUTANT of Refresh: a window that other leases change is not noticed.
RefreshSameWindow(ws) ==
  /\ UNCHANGED base
  /\ evaluation' = IF evaluation.version = version THEN evaluation ELSE Latest
  /\ seen' = past[version]

\* execution.latest(), for leases ws.
Refresh(ws) ==
  /\ base' = BaseLimit(ws)
  /\ evaluation' = IF BaseLimit(ws) # base THEN Evaluate(Retained(BaseLimit(ws)))
                   ELSE IF evaluation.version = version THEN evaluation ELSE Latest
  /\ seen' = past[version]

\* The execution goes when its last lease does.
Discard ==
  /\ base' = 0
  /\ evaluation' = NoEvaluation
  /\ seen' = NoRows
-------------------------------------------------------------------------------
Init ==
  /\ rows = NoRows
  /\ version = 0
  /\ writing = 0
  /\ past = FirstVersion
  /\ journal = EmptyJournal
  /\ windows = [w \in Windows |-> 0]
  /\ base = 0
  /\ evaluation = NoEvaluation
  /\ seen = NoRows

\* One row of a mutation is stored and its change recorded.
Store(k, r) ==
  /\ rows[k] # r
  /\ rows' = [rows EXCEPT ![k] = r]
  /\ journal' = Record(journal, [key |-> k, previous |-> rows[k], next |-> r], version)
  /\ UNCHANGED <<version, past, executionVars>>

\* publish, patch, or one row of publishMany; an equal row changes nothing.
SetRow(k, r) ==
  /\ version < MaxVersion
  /\ writing < (IF version = 0 THEN MaxLoad ELSE MaxBatch)
  /\ writing' = writing + 1
  /\ Store(k, r)

\* delete changes one row, and its mutation no other.
DeleteRow(k) ==
  /\ version < MaxVersion
  /\ writing = 0
  /\ writing' = Max({MaxLoad, MaxBatch})
  /\ Store(k, NoRow)

\* The versions that a journal may reach back to after the next commit.
KeptVersions ==
  IF journal.refs = 0 THEN {} ELSE {v \in DOMAIN past : v + MaxVersions > version}

\* advanceVersion ends the mutation that changed rows.
Commit ==
  /\ writing > 0
  /\ writing' = 0
  /\ version' = version + 1
  /\ journal' = CommitJournal(journal, version + 1)
  /\ past' = [v \in {version + 1} \union KeptVersions |->
                IF v = version + 1 THEN rows ELSE past[v]]
  /\ UNCHANGED <<rows, executionVars>>

\* A subscription leases the execution, which exists while it has leases.
Acquire(w) ==
  /\ writing = 0
  /\ Leases < MaxLeases
  /\ windows' = [windows EXCEPT ![w] = @ + 1]
  /\ IF Live
     THEN Refresh(windows') /\ UNCHANGED journal
     ELSE /\ base' = BaseLimit(windows')
          /\ evaluation' = Evaluate(Retained(base'))
          /\ seen' = past[version]
          /\ journal' = Retain(journal, version)
  /\ UNCHANGED storeVars

\* A subscription gives its lease back.
ReleaseLease(w) ==
  /\ writing = 0
  /\ windows[w] > 0
  /\ windows' = [windows EXCEPT ![w] = @ - 1]
  /\ IF Leases > 1
     THEN Refresh(windows') /\ UNCHANGED journal
     ELSE journal' = Release(journal, version) /\ Discard
  /\ UNCHANGED storeVars

\* A notification computes the latest result.  It holds the notification semaphore
\* only: a mutation may be under way.
Notify ==
  /\ Live
  /\ YieldBeforeCommit \/ writing = 0
  /\ Refresh(windows)
  /\ UNCHANGED <<storeVars, journal, windows>>

\* Executions of other queries keep the journal too.
Others == journal.refs - (IF Live THEN 1 ELSE 0)

RetainElsewhere ==
  /\ writing = 0
  /\ Others < MaxOthers
  /\ journal' = Retain(journal, version)
  /\ UNCHANGED <<storeVars, executionVars>>

ReleaseElsewhere ==
  /\ writing = 0
  /\ Others > 0
  /\ journal' = Release(journal, version)
  /\ UNCHANGED <<storeVars, executionVars>>

\* The storage is cleared, then every execution gives its journal reference back.
Reset ==
  /\ writing = 0
  /\ rows' = NoRows
  /\ version' = 0
  /\ past' = FirstVersion
  /\ journal' = IF journal.refs = 0 THEN Clear(journal, version)
                ELSE Clear([journal EXCEPT !.refs = 0], 0)
  /\ windows' = [w \in Windows |-> 0]
  /\ Discard
  /\ UNCHANGED writing

Next ==
  \/ \E k \in Keys : DeleteRow(k) \/ \E r \in Rows : SetRow(k, r)
  \/ Commit
  \/ \E w \in Windows : Acquire(w) \/ ReleaseLease(w)
  \/ Notify
  \/ RetainElsewhere
  \/ ReleaseElsewhere
  \/ Reset

Spec == Init /\ [][Next]_vars
-------------------------------------------------------------------------------
\* What every lease shows after any sequence of incremental updates, with other
\* leases coming and going, is what its query gives on the rows of the version the
\* result is labelled with (active-raw-query.ts latest and projectWindowEvaluation).
ShownIsReference ==
  LET all == Selected(seen)
  IN  Live => /\ evaluation.total = Len(all)
              /\ \A w \in Windows : windows[w] > 0 =>
                   Slice(evaluation.window, w) = Slice(all, w)

\* The rows retained beyond the leased windows are right as well: all that is
\* retained are the first rows of the full result, enough of them for every lease,
\* whose total is known, so that ShownIsReference follows
\* (active-raw-query.ts updateBaseEvaluationFromRetainedChanges and its safe limit).
RetainedIsPrefix ==
  LET all == Selected(seen)
  IN  Live => /\ evaluation.total = Len(all)
              /\ IsPrefix(evaluation.window, all)
              /\ Filled(evaluation.window, Len(all), base)

\* Row r is that of key k after the first i changes to the rows `before`: the row it
\* had there, or what the last of them that is about k left.
RowAfter(before, changes, i, k, r) ==
  \/ before[k] = r /\ \A j \in 1..i : changes[j].key # k
  \/ \E j \in 1..i : /\ changes[j].key = k /\ changes[j].next = r
                    /\ \A l \in (j + 1)..i : changes[l].key # k

\* The changes lead from the rows `before` to the rows `after`, each from the row
\* that it says it replaced.
Replays(before, changes, after) ==
  /\ \A i \in 1..Len(changes) :
       RowAfter(before, changes, i - 1, changes[i].key, changes[i].previous)
  /\ \A k \in Keys : RowAfter(before, changes, Len(changes), k, after[k])

\* Whenever the journal offers the changes since a version, replaying them on the
\* rows of that version gives the current ones, and every change starts from the
\* row it says: overflow, trimming, leases of the journal and resets never leave a
\* gap that changesSince hides (topic-row-change-journal.ts).
JournalReplays ==
  \A v \in 0..version : Covers(journal, v, version) =>
    /\ v \in DOMAIN past
    /\ Replays(past[v], ChangesSince(journal, v), past[version])

\* With no mutation under way, a result labelled with the current version is the
\* result on the current rows: what plans/v2-column-live-view-engine-plan.md asks
\* for when it says that every live event corresponds to one topic version.
Settled ==
  (Live /\ writing = 0 /\ evaluation.version = version) =>
    \A w \in Windows : windows[w] > 0 =>
      Slice(evaluation.window, w) = Slice(Selected(rows), w)
===============================================================================
