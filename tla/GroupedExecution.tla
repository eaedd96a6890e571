--------------------------- MODULE GroupedExecution ---------------------------
(***************************************************************************)
(* The shared execution of a grouped live query.  It keeps every group with *)
(* its members and aggregates and brings them up to date from the row      *)
(* change journal; beyond its admission limits it gives them and its       *)
(* journal reference up and evaluates from the rows whenever the version   *)
(* has moved.                                                              *)
(*                                                                         *)
(* Rows are numbers; GroupOf and ValueOf are their grouping and aggregated *)
(* fields, Matching are those the query selects.  A query that shows no    *)
(* rows keeps the size of each group only.                                 *)
(***************************************************************************)
EXTENDS Integers, Sequences, FiniteSets, SequencesExt, RowChangeJournal

CONSTANTS
  Keys,               \* row keys
  Rows,               \* rows
  Matching,           \* the rows the query selects
  GroupOf,            \* [Rows -> Nat]: the group key
  ValueOf,            \* [Rows -> Nat]: the value aggregated
  Plans,              \* the queries: what orders them, offset and limit
  NoLimit,            \* the limit of a query without one
  MaxGroups,          \* limits.maxGroups
  MaxMembers,         \* limits.maxMembers
  MaxMembersPerGroup, \* limits.maxMembersPerGroup
  MaxRetainedValues,  \* limits.maxRetainedValueEntries
  MaxLoad,            \* bound on the rows the first mutation changes
  MaxBatch,           \* bound on the rows a later mutation changes
  MaxLeases,          \* bound on the leases of the execution
  MaxOthers,          \* bound on the executions of other queries
  MaxVersion          \* bound on the version

Orders == {"key", "count", "distinct", "total", "least"}

ASSUME GroupedAssumption ==
  /\ IsFiniteSet(Keys)
  /\ Rows \subseteq Nat \ {NoRow}
  /\ Matching \subseteq Rows
  /\ GroupOf \in [Rows -> Nat]
  /\ ValueOf \in [Rows -> Nat]
  /\ NoLimit \notin Nat
  /\ Plans \subseteq [orderBy : Orders, offset : Nat, limit : Nat \union {NoLimit}]
  /\ {MaxGroups, MaxMembers, MaxMembersPerGroup, MaxRetainedValues} \subseteq Nat \ {0}
  /\ {MaxLoad, MaxBatch} \subseteq Nat \ {0}
  /\ {MaxLeases, MaxOthers, MaxVersion} \subseteq Nat

VARIABLES
  plan,       \* the query, fixed
  rows,       \* the row storage
  version,    \* its committed version
  writing,    \* rows changed by the mutation in progress, 0 if there is none
  journal,    \* the row change journal
  others,     \* executions of other queries that keep the journal
  refs,       \* leases of the execution
  mode,       \* whether there is one, and whether it is incremental
  retained,   \* the slot's retainedChanges flag
  groups,     \* the groups kept, by group key
  members,    \* memberCount
  evaluation, \* the result last computed
  seen        \* history: the rows the result was computed for

storeVars     == <<rows, version, writing>>
executionVars == <<refs, mode, retained, groups, members, evaluation, seen>>
vars == <<plan, storeVars, journal, others, executionVars>>

Amounts   == {ValueOf[r] : r \in Rows}
GroupKeys == {GroupOf[r] : r \in Rows}
NoGroups  == [g \in {} |-> 0]
Less(a, b) == IF a < b THEN a ELSE b

\* The function f with y at x.
With(f, x, y) == [z \in DOMAIN f \union {x} |-> IF z = x THEN y ELSE f[z]]

\* The function f without x.
Without(f, x) == [z \in DOMAIN f \ {x} |-> f[z]]
-------------------------------------------------------------------------------
(* Groups and their aggregates: count, countDistinct, sum and min.  The     *)
(* values of a group are counted, so that its aggregates can be undone.     *)

NewGroup == [members |-> [k \in {} |-> NoRow], values |-> [v \in Amounts |-> 0],
             count |-> 0, distinct |-> 0, total |-> 0, least |-> -1]

AddValue(g, v) ==
  [g EXCEPT !.count = @ + 1,
            !.values[v] = @ + 1,
            !.distinct = IF g.values[v] = 0 THEN @ + 1 ELSE @,
            !.total = @ + v,
            !.least = IF @ = -1 \/ v < @ THEN v ELSE @]

\* The minimum stays what it was, see Outdated.
RemoveValue(g, v) ==
  [g EXCEPT !.count = @ - 1,
            !.values[v] = @ - 1,
            !.distinct = IF g.values[v] = 1 THEN @ - 1 ELSE @,
            !.total = @ - v]

\* MUTANT of Outdated: the minimum is only recomputed once its group is empty.
OutdatedWhenEmpty(g, v) == g.count = 1

\* Removing value v takes the last copy of the minimum away.
Outdated(g, v) == g.values[v] = 1 /\ g.least = v

Recomputed(g) == [g EXCEPT !.least = Min({v \in Amounts : g.values[v] > 0})]

\* Members(g) after row r was stored under key k.
WithMember(g, k, r) == [g EXCEPT !.members = With(@, k, r)]

Upsert(gs, k, r) ==
  LET g   == IF GroupOf[r] \in DOMAIN gs THEN gs[GroupOf[r]] ELSE NewGroup
      old == IF k \in DOMAIN g.members THEN RemoveValue(g, ValueOf[g.members[k]]) ELSE g
  IN  With(gs, GroupOf[r], AddValue(WithMember(old, k, r), ValueOf[r]))

\* A query that shows no rows counts the members of each group.
Count(gs, g, n) ==
  LET was == IF g \in DOMAIN gs THEN gs[g] ELSE 0
  IN  IF was + n = 0 THEN Without(gs, g) ELSE With(gs, g, was + n)

CountsOnly == plan.limit = 0

SelectedKeys == {k \in Keys : rows[k] \in Matching}

\* A scan counts a row in its group.
AddRow(gs, k) ==
  IF CountsOnly THEN Count(gs, GroupOf[rows[k]], 1) ELSE Upsert(gs, k, rows[k])

\* The groups of the rows in storage.
Scanned == FoldLeft(AddRow, NoGroups, SetToSeq(SelectedKeys))
-------------------------------------------------------------------------------
(* The result of a set of groups. *)

Finalized(gs, g) ==
  [key |-> g, count |-> gs[g].count, distinct |-> gs[g].distinct,
   total |-> gs[g].total, least |-> gs[g].least]

\* Group keys break ties.
Before(a, b) ==
  LET x == a[plan.orderBy]
      y == b[plan.orderBy]
  IN  x < y \/ (x = y /\ a.key < b.key)

\* The result with n others before it, which the bounded heap for small windows and
\* the full sort for large ones both find.
Ranked(results, n) == CHOOSE e \in results : Cardinality({f \in results : Before(f, e)}) = n

WindowOf(gs) ==
  LET results == {Finalized(gs, g) : g \in DOMAIN gs}
      count   == Cardinality(DOMAIN gs)
      end     == IF plan.limit = NoLimit THEN count ELSE Less(plan.offset + plan.limit, count)
  IN  IF CountsOnly THEN <<>>
      ELSE [i \in 1..(end - plan.offset) |-> Ranked(results, plan.offset + i - 1)]

EvaluationOf(gs) ==
  [window |-> WindowOf(gs), total |-> Cardinality(DOMAIN gs), version |-> version]
-------------------------------------------------------------------------------
(* Admission. *)

\* countDistinct and min keep values.
RetainedAggregates == 2

\* The members counted in a scan.
MemberCount == IF CountsOnly THEN 0 ELSE Cardinality(SelectedKeys)

Admitted(gs, count) ==
  /\ Cardinality(DOMAIN gs) <= MaxGroups
  /\ CountsOnly \/
       /\ count <= MaxMembers
       /\ count * RetainedAggregates <= MaxRetainedValues
       /\ \A g \in DOMAIN gs : Cardinality(DOMAIN gs[g].members) <= MaxMembersPerGroup
-------------------------------------------------------------------------------
(* Bringing the groups up to date.  The state of an update: the groups, the  *)
(* members counted, whether the limits hold, the minima that are outdated,   *)
(* the groups whose aggregates changed, and whether the window has to be     *)
(* ordered again.                                                            *)

Removed(st, k, r) ==
  LET g    == GroupOf[r]
      left == [st.groups[g] EXCEPT !.members = Without(@, k)]
  IN  IF g \notin DOMAIN st.groups \/ k \notin DOMAIN st.groups[g].members THEN st
      ELSE IF DOMAIN left.members = {}
      THEN [st EXCEPT !.groups = Without(@, g),
                      !.members = @ - 1, !.reorder = TRUE, !.outdated = @ \ {g}]
      ELSE [st EXCEPT !.groups[g] = RemoveValue(left, ValueOf[r]),
                      !.members = @ - 1, !.reorder = TRUE,
                      !.outdated = IF Outdated(left, ValueOf[r]) THEN @ \union {g} ELSE @]

Inserted(st, k, r) ==
  LET next  == Upsert(st.groups, k, r)
      known == GroupOf[r] \in DOMAIN st.groups /\ k \in DOMAIN st.groups[GroupOf[r]].members
      count == IF known THEN st.members ELSE st.members + 1
  IN  [st EXCEPT !.groups = next, !.members = count, !.reorder = TRUE,
                 !.ok = Admitted(next, count)]

OrderedByValue == plan.orderBy \in {"distinct", "total", "least"}

\* MUTANT of Replaced: the order of the groups is taken to be the same.
ReplacedInPlace(st, k, old, new) ==
  LET g == GroupOf[old]
      v == ValueOf[old]
      was == WithMember(st.groups[g], k, new)
  IN  IF v = ValueOf[new] THEN [st EXCEPT !.groups[g] = was]
      ELSE [st EXCEPT !.groups[g] = AddValue(RemoveValue(was, v), ValueOf[new]),
                      !.outdated = IF Outdated(was, v) THEN @ \union {g} ELSE @,
                      !.changed = @ \union {g}]

\* A member is replaced within its group.
Replaced(st, k, old, new) ==
  LET g == GroupOf[old]
      v == ValueOf[old]
      was == WithMember(st.groups[g], k, new)
  IN  IF v = ValueOf[new] THEN [st EXCEPT !.groups[g] = was]
      ELSE [st EXCEPT !.groups[g] = AddValue(RemoveValue(was, v), ValueOf[new]),
                      !.outdated = IF Outdated(was, v) THEN @ \union {g} ELSE @,
                      !.changed = @ \union {g},
                      !.reorder = @ \/ OrderedByValue]

Stays(gs, c) ==
  /\ {c.previous, c.next} \subseteq Matching
  /\ GroupOf[c.previous] = GroupOf[c.next]
  /\ GroupOf[c.previous] \in DOMAIN gs
  /\ c.key \in DOMAIN gs[GroupOf[c.previous]].members

\* Once a limit is exceeded the rest does not matter.
ApplyChange(st, c) ==
  LET left == IF c.previous \in Matching THEN Removed(st, c.key, c.previous) ELSE st
  IN  IF ~st.ok THEN st
      ELSE IF Stays(st.groups, c) THEN Replaced(st, c.key, c.previous, c.next)
      ELSE IF c.next \in Matching THEN Inserted(left, c.key, c.next)
      ELSE left

CountChange(st, c) ==
  LET left == IF c.previous \in Matching THEN Count(st.groups, GroupOf[c.previous], -1)
              ELSE st.groups
      next == IF c.next \in Matching THEN Count(left, GroupOf[c.next], 1) ELSE left
  IN  IF ~st.ok THEN st
      ELSE [st EXCEPT !.groups = next, !.ok = c.next \in Matching => Admitted(next, 0)]

WithMinima(st) ==
  [st EXCEPT !.groups = [g \in DOMAIN st.groups |->
                           IF g \in st.outdated THEN Recomputed(st.groups[g]) ELSE st.groups[g]],
             !.outdated = {}]

AnyChange(st, c) == IF CountsOnly THEN CountChange(st, c) ELSE ApplyChange(st, c)

\* Minima are recomputed at the end of each version's changes.
ApplyBatch(st, batch) ==
  LET next == FoldLeft(AnyChange, st, batch.changes)
  IN  IF CountsOnly \/ ~next.ok THEN next ELSE WithMinima(next)

\* The versions after the one of the result are applied, oldest first.
ApplyLater(st, batch) ==
  IF batch.version > evaluation.version THEN ApplyBatch(st, batch) ELSE st

Updated ==
  FoldLeft(ApplyLater,
           [groups |-> groups, members |-> members, ok |-> TRUE, outdated |-> {},
            changed |-> {}, reorder |-> CountsOnly],
           journal.batches)

\* Without a change of order the rows of changed groups are replaced in place.
Patched(st) ==
  [evaluation EXCEPT
     !.version = version,
     !.window = [i \in DOMAIN @ |->
                   IF @[i].key \in st.changed THEN Finalized(st.groups, @[i].key) ELSE @[i]]]
-------------------------------------------------------------------------------
(* The execution. *)

Keep(gs, count, result) ==
  /\ groups' = gs
  /\ members' = count
  /\ evaluation' = result
  /\ UNCHANGED <<mode, retained, journal>>

\* MUTANT of FallBack: the journal is still kept for the execution.
FallBackRetaining ==
  /\ mode' = "fallback"
  /\ groups' = NoGroups
  /\ members' = 0
  /\ evaluation' = EvaluationOf(Scanned)
  /\ UNCHANGED <<retained, journal>>

\* The slot's releaseRetainedChanges runs once.
FallBack ==
  /\ mode' = "fallback"
  /\ groups' = NoGroups
  /\ members' = 0
  /\ evaluation' = EvaluationOf(Scanned)
  /\ retained' = FALSE
  /\ journal' = IF retained THEN Release(journal, version) ELSE journal

Rebuild ==
  LET next  == Scanned
      count == MemberCount
  IN  IF Admitted(next, count) THEN Keep(next, count, EvaluationOf(next)) ELSE FallBack

CatchUp ==
  LET st == Updated
  IN  IF ~st.ok THEN FallBack
      ELSE Keep(st.groups, st.members,
                IF st.reorder THEN EvaluationOf(st.groups) ELSE Patched(st))

\* execution.latest()
Refresh ==
  /\ seen' = rows
  /\ IF evaluation.version = version THEN Keep(groups, members, evaluation)
     ELSE IF mode = "fallback" THEN Keep(groups, members, EvaluationOf(Scanned))
     ELSE IF Covers(journal, evaluation.version, version) THEN CatchUp
     ELSE Rebuild

\* A first lease makes the execution; the journal is kept for incremental ones.
Create ==
  LET next     == Scanned
      count    == MemberCount
      admitted == Admitted(next, count)
  IN  /\ mode' = IF admitted THEN "incremental" ELSE "fallback"
      /\ groups' = IF admitted THEN next ELSE NoGroups
      /\ members' = IF admitted THEN count ELSE 0
      /\ evaluation' = EvaluationOf(next)
      /\ seen' = rows
      /\ retained' = admitted
      /\ journal' = IF admitted THEN Retain(journal, version) ELSE journal

NoEvaluation == [window |-> <<>>, total |-> 0, version |-> 0]

Discard ==
  /\ refs' = 0
  /\ mode' = "none"
  /\ retained' = FALSE
  /\ groups' = NoGroups
  /\ members' = 0
  /\ evaluation' = NoEvaluation
  /\ seen' = [k \in Keys |-> NoRow]
-------------------------------------------------------------------------------
Init ==
  /\ plan \in Plans
  /\ rows = [k \in Keys |-> NoRow]
  /\ version = 0
  /\ writing = 0
  /\ journal = EmptyJournal
  /\ others = 0
  /\ refs = 0
  /\ mode = "none"
  /\ retained = FALSE
  /\ groups = NoGroups
  /\ members = 0
  /\ evaluation = NoEvaluation
  /\ seen = [k \in Keys |-> NoRow]

Store(k, r) ==
  /\ rows[k] # r
  /\ rows' = [rows EXCEPT ![k] = r]
  /\ journal' = Record(journal, [key |-> k, previous |-> rows[k], next |-> r], version)
  /\ UNCHANGED <<plan, version, others, executionVars>>

Budget == IF version = 0 THEN MaxLoad ELSE MaxBatch

\* publish, patch, or one row of publishMany; an equal row changes nothing.
SetRow(k, r) ==
  /\ version < MaxVersion
  /\ writing < Budget
  /\ writing' = writing + 1
  /\ Store(k, r)

\* delete changes one row, and its mutation no other.
DeleteRow(k) ==
  /\ version < MaxVersion
  /\ writing = 0
  /\ writing' = Budget
  /\ Store(k, NoRow)

Commit ==
  /\ writing > 0
  /\ writing' = 0
  /\ version' = version + 1
  /\ journal' = CommitJournal(journal, version + 1)
  /\ UNCHANGED <<plan, rows, others, executionVars>>

\* A subscription takes the shared execution and its latest result.
Acquire ==
  /\ writing = 0
  /\ refs < MaxLeases
  /\ refs' = refs + 1
  /\ IF refs = 0 THEN Create ELSE Refresh
  /\ UNCHANGED <<plan, storeVars, others>>

\* MUTANT of ReleaseLease: an execution that fell back releases the journal again.
ReleaseTwice ==
  /\ writing = 0
  /\ refs > 0
  /\ IF refs > 1
     THEN refs' = refs - 1 /\ UNCHANGED <<mode, retained, groups, members, evaluation, seen, journal>>
     ELSE journal' = Release(journal, version) /\ Discard
  /\ UNCHANGED <<plan, storeVars, others>>

ReleaseLease ==
  /\ writing = 0
  /\ refs > 0
  /\ IF refs > 1
     THEN refs' = refs - 1 /\ UNCHANGED <<mode, retained, groups, members, evaluation, seen, journal>>
     ELSE journal' = (IF retained THEN Release(journal, version) ELSE journal) /\ Discard
  /\ UNCHANGED <<plan, storeVars, others>>

\* A notification computes the latest result; mutations are atomic for it.
Notify ==
  /\ writing = 0
  /\ refs > 0
  /\ Refresh
  /\ UNCHANGED <<plan, storeVars, others, refs>>

\* Executions of other queries keep the journal too.
RetainElsewhere ==
  /\ writing = 0
  /\ others < MaxOthers
  /\ others' = others + 1
  /\ journal' = Retain(journal, version)
  /\ UNCHANGED <<plan, storeVars, executionVars>>

ReleaseElsewhere ==
  /\ writing = 0
  /\ others > 0
  /\ others' = others - 1
  /\ journal' = Release(journal, version)
  /\ UNCHANGED <<plan, storeVars, executionVars>>

\* The storage is cleared, then every execution gives its journal reference back.
Reset ==
  /\ writing = 0
  /\ rows' = [k \in Keys |-> NoRow]
  /\ version' = 0
  /\ others' = 0
  /\ journal' = Clear([journal EXCEPT !.refs = @ - others - IF retained THEN 1 ELSE 0],
                      IF others > 0 \/ retained THEN 0 ELSE version)
  /\ Discard
  /\ UNCHANGED <<plan, writing>>

Next ==
  \/ \E k \in Keys : DeleteRow(k) \/ \E r \in Rows : SetRow(k, r)
  \/ Commit
  \/ Acquire
  \/ ReleaseLease
  \/ Notify
  \/ RetainElsewhere
  \/ ReleaseElsewhere
  \/ Reset

Spec == Init /\ [][Next]_vars
-------------------------------------------------------------------------------
(* What the result should be, by its definition over the rows seen. *)

KeysOf(g)    == {k \in Keys : seen[k] \in Matching /\ GroupOf[seen[k]] = g}
ValuesOf(g)  == {ValueOf[seen[k]] : k \in KeysOf(g)}
GroupsSeen   == {g \in GroupKeys : KeysOf(g) # {}}

Aggregates(g) ==
  [key |-> g, count |-> Cardinality(KeysOf(g)), distinct |-> Cardinality(ValuesOf(g)),
   total |-> MapThenSumSet(LAMBDA k : ValueOf[seen[k]], KeysOf(g)), least |-> Min(ValuesOf(g))]

\* The result shows e at place i of those within offset and limit.
Place(e, i) == Cardinality({g \in GroupsSeen : Before(Aggregates(g), e)}) = plan.offset + i - 1

ShownPlaces ==
  {i \in 1..Cardinality(GroupsSeen) :
     /\ plan.offset + i <= Cardinality(GroupsSeen)
     /\ plan.limit # NoLimit => i <= plan.limit}

Leased == refs > 0
-------------------------------------------------------------------------------
(* Properties. *)

\* A leased execution shows exactly the groups of the rows its result was
\* computed for, with their aggregates, in order and within offset and limit,
\* however it was brought up to date: from the journal in place, with a new
\* order, from the rows, or after it fell back (latest,
\* grouped-incremental-execution.ts:821).
ShownIsReference ==
  Leased =>
    /\ evaluation.total = Cardinality(GroupsSeen)
    /\ DOMAIN evaluation.window = ShownPlaces
    /\ \A i \in ShownPlaces :
         /\ evaluation.window[i].key \in GroupsSeen
         /\ evaluation.window[i] = Aggregates(evaluation.window[i].key)
         /\ Place(evaluation.window[i], i)

\* The groups an incremental execution keeps are those of the rows it has
\* seen, with the members, the aggregates and the counted values of each, and
\* they are within the admission limits: undoing and redoing rows leaves
\* nothing behind (applyMaterializedIncrementalGroupedQueryBatch, 514).
GroupsMatchRows ==
  mode = "incremental" =>
    /\ DOMAIN groups = GroupsSeen
    /\ Cardinality(GroupsSeen) <= MaxGroups
    /\ CountsOnly => \A g \in GroupsSeen : groups[g] = Cardinality(KeysOf(g))
    /\ ~CountsOnly =>
         /\ members = Cardinality(UNION {KeysOf(g) : g \in GroupsSeen})
         /\ members <= MaxMembers
         /\ members * RetainedAggregates <= MaxRetainedValues
         /\ \A g \in GroupsSeen :
              /\ groups[g].members = [k \in KeysOf(g) |-> seen[k]]
              /\ Finalized(groups, g) = Aggregates(g)
              /\ \A v \in Amounts :
                   groups[g].values[v] = Cardinality({k \in KeysOf(g) : ValueOf[seen[k]] = v})

\* The journal is kept for exactly the executions that use it: one reference
\* for an incremental one, returned once, whether it falls back, loses its
\* last lease or is reset (releaseRetainedChanges, active-materialized-query.ts:88).
JournalReferences ==
  /\ retained <=> mode = "incremental"
  /\ journal.refs = others + (IF retained THEN 1 ELSE 0)
===============================================================================
