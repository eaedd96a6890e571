--------------------------- MODULE RowChangeJournal ---------------------------
(***************************************************************************)
(* The bounded journal of row changes from which live queries bring their  *)
(* results up to date.  A journal is a record; the operators below are the *)
(* methods of TopicRowChangeJournal as functions of it.                    *)
(***************************************************************************)
EXTENDS Naturals, Sequences, SequencesExt

CONSTANTS
  MaxEntries,   \* changes the journal keeps, 65536 by default
  MaxVersions   \* versions the journal keeps, 1024 by default

ASSUME LimitAssumption == MaxEntries \in Nat \ {0} /\ MaxVersions \in Nat \ {0}

\* A change that is not there: the row did not exist, or does no longer.
NoRow == 0

EmptyJournal == [pending |-> <<>>, overflowed |-> FALSE, batches |-> <<>>,
                 count |-> 0, invalidBefore |-> 0, refs |-> 0]

\* The number of changes in a sequence of batches.
Changes(batches) ==
  FoldLeft(LAMBDA n, batch : n + Len(batch.changes), 0, batches)

Clear(j, version) ==
  [j EXCEPT !.pending = <<>>, !.overflowed = FALSE, !.batches = <<>>,
            !.count = 0, !.invalidBefore = version]

\* MUTANT of Record: changes beyond the limit are dropped, nothing is invalidated.
RecordDropping(j, change, version) ==
  IF j.refs = 0 \/ Len(j.pending) = MaxEntries
  THEN j
  ELSE [j EXCEPT !.pending = Append(@, change)]

\* The first change beyond the limit invalidates all versions before the one being
\* written, whose further changes are then ignored.
Record(j, change, version) ==
  IF j.refs = 0 \/ j.overflowed THEN j
  ELSE IF Len(j.pending) + 1 > MaxEntries
  THEN [Clear(j, version + 1) EXCEPT !.overflowed = TRUE]
  ELSE [j EXCEPT !.pending = Append(@, change)]

\* The oldest versions go first; too many changes and all of them go.
Trim(j, version) ==
  LET surplus == IF Len(j.batches) > MaxVersions THEN Len(j.batches) - MaxVersions ELSE 0
      count   == j.count - Changes(SubSeq(j.batches, 1, surplus))
  IN  IF count > MaxEntries
      THEN Clear(j, version)
      ELSE [j EXCEPT !.batches = SubSeq(@, surplus + 1, Len(@)), !.count = count]

CommitJournal(j, version) ==
  IF j.refs = 0 THEN j
  ELSE IF j.overflowed
  THEN [j EXCEPT !.pending = <<>>, !.overflowed = FALSE]
  ELSE Trim([j EXCEPT !.batches = Append(@, [changes |-> j.pending, version |-> version]),
                      !.pending = <<>>,
                      !.count   = @ + Len(j.pending)],
            version)

Retain(j, version) ==
  LET k == [j EXCEPT !.refs = @ + 1]
  IN  IF k.refs = 1 THEN Clear(k, version) ELSE k

Release(j, version) ==
  LET k == [j EXCEPT !.refs = IF @ = 0 THEN 0 ELSE @ - 1]
  IN  IF k.refs = 0 THEN Clear(k, version) ELSE k

\* Can a result of version v be brought to the current version?
Covers(j, v, current) ==
  \/ v = current
  \/ /\ j.refs # 0
     /\ v < current
     /\ v >= j.invalidBefore
     /\ j.batches # <<>>
     /\ v + 1 >= j.batches[1].version

\* The changes that do it, when Covers says so, oldest first.
ChangesSince(j, v) ==
  FlattenSeq([i \in 1..Len(j.batches) |->
                IF j.batches[i].version > v THEN j.batches[i].changes ELSE <<>>])
===============================================================================
