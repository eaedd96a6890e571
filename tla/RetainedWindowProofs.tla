-------------------------- MODULE RetainedWindowProofs ------------------------
(***************************************************************************)
(* What the row change journal offers is enough: for any rows, limits and   *)
(* numbers of executions, the changes since a version that it says it       *)
(* covers lead from the rows of that version to the committed ones.         *)
(*                                                                         *)
(* What an execution makes of them is right: the window it retains starts   *)
(* the full result on those rows, enough of it for every lease, whatever    *)
(* sequence of changes, leases and resets led to it.                        *)
(***************************************************************************)
EXTENDS RetainedWindow, RowChangeJournalProofs

\* What a row is in a version: a row, or nothing.
Contents == [Keys -> Rows \union {NoRow}]

Change == [key : Keys, previous : Rows \union {NoRow}, next : Rows \union {NoRow}]
-------------------------------------------------------------------------------
\* The sequences that FlattenSeq joins, one after the other.
LEMMA FlattenSteps ==
  ASSUME NEW T, NEW s \in Seq(Seq(T)), s # <<>>
  PROVE  \E f : /\ f \in [1..Len(s) -> Seq(T)]
                /\ f[1] = s[1]
                /\ \A i \in 2..Len(s) : f[i] = f[i - 1] \o s[i]
                /\ FlattenSeq(s) = f[Len(s)]
<1> DEFINE Is(n, f) == f = [i \in 1..n |-> IF i = 1 THEN s[i] ELSE f[i - 1] \o s[i]]
           Bad      == {n \in 1..Len(s) : ~ \E f \in [1..n -> Seq(T)] : Is(n, f)}
<1>1. Len(s) \in Nat /\ Len(s) >= 1 /\ \A i \in 1..Len(s) : s[i] \in Seq(T)
  OBVIOUS
<1>2. 1 \notin Bad
  <2> DEFINE g == [i \in 1..1 |-> s[1]]
  <2>1. g \in [1..1 -> Seq(T)]
    BY <1>1
  <2>2. Is(1, g)
    OBVIOUS
  <2> QED
    BY <2>1, <2>2
<1>3. ASSUME NEW n \in 1..Len(s), n # 1, (n - 1) \notin Bad PROVE n \notin Bad
  <2>1. n - 1 \in 1..Len(s)
    BY <1>1, <1>3
  <2>2. PICK f \in [1..(n - 1) -> Seq(T)] : Is(n - 1, f)
    BY <1>3, <2>1
  <2> DEFINE g == [i \in 1..n |-> IF i < n THEN f[i] ELSE f[n - 1] \o s[n]]
  <2>3. \A i \in 1..(n - 1) : f[i] = IF i = 1 THEN s[i] ELSE f[i - 1] \o s[i]
    BY <2>2, Zenon
  <2>4. \A i \in 1..n : g[i] \in Seq(T)
    BY <1>1, <1>3, <2>1
  <2>5. g \in [1..n -> Seq(T)]
    BY <2>4
  <2>6. ASSUME NEW i \in 1..n PROVE g[i] = IF i = 1 THEN s[i] ELSE g[i - 1] \o s[i]
    <3>1. CASE i < n
      <4>1. g[i] = f[i] /\ i \in 1..(n - 1) /\ (i # 1 => g[i - 1] = f[i - 1])
        BY <3>1, <1>1
      <4> QED
        BY <4>1, <2>3
    <3>2. CASE i = n
      <4>1. i # 1 /\ ~ (i < n) /\ i - 1 < n /\ i - 1 \in 1..n
        BY <3>2, <1>1, <1>3
      <4>2. g[i] = f[n - 1] \o s[n] /\ g[i - 1] = f[i - 1]
        BY <4>1
      <4> QED
        BY <4>1, <4>2, <3>2
    <3> QED
      BY <3>1, <3>2, <1>1
  <2>7. Is(n, g)
    BY <2>6
  <2> QED
    BY <2>5, <2>7
<1>4. Bad = {}
  <2> HIDE DEF Bad
  <2>1. SUFFICES ASSUME Bad # {} PROVE FALSE
    OBVIOUS
  <2>2. Bad \subseteq 1..Len(s)
    BY DEF Bad
  <2>3. Bad \subseteq Nat
    BY <2>2, <1>1
  <2>a. PICK n \in Bad : \A m \in Bad : n <= m
    BY <2>1, <2>3, LeastNumber, Zenon
  <2>4. n \in 1..Len(s) /\ n # 1 /\ (n - 1) \notin Bad
    BY <2>2, <2>a, <1>1, <1>2
  <2> QED
    BY <2>4, <2>a, <1>3
<1>5. \E f : Is(Len(s), f)
  <2>1. Len(s) \notin Bad
    BY <1>4, Zenon
  <2>2. Len(s) \in 1..Len(s)
    BY <1>1
  <2> QED
    BY <2>1, <2>2
<1> HIDE DEF Bad
<1> DEFINE c == CHOOSE f : Is(Len(s), f)
<1>6. Is(Len(s), c)
  BY <1>5, Zenon
<1>7. FlattenSeq(s) = c[Len(s)]
  <2>1. ~ (Len(s) = 0)
    BY <1>1
  <2> QED
    BY <2>1, Zenon DEF FlattenSeq
<1> HIDE DEF c
<1>8. \A i \in 1..Len(s) : c[i] = IF i = 1 THEN s[i] ELSE c[i - 1] \o s[i]
  BY <1>6, Zenon
<1>9. c \in [1..Len(s) -> Seq(T)]
  <2> DEFINE Out == {i \in 1..Len(s) : c[i] \notin Seq(T)}
  <2>1. Out = {}
    <3>1. SUFFICES ASSUME Out # {} PROVE FALSE
      OBVIOUS
    <3>2. Out \subseteq Nat
      BY <1>1
    <3>3. PICK n \in Out : \A m \in Out : n <= m
      BY <3>1, <3>2, LeastNumber, Zenon
    <3>4. n \in 1..Len(s) /\ (n # 1 => n - 1 \in 1..Len(s) /\ n - 1 \notin Out)
      BY <3>3, <1>1
    <3>5. c[n] = IF n = 1 THEN s[n] ELSE c[n - 1] \o s[n]
      BY <3>4, <1>8, Zenon
    <3>6. s[n] \in Seq(T) /\ (n # 1 => c[n - 1] \in Seq(T))
      BY <3>4, <1>1
    <3>7. c[n] \in Seq(T)
      BY <3>5, <3>6, ConcatProperties
    <3> QED
      BY <3>7, <3>3
  <2>2. DOMAIN c = 1..Len(s) /\ c = [i \in 1..Len(s) |-> c[i]]
    BY <1>6
  <2> QED
    BY <2>1, <2>2
<1>10. c[1] = s[1]
  BY <1>8, <1>1
<1>11. ASSUME NEW i \in 2..Len(s) PROVE c[i] = c[i - 1] \o s[i]
  <2>1. i \in 1..Len(s) /\ i # 1
    OBVIOUS
  <2> QED
    BY <2>1, <1>8, Zenon
<1> QED
  BY <1>7, <1>9, <1>10, <1>11
-------------------------------------------------------------------------------
(* Replaying changes. *)

\* No changes lead from rows to the same rows.
LEMMA NothingReplays ==
  ASSUME NEW a PROVE Replays(a, <<>>, a)
BY DEF Replays, RowAfter

\* More changes later say nothing about the row of a key before them.
LEMMA RowAfterFirst ==
  ASSUME NEW a, NEW s \in Seq(Change), NEW t \in Seq(Change),
         NEW i \in 0..Len(s), NEW k, NEW r, RowAfter(a, s, i, k, r)
  PROVE  RowAfter(a, s \o t, i, k, r)
<1>1. \A j \in 1..i : (s \o t)[j] = s[j]
  BY ConcatProperties, LenProperties
<1>2. \A j \in 1..i : (j + 1)..i \subseteq 1..i
  OBVIOUS
<1> QED
  BY <1>1, <1>2 DEF RowAfter

\* The row of a key after the changes of s, and some of t, is what the rows between
\* them and t say.
LEMMA RowAfterSecond ==
  ASSUME NEW a, NEW s \in Seq(Change), NEW b, NEW t \in Seq(Change),
         NEW i \in 0..Len(t), NEW k \in Keys, NEW r,
         RowAfter(a, s, Len(s), k, b[k]), RowAfter(b, t, i, k, r)
  PROVE  RowAfter(a, s \o t, Len(s) + i, k, r)
<1> DEFINE n == Len(s)
           u == s \o t
<1>1. n \in Nat /\ Len(t) \in Nat /\ i \in Nat
  BY LenProperties
<1>2. \A j \in 1..n : u[j] = s[j]
  BY ConcatProperties, <1>1
<1>3. \A j \in 1..i : u[n + j] = t[j]
  BY ConcatProperties, <1>1
<1>4. \A j \in 1..(n + i) : j \in 1..n \/ \E m \in 1..i : j = n + m
  <2>1. \A j \in 1..(n + i) : ~ (j \in 1..n) => j - n \in 1..i /\ j = n + (j - n)
    BY <1>1
  <2> QED
    BY <2>1
<1> HIDE DEF n, u
<1>5. CASE \E j \in 1..i : t[j].key = k /\ t[j].next = r /\ \A l \in (j + 1)..i : t[l].key # k
  <2>1. PICK j \in 1..i : t[j].key = k /\ t[j].next = r /\ \A l \in (j + 1)..i : t[l].key # k
    BY <1>5
  <2>2. n + j \in 1..(n + i) /\ u[n + j].key = k /\ u[n + j].next = r
    BY <2>1, <1>1, <1>3, SMTT(30)
  <2>3. ASSUME NEW l \in (n + j + 1)..(n + i) PROVE u[l].key # k
    <3>1. l - n \in (j + 1)..i /\ l - n \in 1..i /\ l = n + (l - n)
      BY <1>1
    <3> QED
      BY <3>1, <2>1, <1>3
  <2> QED
    BY <2>2, <2>3 DEF RowAfter, n, u
<1>6. CASE b[k] = r /\ \A j \in 1..i : t[j].key # k
  <2>1. \A j \in 1..i : u[n + j].key # k
    BY <1>3, <1>6
  <2>2. CASE a[k] = b[k] /\ \A j \in 1..n : s[j].key # k
    <3>1. \A j \in 1..(n + i) : u[j].key # k
      BY <2>1, <2>2, <1>2, <1>4
    <3> QED
      BY <3>1, <2>2, <1>6 DEF RowAfter, n, u
  <2>3. CASE \E j \in 1..n : s[j].key = k /\ s[j].next = b[k] /\ \A l \in (j + 1)..n : s[l].key # k
    <3>1. PICK j \in 1..n : s[j].key = k /\ s[j].next = b[k] /\ \A l \in (j + 1)..n : s[l].key # k
      BY <2>3
    <3>2. j \in 1..(n + i) /\ u[j].key = k /\ u[j].next = r
      BY <3>1, <1>1, <1>2, <1>6
    <3>3. ASSUME NEW l \in (j + 1)..(n + i) PROVE u[l].key # k
      <4>1. l \in 1..(n + i)
        BY <1>1
      <4>2. CASE l \in 1..n
        <5>1. l \in (j + 1)..n
          BY <4>2
        <5> QED
          BY <5>1, <4>2, <3>1, <1>2
      <4>3. CASE \E m \in 1..i : l = n + m
        BY <4>3, <2>1
      <4> QED
        BY <4>1, <4>2, <4>3, <1>4
    <3> QED
      BY <3>2, <3>3 DEF RowAfter, n, u
  <2> QED
    BY <2>2, <2>3 DEF RowAfter, n
<1> QED
  BY <1>5, <1>6 DEF RowAfter

\* Changes that lead from one version to the next, and then to a third.
LEMMA ReplaysInTurn ==
  ASSUME NEW a, NEW b, NEW c, NEW s \in Seq(Change), NEW t \in Seq(Change),
         Replays(a, s, b), Replays(b, t, c)
  PROVE  Replays(a, s \o t, c)
<1>1. Len(s) \in Nat /\ Len(t) \in Nat /\ Len(s \o t) = Len(s) + Len(t)
  BY ConcatProperties, LenProperties
<1>2. ASSUME NEW i \in 1..Len(s)
      PROVE  RowAfter(a, s \o t, i - 1, (s \o t)[i].key, (s \o t)[i].previous)
  <2>1. (s \o t)[i] = s[i] /\ i - 1 \in 0..Len(s)
    BY <1>1, ConcatProperties
  <2>2. RowAfter(a, s, i - 1, s[i].key, s[i].previous)
    BY DEF Replays
  <2> QED
    BY <2>1, <2>2, RowAfterFirst
<1>3. ASSUME NEW i \in 1..Len(t)
      PROVE  RowAfter(a, s \o t, Len(s) + i - 1, (s \o t)[Len(s) + i].key, (s \o t)[Len(s) + i].previous)
  <2>1. (s \o t)[Len(s) + i] = t[i] /\ i - 1 \in 0..Len(t) /\ Len(s) + i - 1 = Len(s) + (i - 1)
    BY <1>1, ConcatProperties
  <2>2. RowAfter(b, t, i - 1, t[i].key, t[i].previous)
    BY DEF Replays
  <2>3. t[i].key \in Keys
    <3>1. t[i] \in Change
      BY ElementOfSeq
    <3> QED
      BY <3>1 DEF Change
  <2>4. RowAfter(a, s, Len(s), t[i].key, b[t[i].key])
    BY <2>3 DEF Replays
  <2>5. RowAfter(a, s \o t, Len(s) + (i - 1), t[i].key, t[i].previous)
    BY <2>1, <2>2, <2>3, <2>4, RowAfterSecond
  <2> QED
    BY <2>1, <2>5
<1>4. ASSUME NEW i \in 1..Len(s \o t)
      PROVE  RowAfter(a, s \o t, i - 1, (s \o t)[i].key, (s \o t)[i].previous)
  <2>1. CASE i <= Len(s)
    BY <2>1, <1>1, <1>2
  <2>2. CASE i > Len(s)
    <3>1. i - Len(s) \in 1..Len(t) /\ Len(s) + (i - Len(s)) = i /\ Len(s) + (i - Len(s)) - 1 = i - 1
      BY <2>2, <1>1
    <3> QED
      BY <3>1, <1>3
  <2> QED
    BY <2>1, <2>2, <1>1
<1>5. ASSUME NEW k \in Keys PROVE RowAfter(a, s \o t, Len(s \o t), k, c[k])
  <2>1. RowAfter(a, s, Len(s), k, b[k]) /\ RowAfter(b, t, Len(t), k, c[k])
    BY DEF Replays
  <2>2. Len(t) \in 0..Len(t)
    BY <1>1
  <2> QED
    BY <2>1, <2>2, <1>1, RowAfterSecond
<1> QED
  BY <1>4, <1>5 DEF Replays

\* One more change, of a row that is stored.
LEMMA OneMoreReplays ==
  ASSUME NEW a, NEW b \in Contents, NEW s \in Seq(Change), NEW k \in Keys, NEW r \in Rows \union {NoRow},
         Replays(a, s, b)
  PROVE  LET c == [key |-> k, previous |-> b[k], next |-> r]
         IN  c \in Change /\ Replays(a, Append(s, c), [b EXCEPT ![k] = r])
<1> DEFINE c == [key |-> k, previous |-> b[k], next |-> r]
           d == [b EXCEPT ![k] = r]
<1>1. c \in Change
  BY DEF Change, Contents
<1>2. c.key = k /\ c.previous = b[k] /\ c.next = r
  OBVIOUS
<1>3. \A l \in Keys : d[l] = IF l = k THEN r ELSE b[l]
  BY DEF Contents
<1> HIDE DEF c, d
<1>4. Replays(b, <<c>>, d)
  <2>1. Len(<<c>>) = 1 /\ <<c>>[1] = c
    OBVIOUS
  <2>2. RowAfter(b, <<c>>, 0, c.key, c.previous)
    BY <1>2 DEF RowAfter
  <2>3. ASSUME NEW l \in Keys PROVE RowAfter(b, <<c>>, 1, l, d[l])
    BY <1>2, <1>3 DEF RowAfter
  <2> QED
    BY <2>1, <2>2, <2>3 DEF Replays
<1>5. <<c>> \in Seq(Change) /\ Append(s, c) = s \o <<c>>
  BY <1>1, AppendIsConcat
<1>6. Replays(a, s \o <<c>>, d)
  BY <1>4, <1>5, ReplaysInTurn
<1> QED
  BY <1>1, <1>5, <1>6 DEF c, d
-------------------------------------------------------------------------------
(* The invariant of the journal and its history. *)

\* A journal that nobody needs, or that has overflowed, is empty.
EmptyWhenUnused ==
  /\ journal.refs = 0 => ~journal.overflowed
  /\ journal.refs = 0 \/ journal.overflowed => journal.pending = <<>> /\ journal.batches = <<>>

\* Its batches lead, version by version, to the committed one.
BatchesReplay(j, v, history) ==
  /\ Len(j.batches) <= MaxVersions
  /\ \A i \in 1..Len(j.batches) :
       LET b == j.batches[i]
       IN  /\ b.version = v - Len(j.batches) + i
           /\ b.version - 1 \in DOMAIN history
           /\ b.version \in DOMAIN history
           /\ Replays(history[b.version - 1], b.changes, history[b.version])

\* The changes of the mutation in progress lead from there to what is stored.
PendingReplays ==
  journal.refs # 0 /\ ~journal.overflowed => Replays(past[version], journal.pending, rows)

\* With no mutation in progress, the committed rows are stored.
CommittedWhenIdle == writing = 0 => rows = past[version]

JournalTypeOK ==
  /\ rows \in Contents
  /\ version \in Nat
  /\ writing \in Nat
  /\ DOMAIN past \subseteq Nat
  /\ version \in DOMAIN past
  /\ past[version] \in Contents
  /\ IsJournal(journal, Change)

\* The invariant of the journal.
JournalInv ==
  /\ JournalTypeOK
  /\ EmptyWhenUnused
  /\ BatchesReplay(journal, version, past)
  /\ PendingReplays
  /\ CommittedWhenIdle
-------------------------------------------------------------------------------
(* The invariant holds. *)

\* Without batches there is nothing to replay.
LEMMA NoBatchesReplay ==
  ASSUME NEW j, j.batches = <<>>, NEW v, NEW history
  PROVE  BatchesReplay(j, v, history)
BY LimitAssumption DEF BatchesReplay

\* Nothing has happened at the start.
LEMMA InitJournalInv == Init => JournalInv
<1> SUFFICES ASSUME Init PROVE JournalInv
  OBVIOUS
<1>1. /\ rows = NoRows /\ version = 0 /\ writing = 0 /\ past = FirstVersion
      /\ journal = EmptyJournal
  BY DEF Init
<1>2. NoRows \in Contents
  BY DEF NoRows, Contents
<1>3. DOMAIN past = {0} /\ past[0] = NoRows
  BY <1>1 DEF FirstVersion
<1>4. /\ DOMAIN journal = JournalFields /\ journal = [f \in JournalFields |-> journal[f]]
      /\ journal.pending = <<>> /\ journal.batches = <<>> /\ journal.overflowed = FALSE
      /\ journal.refs = 0
  BY <1>1 DEF EmptyJournal, JournalFields
<1>5. IsJournal(journal, Change)
  <2>1. \A k : /\ DOMAIN k = JournalFields /\ k = [f \in JournalFields |-> k[f]]
              /\ k.pending = <<>> /\ k.batches = <<>> /\ k.overflowed = FALSE
              /\ k.refs = 0
              => IsJournal(k, Change)
    <3>1. <<>> \in Seq(Change) /\ <<>> \in Seq(BatchOf(Change)) /\ FALSE \in BOOLEAN /\ 0 \in Nat
      BY EmptySeq
    <3> QED
      BY <3>1, Zenon DEF IsJournal
  <2> QED
    BY <1>4, <2>1, Zenon
<1>6. JournalTypeOK
  BY <1>1, <1>2, <1>3, <1>5 DEF JournalTypeOK
<1> QED
  BY <1>1, <1>3, <1>4, <1>6, NoBatchesReplay
     DEF JournalInv, EmptyWhenUnused, PendingReplays, CommittedWhenIdle

\* One row of a mutation.
LEMMA StoreKeepsJournal ==
  ASSUME JournalInv, NEW k \in Keys, NEW r \in Rows \union {NoRow}, Store(k, r), writing' \in Nat \ {0}
  PROVE  JournalInv'
<1> DEFINE c == [key |-> k, previous |-> rows[k], next |-> r]
           l == Record(journal, c, version)
<1>1. /\ rows' = [rows EXCEPT ![k] = r] /\ journal' = l
      /\ version' = version /\ past' = past
  BY DEF Store
<1>2. /\ rows \in Contents /\ version \in Nat /\ DOMAIN past \subseteq Nat /\ version \in DOMAIN past
      /\ past[version] \in Contents /\ IsJournal(journal, Change)
  BY DEF JournalInv, JournalTypeOK
<1>3. rows' \in Contents
  BY <1>1, <1>2 DEF Contents
<1>4. c \in Change
  BY <1>2 DEF Change, Contents
<1>5. /\ IsJournal(l, Change) /\ l.refs = journal.refs
      /\ \/ l = journal /\ (journal.refs = 0 \/ journal.overflowed)
         \/ journal.refs # 0 /\ l.overflowed /\ l.pending = <<>> /\ l.batches = <<>>
         \/ /\ journal.refs # 0 /\ ~journal.overflowed /\ ~l.overflowed
            /\ l.pending = Append(journal.pending, c) /\ l.batches = journal.batches
  BY <1>2, <1>4, RecordCases
<1>6. journal.pending \in Seq(Change)
  BY <1>2 DEF IsJournal
<1>7. Replays(past[version], journal.pending, rows) =>
        Replays(past[version], Append(journal.pending, c), [rows EXCEPT ![k] = r])
  BY <1>2, <1>6, OneMoreReplays
<1> HIDE DEF c, l
<1>8. JournalTypeOK'
  BY <1>1, <1>2, <1>3, <1>5 DEF JournalTypeOK
<1>9. EmptyWhenUnused'
  BY <1>1, <1>5 DEF JournalInv, EmptyWhenUnused
<1>10. BatchesReplay(journal', version', past')
  <2>1. BatchesReplay(journal, version, past)
    BY DEF JournalInv
  <2>2. CASE l.batches = <<>>
    BY <2>2, <1>1, NoBatchesReplay
  <2>3. CASE l.batches = journal.batches
    BY <2>1, <2>3, <1>1 DEF BatchesReplay
  <2> QED
    BY <2>2, <2>3, <1>5
<1>11. PendingReplays'
  BY <1>1, <1>5, <1>7 DEF JournalInv, PendingReplays
<1>12. CommittedWhenIdle'
  BY DEF CommittedWhenIdle
<1> QED
  BY <1>8, <1>9, <1>10, <1>11, <1>12 DEF JournalInv

\* What a commit leaves of the history.
LEMMA CommittedHistory ==
  ASSUME JournalInv, Commit
  PROVE  /\ DOMAIN past' \subseteq Nat
         /\ version' = version + 1 /\ version' \in DOMAIN past' /\ past'[version'] = rows
         /\ journal.refs # 0 =>
              \A u \in DOMAIN past : u + MaxVersions > version /\ u # version + 1 =>
                u \in DOMAIN past' /\ past'[u] = past[u]
<1>1. /\ version' = version + 1
      /\ past' = [v \in {version + 1} \union KeptVersions |->
                    IF v = version + 1 THEN rows ELSE past[v]]
  BY DEF Commit
<1>2. version \in Nat /\ DOMAIN past \subseteq Nat
  BY DEF JournalInv, JournalTypeOK
<1>3. /\ KeptVersions \subseteq Nat
      /\ journal.refs # 0 => \A u \in DOMAIN past : u + MaxVersions > version => u \in KeptVersions
  BY <1>2 DEF KeptVersions
<1> QED
  BY <1>1, <1>2, <1>3

\* A commit turns what is pending into the newest batch.
LEMMA CommitKeepsJournal ==
  ASSUME JournalInv, Commit
  PROVE  JournalInv'
<1> DEFINE l == CommitJournal(journal, version + 1)
           n == Len(journal.batches)
           p == [changes |-> journal.pending, version |-> version + 1]
<1>1. rows' = rows /\ journal' = l /\ writing' = 0 /\ version' = version + 1
  BY DEF Commit
<1>2. /\ rows \in Contents /\ version \in Nat /\ DOMAIN past \subseteq Nat /\ version \in DOMAIN past
      /\ past[version] \in Contents /\ IsJournal(journal, Change)
  BY DEF JournalInv, JournalTypeOK
<1>3. /\ DOMAIN past' \subseteq Nat /\ version' \in DOMAIN past' /\ past'[version'] = rows
      /\ journal.refs # 0 =>
           \A u \in DOMAIN past : u + MaxVersions > version /\ u # version + 1 =>
             u \in DOMAIN past' /\ past'[u] = past[u]
  BY CommittedHistory
<1>4. /\ IsJournal(l, Change) /\ l.refs = journal.refs
      /\ \/ journal.refs = 0 /\ l = journal
         \/ /\ journal.refs # 0 /\ journal.overflowed /\ ~l.overflowed
            /\ l.pending = <<>> /\ l.batches = journal.batches
         \/ journal.refs # 0 /\ ~l.overflowed /\ l.pending = <<>> /\ l.batches = <<>>
         \/ /\ journal.refs # 0 /\ ~journal.overflowed /\ ~l.overflowed /\ l.pending = <<>>
            /\ \E d \in 0..(n + 1) :
                 /\ Len(l.batches) = n + 1 - d /\ n + 1 - d <= MaxVersions
                 /\ \A i \in 1..(n + 1 - d) :
                      l.batches[i] = IF d + i <= n THEN journal.batches[d + i] ELSE p
  <2>1. version + 1 \in Nat
    BY <1>2
  <2>2. IsJournal(journal, Change)
    BY <1>2
  <2> HIDE DEF l
  <2> QED
    BY <2>1, <2>2, CommitCases DEF l, Committed
<1>5. EmptyWhenUnused /\ BatchesReplay(journal, version, past) /\ PendingReplays
  BY DEF JournalInv
<1>6. n \in Nat
  BY <1>2, LenProperties DEF IsJournal
<1>7. p.changes = journal.pending /\ p.version = version + 1
  OBVIOUS
<1> HIDE DEF l, n, p
<1>8. JournalTypeOK'
  BY <1>1, <1>2, <1>3, <1>4 DEF JournalTypeOK
<1>9. EmptyWhenUnused'
  BY <1>1, <1>4, <1>5 DEF EmptyWhenUnused
<1>10. PendingReplays'
  <2>1. CASE l.refs # 0
    <3>1. l.pending = <<>>
      BY <2>1, <1>4
    <3> QED
      BY <3>1, <1>1, <1>3, NothingReplays DEF PendingReplays
  <2>2. CASE l.refs = 0
    BY <2>2, <1>1 DEF PendingReplays
  <2> QED
    BY <2>1, <2>2
<1>11. CommittedWhenIdle'
  BY <1>1, <1>3 DEF CommittedWhenIdle
<1>12. BatchesReplay(journal', version', past')
  <2>1. CASE l.batches = <<>>
    BY <2>1, <1>1, NoBatchesReplay
  <2>2. CASE l.batches # <<>>
    <3>1. journal.refs # 0 /\ ~journal.overflowed
      BY <2>2, <1>4, <1>5 DEF EmptyWhenUnused
    <3>2. PICK d \in 0..(n + 1) :
                 /\ Len(l.batches) = n + 1 - d /\ n + 1 - d <= MaxVersions
                 /\ \A i \in 1..(n + 1 - d) :
                      l.batches[i] = IF d + i <= n THEN journal.batches[d + i] ELSE p
      BY <2>2, <3>1, <1>4
    <3>3. ASSUME NEW i \in 1..(n + 1 - d)
          PROVE  LET b == l.batches[i]
                 IN  /\ b.version = version + 1 - (n + 1 - d) + i
                     /\ b.version - 1 \in DOMAIN past'
                     /\ b.version \in DOMAIN past'
                     /\ Replays(past'[b.version - 1], b.changes, past'[b.version])
      <4> DEFINE b == l.batches[i]
      <4>1. CASE d + i <= n
        <5>1. b = journal.batches[d + i] /\ d + i \in 1..n
          BY <4>1, <3>2, <1>6
        <5>2. /\ b.version = version - n + (d + i)
              /\ b.version - 1 \in DOMAIN past
              /\ b.version \in DOMAIN past
              /\ Replays(past[b.version - 1], b.changes, past[b.version])
          BY <5>1, <1>5 DEF BatchesReplay, n
        <5> HIDE DEF b
        <5>3. /\ b.version - 1 + MaxVersions > version /\ b.version - 1 # version + 1
              /\ b.version + MaxVersions > version /\ b.version # version + 1
          BY <5>2, <3>2, <4>1, <1>6, <1>2, LimitAssumption
        <5>4. /\ b.version - 1 \in DOMAIN past' /\ past'[b.version - 1] = past[b.version - 1]
              /\ b.version \in DOMAIN past' /\ past'[b.version] = past[b.version]
          BY <5>2, <5>3, <3>1, <1>3
        <5>5. b.version = version + 1 - (n + 1 - d) + i
          BY <5>2, <1>2, <1>6
        <5> QED
          BY <5>2, <5>4, <5>5 DEF b
      <4>2. CASE ~(d + i <= n)
        <5>1. b = p /\ d + i = n + 1
          BY <4>2, <3>2, <1>6
        <5> HIDE DEF b
        <5>2. b.version = version + 1 /\ b.changes = journal.pending
          BY <5>1, <1>7
        <5>3. /\ b.version - 1 = version /\ version + MaxVersions > version /\ version # version + 1
              /\ b.version = version + 1 - (n + 1 - d) + i
          BY <5>1, <5>2, <1>2, <1>6, LimitAssumption
        <5>4. version \in DOMAIN past' /\ past'[version] = past[version]
          BY <5>3, <3>1, <1>2, <1>3
        <5>5. Replays(past[version], journal.pending, rows)
          BY <3>1, <1>5 DEF PendingReplays
        <5> QED
          BY <5>2, <5>3, <5>4, <5>5, <1>1, <1>3 DEF b
      <4> QED
        BY <4>1, <4>2
    <3> QED
      <4>1. Len(journal'.batches) = n + 1 - d /\ n + 1 - d <= MaxVersions /\ version' = version + 1
        BY <3>2, <1>1
      <4>2. \A i \in 1..Len(journal'.batches) :
              LET b == journal'.batches[i]
              IN  /\ b.version = version' - Len(journal'.batches) + i
                  /\ b.version - 1 \in DOMAIN past'
                  /\ b.version \in DOMAIN past'
                  /\ Replays(past'[b.version - 1], b.changes, past'[b.version])
        <5>1. version' - Len(journal'.batches) = version + 1 - (n + 1 - d)
          BY <4>1, <1>2, <1>6
        <5>2. journal'.batches = l.batches /\ 1..Len(journal'.batches) = 1..(n + 1 - d)
          BY <4>1, <1>1
        <5> QED
          BY <3>3, <5>1, <5>2
      <4> QED
        BY <4>1, <4>2 DEF BatchesReplay
  <2> QED
    BY <2>1, <2>2
<1> QED
  BY <1>8, <1>9, <1>10, <1>11, <1>12 DEF JournalInv

\* References come and go when no mutation is in progress.
LEMMA ReferencesKeepJournal ==
  ASSUME JournalInv, writing = 0,
         \/ journal' = Retain(journal, version)
         \/ journal' = Release(journal, version)
         \/ journal' = journal,
         UNCHANGED storeVars
  PROVE  JournalInv'
<1>1. rows' = rows /\ version' = version /\ writing' = writing /\ past' = past
  BY DEF storeVars
<1>2. JournalTypeOK /\ EmptyWhenUnused /\ BatchesReplay(journal, version, past) /\ PendingReplays
  BY DEF JournalInv
<1>3. rows = past[version]
  BY DEF JournalInv, CommittedWhenIdle
<1>4. /\ IsJournal(journal', Change)
      /\ \/ journal'.pending = <<>> /\ journal'.batches = <<>> /\ ~journal'.overflowed
         \/ journal' = journal
         \/ /\ journal'.refs # 0 /\ journal.refs # 0
            /\ journal'.pending = journal.pending /\ journal'.batches = journal.batches
            /\ journal'.overflowed = journal.overflowed
  <2>1. IsJournal(journal, Change)
    BY <1>2 DEF JournalTypeOK
  <2>2. CASE journal' = Retain(journal, version)
    <3>1. journal.refs \in Nat
      BY <2>1 DEF IsJournal
    <3> QED
      BY <2>1, <2>2, <3>1, RetainCases
  <2>3. CASE journal' = Release(journal, version)
    BY <2>1, <2>3, ReleaseCases
  <2>4. CASE journal' = journal
    BY <2>1, <2>4
  <2> QED
    BY <2>2, <2>3, <2>4
<1>5. JournalTypeOK'
  BY <1>1, <1>2, <1>4 DEF JournalTypeOK
<1>6. EmptyWhenUnused'
  BY <1>2, <1>4 DEF EmptyWhenUnused
<1>7. BatchesReplay(journal', version', past')
  <2>1. CASE journal'.batches = <<>>
    BY <2>1, NoBatchesReplay
  <2>2. CASE journal'.batches = journal.batches
    BY <2>2, <1>1, <1>2 DEF BatchesReplay
  <2> QED
    BY <2>1, <2>2, <1>4
<1>8. PendingReplays'
  <2>1. CASE journal'.pending = <<>>
    BY <2>1, <1>1, <1>3, NothingReplays DEF PendingReplays
  <2>2. CASE journal' = journal
    BY <2>2, <1>1, <1>2 DEF PendingReplays
  <2>3. CASE /\ journal'.refs # 0 /\ journal.refs # 0
             /\ journal'.pending = journal.pending /\ journal'.overflowed = journal.overflowed
    BY <2>3, <1>1, <1>2 DEF PendingReplays
  <2> QED
    BY <2>1, <2>2, <2>3, <1>4
<1>9. CommittedWhenIdle'
  BY <1>1, <1>3 DEF CommittedWhenIdle
<1> QED
  BY <1>5, <1>6, <1>7, <1>8, <1>9 DEF JournalInv

\* A reset clears the journal and the rows.
LEMMA ResetKeepsJournal ==
  ASSUME JournalInv, Reset
  PROVE  JournalInv'
<1> DEFINE l == [journal EXCEPT !.refs = 0]
<1>1. rows' = NoRows /\ version' = 0 /\ past' = FirstVersion /\ writing' = 0
  BY DEF Reset
<1>2. IsJournal(journal, Change) /\ EmptyWhenUnused
  BY DEF JournalInv, JournalTypeOK
<1>3. IsJournal(l, Change)
  BY <1>2 DEF IsJournal, JournalFields
<1>4. \E k, v : IsJournal(k, Change) /\ journal' = Clear(k, v)
  BY <1>2, <1>3 DEF Reset
<1>5. /\ IsJournal(journal', Change) /\ journal'.pending = <<>> /\ journal'.batches = <<>>
      /\ ~journal'.overflowed
  BY <1>4, ClearEmpties
<1>6. NoRows \in Contents
  BY DEF NoRows, Contents
<1>7. DOMAIN past' = {0} /\ past'[0] = NoRows
  BY <1>1 DEF FirstVersion
<1>8. JournalTypeOK'
  BY <1>1, <1>5, <1>6, <1>7 DEF JournalTypeOK
<1>9. EmptyWhenUnused'
  BY <1>5 DEF EmptyWhenUnused
<1>10. BatchesReplay(journal', version', past')
  BY <1>5, NoBatchesReplay
<1>11. PendingReplays'
  BY <1>1, <1>5, <1>7, NothingReplays DEF PendingReplays
<1>12. CommittedWhenIdle'
  BY <1>1, <1>7 DEF CommittedWhenIdle
<1> QED
  BY <1>8, <1>9, <1>10, <1>11, <1>12 DEF JournalInv

\* Every step keeps the invariant.
LEMMA NextJournalInv == JournalInv /\ [Next]_vars => JournalInv'
<1> SUFFICES ASSUME JournalInv, [Next]_vars PROVE JournalInv'
  OBVIOUS
<1>1. ASSUME NEW k \in Keys, NEW r \in Rows, SetRow(k, r) PROVE JournalInv'
  <2>1. Store(k, r) /\ writing' = writing + 1
    BY <1>1 DEF SetRow
  <2>2. writing \in Nat
    BY DEF JournalInv, JournalTypeOK
  <2> QED
    BY <2>1, <2>2, StoreKeepsJournal
<1>2. ASSUME NEW k \in Keys, DeleteRow(k) PROVE JournalInv'
  <2>1. Store(k, NoRow) /\ writing' = Max({MaxLoad, MaxBatch})
    BY <1>2 DEF DeleteRow
  <2>2. Max({MaxLoad, MaxBatch}) \in Nat \ {0}
    <3>1. MaxLoad \in Nat \ {0} /\ MaxBatch \in Nat
      BY DataAssumption
    <3>2. \E x \in {MaxLoad, MaxBatch} : \A y \in {MaxLoad, MaxBatch} : y <= x
      BY <3>1
    <3> QED
      BY <3>1, <3>2 DEF Max
  <2> QED
    BY <2>1, <2>2, StoreKeepsJournal
<1>3. CASE Commit
  BY <1>3, CommitKeepsJournal
<1>4. ASSUME NEW w \in Windows, Acquire(w) PROVE JournalInv'
  BY <1>4, ReferencesKeepJournal DEF Acquire
<1>5. ASSUME NEW w \in Windows, ReleaseLease(w) PROVE JournalInv'
  BY <1>5, ReferencesKeepJournal DEF ReleaseLease
<1>6. CASE RetainElsewhere
  BY <1>6, ReferencesKeepJournal DEF RetainElsewhere
<1>7. CASE ReleaseElsewhere
  BY <1>7, ReferencesKeepJournal DEF ReleaseElsewhere
<1>8. CASE Reset
  BY <1>8, ResetKeepsJournal
<1>9. ASSUME UNCHANGED <<storeVars, journal>> PROVE JournalInv'
  BY <1>9 DEF storeVars, JournalInv, JournalTypeOK, EmptyWhenUnused, PendingReplays,
              CommittedWhenIdle
<1>10. CASE Notify
  BY <1>9, <1>10 DEF Notify
<1>11. CASE UNCHANGED vars
  BY <1>9, <1>11 DEF vars
<1> QED
  BY <1>1, <1>2, <1>3, <1>4, <1>5, <1>6, <1>7, <1>8, <1>10, <1>11 DEF Next

\* The changes of the batches after version v, joined, lead from there to the committed
\* version: whatever is offered is enough.
LEMMA OfferedReplays == JournalInv => JournalReplays
<1> SUFFICES ASSUME JournalInv, NEW v \in 0..version, Covers(journal, v, version)
             PROVE  v \in DOMAIN past /\ Replays(past[v], ChangesSince(journal, v), past[version])
  BY DEF JournalReplays
<1> DEFINE n == Len(journal.batches)
           b(i) == journal.batches[i]
           s == [i \in 1..n |-> IF b(i).version > v THEN b(i).changes ELSE <<>>]
<1>1. /\ version \in Nat /\ version \in DOMAIN past /\ IsJournal(journal, Change)
      /\ BatchesReplay(journal, version, past)
  BY DEF JournalInv, JournalTypeOK
<1>2. n \in Nat /\ \A i \in 1..n : b(i) \in BatchOf(Change)
  BY <1>1, LenProperties, ElementOfSeq DEF IsJournal
<1>3. ASSUME NEW i \in 1..n
      PROVE  /\ b(i).version = version - n + i
             /\ b(i).version - 1 \in DOMAIN past /\ b(i).version \in DOMAIN past
             /\ Replays(past[b(i).version - 1], b(i).changes, past[b(i).version])
             /\ b(i).changes \in Seq(Change)
  BY <1>1, <1>2 DEF BatchesReplay, BatchOf
<1>4. ChangesSince(journal, v) = FlattenSeq(s)
  BY DEF ChangesSince
<1>5. s \in Seq(Seq(Change)) /\ Len(s) = n
  <2>1. \A i \in 1..n : s[i] \in Seq(Change)
    BY <1>3, EmptySeq
  <2> HIDE DEF b
  <2>2. s \in [1..n -> Seq(Change)]
    BY <2>1
  <2> HIDE DEF s
  <2> QED
    BY <2>2, <1>2
<1>6. CASE n = 0
  <2>1. s = <<>>
    BY <1>5, <1>6, EmptySeq
  <2>2. ChangesSince(journal, v) = <<>>
    BY <2>1, <1>4 DEF FlattenSeq
  <2>3. v = version
    BY <1>1, <1>6 DEF Covers
  <2> QED
    BY <2>2, <2>3, <1>1, NothingReplays
<1>7. CASE n # 0
  <2>1. v <= version /\ v >= version - n /\ v \in Nat
    <3>1. 1 \in 1..n
      BY <1>2, <1>7
    <3>2. v # version => v + 1 >= b(1).version
      BY DEF Covers
    <3>3. b(1).version = version - n + 1
      BY <3>1, <1>3
    <3> HIDE DEF n, b
    <3> QED
      BY <3>2, <3>3, <1>1, <1>2
  <2>2. v \in DOMAIN past
    <3>1. CASE v = version
      BY <3>1, <1>1
    <3>2. CASE v # version
      <4> DEFINE i == v - (version - n) + 1
      <4> HIDE DEF n
      <4>1. i \in 1..n /\ version - n + i - 1 = v
        BY <2>1, <3>2, <1>1, <1>2
      <4> HIDE DEF i, b
      <4>2. b(i).version = version - n + i /\ b(i).version - 1 \in DOMAIN past
        BY <4>1, <1>3
      <4> QED
        BY <4>1, <4>2, <1>1, <1>2
    <3> QED
      BY <3>1, <3>2
  <2> DEFINE at(i) == version - n + i
  <2> HIDE DEF b
  <2>3. ASSUME NEW i \in 1..n
        PROVE  /\ at(i) <= v => s[i] = <<>>
               /\ at(i) > v => /\ s[i] \in Seq(Change)
                               /\ Replays(past[at(i) - 1], s[i], past[at(i)])
    <3>1. /\ b(i).version = at(i) /\ Replays(past[at(i) - 1], b(i).changes, past[at(i)])
          /\ b(i).changes \in Seq(Change)
      <4> HIDE DEF n
      <4> QED
        BY <1>3
    <3>2. s[i] = IF at(i) > v THEN b(i).changes ELSE <<>>
      BY <3>1
    <3>3. at(i) \in Int /\ (at(i) <= v => ~ (at(i) > v))
      <4> HIDE DEF n
      <4> QED
        BY <1>1, <1>2, <2>1
    <3> HIDE DEF s, at
    <3> QED
      BY <3>1, <3>2, <3>3
  <2> HIDE DEF s
  <2>4. s # <<>>
    BY <1>5, <1>7, EmptySeq
  <2>5. PICK f : /\ f \in [1..n -> Seq(Change)]
                 /\ f[1] = s[1]
                 /\ \A i \in 2..n : f[i] = f[i - 1] \o s[i]
                 /\ FlattenSeq(s) = f[n]
    <3> HIDE DEF n
    <3>1. \E f : /\ f \in [1..Len(s) -> Seq(Change)]
                 /\ f[1] = s[1]
                 /\ \A i \in 2..Len(s) : f[i] = f[i - 1] \o s[i]
                 /\ FlattenSeq(s) = f[Len(s)]
      BY <1>5, <2>4, FlattenSteps
    <3> QED
      BY <3>1, <1>5
  <2> DEFINE Good(i) == IF at(i) <= v THEN f[i] = <<>> ELSE Replays(past[v], f[i], past[at(i)])
             Bad     == {i \in 1..n : ~Good(i)}
  <2> HIDE DEF n
  <2>6. ASSUME NEW i \in 1..n, i = 1 \/ (i - 1 \in 1..n /\ Good(i - 1)) PROVE Good(i)
    <3>1. CASE at(i) <= v
      <4>1. s[i] = <<>>
        BY <3>1, <2>3
      <4>2. CASE i = 1
        BY <4>1, <4>2, <2>5, <3>1
      <4>3. CASE i # 1
        <5>1. i \in 2..n /\ i - 1 \in 1..n /\ at(i - 1) <= v
          BY <4>3, <3>1, <1>1, <1>2, <2>1
        <5>2. f[i - 1] = <<>>
          BY <5>1, <4>3, <2>6
        <5>3. f[i] = <<>> \o <<>>
          BY <5>1, <5>2, <4>1, <2>5
        <5> QED
          BY <5>3, <3>1, EmptySeq, ConcatEmptySeq
      <4> QED
        BY <4>2, <4>3
    <3>2. CASE ~(at(i) <= v)
      <4>1. s[i] \in Seq(Change) /\ Replays(past[at(i) - 1], s[i], past[at(i)])
        BY <3>2, <2>3, <2>1, <1>1, <1>2
      <4>2. CASE i = 1
        <5>1. at(i) - 1 = v
          BY <4>2, <3>2, <2>1, <1>1, <1>2
        <5> QED
          BY <5>1, <4>1, <4>2, <2>5, <3>2
      <4>3. CASE i # 1
        <5>1. i \in 2..n /\ i - 1 \in 1..n /\ at(i) - 1 = at(i - 1)
          BY <4>3, <1>1, <1>2
        <5>2. f[i] = f[i - 1] \o s[i] /\ f[i - 1] \in Seq(Change)
          BY <5>1, <2>5
        <5>3. Good(i - 1)
          BY <4>3, <2>6
        <5>4. CASE at(i - 1) <= v
          <6>1. at(i) - 1 = v
            BY <5>1, <5>4, <3>2, <2>1, <1>1, <1>2
          <6>2. f[i] = <<>> \o s[i]
            BY <5>2, <5>3, <5>4
          <6>3. f[i] = s[i]
            BY <6>2, <4>1, ConcatEmptySeq
          <6> QED
            BY <6>1, <6>3, <4>1, <3>2
        <5>5. CASE ~(at(i - 1) <= v)
          <6>1. Replays(past[v], f[i - 1], past[at(i - 1)])
            BY <5>3, <5>5
          <6>2. Replays(past[at(i - 1)], s[i], past[at(i)])
            BY <5>1, <4>1
          <6>3. Replays(past[v], f[i - 1] \o s[i], past[at(i)])
            BY <6>1, <6>2, <5>2, <4>1, ReplaysInTurn
          <6> QED
            BY <6>3, <5>2, <3>2
        <5> QED
          BY <5>4, <5>5
      <4> QED
        BY <4>2, <4>3
    <3> QED
      BY <3>1, <3>2
  <2>7. Bad = {}
    <3> HIDE DEF Good
    <3>1. SUFFICES ASSUME Bad # {} PROVE FALSE
      OBVIOUS
    <3>2. Bad \subseteq Nat
      BY <1>2
    <3>3. PICK i \in Bad : \A m \in Bad : i <= m
      <4> HIDE DEF Bad
      <4> QED
        BY <3>1, <3>2, LeastNumber, Zenon
    <3>4. i \in 1..n /\ (i # 1 => i - 1 \in 1..n /\ i - 1 \notin Bad)
      BY <3>3, <1>2
    <3> QED
      BY <3>3, <3>4, <2>6
  <2>8. n \in 1..n /\ at(n) = version
    BY <1>2, <1>7, <1>1
  <2>9. Good(n)
    <3> HIDE DEF Good
    <3> QED
      BY <2>7, <2>8
  <2>10. CASE v = version
    <3>1. f[n] = <<>>
      BY <2>9, <2>8, <2>10, <2>1
    <3> QED
      BY <3>1, <2>2, <2>5, <2>10, <1>4, NothingReplays
  <2>11. CASE v # version
    <3>1. Replays(past[v], f[n], past[version])
      BY <2>9, <2>8, <2>11, <2>1, <1>1
    <3> QED
      BY <3>1, <2>2, <2>5, <1>4
  <2> QED
    BY <2>10, <2>11
<1> QED
  BY <1>2, <1>6, <1>7

\* The invariant of the journal is inductive.
THEOREM JournalInductive == Spec => []JournalInv
<1>1. Init => JournalInv
  BY InitJournalInv
<1>2. JournalInv /\ [Next]_vars => JournalInv'
  BY NextJournalInv
<1> QED
  BY <1>1, <1>2, PTL DEF Spec

\* Whatever the journal offers leads to the current rows.
THEOREM OffersReplay == Spec => []JournalReplays
BY JournalInductive, OfferedReplays, PTL
-------------------------------------------------------------------------------
(* Entries in the order of the query. *)

Entries == [key : Nat, row : Nat]

\* The entries of S before e.
Ahead(S, e) == {f \in S : Before(f, e)}

InQueryOrder(S) == {p \in S \X S : Before(p[1], p[2])}

\* s has the elements of S, each once.
Once(s, S) ==
  /\ Len(s) \in Nat /\ DOMAIN s = 1..Len(s)
  /\ \A i \in 1..Len(s) : s[i] \in S
  /\ \A x \in S : \E i \in 1..Len(s) : s[i] = x
  /\ \A i, j \in 1..Len(s) : s[i] = s[j] => i = j

\* s has the entries of S in the order of the query.
Lists(s, S) ==
  /\ s \in Seq(S)
  /\ Len(s) = Cardinality(S)
  /\ \A i \in 1..Len(s) : Cardinality(Ahead(S, s[i])) = i - 1

\* A function on the first numbers is a sequence.
LEMMA IsSequence ==
  ASSUME NEW T, NEW n \in Nat, NEW s, DOMAIN s = 1..n, s = [i \in 1..n |-> s[i]],
         \A i \in 1..n : s[i] \in T
  PROVE  s \in Seq(T) /\ Len(s) = n
<1>1. s \in [1..n -> T]
  OBVIOUS
<1>2. s \in Seq(T)
  BY <1>1, SeqDef
<1>3. Len(s) \in Nat /\ DOMAIN s = 1..Len(s)
  BY <1>2, LenProperties
<1> QED
  BY <1>2, <1>3

LEMMA CountsTo ==
  ASSUME NEW n \in Nat
  PROVE  IsFiniteSet(1..n) /\ Cardinality(1..n) = n
<1>1. IsFiniteSet(1..n) /\ Cardinality(1..n) = IF 1 > n THEN 0 ELSE n - 1 + 1
  BY FS_Interval
<1>2. (IF 1 > n THEN 0 ELSE n - 1 + 1) = n
  OBVIOUS
<1> QED
  BY <1>1, <1>2

\* The order of the query has no ties.
LEMMA EntriesOrdered ==
  ASSUME NEW S \in SUBSET Entries
  PROVE  /\ OrderedBy(InQueryOrder(S), S)
         /\ \A e \in S : Preceding(InQueryOrder(S), S, e) = Ahead(S, e)
         /\ \A a, b \in S : <<a, b>> \in InQueryOrder(S) <=> Before(a, b)
<1>1. \A a, b \in S : <<a, b>> \in InQueryOrder(S) <=> Before(a, b)
  BY DEF InQueryOrder
<1>2. \A a \in S : a.key \in Nat /\ a.row \in Nat /\ a = [key |-> a.key, row |-> a.row]
  BY DEF Entries
<1>3. \A a, b \in S : a.key = b.key /\ a.row = b.row => a = b
  BY <1>2
<1>4. OrderedBy(InQueryOrder(S), S)
  <2>1. \A x \in S : ~Before(x, x)
    BY <1>2 DEF Before
  <2>2. \A x, y \in S : x = y \/ Before(x, y) \/ Before(y, x)
    BY <1>2, <1>3 DEF Before
  <2>3. \A x, y, z \in S : Before(x, y) /\ Before(y, z) => Before(x, z)
    BY <1>2 DEF Before
  <2> QED
    BY <1>1, <2>1, <2>2, <2>3 DEF OrderedBy
<1>5. \A e \in S : Preceding(InQueryOrder(S), S, e) = Ahead(S, e)
  BY <1>1 DEF Preceding, Ahead
<1> QED
  BY <1>1, <1>4, <1>5

\* What it puts first is as far in front.
LEMMA AheadGrows ==
  ASSUME NEW S \in SUBSET Entries, IsFiniteSet(S), NEW a \in S, NEW b \in S
  PROVE  /\ Cardinality(Ahead(S, a)) \in Nat
         /\ Before(a, b) <=> Cardinality(Ahead(S, a)) < Cardinality(Ahead(S, b))
         /\ a = b <=> Cardinality(Ahead(S, a)) = Cardinality(Ahead(S, b))
<1> DEFINE R == InQueryOrder(S)
<1>2. Preceding(R, S, a) = Ahead(S, a) /\ Preceding(R, S, b) = Ahead(S, b)
  BY EntriesOrdered
<1>3. OrderedBy(R, S) /\ (<<a, b>> \in R <=> Before(a, b)) /\ (<<b, a>> \in R <=> Before(b, a))
  BY EntriesOrdered
<1> HIDE DEF R
<1>4. IsFiniteSet(Ahead(S, a)) /\ IsFiniteSet(Ahead(S, b))
  BY FS_Subset DEF Ahead
<1>5. Cardinality(Ahead(S, a)) \in Nat /\ Cardinality(Ahead(S, b)) \in Nat
  BY <1>4, FS_CardinalityType
<1>6. Before(a, b) => Cardinality(Ahead(S, a)) < Cardinality(Ahead(S, b))
  BY <1>2, <1>3, RankGrows
<1>7. Before(b, a) => Cardinality(Ahead(S, b)) < Cardinality(Ahead(S, a))
  BY <1>2, <1>3, RankGrows
<1>8. a = b \/ Before(a, b) \/ Before(b, a)
  BY <1>3 DEF OrderedBy
<1> QED
  BY <1>5, <1>6, <1>7, <1>8

\* A sequence has as many elements as it lists.
LEMMA OnceSize ==
  ASSUME NEW S, NEW s, Once(s, S)
  PROVE  IsFiniteSet(S) /\ Cardinality(S) = Len(s)
<1> DEFINE T == 1..Len(s)
<1>1. IsFiniteSet(T) /\ Cardinality(T) = Len(s)
  BY CountsTo DEF Once
<1>2. \A i, j \in T : s[i] = s[j] => i = j
  BY DEF Once
<1>3. {s[i] : i \in T} = S
  BY DEF Once
<1> HIDE DEF T
<1> QED
  BY <1>1, <1>2, <1>3, ImageSize

\* An entry is behind as many places as entries.
LEMMA PlacesAhead ==
  ASSUME NEW S, NEW s, Once(s, S), NEW i \in 1..Len(s)
  PROVE  Cardinality({j \in 1..Len(s) : Before(s[j], s[i])}) = Cardinality(Ahead(S, s[i]))
<1> DEFINE T == {j \in 1..Len(s) : Before(s[j], s[i])}
<1>1. IsFiniteSet(T)
  <2>1. T \subseteq 1..Len(s) /\ IsFiniteSet(1..Len(s))
    BY CountsTo DEF Once
  <2> QED
    BY <2>1, FS_Subset
<1>2. \A a, b \in T : s[a] = s[b] => a = b
  BY DEF Once
<1>3. {s[j] : j \in T} = Ahead(S, s[i])
  BY DEF Once, Ahead
<1> HIDE DEF T
<1>4. Cardinality({s[j] : j \in T}) = Cardinality(T)
  BY <1>1, <1>2, ImageSize
<1> QED
  BY <1>3, <1>4 DEF T

\* There is a place for the entry of every rank.
LEMMA PlaceExists ==
  ASSUME NEW S \in SUBSET Entries, NEW s, Once(s, S), NEW n \in 1..Len(s)
  PROVE  \E i \in 1..Len(s) : Cardinality({j \in 1..Len(s) : Before(s[j], s[i])}) = n - 1
<1>1. IsFiniteSet(S) /\ Cardinality(S) = Len(s) /\ Len(s) \in Nat
  BY OnceSize DEF Once
<1>2. n - 1 \in 0..(Cardinality(S) - 1)
  BY <1>1
<1>3. PICK e \in S : Cardinality(Preceding(InQueryOrder(S), S, e)) = n - 1
  BY <1>1, <1>2, EntriesOrdered, RankExists
<1>4. Cardinality(Ahead(S, e)) = n - 1
  BY <1>3, EntriesOrdered
<1>5. PICK i \in 1..Len(s) : s[i] = e
  BY DEF Once
<1> QED
  BY <1>4, <1>5, PlacesAhead

\* The entries found are sorted.
LEMMA SortedBefore ==
  ASSUME NEW S \in SUBSET Entries, NEW s, Once(s, S)
  PROVE  Lists(Sorted(s, Before), S)
<1> DEFINE D == 1..Len(s)
           E(i, j) == Before(s[i], s[j]) \/ (~Before(s[j], s[i]) /\ i < j)
           C(n) == CHOOSE i \in D : Cardinality({j \in D : E(j, i)}) = n - 1
           r == [n \in D |-> s[C(n)]]
<1>1. Sorted(s, Before) = r
  <2>1. DOMAIN s = D
    BY DEF Once
  <2> QED
    BY <2>1 DEF Sorted
<1>2. /\ Len(s) \in Nat /\ IsFiniteSet(S) /\ Cardinality(S) = Len(s)
      /\ \A i \in D : s[i] \in S
  BY OnceSize DEF Once
<1>3. \A i \in D : {j \in D : E(j, i)} = {j \in D : Before(s[j], s[i])}
  <2>1. \A i, j \in D : s[i] = s[j] => i = j
    BY DEF Once
  <2>2. \A i, j \in D : s[i] = s[j] \/ Before(s[i], s[j]) \/ Before(s[j], s[i])
    <3>1. OrderedBy(InQueryOrder(S), S) /\ \A a, b \in S : <<a, b>> \in InQueryOrder(S) <=> Before(a, b)
      BY EntriesOrdered
    <3> QED
      BY <1>2, <3>1 DEF OrderedBy
  <2>3. \A i, j \in D : Before(s[i], s[j]) => ~Before(s[j], s[i])
    <3>1. OrderedBy(InQueryOrder(S), S) /\ \A a, b \in S : <<a, b>> \in InQueryOrder(S) <=> Before(a, b)
      BY EntriesOrdered
    <3> QED
      BY <1>2, <3>1 DEF OrderedBy
  <2>4. \A i, j \in D : E(j, i) <=> Before(s[j], s[i])
    <3>1. \A i \in D : ~ (i < i)
      BY <1>2
    <3> QED
      BY <3>1, <2>1, <2>2, <2>3
  <2> HIDE DEF E
  <2> QED
    BY <2>4
<1>4. ASSUME NEW n \in D
      PROVE  r[n] \in S /\ Cardinality(Ahead(S, r[n])) = n - 1
  <2>1. \E i \in D : Cardinality({j \in D : E(j, i)}) = n - 1
    <3>1. \E i \in D : Cardinality({j \in D : Before(s[j], s[i])}) = n - 1
      BY PlaceExists
    <3> HIDE DEF E, D
    <3> QED
      BY <1>3, <3>1
  <2>2. C(n) \in D /\ Cardinality({j \in D : E(j, C(n))}) = n - 1
    <3> HIDE DEF E, D
    <3> QED
      BY <2>1, Zenon
  <2>3. r[n] = s[C(n)]
    BY <1>4
  <2> HIDE DEF C, E, r
  <2>4. Cardinality(Ahead(S, s[C(n)])) = Cardinality({j \in D : Before(s[j], s[C(n)])})
    BY <2>2, PlacesAhead
  <2>5. {j \in D : E(j, C(n))} = {j \in D : Before(s[j], s[C(n)])}
    <3> HIDE DEF D
    <3> QED
      BY <1>3, <2>2
  <2> QED
    BY <1>2, <2>2, <2>3, <2>4, <2>5
<1>5. r \in Seq(S) /\ Len(r) = Len(s)
  <2>1. DOMAIN r = 1..Len(s) /\ r = [i \in 1..Len(s) |-> r[i]]
    OBVIOUS
  <2> HIDE DEF r
  <2> QED
    BY <1>2, <1>4, <2>1, IsSequence
<1> HIDE DEF r
<1>6. Lists(r, S)
  BY <1>2, <1>4, <1>5 DEF Lists
<1> QED
  BY <1>1, <1>6

\* The order of the stored rows is that of the entries, where they are what is stored.
LEMMA SortedOrdered ==
  ASSUME NEW S \in SUBSET Entries, NEW s, Once(s, S),
         \A e \in S : rows[e.key] = e.row /\ e.row # NoRow
  PROVE  Lists(Sorted(s, Ordered), S)
<1> DEFINE D == 1..Len(s)
           O(i, j) == Ordered(s[i], s[j]) \/ (~Ordered(s[j], s[i]) /\ i < j)
           B(i, j) == Before(s[i], s[j]) \/ (~Before(s[j], s[i]) /\ i < j)
<1>1. \A a, b \in S : Ordered(a, b) <=> Before(a, b)
  BY DEF Ordered, Before, Entry
<1>2. \A i, j \in D : O(i, j) <=> B(i, j)
  BY <1>1 DEF Once
<1> DEFINE PO(n) == CHOOSE i \in D : Cardinality({j \in D : O(j, i)}) = n - 1
           PB(n) == CHOOSE i \in D : Cardinality({j \in D : B(j, i)}) = n - 1
<1>3. Sorted(s, Ordered) = [n \in D |-> s[PO(n)]] /\ Sorted(s, Before) = [n \in D |-> s[PB(n)]]
  <2>1. DOMAIN s = D
    BY DEF Once
  <2> QED
    BY <2>1 DEF Sorted
<1> HIDE DEF O, B, D
<1>4. \A i \in D : {j \in D : O(j, i)} = {j \in D : B(j, i)}
  BY <1>2
<1>5. \A n : PO(n) = PB(n)
  BY <1>4, Zenon
<1> HIDE DEF PO, PB
<1>6. Sorted(s, Ordered) = Sorted(s, Before)
  BY <1>3, <1>5
<1> QED
  BY <1>6, SortedBefore

\* An entry is listed at the place of its rank.
LEMMA ListedAt ==
  ASSUME NEW S \in SUBSET Entries, IsFiniteSet(S), NEW s, Lists(s, S), NEW e \in S
  PROVE  \E i \in 1..Len(s) : s[i] = e /\ Cardinality(Ahead(S, e)) = i - 1
<1>1. Cardinality(S) \in Nat /\ Len(s) = Cardinality(S) /\ \A i \in 1..Len(s) : s[i] \in S
  BY FS_CardinalityType, ElementOfSeq DEF Lists
<1>2. Cardinality(Ahead(S, e)) \in Nat
  BY AheadGrows
<1>3. Cardinality(Ahead(S, e)) <= Cardinality(S) - 1
  <2>1. e \notin Ahead(S, e)
    BY EntriesOrdered DEF Ahead, OrderedBy
  <2>2. Ahead(S, e) \subseteq S \ {e}
    BY <2>1 DEF Ahead
  <2>3. IsFiniteSet(S \ {e}) /\ Cardinality(S \ {e}) = Cardinality(S) - 1
    BY FS_RemoveElement
  <2> QED
    BY <2>2, <2>3, FS_Subset
<1> DEFINE i == Cardinality(Ahead(S, e)) + 1
<1>4. i \in 1..Len(s) /\ Cardinality(Ahead(S, e)) = i - 1
  BY <1>1, <1>2, <1>3
<1>5. s[i] = e
  <2>1. Cardinality(Ahead(S, s[i])) = i - 1 /\ s[i] \in S
    BY <1>1, <1>4 DEF Lists
  <2> HIDE DEF i
  <2> QED
    BY <2>1, <1>4, AheadGrows
<1> QED
  BY <1>4, <1>5

\* What lists the entries in order has each of them once, and earlier places are before
\* later ones.
LEMMA ListsOnce ==
  ASSUME NEW S \in SUBSET Entries, IsFiniteSet(S), NEW s, Lists(s, S)
  PROVE  /\ Once(s, S)
         /\ \A i, j \in 1..Len(s) : i < j <=> Before(s[i], s[j])
<1>1. Len(s) \in Nat /\ DOMAIN s = 1..Len(s) /\ \A i \in 1..Len(s) : s[i] \in S
  BY LenProperties, ElementOfSeq DEF Lists
<1>2. \A x \in S : \E i \in 1..Len(s) : s[i] = x
  BY ListedAt
<1>3. \A i, j \in 1..Len(s) : s[i] = s[j] => i = j
  BY DEF Lists
<1>4. ASSUME NEW i \in 1..Len(s), NEW j \in 1..Len(s) PROVE i < j <=> Before(s[i], s[j])
  <2>1. Cardinality(Ahead(S, s[i])) = i - 1 /\ Cardinality(Ahead(S, s[j])) = j - 1
    BY DEF Lists
  <2>2. Before(s[i], s[j]) <=> i - 1 < j - 1
    BY <1>1, <2>1, AheadGrows
  <2> QED
    BY <2>2
<1> QED
  BY <1>1, <1>2, <1>3, <1>4 DEF Once

\* Each of the entries of Y that are not in X is behind n of those in X.
Behind(Y, X, n) == \A r \in Y \ X : Cardinality(Ahead(X, r)) >= n

\* s and t start with the same n entries.
SameStart(s, t, n) == n <= Len(t) /\ \A i \in 1..n : s[i] = t[i]

\* More entries do not matter to the first n when each of them is behind n of the others.
LEMMA FirstOnes ==
  ASSUME NEW Y \in SUBSET Entries, IsFiniteSet(Y), NEW X \in SUBSET Y,
         NEW s, Lists(s, X), NEW t, Lists(t, Y), NEW n \in 0..Len(s), Behind(Y, X, n)
  PROVE  SameStart(s, t, n)
<1>1. IsFiniteSet(X) /\ Cardinality(X) <= Cardinality(Y)
  BY FS_Subset
<1>2. /\ Len(s) \in Nat /\ Len(t) \in Nat /\ Len(s) <= Len(t)
      /\ \A i \in 1..Len(s) : s[i] \in X
  BY <1>1, LenProperties, ElementOfSeq DEF Lists
<1>3. ASSUME NEW i \in 1..n PROVE s[i] = t[i]
  <2>1. i \in 1..Len(s) /\ i - 1 < n
    BY <1>2
  <2>2. s[i] \in X /\ Cardinality(Ahead(X, s[i])) = i - 1
    BY <1>2, <2>1 DEF Lists
  <2>3. ASSUME NEW r \in Y \ X PROVE ~Before(r, s[i])
    <3>1. SUFFICES ASSUME Before(r, s[i]) PROVE FALSE
      OBVIOUS
    <3>2. \A x, y, z \in Y : Before(x, y) /\ Before(y, z) => Before(x, z)
      BY EntriesOrdered DEF OrderedBy
    <3>3. Ahead(X, r) \subseteq Ahead(X, s[i])
      BY <2>2, <3>1, <3>2 DEF Ahead
    <3>4. IsFiniteSet(Ahead(X, s[i])) /\ IsFiniteSet(Ahead(X, r))
      BY <1>1, FS_Subset DEF Ahead
    <3>5. Cardinality(Ahead(X, r)) <= Cardinality(Ahead(X, s[i]))
      BY <3>3, <3>4, FS_Subset
    <3>6. Cardinality(Ahead(X, r)) \in Nat
      BY <3>4, FS_CardinalityType
    <3>7. Cardinality(Ahead(X, r)) >= n
      BY DEF Behind
    <3> QED
      BY <3>5, <3>6, <3>7, <2>1, <2>2
  <2>4. Ahead(Y, s[i]) = Ahead(X, s[i])
    BY <2>2, <2>3 DEF Ahead
  <2>5. PICK j \in 1..Len(t) : t[j] = s[i] /\ Cardinality(Ahead(Y, s[i])) = j - 1
    BY <2>2, ListedAt
  <2>6. j = i
    BY <2>2, <2>4, <2>5
  <2> QED
    BY <2>5, <2>6
<1> QED
  BY <1>2, <1>3 DEF SameStart

\* The places of the first m entries of v that stay, and those entries.
Staying(v, m, removed) == {i \in 1..m : v[i].key \notin removed}
Stay(v, m, removed)    == {v[i] : i \in Staying(v, m, removed)}
Lower(P, i)            == {j \in P : j < i}

\* r has the elements of v at the places P, the places in order.
InPlace(r, v, P) ==
  \A n \in 1..Len(r) : \E i \in P : r[n] = v[i] /\ Cardinality(Lower(P, i)) = n - 1

\* Entries that stay keep their order.
LEMMA WithoutIs ==
  ASSUME NEW m \in Nat, NEW v, DOMAIN v = 1..m, NEW removed,
         NEW T, \A i \in 1..m : v[i] \in T,
         \A i, j \in 1..m : v[i] = v[j] => i = j
  PROVE  /\ IsFiniteSet(Staying(v, m, removed))
         /\ Without(v, removed) \in Seq(T)
         /\ Once(Without(v, removed), Stay(v, m, removed))
         /\ InPlace(Without(v, removed), v, Staying(v, m, removed))
<1> DEFINE left == Staying(v, m, removed)
           r == Without(v, removed)
           c == Cardinality(left)
           R == {p \in left \X left : p[1] < p[2]}
           N(i) == Cardinality(Lower(left, i))
           C(n) == CHOOSE i \in left : N(i) = n - 1
<1>1. IsFiniteSet(left) /\ c \in Nat /\ left \subseteq Nat
  <2>1. left \subseteq 1..m /\ IsFiniteSet(1..m)
    BY CountsTo DEF Staying
  <2>2. IsFiniteSet(left)
    BY <2>1, FS_Subset
  <2> QED
    BY <2>1, <2>2, FS_CardinalityType
<1>2. r = [n \in 1..c |-> v[C(n)]]
  <2>1. DOMAIN v = 1..m
    OBVIOUS
  <2> QED
    BY <2>1 DEF Without, Staying, Lower
<1> HIDE DEF left, r, c
<1>3. OrderedBy(R, left) /\ \A i \in left : Cardinality(Preceding(R, left, i)) = N(i)
  <2>1. \A i, j \in left : <<i, j>> \in R <=> i < j
    OBVIOUS
  <2> HIDE DEF R
  <2>2. OrderedBy(R, left)
    BY <1>1, <2>1 DEF OrderedBy
  <2> QED
    BY <2>1, <2>2 DEF Preceding, Lower
<1> HIDE DEF R, N
<1>4. ASSUME NEW n \in 1..c
      PROVE  C(n) \in left /\ N(C(n)) = n - 1 /\ r[n] = v[C(n)]
  <2>1. n - 1 \in 0..(Cardinality(left) - 1)
    BY <1>1 DEF c
  <2>a. IsFiniteSet(left) /\ OrderedBy(R, left)
    BY <1>1, <1>3
  <2>2. \A k \in 0..(Cardinality(left) - 1) : \E i \in left : Cardinality(Preceding(R, left, i)) = k
    BY <2>a, RankExists
  <2>3. \E i \in left : N(i) = n - 1
    BY <1>3, <2>1, <2>2
  <2>4. C(n) \in left /\ N(C(n)) = n - 1
    BY <2>3, Zenon
  <2>5. r[n] = v[C(n)]
    BY <1>2
  <2> QED
    BY <2>4, <2>5
<1> HIDE DEF C
<1>5. \A i \in left : i \in 1..m
  BY DEF left, Staying
<1>6. DOMAIN r = 1..c /\ r = [i \in 1..c |-> r[i]] /\ \A n \in 1..c : r[n] \in T
  <2>1. \A n \in 1..c : r[n] \in T
    BY <1>4, <1>5
  <2> QED
    BY <1>2, <2>1
<1>7. r \in Seq(T) /\ Len(r) = c
  BY <1>1, <1>6, IsSequence
<1> DEFINE K == {v[i] : i \in left}
<1>8. Once(r, K)
  <2>1. \A n \in 1..c : r[n] \in K
    BY <1>4
  <2>2. ASSUME NEW i \in left PROVE \E n \in 1..c : r[n] = v[i]
    <3>1. \A n \in 1..c : C(n) \in left /\ C(n) \in Nat
      BY <1>1, <1>4
    <3> DEFINE f == [n \in 1..c |-> C(n)]
    <3>2. f \in [1..c -> left] /\ \A n \in 1..c : f[n] = C(n)
      BY <3>1
    <3>3. \A a, b \in 1..c : f[a] = f[b] => a = b
      BY <3>2, <1>4
    <3> HIDE DEF f
    <3>4. f \in Injection(1..c, left)
      BY <3>2, <3>3 DEF Injection, IsInjective
    <3>5. IsFiniteSet(1..c) /\ Cardinality(1..c) = Cardinality(left)
      BY <1>1, CountsTo DEF c
    <3>6. f \in Surjection(1..c, left)
      BY <3>4, <3>5, <1>1, FS_Injection
    <3>7. PICK n \in 1..c : f[n] = i
      BY <3>6 DEF Surjection
    <3> QED
      BY <3>2, <3>7, <1>4
  <2>3. ASSUME NEW a \in 1..c, NEW b \in 1..c, r[a] = r[b] PROVE a = b
    <3>1. C(a) \in 1..m /\ C(b) \in 1..m /\ v[C(a)] = v[C(b)]
      BY <1>4, <1>5, <2>3
    <3>2. C(a) = C(b)
      BY <3>1
    <3> QED
      BY <3>2, <1>4
  <2>4. DOMAIN r = 1..c
    BY <1>6
  <2>5. \A x \in K : \E n \in 1..c : r[n] = x
    BY <2>2
  <2>6. \A a, b \in 1..c : r[a] = r[b] => a = b
    BY <2>3
  <2> HIDE DEF K
  <2> QED
    BY <1>1, <1>7, <2>1, <2>4, <2>5, <2>6 DEF Once
<1>9. \A n \in 1..Len(r) : \E i \in left : r[n] = v[i] /\ N(i) = n - 1
  BY <1>4, <1>7
<1> QED
  BY <1>1, <1>7, <1>8, <1>9 DEF left, r, N, Stay, InPlace

\* Of entries that are in order, those that stay are in order.
LEMMA WithoutInOrder ==
  ASSUME NEW m \in Nat, NEW v, DOMAIN v = 1..m, NEW removed,
         \A i \in 1..m : v[i] \in Entries,
         \A i, j \in 1..m : i < j <=> Before(v[i], v[j])
  PROVE  Lists(Without(v, removed), Stay(v, m, removed))
<1> DEFINE left == Staying(v, m, removed)
           r == Without(v, removed)
           K == Stay(v, m, removed)
           L(i) == Lower(left, i)
<1>1. \A i, j \in 1..m : v[i] = v[j] => i = j
  <2>1. \A i, j \in 1..m : i = j \/ i < j \/ j < i
    OBVIOUS
  <2>2. \A i \in 1..m : ~ (i < i)
    OBVIOUS
  <2> QED
    BY <2>1, <2>2
<1>2. IsFiniteSet(left) /\ Once(r, K) /\ InPlace(r, v, left)
  BY <1>1, WithoutIs
<1> HIDE DEF r, left
<1>3. ASSUME NEW i \in left PROVE Cardinality(Ahead(K, v[i])) = Cardinality(L(i))
  <2>1. IsFiniteSet(L(i))
    <3>1. L(i) \subseteq left
      BY DEF Lower
    <3> QED
      BY <1>2, <3>1, FS_Subset
  <2>2. Ahead(K, v[i]) = {v[j] : j \in L(i)}
    <3>1. \A j \in left : j \in 1..m
      BY DEF left, Staying
    <3> QED
      BY <3>1 DEF Ahead, Stay, left, Lower
  <2>3. \A a, b \in L(i) : v[a] = v[b] => a = b
    BY <1>1 DEF left, Staying, Lower
  <2> HIDE DEF L
  <2> QED
    BY <2>1, <2>2, <2>3, ImageSize
<1> HIDE DEF L
<1>4. \A n \in 1..Len(r) : Cardinality(Ahead(K, r[n])) = n - 1
  BY <1>2, <1>3 DEF InPlace, L
<1> HIDE DEF K
<1>5. IsFiniteSet(K) /\ Cardinality(K) = Len(r)
  BY <1>2, OnceSize
<1>6. r \in Seq(K)
  <2>1. r \in Seq(Entries)
    BY <1>1, WithoutIs DEF r
  <2>2. \A n \in 1..Len(r) : r[n] \in K
    BY <1>2 DEF Once
  <2> QED
    BY <2>1, <2>2, SeqDef, LenProperties
<1>7. Lists(r, K)
  BY <1>4, <1>5, <1>6 DEF Lists
<1> QED
  BY <1>7 DEF r, K

\* Sequences of different elements, one after the other.
LEMMA ConcatOnce ==
  ASSUME NEW S, NEW T, NEW s \in Seq(S), Once(s, S), NEW t \in Seq(T), Once(t, T),
         S \intersect T = {}
  PROVE  Once(s \o t, S \union T)
<1> DEFINE u == s \o t
           a == Len(s)
           b == Len(t)
<1>1. a \in Nat /\ b \in Nat
  BY LenProperties
<1>2. s \in Seq(S \union T) /\ t \in Seq(S \union T)
  BY SeqDef, LenProperties
<1>3. /\ u \in Seq(S \union T) /\ Len(u) = a + b
      /\ \A i \in 1..(a + b) : u[i] = IF i <= a THEN s[i] ELSE t[i - a]
  BY <1>1, <1>2, ConcatProperties
<1>4. DOMAIN u = 1..(a + b)
  BY <1>3, LenProperties
<1> HIDE DEF u, a, b
<1>5. \A i \in 1..(a + b) : (i <= a /\ i \in 1..a /\ u[i] = s[i] /\ u[i] \in S)
                         \/ (~(i <= a) /\ i - a \in 1..b /\ u[i] = t[i - a] /\ u[i] \in T)
  <2>1. \A i \in 1..a : s[i] \in S
    BY DEF Once, a
  <2>2. \A i \in 1..b : t[i] \in T
    BY DEF Once, b
  <2> QED
    BY <1>1, <1>3, <2>1, <2>2
<1>6. ASSUME NEW x \in S \union T PROVE \E i \in 1..(a + b) : u[i] = x
  <2>1. CASE x \in S
    <3>1. PICK i \in 1..a : s[i] = x
      BY <2>1 DEF Once, a
    <3>2. i \in 1..(a + b) /\ i <= a
      BY <1>1
    <3> QED
      BY <3>1, <3>2, <1>3
  <2>2. CASE x \in T
    <3>1. PICK i \in 1..b : t[i] = x
      BY <2>2 DEF Once, b
    <3>2. a + i \in 1..(a + b) /\ ~(a + i <= a) /\ (a + i) - a = i
      BY <1>1
    <3> QED
      BY <3>1, <3>2, <1>3
  <2> QED
    BY <2>1, <2>2
<1>7. ASSUME NEW i \in 1..(a + b), NEW j \in 1..(a + b), u[i] = u[j] PROVE i = j
  <2>1. CASE i <= a /\ j <= a
    BY <2>1, <1>5, <1>7 DEF Once, a
  <2>2. CASE ~(i <= a) /\ ~(j <= a)
    <3>1. t[i - a] = t[j - a] /\ i - a \in 1..b /\ j - a \in 1..b
      BY <2>2, <1>5, <1>7
    <3>2. i - a = j - a
      BY <3>1 DEF Once, b
    <3> QED
      BY <3>2, <1>1
  <2>3. CASE (i <= a /\ ~(j <= a)) \/ (~(i <= a) /\ j <= a)
    BY <2>3, <1>5, <1>7
  <2> QED
    BY <2>1, <2>2, <2>3
<1>8. \A i \in 1..(a + b) : u[i] \in S \union T
  BY <1>5
<1>9. Once(u, S \union T)
  BY <1>1, <1>3, <1>4, <1>6, <1>7, <1>8 DEF Once
<1> QED
  BY <1>9 DEF u

LEMMA LeastIs ==
  ASSUME NEW a \in Int, NEW b \in Int
  PROVE  Least(a, b) = IF a <= b THEN a ELSE b
<1> DEFINE m == IF a <= b THEN a ELSE b
<1>1. m \in {a, b} /\ \A y \in {a, b} : m <= y
  OBVIOUS
<1>2. \A x \in {a, b} : (\A y \in {a, b} : x <= y) => x = m
  OBVIOUS
<1> HIDE DEF m
<1>3. Min({a, b}) = m
  BY <1>1, <1>2 DEF Min
<1> QED
  BY <1>3 DEF Least, m

\* A limit keeps the first entries.
LEMMA LimitedIs ==
  ASSUME NEW T, NEW s \in Seq(T), NEW limit \in Nat
  PROVE  /\ Limited(s, limit) \in Seq(T)
         /\ Len(Limited(s, limit)) = Least(limit, Len(s))
         /\ \A i \in 1..Least(limit, Len(s)) : Limited(s, limit)[i] = s[i]
<1> DEFINE n == Least(limit, Len(s))
<1>1. limit # NoLimit /\ Len(s) \in Nat
  BY DataAssumption, LenProperties
<1>2. n \in 0..Len(s)
  BY <1>1, LeastIs
<1>3. Limited(s, limit) = SubSeq(s, 1, n)
  BY <1>1 DEF Limited
<1> HIDE DEF n
<1>4. /\ SubSeq(s, 1, n) \in Seq(T) /\ Len(SubSeq(s, 1, n)) = n
      /\ \A i \in 1..n : SubSeq(s, 1, n)[i] = s[i]
  BY <1>1, <1>2, SubSeqProperties
<1> QED
  BY <1>3, <1>4 DEF n
-------------------------------------------------------------------------------
(* The retained evaluation. *)

SelectedKeys(c) == {k \in Keys : c[k] \in Matching}

\* Evaluation e has the first entries of the full result on the rows c, enough of them
\* for the limit b of the base window.
Right(e, c, b) ==
  /\ e.total = Cardinality(Found(c))
  /\ e.window \in Seq(Found(c)) /\ Len(e.window) <= e.total
  /\ \A i \in 1..Len(e.window) : e.window[i] = Selected(c)[i]
  /\ b \in Nat \union {NoLimit}
  /\ b = NoLimit => Len(e.window) = e.total
  /\ b # NoLimit =>
       /\ Len(e.window) <= Retained(b)
       /\ e.total <= Len(e.window) \/ b <= Len(e.window)
       /\ e.filled => e.total <= Len(e.window) \/ Retained(b) <= Len(e.window)

\* The result on the rows is that of the entries found, in order.
LEMMA SelectedIs ==
  ASSUME NEW c \in Contents
  PROVE  /\ Found(c) \in SUBSET Entries /\ IsFiniteSet(Found(c))
         /\ Cardinality(Found(c)) = Cardinality(SelectedKeys(c)) /\ Cardinality(Found(c)) \in Nat
         /\ \A e \in Found(c) : e.key \in Keys /\ c[e.key] = e.row /\ e.row \in Matching
         /\ \A k \in Keys : c[k] \in Matching => Entry(k, c[k]) \in Found(c)
         /\ Lists(Selected(c), Found(c))
<1> DEFINE F == Found(c)
<1>1. /\ Keys \subseteq Nat /\ IsFiniteSet(Keys) /\ Rows \subseteq Nat /\ Matching \subseteq Rows
  BY DataAssumption
<1>2. /\ \A k \in SelectedKeys(c) : k \in Keys /\ c[k] \in Matching
      /\ F = {Entry(k, c[k]) : k \in SelectedKeys(c)}
  BY DEF Found, SelectedKeys
<1>3. ASSUME NEW e \in F
      PROVE  e.key \in Keys /\ c[e.key] = e.row /\ e.row \in Matching /\ e \in Entries
  <2>1. PICK k \in SelectedKeys(c) : e = [key |-> k, row |-> c[k]]
    BY <1>2 DEF Entry
  <2>2. e.key = k /\ e.row = c[k] /\ k \in Keys /\ c[k] \in Matching
    BY <2>1, <1>2
  <2>3. k \in Nat /\ c[k] \in Nat
    BY <2>2, <1>1
  <2> QED
    BY <2>1, <2>2, <2>3 DEF Entries
<1>4. IsFiniteSet(SelectedKeys(c)) /\ Cardinality(SelectedKeys(c)) \in Nat
  <2>1. SelectedKeys(c) \subseteq Keys
    BY DEF SelectedKeys
  <2> QED
    BY <1>1, <2>1, FS_Subset, FS_CardinalityType
<1>5. IsFiniteSet(F) /\ Cardinality(F) = Cardinality(SelectedKeys(c))
  <2> DEFINE s == [k \in SelectedKeys(c) |-> Entry(k, c[k])]
  <2>1. \A i, j \in SelectedKeys(c) : s[i] = s[j] => i = j
    BY DEF Entry
  <2>2. {s[k] : k \in SelectedKeys(c)} = F
    BY <1>2
  <2> HIDE DEF s, F
  <2> QED
    BY <2>1, <2>2, <1>4, ImageSize
<1>6. Lists(Selected(c), F)
  <2>1. Once(SetToSeq(F), F)
    BY <1>5, ListsAll DEF Once
  <2>2. F \in SUBSET Entries
    BY <1>3
  <2>3. Lists(Sorted(SetToSeq(F), Before), F)
    BY <2>1, <2>2, SortedBefore
  <2> QED
    BY <2>3 DEF Selected
<1>7. \A k \in Keys : c[k] \in Matching => Entry(k, c[k]) \in F
  BY <1>2 DEF SelectedKeys
<1> HIDE DEF F
<1> QED
  BY <1>3, <1>4, <1>5, <1>6, <1>7 DEF F

\* What is in the retained window, in its order.
LEMMA WindowIs ==
  ASSUME seen \in Contents, Right(evaluation, seen, base)
  PROVE  LET W == evaluation.window
         IN  /\ Len(W) \in Nat /\ DOMAIN W = 1..Len(W) /\ W = [i \in 1..Len(W) |-> W[i]]
             /\ \A i \in 1..Len(W) :
                  /\ W[i] \in Found(seen) /\ W[i] \in [key : Keys, row : Rows] /\ W[i] \in Entries
                  /\ W[i].key \in Keys /\ W[i].row = seen[W[i].key] /\ W[i].row \in Matching
             /\ \A i, j \in 1..Len(W) : i < j <=> Before(W[i], W[j])
             /\ \A i, j \in 1..Len(W) : W[i].key = W[j].key => i = j
<1> DEFINE W == evaluation.window
           m == Len(W)
<1>1. W \in Seq(Found(seen)) /\ \A i \in 1..m : W[i] = Selected(seen)[i]
  BY DEF Right
<1>2. m \in Nat /\ DOMAIN W = 1..m /\ \A i \in 1..m : W[i] \in Found(seen)
  BY <1>1, LenProperties, ElementOfSeq
<1>3. W = [i \in 1..m |-> W[i]]
  BY <1>1, SeqDef, LenProperties
<1> HIDE DEF W, m
<1>4. ASSUME NEW i \in 1..m
      PROVE  /\ W[i] \in [key : Keys, row : Rows] /\ W[i] \in Entries
             /\ W[i].key \in Keys /\ W[i].row = seen[W[i].key] /\ W[i].row \in Matching
  <2>1. W[i] \in Found(seen)
    BY <1>2
  <2>2. W[i] \in Entries /\ W[i].key \in Keys /\ W[i].row = seen[W[i].key] /\ W[i].row \in Matching
    BY <2>1, SelectedIs
  <2> QED
    BY <2>2, DataAssumption DEF Entries
<1>5. \A i, j \in 1..m : i < j <=> Before(W[i], W[j])
  <2>1. \A i \in 1..m : i \in 1..Len(Selected(seen))
    <3>1. m <= Cardinality(Found(seen)) /\ Len(Selected(seen)) = Cardinality(Found(seen))
      BY SelectedIs DEF Right, Lists, m, W
    <3>2. Cardinality(Found(seen)) \in Nat
      BY SelectedIs
    <3> QED
      BY <1>2, <3>1, <3>2
  <2>2. \A i, j \in 1..Len(Selected(seen)) : i < j <=> Before(Selected(seen)[i], Selected(seen)[j])
    BY SelectedIs, ListsOnce
  <2> QED
    BY <1>1, <2>1, <2>2
<1>6. ASSUME NEW i \in 1..m, NEW j \in 1..m, W[i].key = W[j].key PROVE i = j
  <2>1. W[i].row = W[j].row
    BY <1>4, <1>6
  <2>2. ~Before(W[i], W[j]) /\ ~Before(W[j], W[i])
    <3>1. W[i].row \in Nat /\ W[i].key \in Nat /\ W[j].row \in Nat /\ W[j].key \in Nat
      BY <1>4 DEF Entries
    <3> QED
      BY <3>1, <2>1, <1>6 DEF Before
  <2> QED
    BY <1>2, <1>5, <2>2
<1> QED
  BY <1>2, <1>3, <1>4, <1>5, <1>6 DEF W, m
-------------------------------------------------------------------------------
(* The state of an update. *)

UpdateFields == {"ok", "replaced", "total", "window", "removed", "inserted"}

IsUpdate(st) ==
  /\ DOMAIN st = UpdateFields /\ st = [f \in UpdateFields |-> st[f]]
  /\ st.ok \in BOOLEAN /\ st.replaced \in BOOLEAN
  /\ st.window \in [1..Len(evaluation.window) -> [key : Keys, row : Rows]]
  /\ st.inserted \in [Keys -> Rows \union {NoRow}]

\* What the update knows after changes that lead to the rows c: the total; and for every
\* row that is selected whether it is retained, entered, or was never changed and is not
\* retained.
Tracks(st, c) ==
  LET W == evaluation.window
      stays(k) == k \in Held(W) \ st.removed
  IN  /\ st.total = Cardinality(SelectedKeys(c))
      /\ st.removed \subseteq Held(W)
      /\ ~st.replaced => st.window = W
      /\ \A i \in 1..Len(W) : st.window[i].key = W[i].key
      /\ Retained(base) # 0 =>
           /\ \A k \in Keys : st.inserted[k] # NoRow => st.inserted[k] = c[k] /\ c[k] \in Matching
           /\ \A k \in Keys : stays(k) => c[k] \in Matching /\ st.inserted[k] = NoRow
           /\ \A k \in Keys : ~stays(k) /\ c[k] \in Matching /\ st.inserted[k] = NoRow =>
                k \notin Held(W) /\ c[k] = seen[k]
           /\ \A i \in 1..Len(W) : stays(W[i].key) =>
                /\ st.window[i].row = c[W[i].key]
                /\ Retained(base) # NoLimit => st.window[i].row <= W[i].row

\* A selected row more, or less.
LEMMA SelectedKeysChange ==
  ASSUME NEW c \in Contents, NEW k \in Keys, NEW r \in Rows \union {NoRow}
  PROVE  LET d == [c EXCEPT ![k] = r]
         IN  /\ d \in Contents
             /\ (c[k] \in Matching) = (r \in Matching)
                  => Cardinality(SelectedKeys(d)) = Cardinality(SelectedKeys(c))
             /\ c[k] \in Matching /\ r \notin Matching
                  => Cardinality(SelectedKeys(d)) = Cardinality(SelectedKeys(c)) - 1
             /\ c[k] \notin Matching /\ r \in Matching
                  => Cardinality(SelectedKeys(d)) = Cardinality(SelectedKeys(c)) + 1
<1> DEFINE d == [c EXCEPT ![k] = r]
           A == SelectedKeys(c)
           B == SelectedKeys(d)
<1>1. d \in Contents /\ d[k] = r /\ \A l \in Keys : l # k => d[l] = c[l]
  BY DEF Contents
<1> HIDE DEF d
<1>2. /\ \A l \in Keys : l \in A <=> c[l] \in Matching
      /\ \A l \in Keys : l \in B <=> d[l] \in Matching
      /\ A \subseteq Keys /\ B \subseteq Keys
  BY DEF SelectedKeys
<1>3. IsFiniteSet(A) /\ IsFiniteSet(B) /\ Cardinality(A) \in Nat /\ Cardinality(B) \in Nat
  BY <1>2, DataAssumption, FS_Subset, FS_CardinalityType
<1> HIDE DEF A, B
<1>4. (c[k] \in Matching) = (r \in Matching) => Cardinality(B) = Cardinality(A)
  <2>1. SUFFICES ASSUME (c[k] \in Matching) = (r \in Matching) PROVE A = B
    OBVIOUS
  <2> QED
    BY <1>1, <1>2, <2>1
<1>5. c[k] \in Matching /\ r \notin Matching => Cardinality(B) = Cardinality(A) - 1
  <2>1. SUFFICES ASSUME c[k] \in Matching, r \notin Matching PROVE Cardinality(B) = Cardinality(A) - 1
    OBVIOUS
  <2>2. B = A \ {k} /\ k \in A
    BY <1>1, <1>2, <2>1
  <2> QED
    BY <2>2, <1>3, FS_RemoveElement
<1>6. c[k] \notin Matching /\ r \in Matching => Cardinality(B) = Cardinality(A) + 1
  <2>1. SUFFICES ASSUME c[k] \notin Matching, r \in Matching PROVE Cardinality(B) = Cardinality(A) + 1
    OBVIOUS
  <2>2. A = B \ {k} /\ k \in B
    BY <1>1, <1>2, <2>1
  <2>3. Cardinality(A) = Cardinality(B) - 1
    BY <2>2, <1>3, FS_RemoveElement
  <2> QED
    BY <2>3, <1>3
<1> QED
  BY <1>1, <1>4, <1>5, <1>6 DEF d, A, B

\* The update tracks every change that starts from the row it says.
LEMMA ChangeTracks ==
  ASSUME seen \in Contents, Right(evaluation, seen, base),
         NEW c \in Contents, NEW change \in Change, c[change.key] = change.previous,
         NEW st, IsUpdate(st), st.ok => Tracks(st, c)
  PROVE  LET next == ApplyChange(st, change)
         IN  /\ IsUpdate(next)
             /\ next.ok => Tracks(next, [c EXCEPT ![change.key] = change.next])
<1> DEFINE W == evaluation.window
           m == Len(W)
           limit == Retained(base)
           k == change.key
           r == change.next
           d == [c EXCEPT ![k] = r]
           u == ApplyChange(st, change)
           before == change.previous \in Matching
           after == r \in Matching
<1> HIDE DEF d, u, W, m, limit
<1>1. /\ k \in Keys /\ r \in Rows \union {NoRow} /\ change.previous = c[k]
      /\ Matching \subseteq Rows /\ NoRow \notin Rows /\ Rows \subseteq Nat
  BY DataAssumption DEF Change
<1>2. /\ d \in Contents /\ d[k] = r /\ \A l \in Keys : l # k => d[l] = c[l]
      /\ (c[k] \in Matching) = (r \in Matching)
           => Cardinality(SelectedKeys(d)) = Cardinality(SelectedKeys(c))
      /\ c[k] \in Matching /\ r \notin Matching
           => Cardinality(SelectedKeys(d)) = Cardinality(SelectedKeys(c)) - 1
      /\ c[k] \notin Matching /\ r \in Matching
           => Cardinality(SelectedKeys(d)) = Cardinality(SelectedKeys(c)) + 1
  <2>1. d[k] = r /\ \A l \in Keys : l # k => d[l] = c[l]
    BY <1>1 DEF d, Contents
  <2> QED
    BY <1>1, <2>1, SelectedKeysChange DEF d
<1>3. /\ m \in Nat /\ DOMAIN W = 1..m
      /\ \A i \in 1..m : W[i].key \in Keys
      /\ \A i, j \in 1..m : W[i].key = W[j].key => i = j
  BY WindowIs DEF W, m
<1>4. Held(W) = {W[i].key : i \in 1..m} /\ Held(W) \subseteq Keys
  BY <1>3 DEF Held
<1>5. IsUpdate(st)
  OBVIOUS
<1>6. CASE ~st.ok \/ (~before /\ ~after)
  <2>1. u = st
    BY <1>6 DEF u, ApplyChange
  <2>2. CASE ~st.ok
    BY <2>1, <2>2 DEF u
  <2>3. CASE st.ok /\ ~before /\ ~after
    <3>1. Cardinality(SelectedKeys(d)) = Cardinality(SelectedKeys(c))
      BY <1>1, <1>2, <2>3
    <3>2. Tracks(st, c)
      BY <2>3
    <3>3. c[k] \notin Matching /\ d[k] \notin Matching
      BY <1>1, <1>2, <2>3
    <3>4. Tracks(st, d)
      BY <1>1, <1>2, <1>3, <1>4, <3>1, <3>2, <3>3 DEF Tracks, W, m
    <3> QED
      BY <2>1, <3>4 DEF u, d
  <2> QED
    BY <1>6, <2>2, <2>3
<1> DEFINE stays(x, j) == j \in Held(W) \ x.removed
<1>7. ASSUME NEW x, Tracks(x, c)
      PROVE  /\ x.total = Cardinality(SelectedKeys(c))
             /\ x.removed \subseteq Held(W)
             /\ ~x.replaced => x.window = W
             /\ \A i \in 1..m : x.window[i].key = W[i].key
             /\ limit # 0 =>
                  /\ \A j \in Keys : x.inserted[j] # NoRow => x.inserted[j] = c[j] /\ c[j] \in Matching
                  /\ \A j \in Keys : stays(x, j) => c[j] \in Matching /\ x.inserted[j] = NoRow
                  /\ \A j \in Keys : ~stays(x, j) /\ c[j] \in Matching /\ x.inserted[j] = NoRow =>
                       j \notin Held(W) /\ c[j] = seen[j]
                  /\ \A i \in 1..m : stays(x, W[i].key) =>
                       /\ x.window[i].row = c[W[i].key]
                       /\ limit # NoLimit => x.window[i].row <= W[i].row
  BY <1>7 DEF Tracks, W, m, limit
<1>8. ASSUME NEW x,
             x.total = Cardinality(SelectedKeys(d)),
             x.removed \subseteq Held(W),
             ~x.replaced => x.window = W,
             \A i \in 1..m : x.window[i].key = W[i].key,
             limit # 0 =>
               /\ \A j \in Keys : x.inserted[j] # NoRow => x.inserted[j] = d[j] /\ d[j] \in Matching
               /\ \A j \in Keys : stays(x, j) => d[j] \in Matching /\ x.inserted[j] = NoRow
               /\ \A j \in Keys : ~stays(x, j) /\ d[j] \in Matching /\ x.inserted[j] = NoRow =>
                    j \notin Held(W) /\ d[j] = seen[j]
               /\ \A i \in 1..m : stays(x, W[i].key) =>
                    /\ x.window[i].row = d[W[i].key]
                    /\ limit # NoLimit => x.window[i].row <= W[i].row
      PROVE  Tracks(x, d)
  BY <1>8 DEF Tracks, W, m, limit
<1>9. CASE st.ok /\ before /\ ~after
  <2>1. u = [st EXCEPT !.total = @ - 1,
                       !.inserted[k] = NoRow,
                       !.removed = @ \union ({k} \intersect Held(W))]
    BY <1>9 DEF u, ApplyChange, W
  <2>2. /\ u.ok = st.ok /\ u.replaced = st.replaced /\ u.window = st.window
        /\ u.total = st.total - 1 /\ u.inserted = [st.inserted EXCEPT ![k] = NoRow]
        /\ u.removed = st.removed \union ({k} \intersect Held(W))
        /\ DOMAIN u = UpdateFields /\ u = [f \in UpdateFields |-> u[f]]
    BY <1>5, <2>1 DEF IsUpdate, UpdateFields
  <2>3. u.inserted[k] = NoRow /\ \A j \in Keys : j # k => u.inserted[j] = st.inserted[j]
    BY <1>1, <1>5, <2>2 DEF IsUpdate
  <2>4. u.inserted \in [Keys -> Rows \union {NoRow}]
    BY <1>1, <1>5, <2>2 DEF IsUpdate
  <2>5. IsUpdate(u)
    BY <1>5, <2>2, <2>4 DEF IsUpdate
  <2>6. Tracks(st, c)
    BY <1>9
  <2>7. Tracks(u, d)
    <3>1. u.total = Cardinality(SelectedKeys(d))
      BY <1>1, <1>2, <1>9, <2>2, <2>6, <1>7
    <3>2. u.removed \subseteq Held(W) /\ (~u.replaced => u.window = W)
      BY <1>7, <2>2, <2>6
    <3>3. \A i \in 1..m : u.window[i].key = W[i].key
      BY <1>7, <2>2, <2>6
    <3>4. \A j \in Keys : stays(u, j) => j # k /\ stays(st, j)
      BY <2>2
    <3>5. \A j \in Keys : j # k => (stays(u, j) <=> stays(st, j))
      BY <2>2
    <3>6. ASSUME limit # 0
          PROVE  /\ \A j \in Keys : u.inserted[j] # NoRow => u.inserted[j] = d[j] /\ d[j] \in Matching
                 /\ \A j \in Keys : stays(u, j) => d[j] \in Matching /\ u.inserted[j] = NoRow
                 /\ \A j \in Keys : ~stays(u, j) /\ d[j] \in Matching /\ u.inserted[j] = NoRow =>
                      j \notin Held(W) /\ d[j] = seen[j]
                 /\ \A i \in 1..m : stays(u, W[i].key) =>
                      /\ u.window[i].row = d[W[i].key]
                      /\ limit # NoLimit => u.window[i].row <= W[i].row
      <4> HIDE DEF stays
      <4>1. \A j \in Keys : u.inserted[j] # NoRow => u.inserted[j] = d[j] /\ d[j] \in Matching
        BY <1>2, <1>7, <2>3, <2>6, <3>6
      <4>2. \A j \in Keys : stays(u, j) => d[j] \in Matching /\ u.inserted[j] = NoRow
        BY <1>2, <1>7, <2>3, <2>6, <3>4, <3>6
      <4>3. \A j \in Keys : ~stays(u, j) /\ d[j] \in Matching /\ u.inserted[j] = NoRow =>
                      j \notin Held(W) /\ d[j] = seen[j]
        BY <1>2, <1>7, <1>9, <2>3, <2>6, <3>5, <3>6
      <4>4. \A i \in 1..m : stays(u, W[i].key) =>
                      /\ u.window[i].row = d[W[i].key]
                      /\ limit # NoLimit => u.window[i].row <= W[i].row
        BY <1>2, <1>3, <1>7, <2>2, <2>6, <3>4, <3>6
      <4> QED
        BY <4>1, <4>2, <4>3, <4>4
    <3> HIDE DEF stays
    <3> QED
      BY <3>1, <3>2, <3>3, <3>6, <1>8
  <2> QED
    BY <2>5, <2>7 DEF u, d
<1>10. CASE st.ok /\ ~before /\ after
  <2>1. u = [st EXCEPT !.total = @ + 1, !.inserted[k] = r]
    BY <1>10 DEF u, ApplyChange
  <2>2. /\ u.ok = st.ok /\ u.replaced = st.replaced /\ u.window = st.window
        /\ u.total = st.total + 1 /\ u.inserted = [st.inserted EXCEPT ![k] = r]
        /\ u.removed = st.removed
        /\ DOMAIN u = UpdateFields /\ u = [f \in UpdateFields |-> u[f]]
    BY <1>5, <2>1 DEF IsUpdate, UpdateFields
  <2>3. u.inserted[k] = r /\ \A j \in Keys : j # k => u.inserted[j] = st.inserted[j]
    BY <1>1, <1>5, <2>2 DEF IsUpdate
  <2>4. u.inserted \in [Keys -> Rows \union {NoRow}]
    BY <1>1, <1>5, <2>2 DEF IsUpdate
  <2>5. IsUpdate(u)
    BY <1>5, <2>2, <2>4 DEF IsUpdate
  <2>6. Tracks(st, c)
    BY <1>10
  <2>7. Tracks(u, d)
    <3>1. u.total = Cardinality(SelectedKeys(d))
      BY <1>1, <1>2, <1>10, <2>2, <2>6, <1>7
    <3>2. u.removed \subseteq Held(W) /\ (~u.replaced => u.window = W)
      BY <1>7, <2>2, <2>6
    <3>3. \A i \in 1..m : u.window[i].key = W[i].key
      BY <1>7, <2>2, <2>6
    <3>4. \A j \in Keys : stays(u, j) <=> stays(st, j)
      BY <2>2
    <3>5. c[k] \notin Matching /\ r \in Matching /\ r # NoRow
      BY <1>1, <1>10
    <3>6. ASSUME limit # 0
          PROVE  /\ \A j \in Keys : u.inserted[j] # NoRow => u.inserted[j] = d[j] /\ d[j] \in Matching
                 /\ \A j \in Keys : stays(u, j) => d[j] \in Matching /\ u.inserted[j] = NoRow
                 /\ \A j \in Keys : ~stays(u, j) /\ d[j] \in Matching /\ u.inserted[j] = NoRow =>
                      j \notin Held(W) /\ d[j] = seen[j]
                 /\ \A i \in 1..m : stays(u, W[i].key) =>
                      /\ u.window[i].row = d[W[i].key]
                      /\ limit # NoLimit => u.window[i].row <= W[i].row
      <4> HIDE DEF stays
      <4>0. ~stays(st, k)
        BY <1>1, <1>7, <2>6, <3>5, <3>6
      <4>1. \A j \in Keys : u.inserted[j] # NoRow => u.inserted[j] = d[j] /\ d[j] \in Matching
        BY <1>2, <1>7, <2>3, <2>6, <3>5, <3>6
      <4>2. \A j \in Keys : stays(u, j) => d[j] \in Matching /\ u.inserted[j] = NoRow
        BY <1>2, <1>7, <2>3, <2>6, <3>4, <3>6, <4>0
      <4>3. \A j \in Keys : ~stays(u, j) /\ d[j] \in Matching /\ u.inserted[j] = NoRow =>
                      j \notin Held(W) /\ d[j] = seen[j]
        BY <1>2, <1>7, <2>3, <2>6, <3>4, <3>5, <3>6
      <4>4. \A i \in 1..m : stays(u, W[i].key) =>
                      /\ u.window[i].row = d[W[i].key]
                      /\ limit # NoLimit => u.window[i].row <= W[i].row
        BY <1>2, <1>3, <1>7, <2>2, <2>6, <3>4, <3>6, <4>0
      <4> QED
        BY <4>1, <4>2, <4>3, <4>4
    <3> HIDE DEF stays
    <3> QED
      BY <3>1, <3>2, <3>3, <3>6, <1>8
  <2> QED
    BY <2>5, <2>7 DEF u, d
<1>11. CASE st.ok /\ before /\ after
  <2> DEFINE i == CHOOSE i \in DOMAIN W : W[i].key = k
  <2> HIDE DEF i
  <2>1. u = Replace(st, change)
    BY <1>11 DEF u, ApplyChange
  <2>2. Tracks(st, c)
    BY <1>11
  <2>3. Cardinality(SelectedKeys(d)) = Cardinality(SelectedKeys(c)) /\ c[k] \in Matching /\ r \in Matching
    BY <1>1, <1>2, <1>11
  <2>4. CASE limit = 0
    <3>1. u = st
      BY <2>1, <2>4 DEF Replace, limit
    <3>2. Tracks(st, d)
      BY <1>7, <1>8, <2>2, <2>3, <2>4
    <3> QED
      BY <3>1, <3>2 DEF u, d
  <2>5. CASE limit # 0 /\ st.inserted[k] # NoRow
    <3>1. u = [st EXCEPT !.inserted[k] = r]
      BY <2>1, <2>5 DEF Replace, limit
    <3>2. /\ u.ok = st.ok /\ u.replaced = st.replaced /\ u.window = st.window
          /\ u.total = st.total /\ u.inserted = [st.inserted EXCEPT ![k] = r]
          /\ u.removed = st.removed
          /\ DOMAIN u = UpdateFields /\ u = [f \in UpdateFields |-> u[f]]
      BY <1>5, <3>1 DEF IsUpdate, UpdateFields
    <3>3. u.inserted[k] = r /\ \A j \in Keys : j # k => u.inserted[j] = st.inserted[j]
      BY <1>1, <1>5, <3>2 DEF IsUpdate
    <3>4. u.inserted \in [Keys -> Rows \union {NoRow}]
      BY <1>1, <1>5, <3>2 DEF IsUpdate
    <3>5. IsUpdate(u)
      BY <1>5, <3>2, <3>4 DEF IsUpdate
    <3>6. \A j \in Keys : stays(u, j) <=> stays(st, j)
      BY <3>2
    <3>7. ~stays(st, k)
      BY <1>1, <1>7, <2>2, <2>5
    <3>8. r # NoRow
      BY <1>1, <2>3
    <3> HIDE DEF stays
    <3>9. \A j \in Keys : u.inserted[j] # NoRow => u.inserted[j] = d[j] /\ d[j] \in Matching
      BY <1>2, <1>7, <2>2, <2>3, <2>5, <3>3
    <3>10. \A j \in Keys : stays(u, j) => d[j] \in Matching /\ u.inserted[j] = NoRow
      BY <1>2, <1>7, <2>2, <2>5, <3>3, <3>6, <3>7
    <3>11. \A j \in Keys : ~stays(u, j) /\ d[j] \in Matching /\ u.inserted[j] = NoRow =>
                      j \notin Held(W) /\ d[j] = seen[j]
      BY <1>2, <1>7, <2>2, <2>5, <3>3, <3>6, <3>8
    <3>12. \A i_1 \in 1..m : stays(u, W[i_1].key) =>
                      /\ u.window[i_1].row = d[W[i_1].key]
                      /\ limit # NoLimit => u.window[i_1].row <= W[i_1].row
      BY <1>2, <1>3, <1>7, <2>2, <2>5, <3>2, <3>6, <3>7
    <3>13. /\ u.total = Cardinality(SelectedKeys(d)) /\ u.removed \subseteq Held(W)
           /\ ~u.replaced => u.window = W
           /\ \A j \in 1..m : u.window[j].key = W[j].key
      BY <1>7, <2>2, <2>3, <3>2
    <3>14. Tracks(u, d)
      BY <3>9, <3>10, <3>11, <3>12, <3>13, <1>8
    <3> QED
      BY <3>5, <3>14 DEF u, d
  <2>6. CASE /\ limit # 0 /\ st.inserted[k] = NoRow
             /\ k \notin Held(W) \ st.removed \/ (limit # NoLimit /\ r > st.window[i].row)
    <3>1. u = [st EXCEPT !.ok = FALSE]
      BY <2>1, <2>6 DEF Replace, limit, W, i
    <3>2. IsUpdate(u) /\ u.ok = FALSE
      BY <1>5, <3>1 DEF IsUpdate, UpdateFields
    <3> QED
      BY <3>2 DEF u
  <2>7. CASE /\ limit # 0 /\ st.inserted[k] = NoRow
             /\ ~(k \notin Held(W) \ st.removed \/ (limit # NoLimit /\ r > st.window[i].row))
    <3>1. u = [st EXCEPT !.window[i].row = r, !.replaced = TRUE]
      BY <2>1, <2>7 DEF Replace, limit, W, i
    <3>2. i \in 1..m /\ W[i].key = k
      <4>1. \E j \in DOMAIN W : W[j].key = k
        BY <1>3, <1>4, <2>7
      <4>2. i \in DOMAIN W /\ W[i].key = k
        BY <4>1, Zenon DEF i
      <4> QED
        BY <4>2, <1>3
    <3>3. st.window \in [1..m -> [key : Keys, row : Rows]]
      BY <1>5 DEF IsUpdate, m, W
    <3>4. /\ u.ok = st.ok /\ u.replaced = TRUE
          /\ u.window = [st.window EXCEPT ![i] = [st.window[i] EXCEPT !.row = r]]
          /\ u.total = st.total /\ u.inserted = st.inserted
          /\ u.removed = st.removed
          /\ DOMAIN u = UpdateFields /\ u = [f \in UpdateFields |-> u[f]]
      BY <1>5, <3>1 DEF IsUpdate, UpdateFields
    <3>5. /\ u.window \in [1..m -> [key : Keys, row : Rows]]
          /\ u.window[i].row = r /\ u.window[i].key = st.window[i].key
          /\ \A j \in 1..m : j # i => u.window[j] = st.window[j]
      <4>1. r \in Rows
        BY <1>1, <2>3
      <4>2. st.window[i] \in [key : Keys, row : Rows]
        BY <3>2, <3>3
      <4> DEFINE e == [st.window[i] EXCEPT !.row = r]
      <4>3. e \in [key : Keys, row : Rows] /\ e.row = r /\ e.key = st.window[i].key
        BY <4>1, <4>2
      <4> HIDE DEF e
      <4>4. u.window = [st.window EXCEPT ![i] = e]
        BY <3>4 DEF e
      <4>5. u.window[i] = e /\ \A j \in 1..m : j # i => u.window[j] = st.window[j]
        BY <3>2, <3>3, <4>4
      <4>6. u.window \in [1..m -> [key : Keys, row : Rows]]
        BY <3>2, <3>3, <4>3, <4>4
      <4> QED
        BY <4>3, <4>5, <4>6
    <3>6. IsUpdate(u)
      <4>1. u.window \in [1..Len(evaluation.window) -> [key : Keys, row : Rows]]
        BY <3>5 DEF m, W
      <4> QED
        BY <1>5, <3>4, <4>1 DEF IsUpdate
    <3>7. \A j \in Keys : stays(u, j) <=> stays(st, j)
      BY <3>4
    <3>8. stays(st, k) /\ (limit # NoLimit => ~ (r > st.window[i].row))
      BY <2>7
    <3> HIDE DEF stays
    <3>9. \A j \in Keys : u.inserted[j] # NoRow => u.inserted[j] = d[j] /\ d[j] \in Matching
      BY <1>2, <1>7, <2>2, <2>7, <3>4
    <3>10. \A j \in Keys : stays(u, j) => d[j] \in Matching /\ u.inserted[j] = NoRow
      BY <1>2, <1>7, <2>2, <2>3, <2>7, <3>4, <3>7
    <3>11. \A j \in Keys : ~stays(u, j) /\ d[j] \in Matching /\ u.inserted[j] = NoRow =>
                      j \notin Held(W) /\ d[j] = seen[j]
      BY <1>2, <1>7, <2>2, <2>7, <3>4, <3>7, <3>8
    <3>12. ASSUME NEW j \in 1..m, stays(u, W[j].key)
           PROVE  /\ u.window[j].row = d[W[j].key]
                  /\ limit # NoLimit => u.window[j].row <= W[j].row
      <4>1. /\ st.window[j].row = c[W[j].key] /\ stays(st, W[j].key)
            /\ limit # NoLimit => st.window[j].row <= W[j].row
        BY <1>3, <1>7, <2>2, <2>7, <3>7, <3>12
      <4>2. CASE j = i
        <5>1. st.window[i].row \in Nat /\ W[i].row \in Nat /\ r \in Nat
          <6>1. st.window[i].row \in Rows
            BY <3>2, <3>3
          <6>2. W[i].row \in Matching
            BY <3>2, WindowIs DEF W, m
          <6> QED
            BY <1>1, <2>3, <6>1, <6>2
        <5> QED
          BY <1>2, <3>2, <3>5, <3>8, <4>1, <4>2, <5>1
      <4>3. CASE j # i
        <5>1. W[j].key # k /\ W[j].key \in Keys
          BY <1>3, <3>2, <4>3
        <5> QED
          BY <1>2, <3>5, <4>1, <4>3, <5>1
      <4> QED
        BY <4>2, <4>3
    <3>13. /\ u.total = Cardinality(SelectedKeys(d)) /\ u.removed \subseteq Held(W)
           /\ ~u.replaced => u.window = W
      BY <1>7, <2>2, <2>3, <3>4
    <3>14. \A j \in 1..m : u.window[j].key = W[j].key
      BY <1>7, <2>2, <3>2, <3>5
    <3>15. Tracks(u, d)
      BY <3>9, <3>10, <3>11, <3>12, <3>13, <3>14, <1>8
    <3> QED
      BY <3>6, <3>15 DEF u, d
  <2> QED
    BY <2>4, <2>5, <2>6, <2>7
<1> QED
  BY <1>6, <1>9, <1>10, <1>11 DEF u, d
-------------------------------------------------------------------------------
(* All changes, one after the other. *)

\* f folds the first m of the changes s.
FoldsTo(f, start, s, m) ==
  f = [t \in SUBSET (1..m) |->
         IF t = {} THEN start ELSE ApplyChange(f[t \ {Max(t)}], s[Max(t)])]

\* There is a fold.
LEMMA FoldExists ==
  ASSUME NEW start, NEW s, NEW n \in Nat
  PROVE  \E f : FoldsTo(f, start, s, n)
<1> DEFINE P == {m \in Nat : \E f : FoldsTo(f, start, s, m)}
<1>1. 0 \in P
  <2> DEFINE g == [t \in SUBSET (1..0) |-> start]
  <2>1. \A t \in SUBSET (1..0) : t = {}
    OBVIOUS
  <2>2. FoldsTo(g, start, s, 0)
    BY <2>1 DEF FoldsTo
  <2> QED
    BY <2>2
<1>2. ASSUME NEW m \in 1..n, m - 1 \in P PROVE m \in P
  <2> DEFINE k == m - 1
  <2>1. k \in Nat /\ m = k + 1 /\ m \in Nat
    OBVIOUS
  <2>2. PICK f : FoldsTo(f, start, s, k)
    BY <1>2
  <2> HIDE DEF k
  <2> DEFINE g == [t \in SUBSET (1..m) |->
                     IF t \in SUBSET (1..k) THEN f[t] ELSE ApplyChange(f[t \ {m}], s[m])]
  <2>3. \A t \in SUBSET (1..k) : /\ t \in SUBSET (1..m) /\ g[t] = f[t]
                                 /\ t \ {Max(t)} \in SUBSET (1..k)
    <3>1. 1..k \subseteq 1..m
      BY <2>1
    <3>2. ASSUME NEW t \in SUBSET (1..k)
          PROVE  t \in SUBSET (1..m) /\ t \ {Max(t)} \in SUBSET (1..k)
      BY <3>1
    <3>3. ASSUME NEW t \in SUBSET (1..k) PROVE g[t] = f[t]
      BY <3>2
    <3> QED
      BY <3>2, <3>3
  <2>4. \A t \in SUBSET (1..m) : t \notin SUBSET (1..k) =>
          /\ m \in t /\ t # {} /\ Max(t) = m /\ t \ {m} \in SUBSET (1..k)
          /\ g[t] = ApplyChange(f[t \ {m}], s[m])
    <3>1. ASSUME NEW t \in SUBSET (1..m), t \notin SUBSET (1..k)
          PROVE  m \in t /\ t \ {m} \in SUBSET (1..k)
      BY <2>1, <3>1
    <3> QED
      BY <2>1, <3>1, GreatestIs
  <2>5. ASSUME NEW t \in SUBSET (1..m)
        PROVE  g[t] = IF t = {} THEN start ELSE ApplyChange(g[t \ {Max(t)}], s[Max(t)])
    <3>1. CASE t \in SUBSET (1..k)
      <4>1. f[t] = IF t = {} THEN start ELSE ApplyChange(f[t \ {Max(t)}], s[Max(t)])
        BY <2>2, <3>1 DEF FoldsTo
      <4> HIDE DEF g
      <4> QED
        BY <2>3, <3>1, <4>1
    <3>2. CASE t \notin SUBSET (1..k)
      <4> HIDE DEF g
      <4> QED
        BY <2>3, <2>4, <3>2
    <3> QED
      BY <3>1, <3>2
  <2>6. g = [t \in SUBSET (1..m) |-> g[t]]
    OBVIOUS
  <2> HIDE DEF g
  <2>7. FoldsTo(g, start, s, m)
    BY <2>5, <2>6 DEF FoldsTo
  <2> QED
    BY <2>1, <2>7
<1>3. \A i \in 0..n : i \in P
  <2> HIDE DEF P
  <2> QED
    BY <1>1, <1>2, CountUp, Zenon
<1>4. n \in 0..n
  OBVIOUS
<1> QED
  BY <1>3, <1>4

\* The changes s lead from one of the states c to the next.
Runs(c, start, s) ==
  /\ c[0] = start
  /\ \A m \in 1..Len(s) : c[m] = ApplyChange(c[m - 1], s[m])

\* The changes take one step each.
LEMMA ChangesFold ==
  ASSUME NEW start, NEW s, Len(s) \in Nat, DOMAIN s = 1..Len(s)
  PROVE  \E c : /\ Runs(c, start, s)
                /\ FoldLeft(ApplyChange, start, s) = c[Len(s)]
<1> DEFINE n == Len(s)
           is(f) == f = [t \in SUBSET (1..n) |->
                           IF t = {} THEN start ELSE ApplyChange(f[t \ {Max(t)}], s[Max(t)])]
           f == CHOOSE g : is(g)
           c == [m \in 0..n |-> f[1..m]]
<1>1. FoldLeft(ApplyChange, start, s) = f[1..n]
  BY DEF FoldLeft, MapThenFoldSet
<1> HIDE DEF n
<1>2. n \in Nat /\ n = Len(s)
  BY DEF n
<1>3. PICK g : FoldsTo(g, start, s, n)
  BY <1>2, FoldExists
<1>4. is(g)
  BY <1>3 DEF FoldsTo
<1> HIDE DEF is
<1>5. is(f)
  BY <1>4, Zenon
<1> HIDE DEF f
<1>6. \A t \in SUBSET (1..n) :
        f[t] = IF t = {} THEN start ELSE ApplyChange(f[t \ {Max(t)}], s[Max(t)])
  BY <1>5 DEF is
<1>7. f[1..0] = start
  <2>1. 1..0 = {} /\ {} \in SUBSET (1..n)
    OBVIOUS
  <2> QED
    BY <1>6, <2>1
<1>8. ASSUME NEW m \in 1..n PROVE f[1..m] = ApplyChange(f[1..(m - 1)], s[m])
  <2>1. m \in Nat /\ m <= n /\ 1 <= m
    BY <1>2
  <2>2. 1..m \in SUBSET (1..n) /\ m \in 1..m /\ 1..m # {} /\ (1..m) \ {m} = 1..(m - 1)
    <3>1. 1..m \subseteq 1..n
      BY <1>2, <2>1
    <3>2. m \in 1..m /\ (1..m) \ {m} = 1..(m - 1)
      BY <2>1
    <3> QED
      BY <3>1, <3>2
  <2>3. Max(1..m) = m
    BY <2>1, <2>2, GreatestIs
  <2> QED
    BY <1>6, <2>2, <2>3
<1>9. c[0] = f[1..0] /\ c[n] = f[1..n] /\ \A m \in 1..n : c[m] = f[1..m] /\ c[m - 1] = f[1..(m - 1)]
  BY <1>2
<1> HIDE DEF c
<1>10. Runs(c, start, s) /\ FoldLeft(ApplyChange, start, s) = c[Len(s)]
  BY <1>1, <1>2, <1>7, <1>8, <1>9 DEF Runs
<1> QED
  BY <1>10

\* What the journal offers are changes.
LEMMA OfferedChanges ==
  ASSUME JournalInv, NEW v
  PROVE  ChangesSince(journal, v) \in Seq(Change)
<1> DEFINE n == Len(journal.batches)
           b(i) == journal.batches[i]
           s == [i \in 1..n |-> IF b(i).version > v THEN b(i).changes ELSE <<>>]
<1>1. IsJournal(journal, Change)
  BY DEF JournalInv, JournalTypeOK
<1>2. n \in Nat /\ \A i \in 1..n : b(i) \in BatchOf(Change)
  BY <1>1, LenProperties, ElementOfSeq DEF IsJournal
<1>3. \A i \in 1..n : s[i] \in Seq(Change)
  BY <1>2, EmptySeq DEF BatchOf
<1>4. ChangesSince(journal, v) = FlattenSeq(s)
  BY DEF ChangesSince
<1> HIDE DEF b
<1>5. s \in [1..n -> Seq(Change)]
  BY <1>3
<1> HIDE DEF s
<1>6. s \in Seq(Seq(Change)) /\ Len(s) = n
  BY <1>2, <1>5
<1>7. CASE s = <<>>
  BY <1>4, <1>7, EmptySeq DEF FlattenSeq
<1>8. CASE s # <<>>
  <2>1. PICK f : f \in [1..Len(s) -> Seq(Change)] /\ FlattenSeq(s) = f[Len(s)]
    BY <1>6, <1>8, FlattenSteps
  <2>2. Len(s) \in 1..Len(s)
    BY <1>6, <1>8, <1>2, EmptySeq
  <2> QED
    BY <1>4, <2>1, <2>2
<1> QED
  BY <1>7, <1>8

\* The rows r are those after the first i of the changes s to the retained ones.
After(s, i, r) == \A k \in Keys, x \in Rows \union {NoRow} : RowAfter(seen, s, i, k, x) => r[k] = x

\* One change more.
LEMMA AfterNext ==
  ASSUME NEW s \in Seq(Change), NEW i \in 1..Len(s), NEW r \in Contents, After(s, i - 1, r)
  PROVE  After(s, i, [r EXCEPT ![s[i].key] = s[i].next])
<1> DEFINE d == [r EXCEPT ![s[i].key] = s[i].next]
<1>1. s[i] \in Change
  BY ElementOfSeq
<1>2. s[i].key \in Keys /\ d[s[i].key] = s[i].next /\ \A k \in Keys : k # s[i].key => d[k] = r[k]
  BY <1>1 DEF Change, Contents
<1> HIDE DEF d
<1>3. i \in Nat /\ 1..i = (1..(i - 1)) \union {i} /\ i \notin 1..(i - 1) /\ i >= 1
  BY LenProperties
<1>4. ASSUME NEW k \in Keys, NEW x \in Rows \union {NoRow}, RowAfter(seen, s, i, k, x)
      PROVE  d[k] = x
  <2>1. CASE seen[k] = x /\ \A j \in 1..i : s[j].key # k
    <3>1. RowAfter(seen, s, i - 1, k, x) /\ k # s[i].key
      BY <1>3, <2>1 DEF RowAfter
    <3> QED
      BY <1>2, <3>1 DEF After
  <2>2. ASSUME NEW j \in 1..i, s[j].key = k, s[j].next = x, \A l \in (j + 1)..i : s[l].key # k
        PROVE  d[k] = x
    <3>1. CASE j = i
      BY <1>2, <2>2, <3>1
    <3>2. CASE j # i
      <4>1. j \in 1..(i - 1) /\ i \in (j + 1)..i /\ (j + 1)..(i - 1) \subseteq (j + 1)..i
        BY <1>3, <3>2
      <4>2. RowAfter(seen, s, i - 1, k, x) /\ k # s[i].key
        BY <2>2, <4>1 DEF RowAfter
      <4> QED
        BY <1>2, <4>2 DEF After
    <3> QED
      BY <3>1, <3>2
  <2> QED
    BY <1>4, <2>1, <2>2 DEF RowAfter
<1> QED
  BY <1>4 DEF After, d

\* Before the first change, the update has the retained evaluation.
StartOfUpdate ==
  [ok |-> TRUE, replaced |-> FALSE, total |-> evaluation.total,
   window |-> evaluation.window, removed |-> {}, inserted |-> NoRows]

LEMMA StartTracks ==
  ASSUME seen \in Contents, Right(evaluation, seen, base)
  PROVE  IsUpdate(StartOfUpdate) /\ Tracks(StartOfUpdate, seen)
<1> DEFINE W == evaluation.window
           m == Len(W)
           u == StartOfUpdate
<1>1. /\ m \in Nat /\ DOMAIN W = 1..m /\ W = [i \in 1..m |-> W[i]]
      /\ \A i \in 1..m : /\ W[i] \in [key : Keys, row : Rows] /\ W[i].key \in Keys
                         /\ W[i].row = seen[W[i].key] /\ W[i].row \in Matching
                         /\ W[i].row \in Nat
  <2>1. Matching \subseteq Nat
    BY DataAssumption
  <2> QED
    BY <2>1, WindowIs
<1>2. u.ok = TRUE /\ u.replaced = FALSE /\ u.total = evaluation.total /\ u.window = W
      /\ u.removed = {} /\ u.inserted = NoRows
      /\ DOMAIN u = UpdateFields /\ u = [f \in UpdateFields |-> u[f]]
  BY DEF StartOfUpdate, UpdateFields
<1>3. NoRows \in [Keys -> Rows \union {NoRow}] /\ \A k \in Keys : NoRows[k] = NoRow
  BY DEF NoRows
<1>4. evaluation.total = Cardinality(SelectedKeys(seen))
  BY SelectedIs DEF Right
<1> HIDE DEF u
<1>5. IsUpdate(u)
  <2>1. W \in [1..m -> [key : Keys, row : Rows]]
    <3> HIDE DEF W, m
    <3> QED
      BY <1>1
  <2> QED
    BY <1>2, <1>3, <2>1 DEF IsUpdate
<1>6. Held(W) = {W[i].key : i \in 1..m}
  BY <1>1 DEF Held
<1>7. \A k \in Held(W) : seen[k] \in Matching
  BY <1>1, <1>6
<1>8. Tracks(u, seen)
  <2> HIDE DEF W, m
  <2>1. /\ \A k \in Keys : u.inserted[k] = NoRow
        /\ \A i \in 1..m : u.window[i].row = seen[W[i].key] /\ u.window[i].row <= W[i].row
                           /\ u.window[i].key = W[i].key
    BY <1>1, <1>2, <1>3
  <2> QED
    BY <1>2, <1>4, <1>7, <2>1 DEF Tracks, W, m
<1> QED
  BY <1>5, <1>8 DEF u

\* The changes that the journal offers since the retained evaluation are tracked to the
\* rows that are stored.
LEMMA ChangedTracks ==
  ASSUME JournalInv, writing = 0, seen \in Contents, Right(evaluation, seen, base),
         evaluation.version \in 0..version,
         evaluation.version \in DOMAIN past => past[evaluation.version] = seen,
         Covers(journal, evaluation.version, version)
  PROVE  IsUpdate(Changed) /\ (Changed.ok => Tracks(Changed, rows))
<1> DEFINE s == ChangesSince(journal, evaluation.version)
           n == Len(s)
<1>1. s \in Seq(Change) /\ n \in Nat /\ DOMAIN s = 1..n
  <2>1. s \in Seq(Change)
    BY OfferedChanges
  <2> QED
    BY <2>1, LenProperties
<1>2. Replays(seen, s, rows) /\ rows \in Contents
  <2>1. past[version] = rows /\ rows \in Contents
    BY DEF JournalInv, CommittedWhenIdle, JournalTypeOK
  <2>2. JournalReplays
    BY OfferedReplays
  <2> QED
    BY <2>1, <2>2 DEF JournalReplays
<1> HIDE DEF s, n
<1>3. Len(s) = n
  BY DEF n
<1>0. PICK c : Runs(c, StartOfUpdate, s) /\ FoldLeft(ApplyChange, StartOfUpdate, s) = c[Len(s)]
  BY <1>1, <1>3, ChangesFold
<1>4. /\ c[0] = StartOfUpdate
      /\ \A m \in 1..Len(s) : c[m] = ApplyChange(c[m - 1], s[m])
      /\ FoldLeft(ApplyChange, StartOfUpdate, s) = c[Len(s)]
  BY <1>0 DEF Runs
<1>5. Changed = c[n]
  <2>1. Changed = FoldLeft(ApplyChange, StartOfUpdate, s)
    BY DEF Changed, StartOfUpdate, s
  <2> QED
    BY <1>3, <1>4, <2>1
<1> DEFINE Good(i, r) == After(s, i, r) /\ IsUpdate(c[i]) /\ (c[i].ok => Tracks(c[i], r))
           P == {i \in 0..n : \E r \in Contents : Good(i, r)}
<1>6. 0 \in P
  <2>1. After(s, 0, seen)
    BY DEF After, RowAfter
  <2> QED
    BY <1>1, <1>4, <2>1, StartTracks
<1>7. ASSUME NEW i \in 1..n, i - 1 \in P PROVE i \in P
  <2>1. PICK r \in Contents : Good(i - 1, r)
    BY <1>7
  <2>2. s[i] \in Change /\ i \in 1..Len(s) /\ i \in 0..n
    BY <1>1, <1>3, ElementOfSeq
  <2> DEFINE d == [r EXCEPT ![s[i].key] = s[i].next]
  <2>3. d \in Contents
    BY <2>2 DEF Contents, Change
  <2>4. After(s, i, d)
    BY <1>1, <2>1, <2>2, AfterNext
  <2>5. r[s[i].key] = s[i].previous
    <3>1. RowAfter(seen, s, i - 1, s[i].key, s[i].previous)
      BY <1>2, <1>3 DEF Replays
    <3> QED
      BY <2>1, <2>2, <3>1 DEF After, Change
  <2>6. c[i] = ApplyChange(c[i - 1], s[i])
    BY <1>3, <1>4
  <2>7. /\ IsUpdate(ApplyChange(c[i - 1], s[i]))
        /\ ApplyChange(c[i - 1], s[i]).ok => Tracks(ApplyChange(c[i - 1], s[i]), d)
    <3> IsUpdate(c[i - 1]) /\ (c[i - 1].ok => Tracks(c[i - 1], r))
      BY <2>1
    <3> QED
      BY <2>2, <2>5, ChangeTracks
  <2> HIDE DEF d
  <2> QED
    BY <2>2, <2>3, <2>4, <2>6, <2>7
<1>8. n \in P
  <2>1. \A i \in 0..n : i \in P
    <3> HIDE DEF P
    <3> QED
      BY <1>1, <1>6, <1>7, CountUp, Zenon
  <2> QED
    BY <1>1, <2>1
<1>9. PICK r \in Contents : Good(n, r)
  BY <1>8
<1>10. r = rows
  <2>1. \A k \in Keys : rows[k] \in Rows \union {NoRow} /\ RowAfter(seen, s, n, k, rows[k])
    BY <1>2, <1>3 DEF Replays, Contents
  <2>2. \A k \in Keys : r[k] = rows[k]
    BY <1>9, <2>1 DEF After
  <2> QED
    BY <1>2, <2>2 DEF Contents
<1> QED
  BY <1>5, <1>9, <1>10
-------------------------------------------------------------------------------
(* The parts of an updated result. *)

\* What is retained beyond the leases need not be known when there is a limit.
LEMMA RetainedIs ==
  ASSUME NEW b \in Nat \union {NoLimit}
  PROVE  /\ b = NoLimit => Retained(b) = NoLimit
         /\ b # NoLimit => /\ b \in Nat /\ Retained(b) \in Nat /\ b <= Retained(b)
                           /\ b = 0 => Retained(b) = 0
         /\ Retained(b) = 0 => b = 0
         /\ Retained(b) = NoLimit => b = NoLimit
<1>1. NoLimit \notin Nat
  BY DataAssumption
<1>2. CASE b = NoLimit
  BY <1>1, <1>2 DEF Retained
<1>3. CASE b # NoLimit /\ b = 0
  BY <1>1, <1>3 DEF Retained
<1>4. CASE b # NoLimit /\ b # 0
  <2>1. b \in Nat /\ b > 0
    BY <1>4
  <2>2. Retained(b) = b + (IF b >= 128 THEN 64 ELSE 1)
    BY <1>4 DEF Retained
  <2>3. Retained(b) \in Nat /\ Retained(b) > b
    BY <2>1, <2>2
  <2> QED
    BY <1>1, <1>4, <2>1, <2>3
<1> QED
  BY <1>2, <1>3, <1>4

\* The retained entries that stay selected.
Left(st) == Stay(st.window, Len(evaluation.window), st.removed)

\* An entry that neither stayed nor entered was selected before and is behind all that
\* is retained.
Hidden(r) ==
  /\ r \in Found(seen)
  /\ Len(evaluation.window) < Cardinality(Found(seen))
  /\ \A i \in 1..Len(evaluation.window) : Before(evaluation.window[i], r)

\* Retained entries come before the others.
LEMMA HiddenBehind ==
  ASSUME seen \in Contents, Right(evaluation, seen, base),
         NEW r \in Found(seen), r.key \notin Held(evaluation.window)
  PROVE  Hidden(r)
<1> DEFINE W == evaluation.window
           m == Len(W)
           F == Found(seen)
           s == Selected(seen)
<1>1. /\ F \in SUBSET Entries /\ IsFiniteSet(F) /\ Cardinality(F) \in Nat /\ Lists(s, F)
      /\ Len(s) = Cardinality(F)
  BY SelectedIs DEF Lists
<1>2. /\ m \in Nat /\ m <= Cardinality(F) /\ \A i \in 1..m : W[i] = s[i]
      /\ DOMAIN W = 1..m
  BY WindowIs DEF Right
<1>3. \A i \in 1..m : W[i] # r
  BY <1>2 DEF Held
<1> HIDE DEF W, m, F, s
<1>4. PICK j \in 1..Len(s) : s[j] = r
  <2>1. r \in F
    BY DEF F
  <2> QED
    BY <1>1, <2>1, ListedAt
<1>5. j > m /\ m < Cardinality(F)
  BY <1>1, <1>2, <1>3, <1>4
<1>6. \A i, l \in 1..Len(s) : i < l <=> Before(s[i], s[l])
  BY <1>1, ListsOnce
<1>7. \A i \in 1..m : i \in 1..Len(s) /\ i < j
  BY <1>1, <1>2, <1>5
<1>8. \A i \in 1..m : Before(W[i], r)
  BY <1>2, <1>4, <1>6, <1>7
<1> QED
  BY <1>5, <1>8 DEF Hidden, W, m, F

\* An entry that stays is what is stored, and where it may not move down it has not.
LEMMA LeftIs ==
  ASSUME seen \in Contents, rows \in Contents, Right(evaluation, seen, base),
         NEW st, IsUpdate(st), Tracks(st, rows), Retained(base) # 0
  PROVE  LET m == Len(evaluation.window)
         IN  /\ m \in Nat /\ DOMAIN st.window = 1..m
             /\ \A i \in 1..m : st.window[i].key = evaluation.window[i].key
             /\ \A i, j \in 1..m : st.window[i].key = st.window[j].key => i = j
             /\ \A i \in 1..m : st.window[i] \in Entries
             /\ \A i \in Staying(st.window, m, st.removed) :
                  /\ st.window[i] = Entry(evaluation.window[i].key, rows[evaluation.window[i].key])
                  /\ rows[evaluation.window[i].key] \in Matching
                  /\ st.inserted[evaluation.window[i].key] = NoRow
                  /\ base # NoLimit => st.window[i].row <= evaluation.window[i].row
<1> DEFINE W == evaluation.window
           m == Len(W)
<1>1. /\ m \in Nat /\ DOMAIN W = 1..m
      /\ \A i \in 1..m : W[i].key \in Keys
      /\ \A i, j \in 1..m : W[i].key = W[j].key => i = j
  BY WindowIs
<1>2. Held(W) = {W[i].key : i \in 1..m}
  BY <1>1 DEF Held
<1>3. st.window \in [1..m -> [key : Keys, row : Rows]]
  BY DEF IsUpdate
<1>4. /\ \A i \in 1..m : st.window[i].key = W[i].key
      /\ \A k \in Keys : k \in Held(W) \ st.removed => rows[k] \in Matching /\ st.inserted[k] = NoRow
      /\ \A i \in 1..m : W[i].key \in Held(W) \ st.removed =>
           /\ st.window[i].row = rows[W[i].key]
           /\ Retained(base) # NoLimit => st.window[i].row <= W[i].row
  BY DEF Tracks
<1>5. base # NoLimit => Retained(base) # NoLimit
  BY RetainedIs DEF Right
<1> HIDE DEF W, m
<1>6. DOMAIN st.window = 1..m /\ \A i \in 1..m : st.window[i] \in [key : Keys, row : Rows]
  BY <1>3
<1>7. \A i \in 1..m : st.window[i] \in Entries
  BY <1>6, DataAssumption DEF Entries
<1>8. \A i, j \in 1..m : st.window[i].key = st.window[j].key => i = j
  BY <1>1, <1>4
<1>9. ASSUME NEW i \in Staying(st.window, m, st.removed)
      PROVE  /\ st.window[i] = Entry(W[i].key, rows[W[i].key])
             /\ rows[W[i].key] \in Matching
             /\ st.inserted[W[i].key] = NoRow
             /\ base # NoLimit => st.window[i].row <= W[i].row
  <2>1. i \in 1..m /\ W[i].key \notin st.removed
    BY <1>4 DEF Staying
  <2>2. W[i].key \in Held(W) \ st.removed /\ W[i].key \in Keys
    BY <1>1, <1>2, <2>1
  <2>3. st.window[i] = [key |-> st.window[i].key, row |-> st.window[i].row]
    BY <1>6, <2>1
  <2>4. st.window[i].key = W[i].key /\ st.window[i].row = rows[W[i].key]
    BY <1>4, <2>1, <2>2
  <2>5. rows[W[i].key] \in Matching /\ st.inserted[W[i].key] = NoRow
    BY <1>4, <2>2
  <2>6. base # NoLimit => st.window[i].row <= W[i].row
    BY <1>4, <1>5, <2>1, <2>2
  <2> QED
    BY <2>3, <2>4, <2>5, <2>6 DEF Entry
<1> QED
  BY <1>1, <1>4, <1>6, <1>7, <1>8, <1>9 DEF W, m

\* What is stored of the selected rows.
LEMMA StoredEntries ==
  ASSUME rows \in Contents, NEW S \in SUBSET Found(rows)
  PROVE  /\ S \in SUBSET Entries /\ IsFiniteSet(S)
         /\ \A e \in S : rows[e.key] = e.row /\ e.row # NoRow
<1>1. /\ Found(rows) \in SUBSET Entries /\ IsFiniteSet(Found(rows))
      /\ \A e \in Found(rows) : rows[e.key] = e.row /\ e.row \in Matching
  BY SelectedIs
<1>2. NoRow \notin Matching
  BY DataAssumption
<1>3. IsFiniteSet(S)
  BY <1>1, FS_Subset
<1> QED
  BY <1>1, <1>2, <1>3

\* The entries that stay are kept in order.
LEMMA KeptLists ==
  ASSUME seen \in Contents, rows \in Contents, Right(evaluation, seen, base),
         NEW st, IsUpdate(st), Tracks(st, rows), Retained(base) # 0
  PROVE  /\ Left(st) \in SUBSET Found(rows)
         /\ Lists(Kept(st), Left(st))
         /\ Cardinality(Left(st)) <= Len(evaluation.window)
         /\ st.removed = {} => Cardinality(Left(st)) = Len(evaluation.window)
<1> DEFINE m == Len(evaluation.window)
           v == st.window
           P == Staying(v, m, st.removed)
           K == Left(st)
<1>1. /\ m \in Nat /\ DOMAIN v = 1..m
      /\ \A i \in 1..m : v[i].key = evaluation.window[i].key
      /\ \A i, j \in 1..m : v[i].key = v[j].key => i = j
      /\ \A i \in 1..m : v[i] \in Entries
      /\ \A i \in P : /\ v[i] = Entry(evaluation.window[i].key, rows[evaluation.window[i].key])
                      /\ rows[evaluation.window[i].key] \in Matching
  BY LeftIs
<1>2. P \subseteq 1..m /\ K = {v[i] : i \in P}
  BY DEF Staying, Stay, Left
<1>3. K \in SUBSET Found(rows)
  <2>1. ASSUME NEW i \in P PROVE v[i] \in Found(rows)
    <3>1. evaluation.window[i].key \in Keys
      BY <1>2, WindowIs
    <3> QED
      BY <1>1, <3>1, SelectedIs
  <2> HIDE DEF K, P
  <2> QED
    BY <1>2, <2>1
<1>4. K \in SUBSET Entries /\ IsFiniteSet(K) /\ \A e \in K : rows[e.key] = e.row /\ e.row # NoRow
  <2> HIDE DEF K
  <2> QED
    BY <1>3, StoredEntries
<1>5. IsFiniteSet(P) /\ IsFiniteSet(1..m) /\ Cardinality(1..m) = m /\ Cardinality(P) <= m
  <2>1. IsFiniteSet(1..m) /\ Cardinality(1..m) = m
    BY <1>1, CountsTo
  <2> HIDE DEF P, m
  <2> QED
    BY <1>2, <2>1, FS_Subset
<1>6. \A i, j \in P : v[i] = v[j] => i = j
  BY <1>1, <1>2
<1>7. Cardinality(K) = Cardinality(P)
  <2> HIDE DEF K, P, v
  <2> QED
    BY <1>2, <1>5, <1>6, ImageSize
<1>8. ASSUME st.removed = {} PROVE Cardinality(K) = m
  <2>1. P = 1..m
    BY <1>8 DEF Staying
  <2> HIDE DEF K, P
  <2> QED
    BY <1>5, <1>7, <2>1
<1>9. CASE ~st.replaced
  <2>1. Kept(st) = Without(v, st.removed)
    BY <1>9 DEF Kept
  <2>2. v = evaluation.window
    BY <1>9 DEF Tracks
  <2>3. \A i, j \in 1..m : i < j <=> Before(v[i], v[j])
    BY <2>2, WindowIs
  <2>4. Lists(Without(v, st.removed), Stay(v, m, st.removed))
    <3> HIDE DEF v, m
    <3> QED
      BY <1>1, <2>3, WithoutInOrder
  <2>5. Lists(Kept(st), K)
    BY <2>1, <2>4 DEF Left
  <2> QED
    BY <1>3, <1>5, <1>7, <1>8, <2>5
<1>10. CASE st.replaced
  <2>1. Kept(st) = Sorted(Without(v, st.removed), Ordered)
    BY <1>10 DEF Kept
  <2>2. \A i, j \in 1..m : v[i] = v[j] => i = j
    BY <1>1
  <2>3. Once(Without(v, st.removed), Stay(v, m, st.removed))
    <3> HIDE DEF v, m
    <3> QED
      BY <1>1, <2>2, WithoutIs
  <2>4. Once(Without(v, st.removed), K)
    BY <2>3 DEF Left
  <2>5. Lists(Sorted(Without(v, st.removed), Ordered), K)
    <3> HIDE DEF K, v
    <3> QED
      BY <1>4, <2>4, SortedOrdered
  <2>6. Lists(Kept(st), K)
    BY <2>1, <2>5
  <2> QED
    BY <1>3, <1>5, <1>7, <1>8, <2>6
<1> QED
  BY <1>9, <1>10

\* The entries that entered are stored, and did not stay.
LEMMA AddedIs ==
  ASSUME seen \in Contents, rows \in Contents, Right(evaluation, seen, base),
         NEW st, IsUpdate(st), Tracks(st, rows), Retained(base) # 0
  PROVE  /\ Added(st) \in SUBSET Found(rows)
         /\ Left(st) \intersect Added(st) = {}
<1>1. ASSUME NEW a \in Added(st)
      PROVE  a \in Found(rows) /\ a.key \in Keys /\ st.inserted[a.key] # NoRow
  <2>1. PICK k \in Keys : st.inserted[k] # NoRow /\ a = Entry(k, st.inserted[k])
    BY DEF Added
  <2>2. st.inserted[k] = rows[k] /\ rows[k] \in Matching
    BY <2>1 DEF Tracks
  <2>3. a \in Found(rows)
    BY <2>1, <2>2, SelectedIs
  <2> QED
    BY <2>1, <2>3 DEF Entry
<1>2. ASSUME NEW e \in Left(st) PROVE st.inserted[e.key] = NoRow
  <2>1. PICK i \in Staying(st.window, Len(evaluation.window), st.removed) : e = st.window[i]
    BY DEF Left, Stay
  <2>2. /\ st.window[i] = Entry(evaluation.window[i].key, rows[evaluation.window[i].key])
        /\ st.inserted[evaluation.window[i].key] = NoRow
    BY LeftIs
  <2> QED
    BY <2>1, <2>2 DEF Entry
<1> QED
  BY <1>1, <1>2

\* What neither stayed nor entered is behind all that stayed; and there is no such entry
\* in a window without a limit.
LEMMA OthersHidden ==
  ASSUME seen \in Contents, rows \in Contents, Right(evaluation, seen, base),
         NEW st, IsUpdate(st), Tracks(st, rows), Retained(base) # 0,
         NEW r \in Found(rows), r \notin Left(st), r \notin Added(st)
  PROVE  /\ base # NoLimit
         /\ evaluation.filled => Retained(base) <= Len(evaluation.window)
         /\ \A e \in Left(st) : Before(e, r)
<1> DEFINE W == evaluation.window
           m == Len(W)
           P == Staying(st.window, m, st.removed)
<1>1. r.key \in Keys /\ rows[r.key] = r.row /\ r.row \in Matching /\ r \in Entries
  BY SelectedIs
<1>2. r = Entry(r.key, rows[r.key])
  BY <1>1 DEF Entries, Entry
<1>3. st.inserted[r.key] = NoRow
  <2>1. SUFFICES ASSUME st.inserted[r.key] # NoRow PROVE FALSE
    OBVIOUS
  <2>2. st.inserted[r.key] = rows[r.key]
    BY <1>1, <2>1 DEF Tracks
  <2>3. r \in Added(st)
    BY <1>1, <1>2, <2>1, <2>2 DEF Added
  <2> QED
    BY <2>3
<1>4. r.key \notin Held(W) \ st.removed
  <2>1. SUFFICES ASSUME r.key \in Held(W) \ st.removed PROVE FALSE
    OBVIOUS
  <2>2. PICK i \in 1..m : W[i].key = r.key
    BY <2>1, WindowIs DEF Held
  <2>3. i \in P
    <3>1. st.window[i].key = W[i].key
      BY LeftIs
    <3> QED
      BY <2>1, <2>2, <3>1 DEF Staying
  <2>4. st.window[i] = Entry(W[i].key, rows[W[i].key])
    BY <2>3, LeftIs
  <2>5. r \in Left(st)
    BY <1>2, <2>2, <2>3, <2>4 DEF Left, Stay
  <2> QED
    BY <2>5
<1>5. r.key \notin Held(W) /\ rows[r.key] = seen[r.key]
  BY <1>1, <1>3, <1>4 DEF Tracks
<1>6. r \in Found(seen)
  BY <1>1, <1>2, <1>5, SelectedIs
<1>7. Hidden(r)
  BY <1>5, <1>6, HiddenBehind
<1>8. m < Cardinality(Found(seen)) /\ m \in Nat /\ Cardinality(Found(seen)) \in Nat
      /\ \A i \in 1..m : Before(W[i], r)
  BY <1>7, WindowIs, SelectedIs DEF Hidden
<1>9. base # NoLimit
  BY <1>8 DEF Right
<1>10. evaluation.filled => Retained(base) <= m
  BY <1>8, <1>9 DEF Right
<1>11. ASSUME NEW e \in Left(st) PROVE Before(e, r)
  <2>1. PICK i \in P : e = st.window[i]
    BY DEF Left, Stay
  <2>2. i \in 1..m
    BY <2>1 DEF Staying
  <2>3. e.row <= W[i].row /\ e.key = W[i].key /\ e \in Entries
    BY <1>9, <2>1, <2>2, LeftIs
  <2>4. W[i] \in Entries /\ Before(W[i], r)
    BY <1>8, <2>2, WindowIs
  <2>5. e.row \in Nat /\ e.key \in Nat /\ W[i].row \in Nat /\ r.row \in Nat /\ r.key \in Nat
    BY <1>1, <2>3, <2>4 DEF Entries
  <2> QED
    BY <2>3, <2>4, <2>5 DEF Before
<1> QED
  BY <1>9, <1>10, <1>11

\* What starts a list of some of the entries starts the result, when each of the other
\* entries is behind as many of those.
LEMMA StartsResult ==
  ASSUME rows \in Contents, NEW X \in SUBSET Found(rows), NEW s, Lists(s, X),
         NEW w \in Seq(X), Len(w) <= Len(s), \A i \in 1..Len(w) : w[i] = s[i],
         \A r \in Found(rows) \ X : Len(w) <= Cardinality(Ahead(X, r))
  PROVE  /\ w \in Seq(Found(rows)) /\ Len(w) <= Cardinality(Found(rows))
         /\ \A i \in 1..Len(w) : w[i] = Selected(rows)[i]
<1> DEFINE F == Found(rows)
           t == Selected(rows)
           n == Len(w)
<1>1. F \in SUBSET Entries /\ IsFiniteSet(F) /\ Lists(t, F) /\ Len(t) = Cardinality(F)
  BY SelectedIs DEF Lists
<1>2. n \in Nat /\ Len(s) \in Nat
  BY LenProperties DEF Lists
<1>3. n \in 0..Len(s)
  BY <1>2
<1>4. Behind(F, X, n)
  <2>1. ASSUME NEW r \in F \ X PROVE Cardinality(Ahead(X, r)) >= n
    <3>1. n <= Cardinality(Ahead(X, r))
      OBVIOUS
    <3>2. Cardinality(Ahead(X, r)) \in Nat
      <4>1. Ahead(X, r) \subseteq F
        BY DEF Ahead
      <4> HIDE DEF F
      <4> QED
        BY <1>1, <4>1, FS_Subset, FS_CardinalityType
    <3> HIDE DEF n
    <3> QED
      BY <1>2, <3>1, <3>2
  <2> QED
    BY <2>1 DEF Behind
<1> HIDE DEF F, t, n
<1>5. n <= Len(t) /\ \A i \in 1..n : s[i] = t[i]
  <2>1. F \in SUBSET Entries /\ IsFiniteSet(F) /\ X \in SUBSET F /\ Lists(s, X) /\ Lists(t, F)
    BY <1>1 DEF F
  <2>2. SameStart(s, t, n)
    BY <1>3, <1>4, <2>1, FirstOnes
  <2> QED
    BY <2>2 DEF SameStart
<1>6. w \in Seq(F)
  <2>1. X \subseteq F
    BY DEF F
  <2>2. w \in Seq(X)
    OBVIOUS
  <2> QED
    BY <2>1, <2>2, SeqDef, LenProperties
<1>7. \A i \in 1..n : w[i] = t[i]
  <2>1. \A i \in 1..n : w[i] = s[i]
    BY DEF n
  <2> QED
    BY <1>5, <2>1
<1> QED
  BY <1>1, <1>5, <1>6, <1>7 DEF F, t, n

\* Enough entries stay for the leases.
LEMMA EnoughKept ==
  ASSUME rows \in Contents, NEW st, Suffices(st), base \in Nat, Len(Kept(st)) \in Nat,
         st.total = Cardinality(Found(rows))
  PROVE  st.total <= Len(Kept(st)) \/ base <= Len(Kept(st))
<1>1. base # NoLimit /\ st.total \in Nat
  BY DataAssumption, SelectedIs
<1>2. Len(Kept(st)) >= Least(st.total, base)
  BY <1>1 DEF Suffices
<1> QED
  BY <1>1, <1>2, LeastIs

\* When the changes suffice, the window after them is that of the full result.
LEMMA RefilledRight ==
  ASSUME seen \in Contents, rows \in Contents, Right(evaluation, seen, base),
         NEW st, IsUpdate(st), Tracks(st, rows), Suffices(st), Retained(base) # 0
  PROVE  LET w == Refilled(st)
         IN  /\ w \in Seq(Found(rows)) /\ Len(w) <= Cardinality(Found(rows))
             /\ \A i \in 1..Len(w) : w[i] = Selected(rows)[i]
             /\ base = NoLimit => Len(w) = Cardinality(Found(rows))
             /\ base # NoLimit => /\ Len(w) <= Retained(base)
                                  /\ Cardinality(Found(rows)) <= Len(w) \/ base <= Len(w)
<1> DEFINE F == Found(rows)
           K == Left(st)
           A == Added(st)
           W == evaluation.window
           m == Len(W)
           limit == Retained(base)
           kept == Kept(st)
           w == Refilled(st)
<1>1. /\ F \in SUBSET Entries /\ IsFiniteSet(F) /\ Cardinality(F) \in Nat
      /\ st.total = Cardinality(F)
  <2>1. st.total = Cardinality(SelectedKeys(rows))
    BY DEF Tracks
  <2> QED
    BY <2>1, SelectedIs
<1>2. /\ K \in SUBSET F /\ Lists(kept, K) /\ Cardinality(K) <= m
      /\ st.removed = {} => Cardinality(K) = m
  BY KeptLists
<1>3. A \in SUBSET F /\ K \intersect A = {}
  BY AddedIs
<1>4. ASSUME NEW r \in F, r \notin K, r \notin A
      PROVE  /\ base # NoLimit
             /\ evaluation.filled => limit <= m
             /\ \A e \in K : Before(e, r)
  BY <1>4, OthersHidden
<1>5. /\ base \in Nat \union {NoLimit} /\ m \in Nat
      /\ base # NoLimit => m <= limit
  BY WindowIs DEF Right
<1>6. /\ base = NoLimit => limit = NoLimit
      /\ base # NoLimit => base \in Nat /\ limit \in Nat /\ base <= limit
  BY <1>5, RetainedIs
<1>7. A # {} => evaluation.filled
  BY DEF Suffices
<1>8. /\ K \in SUBSET Entries /\ IsFiniteSet(K) /\ Cardinality(K) \in Nat
      /\ kept \in Seq(K) /\ Len(kept) = Cardinality(K) /\ Cardinality(K) <= Cardinality(F)
      /\ \A e \in K : rows[e.key] = e.row /\ e.row # NoRow
  <2>1. K \in SUBSET Entries /\ IsFiniteSet(K) /\ \A e \in K : rows[e.key] = e.row /\ e.row # NoRow
    BY <1>2, StoredEntries
  <2>2. Cardinality(K) <= Cardinality(F)
    BY <1>1, <1>2, FS_Subset
  <2> QED
    BY <1>2, <2>1, <2>2, FS_CardinalityType DEF Lists
<1>9. base # NoLimit => Cardinality(F) <= Cardinality(K) \/ base <= Cardinality(K)
  <2>1. SUFFICES ASSUME base # NoLimit PROVE Cardinality(F) <= Cardinality(K) \/ base <= Cardinality(K)
    OBVIOUS
  <2>2. base \in Nat /\ Len(Kept(st)) \in Nat /\ st.total = Cardinality(Found(rows))
    BY <1>1, <1>6, <1>8, <2>1
  <2>3. st.total <= Len(Kept(st)) \/ base <= Len(Kept(st))
    BY <2>2, EnoughKept
  <2> QED
    BY <1>1, <1>8, <2>3
<1>10. CASE A = {}
  <2>1. w = kept
    BY <1>10 DEF Refilled
  <2>2. ASSUME NEW r \in F \ K PROVE Ahead(K, r) = K
    <3>1. \A e \in K : Before(e, r)
      BY <1>4, <1>10
    <3> QED
      BY <3>1 DEF Ahead
  <2> HIDE DEF F, K, A, W, m, limit, kept, w
  <2>3. w \in Seq(K) /\ Len(w) = Cardinality(K) /\ \A i \in 1..Len(w) : w[i] = kept[i]
    BY <1>8, <2>1
  <2>4. \A r \in F \ K : Len(w) <= Cardinality(Ahead(K, r))
    BY <1>8, <2>2, <2>3
  <2>5. w \in Seq(F) /\ Len(w) <= Cardinality(F) /\ \A i \in 1..Len(w) : w[i] = Selected(rows)[i]
    <3>1. Len(w) <= Len(kept)
      BY <1>8, <2>3
    <3> QED
      BY <1>2, <2>3, <2>4, <3>1, StartsResult DEF F
  <2>6. ASSUME base = NoLimit PROVE Len(w) = Cardinality(F)
    <3>1. F = K
      BY <1>2, <1>4, <1>10, <2>6
    <3> QED
      BY <2>3, <3>1
  <2>7. ASSUME base # NoLimit
        PROVE  Len(w) <= limit /\ (Cardinality(F) <= Len(w) \/ base <= Len(w))
    BY <1>2, <1>5, <1>6, <1>8, <1>9, <2>3, <2>7
  <2> QED
    BY <2>5, <2>6, <2>7 DEF F, w, limit
<1>11. CASE A # {}
  <2> DEFINE X == K \union A
             joined == kept \o SetToSeq(A)
             s == Sorted(joined, Ordered)
             safe == SafeLimit(st, kept, A)
  <2>1. w = Limited(s, safe)
    BY <1>11 DEF Refilled
  <2>2. X \in SUBSET F /\ X \in SUBSET Entries /\ IsFiniteSet(X) /\ IsFiniteSet(A)
        /\ \A e \in X : rows[e.key] = e.row /\ e.row # NoRow
    <3>1. X \in SUBSET F /\ A \in SUBSET F
      BY <1>2, <1>3
    <3> HIDE DEF X, A
    <3> QED
      BY <3>1, StoredEntries
  <2>3. Lists(s, X)
    <3>1. SetToSeq(A) \in Seq(A) /\ Once(SetToSeq(A), A)
      BY <2>2, ListsAll DEF Once
    <3>2. Once(kept, K)
      BY <1>2, <1>8, ListsOnce
    <3> HIDE DEF K, A, kept
    <3>3. Once(joined, X)
      BY <1>3, <1>8, <3>1, <3>2, ConcatOnce
    <3> HIDE DEF X, joined
    <3> QED
      BY <2>2, <3>3, SortedOrdered
  <2>4. /\ s \in Seq(X) /\ Len(s) = Cardinality(X) /\ Cardinality(X) \in Nat
        /\ Cardinality(K) <= Cardinality(X) /\ Cardinality(X) <= Cardinality(F)
    <3>1. K \subseteq X
      OBVIOUS
    <3> HIDE DEF X, K, F
    <3>2. Cardinality(K) <= Cardinality(X) /\ Cardinality(X) <= Cardinality(F)
      BY <1>1, <2>2, <3>1, FS_Subset
    <3> QED
      BY <2>2, <2>3, <3>2, FS_CardinalityType DEF Lists
  <2>5. CASE base = NoLimit
    <3>1. safe = NoLimit /\ w = s
      BY <1>6, <2>1, <2>5 DEF SafeLimit, Limited
    <3>2. F = X
      BY <1>2, <1>3, <1>4, <2>5
    <3> HIDE DEF F, K, A, X, W, m, limit, kept, w, s
    <3>3. w \in Seq(X) /\ Len(w) <= Len(s) /\ \A i \in 1..Len(w) : w[i] = s[i]
      BY <2>4, <3>1
    <3>4. w \in Seq(F) /\ Len(w) <= Cardinality(F) /\ \A i \in 1..Len(w) : w[i] = Selected(rows)[i]
      <4>1. \A r \in F \ X : Len(w) <= Cardinality(Ahead(X, r))
        BY <3>2
      <4>2. X \in SUBSET Found(rows)
        BY <2>2 DEF F
      <4> QED
        BY <2>3, <3>3, <4>1, <4>2, StartsResult DEF F
    <3> QED
      BY <2>4, <2>5, <3>1, <3>2, <3>4 DEF F, w
  <2>6. CASE base # NoLimit
    <3>1. ASSUME NEW r \in F \ X
          PROVE  limit <= m /\ K \subseteq Ahead(X, r)
      <4>1. limit <= m /\ \A e \in K : Before(e, r)
        BY <1>4, <1>7, <1>11
      <4> QED
        BY <4>1 DEF Ahead
    <3>2. /\ safe \in Nat /\ safe <= limit
          /\ Least(limit, Cardinality(K)) <= safe
          /\ \A r \in F \ X : safe <= Cardinality(Ahead(X, r))
      <4>1. \A r \in F \ X : Ahead(X, r) \subseteq X
        BY DEF Ahead
      <4>2. CASE st.removed = {}
        <5>1. safe = limit
          BY <4>2 DEF SafeLimit
        <5>2. ASSUME NEW r \in F \ X PROVE limit <= Cardinality(Ahead(X, r))
          <6>1. K \subseteq Ahead(X, r) /\ limit <= m /\ Cardinality(K) = m /\ Ahead(X, r) \subseteq X
            BY <1>2, <3>1, <4>1, <4>2
          <6> HIDE DEF F, K, A, X, W, m, limit
          <6>2. IsFiniteSet(Ahead(X, r))
            BY <2>2, <6>1, FS_Subset
          <6>3. Cardinality(K) <= Cardinality(Ahead(X, r)) /\ Cardinality(Ahead(X, r)) \in Nat
            BY <6>1, <6>2, FS_Subset, FS_CardinalityType
          <6> QED
            BY <1>5, <1>6, <2>6, <6>1, <6>3
        <5> HIDE DEF F, K, A, X, W, m, limit, safe
        <5>3. Least(limit, Cardinality(K)) <= limit
          BY <1>6, <1>8, <2>6, LeastIs
        <5> QED
          BY <1>6, <2>6, <5>1, <5>2, <5>3
      <4>3. CASE st.removed # {}
        <5> DEFINE B == {a \in A : kept # <<>> /\ ~Ordered(Last(kept), a)}
                   c == Cardinality(K) + Cardinality(B)
        <5>1. safe = Least(limit, c)
          BY <1>8, <2>6, <4>3 DEF SafeLimit
        <5>2. IsFiniteSet(B) /\ Cardinality(B) \in Nat /\ B \subseteq A
          <6>1. B \subseteq A
            OBVIOUS
          <6> HIDE DEF B, A
          <6> QED
            BY <2>2, <6>1, FS_Subset, FS_CardinalityType
        <5>3. ASSUME NEW r \in F \ X PROVE B \subseteq Ahead(X, r)
          <6>1. SUFFICES ASSUME NEW a \in B PROVE a \in X /\ Before(a, r)
            BY DEF Ahead
          <6>2. kept # <<>> /\ ~Ordered(Last(kept), a) /\ a \in A /\ a \in X
            OBVIOUS
          <6>3. Last(kept) \in K
            <7>1. Len(kept) \in 1..Len(kept)
              <8> HIDE DEF kept, K
              <8> QED
                BY <1>8, <6>2, EmptySeq, LenProperties
            <7>2. Last(kept) = kept[Len(kept)]
              BY DEF Last
            <7> HIDE DEF kept, K
            <7> QED
              BY <1>8, <7>1, <7>2, ElementOfSeq
          <6> DEFINE e == Last(kept)
          <6>4. e \in X /\ r \in F /\ Before(e, r) /\ e # a
            BY <1>2, <1>3, <3>1, <6>2, <6>3 DEF Ahead
          <6>5. Ordered(e, a) <=> Before(e, a)
            <7>1. rows[e.key] = e.row /\ e.row # NoRow /\ rows[a.key] = a.row /\ a.row # NoRow
              BY <2>2, <6>2, <6>4
            <7> HIDE DEF e
            <7> QED
              BY <7>1 DEF Ordered, Before, Entry
          <6> HIDE DEF e, F, X, B, A, K
          <6>6. ~Before(e, a) /\ a \in F /\ e \in F
            BY <2>2, <6>2, <6>4, <6>5 DEF e
          <6>7. /\ \A x, y \in F : x = y \/ Before(x, y) \/ Before(y, x)
                /\ \A x, y, z \in F : Before(x, y) /\ Before(y, z) => Before(x, z)
            BY <1>1, EntriesOrdered DEF OrderedBy
          <6> QED
            BY <6>2, <6>4, <6>6, <6>7
        <5>4. c \in Nat /\ Cardinality(K) <= c
          <6> HIDE DEF K, B
          <6> QED
            BY <1>8, <5>2
        <5>5. ASSUME NEW r \in F \ X PROVE c <= Cardinality(Ahead(X, r))
          <6>1. K \union B \subseteq Ahead(X, r) /\ K \intersect B = {} /\ Ahead(X, r) \subseteq X
            BY <1>3, <3>1, <4>1, <5>3
          <6> HIDE DEF F, K, A, X, W, m, limit, B
          <6>2. IsFiniteSet(Ahead(X, r))
            BY <2>2, <6>1, FS_Subset
          <6>3. Cardinality(K \union B) <= Cardinality(Ahead(X, r))
            BY <6>1, <6>2, FS_Subset
          <6>4. Cardinality(K \union B) = Cardinality(K) + Cardinality(B)
            <7>1. Cardinality(K \union B) = Cardinality(K) + Cardinality(B) - Cardinality(K \intersect B)
              BY <1>8, <5>2, FS_Union
            <7>2. Cardinality(K \intersect B) = 0
              BY <6>1, FS_EmptySet
            <7> QED
              BY <1>8, <5>2, <7>1, <7>2
          <6> QED
            BY <6>3, <6>4
        <5> HIDE DEF F, K, A, X, W, m, limit, B, c, safe
        <5>6. limit \in Nat
          BY <1>6, <2>6
        <5>7. /\ Least(limit, c) = IF limit <= c THEN limit ELSE c
              /\ Least(limit, Cardinality(K)) = IF limit <= Cardinality(K) THEN limit ELSE Cardinality(K)
          BY <1>8, <5>4, <5>6, LeastIs
        <5>8. safe \in Nat /\ safe <= limit /\ Least(limit, Cardinality(K)) <= safe /\ safe <= c
          BY <1>8, <5>1, <5>4, <5>6, <5>7
        <5>9. ASSUME NEW r \in F \ X PROVE safe <= Cardinality(Ahead(X, r))
          <6>1. Cardinality(Ahead(X, r)) \in Nat
            BY <2>2, <4>1, FS_Subset, FS_CardinalityType
          <6> QED
            BY <5>4, <5>5, <5>8, <6>1
        <5> QED
          BY <5>8, <5>9
      <4> QED
        BY <4>2, <4>3
    <3> HIDE DEF F, K, A, X, W, m, limit, kept, joined, s, safe, w
    <3>3. /\ w \in Seq(X) /\ Len(w) = Least(safe, Len(s))
          /\ \A i \in 1..Least(safe, Len(s)) : w[i] = s[i]
      BY <2>1, <2>4, <3>2, LimitedIs
    <3>4. /\ Len(w) \in Nat /\ Len(w) <= safe /\ Len(w) <= Len(s)
          /\ Len(w) = safe \/ Len(w) = Len(s)
      <4>1. Len(s) \in Nat
        BY <2>4
      <4> QED
        BY <3>2, <3>3, <4>1, LeastIs
    <3>5. w \in Seq(F) /\ Len(w) <= Cardinality(F) /\ \A i \in 1..Len(w) : w[i] = Selected(rows)[i]
      <4>1. ASSUME NEW r \in F \ X PROVE Len(w) <= Cardinality(Ahead(X, r))
        <5>1. Cardinality(Ahead(X, r)) \in Nat
          <6>1. Ahead(X, r) \subseteq X
            BY DEF Ahead
          <6> QED
            BY <2>2, <6>1, FS_Subset, FS_CardinalityType
        <5> QED
          BY <3>2, <3>4, <5>1
      <4>2. X \in SUBSET Found(rows)
        BY <2>2 DEF F
      <4>3. \A i \in 1..Len(w) : w[i] = s[i]
        BY <3>3
      <4> QED
        BY <2>3, <3>3, <3>4, <4>1, <4>2, <4>3, StartsResult DEF F
    <3>6. Cardinality(F) <= Len(w) \/ base <= Len(w)
      <4>1. base \in Nat /\ limit \in Nat /\ base <= limit
        BY <1>6, <2>6
      <4>2. Least(limit, Cardinality(K)) = IF limit <= Cardinality(K) THEN limit ELSE Cardinality(K)
        BY <1>8, <4>1, LeastIs
      <4> QED
        BY <1>1, <1>8, <1>9, <2>4, <2>6, <3>2, <3>4, <4>1, <4>2
    <3>7. Len(w) <= limit
      BY <1>6, <2>6, <3>2, <3>4
    <3> QED
      BY <2>6, <3>5, <3>6, <3>7 DEF F, w, limit
  <2> QED
    BY <2>5, <2>6
<1> QED
  BY <1>10, <1>11

\* When the changes suffice, the evaluation they lead to is right.
LEMMA UpdatedRight ==
  ASSUME seen \in Contents, rows \in Contents, Right(evaluation, seen, base),
         NEW st, IsUpdate(st), Tracks(st, rows), Suffices(st)
  PROVE  Right(Updated(st), rows, base)
<1> DEFINE w == Refilled(st)
           limit == Retained(base)
           u == Updated(st)
           n == Cardinality(Found(rows))
<1>1. /\ u.window = w /\ u.total = st.total /\ u.filled = Filled(w, st.total, limit)
      /\ st.total = n /\ n \in Nat
  <2>1. st.total = Cardinality(SelectedKeys(rows))
    BY DEF Tracks
  <2> QED
    BY <2>1, SelectedIs DEF Updated
<1>2. /\ base \in Nat \union {NoLimit}
      /\ base # NoLimit => base \in Nat /\ limit \in Nat /\ base <= limit /\ limit # NoLimit
      /\ limit = 0 => base = 0 /\ base # NoLimit
  <2>1. base \in Nat \union {NoLimit} /\ NoLimit \notin Nat
    BY DataAssumption DEF Right
  <2> QED
    BY <2>1, RetainedIs
<1>3. /\ w \in Seq(Found(rows)) /\ Len(w) <= n
      /\ \A i \in 1..Len(w) : w[i] = Selected(rows)[i]
      /\ base = NoLimit => Len(w) = n
      /\ base # NoLimit => Len(w) <= limit /\ (n <= Len(w) \/ base <= Len(w))
  <2>1. CASE limit # 0
    BY <2>1, RefilledRight
  <2>2. CASE limit = 0
    <3>1. base = 0 /\ base # NoLimit
      BY <1>2, <2>2
    <3>2. Len(evaluation.window) = 0
      BY <2>2, <3>1, WindowIs DEF Right
    <3>3. w = <<>>
      <4>1. st.removed = {}
        <5>1. Held(evaluation.window) = {}
          BY <3>2, WindowIs DEF Held
        <5> QED
          BY <5>1 DEF Tracks
      <4>2. DOMAIN st.window = {}
        BY <3>2 DEF IsUpdate
      <4>3. Without(st.window, st.removed) = <<>>
        <5> DEFINE left == {i \in DOMAIN st.window : st.window[i].key \notin st.removed}
        <5>1. left = {}
          BY <4>2
        <5>2. Cardinality(left) = 0
          BY <5>1, FS_EmptySet
        <5>3. Without(st.window, st.removed) =
                [j \in 1..Cardinality(left) |->
                   st.window[CHOOSE i \in left : Cardinality({l \in left : l < i}) = j - 1]]
          BY DEF Without
        <5> HIDE DEF left
        <5> QED
          BY <5>2, <5>3
      <4>4. Kept(st) = <<>>
        <5>1. Sorted(<<>>, Ordered) = <<>>
          BY DEF Sorted
        <5> QED
          BY <4>3, <5>1 DEF Kept
      <4>5. CASE Added(st) = {}
        BY <4>4, <4>5 DEF Refilled
      <4>6. CASE Added(st) # {}
        <5> DEFINE A == Added(st)
                   joined == <<>> \o SetToSeq(A)
                   s == Sorted(joined, Ordered)
        <5>1. IsFiniteSet(A)
          <6> DEFINE L == {l \in Keys : st.inserted[l] # NoRow}
                     g == [l \in L |-> Entry(l, st.inserted[l])]
          <6>1. IsFiniteSet(L)
            BY DataAssumption, FS_Subset
          <6>2. A = {g[l] : l \in L} /\ \A i, j \in L : g[i] = g[j] => i = j
            BY DEF Added, Entry
          <6> HIDE DEF A, L, g
          <6> QED
            BY <6>1, <6>2, ImageSize
        <5>2. SetToSeq(A) \in Seq(A)
          BY <5>1, ListsAll
        <5> HIDE DEF A
        <5>3. joined \in Seq(A) /\ Len(joined) \in Nat /\ DOMAIN joined = 1..Len(joined)
          BY <5>2, ConcatEmptySeq, LenProperties
        <5>4. DOMAIN s = 1..Len(joined) /\ s = [i \in 1..Len(joined) |-> s[i]]
          BY <5>3 DEF Sorted
        <5>5. w = Limited(s, 0)
          <6>1. w = Limited(s, SafeLimit(st, <<>>, A))
            BY <4>4, <4>6 DEF Refilled, A
          <6>2. SafeLimit(st, <<>>, A) = 0
            BY <2>2, <4>1 DEF SafeLimit
          <6> QED
            BY <6>1, <6>2
        <5> HIDE DEF s, joined, w
        <5>6. s \in Seq({s[i] : i \in 1..Len(joined)}) /\ Len(s) \in Nat
          <6>1. \A i \in 1..Len(joined) : s[i] \in {s[l] : l \in 1..Len(joined)}
            OBVIOUS
          <6> QED
            BY <5>3, <5>4, <6>1, IsSequence
        <5>7. 0 # NoLimit /\ Least(0, Len(s)) = 0
          BY <5>6, LeastIs, DataAssumption
        <5>8. w = SubSeq(s, 1, 0)
          BY <5>5, <5>7 DEF Limited
        <5> QED
          BY <5>8, SubSeqEmpty
      <4> QED
        BY <4>5, <4>6
    <3>4. Len(w) = 0 /\ w \in Seq(Found(rows))
      BY <3>3, EmptySeq
    <3> HIDE DEF w, limit
    <3> QED
      BY <1>1, <1>2, <2>2, <3>1, <3>4
  <2> QED
    BY <2>1, <2>2
<1>4. Len(w) \in Nat
  BY <1>3, LenProperties
<1>5. base # NoLimit /\ u.filled => n <= Len(w) \/ limit <= Len(w)
  <2> HIDE DEF w, limit, n, u
  <2>1. SUFFICES ASSUME base # NoLimit, u.filled PROVE n <= Len(w) \/ limit <= Len(w)
    OBVIOUS
  <2>2. limit \in Nat /\ limit # NoLimit
    BY <1>2, <2>1
  <2>3. Len(w) >= Least(n, limit)
    BY <1>1, <2>1, <2>2 DEF Filled
  <2> QED
    BY <1>1, <1>4, <2>2, <2>3, LeastIs
<1> HIDE DEF w, limit, u, n
<1>6. Right(u, rows, base)
  BY <1>1, <1>2, <1>3, <1>4, <1>5 DEF Right, limit, n
<1> QED
  BY <1>6 DEF u

\* An evaluation from the rows is right.
LEMMA EvaluateRight ==
  ASSUME rows \in Contents, NEW b \in Nat \union {NoLimit}
  PROVE  Right(Evaluate(Retained(b)), rows, b) /\ Evaluate(Retained(b)).version = version
<1> DEFINE all == Selected(rows)
           limit == Retained(b)
           w == Limited(all, limit)
           u == Evaluate(limit)
           n == Cardinality(Found(rows))
<1>1. all \in Seq(Found(rows)) /\ Len(all) = n /\ n \in Nat
  BY SelectedIs DEF Lists
<1>2. /\ u.window = w /\ u.total = n /\ u.filled = Filled(w, n, limit) /\ u.version = version
  BY <1>1 DEF Evaluate
<1>3. /\ b = NoLimit => limit = NoLimit
      /\ b # NoLimit => b \in Nat /\ limit \in Nat /\ b <= limit /\ limit # NoLimit
  BY RetainedIs, DataAssumption
<1> HIDE DEF limit, n, u, w, all
<1>4. CASE b = NoLimit
  <2>1. w = all
    BY <1>3, <1>4 DEF w, Limited
  <2> QED
    BY <1>1, <1>2, <1>4, <2>1 DEF Right, n, u, all, limit
<1>5. CASE b # NoLimit
  <2>0. /\ Limited(all, limit) \in Seq(Found(rows)) /\ Len(Limited(all, limit)) = Least(limit, Len(all))
        /\ \A i \in 1..Least(limit, Len(all)) : Limited(all, limit)[i] = all[i]
    <3>1. limit \in Nat /\ all \in Seq(Found(rows))
      BY <1>1, <1>3, <1>5
    <3> QED
      BY <3>1, LimitedIs
  <2>1. /\ w \in Seq(Found(rows)) /\ Len(w) = Least(limit, n)
        /\ \A i \in 1..Len(w) : w[i] = all[i]
    BY <1>1, <2>0 DEF w
  <2>2. Least(limit, n) = (IF limit <= n THEN limit ELSE n) /\ Least(n, limit) = IF n <= limit THEN n ELSE limit
    BY <1>1, <1>3, <1>5, LeastIs
  <2>3. u.filled => Len(w) >= Least(n, limit)
    BY <1>2, <1>3, <1>5 DEF Filled
  <2>4. /\ Len(w) <= n /\ Len(w) <= limit /\ (n <= Len(w) \/ b <= Len(w))
        /\ n <= Len(w) \/ limit <= Len(w)
    BY <1>1, <1>3, <1>5, <2>1, <2>2
  <2>5. Right(u, rows, b)
    BY <1>1, <1>2, <1>5, <2>1, <2>4 DEF Right, n, all, limit
  <2> QED
    BY <1>2, <2>5 DEF u, limit
<1> QED
  BY <1>4, <1>5

\* The leases of the execution by window: some windows are leased.
Leased(ws) == ws \in [Windows -> Nat] /\ IsFiniteSet({w \in Windows : ws[w] > 0})

\* The base window covers the window of every lease.
LEMMA BaseLimitIs ==
  ASSUME NEW ws, Leased(ws)
  PROVE  /\ BaseLimit(ws) \in Nat \union {NoLimit}
         /\ \A w \in Windows : ws[w] > 0 =>
              /\ w.limit = NoLimit => BaseLimit(ws) = NoLimit
              /\ BaseLimit(ws) # NoLimit /\ w.limit # 0 =>
                   w.offset + w.limit <= BaseLimit(ws)
<1> DEFINE leased == {w \in Windows : ws[w] > 0}
           end(w) == IF w.limit = 0 THEN 0 ELSE w.offset + w.limit
           ends == {end(w) : w \in leased}
<1>1. \A w \in Windows : w.offset \in Nat /\ w.limit \in Nat \union {NoLimit}
  BY DataAssumption
<1>2. BaseLimit(ws) = IF \E w \in leased : w.limit = NoLimit THEN NoLimit
                           ELSE Max(ends \union {0})
  BY DEF BaseLimit
<1>3. CASE \E w \in leased : w.limit = NoLimit
  <2>1. BaseLimit(ws) = NoLimit
    BY <1>2, <1>3
  <2> QED
    BY <2>1
<1>4. CASE ~ \E w \in leased : w.limit = NoLimit
  <2>1. BaseLimit(ws) = Max(ends \union {0})
    BY <1>2, <1>4
  <2>2. \A w \in leased : w.limit \in Nat /\ w.offset \in Nat /\ end(w) \in Nat
    BY <1>1, <1>4
  <2>3. ends \union {0} \in SUBSET Nat /\ ends \union {0} # {}
    BY <2>2
  <2>4. IsFiniteSet(ends \union {0})
    <3> HIDE DEF leased, end
    <3>1. IsFiniteSet(leased)
      BY DEF leased, Leased
    <3>2. IsFiniteSet(ends)
      <4> DEFINE f == [w \in leased |-> end(w)]
      <4>1. f \in [leased -> ends] /\ \A y \in ends : \E w \in leased : f[w] = y
        OBVIOUS
      <4> HIDE DEF f, ends
      <4>2. f \in Surjection(leased, ends)
        BY <4>1 DEF Surjection
      <4> QED
        BY <3>1, <4>2, FS_Surjection
    <3> QED
      BY <3>2, FS_AddElement
  <2>5. Max(ends \union {0}) \in ends \union {0} /\ \A y \in ends \union {0} : y <= Max(ends \union {0})
    <3> HIDE DEF ends
    <3> QED
      BY <2>3, <2>4, MaxIs
  <2>6. \A w \in leased : end(w) \in ends
    OBVIOUS
  <2>7. ASSUME NEW w \in Windows, ws[w] > 0
        PROVE  w.limit # NoLimit /\ (w.limit # 0 => w.offset + w.limit <= BaseLimit(ws))
    <3>1. w \in leased /\ w.limit # NoLimit
      BY <1>4, <2>7
    <3>2. end(w) <= BaseLimit(ws)
      <4> HIDE DEF ends, end, leased
      <4> QED
        BY <2>1, <2>5, <2>6, <3>1
    <3> QED
      BY <3>1, <3>2
  <2>8. BaseLimit(ws) \in Nat
    <3> HIDE DEF ends
    <3> QED
      BY <2>1, <2>3, <2>5
  <2> QED
    BY <2>7, <2>8
<1> QED
  BY <1>3, <1>4
-------------------------------------------------------------------------------
(* The invariant of the execution. *)

\* The rows of the retained evaluation are those its version committed; the first version
\* committed none.
SeenIsPast ==
  /\ evaluation.version \in 0..version
  /\ evaluation.version \in DOMAIN past => past[evaluation.version] = seen
  /\ 0 \in DOMAIN past => past[0] = NoRows

\* The base window is that of the leases, where there is an evaluation.
BaseCovers == base = BaseLimit(windows) \/ (evaluation = NoEvaluation /\ seen = NoRows)

RetainedInv ==
  /\ JournalInv
  /\ Leased(windows)
  /\ seen \in Contents
  /\ Right(evaluation, seen, base)
  /\ SeenIsPast
  /\ BaseCovers

\* No evaluation is that of no rows.
LEMMA NothingRight == NoRows \in Contents /\ Right(NoEvaluation, NoRows, 0)
<1>1. NoRows \in Contents
  BY DEF NoRows, Contents
<1>2. Found(NoRows) = {}
  <2>1. NoRow \notin Matching
    BY DataAssumption
  <2> QED
    BY <2>1 DEF Found, NoRows
<1>3. Cardinality(Found(NoRows)) = 0
  BY <1>2, FS_EmptySet
<1>4. /\ NoEvaluation.window = <<>> /\ NoEvaluation.total = 0
      /\ <<>> \in Seq(Found(NoRows)) /\ Len(<<>>) = 0
  BY EmptySeq DEF NoEvaluation
<1>5. 0 # NoLimit /\ Retained(0) = 0
  BY DataAssumption, RetainedIs
<1>6. Right(NoEvaluation, NoRows, 0)
  BY <1>3, <1>4, <1>5 DEF Right
<1> QED
  BY <1>1, <1>6

\* With no mutation under way the result of latest() is right for the stored rows, and is
\* labelled with their version.
LEMMA RefreshRight ==
  ASSUME RetainedInv, writing = 0, NEW ws, Leased(ws), Refresh(ws)
  PROVE  /\ seen' = rows /\ evaluation'.version = version /\ base' = BaseLimit(ws)
         /\ Right(evaluation', rows, base')
<1>1. /\ JournalInv /\ seen \in Contents /\ Right(evaluation, seen, base)
      /\ evaluation.version \in 0..version
      /\ evaluation.version \in DOMAIN past => past[evaluation.version] = seen
  BY DEF RetainedInv, SeenIsPast
<1>2. rows \in Contents /\ version \in Nat /\ version \in DOMAIN past /\ past[version] = rows
  BY <1>1 DEF JournalInv, JournalTypeOK, CommittedWhenIdle
<1>3. seen' = rows /\ base' = BaseLimit(ws)
  BY <1>2 DEF Refresh
<1>4. BaseLimit(ws) \in Nat \union {NoLimit}
  BY BaseLimitIs
<1>5. CASE BaseLimit(ws) # base
  <2>1. evaluation' = Evaluate(Retained(BaseLimit(ws)))
    BY <1>5 DEF Refresh
  <2> QED
    BY <1>2, <1>3, <1>4, <2>1, EvaluateRight
<1>6. CASE BaseLimit(ws) = base /\ evaluation.version = version
  <2>1. evaluation' = evaluation /\ seen = rows
    BY <1>1, <1>2, <1>6 DEF Refresh
  <2> QED
    BY <1>1, <1>3, <1>6, <2>1
<1>7. CASE BaseLimit(ws) = base /\ evaluation.version # version
  <2>1. evaluation' = Latest
    BY <1>7 DEF Refresh
  <2>2. CASE Suffices(Changed)
    <3>1. evaluation' = Updated(Changed)
      BY <2>1, <2>2 DEF Latest
    <3>2. Covers(journal, evaluation.version, version) /\ Changed.ok
      BY <2>2 DEF Suffices
    <3>3. IsUpdate(Changed) /\ Tracks(Changed, rows)
      BY <1>1, <3>2, ChangedTracks
    <3>4. Right(Updated(Changed), rows, base)
      BY <1>1, <1>2, <2>2, <3>3, UpdatedRight
    <3>5. Updated(Changed).version = version
      BY DEF Updated
    <3> QED
      BY <1>3, <1>7, <3>1, <3>4, <3>5
  <2>3. CASE ~Suffices(Changed)
    <3>1. evaluation' = Evaluate(Retained(base))
      BY <2>1, <2>3 DEF Latest
    <3> QED
      BY <1>2, <1>3, <1>4, <1>7, <3>1, EvaluateRight
  <2> QED
    BY <2>2, <2>3
<1> QED
  BY <1>5, <1>6, <1>7

LEMMA InitRetainedInv == Init => RetainedInv
<1> SUFFICES ASSUME Init PROVE RetainedInv
  OBVIOUS
<1>1. JournalInv
  BY InitJournalInv
<1>2. /\ windows = [w \in Windows |-> 0] /\ seen = NoRows /\ evaluation = NoEvaluation /\ base = 0
      /\ version = 0 /\ past = FirstVersion
  BY DEF Init
<1>3. Leased(windows)
  <2>1. windows \in [Windows -> Nat] /\ {w \in Windows : windows[w] > 0} = {}
    BY <1>2
  <2> QED
    BY <2>1, FS_EmptySet DEF Leased
<1>4. SeenIsPast
  BY <1>2 DEF SeenIsPast, NoEvaluation, FirstVersion
<1> QED
  BY <1>1, <1>2, <1>3, <1>4, NothingRight DEF RetainedInv, BaseCovers

\* What a refresh leaves of the invariant.
LEMMA RefreshKeeps ==
  ASSUME RetainedInv, JournalInv', writing = 0, Leased(windows'), UNCHANGED storeVars,
         seen' = rows, evaluation'.version = version, base' = BaseLimit(windows'),
         Right(evaluation', rows, base')
  PROVE  RetainedInv'
<1>1. rows' = rows /\ version' = version /\ past' = past
  BY DEF storeVars
<1>2. rows \in Contents /\ version \in Nat /\ past[version] = rows
  BY DEF RetainedInv, JournalInv, JournalTypeOK, CommittedWhenIdle
<1>3. SeenIsPast'
  BY <1>1, <1>2 DEF RetainedInv, SeenIsPast
<1>4. seen' \in Contents /\ BaseCovers'
  BY <1>2 DEF BaseCovers
<1>5. Right(evaluation, seen, base)'
  OBVIOUS
<1>6. Leased(windows)'
  OBVIOUS
<1> QED
  BY <1>3, <1>4, <1>5, <1>6 DEF RetainedInv

\* What a change of the journal leaves of it.
LEMMA JournalKeeps ==
  ASSUME RetainedInv, JournalInv', UNCHANGED <<version, past, executionVars>>
  PROVE  RetainedInv'
<1>1. /\ version' = version /\ past' = past /\ windows' = windows /\ base' = base
      /\ evaluation' = evaluation /\ seen' = seen
  BY DEF executionVars
<1> QED
  BY <1>1 DEF RetainedInv, SeenIsPast, BaseCovers

\* One lease more or less.
LEMMA LeasedChange ==
  ASSUME Leased(windows), NEW w \in Windows
  PROVE  /\ Leased([windows EXCEPT ![w] = @ + 1])
         /\ windows[w] > 0 => Leased([windows EXCEPT ![w] = @ - 1])
<1> DEFINE D == {x \in Windows : windows[x] > 0}
<1>1. windows \in [Windows -> Nat] /\ IsFiniteSet(D \union {w})
  <2>1. IsFiniteSet(D)
    BY DEF Leased
  <2> QED
    BY <2>1, FS_AddElement DEF Leased
<1>2. ASSUME NEW n \in Nat PROVE Leased([windows EXCEPT ![w] = n])
  <2> DEFINE v == [windows EXCEPT ![w] = n]
  <2>1. v \in [Windows -> Nat] /\ {x \in Windows : v[x] > 0} \subseteq D \union {w}
    BY <1>1
  <2>2. IsFiniteSet({x \in Windows : v[x] > 0})
    BY <1>1, <2>1, FS_Subset
  <2> QED
    BY <2>1, <2>2 DEF Leased
<1>3. windows[w] \in Nat
  BY <1>1
<1>4. windows[w] + 1 \in Nat /\ (windows[w] > 0 => windows[w] - 1 \in Nat)
  BY <1>3
<1> QED
  BY <1>2, <1>4

LEMMA CommitKeepsRetained ==
  ASSUME RetainedInv, JournalInv', Commit
  PROVE  RetainedInv'
<1>1. /\ version' = version + 1 /\ version \in Nat
      /\ windows' = windows /\ base' = base /\ evaluation' = evaluation /\ seen' = seen
      /\ past' = [v \in {version + 1} \union KeptVersions |->
                    IF v = version + 1 THEN rows ELSE past[v]]
  BY DEF RetainedInv, JournalInv, JournalTypeOK, Commit, executionVars
<1>2. KeptVersions \subseteq DOMAIN past
  BY DEF KeptVersions
<1>3. /\ evaluation.version \in 0..version
      /\ evaluation.version \in DOMAIN past => past[evaluation.version] = seen
      /\ 0 \in DOMAIN past => past[0] = NoRows
  BY DEF RetainedInv, SeenIsPast
<1>4. ASSUME NEW v \in 0..version, v \in DOMAIN past' PROVE v \in DOMAIN past /\ past'[v] = past[v]
  <2>1. v # version + 1
    BY <1>1
  <2> QED
    BY <1>1, <1>2, <1>4, <2>1
<1>5. SeenIsPast'
  <2>1. 0 \in 0..version /\ evaluation'.version \in 0..version'
    BY <1>1, <1>3
  <2>2. evaluation'.version \in DOMAIN past' => past'[evaluation'.version] = seen'
    BY <1>1, <1>3, <1>4
  <2>3. 0 \in DOMAIN past' => past'[0] = NoRows
    BY <1>3, <1>4, <2>1
  <2> QED
    BY <2>1, <2>2, <2>3 DEF SeenIsPast
<1> QED
  BY <1>1, <1>5 DEF RetainedInv, BaseCovers

\* Every step keeps the invariant, where notifications do not run between write and commit.
LEMMA NextRetainedInv ==
  ASSUME ~YieldBeforeCommit, RetainedInv, [Next]_vars
  PROVE  RetainedInv'
<1>1. JournalInv' /\ JournalInv /\ Leased(windows)
  BY NextJournalInv DEF RetainedInv
<1>2. ASSUME NEW k \in Keys, DeleteRow(k) PROVE RetainedInv'
  BY <1>1, <1>2, JournalKeeps DEF DeleteRow, Store
<1>3. ASSUME NEW k \in Keys, NEW r \in Rows, SetRow(k, r) PROVE RetainedInv'
  BY <1>1, <1>3, JournalKeeps DEF SetRow, Store
<1>4. CASE Commit
  BY <1>1, <1>4, CommitKeepsRetained
<1>5. ASSUME NEW w \in Windows, Acquire(w) PROVE RetainedInv'
  <2>1. /\ writing = 0 /\ windows' = [windows EXCEPT ![w] = @ + 1] /\ UNCHANGED storeVars
    BY <1>5 DEF Acquire
  <2>2. Leased(windows')
    BY <1>1, <2>1, LeasedChange
  <2>3. CASE Live
    <3>1. Refresh(windows')
      BY <1>5, <2>3 DEF Acquire
    <3>2. /\ seen' = rows /\ evaluation'.version = version /\ base' = BaseLimit(windows')
          /\ Right(evaluation', rows, base')
      BY <2>1, <2>2, <3>1, RefreshRight
    <3> QED
      BY <1>1, <2>1, <2>2, <3>2, RefreshKeeps
  <2>4. CASE ~Live
    <3>1. base' = BaseLimit(windows') /\ evaluation' = Evaluate(Retained(base')) /\ seen' = past[version]
      BY <1>5, <2>4 DEF Acquire
    <3>2. past[version] = rows /\ rows \in Contents
      BY <1>1, <2>1 DEF JournalInv, JournalTypeOK, CommittedWhenIdle
    <3>3. base' \in Nat \union {NoLimit}
      BY <2>2, <3>1, BaseLimitIs
    <3>4. Right(evaluation', rows, base') /\ evaluation'.version = version
      BY <3>1, <3>2, <3>3, EvaluateRight
    <3> QED
      BY <1>1, <2>1, <2>2, <3>1, <3>2, <3>4, RefreshKeeps
  <2> QED
    BY <2>3, <2>4
<1>6. ASSUME NEW w \in Windows, ReleaseLease(w) PROVE RetainedInv'
  <2>1. /\ writing = 0 /\ windows[w] > 0 /\ windows' = [windows EXCEPT ![w] = @ - 1]
        /\ UNCHANGED storeVars
    BY <1>6 DEF ReleaseLease
  <2>2. Leased(windows')
    BY <1>1, <2>1, LeasedChange
  <2>3. CASE Leases > 1
    <3>1. Refresh(windows')
      BY <1>6, <2>3 DEF ReleaseLease
    <3>2. /\ seen' = rows /\ evaluation'.version = version /\ base' = BaseLimit(windows')
          /\ Right(evaluation', rows, base')
      BY <2>1, <2>2, <3>1, RefreshRight
    <3> QED
      BY <1>1, <2>1, <2>2, <3>2, RefreshKeeps
  <2>4. CASE ~(Leases > 1)
    <3>1. base' = 0 /\ evaluation' = NoEvaluation /\ seen' = NoRows
      BY <1>6, <2>4 DEF ReleaseLease, Discard
    <3>2. version' = version /\ past' = past /\ version \in Nat
      BY <1>1, <2>1 DEF storeVars, JournalInv, JournalTypeOK
    <3>3. SeenIsPast'
      <4>1. 0 \in DOMAIN past => past[0] = NoRows
        BY DEF RetainedInv, SeenIsPast
      <4> QED
        BY <3>1, <3>2, <4>1 DEF SeenIsPast, NoEvaluation
    <3>4. Right(evaluation, seen, base)' /\ seen' \in Contents
      BY <3>1, NothingRight
    <3>5. BaseCovers' /\ Leased(windows)'
      BY <2>2, <3>1 DEF BaseCovers
    <3> QED
      BY <1>1, <3>3, <3>4, <3>5 DEF RetainedInv
  <2> QED
    BY <2>3, <2>4
<1>7. CASE Notify
  <2>1. writing = 0 /\ Refresh(windows) /\ UNCHANGED <<storeVars, journal, windows>>
    BY <1>7 DEF Notify
  <2>2. /\ seen' = rows /\ evaluation'.version = version /\ base' = BaseLimit(windows)
        /\ Right(evaluation', rows, base')
    BY <1>1, <2>1, RefreshRight
  <2>3. windows' = windows /\ UNCHANGED storeVars
    BY <2>1
  <2> QED
    BY <1>1, <2>1, <2>2, <2>3, RefreshKeeps
<1>8. CASE RetainElsewhere
  BY <1>1, <1>8, JournalKeeps DEF RetainElsewhere, storeVars
<1>9. CASE ReleaseElsewhere
  BY <1>1, <1>9, JournalKeeps DEF ReleaseElsewhere, storeVars
<1>10. CASE Reset
  <2>1. /\ version' = 0 /\ past' = FirstVersion /\ windows' = [w \in Windows |-> 0]
        /\ base' = 0 /\ evaluation' = NoEvaluation /\ seen' = NoRows
    BY <1>10 DEF Reset, Discard
  <2>2. Leased(windows)'
    <3>1. windows' \in [Windows -> Nat] /\ {w \in Windows : windows'[w] > 0} = {}
      BY <2>1
    <3> QED
      BY <3>1, FS_EmptySet DEF Leased
  <2>3. SeenIsPast'
    BY <2>1 DEF SeenIsPast, NoEvaluation, FirstVersion
  <2>4. Right(evaluation, seen, base)' /\ seen' \in Contents /\ BaseCovers'
    BY <2>1, NothingRight DEF BaseCovers
  <2> QED
    BY <1>1, <2>2, <2>3, <2>4 DEF RetainedInv
<1>11. CASE UNCHANGED vars
  BY <1>1, <1>11, JournalKeeps DEF vars, storeVars
<1> QED
  BY <1>2, <1>3, <1>4, <1>5, <1>6, <1>7, <1>8, <1>9, <1>10, <1>11 DEF Next

\* The invariant of the execution is inductive, where no notification runs between the
\* write of a row and the commit of its version.
THEOREM RetainedInductive == ~YieldBeforeCommit /\ Spec => []RetainedInv
<1> SUFFICES ASSUME ~YieldBeforeCommit PROVE Spec => []RetainedInv
  OBVIOUS
<1>1. Init => RetainedInv
  BY InitRetainedInv
<1>2. RetainedInv /\ [Next]_vars => RetainedInv'
  BY NextRetainedInv
<1> QED
  BY <1>1, <1>2, PTL DEF Spec
-------------------------------------------------------------------------------
(* What it says of the results. *)

\* Sequences with the same elements have the same subsequence.
LEMMA SameSubSeq ==
  ASSUME NEW s, NEW t, NEW a \in Int, NEW b \in Int, \A i \in a..b : s[i] = t[i]
  PROVE  SubSeq(s, a, b) = SubSeq(t, a, b)
<1> DEFINE T == {s[i] : i \in a..b}
           u == SubSeq(s, a, b)
           v == SubSeq(t, a, b)
<1>1. \A i \in a..b : s[i] \in T /\ t[i] \in T
  OBVIOUS
<1> HIDE DEF T
<1>2. /\ u \in Seq(T) /\ Len(u) = (IF a <= b THEN b - a + 1 ELSE 0)
      /\ \A i \in 1..(b - a + 1) : u[i] = s[a + i - 1]
  BY <1>1, SubSeqProperties
<1>3. /\ v \in Seq(T) /\ Len(v) = (IF a <= b THEN b - a + 1 ELSE 0)
      /\ \A i \in 1..(b - a + 1) : v[i] = t[a + i - 1]
  BY <1>1, SubSeqProperties
<1>4. \A i \in 1..(b - a + 1) : a + i - 1 \in a..b
  OBVIOUS
<1> HIDE DEF u, v
<1>5. \A i \in 1..Len(u) : u[i] = v[i]
  <2>1. \A i \in 1..Len(u) : i \in 1..(b - a + 1)
    BY <1>2
  <2>2. \A i \in 1..(b - a + 1) : s[a + i - 1] = t[a + i - 1]
    BY <1>4
  <2> QED
    BY <1>2, <1>3, <2>1, <2>2
<1>6. u = v
  BY <1>2, <1>3, <1>5, SeqEqual
<1> QED
  BY <1>6 DEF u, v

\* What a right evaluation retains, in numbers.
LEMMA RightIs ==
  ASSUME NEW e, NEW c \in Contents, NEW b, Right(e, c, b)
  PROVE  /\ Len(Selected(c)) = Cardinality(Found(c)) /\ e.total = Len(Selected(c))
         /\ Len(e.window) \in Nat /\ Len(Selected(c)) \in Nat /\ Len(e.window) <= Len(Selected(c))
         /\ \A i \in 1..Len(e.window) : e.window[i] = Selected(c)[i]
         /\ b \in Nat \union {NoLimit}
         /\ b = NoLimit => Len(e.window) = Len(Selected(c))
         /\ b # NoLimit => Len(Selected(c)) <= Len(e.window) \/ b <= Len(e.window)
<1>1. Len(Selected(c)) = Cardinality(Found(c)) /\ Cardinality(Found(c)) \in Nat
  BY SelectedIs DEF Lists
<1>2. Len(e.window) \in Nat
  BY LenProperties DEF Right
<1> QED
  BY <1>1, <1>2 DEF Right

\* A right evaluation has the first rows of the full result, enough of them.
LEMMA RightIsPrefix ==
  ASSUME NEW e, NEW c \in Contents, NEW b, Right(e, c, b)
  PROVE  /\ e.total = Len(Selected(c))
         /\ IsPrefix(e.window, Selected(c))
         /\ Filled(e.window, Len(Selected(c)), b)
<1> DEFINE w == e.window
           all == Selected(c)
<1>1. /\ e.total = Len(all) /\ Len(w) \in Nat /\ Len(all) \in Nat /\ Len(w) <= Len(all)
      /\ \A i \in 1..Len(w) : w[i] = all[i]
      /\ b \in Nat \union {NoLimit}
      /\ b # NoLimit => Len(all) <= Len(w) \/ b <= Len(w)
  BY RightIs
<1> HIDE DEF w, all
<1>2. IsPrefix(w, all)
  <2>1. SubSeq(w, 1, Len(w)) = SubSeq(all, 1, Len(w))
    BY <1>1, SameSubSeq
  <2> QED
    BY <1>1, <2>1 DEF IsPrefix
<1>3. Filled(w, Len(all), b)
  BY <1>1, LeastIs DEF Filled
<1> QED
  BY <1>1, <1>2, <1>3 DEF w, all

\* A window that the base window covers shows the same of a right evaluation as of the
\* full result.
LEMMA RightShows ==
  ASSUME NEW e, NEW c \in Contents, NEW b, Right(e, c, b), NEW w \in Windows,
         w.limit = NoLimit => b = NoLimit,
         b # NoLimit /\ w.limit # 0 => w.offset + w.limit <= b
  PROVE  Slice(e.window, w) = Slice(Selected(c), w)
<1> DEFINE s == e.window
           all == Selected(c)
           to(n) == IF w.limit = NoLimit THEN n ELSE Least(w.offset + w.limit, n)
           o == w.offset
<1>1. /\ Len(s) \in Nat /\ Len(all) \in Nat /\ Len(s) <= Len(all)
      /\ \A i \in 1..Len(s) : s[i] = all[i]
      /\ b \in Nat \union {NoLimit}
      /\ b = NoLimit => Len(s) = Len(all)
      /\ b # NoLimit => Len(all) <= Len(s) \/ b <= Len(s)
  BY RightIs
<1>2. o \in Nat /\ w.limit \in Nat \union {NoLimit} /\ NoLimit \notin Nat
  BY DataAssumption
<1>3. Slice(s, w) = SubSeq(s, o + 1, to(Len(s))) /\ Slice(all, w) = SubSeq(all, o + 1, to(Len(all)))
  BY DEF Slice
<1> HIDE DEF s, all
<1>4. CASE Len(s) = Len(all)
  <2>1. to(Len(s)) = to(Len(all)) /\ to(Len(s)) \in Int /\ to(Len(s)) <= Len(s)
    BY <1>1, <1>2, <1>4, LeastIs
  <2> HIDE DEF to, o
  <2>2. \A i \in (o + 1)..to(Len(s)) : s[i] = all[i]
    BY <1>1, <1>2, <2>1
  <2>3. SubSeq(s, o + 1, to(Len(s))) = SubSeq(all, o + 1, to(Len(s)))
    <3>1. o + 1 \in Int
      BY <1>2 DEF o
    <3> QED
      BY <2>1, <2>2, <3>1, SameSubSeq
  <2> QED
    BY <1>3, <2>1, <2>3 DEF s, all
<1>5. CASE Len(s) # Len(all)
  <2>1. b # NoLimit /\ w.limit # NoLimit /\ w.limit \in Nat /\ b \in Nat /\ b <= Len(s)
    BY <1>1, <1>2, <1>5
  <2>2. CASE w.limit = 0
    <3>1. to(Len(s)) \in Int /\ to(Len(s)) < o + 1 /\ to(Len(all)) \in Int /\ to(Len(all)) < o + 1
      BY <1>1, <1>2, <2>1, <2>2, LeastIs
    <3>2. o + 1 \in Int
      BY <1>2
    <3> HIDE DEF to, o
    <3>3. SubSeq(s, o + 1, to(Len(s))) = <<>> /\ SubSeq(all, o + 1, to(Len(all))) = <<>>
      BY <3>1, <3>2, SubSeqEmpty
    <3> QED
      BY <1>3, <3>3 DEF s, all
  <2>3. CASE w.limit # 0
    <3>1. w.offset + w.limit <= b
      BY <2>1, <2>3
    <3>2. /\ to(Len(s)) = to(Len(all)) /\ to(Len(s)) \in Int /\ to(Len(s)) <= Len(s)
      BY <1>1, <1>2, <2>1, <3>1, LeastIs
    <3>3. o + 1 \in Int /\ o \in Nat
      BY <1>2
    <3> HIDE DEF to, o
    <3>4. \A i \in (o + 1)..to(Len(s)) : s[i] = all[i]
      BY <1>1, <3>2, <3>3
    <3>5. SubSeq(s, o + 1, to(Len(s))) = SubSeq(all, o + 1, to(Len(s)))
      BY <3>2, <3>3, <3>4, SameSubSeq
    <3> QED
      BY <1>3, <3>2, <3>5 DEF s, all
  <2> QED
    BY <2>2, <2>3
<1> QED
  BY <1>4, <1>5

LEMMA InvRetainsPrefix == RetainedInv => RetainedIsPrefix
<1>1. SUFFICES ASSUME RetainedInv PROVE RetainedIsPrefix
  OBVIOUS
<1>2. seen \in Contents /\ Right(evaluation, seen, base)
  BY <1>1 DEF RetainedInv
<1> QED
  BY <1>2, RightIsPrefix DEF RetainedIsPrefix

LEMMA InvShowsReference == RetainedInv => ShownIsReference
<1>1. SUFFICES ASSUME RetainedInv PROVE ShownIsReference
  OBVIOUS
<1>2. seen \in Contents /\ Right(evaluation, seen, base) /\ Leased(windows)
  BY <1>1 DEF RetainedInv
<1>3. evaluation.total = Len(Selected(seen))
  BY <1>2, RightIs
<1>4. ASSUME NEW w \in Windows, windows[w] > 0
      PROVE  Slice(evaluation.window, w) = Slice(Selected(seen), w)
  <2>1. CASE base = BaseLimit(windows)
    <3>1. /\ w.limit = NoLimit => base = NoLimit
          /\ base # NoLimit /\ w.limit # 0 => w.offset + w.limit <= base
      BY <1>2, <1>4, <2>1, BaseLimitIs
    <3> QED
      BY <1>2, <3>1, RightShows
  <2>2. CASE evaluation = NoEvaluation /\ seen = NoRows
    <3>1. Selected(seen) = <<>>
      <4>1. Right(NoEvaluation, NoRows, 0) /\ NoRows \in Contents
        BY NothingRight
      <4>2. Len(Selected(NoRows)) = 0
        BY <4>1, RightIs DEF NoEvaluation
      <4>3. Selected(NoRows) \in Seq(Found(NoRows))
        BY <4>1, SelectedIs DEF Lists
      <4> QED
        BY <2>2, <4>2, <4>3, EmptySeq
    <3>2. evaluation.window = <<>>
      BY <2>2 DEF NoEvaluation
    <3> QED
      BY <3>1, <3>2
  <2> QED
    BY <1>1, <2>1, <2>2 DEF RetainedInv, BaseCovers
<1> QED
  BY <1>3, <1>4 DEF ShownIsReference

\* What is retained are the first rows of the full result, enough of them for every lease.
THEOREM RetainsPrefix == ~YieldBeforeCommit /\ Spec => []RetainedIsPrefix
BY RetainedInductive, InvRetainsPrefix, PTL

\* What a lease shows is what its query gives on the rows of the version it is labelled with.
THEOREM ShowsReference == ~YieldBeforeCommit /\ Spec => []ShownIsReference
BY RetainedInductive, InvShowsReference, PTL

\* And with no mutation under way, when that version is the current one, on the rows that
\* are stored: the plan's promise, which the interleaving of a notification breaks.
THEOREM SettlesWithoutYield == ~YieldBeforeCommit /\ Spec => []Settled
<1>1. RetainedInv => Settled
  <2>1. SUFFICES ASSUME RetainedInv, Live, writing = 0, evaluation.version = version
                 PROVE  \A w \in Windows : windows[w] > 0 =>
                          Slice(evaluation.window, w) = Slice(Selected(rows), w)
    BY DEF Settled
  <2>2. seen = rows
    BY <2>1 DEF RetainedInv, JournalInv, JournalTypeOK, CommittedWhenIdle, SeenIsPast
  <2>3. ShownIsReference
    BY <2>1, InvShowsReference
  <2> QED
    BY <2>1, <2>2, <2>3 DEF ShownIsReference
<1> QED
  BY <1>1, RetainedInductive, PTL
===============================================================================
