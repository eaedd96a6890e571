----------------------------- MODULE IngestedLog -----------------------------
(***************************************************************************)
(* What Kafka ingestion promises of a source's partitions: rows are        *)
(* applied in log order, an offset is committed only when every record     *)
(* before it has been applied by the running process, and no record that   *)
(* cannot be applied is ever passed.  Rows live in memory: a restart       *)
(* forgets what was applied and resumes at the committed offset or at the  *)
(* log's beginning.                                                        *)
(***************************************************************************)
EXTENDS Naturals, Sequences

CONSTANTS
  Partitions,
  Log    \* [Partitions -> Seq({"ok", "bad"})]: can the record be decoded

VARIABLES
  start,     \* where the running process started to read each partition
  applied,   \* up to where it applied the records since
  committed  \* the group's committed offset, at the broker

logVars == <<start, applied, committed>>

Applicable(p, from, to) ==
  to \in from..Len(Log[p]) /\ \A k \in (from + 1)..to : Log[p][k] = "ok"

LogInit ==
  /\ start = [p \in Partitions |-> 0]
  /\ applied = [p \in Partitions |-> 0]
  /\ committed = [p \in Partitions |-> 0]

\* One call of publishMany applies records of several partitions.
Apply ==
  /\ applied' \in [Partitions -> Nat]
  /\ \A p \in Partitions : Applicable(p, applied[p], applied'[p])
  /\ UNCHANGED <<start, committed>>

CommitOffset(p) ==
  /\ \E offset \in (start[p] + 1)..applied[p] :
       committed' = [committed EXCEPT ![p] = offset]
  /\ UNCHANGED <<start, applied>>

Resume ==
  /\ \/ start' = committed
     \/ start' = [p \in Partitions |-> 0]
  /\ applied' = start'
  /\ UNCHANGED committed

LogNext == Apply \/ (\E p \in Partitions : CommitOffset(p)) \/ Resume

LogSpec == LogInit /\ [][LogNext]_logVars
===============================================================================
