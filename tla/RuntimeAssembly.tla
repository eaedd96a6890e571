---------------------------- MODULE RuntimeAssembly ----------------------------
(***************************************************************************)
(* The parts of a runtime are started one after the other and closed in     *)
(* another order.  A part that cannot be started closes those before it;    *)
(* every list of what to close is written out in the code, once per part.   *)
(* The runtime's close may be run by several fibers at once.                *)
(*                                                                         *)
(* The fiber that starts the parts does not wait between two of them: it is *)
(* interrupted, if at all, while it starts one.                            *)
(***************************************************************************)
EXTENDS Sequences, SequencesExt, FiniteSets

CONSTANTS
  Closers,  \* fibers that close the runtime
  Startup   \* the fiber that makes it

ASSUME AssemblyAssumption == IsFiniteSet(Closers) /\ Startup \notin Closers

\* The core, the gRPC lease manager, the TCP ingress, the server, and the ingresses of
\* Kafka and of materialized gRPC feeds.
StartOrder == <<"core", "leases", "tcp", "server", "kafka", "feeds">>
Parts == ToSet(StartOrder)

VARIABLES
  partState,  \* "absent", "waiting" to be started, "running", "closing" or "closed"
  startup,    \* "starting", "started" or "failed"
  toClose,    \* what a fiber has still to close; a fiber that is not closing has none
  busy        \* whether a fiber is closing the first of them

assemblyVars == <<partState, startup, toClose, busy>>

\* The options say which parts there are.
AssemblyInit ==
  /\ \E tcp, kafka, grpc \in {"absent", "waiting"} :
       partState = [p \in Parts |->
         CASE p = "tcp" -> tcp
           [] p = "kafka" -> kafka
           [] p \in {"leases", "feeds"} -> grpc
           [] OTHER -> "waiting"]
  /\ startup = "starting"
  /\ toClose = [c \in Closers \union {Startup} |-> <<>>]
  /\ busy = [c \in Closers \union {Startup} |-> FALSE]

\* MUTANT of CloseAfterFailed: a failed Kafka ingress leaves the server.
CloseAfterFailedLeaving(p) ==
  CASE p = "tcp"    -> <<"leases", "core">>
    [] p = "server" -> <<"tcp", "leases", "core">>
    [] p = "kafka"  -> <<"tcp", "leases", "core">>
    [] p = "feeds"  -> <<"tcp", "kafka", "leases", "server", "core">>
    [] OTHER -> <<>>

\* What is closed when the start of a part fails or is interrupted.
CloseAfterFailed(p) ==
  CASE p = "tcp"    -> <<"leases", "core">>
    [] p = "server" -> <<"tcp", "leases", "core">>
    [] p = "kafka"  -> <<"tcp", "server", "leases", "core">>
    [] p = "feeds"  -> <<"tcp", "kafka", "leases", "server", "core">>
    [] OTHER -> <<>>

CloseOrder == <<"tcp", "feeds", "leases", "kafka", "server", "core">>
-------------------------------------------------------------------------------
\* p is the first part that has still to be started.
NextToStart(p) ==
  /\ startup = "starting" /\ partState[p] = "waiting"
  /\ \A i, j \in DOMAIN StartOrder :
       StartOrder[i] = p /\ j < i => partState[StartOrder[j]] # "waiting"

StartPart(p) ==
  /\ NextToStart(p)
  /\ partState' = [partState EXCEPT ![p] = "running"]
  /\ startup' = IF \E q \in Parts \ {p} : partState[q] = "waiting" THEN startup ELSE "started"
  /\ UNCHANGED <<toClose, busy>>

\* The lease manager is made of what is there: it cannot fail.
FailPart(p) ==
  /\ NextToStart(p) /\ p # "leases"
  /\ partState' = [partState EXCEPT ![p] = "closed"]
  /\ startup' = "failed"
  /\ toClose' = [toClose EXCEPT ![Startup] = CloseAfterFailed(p)]
  /\ UNCHANGED busy

CloseRuntime(c) ==
  /\ startup = "started"
  /\ toClose[c] = <<>>
  /\ toClose' = [toClose EXCEPT ![c] = CloseOrder]
  /\ UNCHANGED <<partState, startup, busy>>

\* A part is closed by the first fiber that comes to it.
BeginClosePart(c) ==
  /\ toClose[c] # <<>> /\ partState[Head(toClose[c])] = "running"
  /\ partState' = [partState EXCEPT ![Head(toClose[c])] = "closing"]
  /\ busy' = [busy EXCEPT ![c] = TRUE]
  /\ UNCHANGED <<startup, toClose>>

\* Closing a part succeeds, fails or is interrupted: the rest is closed all the same.
EndClosePart(c) ==
  /\ busy[c]
  /\ partState' = [partState EXCEPT ![Head(toClose[c])] = "closed"]
  /\ toClose' = [toClose EXCEPT ![c] = Tail(@)]
  /\ busy' = [busy EXCEPT ![c] = FALSE]
  /\ UNCHANGED startup

\* A part that is absent, closed, or being closed by another fiber is passed over: some
\* parts make the later fiber wait, others do not.
PassOver(c) ==
  /\ toClose[c] # <<>> /\ ~busy[c]
  /\ partState[Head(toClose[c])] # "running"
  /\ toClose' = [toClose EXCEPT ![c] = Tail(@)]
  /\ UNCHANGED <<partState, startup, busy>>

AssemblyNext ==
  \/ \E p \in Parts : StartPart(p) \/ FailPart(p)
  \/ \E c \in Closers : CloseRuntime(c)
  \/ \E c \in Closers \union {Startup} : BeginClosePart(c) \/ EndClosePart(c) \/ PassOver(c)

AssemblySpec == AssemblyInit /\ [][AssemblyNext]_assemblyVars
-------------------------------------------------------------------------------
\* The core is closed after everything that works with it: no other part runs when its
\* close begins, nor, if one fiber alone closes, is being closed; and when no fiber has
\* anything left to close, after a failed start or for a user, no part is left running
\* (runtime/internal.ts makeViewServerRuntimeFromResolvedOptions).
NothingOutlivesTheCore ==
  LET others(states) == {p \in Parts \ {"core"} : partState[p] \in states}
      working == {c \in DOMAIN toClose : toClose[c] # <<>>}
      done == working = {} /\ (startup = "failed" \/ partState["core"] = "closed")
  IN  /\ partState["core"] \in {"closing", "closed"} => others({"running"}) = {}
      /\ partState["core"] = "closing" /\ Cardinality(working) = 1 => others({"closing"}) = {}
      /\ done => partState["core"] = "closed" /\ others({"running", "closing"}) = {}
===============================================================================
