----------------------------- MODULE RuntimeHealth -----------------------------
(***************************************************************************)
(* The cached health of a runtime: reads of the engine's health, shared by  *)
(* the callers of one epoch, and the scheduler that refreshes the cache     *)
(* some time after every mutation.                                         *)
(*                                                                         *)
(* The engine is the number of mutations it has committed; a read returns  *)
(* it, and health is the number last installed.  A mutation starts a new   *)
(* epoch after its commit, so reads from before it are not shared and, if  *)
(* a caller asked for them, not installed.                                 *)
(***************************************************************************)
EXTENDS Naturals, FiniteSets, FiniteSetsExt

CONSTANTS
  Mutators,   \* fibers that mutate the engine or request a refresh
  Readers,    \* fibers that read the health
  Watchers,   \* fibers that subscribe to it, see HealthWatch
  Tokens,     \* runs of the scheduler, numbers
  None,       \* no fiber
  MaxCommits, \* bound on the mutations
  MaxEpoch    \* bound on the epochs before one that no mutation started

ASSUME HealthAssumption ==
  /\ Mutators \intersect (Readers \union Watchers \union Tokens) = {}
  /\ Readers \intersect (Watchers \union Tokens) = {}
  /\ Watchers \intersect Tokens = {}
  /\ Tokens \subseteq Nat
  /\ None \notin Readers \union Watchers \union Tokens

VARIABLES
  commits,      \* mutations the engine has committed
  health,       \* the value of the health atom
  readEpoch,    \* healthReadEpoch
  overtaken,    \* reads during which another was installed: healthInstallEpoch moved
  activeRead,   \* the read in progress that callers join, for each reader
  read,         \* what a read has seen: its epochs and its value
  follows,      \* the read a caller has joined
  pc,           \* where each fiber is
  scheduled, pending, closed, activeToken \* the scheduler

schedulerVars == <<scheduled, pending, closed, activeToken>>
readVars      == <<health, overtaken, activeRead, read, follows>>
healthVars    == <<commits, readEpoch, pc, readVars, schedulerVars>>

Callers == Readers \union Watchers \union Tokens
Fibers  == Mutators \union Callers

\* Callers and the scheduler have a coalescing reader each.
Mode(f) == IF f \in Tokens THEN "scheduled" ELSE "strict"

Goto(f, place) == pc' = [pc EXCEPT ![f] = place]

NoRead == [epoch |-> 0, value |-> 0]

HealthInit ==
  /\ commits = 0
  /\ health = 0
  /\ readEpoch = 0
  /\ overtaken = {}
  /\ activeRead = [mode \in {"strict", "scheduled"} |-> None]
  /\ read = [f \in Callers |-> NoRead]
  /\ follows = [f \in Callers |-> None]
  /\ pc = [f \in Fibers |-> "idle"]
  /\ scheduled = FALSE
  /\ pending = FALSE
  /\ closed = FALSE
  /\ activeToken = None
-------------------------------------------------------------------------------
(* Mutations.  A mutation that has committed is not interrupted before it   *)
(* has requested a refresh.                                                *)

CommitMutation(m) ==
  /\ pc[m] = "idle"
  /\ commits < MaxCommits
  /\ commits' = commits + 1
  /\ Goto(m, "committed")
  /\ UNCHANGED <<readEpoch, readVars, schedulerVars>>

\* requestHealthRefresh: of a mutation, or of an ingress.
BumpEpoch(m) ==
  /\ pc[m] = "committed" \/ (pc[m] = "idle" /\ readEpoch < MaxEpoch)
  /\ readEpoch' = readEpoch + 1
  /\ Goto(m, "requesting")
  /\ UNCHANGED <<commits, readVars, schedulerVars>>

FreeTokens == {t \in Tokens : pc[t] = "idle"}

Request(m) ==
  /\ pc[m] = "requesting"
  /\ IF closed
     THEN Goto(m, "idle") /\ UNCHANGED schedulerVars
     ELSE IF scheduled
     THEN pending' = TRUE /\ Goto(m, "idle") /\ UNCHANGED <<scheduled, closed, activeToken>>
     ELSE /\ FreeTokens # {}
          /\ LET t == Min(FreeTokens)
             IN  activeToken' = t /\ pc' = [pc EXCEPT ![m] = "idle", ![t] = "draining"]
          /\ scheduled' = TRUE
          /\ pending' = TRUE
          /\ UNCHANGED closed
  /\ UNCHANGED <<commits, readEpoch, readVars>>
-------------------------------------------------------------------------------
(* Reads. *)

\* client.health()
BeginRead(r) ==
  /\ pc[r] = "idle"
  /\ Goto(r, "deciding")
  /\ UNCHANGED <<commits, readEpoch, readVars, schedulerVars>>

\* refreshHealth: a read of an epoch of its own.
RefreshNow(f) ==
  /\ pc[f] = "idle"
  /\ readEpoch' = readEpoch + 1
  /\ Goto(f, "deciding")
  /\ UNCHANGED <<commits, readVars, schedulerVars>>

\* Join the read in progress if it is of the current epoch, else lead a new one.
Decide(f) ==
  LET leader == activeRead[Mode(f)]
  IN  /\ pc[f] = "deciding"
      /\ IF leader # None /\ read[leader].epoch = readEpoch
         THEN /\ follows' = [follows EXCEPT ![f] = leader]
              /\ Goto(f, "following")
              /\ UNCHANGED <<activeRead, read>>
         ELSE /\ activeRead' = [activeRead EXCEPT ![Mode(f)] = f]
              /\ read' = [read EXCEPT ![f].epoch = readEpoch]
              /\ Goto(f, "leading")
              /\ UNCHANGED follows
      /\ UNCHANGED <<commits, health, readEpoch, overtaken, schedulerVars>>

StartRead(f) ==
  /\ pc[f] = "leading"
  /\ Goto(f, "reading")
  /\ UNCHANGED <<commits, readEpoch, readVars, schedulerVars>>

ReadEngine(f) ==
  /\ pc[f] = "reading"
  /\ read' = [read EXCEPT ![f].value = commits]
  /\ Goto(f, "installing")
  /\ UNCHANGED <<commits, health, readEpoch, overtaken, activeRead, follows, schedulerVars>>

\* MUTANT of ShouldInstall: a scheduled read is always installed.
ShouldInstallScheduled(f) ==
  Mode(f) = "scheduled" \/ (f \notin overtaken /\ readEpoch = read[f].epoch)

\* Nothing was installed since the read started and, unless it was scheduled, no
\* epoch either.
ShouldInstall(f) ==
  /\ f \notin overtaken
  /\ Mode(f) = "scheduled" \/ readEpoch = read[f].epoch

Reading == {g \in Callers : pc[g] \in {"reading", "installing"}}

\* The read returns the installed value, its own or a newer one's.
Install(f) ==
  /\ pc[f] = "installing"
  /\ health' = IF ShouldInstall(f) THEN read[f].value ELSE health
  /\ overtaken' = (IF ShouldInstall(f) THEN Reading ELSE overtaken) \ {f}
  /\ read' = [read EXCEPT ![f].value = health']
  /\ Goto(f, "completing")
  /\ UNCHANGED <<commits, readEpoch, activeRead, follows, schedulerVars>>

\* Those who joined a read return with it.
Answered(f) == {f} \union {g \in Callers : follows[g] = f}

\* The read is no longer one to join.
Complete(f) ==
  LET done(g) == IF g \in Tokens THEN "checking" ELSE "idle"
  IN  /\ pc[f] = "completing"
      /\ pc' = [g \in Fibers |-> IF g \in Answered(f) THEN done(g) ELSE pc[g]]
      /\ read' = [read EXCEPT ![f] = NoRead]
      /\ follows' = [g \in Callers |-> IF g \in Answered(f) THEN None ELSE follows[g]]
      /\ activeRead' = [activeRead EXCEPT ![Mode(f)] = IF @ = f THEN None ELSE @]
      /\ UNCHANGED <<commits, health, readEpoch, overtaken, schedulerVars>>

\* Only one who waits for another's read can be interrupted.
InterruptRead(r) ==
  /\ pc[r] = "following"
  /\ follows' = [follows EXCEPT ![r] = None]
  /\ Goto(r, "idle")
  /\ UNCHANGED <<commits, health, readEpoch, overtaken, activeRead, read, schedulerVars>>
-------------------------------------------------------------------------------
(* The scheduler. *)

ClearPending(t) ==
  /\ pc[t] = "draining"
  /\ pending' = FALSE
  /\ Goto(t, "sleeping")
  /\ UNCHANGED <<commits, readEpoch, readVars, scheduled, closed, activeToken>>

Wake(t) ==
  /\ pc[t] = "sleeping"
  /\ Goto(t, "deciding")
  /\ UNCHANGED <<commits, readEpoch, readVars, schedulerVars>>

\* MUTANT of Check: a request made during the read is not noticed.
CheckOnce(t) ==
  /\ pc[t] = "checking"
  /\ scheduled' = FALSE
  /\ activeToken' = None
  /\ Goto(t, "ending")
  /\ UNCHANGED <<commits, readEpoch, readVars, pending, closed>>

Check(t) ==
  /\ pc[t] = "checking"
  /\ IF pending
     THEN Goto(t, "draining") /\ UNCHANGED <<scheduled, activeToken>>
     ELSE /\ scheduled' = FALSE
          /\ activeToken' = None
          /\ Goto(t, "ending")
  /\ UNCHANGED <<commits, readEpoch, readVars, pending, closed>>

\* clearActiveRun; another run may have started meanwhile.  That it finds its own
\* token takes a defect in a read, which is not modelled.
EndRun(t) ==
  /\ pc[t] = "ending"
  /\ IF activeToken = t
     THEN scheduled' = FALSE /\ pending' = FALSE /\ activeToken' = None
     ELSE UNCHANGED <<scheduled, pending, activeToken>>
  /\ Goto(t, "idle")
  /\ UNCHANGED <<commits, readEpoch, readVars, closed>>

CloseScheduler ==
  /\ ~closed
  /\ closed' = TRUE
  /\ scheduled' = FALSE
  /\ pending' = FALSE
  /\ activeToken' = None
  /\ UNCHANGED <<commits, readEpoch, pc, readVars>>

\* Closing interrupts the run, which first completes a read it has begun.
InterruptRun(t) ==
  /\ closed
  /\ pc[t] \in {"draining", "sleeping", "deciding", "checking"}
  /\ Goto(t, "ending")
  /\ UNCHANGED <<commits, readEpoch, readVars, schedulerVars>>
-------------------------------------------------------------------------------
ReadStep(f) ==
  Decide(f) \/ StartRead(f) \/ ReadEngine(f) \/ Install(f) \/ Complete(f)

RunStep(t) ==
  ClearPending(t) \/ Wake(t) \/ Check(t) \/ EndRun(t) \/ InterruptRun(t)

HealthNext ==
  \/ \E m \in Mutators : CommitMutation(m) \/ BumpEpoch(m) \/ Request(m)
  \/ \E r \in Readers : BeginRead(r) \/ (readEpoch < MaxEpoch /\ RefreshNow(r)) \/ InterruptRead(r)
  \/ \E f \in Callers : ReadStep(f)
  \/ \E t \in Tokens : RunStep(t)
  \/ CloseScheduler

\* A fiber that can run does: those that have committed go on, reads and runs of
\* the scheduler complete.  Nobody has to mutate, to read or to close.
Continue(m) == (pc[m] = "committed" /\ BumpEpoch(m)) \/ Request(m)

HealthFairness ==
  /\ \A m \in Mutators : WF_healthVars(Continue(m))
  /\ \A f \in Callers : WF_healthVars(ReadStep(f))
  /\ \A t \in Tokens : WF_healthVars(RunStep(t))

HealthSpec == HealthInit /\ [][HealthNext]_healthVars /\ HealthFairness
-------------------------------------------------------------------------------
(* Properties. *)

\* The cached health never goes back to an earlier state of the engine, however
\* scheduled and requested reads overtake each other (readRuntimeHealth,
\* runtime-client.ts:67).
HealthNeverGoesBack == [][health' >= health]_healthVars

\* Once mutations cease the cached health is that of the engine, unless the
\* scheduler was closed: no request is lost between the end of a read and the
\* end of a run (drainRefreshes, health.ts:192).
HealthCatchesUp == <>[](health = commits \/ closed)
===============================================================================
