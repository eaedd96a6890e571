---------------------------- MODULE SharedHealthRead ----------------------------
(***************************************************************************)
(* The server answers the health requests that come while it is reading the *)
(* health with one read.  A request that finds no read forks one; those it  *)
(* finds wait for the read's deferred.  When the server's scope is closed,  *)
(* the read is abandoned.                                                   *)
(*                                                                         *)
(* The state is changed under a lock that nobody waits with, so a section   *)
(* under the lock is one step.                                              *)
(***************************************************************************)
EXTENDS Naturals, FiniteSets

CONSTANTS
  Requests,
  MaxSharedReads  \* bound: the reads that are forked

ASSUME SharedReadAssumption == MaxSharedReads \in Nat

SharedReads == 1..MaxSharedReads

VARIABLES
  sharedRead,  \* the active read, or 0
  readsClosed, \* closed
  fiber,       \* "none", "reading", "completing", "done" or "interrupted", of a read
  deferred,    \* "pending", "done" or "interrupted", of a read
  waitsFor,    \* the read a caller waits for, or 0
  answers      \* what callers have been told last

sharedReadVars == <<sharedRead, readsClosed, fiber, deferred, waitsFor, answers>>

SharedReadInit ==
  /\ sharedRead = 0
  /\ readsClosed = FALSE
  /\ fiber = [r \in SharedReads |-> "none"]
  /\ deferred = [r \in SharedReads |-> "pending"]
  /\ waitsFor = [c \in Requests |-> 0]
  /\ answers = [c \in Requests |-> "none"]
-------------------------------------------------------------------------------
\* A caller that comes too late is interrupted.
Refuse(c) ==
  /\ waitsFor[c] = 0 /\ readsClosed
  /\ answers' = [answers EXCEPT ![c] = "interrupted"]
  /\ UNCHANGED <<sharedRead, readsClosed, fiber, deferred, waitsFor>>

Follow(c) ==
  /\ waitsFor[c] = 0 /\ ~readsClosed
  /\ sharedRead # 0
  /\ waitsFor' = [waitsFor EXCEPT ![c] = sharedRead]
  /\ UNCHANGED <<sharedRead, readsClosed, fiber, deferred, answers>>

\* The fiber may have read the health when the caller leaves the lock, not more.
Lead(c) ==
  /\ waitsFor[c] = 0 /\ ~readsClosed
  /\ sharedRead = 0
  /\ \E r \in SharedReads, at \in {"reading", "completing"} :
       /\ fiber[r] = "none" /\ \A q \in 1..(r - 1) : fiber[q] # "none"
       /\ fiber' = [fiber EXCEPT ![r] = at]
       /\ sharedRead' = r
       /\ waitsFor' = [waitsFor EXCEPT ![c] = r]
  /\ UNCHANGED <<readsClosed, deferred, answers>>

\* runtime.health() succeeds, fails or is interrupted.
ReadHealth(r) ==
  /\ fiber[r] = "reading"
  /\ fiber' = [fiber EXCEPT ![r] = "completing"]
  /\ UNCHANGED <<sharedRead, readsClosed, deferred, waitsFor, answers>>

CompleteActiveRead(r) ==
  /\ fiber[r] = "completing"
  /\ fiber' = [fiber EXCEPT ![r] = "done"]
  /\ deferred' = [deferred EXCEPT ![r] = IF @ = "pending" THEN "done" ELSE @]
  /\ sharedRead' = IF sharedRead = r THEN 0 ELSE sharedRead
  /\ UNCHANGED <<readsClosed, waitsFor, answers>>

\* MUTANT of InterruptActiveRead: whoever waits for the read is left to the read.
InterruptSilently ==
  /\ ~readsClosed
  /\ readsClosed' = TRUE
  /\ sharedRead' = 0
  /\ UNCHANGED <<fiber, deferred, waitsFor, answers>>

\* The finalizer of the scope.
InterruptActiveRead ==
  /\ ~readsClosed
  /\ readsClosed' = TRUE
  /\ sharedRead' = 0
  /\ deferred' = [r \in SharedReads |-> IF r = sharedRead THEN "interrupted" ELSE deferred[r]]
  /\ UNCHANGED <<fiber, waitsFor, answers>>

\* The detached interruption reaches the fiber unless it is completing.
InterruptFiber(r) ==
  /\ readsClosed
  /\ fiber[r] = "reading"
  /\ fiber' = [fiber EXCEPT ![r] = "interrupted"]
  /\ UNCHANGED <<sharedRead, readsClosed, deferred, waitsFor, answers>>

\* A waiting caller is answered as the deferred says, or interrupted itself.
Return(c) ==
  /\ waitsFor[c] # 0
  /\ \E answer \in {deferred[waitsFor[c]], "interrupted"} \ {"pending"} :
       answers' = [answers EXCEPT ![c] = answer]
  /\ waitsFor' = [waitsFor EXCEPT ![c] = 0]
  /\ UNCHANGED <<sharedRead, readsClosed, fiber, deferred>>

SharedReadNext ==
  \/ InterruptActiveRead
  \/ \E c \in Requests : Refuse(c) \/ Follow(c) \/ Lead(c) \/ Return(c)
  \/ \E r \in SharedReads : ReadHealth(r) \/ CompleteActiveRead(r) \/ InterruptFiber(r)

SharedReadSpec == SharedReadInit /\ [][SharedReadNext]_sharedReadVars
-------------------------------------------------------------------------------
\* A caller waits only for what will come: while its answer is pending, its read is the
\* active one and its fiber still completes it; and never are two reads of the health
\* pending at once (rpc-handlers.ts makeCoalescedHealthRead).
WaitersAreAnswered ==
  /\ \A c \in Requests : waitsFor[c] # 0 /\ deferred[waitsFor[c]] = "pending" =>
       /\ sharedRead = waitsFor[c]
       /\ fiber[sharedRead] \in {"reading", "completing"}
  /\ sharedRead # 0 => deferred[sharedRead] = "pending"
  /\ Cardinality({r \in SharedReads : fiber[r] # "none" /\ deferred[r] = "pending"}) <= 1
===============================================================================
