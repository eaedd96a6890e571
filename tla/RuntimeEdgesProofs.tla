--------------------------- MODULE RuntimeEdgesProofs ---------------------------
(***************************************************************************)
(* What the edges of the runtime keep for every number of callers, sockets, *)
(* sources, feeds and subscriptions: the server's shared health read, the   *)
(* start and close of a runtime, the health of the Kafka ingress, the       *)
(* materialized gRPC feeds, the remote client's subscriptions, the TCP      *)
(* ingress, and the cached health of a runtime with the subscriptions to    *)
(* it.  Each part has an inductive invariant of its own.                    *)
(*                                                                         *)
(* And that the Kafka ingress of a region implements the log it promises,  *)
(* for any partitions, topics and logs and any batch size, queue capacity  *)
(* and number of restarts.                                                 *)
(***************************************************************************)
EXTENDS KafkaIngress, SharedHealthRead, RuntimeAssembly, KafkaHealth, MaterializedFeed,
        RemoteSubscription, TcpPublishIngress, HealthWatch,
        FiniteSetTheorems, SequenceTheorems, WellFoundedInduction, TLAPS
-------------------------------------------------------------------------------
(* The shared health read. *)

\* The shapes of the state.
SharedReadTypeOK ==
  /\ sharedRead \in {0} \union SharedReads
  /\ readsClosed \in BOOLEAN
  /\ fiber \in [SharedReads -> {"none", "reading", "completing", "done", "interrupted"}]
  /\ deferred \in [SharedReads -> {"pending", "done", "interrupted"}]
  /\ waitsFor \in [Requests -> {0} \union SharedReads]

\* The active read is the one read that is pending, it is on its way, and every
\* caller waits for a read that was forked.
OneReadPending ==
  /\ readsClosed => sharedRead = 0
  /\ sharedRead # 0 =>
       deferred[sharedRead] = "pending" /\ fiber[sharedRead] \in {"reading", "completing"}
  /\ \A r \in SharedReads :
       /\ fiber[r] = "none" => deferred[r] = "pending"
       /\ fiber[r] # "none" /\ deferred[r] = "pending" => r = sharedRead
  /\ \A c \in Requests : waitsFor[c] # 0 => fiber[waitsFor[c]] # "none"

\* The invariant of the shared read.
SharedReadInv == SharedReadTypeOK /\ OneReadPending

\* The shared read's invariant.
THEOREM SharedReadInductive == SharedReadSpec => []SharedReadInv
<1> USE SharedReadAssumption DEF SharedReads
<1>1. SharedReadInit => SharedReadInv
  BY DEF SharedReadInit, SharedReadInv, SharedReadTypeOK, OneReadPending
<1>2. SharedReadInv /\ [SharedReadNext]_sharedReadVars => SharedReadInv'
  <2> SUFFICES ASSUME SharedReadInv, [SharedReadNext]_sharedReadVars PROVE SharedReadInv'
    OBVIOUS
  <2> USE DEF SharedReadInv, SharedReadTypeOK, OneReadPending
  <2>1. CASE InterruptActiveRead
    BY <2>1 DEF InterruptActiveRead
  <2>2. ASSUME NEW c \in Requests, Refuse(c) PROVE SharedReadInv'
    BY <2>2 DEF Refuse
  <2>3. ASSUME NEW c \in Requests, Follow(c) PROVE SharedReadInv'
    BY <2>3 DEF Follow
  <2>4. ASSUME NEW c \in Requests, Lead(c) PROVE SharedReadInv'
    BY <2>4 DEF Lead
  <2>5. ASSUME NEW c \in Requests, Return(c) PROVE SharedReadInv'
    BY <2>5 DEF Return
  <2>6. ASSUME NEW r \in SharedReads, ReadHealth(r) PROVE SharedReadInv'
    BY <2>6 DEF ReadHealth
  <2>7. ASSUME NEW r \in SharedReads, CompleteActiveRead(r) PROVE SharedReadInv'
    BY <2>7 DEF CompleteActiveRead
  <2>8. ASSUME NEW r \in SharedReads, InterruptFiber(r) PROVE SharedReadInv'
    BY <2>8 DEF InterruptFiber
  <2>9. CASE UNCHANGED sharedReadVars
    BY <2>9 DEF sharedReadVars
  <2> QED
    BY <2>1, <2>2, <2>3, <2>4, <2>5, <2>6, <2>7, <2>8, <2>9 DEF SharedReadNext
<1> QED
  BY <1>1, <1>2, PTL DEF SharedReadSpec

\* Every caller waits for a read that will answer it.
THEOREM WaitersAnswered == SharedReadSpec => []WaitersAreAnswered
<1>1. SharedReadInv => WaitersAreAnswered
  <2> SUFFICES ASSUME SharedReadInv PROVE WaitersAreAnswered
    OBVIOUS
  <2> USE DEF SharedReadInv, SharedReadTypeOK, OneReadPending
  <2>1. {r \in SharedReads : fiber[r] # "none" /\ deferred[r] = "pending"} \subseteq {sharedRead}
    OBVIOUS
  <2>2. IsFiniteSet({sharedRead}) /\ Cardinality({sharedRead}) = 1
    BY FS_Singleton
  <2>3. Cardinality({r \in SharedReads : fiber[r] # "none" /\ deferred[r] = "pending"}) <= 1
    BY <2>1, <2>2, FS_Subset
  <2>4. /\ \A c \in Requests : waitsFor[c] # 0 /\ deferred[waitsFor[c]] = "pending" =>
             /\ sharedRead = waitsFor[c]
             /\ fiber[sharedRead] \in {"reading", "completing"}
        /\ sharedRead # 0 => deferred[sharedRead] = "pending"
    OBVIOUS
  <2> QED
    BY <2>3, <2>4 DEF WaitersAreAnswered
<1> QED
  BY <1>1, SharedReadInductive, PTL
-------------------------------------------------------------------------------
(* The start and close of a runtime. *)

\* What a part of a runtime can be in, the fibers that close parts, and what is on a list.
PartStates == {"absent", "waiting", "running", "closing", "closed"}
CloserFibers == Closers \union {Startup}
Listed(p, list) == \E i \in 1 .. Len(list) : list[i] = p

\* The shapes of the state.
AssemblyTypeOK ==
  /\ partState \in [Parts -> PartStates]
  /\ startup \in {"starting", "started", "failed"}
  /\ toClose \in [CloserFibers -> Seq(Parts)]
  /\ busy \in [CloserFibers -> BOOLEAN]

\* Parts start in order; what runs when a start fails comes before the failed part.
StartsInOrder ==
  startup = "starting" =>
    /\ \A c \in CloserFibers : toClose[c] = <<>> /\ ~busy[c]
    /\ \A p \in Parts : partState[p] \in {"absent", "waiting", "running"}
    /\ \A i, j \in 1 .. Len(StartOrder) :
         i < j /\ partState[StartOrder[j]] = "running" => partState[StartOrder[i]] # "waiting"

\* A fiber that closes has every running part on its list, the core as the last; after
\* a failed start there is one such fiber.
ClosersCover ==
  /\ \A c \in CloserFibers :
       /\ \A i \in 1 .. Len(toClose[c]) : toClose[c][i] = "core" => i = Len(toClose[c])
       /\ toClose[c] # <<>> =>
            /\ startup # "starting"
            /\ \A p \in Parts : partState[p] = "running" => Listed(p, toClose[c])
  /\ startup = "failed" =>
       \A p \in Parts : partState[p] = "running" => Listed(p, toClose[Startup])
  /\ partState["core"] # "absent"
  /\ startup # "starting" => partState["core"] # "waiting"

\* A part that is being closed is closed by one fiber, whose list it heads.
ClosingIsOwned ==
  /\ \A c \in CloserFibers :
       busy[c] => toClose[c] # <<>> /\ partState[Head(toClose[c])] = "closing"
  /\ \A c, d \in CloserFibers :
       busy[c] /\ busy[d] /\ Head(toClose[c]) = Head(toClose[d]) => c = d
  /\ \A p \in Parts : partState[p] = "closing" =>
       \E c \in CloserFibers : busy[c] /\ Head(toClose[c]) = p
  /\ partState["core"] \in {"closing", "closed"} =>
       \A p \in Parts \ {"core"} : partState[p] # "running"

\* The invariant of the start and close.
AssemblyInv == AssemblyTypeOK /\ StartsInOrder /\ ClosersCover /\ ClosingIsOwned

\* The parts are the six of the order in which they start.
LEMMA SixParts ==
  /\ Parts = {"core", "leases", "tcp", "server", "kafka", "feeds"}
  /\ Len(StartOrder) = 6
  /\ StartOrder[1] = "core" /\ StartOrder[2] = "leases" /\ StartOrder[3] = "tcp"
  /\ StartOrder[4] = "server" /\ StartOrder[5] = "kafka" /\ StartOrder[6] = "feeds"
  /\ DOMAIN StartOrder = 1 .. 6
BY DEF Parts, StartOrder, ToSet

\* Every list of what to close ends with the core, and lists each part it may find running.
LEMMA CloseLists ==
  /\ CloseOrder \in Seq(Parts) /\ Len(CloseOrder) = 6
  /\ \A p \in Parts : Listed(p, CloseOrder)
  /\ \A i \in 1 .. Len(CloseOrder) : CloseOrder[i] = "core" => i = Len(CloseOrder)
  /\ \A q \in Parts \ {"leases"} :
       /\ CloseAfterFailed(q) \in Seq(Parts)
       /\ \A i \in 1 .. Len(CloseAfterFailed(q)) :
            CloseAfterFailed(q)[i] = "core" => i = Len(CloseAfterFailed(q))
       /\ \A j \in 1 .. 6 : StartOrder[j] = q =>
            \A i \in 1 .. 6 : i < j => Listed(StartOrder[i], CloseAfterFailed(q))
       /\ q # "core" => CloseAfterFailed(q) # <<>>
PROOF
<1>1. /\ CloseOrder \in Seq(Parts) /\ Len(CloseOrder) = 6
      /\ \A i \in 1 .. Len(CloseOrder) : CloseOrder[i] = "core" => i = Len(CloseOrder)
  BY SixParts DEF CloseOrder
<1>2. \A p \in Parts : Listed(p, CloseOrder)
  <2>1. /\ CloseOrder[1] = "tcp" /\ CloseOrder[2] = "feeds" /\ CloseOrder[3] = "leases"
        /\ CloseOrder[4] = "kafka" /\ CloseOrder[5] = "server" /\ CloseOrder[6] = "core"
    BY DEF CloseOrder
  <2> QED
    BY <1>1, <2>1, SixParts DEF Listed
<1>3. ASSUME NEW q \in Parts \ {"leases"}
      PROVE  /\ CloseAfterFailed(q) \in Seq(Parts)
             /\ \A i \in 1 .. Len(CloseAfterFailed(q)) :
                  CloseAfterFailed(q)[i] = "core" => i = Len(CloseAfterFailed(q))
             /\ \A j \in 1 .. 6 : StartOrder[j] = q =>
                  \A i \in 1 .. 6 : i < j => Listed(StartOrder[i], CloseAfterFailed(q))
             /\ q # "core" => CloseAfterFailed(q) # <<>>
  <2>1. CASE q = "core"
    BY <2>1, SixParts DEF CloseAfterFailed
  <2>2. CASE q = "tcp"
    BY <2>2, SixParts DEF CloseAfterFailed, Listed
  <2>3. CASE q = "server"
    BY <2>3, SixParts DEF CloseAfterFailed, Listed
  <2>4. CASE q = "kafka"
    BY <2>4, SixParts DEF CloseAfterFailed, Listed
  <2>5. CASE q = "feeds"
    BY <2>5, SixParts DEF CloseAfterFailed, Listed
  <2> QED
    BY <2>1, <2>2, <2>3, <2>4, <2>5, SixParts
<1> QED
  BY <1>1, <1>2, <1>3

\* What is passed over is listed no longer, and the rest still is.
LEMMA RestListed ==
  ASSUME NEW list \in Seq(Parts), list # <<>>
  PROVE  /\ Tail(list) \in Seq(Parts) /\ Head(list) \in Parts
         /\ \A p \in Parts : Listed(p, list) /\ p # Head(list) => Listed(p, Tail(list))
         /\ (\A i \in 1 .. Len(list) : list[i] = "core" => i = Len(list)) =>
              /\ \A i \in 1 .. Len(Tail(list)) : Tail(list)[i] = "core" => i = Len(Tail(list))
              /\ Head(list) = "core" => \A p \in Parts : Listed(p, list) => p = "core"
<1>1. PICK t \in Seq(Parts), h \in Parts, n \in Nat :
        /\ t = Tail(list) /\ h = Head(list) /\ h = list[1] /\ n = Len(t) /\ Len(list) = n + 1
        /\ \A i \in 1 .. n : t[i] = list[i + 1]
  <2>1. /\ Len(list) \in Nat \ {0} /\ Tail(list) \in Seq(Parts) /\ Head(list) = list[1]
        /\ list[1] \in Parts /\ Len(Tail(list)) = Len(list) - 1
        /\ \A i \in 1 .. Len(Tail(list)) : Tail(list)[i] = list[i + 1]
    OBVIOUS
  <2>2. PICK n \in Nat : Len(list) = n + 1
    <3>1. Len(list) - 1 \in Nat /\ Len(list) = (Len(list) - 1) + 1
      BY <2>1
    <3> QED
      BY <3>1, Zenon
  <2>3. Len(Tail(list)) = n
    BY <2>1, <2>2
  <2>4. \A i \in 1 .. n : Tail(list)[i] = list[i + 1]
    BY <2>1, <2>3
  <2> QED
    BY <2>1, <2>2, <2>3, <2>4, Zenon
<1>2. ASSUME NEW p \in Parts, Listed(p, list), p # h PROVE Listed(p, t)
  <2>1. PICK i \in 1 .. n + 1 : list[i] = p
    BY <1>1, <1>2 DEF Listed
  <2>2. i - 1 \in 1 .. n /\ t[i - 1] = p
    BY <1>1, <1>2, <2>1
  <2> QED
    BY <1>1, <2>2 DEF Listed
<1>3. ASSUME \A i \in 1 .. n + 1 : list[i] = "core" => i = n + 1
      PROVE  /\ \A i \in 1 .. n : t[i] = "core" => i = n
             /\ h = "core" => \A p \in Parts : Listed(p, list) => p = "core"
  <2>1. ASSUME NEW i \in 1 .. n, t[i] = "core" PROVE i = n
    <3>1. i + 1 \in 1 .. n + 1 /\ list[i + 1] = "core"
      BY <1>1, <2>1
    <3> QED
      BY <1>3, <3>1
  <2>2. ASSUME h = "core", NEW p \in Parts, Listed(p, list) PROVE p = "core"
    <3>1. 1 = n + 1
      BY <1>1, <1>3, <2>2
    <3>2. PICK i \in 1 .. n + 1 : list[i] = p
      BY <1>1, <2>2 DEF Listed
    <3> QED
      BY <1>1, <2>2, <3>1, <3>2
  <2> QED
    BY <2>1, <2>2
<1>4. \A p \in Parts : Listed(p, list) /\ p # h => Listed(p, t)
  BY <1>2
<1> QED
  BY <1>1, <1>3, <1>4, Zenon

\* A part that starts, or that cannot be started, keeps the invariant.
LEMMA StartKeeps ==
  ASSUME AssemblyInv, NEW p \in Parts, StartPart(p) \/ FailPart(p)
  PROVE  AssemblyInv'
<1> USE AssemblyAssumption DEF AssemblyInv, AssemblyTypeOK, CloserFibers, PartStates
<1>1. /\ startup = "starting" /\ partState[p] = "waiting"
      /\ \A i, j \in 1 .. 6 :
           StartOrder[i] = p /\ j < i => partState[StartOrder[j]] # "waiting"
  BY SixParts DEF StartPart, FailPart, NextToStart
<1>2. \A q \in Parts : partState[q] = "running" =>
        \E i, j \in 1 .. 6 : StartOrder[j] = p /\ StartOrder[i] = q /\ i < j
  BY <1>1, SixParts DEF StartsInOrder
<1>3. CASE StartPart(p)
  <2>1. /\ partState' = [partState EXCEPT ![p] = "running"]
        /\ startup' = IF \E q \in Parts \ {p} : partState[q] = "waiting" THEN startup ELSE "started"
        /\ UNCHANGED <<toClose, busy>>
    BY <1>3 DEF StartPart
  <2>2. AssemblyTypeOK'
    BY <1>1, <2>1
  <2>3. StartsInOrder'
    BY <1>1, <2>1, SixParts DEF StartsInOrder
  <2>4. ClosersCover'
    BY <1>1, <2>1, SixParts DEF StartsInOrder, ClosersCover
  <2>5. ClosingIsOwned'
    BY <1>1, <2>1, SixParts DEF StartsInOrder, ClosingIsOwned
  <2> QED
    BY <2>2, <2>3, <2>4, <2>5
<1>4. CASE FailPart(p)
  <2>1. /\ partState' = [partState EXCEPT ![p] = "closed"] /\ p # "leases"
        /\ startup' = "failed"
        /\ toClose' = [toClose EXCEPT ![Startup] = CloseAfterFailed(p)]
        /\ busy' = busy
    BY <1>4 DEF FailPart
  <2>2. CloseAfterFailed(p) \in Seq(Parts)
    BY <2>1, CloseLists
  <2>3. AssemblyTypeOK'
    BY <1>1, <2>1, <2>2
  <2>4. StartsInOrder'
    BY <2>1 DEF StartsInOrder
  <2>5. \A q \in Parts : partState[q] = "running" => Listed(q, CloseAfterFailed(p))
    <3> SUFFICES ASSUME NEW q \in Parts, partState[q] = "running"
                 PROVE  Listed(q, CloseAfterFailed(p))
      OBVIOUS
    <3>1. PICK i \in 1 .. 6, j \in 1 .. 6 : StartOrder[j] = p /\ StartOrder[i] = q /\ i < j
      BY <1>2
    <3>2. Listed(StartOrder[i], CloseAfterFailed(p))
      BY <2>1, <3>1, CloseLists
    <3> QED
      BY <3>1, <3>2
  <2>6. \A c \in CloserFibers : toClose'[c] = IF c = Startup THEN CloseAfterFailed(p) ELSE <<>>
    BY <1>1, <2>1 DEF StartsInOrder
  <2>7. p # "core" => partState["core"] = "running"
    <3> SUFFICES ASSUME p # "core" PROVE partState["core"] = "running"
      OBVIOUS
    <3>1. partState["core"] \in {"absent", "waiting", "running"} /\ partState["core"] # "absent"
      BY <1>1, SixParts DEF StartsInOrder, ClosersCover
    <3>2. partState["core"] # "waiting"
      BY <1>1, SixParts
    <3> QED
      BY <3>1, <3>2
  <2>8. ClosersCover'
    <3>1. \A c \in CloserFibers :
            /\ \A i \in 1 .. Len(toClose'[c]) : toClose'[c][i] = "core" => i = Len(toClose'[c])
            /\ \A q \in Parts : partState'[q] = "running" /\ toClose'[c] # <<>> => Listed(q, toClose'[c])
      BY <2>1, <2>5, <2>6, CloseLists
    <3>2. \A q \in Parts : partState'[q] = "running" => Listed(q, toClose'[Startup])
      BY <2>1, <2>5, <2>6
    <3>3. partState'["core"] \notin {"absent", "waiting"}
      BY <2>1, <2>7, SixParts
    <3> QED
      BY <2>1, <3>1, <3>2, <3>3 DEF ClosersCover
  <2>9. ClosingIsOwned'
    <3>1. \A c \in CloserFibers : ~busy'[c]
      BY <1>1, <2>1 DEF StartsInOrder
    <3>2. \A q \in Parts : partState'[q] # "closing"
      BY <1>1, <2>1 DEF StartsInOrder
    <3>3. p = "core" => \A q \in Parts \ {"core"} : partState[q] # "running"
      BY <1>2, SixParts
    <3>4. partState'["core"] \in {"closing", "closed"} =>
            \A q \in Parts \ {"core"} : partState'[q] # "running"
      BY <2>1, <2>7, <3>3, SixParts
    <3> QED
      BY <3>1, <3>2, <3>4 DEF ClosingIsOwned
  <2> QED
    BY <2>3, <2>4, <2>8, <2>9
<1> QED
  BY <1>3, <1>4

\* A fiber that begins to close the runtime lists all of it.
LEMMA CloseRuntimeKeeps ==
  ASSUME AssemblyInv, NEW c \in Closers, CloseRuntime(c)
  PROVE  AssemblyInv'
<1> USE AssemblyAssumption DEF AssemblyInv, AssemblyTypeOK, CloserFibers, PartStates
<1>1. /\ startup = "started" /\ toClose[c] = <<>>
      /\ toClose' = [toClose EXCEPT ![c] = CloseOrder]
      /\ UNCHANGED <<partState, startup, busy>>
  BY DEF CloseRuntime
<1>2. AssemblyTypeOK'
  BY <1>1, CloseLists
<1>3. StartsInOrder'
  BY <1>1 DEF StartsInOrder
<1>4. ClosersCover'
  BY <1>1, CloseLists DEF ClosersCover
<1>5. ClosingIsOwned'
  <2>1. ~busy[c]
    BY <1>1 DEF ClosingIsOwned
  <2>2. \A d \in CloserFibers : d # c => toClose'[d] = toClose[d]
    BY <1>1
  <2> QED
    BY <1>1, <2>1, <2>2 DEF ClosingIsOwned
<1> QED
  BY <1>2, <1>3, <1>4, <1>5

\* A part is closed by the first fiber that comes to it and passed over by the others.
LEMMA ClosePartKeeps ==
  ASSUME AssemblyInv, NEW c \in CloserFibers,
         BeginClosePart(c) \/ EndClosePart(c) \/ PassOver(c)
  PROVE  AssemblyInv'
<1> USE AssemblyAssumption DEF AssemblyInv, AssemblyTypeOK, PartStates
<1>1. toClose[c] # <<>> /\ toClose[c] \in Seq(Parts)
  BY DEF BeginClosePart, EndClosePart, PassOver, ClosingIsOwned
<1>2. PICK h \in Parts, rest \in Seq(Parts) : h = Head(toClose[c]) /\ rest = Tail(toClose[c])
  BY <1>1, RestListed
<1>3. /\ \A p \in Parts : Listed(p, toClose[c]) /\ p # h => Listed(p, rest)
      /\ \A i \in 1 .. Len(rest) : rest[i] = "core" => i = Len(rest)
      /\ h = "core" => \A p \in Parts : Listed(p, toClose[c]) => p = "core"
      /\ startup # "starting"
      /\ \A p \in Parts : partState[p] = "running" => Listed(p, toClose[c])
  BY <1>1, <1>2, RestListed DEF ClosersCover
<1>4. CASE BeginClosePart(c)
  <2>1. /\ partState[h] = "running"
        /\ partState' = [partState EXCEPT ![h] = "closing"]
        /\ busy' = [busy EXCEPT ![c] = TRUE]
        /\ UNCHANGED <<startup, toClose>>
    BY <1>2, <1>4 DEF BeginClosePart
  <2>2. AssemblyTypeOK'
    BY <2>1
  <2>3. StartsInOrder'
    BY <1>3, <2>1 DEF StartsInOrder
  <2>4. ClosersCover'
    <3>1. \A p \in Parts : partState'[p] = "running" => partState[p] = "running"
      BY <2>1
    <3>2. partState'["core"] \notin {"absent", "waiting"}
      BY <1>3, <2>1, SixParts DEF ClosersCover
    <3> QED
      BY <1>3, <2>1, <3>1, <3>2 DEF ClosersCover
  <2>5. ClosingIsOwned'
    <3>1. \A d \in CloserFibers : busy[d] => Head(toClose[d]) # h
      BY <2>1 DEF ClosingIsOwned
    <3>2. \A d \in CloserFibers : busy'[d] <=> (d = c \/ busy[d])
      BY <2>1
    <3>3. ASSUME partState'["core"] \in {"closing", "closed"}, NEW p \in Parts \ {"core"}
          PROVE  partState'[p] # "running"
      BY <1>3, <2>1, <3>3, SixParts DEF ClosingIsOwned
    <3>4. \A d \in CloserFibers :
            busy'[d] => toClose'[d] # <<>> /\ partState'[Head(toClose'[d])] = "closing"
      BY <1>1, <1>2, <2>1, <3>1, <3>2 DEF ClosingIsOwned
    <3>5. \A d, e \in CloserFibers :
            busy'[d] /\ busy'[e] /\ Head(toClose'[d]) = Head(toClose'[e]) => d = e
      BY <1>2, <2>1, <3>1, <3>2 DEF ClosingIsOwned
    <3>6. \A p \in Parts : partState'[p] = "closing" =>
            \E d \in CloserFibers : busy'[d] /\ Head(toClose'[d]) = p
      BY <1>2, <2>1, <3>2 DEF ClosingIsOwned
    <3> QED
      BY <3>3, <3>4, <3>5, <3>6 DEF ClosingIsOwned
  <2> QED
    BY <2>2, <2>3, <2>4, <2>5
<1>5. CASE EndClosePart(c) \/ PassOver(c)
  <2>1. /\ toClose' = [toClose EXCEPT ![c] = rest]
        /\ busy' = [busy EXCEPT ![c] = FALSE]
        /\ \A p \in Parts \ {h} : partState'[p] = partState[p]
        /\ \/ partState'[h] = partState[h] /\ partState[h] # "running" /\ ~busy[c]
           \/ partState'[h] = "closed" /\ partState[h] = "closing" /\ busy[c]
        /\ partState' \in [Parts -> PartStates]
        /\ startup' = startup
    <3>1. CASE EndClosePart(c)
      BY <1>2, <3>1 DEF EndClosePart, ClosingIsOwned
    <3>2. CASE PassOver(c)
      <4>1. busy' = [busy EXCEPT ![c] = FALSE]
        <5>1. busy[c] = FALSE /\ busy' = busy
          BY <3>2 DEF PassOver
        <5> QED
          BY <5>1
      <4>2. partState[h] # "running" /\ ~busy[c] /\ toClose' = [toClose EXCEPT ![c] = rest]
        BY <1>2, <3>2 DEF PassOver
      <4>3. partState' = partState /\ startup' = startup
        BY <3>2 DEF PassOver
      <4> QED
        <5>1. partState' \in [Parts -> PartStates] /\ \A p \in Parts : partState'[p] = partState[p]
          BY <4>3
        <5> QED
          BY <4>1, <4>2, <4>3, <5>1
    <3> QED
      BY <1>5, <3>1, <3>2
  <2>2. AssemblyTypeOK'
    BY <2>1
  <2>3. StartsInOrder'
    BY <1>3, <2>1 DEF StartsInOrder
  <2>4. \A p \in Parts : partState'[p] = "running" => partState[p] = "running" /\ p # h
    BY <2>1
  <2>5. \A d \in CloserFibers : toClose'[d] = IF d = c THEN rest ELSE toClose[d]
    BY <2>1
  <2>6. ClosersCover'
    <3>1. \A d \in CloserFibers :
            /\ \A i \in 1 .. Len(toClose'[d]) : toClose'[d][i] = "core" => i = Len(toClose'[d])
            /\ toClose'[d] # <<>> =>
                 \A p \in Parts : partState'[p] = "running" => Listed(p, toClose'[d])
      <4> SUFFICES ASSUME NEW d \in CloserFibers
                   PROVE  /\ \A i \in 1 .. Len(toClose'[d]) : toClose'[d][i] = "core" => i = Len(toClose'[d])
                          /\ toClose'[d] # <<>> =>
                               \A p \in Parts : partState'[p] = "running" => Listed(p, toClose'[d])
        OBVIOUS
      <4>1. PICK list : list = toClose'[d]
        OBVIOUS
      <4>2. CASE d = c
        <5>1. list = rest
          BY <2>5, <4>1, <4>2
        <5> QED
          BY <1>3, <2>4, <4>1, <5>1
      <4>3. CASE d # c
        <5>1. list = toClose[d]
          BY <2>5, <4>1, <4>3
        <5>2. /\ \A i \in 1 .. Len(toClose[d]) : toClose[d][i] = "core" => i = Len(toClose[d])
              /\ toClose[d] # <<>> =>
                   \A p \in Parts : partState[p] = "running" => Listed(p, toClose[d])
          BY DEF ClosersCover
        <5> QED
          BY <2>4, <4>1, <5>1, <5>2
      <4> QED
        BY <4>2, <4>3
    <3>2. startup = "failed" =>
            \A p \in Parts : partState'[p] = "running" => Listed(p, toClose'[Startup])
      <4>1. Startup \in CloserFibers
        BY DEF CloserFibers
      <4>2. SUFFICES ASSUME startup = "failed", NEW p \in Parts, partState'[p] = "running"
                     PROVE  Listed(p, toClose'[Startup])
        OBVIOUS
      <4>3. CASE Startup = c
        <5>1. toClose'[Startup] = rest
          BY <2>5, <4>1, <4>3
        <5> QED
          BY <1>3, <2>4, <4>2, <5>1
      <4>4. CASE Startup # c
        <5>1. toClose'[Startup] = toClose[Startup]
          BY <2>5, <4>1, <4>4
        <5>2. Listed(p, toClose[Startup])
          BY <2>4, <4>2 DEF ClosersCover
        <5> QED
          BY <5>1, <5>2
      <4> QED
        BY <4>3, <4>4
    <3>3. partState'["core"] \notin {"absent", "waiting"}
      BY <1>3, <2>1, SixParts DEF ClosersCover
    <3> QED
      BY <1>3, <2>1, <3>1, <3>2, <3>3 DEF ClosersCover
  <2>7. ClosingIsOwned'
    <3>1. \A d \in CloserFibers : busy'[d] <=> (d # c /\ busy[d])
      BY <2>1
    <3>2. \A d \in CloserFibers : d # c /\ busy[d] => Head(toClose[d]) # h \/ ~busy[c]
      BY <1>2 DEF ClosingIsOwned
    <3>3. \A d \in CloserFibers : d # c /\ busy[d] => Head(toClose[d]) \in Parts
      BY RestListed DEF ClosingIsOwned
    <3>4. \A d \in CloserFibers :
            busy'[d] => toClose'[d] # <<>> /\ partState'[Head(toClose'[d])] = "closing"
      BY <2>1, <2>5, <3>1, <3>2, <3>3 DEF ClosingIsOwned
    <3>5. \A d, e \in CloserFibers :
            busy'[d] /\ busy'[e] /\ Head(toClose'[d]) = Head(toClose'[e]) => d = e
      BY <2>5, <3>1 DEF ClosingIsOwned
    <3>6. ASSUME NEW p \in Parts, partState'[p] = "closing"
          PROVE  \E d \in CloserFibers : busy'[d] /\ Head(toClose'[d]) = p
      <4>1. partState[p] = "closing" /\ (p = h => ~busy[c])
        BY <2>1, <3>6
      <4>2. PICK d \in CloserFibers : busy[d] /\ Head(toClose[d]) = p
        BY <4>1 DEF ClosingIsOwned
      <4>3. d # c
        BY <1>2, <4>1, <4>2
      <4> QED
        BY <2>5, <3>1, <4>2, <4>3
    <3>7. partState'["core"] \in {"closing", "closed"} =>
            \A p \in Parts \ {"core"} : partState'[p] # "running"
      BY <2>1, <2>4, SixParts DEF ClosingIsOwned
    <3> QED
      BY <3>4, <3>5, <3>6, <3>7 DEF ClosingIsOwned
  <2> QED
    BY <2>2, <2>3, <2>6, <2>7
<1> QED
  BY <1>4, <1>5

\* The invariant of the assembly.
THEOREM AssemblyInductive == AssemblySpec => []AssemblyInv
<1>1. AssemblyInit => AssemblyInv
  <2> SUFFICES ASSUME AssemblyInit PROVE AssemblyInv
    OBVIOUS
  <2>1. /\ partState \in [Parts -> {"absent", "waiting"}] /\ partState["core"] = "waiting"
        /\ startup = "starting"
        /\ toClose \in [CloserFibers -> {<<>>}] /\ busy \in [CloserFibers -> {FALSE}]
    BY SixParts DEF AssemblyInit, CloserFibers
  <2>2. AssemblyTypeOK
    <3>1. <<>> \in Seq(Parts)
      OBVIOUS
    <3> QED
      BY <2>1, <3>1 DEF AssemblyTypeOK, PartStates
  <2>3. StartsInOrder
    <3>1. \A p \in Parts : partState[p] \in {"absent", "waiting"}
      BY <2>1
    <3>2. \A j \in 1 .. Len(StartOrder) : StartOrder[j] \in Parts
      BY SixParts
    <3>3. \A c \in CloserFibers : toClose[c] = <<>> /\ ~busy[c]
      BY <2>1
    <3> QED
      BY <3>1, <3>2, <3>3 DEF StartsInOrder
  <2>4. ClosersCover
    BY <2>1 DEF ClosersCover
  <2>5. ClosingIsOwned
    BY <2>1, SixParts DEF ClosingIsOwned
  <2> QED
    BY <2>2, <2>3, <2>4, <2>5 DEF AssemblyInv
<1>2. AssemblyInv /\ [AssemblyNext]_assemblyVars => AssemblyInv'
  <2> SUFFICES ASSUME AssemblyInv, [AssemblyNext]_assemblyVars PROVE AssemblyInv'
    OBVIOUS
  <2>1. CASE UNCHANGED assemblyVars
    BY <2>1 DEF assemblyVars, AssemblyInv, AssemblyTypeOK, StartsInOrder, ClosersCover,
       ClosingIsOwned
  <2>2. CASE AssemblyNext
    BY <2>2, StartKeeps, CloseRuntimeKeeps, ClosePartKeeps DEF AssemblyNext, CloserFibers
  <2> QED
    BY <2>1, <2>2
<1> QED
  BY <1>1, <1>2, PTL DEF AssemblySpec

\* The core closes after every other part.
THEOREM CoreClosesLast == AssemblySpec => []NothingOutlivesTheCore
<1>1. AssemblyInv => NothingOutlivesTheCore
  <2> SUFFICES ASSUME AssemblyInv PROVE NothingOutlivesTheCore
    OBVIOUS
  <2> DEFINE others(states) == {p \in Parts \ {"core"} : partState[p] \in states}
             working == {c \in DOMAIN toClose : toClose[c] # <<>>}
  <2> USE DEF AssemblyInv, AssemblyTypeOK
  <2>1. DOMAIN toClose = CloserFibers /\ "core" \in Parts
    BY SixParts
  <2>2. ASSUME partState["core"] \in {"closing", "closed"} PROVE others({"running"}) = {}
    BY <2>2 DEF ClosingIsOwned
  <2>3. ASSUME partState["core"] = "closing", Cardinality(working) = 1
        PROVE  others({"closing"}) = {}
    <3>1. IsFiniteSet(working)
      <4>1. IsFiniteSet(CloserFibers)
        BY AssemblyAssumption, FS_AddElement DEF CloserFibers
      <4> QED
        BY <2>1, <4>1, FS_Subset
    <3>2. PICK c : working = {c}
      BY <2>3, <3>1, FS_Singleton
    <3>3. \A p \in Parts : partState[p] = "closing" => Head(toClose[c]) = p
      BY <2>1, <3>2 DEF ClosingIsOwned
    <3> QED
      BY <2>1, <2>3, <3>3
  <2>4. ASSUME working = {}, startup = "failed" \/ partState["core"] = "closed"
        PROVE  partState["core"] = "closed" /\ others({"running", "closing"}) = {}
    <3>1. \A c \in CloserFibers : toClose[c] = <<>> /\ ~busy[c]
      BY <2>1, <2>4 DEF ClosingIsOwned
    <3>2. \A p \in Parts : partState[p] # "closing"
      BY <3>1 DEF ClosingIsOwned
    <3>3. startup = "failed" => \A p \in Parts : partState[p] # "running"
      <4>1. Startup \in CloserFibers /\ ~(\E i \in 1 .. Len(<<>>) : TRUE)
        BY DEF CloserFibers
      <4>2. \A p \in Parts : ~Listed(p, toClose[Startup])
        BY <3>1, <4>1 DEF Listed
      <4> QED
        BY <4>2 DEF ClosersCover
    <3>4. partState["core"] = "closed"
      BY <2>1, <2>4, <3>2, <3>3 DEF ClosersCover, PartStates
    <3> QED
      BY <2>2, <3>2, <3>4
  <2> QED
    BY <2>2, <2>3, <2>4 DEF NothingOutlivesTheCore
<1> QED
  BY <1>1, AssemblyInductive, PTL
-------------------------------------------------------------------------------
(* The health of the Kafka ingress. *)

\* What a ledger holds.
SourceHealth == [connected : BOOLEAN, lastError : BOOLEAN, regionLastError : BOOLEAN]
RegionStates == {"starting", "connected", "disconnected", "degraded"}
TopicStates == {"starting", "ready", "degraded"}
Ledgers ==
  [region : [Regions -> RegionStates], source : [Sources -> SourceHealth],
   topic : [SourceTopics -> TopicStates]]

\* The shapes of the state, and a ledger whose topics say what their sources do.
KafkaHealthTypeOK ==
  /\ ledger \in Ledgers
  /\ stream \in [Regions -> {"starting", "running", "flushing", "failed", "stopped"}]
  /\ blame \in [Regions -> SUBSET SourceTopics]
  /\ unseen \in [Regions -> SUBSET SourceTopics]

\* A topic's status is that of its sources; a region whose stream failed says so of
\* itself and of each of its sources; what has to be seen is still recorded.
LedgerRemembers ==
  /\ \A t \in SourceTopics : ledger.topic[t] = TopicStatus(ledger, t)
  /\ \A r \in Regions : stream[r] = "failed" =>
       /\ ledger.region[r] = "disconnected"
       /\ \A s \in In(r) : ledger.source[s].regionLastError
  /\ \A s \in Sources : s.topic \in unseen[s.region] => ledger.source[s].lastError

\* The invariant of the ledger.
KafkaHealthInv == KafkaHealthTypeOK /\ LedgerRemembers

\* A ledger whose topics are as their sources.
Consistent(l) == l \in Ledgers /\ \A t \in SourceTopics : l.topic[t] = TopicStatus(l, t)

\* An update of sources leaves the others and the regions alone and refreshes the
\* topics of those it changes.
LEMMA SourcesUpdated ==
  ASSUME NEW l, Consistent(l), NEW S \in SUBSET Sources,
         NEW updated \in [S -> SourceHealth], NEW m, m = UpdateSources(l, S, updated)
  PROVE  /\ Consistent(m) /\ m.region = l.region
         /\ \A s \in Sources : m.source[s] = IF s \in S THEN updated[s] ELSE l.source[s]
<1> DEFINE sources == [s \in Sources |-> IF s \in S THEN updated[s] ELSE l.source[s]]
           next == [l EXCEPT !.source = sources]
           topics == [t \in SourceTopics |->
                        IF t \in {s.topic : s \in S} THEN TopicStatus(next, t) ELSE l.topic[t]]
<1>1. sources \in [Sources -> SourceHealth]
  BY DEF Consistent, Ledgers
<1>2. m = [next EXCEPT !.topic = topics]
  BY DEF UpdateSources
<1>3. next.region = l.region /\ next.source = sources /\ next.topic = l.topic
  BY DEF Consistent, Ledgers
<1>4. \A t \in SourceTopics : TopicStatus(next, t) \in TopicStates
  BY DEF TopicStatus, TopicStates
<1>5. topics \in [SourceTopics -> TopicStates]
  BY <1>4 DEF Consistent, Ledgers
<1>6. m.region = l.region /\ m.source = sources /\ m.topic = topics /\ m \in Ledgers
  <2> HIDE DEF sources, topics
  <2> QED
    BY <1>1, <1>2, <1>5 DEF Consistent, Ledgers
<1>7. ASSUME NEW t \in SourceTopics PROVE m.topic[t] = TopicStatus(m, t)
  <2>1. TopicStatus(m, t) = TopicStatus(next, t)
    BY <1>3, <1>6 DEF TopicStatus
  <2>2. CASE t \in {s.topic : s \in S}
    BY <1>6, <2>1, <2>2
  <2>3. CASE t \notin {s.topic : s \in S}
    <3>1. \A x \in Sources : x.topic = t => sources[x] = l.source[x]
      BY <2>3
    <3>2. {next.source[s] : s \in {x \in Sources : x.topic = t}}
            = {l.source[s] : s \in {x \in Sources : x.topic = t}}
      BY <1>3, <3>1
    <3>3. TopicStatus(next, t) = TopicStatus(l, t)
      BY <3>2 DEF TopicStatus
    <3> QED
      BY <1>6, <2>1, <2>3, <3>3 DEF Consistent
  <2> QED
    BY <2>2, <2>3
<1> QED
  BY <1>6, <1>7 DEF Consistent

\* The ledger m is l with region r, or sources of r, changed.
ChangedIn(r, l, m) ==
  /\ Consistent(m)
  /\ \A q \in Regions \ {r} : m.region[q] = l.region[q]
  /\ \A s \in Sources \ In(r) : m.source[s] = l.source[s]

\* The sources of a region keep the errors they have.
KeepsErrors(r, l, m) == \A s \in In(r) : l.source[s].lastError => m.source[s].lastError

\* The status of a region is its own.
LEMMA RegionMarked ==
  ASSUME NEW l, Consistent(l), NEW r \in Regions, NEW status \in RegionStates,
         NEW m, m = [l EXCEPT !.region[r] = status]
  PROVE  /\ Consistent(m) /\ m.source = l.source
         /\ \A q \in Regions : m.region[q] = IF q = r THEN status ELSE l.region[q]
<1>1. m.source = l.source /\ m.topic = l.topic /\ m \in Ledgers
      /\ \A q \in Regions : m.region[q] = IF q = r THEN status ELSE l.region[q]
  BY DEF Consistent, Ledgers
<1>2. \A t \in SourceTopics : TopicStatus(m, t) = TopicStatus(l, t)
  BY <1>1 DEF TopicStatus
<1> QED
  BY <1>1, <1>2 DEF Consistent

\* Sources of a region that change are changes in the region.
LEMMA SourcesChanged ==
  ASSUME NEW l, NEW k, NEW r \in Regions, Consistent(l), ChangedIn(r, k, l),
         NEW S \in SUBSET In(r), NEW updated \in [S -> SourceHealth],
         NEW m, m = UpdateSources(l, S, updated)
  PROVE  /\ ChangedIn(r, k, m) /\ m.region = l.region
         /\ \A s \in Sources : m.source[s] = IF s \in S THEN updated[s] ELSE l.source[s]
<1>1. S \in SUBSET Sources
  BY DEF In
<1>2. /\ Consistent(m) /\ m.region = l.region
      /\ \A s \in Sources : m.source[s] = IF s \in S THEN updated[s] ELSE l.source[s]
  BY <1>1, SourcesUpdated
<1> QED
  BY <1>2 DEF ChangedIn

\* A ledger is itself with nothing changed.
LEMMA Unchanged ==
  ASSUME NEW l, Consistent(l), NEW r \in Regions
  PROVE  ChangedIn(r, l, l) /\ KeepsErrors(r, l, l)
BY DEF ChangedIn, KeepsErrors

\* The region is connected, and so are its sources, which keep their own errors.
LEMMA Connects ==
  ASSUME NEW l, Consistent(l), NEW r \in Regions, NEW m,
         m = TopicsConnected(RegionConnected(l, r), r)
  PROVE  ChangedIn(r, l, m) /\ KeepsErrors(r, l, m)
<1>1. PICK k : k = RegionConnected(l, r)
  OBVIOUS
<1>2. Consistent(k) /\ k.source = l.source /\ ChangedIn(r, l, k)
  BY <1>1, RegionMarked DEF RegionConnected, RegionStates, ChangedIn
<1>3. PICK u : u = [s \in In(r) |-> [k.source[s] EXCEPT !.connected = TRUE, !.regionLastError = FALSE]]
  OBVIOUS
<1>4. u \in [In(r) -> SourceHealth] /\ \A s \in In(r) : u[s].lastError = l.source[s].lastError
  BY <1>2, <1>3 DEF Consistent, Ledgers, SourceHealth, In
<1>5. m = UpdateSources(k, In(r), u)
  BY <1>1, <1>3 DEF TopicsConnected
<1>6. /\ ChangedIn(r, l, m)
      /\ \A s \in Sources : m.source[s] = IF s \in In(r) THEN u[s] ELSE k.source[s]
  BY <1>2, <1>4, <1>5, SourcesChanged
<1> QED
  BY <1>4, <1>6 DEF KeepsErrors, In

\* The region and its sources are disconnected, with their own errors or without.
LEMMA Disconnects ==
  ASSUME NEW l, NEW k, NEW r \in Regions, Consistent(l), ChangedIn(r, k, l),
         NEW keep \in BOOLEAN, NEW m, m = RegionDisconnected(l, r, keep)
  PROVE  /\ ChangedIn(r, k, m) /\ m.region[r] = "disconnected"
         /\ \A s \in In(r) : /\ m.source[s].regionLastError
                             /\ keep /\ l.source[s].lastError => m.source[s].lastError
<1>1. PICK n : n = [l EXCEPT !.region[r] = "disconnected"]
  OBVIOUS
<1>2. Consistent(n) /\ n.source = l.source /\ ChangedIn(r, k, n) /\ n.region[r] = "disconnected"
  BY <1>1, RegionMarked DEF RegionStates, ChangedIn
<1>3. PICK u : u = [s \in In(r) |-> [connected |-> FALSE,
                                     lastError |-> keep /\ l.source[s].lastError,
                                     regionLastError |-> TRUE]]
  OBVIOUS
<1>4. \A s \in In(r) : u[s] \in SourceHealth
  <2> SUFFICES ASSUME NEW s \in In(r) PROVE u[s] \in SourceHealth
    OBVIOUS
  <2>1. (keep /\ l.source[s].lastError) \in BOOLEAN
    OBVIOUS
  <2> QED
    BY <1>3, <2>1 DEF SourceHealth
<1>5. u \in [In(r) -> SourceHealth]
  BY <1>3, <1>4
<1>6. \A s \in In(r) : u[s].regionLastError /\ (keep /\ l.source[s].lastError => u[s].lastError)
  BY <1>3
<1>7. m = UpdateSources(n, In(r), u)
  BY <1>1, <1>3 DEF RegionDisconnected
<1>8. /\ ChangedIn(r, k, m) /\ m.region = n.region
      /\ \A s \in Sources : m.source[s] = IF s \in In(r) THEN u[s] ELSE n.source[s]
  BY <1>2, <1>5, <1>7, SourcesChanged
<1> QED
  BY <1>2, <1>6, <1>8 DEF In

\* The region is degraded; its sources keep their own errors.
LEMMA Degrades ==
  ASSUME NEW l, Consistent(l), NEW r \in Regions, NEW m, m = RegionDegraded(l, r)
  PROVE  ChangedIn(r, l, m) /\ KeepsErrors(r, l, m)
<1>1. PICK k : k = [l EXCEPT !.region[r] = "degraded"]
  OBVIOUS
<1>2. Consistent(k) /\ k.source = l.source /\ ChangedIn(r, l, k)
  BY <1>1, RegionMarked DEF RegionStates, ChangedIn
<1>3. PICK u : u = [s \in In(r) |-> [l.source[s] EXCEPT !.regionLastError = TRUE]]
  OBVIOUS
<1>4. u \in [In(r) -> SourceHealth] /\ \A s \in In(r) : u[s].lastError = l.source[s].lastError
  BY <1>3 DEF Consistent, Ledgers, SourceHealth, In
<1>5. m = UpdateSources(k, In(r), u)
  BY <1>1, <1>3 DEF RegionDegraded
<1>6. /\ ChangedIn(r, l, m)
      /\ \A s \in Sources : m.source[s] = IF s \in In(r) THEN u[s] ELSE k.source[s]
  BY <1>2, <1>4, <1>5, SourcesChanged
<1> QED
  BY <1>4, <1>6 DEF KeepsErrors, In

\* A region that is not disconnected recovers; its sources keep their own errors.
LEMMA Recovers ==
  ASSUME NEW l, Consistent(l), NEW r \in Regions, NEW m, m = RegionRecovered(l, r)
  PROVE  ChangedIn(r, l, m) /\ KeepsErrors(r, l, m)
<1>1. CASE l.region[r] = "disconnected"
  BY <1>1, Unchanged DEF RegionRecovered
<1>2. CASE l.region[r] # "disconnected"
  <2>1. PICK k : k = RegionConnected(l, r)
    OBVIOUS
  <2>2. Consistent(k) /\ k.source = l.source /\ ChangedIn(r, l, k)
    BY <2>1, RegionMarked DEF RegionConnected, RegionStates, ChangedIn
  <2>3. PICK u : u = [s \in In(r) |-> [l.source[s] EXCEPT !.regionLastError = FALSE]]
    OBVIOUS
  <2>4. u \in [In(r) -> SourceHealth] /\ \A s \in In(r) : u[s].lastError = l.source[s].lastError
    BY <2>3 DEF Consistent, Ledgers, SourceHealth, In
  <2>5. m = UpdateSources(k, In(r), u)
    BY <1>2, <2>1, <2>3 DEF RegionRecovered
  <2>6. /\ ChangedIn(r, l, m)
        /\ \A s \in Sources : m.source[s] = IF s \in In(r) THEN u[s] ELSE k.source[s]
    BY <2>2, <2>4, <2>5, SourcesChanged
  <2> QED
    BY <2>4, <2>6 DEF KeepsErrors, In
<1> QED
  BY <1>1, <1>2

\* A committed message leaves every error but its source's, and that one if it is kept.
LEMMA Decodes ==
  ASSUME NEW l, Consistent(l), NEW s \in Sources, NEW keep \in BOOLEAN,
         NEW m, m = MessageDecoded(l, s, keep)
  PROVE  /\ ChangedIn(s.region, l, m)
         /\ \A x \in In(s.region) :
              l.source[x].lastError /\ (x = s => keep) => m.source[x].lastError
<1>1. s.region \in Regions /\ {s} \in SUBSET In(s.region)
  BY DEF Regions, In
<1>2. PICK u : u = [x \in {s} |-> [l.source[x] EXCEPT !.lastError = keep /\ @]]
  OBVIOUS
<1>3. u \in [{s} -> SourceHealth] /\ (keep /\ l.source[s].lastError => u[s].lastError)
  BY <1>2 DEF Consistent, Ledgers, SourceHealth
<1>4. m = UpdateSources(l, {s}, u)
  BY <1>2 DEF MessageDecoded
<1>5. /\ ChangedIn(s.region, l, m)
      /\ \A x \in Sources : m.source[x] = IF x \in {s} THEN u[x] ELSE l.source[x]
  <2>1. ChangedIn(s.region, l, l)
    BY <1>1, Unchanged
  <2> QED
    BY <1>1, <1>3, <1>4, <2>1, SourcesChanged
<1> QED
  BY <1>3, <1>5 DEF In

\* Failed messages are errors of their sources, and no error is lost.
LEMMA Errs ==
  ASSUME NEW l, Consistent(l), NEW r \in Regions, NEW S \in SUBSET In(r),
         NEW m, m = MessagesFailed(l, S)
  PROVE  /\ ChangedIn(r, l, m) /\ KeepsErrors(r, l, m)
         /\ \A s \in S : m.source[s].lastError
<1>1. PICK u : u = [s \in S |-> [l.source[s] EXCEPT !.lastError = TRUE]]
  OBVIOUS
<1>2. u \in [S -> SourceHealth] /\ \A s \in S : u[s].lastError
  BY <1>1 DEF Consistent, Ledgers, SourceHealth, In
<1>3. m = UpdateSources(l, S, u)
  BY <1>1 DEF MessagesFailed
<1>4. /\ ChangedIn(r, l, m)
      /\ \A s \in Sources : m.source[s] = IF s \in S THEN u[s] ELSE l.source[s]
  BY <1>2, <1>3, Unchanged, SourcesChanged
<1> QED
  BY <1>2, <1>4 DEF KeepsErrors, In

-------------------------------------------------------------------------------
\* A step that changes one region's ledger, stream and history keeps the invariant if
\* the region of a failed stream shows it and the errors still to be shown are there.
LEMMA RegionKeeps ==
  ASSUME KafkaHealthInv, NEW r \in Regions, ChangedIn(r, ledger, ledger'),
         NEW to \in {"starting", "running", "flushing", "failed", "stopped"},
         NEW blamed \in SUBSET SourceTopics, NEW hidden \in SUBSET SourceTopics,
         stream' = [stream EXCEPT ![r] = to],
         blame' = [blame EXCEPT ![r] = blamed],
         unseen' = [unseen EXCEPT ![r] = hidden],
         to = "failed" => /\ ledger'.region[r] = "disconnected"
                          /\ \A s \in In(r) : ledger'.source[s].regionLastError,
         \A s \in In(r) : s.topic \in hidden => ledger'.source[s].lastError
  PROVE  KafkaHealthInv'
<1> USE DEF KafkaHealthInv, KafkaHealthTypeOK, LedgerRemembers, ChangedIn, Consistent
<1>1. KafkaHealthTypeOK'
  OBVIOUS
<1>2. \A t \in SourceTopics : ledger'.topic[t] = TopicStatus(ledger, t)'
  BY DEF TopicStatus
<1>3. \A q \in Regions : stream'[q] = "failed" =>
        /\ ledger'.region[q] = "disconnected"
        /\ \A s \in In(q) : ledger'.source[s].regionLastError
  BY DEF In
<1>4. \A s \in Sources : s.topic \in unseen'[s.region] => ledger'.source[s].lastError
  BY DEF In, Regions
<1> QED
  BY <1>1, <1>2, <1>3, <1>4

\* What the listener of a region records.
LEMMA ListenerKeeps ==
  ASSUME KafkaHealthInv, NEW r \in Regions,
         GroupJoin(r) \/ Lag(r) \/ LagError(r) \/ GroupLeave(r) \/ GroupRebalance(r)
  PROVE  KafkaHealthInv'
<1>1. Consistent(ledger)
  BY DEF KafkaHealthInv, KafkaHealthTypeOK, LedgerRemembers, Consistent
<1>2. /\ stream[r] \in {"running", "flushing"}
      /\ stream' = [stream EXCEPT ![r] = stream[r]] /\ blame' = [blame EXCEPT ![r] = blame[r]]
      /\ blame[r] \in SUBSET SourceTopics /\ unseen[r] \in SUBSET SourceTopics
      /\ unseen = [unseen EXCEPT ![r] = unseen[r]]
      /\ \A s \in In(r) : s.topic \in unseen[r] => ledger.source[s].lastError
  BY DEF GroupJoin, Lag, LagError, GroupLeave, GroupRebalance, Listener, Listening,
     KafkaHealthInv, KafkaHealthTypeOK, LedgerRemembers, In
<1>3. CASE GroupLeave(r)
  <2>1. ChangedIn(r, ledger, ledger') /\ unseen' = [unseen EXCEPT ![r] = {}]
    BY <1>1, <1>3, Unchanged, Disconnects DEF GroupLeave
  <2>2. PICK to \in {"running", "flushing"}, hidden \in SUBSET SourceTopics :
          to = stream[r] /\ hidden = {}
    BY <1>2
  <2>3. /\ stream' = [stream EXCEPT ![r] = to] /\ unseen' = [unseen EXCEPT ![r] = hidden]
        /\ \A s \in In(r) : s.topic \in hidden => ledger'.source[s].lastError
    BY <1>2, <2>1, <2>2
  <2> QED
    BY <1>2, <2>1, <2>3, RegionKeeps
<1>4. CASE GroupJoin(r) \/ Lag(r) \/ LagError(r) \/ GroupRebalance(r)
  <2>1. unseen' = unseen /\ ChangedIn(r, ledger, ledger') /\ KeepsErrors(r, ledger, ledger')
    <3>1. CASE GroupJoin(r)
      BY <1>1, <3>1, Connects DEF GroupJoin
    <3>2. CASE Lag(r)
      BY <1>1, <3>2, Recovers DEF Lag
    <3>3. CASE LagError(r)
      BY <1>1, <3>3, Degrades DEF LagError
    <3>4. CASE GroupRebalance(r)
      BY <1>1, <3>4, Unchanged, Disconnects DEF GroupRebalance, KeepsErrors
    <3> QED
      BY <1>4, <3>1, <3>2, <3>3, <3>4
  <2>2. unseen' = [unseen EXCEPT ![r] = unseen[r]]
    BY <1>2, <2>1
  <2>3. \A s \in In(r) : s.topic \in unseen[r] => ledger'.source[s].lastError
    BY <1>2, <2>1 DEF KeepsErrors
  <2> QED
    BY <1>2, <2>1, <2>2, <2>3, RegionKeeps
<1> QED
  BY <1>3, <1>4

\* A stream that starts or stops.
LEMMA StartStopKeeps ==
  ASSUME KafkaHealthInv, NEW r \in Regions, StartRegion(r) \/ StopRegion(r)
  PROVE  KafkaHealthInv'
<1>1. Consistent(ledger)
  BY DEF KafkaHealthInv, KafkaHealthTypeOK, LedgerRemembers, Consistent
<1>2. PICK to \in {"running", "stopped"} : stream' = [stream EXCEPT ![r] = to]
  BY DEF StartRegion, StopRegion
<1>3. ChangedIn(r, ledger, ledger') /\ KeepsErrors(r, ledger, ledger')
  BY <1>1, Connects, Unchanged DEF StartRegion, StopRegion
<1>4. /\ blame' = [blame EXCEPT ![r] = blame[r]] /\ unseen' = [unseen EXCEPT ![r] = unseen[r]]
      /\ blame[r] \in SUBSET SourceTopics /\ unseen[r] \in SUBSET SourceTopics
      /\ \A s \in In(r) : s.topic \in unseen[r] => ledger.source[s].lastError
  BY DEF StartRegion, StopRegion, KafkaHealthInv, KafkaHealthTypeOK, LedgerRemembers, In
<1>5. \A s \in In(r) : s.topic \in unseen[r] => ledger'.source[s].lastError
  BY <1>3, <1>4 DEF KeepsErrors
<1> QED
  BY <1>2, <1>3, <1>4, <1>5, RegionKeeps

\* A message that is committed, or one that cannot be decoded.
LEMMA MessageKeeps ==
  ASSUME KafkaHealthInv, NEW s \in Sources, Commit(s) \/ FailMessage(s)
  PROVE  KafkaHealthInv'
<1>0. PICK r \in Regions : r = s.region
  BY DEF Regions
<1>1. Consistent(ledger) /\ r \in Regions /\ s \in In(r)
  BY <1>0 DEF KafkaHealthInv, KafkaHealthTypeOK, LedgerRemembers, Consistent, In, Regions
<1>2. /\ blame[r] \in SUBSET SourceTopics /\ unseen[r] \in SUBSET SourceTopics
      /\ s.topic \in SourceTopics
      /\ stream = [stream EXCEPT ![r] = stream[r]] /\ blame = [blame EXCEPT ![r] = blame[r]]
      /\ unseen = [unseen EXCEPT ![r] = unseen[r]]
      /\ \A x \in In(r) : x.topic \in unseen[r] => ledger.source[x].lastError
  BY <1>1 DEF KafkaHealthInv, KafkaHealthTypeOK, LedgerRemembers, In, SourceTopics
<1>3. \A x \in In(r) : x.topic = s.topic => x = s
  BY <1>0, SourcesAssumption DEF In
<1>4. CASE Commit(s)
  <2>1. PICK keep \in BOOLEAN : keep = (s.topic \in blame[r])
    <3>1. (s.topic \in blame[r]) \in BOOLEAN
      OBVIOUS
    <3> QED
      BY <3>1, Zenon
  <2>2. /\ stream[r] \in {"running", "flushing"} /\ stream' = stream /\ blame' = blame
        /\ ledger' = MessageDecoded(ledger, s, keep)
        /\ unseen' = IF keep THEN unseen ELSE [unseen EXCEPT ![r] = @ \ {s.topic}]
    BY <1>0, <1>4, <2>1 DEF Commit
  <2>3. /\ ChangedIn(r, ledger, ledger')
        /\ \A x \in In(r) :
             ledger.source[x].lastError /\ (x = s => keep) => ledger'.source[x].lastError
    BY <1>0, <1>1, <2>2, Decodes
  <2>4. PICK hidden \in SUBSET SourceTopics :
          /\ hidden = IF keep THEN unseen[r] ELSE unseen[r] \ {s.topic}
          /\ unseen' = [unseen EXCEPT ![r] = hidden]
    BY <1>2, <2>2
  <2>5. \A x \in In(r) : x.topic \in hidden => ledger'.source[x].lastError
    BY <1>2, <1>3, <2>3, <2>4
  <2>6. stream' = [stream EXCEPT ![r] = stream[r]] /\ blame' = [blame EXCEPT ![r] = blame[r]]
    BY <1>2, <2>2
  <2>7. PICK to \in {"running", "flushing"} : to = stream[r]
    BY <2>2
  <2>8. PICK blamed \in SUBSET SourceTopics : blamed = blame[r]
    BY <1>2
  <2>9. stream' = [stream EXCEPT ![r] = to] /\ blame' = [blame EXCEPT ![r] = blamed]
    BY <2>6, <2>7, <2>8
  <2>10. to # "failed"
    OBVIOUS
  <2> QED
    BY <2>3, <2>4, <2>5, <2>9, <2>10, RegionKeeps
<1>5. CASE FailMessage(s)
  <2>1. /\ ledger' = MessagesFailed(ledger, {s})
        /\ stream' = [stream EXCEPT ![r] = "flushing"]
        /\ blame' = [blame EXCEPT ![r] = {s.topic}]
        /\ unseen' = [unseen EXCEPT ![r] = unseen[r] \union {s.topic}]
    BY <1>0, <1>5 DEF FailMessage
  <2>2. /\ ChangedIn(r, ledger, ledger') /\ KeepsErrors(r, ledger, ledger')
        /\ ledger'.source[s].lastError
    BY <1>1, <2>1, Errs
  <2>3. \A x \in In(r) : x.topic \in unseen[r] \union {s.topic} => ledger'.source[x].lastError
    BY <1>2, <1>3, <2>2 DEF KeepsErrors
  <2>4. PICK blamed \in SUBSET SourceTopics, hidden \in SUBSET SourceTopics :
          blamed = {s.topic} /\ hidden = unseen[r] \union {s.topic}
    BY <1>2
  <2>5. blame' = [blame EXCEPT ![r] = blamed] /\ unseen' = [unseen EXCEPT ![r] = hidden]
    BY <2>1, <2>4
  <2>6. \A x \in In(r) : x.topic \in hidden => ledger'.source[x].lastError
    BY <2>3, <2>4
  <2> QED
    BY <2>1, <2>2, <2>5, <2>6, RegionKeeps
<1> QED
  BY <1>4, <1>5

\* The failure of a region's stream, or of one of its batches.
LEMMA FailKeeps ==
  ASSUME KafkaHealthInv, NEW r \in Regions, NEW S \in SUBSET In(r), NEW keep \in BOOLEAN,
         Fail(MessagesFailed(ledger, S), r, keep),
         unseen' = IF keep THEN [unseen EXCEPT ![r] = @ \union {s.topic : s \in S}]
                   ELSE [unseen EXCEPT ![r] = {}]
  PROVE  KafkaHealthInv'
<1>1. Consistent(ledger)
  BY DEF KafkaHealthInv, KafkaHealthTypeOK, LedgerRemembers, Consistent
<1>2. /\ blame[r] \in SUBSET SourceTopics /\ unseen[r] \in SUBSET SourceTopics
      /\ {s.topic : s \in S} \in SUBSET SourceTopics
      /\ blame = [blame EXCEPT ![r] = blame[r]]
      /\ \A x \in In(r) : x.topic \in unseen[r] => ledger.source[x].lastError
  BY DEF KafkaHealthInv, KafkaHealthTypeOK, LedgerRemembers, In, SourceTopics
<1>3. \A x \in In(r) : x.topic \in {s.topic : s \in S} => x \in S
  BY SourcesAssumption DEF In
<1>4. PICK l : l = MessagesFailed(ledger, S)
  OBVIOUS
<1>5. /\ ChangedIn(r, ledger, l) /\ KeepsErrors(r, ledger, l) /\ Consistent(l)
      /\ \A s \in S : l.source[s].lastError
  BY <1>1, <1>4, Errs DEF ChangedIn
<1>6. /\ ledger' = RegionDisconnected(l, r, keep)
      /\ stream' = [stream EXCEPT ![r] = "failed"] /\ blame' = [blame EXCEPT ![r] = blame[r]]
  BY <1>2, <1>4 DEF Fail
<1>7. /\ ChangedIn(r, ledger, ledger') /\ ledger'.region[r] = "disconnected"
      /\ \A s \in In(r) : /\ ledger'.source[s].regionLastError
                          /\ keep /\ l.source[s].lastError => ledger'.source[s].lastError
  BY <1>5, <1>6, Disconnects
<1>8. PICK hidden \in SUBSET SourceTopics :
        /\ hidden = IF keep THEN unseen[r] \union {s.topic : s \in S} ELSE {}
        /\ unseen' = [unseen EXCEPT ![r] = hidden]
  BY <1>2
<1>9. \A x \in In(r) : x.topic \in hidden => ledger'.source[x].lastError
  BY <1>2, <1>3, <1>5, <1>7, <1>8 DEF KeepsErrors
<1> QED
  BY <1>2, <1>6, <1>7, <1>8, <1>9, RegionKeeps

\* Failing no message changes no ledger.
LEMMA NoMessageFails ==
  ASSUME NEW l, Consistent(l)
  PROVE  MessagesFailed(l, {}) = l
<1>1. PICK m : m = MessagesFailed(l, {})
  OBVIOUS
<1>2. PICK u : u = [s \in {} |-> [l.source[s] EXCEPT !.lastError = TRUE]]
  OBVIOUS
<1>3. m = UpdateSources(l, {}, u)
  BY <1>1, <1>2 DEF MessagesFailed
<1>4. PICK n : n = [l EXCEPT !.source = [s \in Sources |-> l.source[s]]]
  OBVIOUS
<1>5. n = l
  BY <1>4 DEF Consistent, Ledgers
<1>6. [t \in SourceTopics |-> l.topic[t]] = l.topic
  BY DEF Consistent, Ledgers
<1>7. m = [n EXCEPT !.topic = [t \in SourceTopics |-> l.topic[t]]]
  BY <1>3, <1>4, <1>5 DEF UpdateSources
<1>8. m = l
  BY <1>5, <1>6, <1>7 DEF Consistent, Ledgers
<1> QED
  BY <1>1, <1>8

\* The invariant of the ledger.
THEOREM KafkaHealthInductive == KafkaHealthSpec => []KafkaHealthInv
<1>1. KafkaHealthInit => KafkaHealthInv
  <2> SUFFICES ASSUME KafkaHealthInit PROVE KafkaHealthInv
    OBVIOUS
  <2>1. KafkaHealthTypeOK
    BY DEF KafkaHealthInit, KafkaHealthTypeOK, Ledgers, SourceHealth, NewSource, RegionStates,
       TopicStates
  <2>2. ASSUME NEW t \in SourceTopics PROVE TopicStatus(ledger, t) = "starting"
    <3>1. PICK x \in Sources : x.topic = t
      BY DEF SourceTopics
    <3>2. \A s \in Sources : ledger.source[s] = NewSource
      BY DEF KafkaHealthInit
    <3>3. {ledger.source[s] : s \in {y \in Sources : y.topic = t}} = {NewSource}
      BY <3>1, <3>2
    <3>4. ~NewSource.lastError /\ ~NewSource.regionLastError /\ ~NewSource.connected
      BY DEF NewSource
    <3> HIDE DEF NewSource
    <3> QED
      BY <3>3, <3>4 DEF TopicStatus
  <2>3. LedgerRemembers
    BY <2>2 DEF KafkaHealthInit, LedgerRemembers, Regions
  <2> QED
    BY <2>1, <2>3 DEF KafkaHealthInv
<1>2. KafkaHealthInv /\ [KafkaHealthNext]_kafkaHealthVars => KafkaHealthInv'
  <2> SUFFICES ASSUME KafkaHealthInv, [KafkaHealthNext]_kafkaHealthVars PROVE KafkaHealthInv'
    OBVIOUS
  <2>1. Consistent(ledger)
    BY DEF KafkaHealthInv, KafkaHealthTypeOK, LedgerRemembers, Consistent
  <2>2. CASE UNCHANGED kafkaHealthVars
    BY <2>2 DEF kafkaHealthVars, KafkaHealthInv, KafkaHealthTypeOK, LedgerRemembers, TopicStatus
  <2>3. ASSUME NEW r \in Regions, FinishFlush(r) PROVE KafkaHealthInv'
    <3>1. unseen' = [unseen EXCEPT ![r] = @ \union {s.topic : s \in {}}]
      BY <2>3 DEF FinishFlush, KafkaHealthInv, KafkaHealthTypeOK
    <3>2. Fail(MessagesFailed(ledger, {}), r, TRUE)
      BY <2>1, <2>3, NoMessageFails DEF FinishFlush
    <3> QED
      BY <3>1, <3>2, FailKeeps
  <2>4. ASSUME NEW r \in Regions, NEW keep \in BOOLEAN, FailStream(r, keep) PROVE KafkaHealthInv'
    <3>1. unseen' = IF keep THEN [unseen EXCEPT ![r] = @ \union {s.topic : s \in {}}]
                    ELSE [unseen EXCEPT ![r] = {}]
      BY <2>4 DEF FailStream, KafkaHealthInv, KafkaHealthTypeOK
    <3>2. Fail(MessagesFailed(ledger, {}), r, keep)
      BY <2>1, <2>4, NoMessageFails DEF FailStream
    <3> QED
      BY <3>1, <3>2, FailKeeps
  <2>5. ASSUME NEW r \in Regions, NEW S \in SUBSET In(r), FailBatch(r, S) PROVE KafkaHealthInv'
    <3>1. Fail(MessagesFailed(ledger, S), r, TRUE)
      BY <2>5 DEF FailBatch
    <3>2. unseen' = [unseen EXCEPT ![r] = @ \union {s.topic : s \in S}]
      BY <2>5 DEF FailBatch
    <3> QED
      BY <3>1, <3>2, FailKeeps
  <2>6. CASE KafkaHealthNext
    BY <2>3, <2>4, <2>5, <2>6, ListenerKeeps, StartStopKeeps, MessageKeeps DEF KafkaHealthNext
  <2> QED
    BY <2>2, <2>6
<1> QED
  BY <1>1, <1>2, PTL DEF KafkaHealthSpec

\* A failed region stays visible.
THEOREM FailuresStay == KafkaHealthSpec => []FailureStaysVisible
<1>1. KafkaHealthInv => FailureStaysVisible
  <2> SUFFICES ASSUME KafkaHealthInv, NEW r \in Regions
               PROVE /\ stream[r] = "failed" =>
                          /\ ledger.region[r] = "disconnected"
                          /\ \A s \in In(r) : ledger.topic[s.topic] = "degraded"
                          /\ \A status \in {"starting", "ready"} :
                               HealthOverlay(status, ledger) = "degraded"
                     /\ \A s \in In(r) : s.topic \in unseen[r] => ledger.source[s].lastError
    BY DEF FailureStaysVisible
  <2> USE DEF KafkaHealthInv, LedgerRemembers
  <2>1. ASSUME stream[r] = "failed", NEW s \in In(r) PROVE ledger.topic[s.topic] = "degraded"
    <3>1. s \in Sources /\ s.topic \in SourceTopics /\ ledger.source[s].regionLastError
      BY <2>1 DEF In, SourceTopics
    <3>2. TopicStatus(ledger, s.topic) = "degraded"
      BY <3>1 DEF TopicStatus
    <3> QED
      BY <3>1, <3>2
  <2>2. ASSUME stream[r] = "failed", NEW status \in {"starting", "ready"}
        PROVE  HealthOverlay(status, ledger) = "degraded"
    <3>1. ledger.region[r] = "disconnected"
      BY <2>2
    <3>2. KafkaStatus(ledger) = "degraded"
      BY <3>1 DEF KafkaStatus
    <3> QED
      BY <3>2 DEF HealthOverlay
  <2>3. \A s \in In(r) : s.topic \in unseen[r] => ledger.source[s].lastError
    BY DEF In
  <2> QED
    BY <2>1, <2>2, <2>3
<1> QED
  BY <1>1, KafkaHealthInductive, PTL
-------------------------------------------------------------------------------
(* The materialized feeds. *)

\* What a feed, its last exit and its status can be.
RunStates == {"unstarted", "running", "releasing", "sleeping", "done"}
FeedExits == {"none", "completed", "stream", "publish", "defect", "interrupts", "release", "acquire"}
MaterializedStates == {"starting", "ready", "degraded", "stopping"}

\* The shapes of the state.
FeedTypeOK ==
  /\ run \in [FeedNames -> RunStates]
  /\ exit \in [FeedNames -> FeedExits]
  /\ flags \in [FeedNames -> [published : BOOLEAN, stayedOpen : BOOLEAN]]
  /\ unstable \in [FeedNames -> Nat]
  /\ feed \in [FeedNames -> MaterializedStates]
  /\ ingress \in {"starting", "open", "failed", "closing"}
  /\ proved \in [FeedNames -> BOOLEAN]
  /\ retries \in [FeedNames -> Nat]

\* The flags are those of this run, and until a feed is given up the count of unstable
\* exits is the number of reconnects since a run last proved itself; a feed given up
\* for an end it could be retried after has used its budget up.
AttemptsCounted ==
  \A f \in FeedNames :
    /\ proved[f] <=> flags[f].published \/ flags[f].stayedOpen
    /\ run[f] # "done" => unstable[f] = retries[f]
    /\ retries[f] <= MaxReconnects
    /\ run[f] = "done" /\ ~Interrupted /\ (exit[f] = "completed" \/ Restartable(exit[f])) =>
         retries[f] = MaxReconnects
    /\ run[f] = "releasing" => exit[f] # "none"

\* What the ledger says of a feed agrees with its fiber.
StatusesAgree ==
  /\ ingress = "closing" => \A f \in FeedNames : feed[f] = "stopping"
  /\ ~Interrupted => \A f \in FeedNames :
       /\ feed[f] = "ready" => run[f] \in {"running", "releasing"}
       /\ run[f] = "done" => feed[f] \in {"degraded", "stopping"}

\* The invariant of the feeds.
FeedInv == FeedTypeOK /\ AttemptsCounted /\ StatusesAgree

\* The client is ready only when every feed is.
LEMMA ReadyIsAll ==
  Reported = "ready" <=> \A f \in FeedNames : feed[f] \notin {"degraded", "starting", "stopping"}
BY DEF Reported, GrpcStatus, ClientStatus

\* What follows the end of a run keeps the invariant, whether the feed reconnects or
\* is given up.
LEMMA SettleKeeps ==
  ASSUME FeedInv, NEW f \in FeedNames, NEW how \in FeedExits \ {"none"},
         run[f] # "done", ~Interrupted,
         FeedTypeOK /\ flags' \in [FeedNames -> [published : BOOLEAN, stayedOpen : BOOLEAN]],
         proved' \in [FeedNames -> BOOLEAN],
         \A g \in FeedNames : proved'[g] <=> flags'[g].published \/ flags'[g].stayedOpen,
         Settle(f, how), ingress' \in {ingress, "open"}
  PROVE  FeedInv'
<1> USE FeedAssumption DEF FeedInv, FeedTypeOK, RunStates, FeedExits, MaterializedStates
<1>1. PICK n : n = UnstableExits(f, how)
  OBVIOUS
<1>2. /\ n \in Nat
      /\ n = IF how # "completed" /\ proved'[f] THEN 0 ELSE retries[f]
      /\ unstable[f] = retries[f] /\ retries[f] <= MaxReconnects
  BY <1>1 DEF UnstableExits, AttemptsCounted
<1>3. ~Interrupted' /\ exit' = [exit EXCEPT ![f] = how]
  BY DEF Interrupted, Settle
<1>4. CASE Reconnect(f, how)
  <2>1. /\ n < MaxReconnects
        /\ unstable' = [unstable EXCEPT ![f] = n + 1]
        /\ retries' = [retries EXCEPT ![f] = IF how # "completed" /\ proved'[f] THEN 1 ELSE @ + 1]
        /\ feed' = [feed EXCEPT ![f] = "starting"]
        /\ run' = [run EXCEPT ![f] = "sleeping"]
    BY <1>1, <1>4 DEF Reconnect, CanReconnect
  <2>2. retries'[f] = n + 1 /\ unstable'[f] = n + 1 /\ retries' \in [FeedNames -> Nat]
    BY <1>2, <2>1
  <2>3. FeedTypeOK'
    BY <1>2, <1>3, <2>1, <2>2
  <2>4. AttemptsCounted'
    BY <1>2, <1>3, <2>1, <2>2 DEF AttemptsCounted, Restartable
  <2>5. StatusesAgree'
    BY <1>3, <2>1 DEF StatusesAgree, Interrupted
  <2> QED
    BY <2>3, <2>4, <2>5
<1>5. CASE GiveUp(f, how)
  <2>1. /\ ~(how = "completed" \/ Restartable(how)) \/ ~(n < MaxReconnects)
        /\ unstable' = [unstable EXCEPT ![f] = n]
        /\ feed' = [feed EXCEPT ![f] = IF how = "interrupts" THEN "stopping" ELSE "degraded"]
        /\ run' = [run EXCEPT ![f] = "done"]
        /\ retries' = retries
    BY <1>1, <1>5 DEF GiveUp, CanReconnect
  <2>2. how = "completed" \/ Restartable(how) => retries[f] = MaxReconnects
    <3> SUFFICES ASSUME how = "completed" \/ Restartable(how) PROVE retries[f] = MaxReconnects
      OBVIOUS
    <3>1. MaxReconnects <= n
      BY <1>2, <2>1
    <3>2. n = 0 \/ n = retries[f]
      BY <1>2
    <3>3. PICK k \in Nat, most \in Nat : k = retries[f] /\ most = MaxReconnects /\ k <= most
      BY <1>2
    <3>4. most <= n /\ (n = 0 \/ n = k)
      BY <3>1, <3>2, <3>3
    <3>5. k = most
      BY <3>3, <3>4
    <3> QED
      BY <3>3, <3>5
  <2>3. FeedTypeOK'
    BY <1>2, <1>3, <2>1
  <2>4. AttemptsCounted'
    BY <1>3, <2>1, <2>2 DEF AttemptsCounted, Restartable
  <2>5. StatusesAgree'
    BY <1>3, <2>1 DEF StatusesAgree, Interrupted
  <2> QED
    BY <2>3, <2>4, <2>5
<1> QED
  BY <1>4, <1>5 DEF Settle

\* A run that begins has proved nothing yet.
LEMMA AcquireKeeps ==
  ASSUME FeedInv, NEW f \in FeedNames, run[f] \in {"unstarted", "sleeping"}, ~Interrupted,
         Acquire(f), ingress' \in {ingress, "open"}
  PROVE  FeedInv'
<1> USE DEF FeedInv, FeedTypeOK, RunStates, FeedExits, MaterializedStates
<1>1. /\ flags' = [flags EXCEPT ![f] = NoFlags] /\ proved' = [proved EXCEPT ![f] = FALSE]
      /\ NoFlags \in [published : BOOLEAN, stayedOpen : BOOLEAN]
      /\ NoFlags.published = FALSE /\ NoFlags.stayedOpen = FALSE
  BY DEF Acquire, FreshRun, NoFlags
<1> HIDE DEF NoFlags
<1>2. /\ flags' \in [FeedNames -> [published : BOOLEAN, stayedOpen : BOOLEAN]]
      /\ proved' \in [FeedNames -> BOOLEAN]
      /\ \A g \in FeedNames : proved'[g] <=> flags'[g].published \/ flags'[g].stayedOpen
  BY <1>1 DEF AttemptsCounted
<1>3. CASE Settle(f, "acquire")
  BY <1>2, <1>3, SettleKeeps
<1>4. CASE ~Settle(f, "acquire")
  <2>1. /\ run' = [run EXCEPT ![f] = "running"]
        /\ feed' = [feed EXCEPT ![f] = "ready"]
        /\ UNCHANGED <<exit, unstable, retries>>
    BY <1>4 DEF Acquire
  <2>2. ~Interrupted'
    BY DEF Interrupted
  <2>3. FeedTypeOK'
    BY <1>2, <2>1
  <2>4. AttemptsCounted'
    BY <1>2, <2>1 DEF AttemptsCounted, Restartable, Interrupted
  <2>5. StatusesAgree'
    BY <2>1, <2>2 DEF StatusesAgree, Interrupted
  <2> QED
    BY <2>3, <2>4, <2>5
<1> QED
  BY <1>3, <1>4

\* A run that proves itself, and the end of its use of the stream.
LEMMA RunKeeps ==
  ASSUME FeedInv, NEW f \in FeedNames, StayOpen(f) \/ PublishBatch(f) \/ EndUse(f)
  PROVE  FeedInv'
<1> USE DEF FeedInv, FeedTypeOK, RunStates, FeedExits, MaterializedStates
<1>1. CASE StayOpen(f) \/ PublishBatch(f)
  <2>1. /\ \/ flags' = [flags EXCEPT ![f].stayedOpen = TRUE]
           \/ flags' = [flags EXCEPT ![f].published = TRUE]
        /\ proved' = [proved EXCEPT ![f] = TRUE]
        /\ UNCHANGED <<run, exit, unstable, feed, ingress, retries>>
    BY <1>1 DEF StayOpen, PublishBatch
  <2>2. /\ flags' \in [FeedNames -> [published : BOOLEAN, stayedOpen : BOOLEAN]]
        /\ \A g \in FeedNames : proved'[g] <=> flags'[g].published \/ flags'[g].stayedOpen
    <3>1. \A g \in FeedNames \ {f} : flags'[g] = flags[g] /\ proved'[g] = proved[g]
      BY <2>1
    <3>2. flags'[f].published \/ flags'[f].stayedOpen
      BY <2>1
    <3>3. flags' \in [FeedNames -> [published : BOOLEAN, stayedOpen : BOOLEAN]]
      <4>1. /\ [flags[f] EXCEPT !.stayedOpen = TRUE] \in [published : BOOLEAN, stayedOpen : BOOLEAN]
            /\ [flags[f] EXCEPT !.published = TRUE] \in [published : BOOLEAN, stayedOpen : BOOLEAN]
        OBVIOUS
      <4>2. \E new \in [published : BOOLEAN, stayedOpen : BOOLEAN] :
              flags' = [flags EXCEPT ![f] = new]
        BY <2>1, <4>1
      <4> QED
        BY <4>2
    <3>4. proved'[f]
      BY <2>1
    <3> QED
      BY <3>1, <3>2, <3>3, <3>4 DEF AttemptsCounted
  <2> QED
    BY <2>1, <2>2 DEF AttemptsCounted, StatusesAgree, Interrupted, Restartable
<1>2. CASE EndUse(f)
  <2>1. PICK how \in {"completed", "stream", "publish", "defect", "interrupts"} :
          /\ run[f] = "running" /\ run' = [run EXCEPT ![f] = "releasing"]
          /\ exit' = [exit EXCEPT ![f] = how]
          /\ feed' = [feed EXCEPT ![f] = IF how = "publish" THEN "degraded" ELSE @]
          /\ Interrupted => how = "interrupts"
          /\ UNCHANGED <<flags, unstable, ingress, proved, retries>>
    BY <1>2 DEF EndUse
  <2>2. FeedTypeOK'
    BY <2>1
  <2>3. AttemptsCounted'
    BY <2>1 DEF AttemptsCounted, Interrupted, Restartable
  <2>4. StatusesAgree'
    BY <2>1 DEF StatusesAgree, Interrupted
  <2> QED
    BY <2>2, <2>3, <2>4
<1> QED
  BY <1>1, <1>2

\* The end of a fiber that is interrupted, and of the ingress.
LEMMA ClosingKeeps ==
  ASSUME FeedInv, FailStart \/ CloseFeeds \/ \E f \in FeedNames : EndInterrupted(f)
  PROVE  FeedInv'
<1> USE DEF FeedInv, FeedTypeOK, RunStates, FeedExits, MaterializedStates
<1>1. CASE FailStart \/ CloseFeeds
  BY <1>1 DEF FailStart, CloseFeeds, AttemptsCounted, StatusesAgree, Interrupted, Restartable
<1>2. ASSUME NEW f \in FeedNames, EndInterrupted(f) PROVE FeedInv'
  BY <1>2 DEF EndInterrupted, AttemptsCounted, StatusesAgree, Interrupted, Restartable
<1> QED
  BY <1>1, <1>2

\* A use that has ended is settled once its stream is released.
LEMMA ReleaseKeeps ==
  ASSUME FeedInv, NEW f \in FeedNames, Release(f)
  PROVE  FeedInv'
<1>1. /\ run[f] = "releasing" /\ ~Interrupted /\ UNCHANGED <<flags, ingress, proved>>
      /\ Settle(f, exit[f]) \/ Settle(f, "release")
  BY DEF Release
<1>2. exit[f] \in FeedExits \ {"none"} /\ "release" \in FeedExits \ {"none"}
  BY <1>1 DEF FeedInv, FeedTypeOK, FeedExits, AttemptsCounted
<1>3. PICK how \in FeedExits \ {"none"} : Settle(f, how)
  BY <1>1, <1>2
<1>4. /\ flags' \in [FeedNames -> [published : BOOLEAN, stayedOpen : BOOLEAN]]
      /\ proved' \in [FeedNames -> BOOLEAN]
      /\ \A g \in FeedNames : proved'[g] <=> flags'[g].published \/ flags'[g].stayedOpen
  BY <1>1 DEF FeedInv, FeedTypeOK, AttemptsCounted
<1> QED
  BY <1>1, <1>3, <1>4, SettleKeeps DEF FeedInv

\* The invariant of the feeds.
THEOREM FeedInductive == FeedSpec => []FeedInv
<1>1. FeedInit => FeedInv
  BY FeedAssumption DEF FeedInit, FeedInv, FeedTypeOK, AttemptsCounted, StatusesAgree, Interrupted,
     NoFlags, RunStates, FeedExits, MaterializedStates
<1>2. FeedInv /\ [FeedNext]_feedVars => FeedInv'
  <2> SUFFICES ASSUME FeedInv, [FeedNext]_feedVars PROVE FeedInv'
    OBVIOUS
  <2>1. CASE UNCHANGED feedVars
    BY <2>1 DEF feedVars, FeedInv, FeedTypeOK, AttemptsCounted, StatusesAgree, Interrupted
  <2>2. ASSUME NEW i \in DOMAIN Feeds, StartFeed(i) PROVE FeedInv'
    <3>1. Feeds[i] \in FeedNames
      BY DEF FeedNames, ToSet
    <3>2. /\ run[Feeds[i]] = "unstarted" /\ ~Interrupted /\ Acquire(Feeds[i])
          /\ ingress' \in {ingress, "open"}
      BY <2>2 DEF StartFeed, Interrupted
    <3> QED
      BY <3>1, <3>2, AcquireKeeps
  <2>3. ASSUME NEW f \in FeedNames, Retry(f) PROVE FeedInv'
    BY <2>3, AcquireKeeps DEF Retry
  <2>4. CASE FeedNext
    BY <2>2, <2>3, <2>4, RunKeeps, ReleaseKeeps, ClosingKeeps DEF FeedNext
  <2> QED
    BY <2>1, <2>4
<1> QED
  BY <1>1, <1>2, PTL DEF FeedSpec

\* A feed is retried up to its budget, and the client is ready only with all its feeds.
THEOREM BudgetKept == FeedSpec => []BudgetIsRespected
<1>1. FeedInv => BudgetIsRespected
  <2> SUFFICES ASSUME FeedInv, NEW f \in FeedNames
               PROVE  /\ retries[f] <= MaxReconnects
                      /\ run[f] = "done" /\ ~Interrupted =>
                           /\ exit[f] = "completed" \/ Restartable(exit[f]) =>
                                retries[f] = MaxReconnects
                           /\ Reported # "ready"
                      /\ Reported = "ready" /\ ingress # "failed" =>
                           run[f] \in {"running", "releasing"}
    BY DEF BudgetIsRespected
  <2> USE DEF FeedInv, FeedTypeOK, AttemptsCounted, StatusesAgree
  <2>1. run[f] = "done" /\ ~Interrupted => Reported # "ready"
    BY ReadyIsAll
  <2>2. ASSUME Reported = "ready", ingress # "failed" PROVE run[f] \in {"running", "releasing"}
    <3>1. feed[f] = "ready"
      BY <2>2, ReadyIsAll DEF MaterializedStates
    <3>2. ~Interrupted
      BY <2>2, <3>1 DEF Interrupted
    <3> QED
      BY <3>1, <3>2
  <2> QED
    BY <2>1, <2>2
<1> QED
  BY <1>1, FeedInductive, PTL
-------------------------------------------------------------------------------
(* The remote client's subscriptions. *)

\* What a reader can be given.
Statuses == {Failure, Overflow}
RemoteEvents == Nat \union Statuses

\* The shapes of the state.
RemoteTypeOK ==
  /\ producer \in [Subscriptions -> {"none", "running", "stopping", "done"}]
  /\ sent \in [Subscriptions -> Nat]
  /\ buffer \in [Subscriptions -> Seq(RemoteEvents)]
  /\ queueEnd \in [Subscriptions -> {"open", "ended", "defect"}]
  /\ lifecycle \in [Subscriptions -> {"none", "opened", "closed", "late"}]
  /\ scope \in [Subscriptions -> {"none", "open", "closed"}]
  /\ seen \in [Subscriptions -> Seq(RemoteEvents)]
  /\ reader \in [Subscriptions -> {"reading", "ended", "defect", "closed", "stopped"}]
  /\ active \in Nat

\* A list of events that ends with a status.
EndsWithStatus(q) == q # <<>> /\ q[Len(q)] \in Statuses

\* What is read and what waits are the source's events in order; a status is the last
\* of both, of a queue that has ended.
InOrder(s) ==
  /\ \A i \in 1 .. Len(seen[s]) :
       \/ seen[s][i] = i
       \/ seen[s][i] \in Statuses /\ i = Len(seen[s]) /\ buffer[s] = <<>> /\ queueEnd[s] # "open"
  /\ \A i \in 1 .. Len(buffer[s]) :
       \/ buffer[s][i] = Len(seen[s]) + i
       \/ buffer[s][i] \in Statuses /\ i = Len(buffer[s]) /\ queueEnd[s] # "open"

\* A queue that is open, or that ended while the subscription is open, misses no event
\* unless it ends with a status.
NothingMissing(s) ==
  LET brought == Len(seen[s]) + Len(buffer[s]) IN
  /\ queueEnd[s] = "open" => brought = sent[s]
  /\ queueEnd[s] = "ended" /\ scope[s] = "open" =>
       EndsWithStatus(seen[s]) \/ EndsWithStatus(buffer[s]) \/ brought = sent[s]
  /\ reader[s] = "ended" =>
       queueEnd[s] # "open" /\ (EndsWithStatus(seen[s]) \/ Len(seen[s]) = sent[s])

\* Only an open subscription with an open queue has a source that brings events.
ProducerFollows(s) ==
  /\ producer[s] = "running" => scope[s] = "open" /\ queueEnd[s] = "open"
  /\ producer[s] = "stopping" /\ queueEnd[s] = "open" => scope[s] = "closed"
  /\ scope[s] = "none" => producer[s] = "none" /\ buffer[s] = <<>> /\ queueEnd[s] = "open"

\* What holds of each subscription.
Served(s) == InOrder(s) /\ NothingMissing(s) /\ ProducerFollows(s)

\* The subscriptions the client counts as open.
OpenSubscriptions == {s \in Subscriptions : lifecycle[s] = "opened"}

\* What is not made yet is neither open nor closed.
MadeOnce == \A s \in Subscriptions : scope[s] = "none" => lifecycle[s] = "none"

\* The count is that of the open ones.
OpenAreCounted ==
  (\A s \in Subscriptions : lifecycle[s] # "late") => active = Cardinality(OpenSubscriptions)

\* The invariant of the subscriptions.
RemoteInv == RemoteTypeOK /\ (\A s \in Subscriptions : Served(s)) /\ MadeOnce /\ OpenAreCounted

\* Closing subscriptions counts each open one down once.
LEMMA CloseCounts ==
  ASSUME RemoteTypeOK, OpenAreCounted, NEW S \in SUBSET Subscriptions, CloseLifecycle(S)
  PROVE  /\ OpenAreCounted' /\ active' \in Nat
         /\ lifecycle' \in [Subscriptions -> {"none", "opened", "closed", "late"}]
         /\ \A s \in Subscriptions : lifecycle[s] = "none" => lifecycle'[s] = "none"
<1> USE RemoteAssumption
<1>1. PICK first : first = {s \in S : lifecycle[s] = "opened"}
  OBVIOUS
<1>2. /\ lifecycle' = [s \in Subscriptions |-> IF s \in first THEN "closed" ELSE lifecycle[s]]
      /\ active' = CountDown(active, Cardinality(first))
  BY <1>1 DEF CloseLifecycle
<1>3. IsFiniteSet(OpenSubscriptions) /\ first \subseteq OpenSubscriptions
  BY <1>1, FS_Subset DEF OpenSubscriptions
<1>4. PICK n \in Nat, k \in Nat : n = Cardinality(OpenSubscriptions) /\ k = Cardinality(first) /\ k <= n
  BY <1>3, FS_Subset, FS_CardinalityType
<1>5. OpenSubscriptions' = OpenSubscriptions \ first
  BY <1>1, <1>2 DEF OpenSubscriptions, RemoteTypeOK
<1>6. Cardinality(OpenSubscriptions') = n - k
  <2>1. OpenSubscriptions \cap first = first
    BY <1>3
  <2>2. Cardinality(OpenSubscriptions \ first)
          = Cardinality(OpenSubscriptions) - Cardinality(OpenSubscriptions \cap first)
    BY <1>3, FS_Difference
  <2> QED
    BY <1>4, <1>5, <2>1, <2>2
<1>7. active' \in Nat /\ (active = n => active' = n - k)
  BY <1>2, <1>4 DEF CountDown, RemoteTypeOK
<1>8. (\A s \in Subscriptions : lifecycle'[s] # "late") => \A s \in Subscriptions : lifecycle[s] # "late"
  BY <1>1, <1>2
<1>9. lifecycle' \in [Subscriptions -> {"none", "opened", "closed", "late"}]
  BY <1>2 DEF RemoteTypeOK
<1>10. \A s \in Subscriptions : lifecycle[s] = "none" => lifecycle'[s] = "none"
  BY <1>1, <1>2
<1> QED
  BY <1>4, <1>6, <1>7, <1>8, <1>9, <1>10 DEF OpenAreCounted

\* What is closed of subscriptions, apart from their lifecycles.
LEMMA CloseKeeps ==
  ASSUME RemoteInv, NEW S \in SUBSET Subscriptions, \A s \in S : scope[s] # "none", CloseScopes(S),
         UNCHANGED <<sent, buffer, queueEnd, seen>>,
         reader' \in [Subscriptions -> {"reading", "ended", "defect", "closed", "stopped"}],
         \A s \in Subscriptions : reader'[s] = "ended" => 
            \/ reader[s] = "ended"
            \/ scope[s] = "open" /\ queueEnd[s] = "ended" /\ buffer[s] = <<>>
  PROVE  RemoteInv'
<1> USE DEF RemoteInv
<1>1. /\ scope' = [s \in Subscriptions |-> IF s \in S THEN "closed" ELSE scope[s]]
      /\ producer' = [s \in Subscriptions |->
           IF s \in S /\ producer[s] = "running" THEN "stopping" ELSE producer[s]]
      /\ UNCHANGED <<sent, buffer, queueEnd, seen>>
  BY DEF CloseScopes
<1>2. OpenAreCounted' /\ active' \in Nat
      /\ lifecycle' \in [Subscriptions -> {"none", "opened", "closed", "late"}]
      /\ \A s \in Subscriptions : lifecycle[s] = "none" => lifecycle'[s] = "none"
  <2>1. {s \in S : scope[s] = "open"} \in SUBSET Subscriptions
    OBVIOUS
  <2> QED
    BY <2>1, CloseCounts DEF CloseScopes
<1>3. RemoteTypeOK'
  BY <1>1, <1>2 DEF RemoteTypeOK
<1>4. ASSUME NEW s \in Subscriptions PROVE Served(s)'
  <2>1. InOrder(s)'
    BY <1>1 DEF InOrder, Served
  <2>2. ProducerFollows(s)'
    BY <1>1 DEF ProducerFollows, Served
  <2>3. reader'[s] = "ended" /\ reader[s] # "ended" =>
          EndsWithStatus(seen[s]) \/ Len(seen[s]) = sent[s]
    <3> SUFFICES ASSUME reader'[s] = "ended", reader[s] # "ended"
                 PROVE  EndsWithStatus(seen[s]) \/ Len(seen[s]) = sent[s]
      OBVIOUS
    <3>1. scope[s] = "open" /\ queueEnd[s] = "ended" /\ buffer[s] = <<>>
      OBVIOUS
    <3>2. ~EndsWithStatus(buffer[s]) /\ Len(buffer[s]) = 0 /\ Len(seen[s]) \in Nat
      BY <3>1 DEF EndsWithStatus, RemoteTypeOK
    <3>3. NothingMissing(s)
      BY DEF Served
    <3> QED
      BY <3>1, <3>2, <3>3 DEF NothingMissing
  <2>4. NothingMissing(s)'
    BY <1>1, <2>3 DEF NothingMissing, Served, EndsWithStatus
  <2> QED
    BY <2>1, <2>2, <2>4 DEF Served
<1>5. MadeOnce'
  BY <1>1, <1>2 DEF MadeOnce
<1> QED
  BY <1>2, <1>3, <1>4, <1>5

\* What a source brings, or the status that ends it, is offered after what came before.
LEMMA OfferKeeps ==
  ASSUME RemoteInv, NEW s \in Subscriptions, producer[s] = "running",
         NEW event \in RemoteEvents, NEW then \in {"running", "done"},
         NEW n \in Nat, sent' = [sent EXCEPT ![s] = n],
         \/ event = n /\ n = sent[s] + 1 /\ then = "running"
         \/ event \in Statuses /\ then = "done",
         OfferEvent(s, event, then), UNCHANGED <<scope, seen, reader, client>>
  PROVE  RemoteInv'
<1> USE RemoteAssumption DEF RemoteInv
<1>1. /\ scope[s] = "open" /\ queueEnd[s] = "open"
      /\ Len(seen[s]) + Len(buffer[s]) = sent[s] /\ reader[s] # "ended"
      /\ Len(seen[s]) \in Nat /\ Len(buffer[s]) \in Nat
      /\ buffer[s] \in Seq(RemoteEvents) /\ Overflow \in RemoteEvents
      /\ \A i \in 1 .. Len(seen[s]) : seen[s][i] = i
      /\ \A i \in 1 .. Len(buffer[s]) : buffer[s][i] = Len(seen[s]) + i
  BY DEF Served, ProducerFollows, NothingMissing, InOrder, RemoteTypeOK, RemoteEvents, Statuses
<1>2. ASSUME NEW z \in Subscriptions, z # s,
             \E b, e, p : /\ buffer' = [buffer EXCEPT ![s] = b]
                          /\ queueEnd' = [queueEnd EXCEPT ![s] = e]
                          /\ producer' = [producer EXCEPT ![s] = p]
      PROVE  Served(z)'
  <2>1. /\ buffer'[z] = buffer[z] /\ queueEnd'[z] = queueEnd[z] /\ producer'[z] = producer[z]
        /\ sent'[z] = sent[z] /\ UNCHANGED <<scope, seen, reader>>
    BY <1>2 DEF RemoteTypeOK
  <2>2. Served(z)
    OBVIOUS
  <2> QED
    BY <2>1, <2>2 DEF Served, InOrder, NothingMissing, ProducerFollows, EndsWithStatus
<1>3. CASE Len(buffer[s]) < BufferSize
  <2>1. PICK q : q = Append(buffer[s], event)
    OBVIOUS
  <2>2. /\ buffer' = [buffer EXCEPT ![s] = q]
        /\ queueEnd' = [queueEnd EXCEPT ![s] = IF then = "done" THEN "ended" ELSE @]
        /\ producer' = [producer EXCEPT ![s] = then]
        /\ UNCHANGED <<lifecycle, active>>
    BY <1>3, <2>1 DEF OfferEvent
  <2>3. /\ q \in Seq(RemoteEvents) /\ Len(q) = Len(buffer[s]) + 1 /\ q # <<>>
        /\ q[Len(q)] = event /\ \A i \in 1 .. Len(buffer[s]) : q[i] = buffer[s][i]
    BY <1>1, <2>1
  <2>10. Len(q) \in Nat \ {0} /\ (then = "running" => event = n /\ n = Len(seen[s]) + Len(q))
    <3>1. PICK a \in Nat, b \in Nat, c \in Nat :
            a = Len(seen[s]) /\ b = Len(buffer[s]) /\ c = sent[s] /\ a + b = c
      BY <1>1 DEF RemoteTypeOK
    <3>2. then = "running" => event = n /\ n = c + 1
      BY <3>1
    <3>3. Len(q) = b + 1 /\ Len(q) \in Nat /\ Len(q) # 0
      BY <2>3, <3>1
    <3>4. c + 1 = a + Len(q)
      <4>1. PICK m \in Nat : m = Len(q)
        BY <3>3
      <4>2. m = b + 1
        BY <3>3, <4>1
      <4>3. a + b = c
        BY <3>1
      <4>4. c + 1 = a + m
        BY <4>2, <4>3
      <4> QED
        BY <4>1, <4>4
    <3> QED
      BY <3>1, <3>2, <3>3, <3>4, Zenon
  <2>4. RemoteTypeOK'
    BY <2>2, <2>3 DEF RemoteTypeOK
  <2>5. OpenAreCounted'
    BY <2>2 DEF OpenAreCounted, OpenSubscriptions
  <2>6. /\ buffer'[s] = q /\ queueEnd'[s] = (IF then = "done" THEN "ended" ELSE "open")
        /\ producer'[s] = then /\ sent'[s] = n /\ seen' = seen /\ scope'[s] = "open"
        /\ reader'[s] # "ended"
    BY <1>1, <2>2 DEF RemoteTypeOK
  <2>7. InOrder(s)'
    <3>1. \A i \in 1 .. Len(q) : \/ q[i] = Len(seen[s]) + i
                                 \/ q[i] \in Statuses /\ i = Len(q) /\ then = "done"
      <4> SUFFICES ASSUME NEW i \in 1 .. Len(q)
                   PROVE  \/ q[i] = Len(seen[s]) + i
                          \/ q[i] \in Statuses /\ i = Len(q) /\ then = "done"
        OBVIOUS
      <4>1. CASE i \in 1 .. Len(buffer[s])
        BY <1>1, <2>3, <4>1
      <4>2. CASE i = Len(q)
        <5>1. CASE then = "running"
          BY <2>3, <2>10, <4>2, <5>1
        <5>2. CASE then = "done"
          BY <2>3, <4>2, <5>2
        <5> QED
          BY <5>1, <5>2
      <4> QED
        BY <1>1, <2>3, <4>1, <4>2
    <3> QED
      BY <1>1, <2>6, <3>1 DEF InOrder
  <2>8. NothingMissing(s)'
    <3>1. CASE then = "running"
      BY <2>6, <2>10, <3>1 DEF NothingMissing
    <3>2. CASE then = "done"
      <4>1. EndsWithStatus(q)
        BY <2>3, <3>2 DEF EndsWithStatus
      <4> QED
        BY <1>1, <2>6, <3>2, <4>1 DEF NothingMissing
    <3> QED
      BY <3>1, <3>2
  <2>9. ProducerFollows(s)'
    BY <2>6 DEF ProducerFollows
  <2> QED
    BY <1>2, <2>2, <2>4, <2>5, <2>7, <2>8, <2>9 DEF Served, MadeOnce
<1>4. CASE ~(Len(buffer[s]) < BufferSize)
  <2>1. /\ CloseLifecycle({s})
        /\ buffer' = [buffer EXCEPT ![s] = <<Overflow>>]
        /\ queueEnd' = [queueEnd EXCEPT ![s] = "ended"]
        /\ producer' = [producer EXCEPT ![s] = "stopping"]
    BY <1>4 DEF OfferEvent
  <2>2. OpenAreCounted' /\ active' \in Nat
        /\ lifecycle' \in [Subscriptions -> {"none", "opened", "closed", "late"}]
        /\ \A z \in Subscriptions : lifecycle[z] = "none" => lifecycle'[z] = "none"
    BY <2>1, CloseCounts
  <2>3. <<Overflow>> \in Seq(RemoteEvents)
    BY <1>1
  <2>4. RemoteTypeOK'
    BY <2>1, <2>2, <2>3 DEF RemoteTypeOK
  <2>5. /\ buffer'[s] = <<Overflow>> /\ queueEnd'[s] = "ended" /\ producer'[s] = "stopping"
        /\ seen' = seen /\ reader'[s] # "ended"
    BY <1>1, <2>1 DEF RemoteTypeOK
  <2>6. EndsWithStatus(<<Overflow>>) /\ Len(<<Overflow>>) = 1 /\ <<Overflow>>[1] \in Statuses
    BY DEF EndsWithStatus, Statuses
  <2>7. InOrder(s)'
    BY <1>1, <2>5, <2>6 DEF InOrder
  <2>8. NothingMissing(s)'
    BY <2>5, <2>6 DEF NothingMissing
  <2>9. ProducerFollows(s)'
    BY <1>1, <2>5 DEF ProducerFollows
  <2> QED
    BY <1>2, <2>1, <2>2, <2>4, <2>7, <2>8, <2>9 DEF Served, MadeOnce
<1> QED
  BY <1>3, <1>4

\* A queue that has no more to come is ended.
LEMMA EndQueueKeeps ==
  ASSUME RemoteInv, NEW s \in Subscriptions, NEW how \in {"ended", "defect"}, EndQueue(s, how),
         producer[s] \in {"running", "stopping"}
  PROVE  RemoteInv'
<1> USE DEF RemoteInv
<1>1. /\ queueEnd' = [queueEnd EXCEPT ![s] = IF @ = "open" THEN how ELSE @]
      /\ producer' = [producer EXCEPT ![s] = "done"]
      /\ UNCHANGED <<sent, buffer, lifecycle, scope, seen, reader, client, active>>
  BY DEF EndQueue
<1>2. RemoteTypeOK'
  BY <1>1 DEF RemoteTypeOK
<1>3. OpenAreCounted'
  BY <1>1 DEF OpenAreCounted, OpenSubscriptions
<1>4. ASSUME NEW z \in Subscriptions PROVE Served(z)'
  <2>1. Served(z) /\ buffer' = buffer /\ seen' = seen /\ sent' = sent /\ scope' = scope /\ reader' = reader
    BY <1>1
  <2>2. /\ queueEnd'[z] = IF z = s /\ queueEnd[z] = "open" THEN how ELSE queueEnd[z]
        /\ producer'[z] = IF z = s THEN "done" ELSE producer[z]
    BY <1>1 DEF RemoteTypeOK
  <2>3. InOrder(z)'
    BY <2>1, <2>2 DEF Served, InOrder
  <2>4. NothingMissing(z)'
    BY <2>1, <2>2 DEF Served, NothingMissing, ProducerFollows
  <2>5. ProducerFollows(z)'
    BY <2>1, <2>2 DEF Served, ProducerFollows
  <2> QED
    BY <2>3, <2>4, <2>5 DEF Served
<1> QED
  BY <1>1, <1>2, <1>3, <1>4 DEF MadeOnce

\* The user takes the first event that waits.
LEMMA TakeKeeps ==
  ASSUME RemoteInv, NEW s \in Subscriptions, Take(s)
  PROVE  RemoteInv'
<1> USE DEF RemoteInv
<1>1. PICK b, q, r : b = buffer[s] /\ q = Append(seen[s], Head(b)) /\ r = Tail(b)
  OBVIOUS
<1>2. /\ reader[s] = "reading" /\ scope[s] # "none" /\ b # <<>>
      /\ seen' = [seen EXCEPT ![s] = q] /\ buffer' = [buffer EXCEPT ![s] = r]
      /\ UNCHANGED <<producer, sent, queueEnd, lifecycle, scope, reader, client, active>>
  BY <1>1 DEF Take
<1>3. b \in Seq(RemoteEvents) /\ seen[s] \in Seq(RemoteEvents)
  BY <1>1 DEF RemoteTypeOK
<1>4. /\ q \in Seq(RemoteEvents) /\ r \in Seq(RemoteEvents)
      /\ Len(seen[s]) \in Nat /\ Len(b) \in Nat \ {0}
      /\ Len(q) = Len(seen[s]) + 1 /\ Len(r) = Len(b) - 1
      /\ \A i \in 1 .. Len(seen[s]) : q[i] = seen[s][i]
      /\ q[Len(seen[s]) + 1] = b[1]
      /\ \A i \in 1 .. Len(b) - 1 : r[i] = b[i + 1]
  BY <1>1, <1>2, <1>3
<1>5. RemoteTypeOK'
  BY <1>2, <1>4 DEF RemoteTypeOK
<1>6. OpenAreCounted'
  BY <1>2 DEF OpenAreCounted, OpenSubscriptions
<1>7. ASSUME NEW z \in Subscriptions, z # s PROVE Served(z)'
  <2>1. Served(z) /\ buffer'[z] = buffer[z] /\ seen'[z] = seen[z]
    BY <1>2, <1>7 DEF RemoteTypeOK
  <2> QED
    BY <1>2, <2>1 DEF Served, InOrder, NothingMissing, ProducerFollows, EndsWithStatus
<1>8. seen'[s] = q /\ buffer'[s] = r /\ Served(s)
  BY <1>2 DEF RemoteTypeOK
<1>9. \A i \in 1 .. Len(seen[s]) : seen[s][i] = i
  BY <1>1, <1>2, <1>8 DEF Served, InOrder
<1>10. \A i \in 1 .. Len(b) : \/ b[i] = Len(seen[s]) + i
                              \/ b[i] \in Statuses /\ i = Len(b) /\ queueEnd[s] # "open"
  BY <1>1, <1>8 DEF Served, InOrder
<1>11. InOrder(s)'
  <2>1. \A i \in 1 .. Len(q) : \/ q[i] = i
                               \/ q[i] \in Statuses /\ i = Len(q) /\ r = <<>> /\ queueEnd[s] # "open"
    <3> SUFFICES ASSUME NEW i \in 1 .. Len(q)
                 PROVE  \/ q[i] = i
                        \/ q[i] \in Statuses /\ i = Len(q) /\ r = <<>> /\ queueEnd[s] # "open"
      OBVIOUS
    <3>1. CASE i \in 1 .. Len(seen[s])
      BY <1>4, <1>9, <3>1
    <3>2. CASE i = Len(q)
      <4>1. q[i] = b[1] /\ 1 \in 1 .. Len(b)
        BY <1>4, <3>2
      <4>2. Len(b) = 1 => r = <<>>
        BY <1>4
      <4> QED
        BY <1>4, <1>10, <3>2, <4>1, <4>2
    <3> QED
      BY <1>4, <3>1, <3>2
  <2>2. \A i \in 1 .. Len(r) : \/ r[i] = Len(q) + i
                               \/ r[i] \in Statuses /\ i = Len(r) /\ queueEnd[s] # "open"
    <3> SUFFICES ASSUME NEW i \in 1 .. Len(r)
                 PROVE  \/ r[i] = Len(q) + i
                        \/ r[i] \in Statuses /\ i = Len(r) /\ queueEnd[s] # "open"
      OBVIOUS
    <3>1. i + 1 \in 1 .. Len(b) /\ r[i] = b[i + 1] /\ Len(q) + i = Len(seen[s]) + (i + 1)
          /\ (i + 1 = Len(b) => i = Len(r))
      <4>1. Len(b) \in Nat /\ Len(r) = Len(b) - 1 /\ Len(q) = Len(seen[s]) + 1 /\ Len(seen[s]) \in Nat
            /\ Len(q) \in Nat /\ Len(r) \in Nat
        BY <1>4
      <4>2. i \in 1 .. Len(b) - 1 /\ i + 1 \in 1 .. Len(b)
        BY <4>1
      <4>3. r[i] = b[i + 1]
        BY <1>4, <4>2
      <4>4. PICK x \in Nat, y \in Nat, c \in Nat, d \in Nat :
              x = Len(q) /\ y = Len(seen[s]) /\ c = Len(r) /\ d = Len(b)
        BY <4>1
      <4>5. x = y + 1 /\ c = d - 1
        BY <4>1, <4>4
      <4>6. x + i = y + (i + 1) /\ (i + 1 = d => i = c)
        BY <4>5
      <4> QED
        BY <4>2, <4>3, <4>4, <4>6, Zenon
    <3> QED
      BY <1>10, <3>1
  <2> QED
    BY <1>2, <1>8, <2>1, <2>2 DEF InOrder
<1>12. NothingMissing(s)'
  <2>1. Len(q) + Len(r) = Len(seen[s]) + Len(b)
    BY <1>4
  <2>2. EndsWithStatus(b) => EndsWithStatus(q) \/ EndsWithStatus(r)
    BY <1>4 DEF EndsWithStatus
  <2>3. ~EndsWithStatus(seen[s])
    <3> SUFFICES ASSUME EndsWithStatus(seen[s]) PROVE FALSE
      OBVIOUS
    <3>1. Len(seen[s]) \in 1 .. Len(seen[s])
      BY <1>3, <1>4 DEF EndsWithStatus
    <3>2. seen[s][Len(seen[s])] \in Nat
      BY <1>4, <1>9, <3>1
    <3> QED
      BY <3>2, RemoteAssumption DEF EndsWithStatus, Statuses
  <2> QED
    BY <1>1, <1>2, <1>8, <2>1, <2>2, <2>3 DEF Served, NothingMissing
<1>13. ProducerFollows(s)'
  BY <1>2, <1>8 DEF Served, ProducerFollows
<1> QED
  BY <1>2, <1>5, <1>6, <1>7, <1>11, <1>12, <1>13 DEF Served, MadeOnce

\* A subscription that is made is counted, unless its client is closed.
LEMMA SubscribeKeeps ==
  ASSUME RemoteInv, NEW s \in Subscriptions, Subscribe(s)
  PROVE  RemoteInv'
<1> USE RemoteAssumption DEF RemoteInv
<1>1. PICK at \in {"open", "closed"}, life \in {"opened", "late"}, p \in {"running", "stopping"}, n \in Nat :
        /\ scope[s] = "none" /\ UNCHANGED <<sent, buffer, queueEnd, seen, reader, client>>
        /\ scope' = [scope EXCEPT ![s] = at]
        /\ lifecycle' = [lifecycle EXCEPT ![s] = life]
        /\ producer' = [producer EXCEPT ![s] = p]
        /\ active' = n
        /\ at = "open" => n = active + 1 /\ life = "opened" /\ p = "running"
        /\ at = "closed" => life = "late" /\ p = "stopping"
  <2>1. active \in Nat /\ active + 1 \in Nat /\ CountDown(active, 1) + 1 \in Nat
    BY DEF RemoteTypeOK, CountDown
  <2> QED
    BY <2>1 DEF Subscribe
<1>2. RemoteTypeOK'
  BY <1>1 DEF RemoteTypeOK
<1>3. OpenAreCounted'
  <2>1. CASE at = "closed"
    BY <1>1, <2>1 DEF OpenAreCounted, RemoteTypeOK
  <2>2. CASE at = "open"
    <3>1. OpenSubscriptions' = OpenSubscriptions \union {s} /\ s \notin OpenSubscriptions
      BY <1>1, <2>2 DEF OpenSubscriptions, RemoteTypeOK, MadeOnce
    <3>2. IsFiniteSet(OpenSubscriptions)
      BY FS_Subset DEF OpenSubscriptions
    <3>3. Cardinality(OpenSubscriptions') = Cardinality(OpenSubscriptions) + 1
      BY <3>1, <3>2, FS_AddElement
    <3>4. (\A z \in Subscriptions : lifecycle'[z] # "late") =>
            \A z \in Subscriptions : lifecycle[z] # "late"
      BY <1>1, <2>2 DEF RemoteTypeOK, MadeOnce
    <3> QED
      BY <1>1, <2>2, <3>3, <3>4 DEF OpenAreCounted
  <2> QED
    BY <2>1, <2>2
<1>4. ASSUME NEW z \in Subscriptions PROVE Served(z)'
  <2>1. /\ Served(z) /\ queueEnd' = queueEnd /\ buffer' = buffer /\ seen' = seen
        /\ reader' = reader /\ sent' = sent
    BY <1>1
  <2>2. /\ scope'[z] = (IF z = s THEN at ELSE scope[z])
        /\ producer'[z] = (IF z = s THEN p ELSE producer[z])
    BY <1>1 DEF RemoteTypeOK
  <2>3. z = s => queueEnd[z] = "open"
    BY <1>1, <2>1 DEF Served, ProducerFollows
  <2>4. InOrder(z)'
    BY <2>1 DEF Served, InOrder
  <2>5. ProducerFollows(z)'
    BY <1>1, <2>1, <2>2, <2>3 DEF Served, ProducerFollows
  <2>6. NothingMissing(z)'
    BY <2>1, <2>2, <2>3 DEF Served, NothingMissing
  <2> QED
    BY <2>4, <2>5, <2>6 DEF Served
<1>5. MadeOnce'
  BY <1>1 DEF MadeOnce, RemoteTypeOK
<1> QED
  BY <1>2, <1>3, <1>4, <1>5

\* However a subscription is closed, or its reading ends.
LEMMA ClosingSubscriptionKeeps ==
  ASSUME RemoteInv,
         CloseClient \/ \E s \in Subscriptions : CloseSubscription(s) \/ TakeEnd(s) \/ StopReading(s)
  PROVE  RemoteInv'
<1>1. CASE CloseClient
  <2>1. PICK S \in SUBSET Subscriptions : S = {s \in Subscriptions : scope[s] = "open"}
    OBVIOUS
  <2>2. CloseScopes(S) /\ reader' = reader /\ UNCHANGED <<sent, buffer, queueEnd, seen>>
    BY <1>1, <2>1 DEF CloseClient
  <2>3. reader' \in [Subscriptions -> {"reading", "ended", "defect", "closed", "stopped"}]
    BY <2>2 DEF RemoteInv, RemoteTypeOK
  <2> QED
    BY <2>1, <2>2, <2>3, CloseKeeps
<1>2. ASSUME NEW s \in Subscriptions, CloseSubscription(s) PROVE RemoteInv'
  <2>1. CloseScopes({s}) /\ scope[s] = "open" /\ reader' = reader /\ UNCHANGED <<sent, buffer, queueEnd, seen>>
    BY <1>2 DEF CloseSubscription
  <2>2. reader' \in [Subscriptions -> {"reading", "ended", "defect", "closed", "stopped"}]
    BY <2>1 DEF RemoteInv, RemoteTypeOK
  <2> QED
    BY <2>1, <2>2, CloseKeeps
<1>3. ASSUME NEW s \in Subscriptions, TakeEnd(s) \/ StopReading(s) PROVE RemoteInv'
  <2>1. PICK why \in {"ended", "defect", "stopped"} :
          /\ EndReading(s, why) /\ scope[s] # "none"
          /\ why = "ended" => queueEnd[s] = "ended" /\ buffer[s] = <<>>
    BY <1>3 DEF TakeEnd, StopReading, RemoteInv, RemoteTypeOK, Served, ProducerFollows
  <2>2. /\ CloseScopes({s}) /\ UNCHANGED <<sent, buffer, queueEnd, seen>>
        /\ reader' = [reader EXCEPT ![s] = IF scope[s] = "closed" THEN "closed" ELSE why]
    BY <2>1 DEF EndReading
  <2>3. /\ reader' \in [Subscriptions -> {"reading", "ended", "defect", "closed", "stopped"}]
        /\ scope[s] \in {"open", "closed"}
    BY <2>1, <2>2 DEF RemoteInv, RemoteTypeOK
  <2>4. ASSUME NEW z \in Subscriptions, reader'[z] = "ended"
        PROVE  \/ reader[z] = "ended"
               \/ scope[z] = "open" /\ queueEnd[z] = "ended" /\ buffer[z] = <<>>
    BY <2>1, <2>2, <2>3, <2>4 DEF RemoteInv, RemoteTypeOK
  <2> QED
    BY <2>1, <2>2, <2>3, <2>4, CloseKeeps
<1> QED
  BY <1>1, <1>2, <1>3

\* The invariant of the remote client's subscriptions.
THEOREM RemoteInductive == RemoteSpec => []RemoteInv
<1>1. RemoteInit => RemoteInv
  <2> SUFFICES ASSUME RemoteInit PROVE RemoteInv
    OBVIOUS
  <2>1. <<>> \in Seq(RemoteEvents) /\ Len(<<>>) = 0
    OBVIOUS
  <2>2. RemoteTypeOK
    BY <2>1 DEF RemoteInit, RemoteTypeOK
  <2>3. OpenAreCounted /\ MadeOnce
    <3>1. OpenSubscriptions = {}
      BY DEF RemoteInit, OpenSubscriptions
    <3> QED
      BY <3>1, FS_EmptySet DEF RemoteInit, OpenAreCounted, MadeOnce
  <2>4. ASSUME NEW s \in Subscriptions PROVE Served(s)
    <3>1. /\ seen[s] = <<>> /\ buffer[s] = <<>> /\ sent[s] = 0 /\ queueEnd[s] = "open"
          /\ reader[s] = "reading" /\ scope[s] = "none" /\ producer[s] = "none"
      BY DEF RemoteInit
    <3> QED
      BY <2>1, <3>1 DEF Served, InOrder, NothingMissing, ProducerFollows
  <2> QED
    BY <2>2, <2>3, <2>4 DEF RemoteInv
<1>2. RemoteInv /\ [RemoteNext]_remoteVars => RemoteInv'
  <2> SUFFICES ASSUME RemoteInv, [RemoteNext]_remoteVars PROVE RemoteInv'
    OBVIOUS
  <2>1. CASE UNCHANGED remoteVars
    BY <2>1 DEF remoteVars, RemoteInv, RemoteTypeOK, Served, InOrder, NothingMissing, ProducerFollows,
       MadeOnce, OpenAreCounted, OpenSubscriptions, EndsWithStatus
  <2>2. ASSUME NEW s \in Subscriptions, SourceBrings(s) PROVE RemoteInv'
    <3>1. PICK n \in Nat : n = sent[s] + 1 /\ n \in RemoteEvents
      BY DEF RemoteInv, RemoteTypeOK, RemoteEvents
    <3>2. /\ producer[s] = "running" /\ sent' = [sent EXCEPT ![s] = n]
          /\ OfferEvent(s, n, "running") /\ UNCHANGED <<scope, seen, reader, client>>
      BY <2>2, <3>1 DEF SourceBrings
    <3> QED
      BY <3>1, <3>2, OfferKeeps
  <2>3. ASSUME NEW s \in Subscriptions, SourceFails(s) PROVE RemoteInv'
    <3>1. PICK n \in Nat : n = sent[s]
      BY DEF RemoteInv, RemoteTypeOK
    <3>2. /\ producer[s] = "running" /\ sent' = [sent EXCEPT ![s] = n]
          /\ OfferEvent(s, Failure, "done") /\ UNCHANGED <<scope, seen, reader, client>>
      BY <2>3, <3>1 DEF SourceFails, RemoteInv, RemoteTypeOK
    <3>3. Failure \in Statuses /\ Failure \in RemoteEvents
      BY DEF Statuses, RemoteEvents
    <3> QED
      BY <3>1, <3>2, <3>3, OfferKeeps
  <2>4. ASSUME NEW s \in Subscriptions, SourceEnds(s) \/ SourceDies(s) \/ ProducerStops(s)
        PROVE  RemoteInv'
    BY <2>4, EndQueueKeeps DEF SourceEnds, SourceDies, ProducerStops
  <2>5. CASE RemoteNext
    BY <2>2, <2>3, <2>4, <2>5, SubscribeKeeps, TakeKeeps, ClosingSubscriptionKeeps DEF RemoteNext
  <2> QED
    BY <2>1, <2>5
<1> QED
  BY <1>1, <1>2, PTL DEF RemoteSpec

\* Readers are told everything, in order, or told that they are not.
THEOREM ReadersTold == RemoteSpec => []ReadersAreTold
<1>1. RemoteInv => ReadersAreTold
  <2> SUFFICES ASSUME RemoteInv PROVE ReadersAreTold
    OBVIOUS
  <2>1. (\A s \in Subscriptions : lifecycle[s] # "late") =>
          active = Cardinality({s \in Subscriptions : lifecycle[s] = "opened"})
    BY DEF RemoteInv, OpenAreCounted, OpenSubscriptions
  <2>2. ASSUME NEW s \in Subscriptions,
               NEW told, told = IF seen[s] # <<>> /\ Last(seen[s]) \in {Failure, Overflow}
                                THEN Front(seen[s]) ELSE seen[s]
        PROVE  /\ told = [i \in 1..Len(told) |-> i]
               /\ reader[s] = "ended" /\ told = seen[s] => Len(told) = sent[s]
    <3>1. PICK q \in Seq(RemoteEvents) : q = seen[s]
      BY DEF RemoteInv, RemoteTypeOK
    <3>2. \A i \in 1 .. Len(q) : q[i] = i \/ (q[i] \in Statuses /\ i = Len(q))
      <4>1. InOrder(s)
        BY DEF RemoteInv, Served
      <4> QED
        BY <3>1, <4>1, Zenon DEF InOrder
    <3>3. reader[s] = "ended" => EndsWithStatus(q) \/ Len(q) = sent[s]
      BY <3>1 DEF RemoteInv, Served, NothingMissing
    <3>4. CASE EndsWithStatus(q)
      <4>1. told = SubSeq(q, 1, Len(q) - 1)
        BY <2>2, <3>1, <3>4 DEF EndsWithStatus, Last, Front, Statuses
      <4>2. Len(q) \in Nat \ {0}
        BY <3>4 DEF EndsWithStatus
      <4>3. /\ told \in Seq(RemoteEvents) /\ Len(told) = Len(q) - 1
            /\ \A i \in 1 .. Len(told) : told[i] = q[i]
        <5>1. PICK m \in Nat : m = Len(q) - 1
          BY <4>2
        <5>2. /\ SubSeq(q, 1, m) \in Seq(RemoteEvents) /\ Len(SubSeq(q, 1, m)) = m
              /\ \A i \in 1 .. m : SubSeq(q, 1, m)[i] = q[i]
          <6>1. 1 \in 1 .. Len(q) + 1 /\ m \in 0 .. Len(q)
            BY <4>2, <5>1
          <6>2. /\ SubSeq(q, 1, m) \in Seq(RemoteEvents)
                /\ Len(SubSeq(q, 1, m)) = IF 1 <= m THEN m - 1 + 1 ELSE 0
                /\ \A i \in 1 .. m - 1 + 1 : SubSeq(q, 1, m)[i] = q[1 + i - 1]
            BY <6>1, SubSeqProperties
          <6>3. m - 1 + 1 = m
            BY <5>1
          <6> QED
            BY <5>1, <6>2, <6>3
        <5> QED
          BY <4>1, <5>1, <5>2
      <4>4. \A i \in 1 .. Len(told) : told[i] = i
        BY <3>2, <4>2, <4>3
      <4>5. told = [i \in 1 .. Len(told) |-> i]
        BY <4>3, <4>4
      <4>6. told # q
        BY <4>2, <4>3
      <4> QED
        BY <3>1, <4>5, <4>6
    <3>5. CASE ~EndsWithStatus(q)
      <4>1. told = q
        BY <2>2, <3>1, <3>5 DEF EndsWithStatus, Last, Statuses
      <4>2. \A i \in 1 .. Len(q) : q[i] = i
        BY <3>2, <3>5 DEF EndsWithStatus
      <4>3. q = [i \in 1 .. Len(q) |-> i]
        BY <4>2
      <4> QED
        BY <3>3, <3>5, <4>1, <4>3
    <3> QED
      BY <3>4, <3>5
  <2> QED
    BY <2>1, <2>2 DEF ReadersAreTold
<1> QED
  BY <1>1, RemoteInductive, PTL
-------------------------------------------------------------------------------
(* The TCP ingress. *)

USE TcpAssumption

\* What the server keeps of a socket follows the socket: nothing before it connects,
\* a state only while it is a socket of the server or is closed, a running command
\* only among the counted ones; once closing, every state is closed.
SocketsKnown ==
  /\ \A s \in Sockets :
       /\ connection[s] = "new" =>
            s \notin sockets \union socketStates \union deadline /\ chain[s] = 0
       /\ s \in sockets => connection[s] \in {"open", "destroyed"}
       /\ s \in socketStates /\ connection[s] # "gone" => s \in sockets
       /\ s \in socketStates /\ connection[s] = "gone" => s \in socketClosed
       /\ step[s] # "waiting" => chain[s] > 0
  /\ ServerClosed => socketStates \subseteq socketClosed
  /\ server = "closed" =>
       \A s \in Sockets : chain[s] = 0 /\ connection[s] \in {"new", "gone"}

\* The invariant of the ingress.
TcpInv == CommandsAreAccounted /\ SocketsKnown

\* The connections that are still read.
ReadConnections == {s \in socketStates : connection[s] # "gone"}
-------------------------------------------------------------------------------
(* The counted commands. *)

\* The least of two numbers is one of them and above neither.
LEMMA LeastOfTwo ==
  ASSUME NEW a \in Int, NEW b \in Int
  PROVE  Min({a, b}) \in {a, b} /\ Min({a, b}) <= a /\ Min({a, b}) <= b
<1>1. \E x \in {a, b} : \A y \in {a, b} : x <= y
  OBVIOUS
<1> QED
  BY <1>1 DEF Min

\* The commands of all sockets are finitely many.
LEMMA CommandsFinite ==
  ASSUME TcpTypeOK, CommandsCounted
  PROVE  IsFiniteSet(AllCommands)
<1>1. AllCommands \subseteq Sockets \X (1 .. MaxQueuedCommands)
  <2> SUFFICES ASSUME NEW s \in Sockets PROVE CommandsOf(s) \subseteq Sockets \X (1 .. MaxQueuedCommands)
    BY DEF AllCommands
  <2>1. chain[s] \in Nat /\ chain[s] <= MaxQueuedCommands
    BY DEF TcpTypeOK, CommandsCounted
  <2> QED
    BY <2>1 DEF CommandsOf
<1>2. IsFiniteSet(Sockets \X (1 .. MaxQueuedCommands))
  <2>1. IsFiniteSet(1 .. MaxQueuedCommands)
    <3>1. 1 \in Int /\ MaxQueuedCommands \in Int
      OBVIOUS
    <3> QED
      BY <3>1, FS_Interval
  <2> QED
    BY <2>1, FS_Product
<1> QED
  BY <1>1, <1>2, FS_Subset

\* Lines that are queued on one socket are that many commands more.
LEMMA CommandsAdded ==
  ASSUME TcpTypeOK, CommandsCounted, NEW s \in Sockets, NEW q \in Nat,
         chain' = [chain EXCEPT ![s] = @ + q]
  PROVE  Cardinality(AllCommands') = Cardinality(AllCommands) + q
<1> DEFINE c == chain[s]
           added == {s} \X ((c + 1) .. (c + q))
<1>1. c \in Nat
  BY DEF TcpTypeOK
<1>2. chain' \in [Sockets -> Nat] /\ \A z \in Sockets : chain'[z] = IF z = s THEN c + q ELSE chain[z]
  BY DEF TcpTypeOK
<1>3. AllCommands' = AllCommands \union added
  <2>1. \A z \in Sockets : CommandsOf(z)' = {z} \X (1 .. chain'[z])
    BY DEF CommandsOf
  <2>2. CommandsOf(s)' = CommandsOf(s) \union added
    BY <1>1, <1>2, <2>1 DEF CommandsOf
  <2>3. \A z \in Sockets : z # s => CommandsOf(z)' = CommandsOf(z)
    BY <1>2, <2>1 DEF CommandsOf
  <2> QED
    BY <2>2, <2>3 DEF AllCommands
<1>4. AllCommands \cap added = {}
  BY <1>1 DEF AllCommands, CommandsOf
<1>5. IsFiniteSet(added) /\ Cardinality(added) = q
  <2>1. IsFiniteSet({s}) /\ Cardinality({s}) = 1
    BY FS_Singleton
  <2>2. IsFiniteSet((c + 1) .. (c + q)) /\ Cardinality((c + 1) .. (c + q)) = q
    <3>1. PICK a \in Int, b \in Int : a = c + 1 /\ b = c + q
      BY <1>1
    <3>2. IsFiniteSet(a .. b) /\ Cardinality(a .. b) = IF a > b THEN 0 ELSE b - a + 1
      BY FS_Interval
    <3>3. (c + 1) .. (c + q) = a .. b
      BY <3>1, Zenon
    <3>4. (IF a > b THEN 0 ELSE b - a + 1) = q
      BY <1>1, <3>1
    <3> QED
      BY <3>2, <3>3, <3>4, Zenon
  <2>3. PICK line : line = (c + 1) .. (c + q)
    OBVIOUS
  <2>4. IsFiniteSet({s} \X line) /\ Cardinality({s} \X line) = 1 * q
    BY <2>1, <2>2, <2>3, FS_Product
  <2> QED
    BY <2>3, <2>4
<1>6. IsFiniteSet(AllCommands)
  BY CommandsFinite
<1> HIDE DEF added
<1>7. Cardinality(AllCommands \union added)
        = Cardinality(AllCommands) + Cardinality(added) - Cardinality(AllCommands \cap added)
  BY <1>5, <1>6, FS_Union
<1>8. Cardinality(AllCommands) \in Nat /\ Cardinality(AllCommands \cap added) = 0
  BY <1>4, <1>6, FS_CardinalityType, FS_EmptySet
<1> QED
  BY <1>3, <1>5, <1>7, <1>8

\* A command that is done is one command fewer.
LEMMA CommandDone ==
  ASSUME TcpTypeOK, CommandsCounted, NEW s \in Sockets, chain[s] > 0,
         chain' = [chain EXCEPT ![s] = @ - 1]
  PROVE  Cardinality(AllCommands') = Cardinality(AllCommands) - 1
<1> DEFINE c == chain[s]
<1>1. c \in Nat \ {0}
  BY DEF TcpTypeOK
<1>2. chain' \in [Sockets -> Nat] /\ \A z \in Sockets : chain'[z] = IF z = s THEN c - 1 ELSE chain[z]
  BY DEF TcpTypeOK
<1>3. AllCommands' = AllCommands \ {<<s, c>>}
  <2>1. \A z \in Sockets : CommandsOf(z)' = {z} \X (1 .. chain'[z])
    BY DEF CommandsOf
  <2>2. CommandsOf(s)' = CommandsOf(s) \ {<<s, c>>}
    BY <1>1, <1>2, <2>1 DEF CommandsOf
  <2>3. \A z \in Sockets : z # s => CommandsOf(z)' = CommandsOf(z) /\ <<s, c>> \notin CommandsOf(z)
    BY <1>2, <2>1 DEF CommandsOf
  <2> QED
    BY <2>2, <2>3 DEF AllCommands
<1>4. <<s, c>> \in AllCommands
  BY <1>1 DEF AllCommands, CommandsOf
<1> QED
  BY <1>3, <1>4, CommandsFinite, FS_RemoveElement

\* A socket without commands everywhere leaves no command.
LEMMA NoCommands ==
  ASSUME \A s \in Sockets : chain[s] = 0
  PROVE  Cardinality(AllCommands) = 0
<1>1. AllCommands = {}
  BY DEF AllCommands, CommandsOf
<1> QED
  BY <1>1, FS_EmptySet

\* As long as no command comes or ends the counters stay right.
LEMMA CountersKept ==
  ASSUME CommandsCounted, UNCHANGED <<chain, queuedCommands, globalCommands>>
  PROVE  CommandsCounted'
BY DEF CommandsCounted, AllCommands, CommandsOf

\* Connections that are no longer read leave room within the limit.
LEMMA FewerConnections ==
  ASSUME TcpTypeOK, ConnectionsLimited, ReadConnections' \subseteq ReadConnections
  PROVE  ConnectionsLimited'
<1>1. IsFiniteSet(ReadConnections)
  BY FS_Subset DEF TcpTypeOK, ReadConnections
<1>2. Cardinality(ReadConnections') <= Cardinality(ReadConnections)
  BY <1>1, FS_Subset
<1>3. Cardinality(ReadConnections') \in Nat /\ Cardinality(ReadConnections) \in Nat
  BY <1>1, FS_Subset, FS_CardinalityType
<1> QED
  BY <1>2, <1>3 DEF ConnectionsLimited, ReadConnections
-------------------------------------------------------------------------------
(* Connections. *)

\* A socket that connects keeps the invariant: it is read only below the limit.
LEMMA AcceptKeeps ==
  ASSUME TcpInv, NEW s \in Sockets, Accept(s)
  PROVE  TcpInv'
<1> USE DEF TcpInv, CommandsAreAccounted
<1>1. TcpTypeOK'
  BY DEF Accept, TcpTypeOK, commandVars, counters
<1>2. CommandsCounted'
  BY CountersKept DEF Accept, commandVars, counters
<1>3. IdleIsTimed'
  BY DEF Accept, TcpTypeOK, IdleIsTimed, SocketsKnown, commandVars, counters
<1>4. ConnectionsLimited'
  <2>1. CASE socketStates' = socketStates
    <3>1. ReadConnections' \subseteq ReadConnections
      BY <2>1 DEF Accept, TcpTypeOK, SocketsKnown, ReadConnections
    <3> QED
      BY <3>1, FewerConnections
  <2>2. CASE socketStates' # socketStates
    <3>1. /\ socketStates' = socketStates \union {s}
          /\ connection' = [connection EXCEPT ![s] = "open"]
          /\ ~(Cardinality(sockets) >= MaxConnections)
      BY <2>2 DEF Accept
    <3>2. ReadConnections' \subseteq sockets \union {s}
      BY <3>1 DEF TcpTypeOK, SocketsKnown, ReadConnections
    <3>3. s \notin sockets /\ IsFiniteSet(sockets)
      BY FS_Subset DEF Accept, TcpTypeOK, SocketsKnown
    <3>4. IsFiniteSet(sockets \union {s}) /\ Cardinality(sockets \union {s}) = Cardinality(sockets) + 1
      BY <3>3, FS_AddElement
    <3>5. /\ Cardinality(ReadConnections') <= Cardinality(sockets \union {s})
          /\ Cardinality(ReadConnections') \in Nat
      BY <3>2, <3>4, FS_Subset, FS_CardinalityType
    <3>6. Cardinality(sockets) \in Nat
      BY <3>3, FS_CardinalityType
    <3> QED
      BY <3>1, <3>4, <3>5, <3>6 DEF ConnectionsLimited, ReadConnections
  <2> QED
    BY <2>1, <2>2
<1>5. GoneIsForgotten'
  BY DEF Accept, TcpTypeOK, GoneIsForgotten, SocketsKnown, commandVars
<1>6. ClosedIsQuiet'
  BY DEF Accept, ClosedIsQuiet
<1>7. SocketsKnown'
  BY DEF Accept, TcpTypeOK, SocketsKnown, GoneIsForgotten, ServerClosed, commandVars
<1> QED
  BY <1>1, <1>2, <1>3, <1>4, <1>5, <1>6, <1>7

\* A connection that ends keeps the invariant.
LEMMA DestroyKeeps ==
  ASSUME TcpInv, NEW s \in Sockets, Destroy(s)
  PROVE  TcpInv'
<1> USE DEF TcpInv, CommandsAreAccounted
<1>1. TcpTypeOK'
  BY DEF Destroy, TcpTypeOK, commandVars, counters
<1>2. CommandsCounted'
  BY CountersKept DEF Destroy, commandVars, counters
<1>3. IdleIsTimed'
  BY DEF Destroy, TcpTypeOK, IdleIsTimed, commandVars, counters
<1>4. ConnectionsLimited'
  <2>1. ReadConnections' \subseteq ReadConnections
    BY DEF Destroy, TcpTypeOK, ReadConnections
  <2> QED
    BY <2>1, FewerConnections
<1>5. GoneIsForgotten'
  BY DEF Destroy, TcpTypeOK, GoneIsForgotten, commandVars
<1>6. ClosedIsQuiet'
  BY DEF Destroy, ClosedIsQuiet, commandVars, counters
<1>7. SocketsKnown'
  BY DEF Destroy, TcpTypeOK, SocketsKnown, ServerClosed, commandVars
<1> QED
  BY <1>1, <1>2, <1>3, <1>4, <1>5, <1>6, <1>7

\* The state of a connection that is gone goes with it or with its last command.
LEMMA SocketGoneKeeps ==
  ASSUME TcpInv, NEW s \in Sockets, SocketGone(s)
  PROVE  TcpInv'
<1> USE DEF TcpInv, CommandsAreAccounted
<1>1. TcpTypeOK'
  BY DEF SocketGone, TcpTypeOK, commandVars, counters
<1>2. CommandsCounted'
  BY CountersKept DEF SocketGone, commandVars, counters
<1>3. IdleIsTimed'
  BY DEF SocketGone, TcpTypeOK, IdleIsTimed, commandVars, counters
<1>4. ConnectionsLimited'
  <2>1. ReadConnections' \subseteq ReadConnections
    BY DEF SocketGone, TcpTypeOK, ReadConnections
  <2> QED
    BY <2>1, FewerConnections
<1>5. GoneIsForgotten'
  BY DEF SocketGone, TcpTypeOK, GoneIsForgotten, commandVars
<1>6. ClosedIsQuiet'
  BY DEF SocketGone, ClosedIsQuiet, commandVars, counters
<1>7. SocketsKnown'
  BY DEF SocketGone, TcpTypeOK, SocketsKnown, ServerClosed, commandVars
<1> QED
  BY <1>1, <1>2, <1>3, <1>4, <1>5, <1>6, <1>7
-------------------------------------------------------------------------------
(* Data and commands. *)

\* A chunk queues no line over a limit.
LEMMA DataKeeps ==
  ASSUME TcpInv, NEW s \in Sockets, NEW n \in 0 .. MaxLines, NEW tooLong \in BOOLEAN,
         Data(s, n, tooLong)
  PROVE  TcpInv'
<1> USE DEF TcpInv, CommandsAreAccounted
<1>1. PICK q : q = Min({n, Room(s)})
  OBVIOUS
<1>2. /\ q \in Nat /\ queuedCommands[s] \in Int /\ q <= n
      /\ queuedCommands[s] + q <= MaxQueuedCommands
      /\ globalCommands + q <= MaxGlobalQueuedCommands
  <2>1. /\ queuedCommands[s] \in Int /\ globalCommands \in Int
        /\ queuedCommands[s] <= MaxQueuedCommands /\ globalCommands <= MaxGlobalQueuedCommands
    BY DEF TcpTypeOK, CommandsCounted
  <2>2. /\ Room(s) \in Nat
        /\ Room(s) <= MaxQueuedCommands - queuedCommands[s]
        /\ Room(s) <= MaxGlobalQueuedCommands - globalCommands
    <3>1. PICK a \in Int, b \in Int : /\ a = MaxQueuedCommands - queuedCommands[s]
                                     /\ b = MaxGlobalQueuedCommands - globalCommands
                                     /\ a >= 0 /\ b >= 0
      BY <2>1
    <3>2. Min({a, b}) \in {a, b} /\ Min({a, b}) <= a /\ Min({a, b}) <= b
      BY LeastOfTwo
    <3> QED
      BY <3>1, <3>2 DEF Room
  <2>3. n \in Nat
    OBVIOUS
  <2>4. q \in Nat /\ q <= Room(s) /\ q <= n
    <3>1. PICK a \in Nat : a = Room(s)
      BY <2>2
    <3>2. Min({n, a}) \in {n, a} /\ Min({n, a}) <= n /\ Min({n, a}) <= a
      BY <2>3, LeastOfTwo
    <3> QED
      BY <1>1, <2>3, <3>1, <3>2
  <2> QED
    BY <2>1, <2>2, <2>4
<1>3. /\ connection[s] = "open" /\ s \in socketStates \ socketClosed /\ ~ServerClosed
      /\ chain' = [chain EXCEPT ![s] = @ + q]
      /\ queuedCommands' = [queuedCommands EXCEPT ![s] = @ + q]
      /\ globalCommands' = globalCommands + q
      /\ socketClosed' \in {socketClosed, socketClosed \union {s}}
      /\ n = 0 => q = 0
      /\ UNCHANGED <<connection, step, deadline, sockets, socketStates, server>>
  <2>1. n = 0 => q = 0
    BY <1>2
  <2> QED
    BY <1>1, <2>1 DEF Data
<1>4. TcpTypeOK'
  BY <1>2, <1>3 DEF TcpTypeOK
<1>5. CommandsCounted'
  <2>1. Cardinality(AllCommands') = Cardinality(AllCommands) + q
    BY <1>2, <1>3, CommandsAdded
  <2>2. (globalCommands <= MaxGlobalQueuedCommands)' /\ globalCommands' = Cardinality(AllCommands')
    BY <1>2, <1>3, <2>1 DEF CommandsCounted
  <2>3. ASSUME NEW z \in Sockets
        PROVE  queuedCommands'[z] = chain'[z] /\ queuedCommands'[z] <= MaxQueuedCommands
    BY <1>2, <1>3 DEF TcpTypeOK, CommandsCounted
  <2> QED
    BY <2>2, <2>3 DEF CommandsCounted
<1>6. IdleIsTimed'
  BY <1>2, <1>3 DEF TcpTypeOK, IdleIsTimed, CommandsCounted
<1>7. ConnectionsLimited'
  BY <1>3 DEF ConnectionsLimited
<1>8. GoneIsForgotten'
  BY <1>2, <1>3 DEF TcpTypeOK, GoneIsForgotten
<1>9. ClosedIsQuiet'
  BY <1>3 DEF ServerClosed, ClosedIsQuiet
<1>10. SocketsKnown'
  BY <1>2, <1>3 DEF TcpTypeOK, SocketsKnown, ServerClosed
<1> QED
  BY <1>4, <1>5, <1>6, <1>7, <1>8, <1>9, <1>10

\* A command that starts, is authorised, ends or is answered keeps the invariant.
LEMMA RunningKeeps ==
  ASSUME TcpInv, NEW s \in Sockets, Begin(s) \/ Authorise(s) \/ EndFiber(s) \/ Written(s)
  PROVE  TcpInv'
<1> USE DEF TcpInv, CommandsAreAccounted
<1>1. /\ UNCHANGED <<chain, queuedCommands, globalCommands>>
      /\ UNCHANGED <<connection, socketClosed, sockets, socketStates, server>>
      /\ chain[s] > 0 /\ queuedCommands[s] = chain[s]
      /\ deadline' = deadline \/ deadline' = deadline \ {s}
      /\ step' \in [Sockets -> {"waiting", "authorising", "mutating", "writing", "finishing"}]
      /\ \A z \in Sockets : z # s => step'[z] = step[z]
  BY DEF Begin, Authorise, EndFiber, Written, StepTo, TcpTypeOK, SocketsKnown, CommandsCounted,
         counters, socketVars
<1>2. TcpTypeOK'
  BY <1>1 DEF TcpTypeOK
<1>3. CommandsCounted'
  BY <1>1, CountersKept
<1>4. IdleIsTimed'
  BY <1>1 DEF TcpTypeOK, IdleIsTimed
<1>5. ConnectionsLimited'
  BY <1>1 DEF ConnectionsLimited
<1>6. GoneIsForgotten'
  BY <1>1 DEF GoneIsForgotten
<1>7. ClosedIsQuiet'
  BY <1>1 DEF ClosedIsQuiet
<1>8. SocketsKnown'
  BY <1>1 DEF SocketsKnown, ServerClosed
<1> QED
  BY <1>2, <1>3, <1>4, <1>5, <1>6, <1>7, <1>8

\* A command that is done is counted down once, and the socket has its deadline again.
LEMMA FinishCommandKeeps ==
  ASSUME TcpInv, NEW s \in Sockets, FinishCommand(s)
  PROVE  TcpInv'
<1> USE DEF TcpInv, CommandsAreAccounted
<1>1. /\ chain[s] > 0 /\ chain[s] \in Nat
      /\ chain' = [chain EXCEPT ![s] = @ - 1]
      /\ queuedCommands' = [queuedCommands EXCEPT ![s] = @ - 1]
      /\ globalCommands' = globalCommands - 1
      /\ step' = [step EXCEPT ![s] = "waiting"]
      /\ UNCHANGED <<connection, socketClosed, sockets, server>>
  BY DEF FinishCommand, StepTo, TcpTypeOK, SocketsKnown
<1>2. /\ deadline' = IF ~Stopped(s) /\ connection[s] = "open" /\ queuedCommands'[s] = 0
                     THEN deadline \union {s} ELSE deadline
      /\ socketStates' = IF s \in socketClosed THEN socketStates \ {s} ELSE socketStates
  BY DEF FinishCommand
<1>3. TcpTypeOK'
  BY <1>1, <1>2 DEF TcpTypeOK
<1>4. CommandsCounted'
  <2>1. Cardinality(AllCommands') = Cardinality(AllCommands) - 1
    BY <1>1, CommandDone
  <2>2. (globalCommands <= MaxGlobalQueuedCommands)' /\ globalCommands' = Cardinality(AllCommands')
    BY <1>1, <2>1 DEF CommandsCounted, TcpTypeOK
  <2>3. ASSUME NEW z \in Sockets
        PROVE  queuedCommands'[z] = chain'[z] /\ queuedCommands'[z] <= MaxQueuedCommands
    BY <1>1 DEF TcpTypeOK, CommandsCounted
  <2> QED
    BY <2>2, <2>3 DEF CommandsCounted
<1>5. IdleIsTimed'
  BY <1>1, <1>2 DEF TcpTypeOK, IdleIsTimed, SocketsKnown, Stopped, ServerClosed
<1>6. ConnectionsLimited'
  <2>1. ReadConnections' \subseteq ReadConnections
    BY <1>1, <1>2 DEF ReadConnections
  <2> QED
    BY <2>1, FewerConnections
<1>7. GoneIsForgotten'
  BY <1>1, <1>2 DEF TcpTypeOK, GoneIsForgotten, SocketsKnown, Stopped
<1>8. ClosedIsQuiet'
  BY <1>1 DEF SocketsKnown, ClosedIsQuiet
<1>9. SocketsKnown'
  BY <1>1, <1>2 DEF TcpTypeOK, SocketsKnown, ServerClosed, Stopped
<1> QED
  BY <1>3, <1>4, <1>5, <1>6, <1>7, <1>8, <1>9
-------------------------------------------------------------------------------
(* Closing. *)

\* Closing the server ends its connections and closes their states.
LEMMA CloseServerKeeps ==
  ASSUME TcpInv, CloseServer
  PROVE  TcpInv'
<1> USE DEF TcpInv, CommandsAreAccounted
<1>1. /\ \A z \in Sockets :
           connection'[z] = IF z \in sockets /\ connection[z] = "open" THEN "destroyed"
                            ELSE connection[z]
      /\ server' = "closing" /\ socketClosed' = socketClosed \union socketStates
      /\ UNCHANGED <<chain, step, queuedCommands, globalCommands, deadline, sockets, socketStates>>
  BY DEF CloseServer, commandVars, counters
<1>2. TcpTypeOK'
  BY DEF CloseServer, TcpTypeOK, commandVars, counters
<1>3. CommandsCounted'
  BY <1>1, CountersKept
<1>4. IdleIsTimed'
  BY <1>1 DEF IdleIsTimed
<1>5. ConnectionsLimited'
  <2>1. ReadConnections' \subseteq ReadConnections
    BY <1>1 DEF ReadConnections, TcpTypeOK
  <2> QED
    BY <2>1, FewerConnections
<1>6. GoneIsForgotten'
  BY <1>1 DEF GoneIsForgotten
<1>7. ClosedIsQuiet'
  BY <1>1 DEF ClosedIsQuiet
<1>8. SocketsKnown'
  BY <1>1 DEF SocketsKnown, ServerClosed
<1> QED
  BY <1>2, <1>3, <1>4, <1>5, <1>6, <1>7, <1>8

\* A server that has drained has nothing left.
LEMMA ServerDrainedKeeps ==
  ASSUME TcpInv, ServerDrained
  PROVE  TcpInv'
<1> USE DEF TcpInv, CommandsAreAccounted
<1>1. /\ server' = "closed" /\ server = "closing"
      /\ \A z \in Sockets : chain[z] = 0 /\ connection[z] \in {"new", "gone"}
      /\ UNCHANGED <<chain, step, queuedCommands, globalCommands>>
      /\ UNCHANGED <<connection, socketClosed, deadline, sockets, socketStates>>
  BY DEF ServerDrained, commandVars, counters, socketVars
<1>2. TcpTypeOK'
  BY <1>1 DEF TcpTypeOK
<1>3. CommandsCounted'
  BY <1>1, CountersKept
<1>4. IdleIsTimed'
  BY <1>1 DEF IdleIsTimed
<1>5. ConnectionsLimited'
  BY <1>1 DEF ConnectionsLimited
<1>6. GoneIsForgotten'
  BY <1>1 DEF GoneIsForgotten
<1>7. ClosedIsQuiet'
  <2>1. globalCommands = 0
    BY <1>1, NoCommands DEF CommandsCounted
  <2>2. sockets = {} /\ socketStates = {} /\ deadline = {}
    BY <1>1 DEF TcpTypeOK, SocketsKnown, GoneIsForgotten
  <2> QED
    BY <1>1, <2>1, <2>2 DEF ClosedIsQuiet
<1>8. SocketsKnown'
  BY <1>1 DEF SocketsKnown, ServerClosed
<1> QED
  BY <1>2, <1>3, <1>4, <1>5, <1>6, <1>7, <1>8
-------------------------------------------------------------------------------
(* The theorems. *)

\* The server starts with the invariant.
LEMMA TcpStarts == TcpInit => TcpInv
<1> SUFFICES ASSUME TcpInit PROVE TcpInv
  OBVIOUS
<1>1. TcpTypeOK /\ SocketsKnown
  BY DEF TcpInit, TcpTypeOK, SocketsKnown, ServerClosed
<1>2. CommandsCounted
  BY NoCommands DEF TcpInit, CommandsCounted
<1>3. ConnectionsLimited
  <2>1. {s \in socketStates : connection[s] # "gone"} = {}
    BY DEF TcpInit
  <2> QED
    BY <2>1, FS_EmptySet DEF ConnectionsLimited
<1>4. IdleIsTimed /\ GoneIsForgotten /\ ClosedIsQuiet
  BY DEF TcpInit, IdleIsTimed, GoneIsForgotten, ClosedIsQuiet
<1> QED
  BY <1>1, <1>2, <1>3, <1>4 DEF TcpInv, CommandsAreAccounted

\* The invariant of the TCP ingress: what the counters and sets of the server say of
\* a socket agrees with the socket and with the commands it runs.
THEOREM TcpInductive == TcpSpec => []TcpInv
<1>1. TcpInv /\ [TcpNext]_tcpVars => TcpInv'
  <2> SUFFICES ASSUME TcpInv, [TcpNext]_tcpVars PROVE TcpInv'
    OBVIOUS
  <2>1. CASE UNCHANGED tcpVars
    <3>1. /\ UNCHANGED <<chain, step, queuedCommands, globalCommands, server>>
          /\ UNCHANGED <<connection, socketClosed, deadline, sockets, socketStates>>
      BY <2>1 DEF tcpVars, commandVars, counters, socketVars
    <3> QED
      BY <3>1, CountersKept DEF TcpInv, CommandsAreAccounted, TcpTypeOK, IdleIsTimed,
         ConnectionsLimited, GoneIsForgotten, ClosedIsQuiet, SocketsKnown, ServerClosed
  <2>2. CASE TcpNext
    BY <2>2, AcceptKeeps, DestroyKeeps, SocketGoneKeeps, DataKeeps, RunningKeeps,
       FinishCommandKeeps, CloseServerKeeps, ServerDrainedKeeps DEF TcpNext, CommandStep
  <2> QED
    BY <2>1, <2>2
<1> QED
  BY <1>1, TcpStarts, PTL DEF TcpSpec

\* Both counters are the numbers of unfinished commands and stay within their limits,
\* no more connections are read than allowed, an idle one has its deadline, and
\* nothing is kept of a socket that is gone or of a server that has closed.
THEOREM CommandsAccounted == TcpSpec => []CommandsAreAccounted
<1>1. TcpInv => CommandsAreAccounted
  BY DEF TcpInv
<1> QED
  BY <1>1, TcpInductive, PTL
-------------------------------------------------------------------------------
(* The cached health: it never goes back, and every subscription to it has the
   newest value on its way. *)

\* Where a fiber can be.
Places ==
  {"idle", "committed", "requesting", "deciding", "following", "leading", "reading",
   "installing", "completing", "draining", "sleeping", "checking", "ending"}

\* The shapes of the state.
HealthTypeOK ==
  /\ commits \in Nat
  /\ health \in Nat
  /\ readEpoch \in Nat
  /\ read \in [Callers -> [epoch : Nat, value : Nat]]
  /\ follows \in [Callers -> Callers \union {None}]
  /\ activeRead \in [{"strict", "scheduled"} -> Callers \union {None}]
  /\ pc \in [Fibers -> Places]

\* A read nobody overtook has seen what the cache has or something newer, one that
\* has installed or given up returns nothing newer than the cache, and no read is of
\* an epoch to come.
ReadsAreOrdered ==
  /\ health <= commits
  /\ \A f \in Callers :
       /\ read[f].epoch <= readEpoch
       /\ pc[f] = "installing" /\ f \notin overtaken =>
            health <= read[f].value /\ read[f].value <= commits
       /\ pc[f] = "completing" => read[f].value <= health

\* Only those who wait for another's read have joined it.
FollowersWait == \A f \in Callers : follows[f] # None <=> pc[f] = "following"

\* The invariant of the cached health.
HealthInv == HealthTypeOK /\ ReadsAreOrdered /\ FollowersWait
-------------------------------------------------------------------------------
\* Every nonempty set of natural numbers has a least element.
LEMMA LeastToken ==
  ASSUME NEW T, T \subseteq Nat, T # {}
  PROVE  Min(T) \in T
<1> DEFINE R == OpToRel(<, Nat)
<1>1. IsWellFoundedOn(R, Nat)
  BY NatLessThanWellFounded
<1>2. \A m, n \in Nat : m < n => <<m, n>> \in R
  BY DEF OpToRel
<1> HIDE DEF R
<1>3. PICK n \in T : \A m \in T : ~ (<<m, n>> \in R)
  BY <1>1, WFMin, Zenon
<1>4. ASSUME NEW m \in T PROVE n <= m
  <2>1. m \in Nat /\ n \in Nat
    OBVIOUS
  <2>2. ~ (m < n)
    BY <1>2, <1>3, <2>1
  <2> QED
    BY <2>1, <2>2
<1> QED
  BY <1>4 DEF Min

\* A request goes to its scheduler and back.
LEMMA RequestMoves ==
  ASSUME HealthTypeOK, NEW m \in Mutators, Request(m)
  PROVE  /\ pc' \in [Fibers -> Places]
         /\ \A f \in Callers :
              \/ pc'[f] = pc[f]
              \/ f \in Tokens /\ pc[f] = "idle" /\ pc'[f] = "draining"
         /\ UNCHANGED <<commits, readEpoch, readVars>>
<1> USE HealthAssumption DEF HealthTypeOK, Fibers, Callers, Places
<1>1. UNCHANGED <<commits, readEpoch, readVars>>
  BY DEF Request
<1>2. CASE pc' = [pc EXCEPT ![m] = "idle"]
  BY <1>1, <1>2
<1>3. CASE FreeTokens # {} /\ pc' = [pc EXCEPT ![m] = "idle", ![Min(FreeTokens)] = "draining"]
  <2>1. PICK t \in Tokens : t = Min(FreeTokens) /\ pc[t] = "idle"
    <3>1. FreeTokens \subseteq Nat
      BY DEF FreeTokens
    <3>2. Min(FreeTokens) \in FreeTokens
      BY <1>3, <3>1, LeastToken
    <3> QED
      BY <3>2 DEF FreeTokens
  <2>2. pc' = [pc EXCEPT ![m] = "idle", ![t] = "draining"]
    BY <1>3, <2>1
  <2> QED
    BY <1>1, <2>1, <2>2
<1> QED
  BY <1>2, <1>3 DEF Request, Goto

\* Fibers that neither read nor install leave what has been read alone.
LEMMA OtherStepsKeep ==
  ASSUME HealthInv, UNCHANGED readVars, commits' \in Nat, commits <= commits',
         readEpoch' \in Nat, readEpoch <= readEpoch',
         pc' \in [Fibers -> Places],
         \A f \in Callers :
           /\ pc'[f] \in {"installing", "completing"} => pc[f] = pc'[f]
           /\ pc'[f] = "following" <=> pc[f] = "following"
  PROVE  HealthInv'
<1> USE DEF HealthInv, readVars
<1>1. HealthTypeOK'
  BY DEF HealthTypeOK
<1>2. FollowersWait'
  BY DEF FollowersWait
<1>3. health' <= commits'
  BY DEF HealthTypeOK, ReadsAreOrdered
<1>4. ASSUME NEW f \in Callers
      PROVE  /\ read'[f].epoch <= readEpoch'
             /\ pc'[f] = "installing" /\ f \notin overtaken' =>
                  health' <= read'[f].value /\ read'[f].value <= commits'
             /\ pc'[f] = "completing" => read'[f].value <= health'
  <2>1. PICK e \in Nat, v \in Nat : e = read[f].epoch /\ v = read[f].value
    BY DEF HealthTypeOK
  <2>2. /\ e <= readEpoch
        /\ pc[f] = "installing" /\ f \notin overtaken => health <= v /\ v <= commits
        /\ pc[f] = "completing" => v <= health
    BY <2>1 DEF ReadsAreOrdered
  <2>3. read'[f].epoch = e /\ read'[f].value = v /\ health' = health /\ overtaken' = overtaken
    BY <2>1
  <2> QED
    BY <2>2, <2>3 DEF HealthTypeOK
<1> QED
  BY <1>1, <1>2, <1>3, <1>4 DEF ReadsAreOrdered

\* A read that has begun learns of a leader, of the engine, and of its end.
LEMMA ReadStepKeeps ==
  ASSUME HealthInv, NEW f \in Callers, ReadStep(f)
  PROVE  HealthInv'
<1> USE HealthAssumption DEF HealthInv, HealthTypeOK, Fibers, Places, Goto
<1>1. PICK e \in Nat, v \in Nat : e = read[f].epoch /\ v = read[f].value
  OBVIOUS
<1>2. f \in Fibers /\ Mode(f) \in {"strict", "scheduled"}
  BY DEF Mode
<1>3. CASE Decide(f)
  <2> DEFINE leads == ~(/\ activeRead[Mode(f)] # None
                        /\ read[activeRead[Mode(f)]].epoch = readEpoch)
  <2>1. CASE ~leads
    <3>1. /\ pc[f] = "deciding" /\ pc' = [pc EXCEPT ![f] = "following"]
          /\ UNCHANGED <<commits, health, readEpoch, overtaken, activeRead, read>>
      BY <1>2, <1>3, <2>1 DEF Decide
    <3>2. PICK leader \in Callers : follows' = [follows EXCEPT ![f] = leader]
      <4>1. activeRead[Mode(f)] \in Callers
        BY <1>2, <2>1
      <4> QED
        BY <1>3, <2>1, <4>1 DEF Decide
    <3>3. HealthTypeOK'
      BY <3>1, <3>2
    <3>4. ReadsAreOrdered'
      BY <3>1 DEF ReadsAreOrdered
    <3>5. FollowersWait'
      BY <3>1, <3>2 DEF FollowersWait, Callers
    <3> QED
      BY <3>3, <3>4, <3>5
  <2>2. CASE leads
    <3>1. follows' = follows
      BY <1>3, <2>2 DEF Decide
    <3>2. /\ pc[f] = "deciding" /\ pc' = [pc EXCEPT ![f] = "leading"]
          /\ read' = [read EXCEPT ![f].epoch = readEpoch]
          /\ activeRead' = [activeRead EXCEPT ![Mode(f)] = f]
          /\ UNCHANGED <<commits, health, readEpoch, overtaken>>
      BY <1>2, <1>3, <2>2 DEF Decide
    <3>3. HealthTypeOK'
      BY <1>2, <3>1, <3>2
    <3>4. ReadsAreOrdered'
      BY <3>2 DEF ReadsAreOrdered
    <3>5. FollowersWait'
      BY <3>1, <3>2 DEF FollowersWait
    <3> QED
      BY <3>3, <3>4, <3>5
  <2> QED
    BY <2>1, <2>2
<1>4. CASE StartRead(f)
  BY <1>4 DEF StartRead, readVars, ReadsAreOrdered, FollowersWait
<1>5. CASE ReadEngine(f)
  <2>1. /\ pc[f] = "reading" /\ pc' = [pc EXCEPT ![f] = "installing"]
        /\ read' = [read EXCEPT ![f].value = commits]
        /\ UNCHANGED <<commits, health, readEpoch, overtaken, activeRead, follows>>
    BY <1>5 DEF ReadEngine
  <2>2. HealthTypeOK'
    BY <2>1
  <2>3. ReadsAreOrdered'
    BY <2>1 DEF ReadsAreOrdered
  <2>4. FollowersWait'
    BY <2>1 DEF FollowersWait
  <2> QED
    BY <2>2, <2>3, <2>4
<1>6. CASE Install(f)
  <2>1. /\ pc[f] = "installing" /\ pc' = [pc EXCEPT ![f] = "completing"]
        /\ health' = (IF ShouldInstall(f) THEN v ELSE health)
        /\ overtaken' = (IF ShouldInstall(f) THEN Reading ELSE overtaken) \ {f}
        /\ read' = [read EXCEPT ![f].value = health']
        /\ UNCHANGED <<commits, readEpoch, activeRead, follows>>
    BY <1>1, <1>6 DEF Install
  <2>2. health' \in Nat /\ health <= health' /\ health' <= commits
    BY <1>1, <2>1 DEF ReadsAreOrdered, ShouldInstall
  <2>3. HealthTypeOK'
    BY <2>1, <2>2
  <2>4. ASSUME NEW g \in Callers
        PROVE  /\ read'[g].epoch <= readEpoch'
               /\ pc'[g] = "installing" /\ g \notin overtaken' =>
                    health' <= read'[g].value /\ read'[g].value <= commits'
               /\ pc'[g] = "completing" => read'[g].value <= health'
    <3>1. CASE g = f
      BY <1>1, <2>1, <2>2, <3>1 DEF ReadsAreOrdered
    <3>2. CASE g # f
      <4>1. read'[g] = read[g] /\ pc'[g] = pc[g]
        BY <2>1, <3>2
      <4>2. PICK n \in Nat, x \in Nat : n = read[g].epoch /\ x = read[g].value
        OBVIOUS
      <4>3. n <= readEpoch /\ (pc[g] = "completing" => x <= health')
        BY <2>2, <4>2 DEF ReadsAreOrdered
      <4>4. pc[g] = "installing" /\ g \notin overtaken' => ~ShouldInstall(f) /\ g \notin overtaken
        BY <2>1, <3>2 DEF Reading
      <4>5. pc[g] = "installing" /\ g \notin overtaken' => health' <= x /\ x <= commits
        BY <2>1, <4>2, <4>4 DEF ReadsAreOrdered
      <4> QED
        BY <2>1, <4>1, <4>2, <4>3, <4>5
    <3> QED
      BY <3>1, <3>2
  <2>5. FollowersWait'
    BY <2>1 DEF FollowersWait
  <2> QED
    BY <2>1, <2>2, <2>3, <2>4, <2>5 DEF ReadsAreOrdered
<1>7. CASE Complete(f)
  <2>1. /\ pc[f] = "completing"
        /\ pc' = [g \in Fibers |-> IF g \in Answered(f)
                                  THEN IF g \in Tokens THEN "checking" ELSE "idle" ELSE pc[g]]
        /\ read' = [read EXCEPT ![f] = NoRead]
        /\ follows' = [g \in Callers |-> IF g \in Answered(f) THEN None ELSE follows[g]]
        /\ activeRead' \in [{"strict", "scheduled"} -> Callers \union {None}]
        /\ UNCHANGED <<commits, health, readEpoch, overtaken>>
    BY <1>2, <1>7 DEF Complete
  <2>2. \A g \in Callers : g \in Answered(f) <=> (g = f \/ follows[g] = f)
    BY DEF Answered
  <2>3. NoRead \in [epoch : Nat, value : Nat] /\ NoRead.epoch = 0
    BY DEF NoRead
  <2>4. HealthTypeOK'
    BY <2>1, <2>3
  <2>5. ReadsAreOrdered'
    <3>1. ASSUME NEW g \in Callers
          PROVE  /\ read'[g].epoch <= readEpoch'
                 /\ pc'[g] = "installing" /\ g \notin overtaken' =>
                      health' <= read'[g].value /\ read'[g].value <= commits'
                 /\ pc'[g] = "completing" => read'[g].value <= health'
      <4>1. CASE g = f
        BY <2>1, <2>2, <2>3, <4>1
      <4>2. CASE g # f
        <5>1. read'[g] = read[g]
          BY <2>1, <4>2
        <5>2. pc'[g] \in {"installing", "completing"} => pc[g] = pc'[g]
          BY <2>1
        <5> QED
          BY <2>1, <5>1, <5>2 DEF ReadsAreOrdered
      <4> QED
        BY <4>1, <4>2
    <3> QED
      BY <2>1, <3>1 DEF ReadsAreOrdered
  <2>6. FollowersWait'
    <3>1. ASSUME NEW g \in Callers PROVE follows'[g] # None <=> pc'[g] = "following"
      <4>1. follows[g] # None <=> pc[g] = "following"
        BY DEF FollowersWait
      <4> QED
        BY <2>1, <2>2, <4>1
    <3> QED
      BY <3>1 DEF FollowersWait
  <2> QED
    BY <2>4, <2>5, <2>6
<1> QED
  BY <1>3, <1>4, <1>5, <1>6, <1>7 DEF ReadStep

\* The callers and the scheduler move between reads; a caller stops waiting for one.
LEMMA CallerStepKeeps ==
  ASSUME HealthInv, NEW f \in Callers \ Mutators,
         BeginRead(f) \/ RefreshNow(f) \/ InterruptRead(f)
  PROVE  HealthInv'
<1> USE HealthAssumption DEF HealthInv, HealthTypeOK, Fibers, Places, Goto
<1>1. CASE BeginRead(f) \/ RefreshNow(f)
  <2>1. /\ pc[f] = "idle" /\ pc' = [pc EXCEPT ![f] = "deciding"]
        /\ UNCHANGED readVars /\ commits' = commits
        /\ readEpoch' \in {readEpoch, readEpoch + 1}
    BY <1>1 DEF BeginRead, RefreshNow
  <2> QED
    BY <2>1, OtherStepsKeep
<1>2. CASE InterruptRead(f)
  <2>1. /\ pc[f] = "following" /\ pc' = [pc EXCEPT ![f] = "idle"]
        /\ follows' = [follows EXCEPT ![f] = None]
        /\ UNCHANGED <<commits, health, readEpoch, overtaken, activeRead, read>>
    BY <1>2 DEF InterruptRead
  <2>2. HealthTypeOK' /\ ReadsAreOrdered'
    BY <2>1 DEF ReadsAreOrdered
  <2>3. FollowersWait'
    BY <2>1 DEF FollowersWait
  <2> QED
    BY <2>2, <2>3
<1> QED
  BY <1>1, <1>2

\* What the other fibers do moves no read.
LEMMA OtherFibers ==
  ASSUME HealthInv,
         \/ \E m \in Mutators : CommitMutation(m) \/ BumpEpoch(m) \/ Request(m)
         \/ \E t \in Tokens : RunStep(t)
         \/ CloseScheduler
  PROVE  /\ UNCHANGED readVars /\ commits' \in Nat /\ commits <= commits'
         /\ readEpoch' \in Nat /\ readEpoch <= readEpoch'
         /\ pc' \in [Fibers -> Places]
         /\ \A f \in Callers :
              \/ pc'[f] = pc[f]
              \/ f \in Tokens /\ pc[f] \notin {"following", "completing"}
                 /\ pc'[f] \notin {"installing", "completing", "following"}
<1> USE HealthAssumption DEF HealthInv, HealthTypeOK
<1>1. ASSUME NEW m \in Mutators, CommitMutation(m) \/ BumpEpoch(m)
      PROVE  /\ UNCHANGED readVars
             /\ commits' \in {commits, commits + 1} /\ readEpoch' \in {readEpoch, readEpoch + 1}
             /\ pc' \in [Fibers -> Places] /\ \A f \in Callers : pc'[f] = pc[f]
  BY <1>1 DEF CommitMutation, BumpEpoch, Goto, Fibers, Callers, Places
<1>2. ASSUME NEW t \in Tokens, RunStep(t)
      PROVE  /\ UNCHANGED readVars /\ UNCHANGED <<commits, readEpoch>>
             /\ pc' \in [Fibers -> Places]
             /\ pc[t] \in {"draining", "sleeping", "deciding", "checking", "ending"}
             /\ pc'[t] \in {"sleeping", "deciding", "draining", "ending", "idle"}
             /\ \A f \in Callers : f # t => pc'[f] = pc[f]
  BY <1>2 DEF RunStep, ClearPending, Wake, Check, EndRun, InterruptRun, Goto, Fibers, Callers, Places
<1>3. ASSUME CloseScheduler
      PROVE  UNCHANGED <<readVars, commits, readEpoch, pc>>
  BY <1>3 DEF CloseScheduler
<1>4. ASSUME NEW m \in Mutators, Request(m)
      PROVE  /\ UNCHANGED <<readVars, commits, readEpoch>> /\ pc' \in [Fibers -> Places]
             /\ \A f \in Callers :
                  \/ pc'[f] = pc[f]
                  \/ f \in Tokens /\ pc[f] = "idle" /\ pc'[f] = "draining"
  BY <1>4, RequestMoves
<1>5. CASE \E m \in Mutators : CommitMutation(m) \/ BumpEpoch(m)
  BY <1>1, <1>5
<1>6. CASE \E m \in Mutators : Request(m)
  BY <1>4, <1>6
<1>7. CASE \E t \in Tokens : RunStep(t)
  BY <1>2, <1>7
<1>8. CASE CloseScheduler
  BY <1>3, <1>8
<1> QED
  BY <1>5, <1>6, <1>7, <1>8

\* Every step of the cached health keeps its invariant.
LEMMA HealthStepKeeps ==
  ASSUME HealthInv, HealthNext
  PROVE  HealthInv'
<1> USE HealthAssumption
<1>1. CASE \E f \in Callers : ReadStep(f)
  BY <1>1, ReadStepKeeps
<1>2. CASE \E r \in Readers : BeginRead(r) \/ RefreshNow(r) \/ InterruptRead(r)
  BY <1>2, CallerStepKeeps DEF Callers
<1>3. CASE \/ \E m \in Mutators : CommitMutation(m) \/ BumpEpoch(m) \/ Request(m)
           \/ \E t \in Tokens : RunStep(t)
           \/ CloseScheduler
  <2>1. /\ UNCHANGED readVars /\ commits' \in Nat /\ commits <= commits'
        /\ readEpoch' \in Nat /\ readEpoch <= readEpoch'
        /\ pc' \in [Fibers -> Places]
        /\ \A f \in Callers :
             \/ pc'[f] = pc[f]
             \/ f \in Tokens /\ pc[f] \notin {"following", "completing"}
                /\ pc'[f] \notin {"installing", "completing", "following"}
    BY <1>3, OtherFibers, Zenon
  <2>2. \A f \in Callers :
           /\ pc'[f] \in {"installing", "completing"} => pc[f] = pc'[f]
           /\ pc'[f] = "following" <=> pc[f] = "following"
    BY <2>1
  <2> QED
    BY <2>1, <2>2, OtherStepsKeep, Zenon
<1> QED
  BY <1>1, <1>2, <1>3 DEF HealthNext

\* The invariant of the cached health, with any fibers.
THEOREM HealthInductive == HealthSpec => []HealthInv
<1>1. HealthInit => HealthInv
  BY HealthAssumption DEF HealthInit, HealthInv, HealthTypeOK, ReadsAreOrdered, FollowersWait,
     Fibers, Places, NoRead
<1>2. HealthInv /\ [HealthNext]_healthVars => HealthInv'
  <2>1. CASE HealthNext
    BY <2>1, HealthStepKeeps
  <2>2. CASE UNCHANGED healthVars
    BY <2>2 DEF healthVars, readVars, HealthInv, HealthTypeOK, ReadsAreOrdered, FollowersWait
  <2> QED
    BY <2>1, <2>2
<1> QED
  BY <1>1, <1>2, PTL DEF HealthSpec

\* No step installs what is older.
LEMMA HealthRises ==
  ASSUME HealthInv, HealthNext
  PROVE  health' >= health
<1> USE HealthAssumption
<1>1. CASE \E f \in Callers : ReadStep(f)
  <2>1. PICK f \in Callers : ReadStep(f)
    BY <1>1
  <2>2. CASE Install(f)
    <3>1. CASE ShouldInstall(f)
      BY <2>2, <3>1 DEF Install, ShouldInstall, HealthInv, HealthTypeOK, ReadsAreOrdered
    <3>2. CASE ~ShouldInstall(f)
      BY <2>2, <3>2 DEF Install, HealthInv, HealthTypeOK
    <3> QED
      BY <3>1, <3>2
  <2>3. CASE ~Install(f)
    BY <2>1, <2>3 DEF ReadStep, Decide, StartRead, ReadEngine, Complete, readVars,
       HealthInv, HealthTypeOK
  <2> QED
    BY <2>2, <2>3
<1>2. CASE \E r \in Readers : BeginRead(r) \/ RefreshNow(r) \/ InterruptRead(r)
  BY <1>2 DEF BeginRead, RefreshNow, InterruptRead, readVars, HealthInv, HealthTypeOK
<1>3. CASE \/ \E m \in Mutators : CommitMutation(m) \/ BumpEpoch(m) \/ Request(m)
           \/ \E t \in Tokens : RunStep(t)
           \/ CloseScheduler
  <2>1. UNCHANGED readVars
    BY <1>3, OtherFibers, Zenon
  <2> QED
    BY <2>1 DEF readVars, HealthInv, HealthTypeOK
<1> QED
  BY <1>1, <1>2, <1>3 DEF HealthNext

\* The cached health never goes back to an earlier state of the engine, however many
\* reads of however many epochs overtake each other.
THEOREM HealthNeverReturns == HealthSpec => HealthNeverGoesBack
<1>1. HealthInv /\ [HealthNext]_healthVars => [health' >= health]_healthVars
  <2>1. CASE HealthNext
    BY <2>1, HealthRises
  <2> QED
    BY <2>1
<1> QED
  BY <1>1, HealthInductive, PTL DEF HealthSpec, HealthNeverGoesBack
-------------------------------------------------------------------------------
(* Subscriptions to the health. *)

\* The shapes of a watcher's state.
WatchTypeOK ==
  /\ place \in [Watchers -> {"none", "registering", "refreshing", "live", "overflowing", "closed"}]
  /\ slot \in [Watchers -> Nat \union {NoValue}]
  /\ hand \in [Watchers -> Nat \union {NoValue}]
  /\ queue \in [Watchers -> Seq(Nat \union {Status})]
  /\ taken \in [Watchers -> Nat \union {Status, NoValue}]
  /\ listening \in SUBSET Watchers /\ claimed \in SUBSET Watchers
  /\ registered \in SUBSET Watchers /\ ended \in SUBSET Watchers
  /\ allClosed \in BOOLEAN

\* Where a watcher is says whether it listens, is registered, claimed and ended.
PlacesAgree(w) ==
  /\ w \in listening <=> place[w] \in {"registering", "refreshing", "live"}
  /\ w \in registered <=> place[w] \in {"refreshing", "live"}
  /\ w \in claimed <=> place[w] \in {"overflowing", "closed"}
  /\ w \in ended <=> place[w] = "closed"
  /\ allClosed => w \notin registered

\* Nothing is on its way before the first read returns, and the read is on its way
\* until then.
FirstReadFirst(w) ==
  /\ place[w] \in {"none", "registering", "refreshing"} => queue[w] = <<>> /\ taken[w] = NoValue
  /\ place[w] \in {"none", "registering"} => hand[w] = NoValue /\ pc[w] = "idle"
  /\ place[w] = "none" => slot[w] = NoValue
  /\ place[w] = "refreshing" => (hand[w] = NoValue <=> pc[w] # "idle")
  /\ place[w] = "live" => pc[w] = "idle"

\* The status is alone.
StatusIsAlone(w) ==
  \/ queue[w] \in Seq(Nat) /\ taken[w] \in Nat \union {NoValue}
  \/ place[w] = "closed" /\ queue[w] \in Seq(Nat)
  \/ place[w] = "closed" /\ queue[w] = <<Status>>

\* Values that a watcher was given follow each other, none newer than the cache.
ValuesFollow(w) ==
  place[w] \in {"registering", "refreshing", "live"} =>
    /\ slot[w] # NoValue => slot[w] = health
    /\ hand[w] # NoValue => hand[w] <= health
    /\ taken[w] # NoValue => taken[w] <= health
    /\ taken[w] # NoValue /\ hand[w] # NoValue => taken[w] <= hand[w]
    /\ \A i \in 1 .. Len(queue[w]) :
         /\ queue[w][i] <= health
         /\ hand[w] # NoValue => queue[w][i] <= hand[w]
         /\ taken[w] # NoValue => taken[w] <= queue[w][i]
         /\ \A j \in 1 .. Len(queue[w]) : i < j => queue[w][i] <= queue[w][j]

\* The last value of a watcher without a newer one in its slot.
LastIsHealth(w) ==
  slot[w] = NoValue =>
    /\ place[w] = "refreshing" /\ hand[w] # NoValue => hand[w] = health
    /\ place[w] = "live" => Newest(w) = health

\* The read f is, has become or can become the first one of w.
CanAnswer(f, w) == f = w \/ follows[w] = f \/ (pc[w] = "deciding" /\ read[f].epoch = readEpoch)

\* A first read returns what the cache has, unless something newer is in the slot.
FirstReadIsCurrent(w) ==
  place[w] = "refreshing" /\ slot[w] = NoValue =>
    \A f \in Callers : pc[f] = "completing" /\ CanAnswer(f, w) => read[f].value = health

\* What holds of each watcher.
Watching(w) ==
  /\ PlacesAgree(w) /\ FirstReadFirst(w) /\ StatusIsAlone(w)
  /\ ValuesFollow(w) /\ LastIsHealth(w) /\ FirstReadIsCurrent(w)

\* The invariant of the cached health with its subscriptions.
WatchInv == HealthInv /\ WatchTypeOK /\ \A w \in Watchers : Watching(w)
-------------------------------------------------------------------------------
\* A watcher that does not read does not begin to, whatever the others do.
LEMMA IdleStays ==
  ASSUME HealthInv, HealthNext, NEW w \in Watchers, pc[w] = "idle"
  PROVE  pc'[w] = "idle"
<1> USE HealthAssumption DEF HealthInv, HealthTypeOK, Fibers, Callers, Places, Goto
<1>1. ASSUME NEW f \in Callers, ReadStep(f) PROVE pc'[w] = "idle"
  BY <1>1 DEF ReadStep, Decide, StartRead, ReadEngine, Install, Complete
<1>2. ASSUME NEW r \in Readers, BeginRead(r) \/ RefreshNow(r) \/ InterruptRead(r)
      PROVE  pc'[w] = "idle"
  BY <1>2 DEF BeginRead, RefreshNow, InterruptRead
<1>3. CASE \/ \E m \in Mutators : CommitMutation(m) \/ BumpEpoch(m) \/ Request(m)
           \/ \E t \in Tokens : RunStep(t)
           \/ CloseScheduler
  BY <1>3, OtherFibers
<1> QED
  BY <1>1, <1>2, <1>3 DEF HealthNext

\* A watcher's first read returns what its leader has, and nothing is installed then.
LEMMA ReadReturns ==
  ASSUME HealthInv, HealthNext, NEW w \in Watchers, pc[w] # "idle", pc'[w] = "idle"
  PROVE  /\ Leader(w) \in Callers /\ pc[Leader(w)] = "completing" /\ CanAnswer(Leader(w), w)
         /\ health' = health
<1> USE HealthAssumption DEF HealthInv, HealthTypeOK, Fibers, Callers, Places, Goto
<1>1. ASSUME NEW f \in Callers, ReadStep(f)
      PROVE  /\ Leader(w) \in Callers /\ pc[Leader(w)] = "completing" /\ CanAnswer(Leader(w), w)
             /\ health' = health
  <2>1. Complete(f)
    BY <1>1 DEF ReadStep, Decide, StartRead, ReadEngine, Install
  <2>2. pc[f] = "completing" /\ w \in Answered(f) /\ health' = health
    BY <2>1 DEF Complete
  <2>3. CASE w = f
    BY <2>2, <2>3 DEF FollowersWait, Leader, CanAnswer
  <2>4. CASE follows[w] = f
    BY <2>2, <2>4 DEF Leader, CanAnswer
  <2> QED
    BY <2>2, <2>3, <2>4 DEF Answered
<1>2. ASSUME NEW r \in Readers, BeginRead(r) \/ RefreshNow(r) \/ InterruptRead(r)
      PROVE  FALSE
  BY <1>2 DEF BeginRead, RefreshNow, InterruptRead
<1>3. CASE \/ \E m \in Mutators : CommitMutation(m) \/ BumpEpoch(m) \/ Request(m)
           \/ \E t \in Tokens : RunStep(t)
           \/ CloseScheduler
  BY <1>3, OtherFibers
<1> QED
  BY <1>1, <1>2, <1>3 DEF HealthNext

\* A read that can answer a watcher could do so before, or has just installed.
LEMMA AnswersStay ==
  ASSUME HealthInv, HealthNext, NEW w \in Watchers, NEW f \in Callers, pc[w] # "idle",
         pc'[f] = "completing", CanAnswer(f, w)'
  PROVE  \/ read'[f].value = health'
         \/ pc[f] = "completing" /\ CanAnswer(f, w) /\ read'[f] = read[f]
<1> USE HealthAssumption DEF HealthInv, HealthTypeOK, Fibers, Callers, Places, Goto
<1>1. PICK e \in Nat : e = read[f].epoch /\ e <= readEpoch
  BY DEF ReadsAreOrdered
<1>2. ASSUME NEW g \in Callers, ReadStep(g)
      PROVE  \/ read'[f].value = health'
             \/ pc[f] = "completing" /\ CanAnswer(f, w) /\ read'[f] = read[f]
  <2>1. CASE Decide(g)
    <3>1. /\ pc[g] = "deciding" /\ readEpoch' = readEpoch
          /\ \A x \in Callers : x # g => pc'[x] = pc[x] /\ read'[x] = read[x] /\ follows'[x] = follows[x]
          /\ pc'[g] \in {"following", "leading"} /\ f # g
      BY <2>1 DEF Decide
    <3>2. pc[f] = "completing" /\ read'[f] = read[f]
      BY <3>1
    <3>3. CASE w # g
      BY <3>1, <3>2, <3>3 DEF CanAnswer
    <3>4. CASE w = g
      <4>1. f # w /\ pc'[w] # "deciding" /\ follows'[w] = f
        BY <3>1, <3>4 DEF CanAnswer
      <4>2. follows[w] = None
        BY <3>1, <3>4 DEF FollowersWait
      <4>3. read[f].epoch = readEpoch
        BY <2>1, <3>4, <4>1, <4>2 DEF Decide
      <4> QED
        BY <3>1, <3>2, <3>4, <4>3 DEF CanAnswer
    <3> QED
      BY <3>3, <3>4
  <2>2. CASE StartRead(g)
    BY <2>2 DEF StartRead, readVars, CanAnswer
  <2>3. CASE ReadEngine(g)
    <3>1. /\ readEpoch' = readEpoch /\ follows' = follows /\ pc'[g] = "installing"
          /\ \A x \in Callers : x # g => pc'[x] = pc[x] /\ read'[x] = read[x]
      BY <2>3 DEF ReadEngine
    <3> QED
      BY <3>1 DEF CanAnswer
  <2>4. CASE Install(g)
    <3>1. /\ readEpoch' = readEpoch /\ follows' = follows /\ pc'[g] = "completing"
          /\ \A x \in Callers : x # g => pc'[x] = pc[x] /\ read'[x] = read[x]
          /\ read'[g].value = health'
      BY <2>4 DEF Install
    <3> QED
      BY <3>1 DEF CanAnswer
  <2>5. CASE Complete(g)
    <3>1. /\ readEpoch' = readEpoch
          /\ \A x \in Callers : x # g => read'[x] = read[x]
          /\ \A x \in Callers : follows'[x] \in {None, follows[x]}
          /\ \A x \in Callers : pc'[x] \in {"idle", "checking", pc[x]}
          /\ pc'[g] # "completing"
      BY <2>5 DEF Complete, Answered
    <3> QED
      BY <3>1 DEF CanAnswer
  <2> QED
    BY <1>2, <2>1, <2>2, <2>3, <2>4, <2>5 DEF ReadStep
<1>3. ASSUME NEW r \in Readers, BeginRead(r) \/ RefreshNow(r) \/ InterruptRead(r)
      PROVE  pc[f] = "completing" /\ CanAnswer(f, w) /\ read'[f] = read[f]
  <2>1. /\ read' = read /\ readEpoch' \in {readEpoch, readEpoch + 1}
        /\ \A x \in Callers : x # r => follows'[x] = follows[x] /\ pc'[x] = pc[x]
        /\ pc'[r] \in {"idle", "deciding"} /\ r # w
    BY <1>3 DEF BeginRead, RefreshNow, InterruptRead, readVars
  <2>2. readEpoch' = e => readEpoch = e
    BY <1>1, <2>1
  <2> QED
    BY <1>1, <2>1, <2>2 DEF CanAnswer
<1>4. CASE \/ \E m \in Mutators : CommitMutation(m) \/ BumpEpoch(m) \/ Request(m)
           \/ \E t \in Tokens : RunStep(t)
           \/ CloseScheduler
  <2>1. /\ UNCHANGED readVars /\ readEpoch' \in Nat /\ readEpoch <= readEpoch'
        /\ pc'[w] = pc[w] /\ pc'[f] = pc[f]
    BY <1>4, OtherFibers
  <2>2. readEpoch' = e => readEpoch = e
    <3>1. readEpoch \in Nat /\ readEpoch' \in Nat /\ e <= readEpoch /\ readEpoch <= readEpoch'
      BY <1>1, <2>1, Zenon
    <3> QED
      BY <3>1
  <2> QED
    BY <1>1, <2>1, <2>2 DEF CanAnswer, readVars
<1> QED
  BY <1>2, <1>3, <1>4 DEF HealthNext

\* A watcher sees a step of the cached health as a value in its slot, as its first
\* read's return, or not at all.
LEMMA WatchedKeeps ==
  ASSUME WatchInv, HealthInv', HealthNext, Watched, NEW w \in Watchers
  PROVE  Watching(w)'
<1> USE HealthAssumption, WatchAssumption
<1>1. Watching(w) /\ HealthInv /\ WatchTypeOK /\ w \in Callers
  BY DEF WatchInv, Callers
<1>2. /\ place'[w] = place[w] /\ queue'[w] = queue[w] /\ taken'[w] = taken[w]
      /\ UNCHANGED <<listening, claimed, registered, allClosed, ended>>
      /\ slot'[w] = (IF w \in listening /\ health' # health THEN health' ELSE slot[w])
      /\ hand'[w] = (IF FirstReadReturns(w) THEN read[Leader(w)].value ELSE hand[w])
  BY DEF Watched
<1>3. health \in Nat /\ health' \in Nat /\ health <= health'
  BY <1>1, HealthRises DEF HealthInv, HealthTypeOK
<1>4. pc[w] = "idle" => pc'[w] = "idle"
  BY <1>1, IdleStays
<1>5. ASSUME FirstReadReturns(w)
      PROVE  /\ place[w] = "refreshing" /\ pc[w] # "idle" /\ pc'[w] = "idle" /\ health' = health
             /\ hand'[w] \in Nat /\ hand'[w] <= health
             /\ slot[w] = NoValue => hand'[w] = health
  <2>1. place[w] = "refreshing" /\ pc[w] # "idle" /\ pc'[w] = "idle"
    BY <1>5 DEF FirstReadReturns
  <2>2. PICK f : f = Leader(w)
    OBVIOUS
  <2>3. f \in Callers /\ pc[f] = "completing" /\ CanAnswer(f, w) /\ health' = health
    BY <1>1, <2>1, <2>2, ReadReturns
  <2>4. hand'[w] = read[f].value
    BY <1>2, <1>5, <2>2
  <2>5. read[f].value \in Nat /\ read[f].value <= health
    BY <1>1, <2>3 DEF HealthInv, HealthTypeOK, ReadsAreOrdered
  <2>6. slot[w] = NoValue => read[f].value = health
    BY <1>1, <2>1, <2>3 DEF Watching, FirstReadIsCurrent
  <2> QED
    BY <2>1, <2>3, <2>4, <2>5, <2>6
<1>6. PlacesAgree(w)'
  BY <1>1, <1>2 DEF Watching, PlacesAgree
<1>7. FirstReadFirst(w)'
  <2>1. CASE FirstReadReturns(w)
    BY <1>1, <1>2, <1>5, <2>1 DEF Watching, FirstReadFirst
  <2>2. CASE ~FirstReadReturns(w)
    <3>1. hand'[w] = hand[w] /\ (place[w] = "refreshing" => (pc[w] = "idle" <=> pc'[w] = "idle"))
      BY <1>2, <1>4, <2>2 DEF FirstReadReturns
    <3>2. place[w] = "none" => slot'[w] = slot[w]
      BY <1>1, <1>2 DEF Watching, PlacesAgree
    <3> QED
      BY <1>1, <1>2, <1>4, <3>1, <3>2 DEF Watching, FirstReadFirst
  <2> QED
    BY <2>1, <2>2
<1>8. StatusIsAlone(w)'
  BY <1>1, <1>2 DEF Watching, StatusIsAlone
<1>9. ValuesFollow(w)'
  <2> SUFFICES ASSUME place[w] \in {"registering", "refreshing", "live"} PROVE ValuesFollow(w)'
    BY <1>2 DEF ValuesFollow
  <2>1. slot'[w] # NoValue => slot'[w] = health'
    BY <1>1, <1>2 DEF Watching, ValuesFollow, PlacesAgree
  <2>2. CASE FirstReadReturns(w)
    <3>1. queue'[w] = <<>> /\ taken'[w] = NoValue
      BY <1>1, <1>2, <1>5, <2>2 DEF Watching, FirstReadFirst
    <3> QED
      BY <1>5, <2>1, <2>2, <3>1 DEF ValuesFollow
  <2>3. CASE ~FirstReadReturns(w)
    <3>1. hand'[w] = hand[w]
      BY <1>2, <2>3
    <3>2. taken[w] \in Nat \union {NoValue} /\ hand[w] \in Nat \union {NoValue} /\ queue[w] \in Seq(Nat)
      BY <1>1 DEF Watching, StatusIsAlone, WatchTypeOK
    <3>3. /\ hand[w] # NoValue => hand[w] <= health
          /\ taken[w] # NoValue => taken[w] <= health
          /\ taken[w] # NoValue /\ hand[w] # NoValue => taken[w] <= hand[w]
      BY <1>1 DEF Watching, ValuesFollow
    <3>4. \A i \in 1 .. Len(queue[w]) :
            /\ queue[w][i] \in Nat
            /\ queue[w][i] <= health
            /\ hand[w] # NoValue => queue[w][i] <= hand[w]
            /\ taken[w] # NoValue => taken[w] <= queue[w][i]
            /\ \A j \in 1 .. Len(queue[w]) : i < j => queue[w][i] <= queue[w][j]
      BY <1>1, <3>2 DEF Watching, ValuesFollow
    <3>5. /\ hand[w] # NoValue => hand[w] <= health'
          /\ taken[w] # NoValue => taken[w] <= health'
      BY <1>3, <3>2, <3>3
    <3>6. \A i \in 1 .. Len(queue[w]) : queue[w][i] <= health'
      BY <1>3, <3>4
    <3> QED
      BY <1>2, <2>1, <3>1, <3>3, <3>4, <3>5, <3>6 DEF ValuesFollow
  <2> QED
    BY <2>2, <2>3
<1>10. LastIsHealth(w)'
  <2> SUFFICES ASSUME slot'[w] = NoValue, place[w] \in {"refreshing", "live"} PROVE LastIsHealth(w)'
    BY <1>2 DEF LastIsHealth
  <2>1. slot[w] = NoValue /\ health' = health
    BY <1>1, <1>2, <1>3 DEF Watching, PlacesAgree
  <2>2. CASE FirstReadReturns(w)
    BY <1>2, <1>5, <2>1, <2>2 DEF LastIsHealth
  <2>3. CASE ~FirstReadReturns(w)
    BY <1>1, <1>2, <2>1, <2>3 DEF Watching, LastIsHealth, Newest
  <2> QED
    BY <2>2, <2>3
<1>11. FirstReadIsCurrent(w)'
  <2> SUFFICES ASSUME place'[w] = "refreshing", slot'[w] = NoValue, NEW f \in Callers,
                      pc'[f] = "completing", CanAnswer(f, w)'
               PROVE  read'[f].value = health'
    BY DEF FirstReadIsCurrent, Callers
  <2>1. slot[w] = NoValue /\ health' = health /\ place[w] = "refreshing"
    BY <1>1, <1>2, <1>3 DEF Watching, PlacesAgree
  <2>2. pc'[w] # "idle"
    <3>1. follows'[w] # None <=> pc'[w] = "following"
      BY <1>1 DEF HealthInv, FollowersWait, Callers
    <3> QED
      BY <3>1, HealthAssumption DEF CanAnswer, Callers
  <2>3. \/ read'[f].value = health'
        \/ pc[f] = "completing" /\ CanAnswer(f, w) /\ read'[f] = read[f]
    BY <1>1, <1>4, <2>2, AnswersStay
  <2> QED
    BY <1>1, <2>1, <2>3 DEF Watching, FirstReadIsCurrent
<1> QED
  BY <1>6, <1>7, <1>8, <1>9, <1>10, <1>11 DEF Watching

\* What concerns another watcher leaves one alone; a new epoch answers nobody.
LEMMA OthersKeep ==
  ASSUME HealthInv, NEW v \in Watchers, Watching(v),
         place'[v] = place[v], slot'[v] = slot[v], hand'[v] = hand[v],
         queue'[v] = queue[v], taken'[v] = taken[v],
         v \in listening' <=> v \in listening, v \in claimed' <=> v \in claimed,
         v \in registered' <=> v \in registered, v \in ended' <=> v \in ended,
         allClosed' => v \notin registered,
         UNCHANGED readVars, readEpoch' \in {readEpoch, readEpoch + 1}, pc'[v] = pc[v],
         \A f \in Callers : pc'[f] = "completing" => pc[f] = "completing"
  PROVE  Watching(v)'
<1>1. PlacesAgree(v)' /\ FirstReadFirst(v)' /\ StatusIsAlone(v)'
  BY DEF Watching, PlacesAgree, FirstReadFirst, StatusIsAlone
<1>2. health' = health /\ read' = read /\ follows' = follows
  BY DEF readVars
<1>3. ValuesFollow(v)' /\ LastIsHealth(v)'
  BY <1>2 DEF Watching, ValuesFollow, LastIsHealth, Newest
<1>4. FirstReadIsCurrent(v)'
  <2> SUFFICES ASSUME place[v] = "refreshing", slot[v] = NoValue, NEW f \in Callers,
                      pc'[f] = "completing", CanAnswer(f, v)'
               PROVE  read[f].value = health
    BY <1>2 DEF FirstReadIsCurrent, Callers
  <2>1. PICK e \in Nat : e = read[f].epoch /\ e <= readEpoch
    BY DEF HealthInv, HealthTypeOK, ReadsAreOrdered
  <2>2. readEpoch' = e => readEpoch = e
    BY <2>1 DEF HealthInv, HealthTypeOK
  <2>3. pc[f] = "completing" /\ CanAnswer(f, v)
    BY <1>2, <2>1, <2>2 DEF CanAnswer
  <2> QED
    BY <2>3 DEF Watching, FirstReadIsCurrent
<1> QED
  BY <1>1, <1>3, <1>4 DEF Watching

\* Steps that leave the cached health alone.
LEMMA HealthKept ==
  ASSUME HealthInv, UNCHANGED healthVars
  PROVE  /\ HealthInv' /\ UNCHANGED readVars /\ readEpoch' = readEpoch /\ pc' = pc
         /\ health' = health /\ read' = read /\ follows' = follows
BY DEF healthVars, readVars, HealthInv, HealthTypeOK, ReadsAreOrdered, FollowersWait

\* A watcher that has left keeps nothing to show.
LEMMA ClosedKeeps ==
  ASSUME HealthInv', NEW w \in Watchers, place'[w] = "closed",
         w \in claimed', w \in ended', w \notin listening', w \notin registered',
         queue'[w] \in Seq(Nat) \/ queue'[w] = <<Status>>
  PROVE  Watching(w)'
BY DEF Watching, PlacesAgree, FirstReadFirst, StatusIsAlone, ValuesFollow, LastIsHealth,
       FirstReadIsCurrent

\* What a watcher itself does.
LEMMA WatcherKeeps ==
  ASSUME WatchInv, NEW w \in Watchers,
         WatchTypeOK', HealthInv', Watching(w)',
         UNCHANGED readVars, readEpoch' \in {readEpoch, readEpoch + 1}, allClosed' = allClosed,
         \A v \in Watchers \ {w} :
           /\ place'[v] = place[v] /\ slot'[v] = slot[v] /\ hand'[v] = hand[v]
           /\ queue'[v] = queue[v] /\ taken'[v] = taken[v] /\ pc'[v] = pc[v]
           /\ v \in listening' <=> v \in listening
           /\ v \in claimed' <=> v \in claimed
           /\ v \in registered' <=> v \in registered
           /\ v \in ended' <=> v \in ended,
         \A f \in Callers : pc'[f] = "completing" => pc[f] = "completing"
  PROVE  WatchInv'
<1>1. ASSUME NEW v \in Watchers \ {w} PROVE Watching(v)'
  <2>1. HealthInv /\ Watching(v) /\ v \in Watchers
    BY DEF WatchInv
  <2>2. allClosed' => v \notin registered
    BY <2>1 DEF Watching, PlacesAgree
  <2> QED
    BY <2>1, <2>2, OthersKeep
<1> QED
  BY <1>1 DEF WatchInv

\* Listening, before anything is read.
LEMMA ListenKeeps ==
  ASSUME WatchInv, NEW w \in Watchers, Listen(w)
  PROVE  WatchInv'
<1> USE DEF WatchTypeOK, Move
<1>1. /\ place[w] = "none" /\ place' = [place EXCEPT ![w] = "registering"]
      /\ listening' = listening \union {w}
      /\ UNCHANGED <<claimed, registered, allClosed, slot, hand, queue, ended, taken>>
      /\ UNCHANGED healthVars
  BY DEF Listen
<1>2. /\ HealthInv' /\ UNCHANGED readVars /\ readEpoch' = readEpoch /\ pc' = pc
      /\ health' = health /\ read' = read /\ follows' = follows
  BY <1>1, HealthKept DEF WatchInv
<1>3. WatchTypeOK'
  BY <1>1 DEF WatchInv
<1>4. place'[w] = "registering"
  BY <1>1 DEF WatchInv
<1>5. Watching(w)'
  BY <1>1, <1>2, <1>4 DEF WatchInv, Watching, PlacesAgree, FirstReadFirst, StatusIsAlone,
     ValuesFollow, LastIsHealth, FirstReadIsCurrent
<1> QED
  BY <1>1, <1>2, <1>3, <1>5, WatcherKeeps DEF WatchInv

\* The first read starts an epoch of its own: no read that has begun can answer it.
LEMMA RegisterKeeps ==
  ASSUME WatchInv, NEW w \in Watchers, Register(w)
  PROVE  WatchInv'
<1> USE HealthAssumption DEF WatchTypeOK, Move
<1>1. place[w] = "registering" /\ UNCHANGED <<allClosed, queue, taken>>
  BY DEF Register
<1>2. CASE allClosed
  <2>1. /\ claimed' = claimed \union {w} /\ listening' = listening \ {w}
        /\ ended' = ended \union {w} /\ registered' = registered
        /\ \A v \in Watchers : /\ place'[v] = IF v = w THEN "closed" ELSE place[v]
                               /\ slot'[v] = IF v = w THEN NoValue ELSE slot[v]
                               /\ hand'[v] = IF v = w THEN NoValue ELSE hand[v]
        /\ UNCHANGED healthVars
    BY <1>2 DEF Register, Finish
  <2>2. /\ HealthInv' /\ UNCHANGED readVars /\ readEpoch' = readEpoch /\ pc' = pc
        /\ health' = health /\ read' = read /\ follows' = follows
    BY <2>1, HealthKept DEF WatchInv
  <2>3. WatchTypeOK'
    BY <1>1, <1>2, <2>1 DEF WatchInv, Register, Finish
  <2>4. Watching(w)'
    <3>1. queue[w] = <<>> /\ w \notin registered
      BY <1>1 DEF WatchInv, Watching, FirstReadFirst, PlacesAgree
    <3>2. queue'[w] \in Seq(Nat)
      BY <1>1, <3>1
    <3> QED
      BY <2>1, <2>2, <3>1, <3>2, ClosedKeeps
  <2> QED
    BY <1>1, <2>1, <2>2, <2>3, <2>4, WatcherKeeps
<1>3. CASE ~allClosed
  <2>1. /\ registered' = registered \union {w} /\ RefreshNow(w)
        /\ place' = [place EXCEPT ![w] = "refreshing"]
        /\ UNCHANGED <<listening, claimed, slot, hand, ended>>
    BY <1>3 DEF Register
  <2>2. /\ pc[w] = "idle" /\ readEpoch' = readEpoch + 1 /\ UNCHANGED readVars
        /\ pc' = [pc EXCEPT ![w] = "deciding"]
    BY <2>1 DEF RefreshNow, Goto
  <2>3. HealthInv' /\ HealthInv
    BY <2>1, CallerStepKeeps DEF WatchInv, Callers
  <2>4. WatchTypeOK'
    BY <1>1, <2>1 DEF WatchInv
  <2>5. pc \in [Fibers -> Places] /\ w \in Fibers /\ w \in Callers
    BY <2>3 DEF HealthInv, HealthTypeOK, Fibers, Callers
  <2>6. place'[w] = "refreshing" /\ pc'[w] = "deciding"
    BY <2>1, <2>2, <2>5 DEF WatchInv
  <2>7. FirstReadIsCurrent(w)'
    <3> SUFFICES ASSUME NEW f \in Callers, pc'[f] = "completing", CanAnswer(f, w)' PROVE FALSE
      BY DEF FirstReadIsCurrent, Callers
    <3>1. PICK e \in Nat : e = read[f].epoch /\ e <= readEpoch
      BY <2>3 DEF HealthInv, HealthTypeOK, ReadsAreOrdered
    <3>2. readEpoch' # e /\ read' = read /\ follows' = follows
      BY <2>2, <2>3, <3>1 DEF HealthInv, HealthTypeOK, readVars
    <3>3. follows[w] = None
      BY <2>2, <2>3, <2>5 DEF HealthInv, FollowersWait
    <3> QED
      BY <2>6, <3>1, <3>2, <3>3 DEF CanAnswer, Callers
  <2>8. PlacesAgree(w)' /\ FirstReadFirst(w)' /\ StatusIsAlone(w)' /\ ValuesFollow(w)' /\ LastIsHealth(w)'
    <3>1. health' = health
      BY <2>2 DEF readVars
    <3> QED
      BY <1>1, <1>3, <2>1, <2>6, <3>1 DEF WatchInv, Watching, PlacesAgree, FirstReadFirst,
         StatusIsAlone, ValuesFollow, LastIsHealth
  <2>9. Watching(w)'
    BY <2>7, <2>8 DEF Watching
  <2>10. \A v \in Watchers \ {w} :
           /\ place'[v] = place[v] /\ slot'[v] = slot[v] /\ hand'[v] = hand[v]
           /\ queue'[v] = queue[v] /\ taken'[v] = taken[v] /\ pc'[v] = pc[v]
           /\ v \in listening' <=> v \in listening
           /\ v \in claimed' <=> v \in claimed
           /\ v \in registered' <=> v \in registered
           /\ v \in ended' <=> v \in ended
    BY <1>1, <2>1, <2>2, <2>5 DEF WatchInv, Fibers, Callers
  <2>11. \A f \in Callers : pc'[f] = "completing" => pc[f] = "completing"
    BY <2>2, <2>5 DEF Fibers, Callers
  <2> QED
    BY <1>1, <2>2, <2>3, <2>4, <2>9, <2>10, <2>11, WatcherKeeps
<1> QED
  BY <1>2, <1>3

\* The forwarding fiber takes the newest value: it is the cached health.
LEMMA TakeUpdateKeeps ==
  ASSUME WatchInv, NEW w \in Watchers, TakeUpdate(w)
  PROVE  WatchInv'
<1> USE WatchAssumption DEF WatchTypeOK
<1>1. /\ place[w] = "live" /\ hand[w] = NoValue /\ slot[w] # NoValue
      /\ hand' = [hand EXCEPT ![w] = slot[w]] /\ slot' = [slot EXCEPT ![w] = NoValue]
      /\ UNCHANGED <<place, listening, claimed, registered, allClosed, queue, ended, taken>>
      /\ UNCHANGED healthVars
  BY DEF TakeUpdate
<1>2. /\ HealthInv' /\ UNCHANGED readVars /\ readEpoch' = readEpoch /\ pc' = pc
      /\ health' = health /\ read' = read /\ follows' = follows
  BY <1>1, HealthKept DEF WatchInv
<1>3. WatchTypeOK'
  BY <1>1 DEF WatchInv
<1>4. hand'[w] = slot[w] /\ slot'[w] = NoValue /\ slot[w] = health /\ health \in Nat
  BY <1>1 DEF WatchInv, Watching, ValuesFollow, HealthInv, HealthTypeOK
<1>5. PlacesAgree(w)' /\ FirstReadFirst(w)' /\ StatusIsAlone(w)'
  BY <1>1, <1>2 DEF WatchInv, Watching, PlacesAgree, FirstReadFirst, StatusIsAlone
<1>6. ValuesFollow(w)'
  BY <1>1, <1>2, <1>4 DEF WatchInv, Watching, ValuesFollow
<1>7. LastIsHealth(w)' /\ FirstReadIsCurrent(w)'
  BY <1>1, <1>2, <1>4 DEF LastIsHealth, FirstReadIsCurrent, Newest
<1>8. Watching(w)'
  BY <1>5, <1>6, <1>7 DEF Watching
<1> QED
  BY <1>1, <1>2, <1>3, <1>8, WatcherKeeps DEF WatchInv

\* A value goes to the consumer, or the watcher gives up.
LEMMA OfferSnapshotKeeps ==
  ASSUME WatchInv, NEW w \in Watchers, OfferSnapshot(w)
  PROVE  WatchInv'
<1> USE WatchAssumption DEF WatchTypeOK, Move
<1>1. /\ place[w] \in {"refreshing", "live"} /\ hand[w] # NoValue /\ w \notin claimed
      /\ hand' = [hand EXCEPT ![w] = NoValue]
      /\ UNCHANGED <<allClosed, slot, ended, taken>>
      /\ UNCHANGED healthVars
  BY DEF OfferSnapshot
<1>2. /\ HealthInv' /\ UNCHANGED readVars /\ readEpoch' = readEpoch /\ pc' = pc
      /\ health' = health /\ read' = read /\ follows' = follows
  BY <1>1, HealthKept DEF WatchInv
<1>3. Watching(w)
  BY DEF WatchInv
<1>4. pc[w] = "idle" /\ hand'[w] = NoValue
  BY <1>1, <1>3 DEF WatchInv, Watching, FirstReadFirst
<1>5. CASE Len(queue[w]) < QueueSize
  <2>1. PICK h \in Nat : h = hand[w]
    BY <1>1 DEF WatchInv
  <2>2. queue[w] \in Seq(Nat) /\ taken[w] \in Nat \union {NoValue}
    BY <1>1, <1>3 DEF Watching, StatusIsAlone
  <2>3. PICK q \in Seq(Nat) : q = Append(queue[w], h)
    <3>1. Append(queue[w], h) \in Seq(Nat)
      BY <2>1, <2>2
    <3> QED
      BY <3>1, Zenon
  <2>4. /\ queue' = [queue EXCEPT ![w] = q] /\ place' = [place EXCEPT ![w] = "live"]
        /\ UNCHANGED <<listening, claimed, registered>>
    BY <1>5, <2>1, <2>3 DEF OfferSnapshot
  <2>5. queue'[w] = q /\ place'[w] = "live"
    BY <2>4 DEF WatchInv
  <2>6. WatchTypeOK'
    BY <1>1, <2>3, <2>4 DEF WatchInv
  <2>7. PlacesAgree(w)'
    BY <1>1, <1>3, <2>4, <2>5 DEF Watching, PlacesAgree
  <2>8. FirstReadFirst(w)'
    BY <1>2, <1>4, <2>5 DEF FirstReadFirst
  <2>9. StatusIsAlone(w)'
    BY <1>1, <2>2, <2>3, <2>5 DEF StatusIsAlone
  <2>10. Len(q) = Len(queue[w]) + 1 /\ q[Len(q)] = h /\ Len(queue[w]) \in Nat
         /\ \A i \in 1 .. Len(q) : \/ i = Len(q)
                                   \/ i \in 1 .. Len(queue[w]) /\ q[i] = queue[w][i]
    BY <2>2, <2>3
  <2>11. ValuesFollow(w)'
    <3>1. /\ slot'[w] # NoValue => slot'[w] = health'
          /\ h <= health' /\ (taken'[w] # NoValue => taken'[w] <= h /\ taken'[w] <= health')
      BY <1>1, <1>2, <1>3, <2>1 DEF Watching, ValuesFollow
    <3>2. ASSUME NEW i \in 1 .. Len(q)
          PROVE  /\ q[i] <= health' /\ (taken'[w] # NoValue => taken'[w] <= q[i])
                 /\ \A j \in 1 .. Len(q) : i < j => q[i] <= q[j]
      <4>1. CASE i = Len(q)
        BY <2>10, <3>1, <4>1
      <4>2. CASE i \in 1 .. Len(queue[w]) /\ q[i] = queue[w][i]
        <5>1. /\ queue[w][i] <= health /\ queue[w][i] <= h
              /\ taken[w] # NoValue => taken[w] <= queue[w][i]
              /\ \A j \in 1 .. Len(queue[w]) : i < j => queue[w][i] <= queue[w][j]
          BY <1>1, <1>3, <2>1, <4>2 DEF Watching, ValuesFollow
        <5> QED
          BY <1>1, <1>2, <2>10, <4>2, <5>1
      <4> QED
        BY <2>10, <4>1, <4>2
    <3> QED
      BY <1>4, <2>5, <3>1, <3>2 DEF ValuesFollow
  <2>12. LastIsHealth(w)'
    <3> SUFFICES ASSUME slot'[w] = NoValue PROVE Newest(w)' = health'
      BY <2>5 DEF LastIsHealth
    <3>1. h = health
      BY <1>1, <1>3, <2>1 DEF Watching, LastIsHealth, Newest
    <3>2. q # <<>>
      BY <2>10
    <3> QED
      BY <1>2, <1>4, <2>5, <2>10, <3>1, <3>2 DEF Newest
  <2>13. FirstReadIsCurrent(w)'
    BY <2>5 DEF FirstReadIsCurrent
  <2>14. Watching(w)'
    BY <2>7, <2>8, <2>9, <2>11, <2>12, <2>13 DEF Watching
  <2> QED
    BY <1>1, <1>2, <2>4, <2>6, <2>14, WatcherKeeps DEF WatchInv
<1>6. CASE ~(Len(queue[w]) < QueueSize)
  <2>1. /\ claimed' = claimed \union {w} /\ listening' = listening \ {w}
        /\ registered' = registered \ {w}
        /\ place' = [place EXCEPT ![w] = "overflowing"] /\ queue' = queue
    BY <1>6 DEF OfferSnapshot
  <2>2. place'[w] = "overflowing"
    BY <2>1 DEF WatchInv
  <2>3. WatchTypeOK'
    BY <1>1, <2>1 DEF WatchInv
  <2>4. Watching(w)'
    BY <1>1, <1>3, <2>1, <2>2 DEF Watching, PlacesAgree, FirstReadFirst, StatusIsAlone,
       ValuesFollow, LastIsHealth, FirstReadIsCurrent
  <2> QED
    BY <1>1, <1>2, <2>1, <2>3, <2>4, WatcherKeeps DEF WatchInv
<1> QED
  BY <1>5, <1>6

\* A watcher that fell behind ends with its status, one that is closed with nothing.
LEMMA FinishKeeps ==
  ASSUME WatchInv, NEW w \in Watchers, FinishOverflow(w) \/ CloseWatch(w)
  PROVE  WatchInv'
<1> USE DEF WatchTypeOK
<1>1. /\ UNCHANGED healthVars /\ UNCHANGED <<allClosed, taken>>
      /\ \A v \in Watchers : /\ place'[v] = IF v = w THEN "closed" ELSE place[v]
                             /\ slot'[v] = IF v = w THEN NoValue ELSE slot[v]
                             /\ hand'[v] = IF v = w THEN NoValue ELSE hand[v]
      /\ place' \in [Watchers -> {"none", "registering", "refreshing", "live", "overflowing", "closed"}]
      /\ slot' \in [Watchers -> Nat \union {NoValue}]
      /\ hand' \in [Watchers -> Nat \union {NoValue}]
      /\ ended' = ended \union {w}
  BY DEF FinishOverflow, CloseWatch, Finish, WatchInv
<1>2. /\ HealthInv' /\ UNCHANGED readVars /\ readEpoch' = readEpoch /\ pc' = pc
      /\ health' = health /\ read' = read /\ follows' = follows
  BY <1>1, HealthKept DEF WatchInv
<1>3. /\ claimed' = claimed \union {w} /\ listening' = listening \ {w}
      /\ registered' = registered \ {w}
  <2>1. CASE CloseWatch(w)
    BY <2>1 DEF CloseWatch
  <2>2. CASE FinishOverflow(w)
    <3>1. w \in claimed /\ w \notin listening /\ w \notin registered
      BY <2>2 DEF FinishOverflow, WatchInv, Watching, PlacesAgree
    <3> QED
      BY <2>2, <3>1 DEF FinishOverflow
  <2> QED
    BY <2>1, <2>2
<1>4. /\ queue' \in [Watchers -> Seq(Nat \union {Status})]
      /\ \A v \in Watchers \ {w} : queue'[v] = queue[v]
      /\ queue'[w] \in Seq(Nat) \/ queue'[w] = <<Status>>
  <2>1. CASE FinishOverflow(w)
    BY <2>1 DEF FinishOverflow, WatchInv
  <2>2. CASE CloseWatch(w)
    <3>1. queue[w] \in Seq(Nat)
      BY <2>2 DEF CloseWatch, WatchInv, Watching, StatusIsAlone
    <3> QED
      BY <2>2, <3>1 DEF CloseWatch, WatchInv
  <2> QED
    BY <2>1, <2>2
<1>5. WatchTypeOK'
  BY <1>1, <1>3, <1>4 DEF WatchInv
<1>6. Watching(w)'
  BY <1>1, <1>2, <1>3, <1>4, ClosedKeeps
<1> QED
  BY <1>1, <1>2, <1>3, <1>4, <1>5, <1>6, WatcherKeeps DEF WatchInv

\* The consumer takes an event.
LEMMA TakeEventKeeps ==
  ASSUME WatchInv, NEW w \in Watchers, TakeEvent(w)
  PROVE  WatchInv'
<1> USE WatchAssumption DEF WatchTypeOK
<1>1. /\ queue[w] # <<>> /\ taken' = [taken EXCEPT ![w] = Head(queue[w])]
      /\ queue' = [queue EXCEPT ![w] = Tail(queue[w])]
      /\ UNCHANGED <<place, listening, claimed, registered, allClosed, slot, hand, ended>>
      /\ UNCHANGED healthVars
  BY DEF TakeEvent
<1>2. /\ HealthInv' /\ UNCHANGED readVars /\ readEpoch' = readEpoch /\ pc' = pc
      /\ health' = health /\ read' = read /\ follows' = follows
  BY <1>1, HealthKept DEF WatchInv
<1>3. Watching(w) /\ queue[w] \in Seq(Nat \union {Status})
  BY DEF WatchInv
<1>4. PICK h \in Nat \union {Status}, q \in Seq(Nat \union {Status}) :
        h = Head(queue[w]) /\ q = Tail(queue[w])
  <2>1. /\ Head(queue[w]) \in Nat \union {Status}
        /\ Tail(queue[w]) \in Seq(Nat \union {Status})
    BY <1>1, <1>3
  <2> QED
    BY <2>1, Zenon
<1>5. taken'[w] = h /\ queue'[w] = q
  BY <1>1, <1>4 DEF WatchInv
<1>6. WatchTypeOK'
  BY <1>1, <1>4 DEF WatchInv
<1>7. PlacesAgree(w)' /\ FirstReadFirst(w)' /\ FirstReadIsCurrent(w)'
  BY <1>1, <1>2, <1>3 DEF Watching, PlacesAgree, FirstReadFirst, FirstReadIsCurrent, CanAnswer
<1>8. StatusIsAlone(w)'
  <2>1. CASE queue[w] \in Seq(Nat)
    <3>1. h \in Nat /\ q \in Seq(Nat)
      BY <1>1, <1>4, <2>1
    <3> QED
      BY <1>5, <3>1 DEF StatusIsAlone
  <2>2. CASE queue[w] = <<Status>> /\ place[w] = "closed"
    <3>1. q = <<>>
      BY <1>4, <2>2
    <3>2. q \in Seq(Nat)
      BY <3>1
    <3> QED
      BY <1>1, <1>5, <2>2, <3>2 DEF StatusIsAlone
  <2> QED
    BY <1>3, <2>1, <2>2 DEF Watching, StatusIsAlone
<1>9. ASSUME place[w] \in {"registering", "refreshing", "live"}
      PROVE  /\ queue[w] \in Seq(Nat) /\ h \in Nat /\ q \in Seq(Nat)
             /\ Len(queue[w]) \in Nat \ {0} /\ Len(q) = Len(queue[w]) - 1
             /\ h = queue[w][1] /\ \A i \in 1 .. Len(q) : q[i] = queue[w][i + 1]
  <2>1. queue[w] \in Seq(Nat)
    BY <1>3, <1>9 DEF Watching, StatusIsAlone
  <2> QED
    BY <1>1, <1>4, <2>1
<1>10. ValuesFollow(w)'
  <2> SUFFICES ASSUME place[w] \in {"registering", "refreshing", "live"} PROVE ValuesFollow(w)'
    BY <1>1 DEF ValuesFollow
  <2>1. /\ slot[w] # NoValue => slot[w] = health
        /\ hand[w] # NoValue => hand[w] <= health
        /\ \A i \in 1 .. Len(queue[w]) :
             /\ queue[w][i] <= health
             /\ hand[w] # NoValue => queue[w][i] <= hand[w]
             /\ \A j \in 1 .. Len(queue[w]) : i < j => queue[w][i] <= queue[w][j]
    BY <1>3 DEF Watching, ValuesFollow
  <2> DEFINE n == Len(queue[w])
             m == Len(q)
  <2>0. /\ n \in Nat \ {0} /\ m = n - 1
        /\ h = queue[w][1] /\ \A i \in 1 .. m : q[i] = queue[w][i + 1]
    BY <1>9
  <2> HIDE DEF n, m
  <2>2. h <= health /\ (hand[w] # NoValue => h <= hand[w])
    <3>1. 1 \in 1 .. n
      BY <2>0
    <3> QED
      BY <2>0, <2>1, <3>1 DEF n
  <2> USE DEF n
  <2>3. ASSUME NEW i \in 1 .. Len(q)
        PROVE  /\ q[i] <= health /\ (hand[w] # NoValue => q[i] <= hand[w]) /\ h <= q[i]
               /\ \A j \in 1 .. Len(q) : i < j => q[i] <= q[j]
    <3>1. i + 1 \in 1 .. Len(queue[w]) /\ 1 \in 1 .. Len(queue[w]) /\ 1 < i + 1
      <4> HIDE DEF n
      <4>1. i \in 1 .. m
        BY <2>3 DEF m
      <4>2. i + 1 \in 1 .. n /\ 1 \in 1 .. n /\ 1 < i + 1
        BY <2>0, <4>1
      <4> QED
        BY <4>2 DEF n
    <3>2. /\ q[i] <= health /\ (hand[w] # NoValue => q[i] <= hand[w]) /\ h <= q[i]
      BY <1>9, <2>1, <3>1
    <3>3. ASSUME NEW j \in 1 .. Len(q), i < j PROVE q[i] <= q[j]
      <4> HIDE DEF n
      <4>1. j + 1 \in 1 .. n /\ i \in 1 .. m /\ j \in 1 .. m
        BY <2>0 DEF m
      <4>2. i + 1 < j + 1
        BY <2>0, <3>3, <4>1
      <4> USE DEF n
      <4> QED
        BY <1>9, <2>1, <3>1, <4>1, <4>2
    <3> QED
      BY <3>2, <3>3
  <2> QED
    BY <1>1, <1>2, <1>5, <2>1, <2>2, <2>3 DEF ValuesFollow
<1>11. LastIsHealth(w)'
  <2>1. place[w] # "refreshing"
    BY <1>1, <1>3 DEF Watching, FirstReadFirst
  <2> SUFFICES ASSUME slot[w] = NoValue, place[w] = "live" PROVE Newest(w)' = health
    BY <1>1, <1>2, <2>1 DEF LastIsHealth
  <2>2. Newest(w) = health
    BY <1>3 DEF Watching, LastIsHealth
  <2>3. CASE hand[w] # NoValue
    BY <1>1, <2>2, <2>3 DEF Newest
  <2>4. CASE hand[w] = NoValue
    <3>1. queue[w][Len(queue[w])] = health
      BY <1>1, <2>2, <2>4 DEF Newest
    <3>2. CASE q = <<>>
      <4>1. Len(queue[w]) = 1
        BY <1>9, <3>2
      <4>2. h = health
        BY <1>9, <3>1, <4>1
      <4> QED
        BY <1>1, <1>5, <2>4, <3>2, <4>2 DEF Newest
    <3>3. CASE q # <<>>
      <4>1. Len(q) \in 1 .. Len(q) /\ Len(q) + 1 = Len(queue[w])
        BY <1>9, <3>3
      <4>2. q[Len(q)] = health
        BY <1>9, <3>1, <4>1
      <4> QED
        BY <1>1, <1>5, <2>4, <3>3, <4>2 DEF Newest
    <3> QED
      BY <3>2, <3>3
  <2> QED
    BY <2>3, <2>4
<1>12. Watching(w)'
  BY <1>7, <1>8, <1>10, <1>11 DEF Watching
<1> QED
  BY <1>1, <1>2, <1>6, <1>12, WatcherKeeps DEF WatchInv

\* The client closes all that are registered.
LEMMA CloseWatchesKeeps ==
  ASSUME WatchInv, CloseWatches
  PROVE  WatchInv'
<1> USE DEF WatchTypeOK
<1>1. /\ allClosed' = TRUE /\ claimed' = claimed \union registered
      /\ listening' = listening \ registered /\ registered' = {}
      /\ ended' = ended \union registered
      /\ \A v \in Watchers : /\ place'[v] = IF v \in registered THEN "closed" ELSE place[v]
                             /\ slot'[v] = IF v \in registered THEN NoValue ELSE slot[v]
                             /\ hand'[v] = IF v \in registered THEN NoValue ELSE hand[v]
      /\ UNCHANGED healthVars /\ UNCHANGED <<queue, taken>>
  BY DEF CloseWatches, Finish
<1>2. /\ HealthInv' /\ UNCHANGED readVars /\ readEpoch' = readEpoch /\ pc' = pc
      /\ health' = health /\ read' = read /\ follows' = follows
  BY <1>1, HealthKept DEF WatchInv
<1>3. WatchTypeOK'
  BY <1>1 DEF WatchInv, CloseWatches, Finish
<1>4. ASSUME NEW w \in Watchers PROVE Watching(w)'
  <2>1. Watching(w)
    BY DEF WatchInv
  <2>2. CASE w \in registered
    <3>1. queue[w] \in Seq(Nat)
      BY <2>1, <2>2 DEF Watching, PlacesAgree, StatusIsAlone
    <3>2. queue'[w] \in Seq(Nat)
      BY <1>1, <3>1
    <3> QED
      BY <1>1, <1>2, <2>2, <3>2, ClosedKeeps
  <2>3. CASE w \notin registered
    <3>1. /\ place'[w] = place[w] /\ slot'[w] = slot[w] /\ hand'[w] = hand[w]
          /\ queue'[w] = queue[w] /\ taken'[w] = taken[w] /\ pc'[w] = pc[w]
          /\ w \in listening' <=> w \in listening
          /\ w \in claimed' <=> w \in claimed
          /\ w \in registered' <=> w \in registered
          /\ w \in ended' <=> w \in ended
      BY <1>1, <1>2, <2>3
    <3> QED
      BY <1>2, <2>1, <2>3, <3>1, OthersKeep DEF WatchInv
  <2> QED
    BY <2>2, <2>3
<1> QED
  BY <1>2, <1>3, <1>4 DEF WatchInv

\* The invariant of the cached health with any number of subscriptions.
THEOREM WatchInductive == WatchSpec => []WatchInv
<1>1. HealthInit /\ WatchInit => WatchInv
  <2> SUFFICES ASSUME HealthInit, WatchInit PROVE WatchInv
    OBVIOUS
  <2>1. HealthInv
    BY HealthAssumption DEF HealthInit, HealthInv, HealthTypeOK, ReadsAreOrdered, FollowersWait,
       Fibers, Places, NoRead
  <2>2. WatchTypeOK
    <3>1. PICK empty \in Seq(Nat \union {Status}) : empty = <<>>
      <4>1. <<>> \in Seq(Nat \union {Status})
        OBVIOUS
      <4> QED
        BY <4>1, Zenon
    <3>2. queue = [w \in Watchers |-> empty]
      BY <3>1 DEF WatchInit
    <3> QED
      BY <3>2 DEF WatchInit, WatchTypeOK
  <2>3. ASSUME NEW w \in Watchers PROVE Watching(w)
    BY WatchAssumption DEF HealthInit, WatchInit, Watching, PlacesAgree, FirstReadFirst,
       StatusIsAlone, ValuesFollow, LastIsHealth, FirstReadIsCurrent, Fibers, Callers
  <2> QED
    BY <2>1, <2>2, <2>3 DEF WatchInv
<1>2. WatchInv /\ [WatchNext]_<<healthVars, watchVars>> => WatchInv'
  <2> SUFFICES ASSUME WatchInv, [WatchNext]_<<healthVars, watchVars>> PROVE WatchInv'
    OBVIOUS
  <2>1. CASE HealthNext /\ Watched
    <3>1. HealthInv'
      BY <2>1, HealthStepKeeps DEF WatchInv
    <3>2. WatchTypeOK'
      <4>1. health' \in Nat
        BY <3>1 DEF HealthInv, HealthTypeOK
      <4>2. ASSUME NEW w \in Watchers, FirstReadReturns(w)
            PROVE  read[Leader(w)].value \in Nat
        <5>1. Leader(w) \in Callers
          BY <2>1, <4>2, ReadReturns DEF WatchInv, FirstReadReturns
        <5> QED
          BY <5>1 DEF WatchInv, HealthInv, HealthTypeOK
      <4> QED
        BY <2>1, <4>1, <4>2 DEF Watched, WatchInv, WatchTypeOK
    <3>3. \A w \in Watchers : Watching(w)'
      BY <2>1, <3>1, WatchedKeeps
    <3> QED
      BY <3>1, <3>2, <3>3 DEF WatchInv
  <2>2. CASE \E w \in Watchers : WatcherStep(w) \/ CloseWatch(w) \/ TakeEvent(w)
    BY <2>2, ListenKeeps, RegisterKeeps, TakeUpdateKeeps, OfferSnapshotKeeps, FinishKeeps,
       TakeEventKeeps DEF WatcherStep
  <2>3. CASE CloseWatches
    BY <2>3, CloseWatchesKeeps
  <2>4. CASE UNCHANGED <<healthVars, watchVars>>
    <3>1. /\ HealthInv' /\ UNCHANGED readVars /\ readEpoch' = readEpoch /\ pc' = pc
      BY <2>4, HealthKept DEF WatchInv
    <3>2. UNCHANGED <<place, listening, claimed, registered, allClosed, slot, hand, queue, ended, taken>>
      BY <2>4 DEF watchVars
    <3>3. WatchTypeOK'
      BY <3>2 DEF WatchInv, WatchTypeOK
    <3>4. ASSUME NEW w \in Watchers PROVE Watching(w)'
      <4>1. allClosed' => w \notin registered
        BY <3>2 DEF WatchInv, Watching, PlacesAgree
      <4> QED
        BY <3>1, <3>2, <4>1, OthersKeep DEF WatchInv
    <3> QED
      BY <3>1, <3>3, <3>4 DEF WatchInv
  <2> QED
    BY <2>1, <2>2, <2>3, <2>4 DEF WatchNext
<1> QED
  BY <1>1, <1>2, PTL DEF WatchSpec
-------------------------------------------------------------------------------
\* Values in order, and those of one list after those of another.
Ascending(s) == \A i, j \in 1 .. Len(s) : i < j => s[i] <= s[j]
UpTo(s, t) == \A i \in 1 .. Len(s) : \A j \in 1 .. Len(t) : s[i] <= t[j]

\* Lists in order that follow each other are in order.
LEMMA AscendingConcat ==
  ASSUME NEW s \in Seq(Nat), NEW t \in Seq(Nat), Ascending(s), Ascending(t), UpTo(s, t)
  PROVE  /\ s \o t \in Seq(Nat) /\ Ascending(s \o t)
         /\ \A u \in Seq(Nat) : UpTo(s, u) /\ UpTo(t, u) => UpTo(s \o t, u)
<1>1. PICK m \in Nat, n \in Nat : m = Len(s) /\ n = Len(t)
  OBVIOUS
<1>2. PICK r \in Seq(Nat) : r = s \o t
  <2>1. s \o t \in Seq(Nat)
    OBVIOUS
  <2> QED
    BY <2>1, Zenon
<1>3. Len(r) = m + n
  BY <1>1, <1>2
<1>4. \A i \in 1 .. m : r[i] = s[i]
  BY <1>1, <1>2
<1>5. \A i \in (m + 1) .. (m + n) : i - m \in 1 .. n /\ r[i] = t[i - m]
  BY <1>1, <1>2
<1>6. \A i \in 1 .. (m + n) : i \in 1 .. m \/ i \in (m + 1) .. (m + n)
  BY <1>1
<1>7. ASSUME NEW i \in 1 .. (m + n), NEW j \in 1 .. (m + n), i < j PROVE r[i] <= r[j]
  <2>1. CASE j \in 1 .. m
    <3>1. i \in 1 .. m
      BY <1>7, <2>1
    <3> QED
      BY <1>1, <1>4, <1>7, <2>1, <3>1 DEF Ascending
  <2>2. CASE i \in 1 .. m /\ j \in (m + 1) .. (m + n)
    BY <1>1, <1>4, <1>5, <2>2 DEF UpTo
  <2>3. CASE i \in (m + 1) .. (m + n)
    <3>1. j \in (m + 1) .. (m + n)
      BY <1>7, <2>3
    <3>2. i - m < j - m
      BY <1>7
    <3> QED
      BY <1>1, <1>5, <2>3, <3>1, <3>2 DEF Ascending
  <2> QED
    BY <1>6, <2>1, <2>2, <2>3
<1>8. ASSUME NEW u \in Seq(Nat), UpTo(s, u), UpTo(t, u) PROVE UpTo(r, u)
  <2> SUFFICES ASSUME NEW i \in 1 .. (m + n), NEW j \in 1 .. Len(u) PROVE r[i] <= u[j]
    BY <1>3 DEF UpTo
  <2>1. CASE i \in 1 .. m
    BY <1>1, <1>4, <1>8, <2>1 DEF UpTo
  <2>2. CASE i \in (m + 1) .. (m + n)
    BY <1>1, <1>5, <1>8, <2>2 DEF UpTo
  <2> QED
    BY <1>6, <2>1, <2>2
<1>9. Ascending(r)
  BY <1>3, <1>7 DEF Ascending
<1> QED
  BY <1>2, <1>8, <1>9

\* Every subscription has the newest health on its way, never something older after
\* something newer, the status of its end as its last, and is known until its end.
THEOREM WatchersStayCurrent == WatchSpec => []WatchersAreCurrent
<1>1. WatchInv => WatchersAreCurrent
  <2> SUFFICES ASSUME WatchInv, NEW w \in Watchers
               PROVE  /\ place[w] = "live" /\ w \notin claimed => Newest(w) = health
                      /\ place[w] \in {"refreshing", "live"} /\ w \notin claimed =>
                           \A i, j \in DOMAIN Events(w) : i < j => Events(w)[i] <= Events(w)[j]
                      /\ \A i \in DOMAIN queue[w] :
                           queue[w][i] = Status => i = Len(queue[w]) /\ w \in ended /\ w \in claimed
                      /\ w \in claimed => w \notin registered \union listening
                      /\ allClosed => w \notin registered
                      /\ place[w] = "closed" <=> w \in ended
    BY DEF WatchersAreCurrent, WatcherHasNewest, WatcherInOrder, OverflowIsTold, ClaimedIsReleased
  <2>1. Watching(w) /\ WatchTypeOK /\ health \in Nat
    BY DEF WatchInv, HealthInv, HealthTypeOK
  <2>2. place[w] = "live" => Newest(w) = health
    BY <2>1 DEF Watching, ValuesFollow, LastIsHealth, Newest
  <2>3. ASSUME place[w] \in {"refreshing", "live"}
        PROVE  \A i, j \in DOMAIN Events(w) : i < j => Events(w)[i] <= Events(w)[j]
    <3> DEFINE a == IF taken[w] = NoValue THEN <<>> ELSE <<taken[w]>>
               b == IF hand[w] = NoValue THEN <<>> ELSE <<hand[w]>>
               c == IF slot[w] = NoValue THEN <<>> ELSE <<slot[w]>>
    <3>1. /\ queue[w] \in Seq(Nat) /\ taken[w] \in Nat \union {NoValue}
          /\ hand[w] \in Nat \union {NoValue} /\ slot[w] \in Nat \union {NoValue}
      BY <2>1, <2>3 DEF Watching, StatusIsAlone, WatchTypeOK
    <3>2. /\ a \in Seq(Nat) /\ Len(a) \in {0, 1}
          /\ \A i \in 1 .. Len(a) : i = 1 /\ taken[w] # NoValue /\ a[i] = taken[w]
      BY <3>1
    <3>3. /\ b \in Seq(Nat) /\ Len(b) \in {0, 1}
          /\ \A i \in 1 .. Len(b) : i = 1 /\ hand[w] # NoValue /\ b[i] = hand[w]
      BY <3>1
    <3>4. /\ c \in Seq(Nat) /\ Len(c) \in {0, 1}
          /\ \A i \in 1 .. Len(c) : i = 1 /\ slot[w] # NoValue /\ c[i] = health
      BY <2>1, <2>3, <3>1 DEF Watching, ValuesFollow
    <3>5. Events(w) = a \o queue[w] \o b \o c
      BY DEF Events
    <3> HIDE DEF a, b, c
    <3>6. /\ hand[w] # NoValue => hand[w] <= health
          /\ taken[w] # NoValue => taken[w] <= health
          /\ taken[w] # NoValue /\ hand[w] # NoValue => taken[w] <= hand[w]
          /\ \A i \in 1 .. Len(queue[w]) :
               /\ queue[w][i] <= health
               /\ hand[w] # NoValue => queue[w][i] <= hand[w]
               /\ taken[w] # NoValue => taken[w] <= queue[w][i]
               /\ \A j \in 1 .. Len(queue[w]) : i < j => queue[w][i] <= queue[w][j]
      BY <2>1, <2>3 DEF Watching, ValuesFollow
    <3>7. Ascending(a) /\ Ascending(b) /\ Ascending(c) /\ Ascending(queue[w])
      BY <3>2, <3>3, <3>4, <3>6 DEF Ascending
    <3>8. /\ UpTo(a, queue[w]) /\ UpTo(a, b) /\ UpTo(a, c)
          /\ UpTo(queue[w], b) /\ UpTo(queue[w], c) /\ UpTo(b, c)
      BY <3>2, <3>3, <3>4, <3>6 DEF UpTo
    <3>9. PICK s \in Seq(Nat) : s = a \o queue[w] /\ Ascending(s) /\ UpTo(s, b) /\ UpTo(s, c)
      BY <3>1, <3>2, <3>3, <3>4, <3>7, <3>8, AscendingConcat
    <3>10. PICK t \in Seq(Nat) : t = s \o b /\ Ascending(t) /\ UpTo(t, c)
      BY <3>3, <3>4, <3>7, <3>8, <3>9, AscendingConcat
    <3>11. PICK u \in Seq(Nat) : u = t \o c /\ Ascending(u)
      BY <3>4, <3>7, <3>10, AscendingConcat
    <3>12. Events(w) = u /\ DOMAIN u = 1 .. Len(u)
      BY <3>5, <3>9, <3>10, <3>11
    <3> QED
      BY <3>11, <3>12 DEF Ascending
  <2>4. \A i \in DOMAIN queue[w] :
          queue[w][i] = Status => i = Len(queue[w]) /\ w \in ended /\ w \in claimed
    <3>1. CASE queue[w] \in Seq(Nat)
      BY <3>1, WatchAssumption
    <3>2. CASE place[w] = "closed" /\ queue[w] = <<Status>>
      BY <2>1, <3>2 DEF Watching, PlacesAgree
    <3> QED
      BY <2>1, <3>1, <3>2 DEF Watching, StatusIsAlone
  <2>5. /\ w \in claimed => w \notin registered \union listening
        /\ allClosed => w \notin registered
        /\ place[w] = "closed" <=> w \in ended
    BY <2>1 DEF Watching, PlacesAgree
  <2> QED
    BY <2>2, <2>3, <2>4, <2>5
<1> QED
  BY <1>1, WatchInductive, PTL
-------------------------------------------------------------------------------
(* The Kafka ingress. *)

Messages == [partition : Partitions, offset : Nat \ {0}]
StreamEvents == [tag : {"message"}, message : Messages] \union [tag : Terminals]

KafkaTypeOK ==
  /\ phase \in Live \union {"ended", "failed", "stopped"}
  /\ startFrom \in {"committed", "earliest"}
  /\ start \in [Partitions -> Nat]
  /\ fetched \in [Partitions -> Nat]
  /\ source \in {"open"} \union Terminals
  /\ events \in Seq(StreamEvents)
  /\ batch \in Seq(Messages)
  /\ terminal \in {"none"} \union Terminals
  /\ unpublished \in SUBSET (1..Len(batch))
  /\ uncommitted \in SUBSET (1..Len(batch))
  /\ cause \in {"none", "stream", "decode", "publish", "commit"}
  /\ published \in [Partitions -> SUBSET Nat]
  /\ acked \in [Partitions -> SUBSET Nat]
  /\ committed \in [Partitions -> Nat]
  /\ restarts \in Nat

Queued(i, p) == events[i].tag = "message" /\ events[i].message.partition = p
InQueue(p, o) == \E i \in 1..Len(events) : Queued(i, p) /\ events[i].message.offset = o
InBatch(p, o) == \E i \in 1..Len(batch) : batch[i].partition = p /\ batch[i].offset = o
IsPublished(i) == batch[i].offset \in published[batch[i].partition]
IsAcked(i) == batch[i].offset \in acked[batch[i].partition]

\* Offsets stay within the log, and what was read is at or after the start.
Bounds ==
  \A p \in Partitions :
    /\ start[p] <= fetched[p]
    /\ fetched[p] <= Len(Log[p])
    /\ committed[p] <= Len(Log[p])

\* The messages of a partition lie in the batch and behind it in the queue in
\* the order of their offsets.
BatchInOrder ==
  \A i, j \in 1..Len(batch) :
    i < j /\ batch[i].partition = batch[j].partition => batch[i].offset < batch[j].offset

QueueInOrder ==
  \A p \in Partitions : \A i, j \in 1..Len(events) :
    i < j /\ Queued(i, p) /\ Queued(j, p) =>
      events[i].message.offset < events[j].message.offset

BatchFirst ==
  \A i \in 1..Len(batch), j \in 1..Len(events) :
    Queued(j, batch[i].partition) => batch[i].offset < events[j].message.offset

InStreamOrder == BatchInOrder /\ QueueInOrder /\ BatchFirst

\* A message between the fibers was read since the process started.
Read ==
  /\ \A i \in 1..Len(batch) :
       batch[i].offset \in (start[batch[i].partition] + 1)..fetched[batch[i].partition]
  /\ \A p \in Partitions : \A i \in 1..Len(events) :
       Queued(i, p) => events[i].message.offset \in (start[p] + 1)..fetched[p]

\* No message that was read is lost on the way.
NoneLost ==
  \A p \in Partitions : \A o \in (start[p] + 1)..fetched[p] :
    o \in acked[p] \/ InBatch(p, o) \/ InQueue(p, o)

\* Rows are published before their offsets are committed, and only rows that
\* can be decoded.
PublishedFirst ==
  \A p \in Partitions :
    /\ acked[p] \subseteq published[p]
    /\ \A o \in published[p] : o \in (start[p] + 1)..Len(Log[p]) /\ Log[p][o] = "ok"

\* What each stage of a batch has done and has left.
Stages ==
  /\ phase = "taking" => terminal = "none"
  /\ phase \in {"taking", "decoding"} => cause = "none"
  /\ phase \in {"publishing", "committing"} =>
       cause = IF Broken THEN "decode" ELSE "none"
  /\ phase = "publishing" =>
       /\ unpublished \subseteq Decodable
       /\ uncommitted = Decodable
       /\ \A i \in Decodable \ unpublished : IsPublished(i)
  /\ phase = "committing" =>
       /\ unpublished = {}
       /\ uncommitted \subseteq Decodable
       /\ \A i \in Decodable : IsPublished(i)
       /\ \A i \in Decodable \ uncommitted : IsAcked(i)
  /\ phase = "failed" /\ cause \in {"decode", "stream"} =>
       \A i \in Decodable : IsAcked(i)
  /\ phase = "failed" /\ cause = "stream" => ~Broken /\ events = <<>>

\* A terminal event is the last one the consumer's stream delivers.
TerminalIsLast ==
  /\ terminal # "none" => source # "open" /\ events = <<>>
  /\ \A i \in 1..Len(events) :
       events[i].tag \in Terminals => source # "open" /\ i = Len(events)

KafkaInv ==
  /\ KafkaTypeOK
  /\ Bounds
  /\ InStreamOrder
  /\ Read
  /\ NoneLost
  /\ PublishedFirst
  /\ Stages
  /\ TerminalIsLast
-------------------------------------------------------------------------------
\* Every nonempty set of natural numbers has a least element.
LEMMA LeastNatural ==
  ASSUME NEW T, T \subseteq Nat, T # {}
  PROVE  \E n \in T : \A m \in T : n <= m
<1> DEFINE R == OpToRel(<, Nat)
<1>1. IsWellFoundedOn(R, Nat)
  BY NatLessThanWellFounded
<1>2. \A m, n \in Nat : m < n => <<m, n>> \in R
  BY DEF OpToRel
<1> HIDE DEF R
<1>3. PICK n \in T : \A m \in T : ~ (<<m, n>> \in R)
  BY <1>1, WFMin, Zenon
<1>4. ASSUME NEW m \in T PROVE n <= m
  <2>1. m \in Nat /\ n \in Nat
    OBVIOUS
  <2>2. ~ (m < n)
    BY <1>2, <1>3, <2>1
  <2> QED
    BY <2>1, <2>2
<1> QED
  BY <1>4

\* The first of some positions is one of them.
LEMMA FirstIn ==
  ASSUME NEW positions, positions \subseteq Nat, positions # {}
  PROVE  First(positions) \in positions
BY LeastNatural DEF First

\* What the batch and the queue hold.
LEMMA BatchHolds ==
  ASSUME batch \in Seq(Messages), NEW i \in 1..Len(batch)
  PROVE  /\ batch[i] \in Messages
         /\ batch[i].partition \in Partitions
         /\ batch[i].offset \in Nat \ {0}
         /\ TopicOfMessage(batch[i]) = TopicOf[batch[i].partition]
<1>1. batch[i] \in Messages
  OBVIOUS
<1> QED
  BY <1>1 DEF Messages, TopicOfMessage

\* An event on the queue is a message of the log or a terminal.
LEMMA QueueHolds ==
  ASSUME events \in Seq(StreamEvents), NEW i \in 1..Len(events)
  PROVE  /\ events[i] \in StreamEvents
         /\ \/ /\ events[i].tag = "message"
               /\ events[i].message \in Messages
               /\ events[i].message.partition \in Partitions
               /\ events[i].message.offset \in Nat \ {0}
            \/ events[i].tag \in Terminals
<1>1. events[i] \in StreamEvents
  OBVIOUS
<1> QED
  BY <1>1 DEF StreamEvents, Messages, Terminals

\* The variables keep their types.
LEMMA KafkaTypes ==
  ASSUME KafkaTypeOK, Stages, [Next]_vars
  PROVE  KafkaTypeOK'
<1> USE DEF KafkaTypeOK
<1>1. ASSUME NEW p \in Partitions, Fetch(p) PROVE KafkaTypeOK'
  <2>1. [partition |-> p, offset |-> fetched[p] + 1] \in Messages
    BY DEF Messages
  <2>2. MessageEvent([partition |-> p, offset |-> fetched[p] + 1]) \in StreamEvents
    BY <2>1 DEF StreamEvents, MessageEvent
  <2>3. events' \in Seq(StreamEvents)
    BY <1>1, <2>2 DEF Fetch
  <2> QED
    BY <1>1, <2>3 DEF Fetch, streamVars, batchVars
<1>2. ASSUME NEW how \in Terminals, EndSource(how) PROVE KafkaTypeOK'
  <2>1. TerminalEvent(how) \in StreamEvents
    BY DEF StreamEvents, TerminalEvent
  <2>2. events' \in Seq(StreamEvents)
    BY <1>2, <2>1 DEF EndSource
  <2> QED
    BY <1>2, <2>2 DEF EndSource, streamVars, batchVars, Terminals
<1>3. ASSUME TakeMessage PROVE KafkaTypeOK'
  <2>1. Head(events) \in StreamEvents
    BY <1>3 DEF TakeMessage
  <2>2. Head(events).message \in Messages
    BY <1>3, <2>1 DEF TakeMessage, StreamEvents, Terminals
  <2>3. events' \in Seq(StreamEvents) /\ batch' \in Seq(Messages)
    BY <1>3, <2>2 DEF TakeMessage
  <2>4. Len(batch') = Len(batch) + 1
    BY <1>3 DEF TakeMessage
  <2>5. unpublished' \in SUBSET (1..Len(batch')) /\ uncommitted' \in SUBSET (1..Len(batch'))
    BY <1>3, <2>4 DEF TakeMessage
  <2> QED
    BY <1>3, <2>3, <2>5 DEF TakeMessage, streamVars, batchVars, Live
<1>4. ASSUME TakeTerminal PROVE KafkaTypeOK'
  <2>1. events' \in Seq(StreamEvents)
    BY <1>4 DEF TakeTerminal
  <2> QED
    BY <1>4, <2>1 DEF TakeTerminal, streamVars, batchVars, Terminals, Live
<1>5. ASSUME FlushDeadline PROVE KafkaTypeOK'
  BY <1>5 DEF FlushDeadline, streamVars, batchVars, Live
<1>6. ASSUME Decode PROVE KafkaTypeOK'
  BY <1>6 DEF Decode, Decodable, streamVars, batchVars, Live
<1>7. ASSUME PublishTopic PROVE KafkaTypeOK'
  <2>1. ASSUME NEW S \in SUBSET (1..Len(batch)), NEW p \in Partitions
        PROVE  OffsetsAt(S, p) \subseteq Nat
    <3>1. \A i \in S : batch[i].offset \in Nat
      BY BatchHolds
    <3> QED
      BY <3>1 DEF OffsetsAt
  <2>2. unpublished' \in SUBSET (1..Len(batch))
    BY <1>7 DEF PublishTopic
  <2>3. published' \in [Partitions -> SUBSET Nat]
    BY <1>7, <2>1 DEF PublishTopic
  <2> QED
    BY <1>7, <2>2, <2>3 DEF PublishTopic, streamVars
<1>8. ASSUME FailPublish PROVE KafkaTypeOK'
  BY <1>8 DEF FailPublish, streamVars, batchVars
<1>9. ASSUME AllPublished PROVE KafkaTypeOK'
  BY <1>9 DEF AllPublished, streamVars, batchVars, Live
<1>10. ASSUME CommitNext PROVE KafkaTypeOK'
  <2>1. First(uncommitted) \in uncommitted
    <3>1. uncommitted \subseteq Nat
      OBVIOUS
    <3> QED
      BY <1>10, <3>1, FirstIn DEF CommitNext
  <2>2. First(uncommitted) \in 1..Len(batch) 
    BY <2>1
  <2>3. /\ batch[First(uncommitted)].partition \in Partitions
        /\ batch[First(uncommitted)].offset \in Nat
    BY <2>2, BatchHolds
  <2> QED
    BY <1>10, <2>3 DEF CommitNext, streamVars
<1>11. ASSUME FailCommit PROVE KafkaTypeOK'
  BY <1>11 DEF FailCommit, streamVars, batchVars
<1>12. ASSUME EndBatch PROVE KafkaTypeOK'
  <2>1. batch' \in Seq(Messages)
    BY <1>12 DEF EndBatch
  <2>2. unpublished' \in SUBSET (1..Len(batch')) /\ uncommitted' \in SUBSET (1..Len(batch'))
    BY <1>12 DEF EndBatch, Stages
  <2> QED
    BY <1>12, <2>1, <2>2 DEF EndBatch, streamVars, Live
<1>13. ASSUME Stop PROVE KafkaTypeOK'
  BY <1>13 DEF Stop, streamVars, batchVars
<1>14. ASSUME Restart PROVE KafkaTypeOK'
  BY <1>14 DEF Restart, Nothing, Beginning, Live
<1>15. ASSUME UNCHANGED vars PROVE KafkaTypeOK'
  BY <1>15 DEF vars, streamVars, batchVars
<1> QED
  BY <1>1, <1>2, <1>3, <1>4, <1>5, <1>6, <1>7, <1>8, <1>9, <1>10, <1>11, <1>12, <1>13, <1>14, <1>15 DEF Next, IngressStep

\* How the queue and the batch change when a message moves between them.
LEMMA Taken ==
  ASSUME KafkaTypeOK, TakeMessage
  PROVE  /\ Len(events) > 0
         /\ Len(events') = Len(events) - 1
         /\ \A i \in 1..Len(events') : i + 1 \in 1..Len(events) /\ events'[i] = events[i + 1]
         /\ 1 \in 1..Len(events) /\ Head(events) = events[1] /\ events[1].tag = "message"
         /\ Len(batch') = Len(batch) + 1
         /\ \A i \in 1..Len(batch') :
              batch'[i] = IF i = Len(batch) + 1 THEN events[1].message ELSE batch[i]
<1>1. events \in Seq(StreamEvents) /\ batch \in Seq(Messages)
  BY DEF KafkaTypeOK
<1> QED
  BY <1>1 DEF TakeMessage

\* A fetched message goes to the end of the queue.
LEMMA Received ==
  ASSUME KafkaTypeOK, NEW p \in Partitions, Fetch(p)
  PROVE  /\ Len(events') = Len(events) + 1
         /\ \A i \in 1..Len(events') :
              IF i = Len(events) + 1
              THEN events'[i].tag = "message"
                   /\ events'[i].message = [partition |-> p, offset |-> fetched[p] + 1]
              ELSE i \in 1..Len(events) /\ events'[i] = events[i]
         /\ fetched' = [fetched EXCEPT ![p] = fetched[p] + 1]
<1>1. events \in Seq(StreamEvents)
  BY DEF KafkaTypeOK
<1> QED
  BY <1>1 DEF Fetch, MessageEvent

\* A terminal goes to the end of the queue.
LEMMA Told ==
  ASSUME KafkaTypeOK, NEW how \in Terminals, EndSource(how)
  PROVE  /\ Len(events') = Len(events) + 1
         /\ \A i \in 1..Len(events') :
              IF i = Len(events) + 1 THEN events'[i].tag = how
              ELSE i \in 1..Len(events) /\ events'[i] = events[i]
<1>1. events \in Seq(StreamEvents)
  BY DEF KafkaTypeOK
<1> QED
  BY <1>1 DEF EndSource, TerminalEvent

\* A terminal event is taken when it is all the queue holds.
LEMMA TakenLast ==
  ASSUME KafkaTypeOK, TerminalIsLast, TakeTerminal
  PROVE  /\ events' = <<>> /\ source # "open"
         /\ Len(events) = 1 /\ events[1].tag \in Terminals
         /\ terminal' = events[1].tag
<1>1. events \in Seq(StreamEvents)
  BY DEF KafkaTypeOK
<1>2. 1 \in 1..Len(events) /\ Head(events) = events[1]
  BY <1>1 DEF TakeTerminal
<1>3. Len(events) = 1
  BY <1>2 DEF TakeTerminal, TerminalIsLast
<1> QED
  BY <1>1, <1>2, <1>3 DEF TakeTerminal, TerminalIsLast

\* Offsets stay within the log.
LEMMA KafkaBounds ==
  ASSUME KafkaTypeOK, Bounds, Read, [Next]_vars
  PROVE  Bounds'
<1> USE KafkaAssumption DEF Bounds
<1>1. ASSUME NEW p \in Partitions, Fetch(p) PROVE Bounds'
  <2>1. fetched' = [fetched EXCEPT ![p] = fetched[p] + 1] /\ fetched[p] < Len(Log[p])
    BY <1>1, Received DEF Fetch
  <2>2. \A q \in Partitions : Len(Log[q]) \in Nat /\ fetched[q] \in Nat /\ start[q] \in Nat
    BY DEF KafkaTypeOK
  <2>3. start' = start /\ committed' = committed /\ fetched \in [Partitions -> Nat]
    BY <1>1 DEF Fetch, KafkaTypeOK
  <2> QED
    BY <2>1, <2>2, <2>3
<1>2. ASSUME NEW how \in Terminals, EndSource(how) PROVE Bounds'
  BY <1>2 DEF EndSource, Producing, streamVars, batchVars
<1>3. ASSUME TakeMessage PROVE Bounds'
  BY <1>3 DEF TakeMessage, streamVars, batchVars
<1>4. ASSUME TakeTerminal PROVE Bounds'
  BY <1>4 DEF TakeTerminal, streamVars, batchVars
<1>5. ASSUME FlushDeadline PROVE Bounds'
  BY <1>5 DEF FlushDeadline, streamVars, batchVars
<1>6. ASSUME Decode PROVE Bounds'
  BY <1>6 DEF Decode, streamVars, batchVars
<1>7. ASSUME PublishTopic PROVE Bounds'
  BY <1>7 DEF PublishTopic, streamVars, batchVars
<1>8. ASSUME FailPublish PROVE Bounds'
  BY <1>8 DEF FailPublish, streamVars, batchVars
<1>9. ASSUME AllPublished PROVE Bounds'
  BY <1>9 DEF AllPublished, streamVars, batchVars
<1>10. ASSUME CommitNext PROVE Bounds'
  <2> DEFINE next == First(uncommitted)
  <2>1. next \in 1..Len(batch)
    <3>1. uncommitted \subseteq Nat /\ uncommitted \subseteq 1..Len(batch)
      BY DEF KafkaTypeOK
    <3> QED
      BY <1>10, <3>1, FirstIn DEF CommitNext
  <2>2. batch \in Seq(Messages)
    BY DEF KafkaTypeOK
  <2>3. /\ batch[next].partition \in Partitions
        /\ batch[next].offset <= fetched[batch[next].partition]
    BY <2>1, <2>2, BatchHolds DEF Read
  <2>4. batch[next].offset \in Nat /\ \A p \in Partitions : Len(Log[p]) \in Nat
    BY <2>1, <2>2, BatchHolds
  <2>5. committed' = [committed EXCEPT ![batch[next].partition] = batch[next].offset]
    BY <1>10 DEF CommitNext
  <2>6. start' = start /\ fetched' = fetched
    BY <1>10 DEF CommitNext, streamVars
  <2> HIDE DEF next
  <2> QED
    BY <2>3, <2>4, <2>5, <2>6 DEF KafkaTypeOK
<1>11. ASSUME FailCommit PROVE Bounds'
  BY <1>11 DEF FailCommit, streamVars, batchVars
<1>12. ASSUME EndBatch PROVE Bounds'
  BY <1>12 DEF EndBatch, streamVars, batchVars
<1>13. ASSUME Stop PROVE Bounds'
  BY <1>13 DEF Stop, streamVars, batchVars
<1>14. ASSUME Restart PROVE Bounds'
  <2>1. \A p \in Partitions : Len(Log[p]) \in Nat
    OBVIOUS
  <2> QED
    BY <1>14, <2>1 DEF Restart, Beginning, KafkaTypeOK
<1>15. ASSUME UNCHANGED vars PROVE Bounds'
  BY <1>15 DEF vars, streamVars, batchVars
<1> QED
  BY <1>1, <1>2, <1>3, <1>4, <1>5, <1>6, <1>7, <1>8, <1>9, <1>10, <1>11, <1>12, <1>13, <1>14, <1>15 DEF Next, IngressStep

\* What lies between the fibers was read since the start.
LEMMA KafkaRead ==
  ASSUME KafkaTypeOK, Bounds, Read, TerminalIsLast, [Next]_vars
  PROVE  Read'
<1> USE DEF Read, Queued
<1>1. ASSUME NEW p \in Partitions, Fetch(p) PROVE Read'
  <2>1. /\ batch' = batch /\ start' = start
        /\ events \in Seq(StreamEvents) /\ batch \in Seq(Messages)
        /\ start \in [Partitions -> Nat] /\ fetched \in [Partitions -> Nat]
    BY <1>1 DEF Fetch, batchVars, KafkaTypeOK
  <2>2. /\ fetched' = [fetched EXCEPT ![p] = fetched[p] + 1]
        /\ \A q \in Partitions : fetched[q] <= fetched'[q] /\ fetched'[q] \in Nat
    <3>1. fetched' = [fetched EXCEPT ![p] = fetched[p] + 1]
      BY <1>1, Received
    <3> QED
      BY <2>1, <3>1
  <2>3. ASSUME NEW i \in 1..Len(batch')
        PROVE  batch'[i].offset \in (start'[batch'[i].partition] + 1)..fetched'[batch'[i].partition]
    <3>1. /\ batch[i].partition \in Partitions
          /\ batch[i].offset \in (start[batch[i].partition] + 1)..fetched[batch[i].partition]
      BY <2>1, BatchHolds
    <3> QED
      BY <2>1, <2>2, <3>1
  <2>4. ASSUME NEW q \in Partitions, NEW i \in 1..Len(events'), Queued(i, q)'
        PROVE  events'[i].message.offset \in (start'[q] + 1)..fetched'[q]
    <3>1. CASE i = Len(events) + 1
      <4>1. events'[i].message = [partition |-> p, offset |-> fetched[p] + 1]
        BY <1>1, <3>1, Received
      <4>2. q = p /\ events'[i].message.offset = fetched[p] + 1
        BY <2>4, <4>1
      <4> QED
        BY <2>1, <2>2, <4>2 DEF Bounds
    <3>2. CASE i # Len(events) + 1
      <4>1. i \in 1..Len(events) /\ events'[i] = events[i]
        BY <1>1, <3>2, Received
      <4>2. events[i].message.offset \in (start[q] + 1)..fetched[q]
        BY <2>4, <4>1
      <4> QED
        BY <2>1, <2>2, <4>1, <4>2
    <3> QED
      BY <3>1, <3>2
  <2> QED
    BY <2>3, <2>4
<1>2. ASSUME NEW how \in Terminals, EndSource(how) PROVE Read'
  <2>1. ASSUME NEW q \in Partitions, NEW i \in 1..Len(events'), Queued(i, q)'
        PROVE  events'[i].message.offset \in (start'[q] + 1)..fetched'[q]
    BY <1>2, <2>1, Told DEF Queued, EndSource, Terminals
  <2> QED
    BY <1>2, <2>1 DEF EndSource, batchVars, Queued
<1>3. ASSUME TakeMessage PROVE Read'
  <2>1. start' = start /\ fetched' = fetched
    BY <1>3 DEF TakeMessage
  <2>2. ASSUME NEW i \in 1..Len(batch')
        PROVE  batch'[i].offset \in (start'[batch'[i].partition] + 1)..fetched'[batch'[i].partition]
    <3>1. CASE i = Len(batch) + 1
      <4>1. batch'[i] = events[1].message /\ 1 \in 1..Len(events) /\ events[1].tag = "message"
        BY <1>3, <3>1, Taken
      <4>2. events[1].message.partition \in Partitions
        BY <4>1, QueueHolds DEF KafkaTypeOK, Terminals
      <4> QED
        BY <2>1, <4>1, <4>2
    <3>2. CASE i # Len(batch) + 1
      <4>1. /\ Len(batch') = Len(batch) + 1 /\ Len(batch) \in Nat
            /\ \A k \in 1..Len(batch') :
                 batch'[k] = IF k = Len(batch) + 1 THEN events[1].message ELSE batch[k]
        BY <1>3, Taken DEF KafkaTypeOK
      <4>2. i \in 1..Len(batch) /\ batch'[i] = batch[i]
        BY <3>2, <4>1
      <4>3. batch[i].offset \in (start[batch[i].partition] + 1)..fetched[batch[i].partition]
        BY <4>2
      <4> QED
        BY <2>1, <4>2, <4>3
    <3> QED
      BY <3>1, <3>2
  <2>3. ASSUME NEW q \in Partitions, NEW i \in 1..Len(events'), Queued(i, q)'
        PROVE  events'[i].message.offset \in (start'[q] + 1)..fetched'[q]
    BY <1>3, <2>1, <2>3, Taken DEF Queued
  <2> QED
    BY <2>2, <2>3 DEF Queued
<1>4. ASSUME TakeTerminal PROVE Read'
  BY <1>4, TakenLast DEF TakeTerminal
<1>5. ASSUME FlushDeadline PROVE Read'
  BY <1>5 DEF FlushDeadline, streamVars, batchVars
<1>6. ASSUME Decode PROVE Read'
  BY <1>6 DEF Decode, streamVars, batchVars
<1>7. ASSUME PublishTopic PROVE Read'
  BY <1>7 DEF PublishTopic, streamVars, batchVars
<1>8. ASSUME FailPublish PROVE Read'
  BY <1>8 DEF FailPublish, streamVars, batchVars
<1>9. ASSUME AllPublished PROVE Read'
  BY <1>9 DEF AllPublished, streamVars, batchVars
<1>10. ASSUME CommitNext PROVE Read'
  BY <1>10 DEF CommitNext, streamVars, batchVars
<1>11. ASSUME FailCommit PROVE Read'
  BY <1>11 DEF FailCommit, streamVars, batchVars
<1>12. ASSUME EndBatch PROVE Read'
  <2>1. \A i \in 1..Len(batch') : i \in 1..Len(batch) /\ batch'[i] = batch[i]
    BY <1>12 DEF EndBatch
  <2> QED
    BY <1>12, <2>1 DEF EndBatch, streamVars, Queued
<1>13. ASSUME Stop PROVE Read'
  BY <1>13 DEF Stop, streamVars, batchVars
<1>14. ASSUME Restart PROVE Read'
  BY <1>14 DEF Restart
<1>15. ASSUME UNCHANGED vars PROVE Read'
  BY <1>15 DEF vars, streamVars, batchVars
<1> QED
  BY <1>1, <1>2, <1>3, <1>4, <1>5, <1>6, <1>7, <1>8, <1>9, <1>10, <1>11, <1>12, <1>13, <1>14, <1>15 DEF Next, IngressStep

\* Messages of a partition stay in the order of their offsets.
LEMMA KafkaInOrder ==
  ASSUME KafkaTypeOK, InStreamOrder, Read, TerminalIsLast, [Next]_vars
  PROVE  InStreamOrder'
<1> USE DEF InStreamOrder
<1>1. ASSUME NEW p \in Partitions, Fetch(p) PROVE InStreamOrder'
  <2>1. /\ batch' = batch /\ events \in Seq(StreamEvents) /\ batch \in Seq(Messages)
        /\ fetched \in [Partitions -> Nat] /\ start \in [Partitions -> Nat]
    BY <1>1 DEF Fetch, batchVars, KafkaTypeOK
  <2>2. ASSUME NEW q \in Partitions, NEW i \in 1..Len(events'), NEW j \in 1..Len(events'),
               i < j, Queued(i, q)', Queued(j, q)'
        PROVE  events'[i].message.offset < events'[j].message.offset
    <3>1. i \in 1..Len(events) /\ events'[i] = events[i]
      <4>1. Len(events') = Len(events) + 1
        BY <1>1, Received
      <4>2. i # Len(events) + 1
        BY <2>1, <2>2, <4>1
      <4> QED
        BY <1>1, <4>2, Received
    <3>2. CASE j = Len(events) + 1
      <4>1. events'[j].message = [partition |-> p, offset |-> fetched[p] + 1]
        BY <1>1, <3>2, Received
      <4>2. q = p /\ events'[j].message.offset = fetched[p] + 1
        BY <2>2, <4>1 DEF Queued
      <4>3. events[i].message.offset \in (start[q] + 1)..fetched[q]
        BY <2>2, <3>1 DEF Read, Queued
      <4> QED
        BY <2>1, <3>1, <4>2, <4>3
    <3>3. CASE j # Len(events) + 1
      <4>1. j \in 1..Len(events) /\ events'[j] = events[j]
        BY <1>1, <3>3, Received
      <4> QED
        BY <2>2, <3>1, <4>1 DEF Queued, QueueInOrder
    <3> QED
      BY <3>2, <3>3
  <2>3. ASSUME NEW i \in 1..Len(batch'), NEW j \in 1..Len(events'),
               Queued(j, batch[i].partition)'
        PROVE  batch'[i].offset < events'[j].message.offset
    <3>1. CASE j = Len(events) + 1
      <4>1. events'[j].message = [partition |-> p, offset |-> fetched[p] + 1]
        BY <1>1, <3>1, Received
      <4>2. batch[i].partition = p /\ events'[j].message.offset = fetched[p] + 1
        BY <2>1, <2>3, <4>1 DEF Queued
      <4>3. batch[i].offset \in (start[p] + 1)..fetched[p]
        BY <2>1, <4>2 DEF Read
      <4> QED
        BY <2>1, <4>2, <4>3
    <3>2. CASE j # Len(events) + 1
      <4>1. j \in 1..Len(events) /\ events'[j] = events[j]
        BY <1>1, <3>2, Received
      <4> QED
        BY <2>1, <2>3, <4>1 DEF Queued, BatchFirst
    <3> QED
      BY <3>1, <3>2
  <2>4. BatchInOrder'
    BY <2>1 DEF BatchInOrder
  <2>5. QueueInOrder'
    BY <2>2 DEF QueueInOrder
  <2>6. BatchFirst'
    BY <2>3 DEF BatchFirst
  <2> QED
    BY <2>4, <2>5, <2>6
<1>2. ASSUME NEW how \in Terminals, EndSource(how) PROVE InStreamOrder'
  <2>1. \A q \in Partitions, i \in 1..Len(events') :
          Queued(i, q)' => i \in 1..Len(events) /\ events'[i] = events[i]
    BY <1>2, Told DEF Terminals, Queued
  <2>2. batch' = batch
    BY <1>2 DEF EndSource, batchVars
  <2>3. \A i \in 1..Len(batch), j \in 1..Len(events') :
          Queued(j, batch[i].partition)' => j \in 1..Len(events) /\ events'[j] = events[j]
    BY <1>2, Told DEF Terminals, Queued
  <2>4. BatchInOrder'
    BY <2>2 DEF BatchInOrder
  <2>5. QueueInOrder'
    BY <2>1 DEF QueueInOrder, Queued
  <2>6. BatchFirst'
    BY <2>2, <2>3 DEF BatchFirst, Queued
  <2> QED
    BY <2>4, <2>5, <2>6
<1>3. ASSUME TakeMessage PROVE InStreamOrder'
  <2>1. events \in Seq(StreamEvents) /\ batch \in Seq(Messages)
    BY DEF KafkaTypeOK
  <2>2. /\ 1 \in 1..Len(events) /\ events[1].tag = "message"
        /\ Len(events') = Len(events) - 1 /\ Len(batch') = Len(batch) + 1
        /\ Len(events) \in Nat /\ Len(batch) \in Nat
    BY <1>3, <2>1, Taken
  <2>3. \A i \in 1..Len(events') : i + 1 \in 1..Len(events) /\ events'[i] = events[i + 1]
    BY <1>3, Taken
  <2>4. \A i \in 1..Len(batch') :
          batch'[i] = IF i = Len(batch) + 1 THEN events[1].message ELSE batch[i]
    BY <1>3, Taken
  <2>5. events[1].message.partition \in Partitions
    BY <2>1, <2>2, QueueHolds DEF Terminals
  <2>6. ASSUME NEW i \in 1..Len(batch'), NEW j \in 1..Len(batch'), i < j,
               batch'[i].partition = batch'[j].partition
        PROVE  batch'[i].offset < batch'[j].offset
    <3>1. i \in 1..Len(batch) /\ batch'[i] = batch[i]
      BY <2>2, <2>4, <2>6
    <3>2. CASE j = Len(batch) + 1
      BY <2>2, <2>4, <2>6, <3>1, <3>2 DEF BatchFirst, Queued
    <3>3. CASE j # Len(batch) + 1
      BY <2>2, <2>4, <2>6, <3>1, <3>3 DEF BatchInOrder
    <3> QED
      BY <3>2, <3>3
  <2>7. QueueInOrder'
    <3>1. ASSUME NEW q \in Partitions, NEW i \in 1..Len(events'), NEW j \in 1..Len(events'), i < j,
                 Queued(i, q)', Queued(j, q)'
          PROVE  events'[i].message.offset < events'[j].message.offset
      <4>1. /\ i + 1 \in 1..Len(events) /\ events'[i] = events[i + 1]
            /\ j + 1 \in 1..Len(events) /\ events'[j] = events[j + 1]
        BY <2>3
      <4>2. i + 1 < j + 1
        BY <2>2, <3>1
      <4>3. Queued(i + 1, q) /\ Queued(j + 1, q)
        BY <3>1, <4>1 DEF Queued
      <4> QED
        BY <4>1, <4>2, <4>3 DEF QueueInOrder
    <3> QED
      BY <3>1 DEF QueueInOrder
  <2>8. ASSUME NEW i \in 1..Len(batch'), NEW j \in 1..Len(events'),
               Queued(j, batch[i].partition)'
        PROVE  batch'[i].offset < events'[j].message.offset
    <3>1. j + 1 \in 1..Len(events) /\ events'[j] = events[j + 1]
      BY <2>3
    <3>2. CASE i = Len(batch) + 1
      <4>1. batch'[i] = events[1].message
        BY <2>4, <3>2
      <4>2. 1 < j + 1 /\ Queued(1, batch'[i].partition) /\ Queued(j + 1, batch'[i].partition)
        BY <2>2, <2>8, <3>1, <4>1 DEF Queued
      <4> QED
        BY <2>2, <2>5, <3>1, <4>1, <4>2 DEF QueueInOrder
    <3>3. CASE i # Len(batch) + 1
      <4>1. i \in 1..Len(batch) /\ batch'[i] = batch[i]
        BY <2>2, <2>4, <3>3
      <4>2. Queued(j + 1, batch[i].partition)
        BY <2>8, <3>1, <4>1 DEF Queued
      <4> QED
        BY <3>1, <4>1, <4>2 DEF BatchFirst
    <3> QED
      BY <3>2, <3>3
  <2> QED
    BY <2>6, <2>7, <2>8 DEF BatchInOrder, BatchFirst
<1>4. ASSUME TakeTerminal PROVE InStreamOrder'
  BY <1>4, TakenLast DEF TakeTerminal, BatchInOrder, QueueInOrder, BatchFirst, Queued
<1>5. ASSUME FlushDeadline PROVE InStreamOrder'
  BY <1>5 DEF FlushDeadline, streamVars, batchVars, BatchInOrder, QueueInOrder, BatchFirst, Queued
<1>6. ASSUME Decode PROVE InStreamOrder'
  BY <1>6 DEF Decode, streamVars, batchVars, BatchInOrder, QueueInOrder, BatchFirst, Queued
<1>7. ASSUME PublishTopic PROVE InStreamOrder'
  BY <1>7 DEF PublishTopic, streamVars, batchVars, BatchInOrder, QueueInOrder, BatchFirst, Queued
<1>8. ASSUME FailPublish PROVE InStreamOrder'
  BY <1>8 DEF FailPublish, streamVars, batchVars, BatchInOrder, QueueInOrder, BatchFirst, Queued
<1>9. ASSUME AllPublished PROVE InStreamOrder'
  BY <1>9 DEF AllPublished, streamVars, batchVars, BatchInOrder, QueueInOrder, BatchFirst, Queued
<1>10. ASSUME CommitNext PROVE InStreamOrder'
  BY <1>10 DEF CommitNext, streamVars, batchVars, BatchInOrder, QueueInOrder, BatchFirst, Queued
<1>11. ASSUME FailCommit PROVE InStreamOrder'
  BY <1>11 DEF FailCommit, streamVars, batchVars, BatchInOrder, QueueInOrder, BatchFirst, Queued
<1>12. ASSUME EndBatch PROVE InStreamOrder'
  <2>1. \A i \in 1..Len(batch') : i \in 1..Len(batch) /\ batch'[i] = batch[i]
    BY <1>12 DEF EndBatch
  <2> QED
    BY <1>12, <2>1 DEF EndBatch, streamVars, BatchInOrder, QueueInOrder, BatchFirst, Queued
<1>13. ASSUME Stop PROVE InStreamOrder'
  BY <1>13 DEF Stop, streamVars, batchVars, BatchInOrder, QueueInOrder, BatchFirst, Queued
<1>14. ASSUME Restart PROVE InStreamOrder'
  BY <1>14 DEF Restart, BatchInOrder, QueueInOrder, BatchFirst
<1>15. ASSUME UNCHANGED vars PROVE InStreamOrder'
  BY <1>15 DEF vars, streamVars, batchVars, BatchInOrder, QueueInOrder, BatchFirst, Queued
<1> QED
  BY <1>1, <1>2, <1>3, <1>4, <1>5, <1>6, <1>7, <1>8, <1>9, <1>10, <1>11, <1>12, <1>13, <1>14, <1>15 DEF Next, IngressStep

\* Nothing that was read is lost before its offset is committed.
LEMMA KafkaNoneLost ==
  ASSUME KafkaTypeOK, NoneLost, Stages, TerminalIsLast, [Next]_vars
  PROVE  NoneLost'
<1>1. ASSUME NEW p \in Partitions, Fetch(p) PROVE NoneLost'
  <2>1. /\ batch' = batch /\ start' = start /\ acked' = acked /\ events \in Seq(StreamEvents)
        /\ fetched \in [Partitions -> Nat] /\ start \in [Partitions -> Nat]
    BY <1>1 DEF Fetch, batchVars, KafkaTypeOK
  <2>2. /\ fetched' = [fetched EXCEPT ![p] = fetched[p] + 1]
        /\ Len(events') = Len(events) + 1
    BY <1>1, Received
  <2>3. ASSUME NEW q \in Partitions, NEW o \in (start'[q] + 1)..fetched'[q]
        PROVE  o \in acked'[q] \/ InBatch(q, o)' \/ InQueue(q, o)'
    <3>1. CASE q = p /\ o = fetched[p] + 1
      <4> DEFINE last == Len(events) + 1
      <4>1. last \in 1..Len(events')
        BY <2>1, <2>2
      <4>2. events'[last].tag = "message"
            /\ events'[last].message = [partition |-> p, offset |-> fetched[p] + 1]
        BY <1>1, <4>1, Received
      <4> QED
        BY <3>1, <4>1, <4>2 DEF InQueue, Queued
    <3>2. CASE ~ (q = p /\ o = fetched[p] + 1)
      <4>1. o \in (start[q] + 1)..fetched[q]
        BY <2>1, <2>2, <2>3, <3>2
      <4>2. InQueue(q, o) => InQueue(q, o)'
        <5>1. \A i \in 1..Len(events) : i \in 1..Len(events') /\ i # Len(events) + 1
          BY <2>1, <2>2
        <5>2. \A i \in 1..Len(events) : events'[i] = events[i]
          BY <1>1, <5>1, Received
        <5> QED
          BY <5>1, <5>2 DEF InQueue, Queued
      <4> QED
        BY <2>1, <4>1, <4>2 DEF NoneLost, InBatch
    <3> QED
      BY <3>1, <3>2
  <2> QED
    BY <2>3 DEF NoneLost
<1>2. ASSUME NEW how \in Terminals, EndSource(how) PROVE NoneLost'
  <2>1. events \in Seq(StreamEvents)
    BY DEF KafkaTypeOK
  <2>2. Len(events') = Len(events) + 1
    BY <1>2, Told
  <2>3. \A i \in 1..Len(events) : i \in 1..Len(events') /\ events'[i] = events[i]
    BY <1>2, <2>1, <2>2, Told
  <2> QED
    BY <1>2, <2>3 DEF EndSource, batchVars, NoneLost, InBatch, InQueue, Queued
<1>3. ASSUME TakeMessage PROVE NoneLost'
  <2>1. /\ start' = start /\ fetched' = fetched /\ acked' = acked
        /\ events \in Seq(StreamEvents) /\ batch \in Seq(Messages)
    BY <1>3 DEF TakeMessage, KafkaTypeOK
  <2>2. /\ 1 \in 1..Len(events) /\ Len(events') = Len(events) - 1
        /\ Len(batch') = Len(batch) + 1
    BY <1>3, Taken
  <2>3. \A i \in 1..Len(events') : events'[i] = events[i + 1]
    BY <1>3, Taken
  <2>4. \A i \in 1..Len(batch') :
          batch'[i] = IF i = Len(batch) + 1 THEN events[1].message ELSE batch[i]
    BY <1>3, Taken
  <2>5. ASSUME NEW q, NEW o, InBatch(q, o) PROVE InBatch(q, o)'
    BY <2>1, <2>2, <2>4, <2>5 DEF InBatch
  <2>6. ASSUME NEW q, NEW o, InQueue(q, o) PROVE InBatch(q, o)' \/ InQueue(q, o)'
    <3>1. PICK i \in 1..Len(events) : Queued(i, q) /\ events[i].message.offset = o
      BY <2>6 DEF InQueue
    <3>2. CASE i = 1
      <4> DEFINE last == Len(batch) + 1
      <4>1. last \in 1..Len(batch') /\ batch'[last] = events[1].message
        BY <2>1, <2>2, <2>4
      <4> QED
        BY <3>1, <3>2, <4>1 DEF InBatch, Queued
    <3>3. CASE i # 1
      <4>1. i - 1 \in 1..Len(events') /\ events'[i - 1] = events[i]
        BY <2>1, <2>2, <2>3, <3>3
      <4> QED
        BY <3>1, <4>1 DEF InQueue, Queued
    <3> QED
      BY <3>2, <3>3
  <2> QED
    BY <2>1, <2>5, <2>6 DEF NoneLost
<1>4. ASSUME TakeTerminal PROVE NoneLost'
  <2>1. \A p \in Partitions, o \in Nat : ~ InQueue(p, o)
    <3>1. Len(events) = 1 /\ events[1].tag # "message"
      BY <1>4, TakenLast DEF Terminals
    <3>2. \A i \in 1..Len(events) : events[i].tag # "message"
      BY <3>1
    <3> QED
      BY <3>2 DEF InQueue, Queued
  <2>2. \A p \in Partitions : \A o \in (start[p] + 1)..fetched[p] : o \in Nat
    BY DEF KafkaTypeOK
  <2> QED
    BY <1>4, <2>1, <2>2 DEF TakeTerminal, NoneLost, InBatch
<1>5. ASSUME FlushDeadline PROVE NoneLost'
  BY <1>5 DEF FlushDeadline, streamVars, batchVars, NoneLost, InBatch, InQueue, Queued
<1>6. ASSUME Decode PROVE NoneLost'
  BY <1>6 DEF Decode, streamVars, batchVars, NoneLost, InBatch, InQueue, Queued
<1>7. ASSUME PublishTopic PROVE NoneLost'
  BY <1>7 DEF PublishTopic, streamVars, batchVars, NoneLost, InBatch, InQueue, Queued
<1>8. ASSUME FailPublish PROVE NoneLost'
  BY <1>8 DEF FailPublish, streamVars, batchVars, NoneLost, InBatch, InQueue, Queued
<1>9. ASSUME AllPublished PROVE NoneLost'
  BY <1>9 DEF AllPublished, streamVars, batchVars, NoneLost, InBatch, InQueue, Queued
<1>10. ASSUME CommitNext PROVE NoneLost'
  <2>1. \A p \in Partitions : acked[p] \subseteq acked'[p]
    BY <1>10 DEF CommitNext, KafkaTypeOK
  <2> QED
    BY <1>10, <2>1 DEF CommitNext, streamVars, NoneLost, InBatch, InQueue, Queued
<1>11. ASSUME FailCommit PROVE NoneLost'
  BY <1>11 DEF FailCommit, streamVars, batchVars, NoneLost, InBatch, InQueue, Queued
<1>12. ASSUME EndBatch PROVE NoneLost'
  <2>1. /\ start' = start /\ fetched' = fetched /\ acked' = acked /\ events' = events
    BY <1>12 DEF EndBatch, streamVars
  <2>2. CASE batch' = batch
    BY <2>1, <2>2 DEF NoneLost, InBatch, InQueue, Queued
  <2>3. CASE batch' # batch
    <3>1. cause = "none"
      BY <1>12, <2>3 DEF EndBatch, Stages
    <3>2. \A i \in 1..Len(batch) : IsAcked(i)
      BY <1>12, <3>1 DEF EndBatch, Stages, Broken, Decodable
    <3>3. \A p \in Partitions, o \in Nat : InBatch(p, o) => o \in acked[p]
      BY <3>2 DEF InBatch, IsAcked
    <3>4. \A p \in Partitions : \A o \in (start[p] + 1)..fetched[p] : o \in Nat
      BY DEF KafkaTypeOK
    <3> QED
      BY <2>1, <3>3, <3>4 DEF NoneLost, InQueue, Queued
  <2> QED
    BY <2>2, <2>3
<1>13. ASSUME Stop PROVE NoneLost'
  BY <1>13 DEF Stop, streamVars, batchVars, NoneLost, InBatch, InQueue, Queued
<1>14. ASSUME Restart PROVE NoneLost'
  <2>1. \A p \in Partitions : start'[p] = fetched'[p] /\ start'[p] \in Nat
    BY <1>14 DEF Restart, Beginning, KafkaTypeOK
  <2> QED
    BY <2>1 DEF NoneLost
<1>15. ASSUME UNCHANGED vars PROVE NoneLost'
  BY <1>15 DEF vars, streamVars, batchVars, NoneLost, InBatch, InQueue, Queued
<1> QED
  BY <1>1, <1>2, <1>3, <1>4, <1>5, <1>6, <1>7, <1>8, <1>9, <1>10, <1>11, <1>12, <1>13, <1>14, <1>15 DEF Next, IngressStep

\* Only rows that can be decoded are published, and before they are committed.
LEMMA KafkaPublishedFirst ==
  ASSUME KafkaTypeOK, Bounds, Read, PublishedFirst, Stages, [Next]_vars
  PROVE  PublishedFirst'
<1> USE KafkaAssumption
<1>1. ASSUME NEW p \in Partitions, Fetch(p) PROVE PublishedFirst'
  BY <1>1 DEF Fetch, Producing, streamVars, batchVars, PublishedFirst
<1>2. ASSUME NEW how \in Terminals, EndSource(how) PROVE PublishedFirst'
  BY <1>2 DEF EndSource, Producing, streamVars, batchVars, PublishedFirst
<1>3. ASSUME TakeMessage PROVE PublishedFirst'
  BY <1>3 DEF TakeMessage, streamVars, batchVars, PublishedFirst
<1>4. ASSUME TakeTerminal PROVE PublishedFirst'
  BY <1>4 DEF TakeTerminal, streamVars, batchVars, PublishedFirst
<1>5. ASSUME FlushDeadline PROVE PublishedFirst'
  BY <1>5 DEF FlushDeadline, streamVars, batchVars, PublishedFirst
<1>6. ASSUME Decode PROVE PublishedFirst'
  BY <1>6 DEF Decode, streamVars, batchVars, PublishedFirst
<1>7. ASSUME PublishTopic PROVE PublishedFirst'
  <2>1. batch \in Seq(Messages) /\ unpublished \subseteq Decodable /\ Decodable \subseteq 1..Len(batch)
    BY <1>7 DEF PublishTopic, Stages, KafkaTypeOK, Decodable
  <2>2. /\ published' \in [Partitions -> SUBSET Nat] /\ published \in [Partitions -> SUBSET Nat]
        /\ start' = start /\ acked' = acked
    BY <1>7, KafkaTypes DEF PublishTopic, KafkaTypeOK, streamVars
  <2>3. \A p \in Partitions : published[p] \subseteq published'[p]
    BY <1>7, <2>2 DEF PublishTopic, KafkaTypeOK
  <2>4. ASSUME NEW p \in Partitions, NEW o \in published'[p], o \notin published[p]
        PROVE  o \in (start[p] + 1)..Len(Log[p]) /\ Log[p][o] = "ok"
    <3>1. PICK i \in unpublished : batch[i].partition = p /\ batch[i].offset = o
      BY <1>7, <2>4 DEF PublishTopic, OffsetsAt, KafkaTypeOK
    <3>2. i \in Decodable /\ i \in 1..Len(batch) /\ i \in 1..i
      BY <2>1
    <3>3. ~ Bad(batch[i])
      BY <3>2 DEF Decodable
    <3>4. o \in (start[p] + 1)..fetched[p]
      BY <3>1, <3>2 DEF Read
    <3>5. /\ start[p] \in Nat /\ fetched[p] \in Nat /\ fetched[p] <= Len(Log[p])
          /\ Log[p] \in Seq({"ok", "bad"})
      BY DEF KafkaTypeOK, Bounds
    <3>6. o \in (start[p] + 1)..Len(Log[p])
      BY <3>4, <3>5
    <3>7. Log[p][o] \in {"ok", "bad"}
      <4>1. o \in 1..Len(Log[p])
        BY <3>5, <3>6
      <4> QED
        BY <3>5, <4>1
    <3> QED
      BY <3>1, <3>3, <3>6, <3>7 DEF Bad
  <2> QED
    BY <2>2, <2>3, <2>4 DEF PublishedFirst
<1>8. ASSUME FailPublish PROVE PublishedFirst'
  BY <1>8 DEF FailPublish, streamVars, batchVars, PublishedFirst
<1>9. ASSUME AllPublished PROVE PublishedFirst'
  BY <1>9 DEF AllPublished, streamVars, batchVars, PublishedFirst
<1>10. ASSUME CommitNext PROVE PublishedFirst'
  <2> DEFINE next == First(uncommitted)
  <2>1. next \in uncommitted
    <3>1. uncommitted \subseteq Nat
      BY DEF KafkaTypeOK
    <3> QED
      BY <1>10, <3>1, FirstIn DEF CommitNext
  <2>2. next \in Decodable /\ next \in 1..Len(batch)
    BY <1>10, <2>1 DEF CommitNext, Stages, KafkaTypeOK
  <2>3. batch[next].offset \in published[batch[next].partition]
    BY <1>10, <2>2 DEF CommitNext, Stages, IsPublished
  <2>4. /\ published' = published /\ start' = start
        /\ \A p \in Partitions : \A o \in acked'[p] :
             o \in acked[p] \/ (p = batch[next].partition /\ o = batch[next].offset)
    BY <1>10 DEF CommitNext, KafkaTypeOK, streamVars
  <2> HIDE DEF next
  <2> QED
    BY <2>3, <2>4 DEF PublishedFirst
<1>11. ASSUME FailCommit PROVE PublishedFirst'
  BY <1>11 DEF FailCommit, streamVars, batchVars, PublishedFirst
<1>12. ASSUME EndBatch PROVE PublishedFirst'
  BY <1>12 DEF EndBatch, streamVars, batchVars, PublishedFirst
<1>13. ASSUME Stop PROVE PublishedFirst'
  BY <1>13 DEF Stop, streamVars, batchVars, PublishedFirst
<1>14. ASSUME Restart PROVE PublishedFirst'
  BY <1>14 DEF Restart, Nothing, PublishedFirst
<1>15. ASSUME UNCHANGED vars PROVE PublishedFirst'
  BY <1>15 DEF vars, streamVars, batchVars, PublishedFirst
<1> QED
  BY <1>1, <1>2, <1>3, <1>4, <1>5, <1>6, <1>7, <1>8, <1>9, <1>10, <1>11, <1>12, <1>13, <1>14, <1>15 DEF Next, IngressStep

\* The stream delivers nothing after its terminal event.
LEMMA KafkaTerminals ==
  ASSUME KafkaTypeOK, Stages, TerminalIsLast, [Next]_vars
  PROVE  TerminalIsLast'
<1>1. ASSUME NEW p \in Partitions, Fetch(p) PROVE TerminalIsLast'
  <2>1. events \in Seq(StreamEvents)
    BY DEF KafkaTypeOK
  <2>2. source = "open" /\ source' = source /\ terminal' = terminal
    BY <1>1 DEF Fetch, Producing, batchVars
  <2>3. terminal = "none" /\ \A i \in 1..Len(events) : events[i].tag \notin Terminals
    BY <2>2 DEF TerminalIsLast
  <2>4. \A i \in 1..Len(events') : events'[i].tag \notin Terminals
    BY <1>1, <2>3, Received DEF Terminals
  <2> QED
    BY <2>2, <2>3, <2>4 DEF TerminalIsLast
<1>2. ASSUME NEW how \in Terminals, EndSource(how) PROVE TerminalIsLast'
  <2>1. events \in Seq(StreamEvents)
    BY DEF KafkaTypeOK
  <2>2. source = "open" /\ source' = how /\ terminal' = terminal
    BY <1>2 DEF EndSource, Producing, batchVars
  <2>3. terminal = "none" /\ \A i \in 1..Len(events) : events[i].tag \notin Terminals
    BY <2>2 DEF TerminalIsLast
  <2>4. Len(events') = Len(events) + 1
    BY <1>2, Told
  <2>5. \A i \in 1..Len(events') : events'[i].tag \in Terminals => i = Len(events')
    BY <1>2, <2>3, <2>4, Told
  <2> QED
    BY <2>2, <2>3, <2>5 DEF TerminalIsLast, Terminals
<1>3. ASSUME TakeMessage PROVE TerminalIsLast'
  <2>1. events \in Seq(StreamEvents) /\ source' = source /\ terminal' = terminal /\ terminal = "none"
    BY <1>3 DEF TakeMessage, KafkaTypeOK, Stages
  <2>2. Len(events') = Len(events) - 1 /\ 1 \in 1..Len(events)
    BY <1>3, Taken
  <2>3. \A i \in 1..Len(events') : i + 1 \in 1..Len(events) /\ events'[i] = events[i + 1]
    BY <1>3, Taken
  <2> QED
    BY <2>1, <2>2, <2>3 DEF TerminalIsLast
<1>4. ASSUME TakeTerminal PROVE TerminalIsLast'
  <2>1. events' = <<>> /\ source # "open"
    BY <1>4, TakenLast
  <2> QED
    BY <1>4, <2>1 DEF TakeTerminal, TerminalIsLast
<1>5. ASSUME FlushDeadline PROVE TerminalIsLast'
  BY <1>5 DEF FlushDeadline, streamVars, batchVars, TerminalIsLast
<1>6. ASSUME Decode PROVE TerminalIsLast'
  BY <1>6 DEF Decode, streamVars, batchVars, TerminalIsLast
<1>7. ASSUME PublishTopic PROVE TerminalIsLast'
  BY <1>7 DEF PublishTopic, streamVars, batchVars, TerminalIsLast
<1>8. ASSUME FailPublish PROVE TerminalIsLast'
  BY <1>8 DEF FailPublish, streamVars, batchVars, TerminalIsLast
<1>9. ASSUME AllPublished PROVE TerminalIsLast'
  BY <1>9 DEF AllPublished, streamVars, batchVars, TerminalIsLast
<1>10. ASSUME CommitNext PROVE TerminalIsLast'
  BY <1>10 DEF CommitNext, streamVars, batchVars, TerminalIsLast
<1>11. ASSUME FailCommit PROVE TerminalIsLast'
  BY <1>11 DEF FailCommit, streamVars, batchVars, TerminalIsLast
<1>12. ASSUME EndBatch PROVE TerminalIsLast'
  BY <1>12 DEF EndBatch, streamVars, batchVars, TerminalIsLast
<1>13. ASSUME Stop PROVE TerminalIsLast'
  BY <1>13 DEF Stop, streamVars, batchVars, TerminalIsLast
<1>14. ASSUME Restart PROVE TerminalIsLast'
  BY <1>14 DEF Restart, TerminalIsLast
<1>15. ASSUME UNCHANGED vars PROVE TerminalIsLast'
  BY <1>15 DEF vars, streamVars, batchVars, TerminalIsLast
<1> QED
  BY <1>1, <1>2, <1>3, <1>4, <1>5, <1>6, <1>7, <1>8, <1>9, <1>10, <1>11, <1>12, <1>13, <1>14, <1>15 DEF Next, IngressStep

\* Each stage of a batch leaves what the next one counts on.
LEMMA KafkaStages ==
  ASSUME KafkaTypeOK, Stages, TerminalIsLast, [Next]_vars
  PROVE  Stages'
<1>1. ASSUME NEW p \in Partitions, Fetch(p) PROVE Stages'
  <2>1. Decodable' = Decodable /\ Broken' = Broken
    BY <1>1 DEF Fetch, batchVars, Decodable, Broken, Bad
  <2>2. \A i \in Decodable : (IsPublished(i) => IsPublished(i)') /\ (IsAcked(i) => IsAcked(i)')
    BY <1>1 DEF Fetch, batchVars, IsPublished, IsAcked
  <2> QED
    BY <1>1, <2>1, <2>2 DEF Fetch, Producing, Live, streamVars, batchVars, Stages
<1>2. ASSUME NEW how \in Terminals, EndSource(how) PROVE Stages'
  <2>1. Decodable' = Decodable /\ Broken' = Broken
    BY <1>2 DEF EndSource, batchVars, Decodable, Broken, Bad
  <2>2. \A i \in Decodable : (IsPublished(i) => IsPublished(i)') /\ (IsAcked(i) => IsAcked(i)')
    BY <1>2 DEF EndSource, batchVars, IsPublished, IsAcked
  <2> QED
    BY <1>2, <2>1, <2>2 DEF EndSource, Producing, Live, streamVars, batchVars, Stages
<1>3. ASSUME TakeMessage PROVE Stages'
  BY <1>3 DEF TakeMessage, Stages
<1>4. ASSUME TakeTerminal PROVE Stages'
  <2>1. CASE batch # <<>>
    BY <1>4, <2>1 DEF TakeTerminal, Stages
  <2>2. CASE batch = <<>>
    <3>1. events' = <<>>
      BY <1>4, TakenLast
    <3>2. Decodable' = {} /\ ~ Broken'
      BY <1>4, <2>2 DEF TakeTerminal, Decodable, Broken
    <3> QED
      BY <1>4, <2>2, <3>1, <3>2 DEF TakeTerminal, Stages
  <2> QED
    BY <2>1, <2>2
<1>5. ASSUME FlushDeadline PROVE Stages'
  BY <1>5 DEF FlushDeadline, batchVars, Stages
<1>6. ASSUME Decode PROVE Stages'
  <2>1. Decodable' = Decodable /\ Broken' = Broken
    BY <1>6 DEF Decode, Decodable, Broken, Bad
  <2> QED
    BY <1>6, <2>1 DEF Decode, Stages
<1>7. ASSUME PublishTopic PROVE Stages'
  <2>1. Decodable' = Decodable /\ Broken' = Broken
    BY <1>7 DEF PublishTopic, Decodable, Broken, Bad
  <2>2. /\ batch \in Seq(Messages) /\ batch' = batch
        /\ unpublished \subseteq Decodable /\ Decodable \subseteq 1..Len(batch)
        /\ published \in [Partitions -> SUBSET Nat]
    BY <1>7 DEF PublishTopic, Stages, KafkaTypeOK, Decodable
  <2>3. ASSUME NEW i \in Decodable \ unpublished' PROVE IsPublished(i)'
    <3>1. batch[i].partition \in Partitions
      BY <2>2, BatchHolds
    <3>2. CASE i \notin unpublished
      BY <1>7, <2>2, <3>1, <3>2 DEF PublishTopic, Stages, IsPublished
    <3>3. CASE i \in unpublished
      BY <1>7, <2>2, <2>3, <3>1, <3>3 DEF PublishTopic, IsPublished, OffsetsAt
    <3> QED
      BY <3>2, <3>3
  <2>4. unpublished' \subseteq unpublished
    BY <1>7 DEF PublishTopic
  <2> QED
    BY <1>7, <2>1, <2>2, <2>3, <2>4 DEF PublishTopic, Stages
<1>8. ASSUME FailPublish PROVE Stages'
  <2>1. Decodable' = Decodable /\ Broken' = Broken
    BY <1>8 DEF FailPublish, batchVars, Decodable, Broken, Bad
  <2>2. \A i \in Decodable : (IsPublished(i) => IsPublished(i)') /\ (IsAcked(i) => IsAcked(i)')
    BY <1>8 DEF FailPublish, batchVars, IsPublished, IsAcked
  <2> QED
    BY <1>8, <2>1, <2>2 DEF FailPublish, streamVars, batchVars, Stages
<1>9. ASSUME AllPublished PROVE Stages'
  <2>1. Decodable' = Decodable /\ Broken' = Broken
    BY <1>9 DEF AllPublished, batchVars, Decodable, Broken, Bad
  <2>2. \A i \in Decodable : (IsPublished(i) => IsPublished(i)') /\ (IsAcked(i) => IsAcked(i)')
    BY <1>9 DEF AllPublished, batchVars, IsPublished, IsAcked
  <2> QED
    BY <1>9, <2>1, <2>2 DEF AllPublished, streamVars, batchVars, Stages
<1>10. ASSUME CommitNext PROVE Stages'
  <2> DEFINE next == First(uncommitted)
  <2>1. next \in uncommitted
    <3>1. uncommitted \subseteq Nat
      BY DEF KafkaTypeOK
    <3> QED
      BY <1>10, <3>1, FirstIn DEF CommitNext
  <2>2. next \in Decodable /\ next \in 1..Len(batch)
    BY <1>10, <2>1 DEF CommitNext, Stages, KafkaTypeOK
  <2>3. Decodable' = Decodable /\ Broken' = Broken
    BY <1>10 DEF CommitNext, Decodable, Broken, Bad
  <2>4. /\ batch' = batch /\ published' = published /\ phase' = phase
        /\ uncommitted' = uncommitted \ {next} /\ cause' = cause /\ terminal' = terminal
        /\ unpublished' = unpublished
    BY <1>10 DEF CommitNext
  <2>5. /\ \A p \in Partitions : acked[p] \subseteq acked'[p]
        /\ batch[next].partition \in Partitions
        /\ batch[next].offset \in acked'[batch[next].partition]
    BY <1>10, <2>2, BatchHolds DEF CommitNext, KafkaTypeOK
  <2>6. \A i \in Decodable : batch[i].partition \in Partitions
    BY BatchHolds DEF KafkaTypeOK, Decodable
  <2> HIDE DEF next
  <2>7. \A i \in Decodable \ uncommitted' : IsAcked(i)'
    BY <1>10, <2>4, <2>5, <2>6 DEF CommitNext, Stages, IsAcked
  <2>8. \A i \in Decodable : IsPublished(i)'
    BY <1>10, <2>4 DEF CommitNext, Stages, IsPublished
  <2> QED
    BY <1>10, <2>3, <2>4, <2>7, <2>8 DEF CommitNext, Stages
<1>11. ASSUME FailCommit PROVE Stages'
  <2>1. Decodable' = Decodable /\ Broken' = Broken
    BY <1>11 DEF FailCommit, batchVars, Decodable, Broken, Bad
  <2>2. \A i \in Decodable : (IsPublished(i) => IsPublished(i)') /\ (IsAcked(i) => IsAcked(i)')
    BY <1>11 DEF FailCommit, batchVars, IsPublished, IsAcked
  <2> QED
    BY <1>11, <2>1, <2>2 DEF FailCommit, streamVars, batchVars, Stages
<1>12. ASSUME EndBatch PROVE Stages'
  <2>1. CASE phase' = "taking"
    <3>1. terminal = "none" /\ terminal' = terminal
      BY <1>12, <2>1 DEF EndBatch, KafkaTypeOK, Terminals
    <3>2. cause' = "none"
      BY <1>12, <2>1 DEF EndBatch, Stages
    <3> QED
      BY <2>1, <3>1, <3>2 DEF Stages
  <2>2. CASE phase' # "taking"
    <3>1. /\ batch' = batch /\ Decodable' = Decodable /\ Broken' = Broken /\ events' = events
          /\ phase' \in {"failed", "ended"} /\ acked' = acked
      BY <1>12, <2>2 DEF EndBatch, Decodable, Broken, Bad, streamVars
    <3>2. \A i \in Decodable : IsAcked(i)'
      BY <1>12, <3>1 DEF EndBatch, Stages, IsAcked
    <3>3. cause' = "stream" => ~ Broken /\ events = <<>>
      BY <1>12 DEF EndBatch, Stages, TerminalIsLast
    <3> QED
      BY <3>1, <3>2, <3>3 DEF Stages
  <2> QED
    BY <2>1, <2>2
<1>13. ASSUME Stop PROVE Stages'
  <2>1. Decodable' = Decodable /\ Broken' = Broken
    BY <1>13 DEF Stop, batchVars, Decodable, Broken, Bad
  <2>2. \A i \in Decodable : (IsPublished(i) => IsPublished(i)') /\ (IsAcked(i) => IsAcked(i)')
    BY <1>13 DEF Stop, batchVars, IsPublished, IsAcked
  <2> QED
    BY <1>13, <2>1, <2>2 DEF Stop, streamVars, batchVars, Stages
<1>14. ASSUME Restart PROVE Stages'
  BY <1>14 DEF Restart, Stages
<1>15. ASSUME UNCHANGED vars PROVE Stages'
  BY <1>15 DEF vars, streamVars, batchVars, Stages, Broken, Decodable, Bad, IsPublished, IsAcked
<1> QED
  BY <1>1, <1>2, <1>3, <1>4, <1>5, <1>6, <1>7, <1>8, <1>9, <1>10, <1>11, <1>12, <1>13, <1>14, <1>15 DEF Next, IngressStep

\* The ingress starts in the invariant.
LEMMA InitialInv == Init => KafkaInv
<1> SUFFICES ASSUME Init PROVE KafkaInv
  OBVIOUS
<1>1. KafkaTypeOK
  BY DEF Init, KafkaTypeOK, Live, Beginning, Nothing
<1>2. Bounds
  <2>1. \A p \in Partitions : Len(Log[p]) \in Nat
    BY KafkaAssumption
  <2> QED
    BY <2>1 DEF Init, Bounds, Beginning
<1>3. InStreamOrder /\ Read /\ NoneLost /\ TerminalIsLast
  BY DEF Init, InStreamOrder, BatchInOrder, QueueInOrder, BatchFirst, Read, NoneLost,
         TerminalIsLast, Beginning
<1>4. PublishedFirst /\ Stages
  BY DEF Init, PublishedFirst, Nothing, Stages
<1> QED
  BY <1>1, <1>2, <1>3, <1>4 DEF KafkaInv

\* The invariant holds of every state a region's ingress can be in.
THEOREM IngressInductive == Spec => []KafkaInv
<1>1. Init => KafkaInv
  BY InitialInv
<1>2. KafkaInv /\ [Next]_vars => KafkaInv'
  BY KafkaTypes, KafkaBounds, KafkaInOrder, KafkaRead, KafkaNoneLost,
     KafkaPublishedFirst, KafkaStages, KafkaTerminals DEF KafkaInv
<1> QED
  BY <1>1, <1>2, PTL DEF Spec
-------------------------------------------------------------------------------
(* What the invariant promises. *)

\* When a message cannot be decoded or the stream fails, everything taken before
\* has been published and committed (FlushedBeforeFailure, checked by the run).
THEOREM Flushed == Spec => []FlushedBeforeFailure
<1>1. KafkaInv => FlushedBeforeFailure
  <2> SUFFICES ASSUME KafkaInv, phase = "failed", cause \in {"decode", "stream"},
                      NEW p \in Partitions, NEW o \in (start[p] + 1)..fetched[p],
                      o \notin acked[p]
               PROVE  IF cause = "decode"
                      THEN \/ o \in Offsets[p] /\ MessageEvent([partition |-> p, offset |-> o])
                                                    \in Range(events)
                           \/ o \in OffsetsAt((1..Len(batch)) \ Decodable, p)
                      ELSE FALSE
    BY DEF FlushedBeforeFailure
  <2>1. InBatch(p, o) \/ InQueue(p, o)
    BY DEF KafkaInv, NoneLost
  <2>2. \A i \in Decodable : IsAcked(i)
    BY DEF KafkaInv, Stages
  <2>3. CASE InBatch(p, o)
    <3>1. PICK i \in 1..Len(batch) : batch[i].partition = p /\ batch[i].offset = o
      BY <2>3 DEF InBatch
    <3>2. i \notin Decodable
      BY <2>2, <3>1 DEF IsAcked
    <3>3. Broken
      BY <3>2 DEF Decodable, Broken
    <3>4. cause = "decode"
      BY <3>3 DEF KafkaInv, Stages
    <3> QED
      BY <3>1, <3>2, <3>4 DEF OffsetsAt
  <2>4. CASE InQueue(p, o)
    <3>1. PICK i \in 1..Len(events) : Queued(i, p) /\ events[i].message.offset = o
      BY <2>4 DEF InQueue
    <3>2. events \in Seq(StreamEvents)
      BY DEF KafkaInv, KafkaTypeOK
    <3>3. cause = "decode"
      BY <3>1, <3>2 DEF KafkaInv, Stages
    <3>4. events[i] = MessageEvent([partition |-> p, offset |-> o])
      <4>1. events[i] \in StreamEvents /\ events[i].tag = "message"
        BY <3>1, <3>2, QueueHolds DEF Queued
      <4>2. events[i] \in [tag : {"message"}, message : Messages]
        BY <4>1 DEF StreamEvents, Terminals
      <4>3. events[i] = [tag |-> "message", message |-> events[i].message]
        BY <4>2
      <4>4. events[i].message \in Messages
        BY <4>2
      <4>5. events[i].message = [partition |-> p, offset |-> o]
        BY <3>1, <4>4 DEF Messages, Queued
      <4> QED
        BY <4>3, <4>5 DEF MessageEvent
    <3>5. events[i] \in Range(events)
      BY <3>2 DEF Range
    <3>6. o \in Offsets[p]
      <4>1. /\ start[p] \in Nat /\ fetched[p] \in Nat /\ fetched[p] <= Len(Log[p])
            /\ Len(Log[p]) \in Nat
        BY KafkaAssumption DEF KafkaInv, KafkaTypeOK, Bounds
      <4> QED
        BY <4>1 DEF Offsets
    <3> QED
      BY <3>3, <3>4, <3>5, <3>6
  <2> QED
    BY <2>1, <2>3, <2>4
<1> QED
  BY <1>1, IngressInductive, PTL

\* The offset up to which everything since the start has been published.
IsApplied(p, a) ==
  /\ a \in start[p]..Len(Log[p])
  /\ \A k \in (start[p] + 1)..a : k \in published[p]
  /\ a < Len(Log[p]) => a + 1 \notin published[p]

\* Every partition has an offset up to which all is published and no further.
LEMMA AppliedExists ==
  ASSUME KafkaInv, NEW p \in Partitions
  PROVE  IsApplied(p, Applied(p))
<1>1. /\ start[p] \in Nat /\ start[p] <= Len(Log[p]) /\ Len(Log[p]) \in Nat
  BY KafkaAssumption DEF KafkaInv, KafkaTypeOK, Bounds
<1> DEFINE Stops == {n \in start[p]..Len(Log[p]) :
                       n < Len(Log[p]) => n + 1 \notin published[p]}
<1>2. Len(Log[p]) \in Stops /\ Stops \subseteq Nat
  BY <1>1
<1>3. PICK a \in Stops : \A m \in Stops : a <= m
  <2> HIDE DEF Stops
  <2> QED
    BY <1>2, LeastNatural
<1>4. ASSUME NEW k \in (start[p] + 1)..a PROVE k \in published[p]
  <2>1. k - 1 \in start[p]..Len(Log[p]) /\ k - 1 < a /\ k - 1 < Len(Log[p])
    BY <1>1, <1>3
  <2>2. k - 1 \notin Stops
    BY <1>1, <1>3, <2>1
  <2> QED
    BY <1>1, <2>1, <2>2
<1>5. IsApplied(p, a)
  BY <1>3, <1>4 DEF IsApplied
<1> QED
  BY <1>5 DEF IsApplied, Applied

\* It is the only one with this property, and below every offset that is.
LEMMA AppliedIs ==
  ASSUME KafkaInv, NEW p \in Partitions,
         NEW b \in start[p]..Len(Log[p]), \A k \in (start[p] + 1)..b : k \in published[p]
  PROVE  /\ Applied(p) \in b..Len(Log[p])
         /\ (b < Len(Log[p]) => b + 1 \notin published[p]) => Applied(p) = b
<1>1. /\ start[p] \in Nat /\ start[p] <= Len(Log[p]) /\ Len(Log[p]) \in Nat
  BY KafkaAssumption DEF KafkaInv, KafkaTypeOK, Bounds
<1>2. IsApplied(p, Applied(p))
  BY AppliedExists
<1> DEFINE a == Applied(p)
<1> HIDE DEF a
<1>3. /\ a \in start[p]..Len(Log[p])
      /\ a < Len(Log[p]) => a + 1 \notin published[p]
      /\ \A k \in (start[p] + 1)..a : k \in published[p]
  BY <1>2 DEF IsApplied, a
<1>4. a >= b
  <2> SUFFICES ASSUME a < b PROVE FALSE
    BY <1>1, <1>3
  <2>1. a + 1 \in (start[p] + 1)..b /\ a < Len(Log[p])
    BY <1>1, <1>3
  <2> QED
    BY <1>3, <2>1
<1>5. ASSUME b < Len(Log[p]) => b + 1 \notin published[p], b < a PROVE FALSE
  <2>1. b + 1 \in (start[p] + 1)..a /\ b < Len(Log[p])
    BY <1>1, <1>3, <1>5
  <2> QED
    BY <1>3, <1>5, <2>1
<1> QED
  BY <1>1, <1>3, <1>4, <1>5 DEF a

\* A step that publishes applies records in log order.
LEMMA PublishApplies ==
  ASSUME KafkaInv, KafkaInv', PublishTopic
  PROVE  Ingested!Apply
<1>1. start' = start /\ committed' = committed
  BY DEF PublishTopic, streamVars
<1>2. \A p \in Partitions : published[p] \subseteq published'[p]
  BY DEF PublishTopic, KafkaInv, KafkaTypeOK
<1>3. ASSUME NEW p \in Partitions
      PROVE  /\ Applied(p)' \in Nat
             /\ Applied(p)' \in Applied(p)..Len(Log[p])
             /\ \A k \in (Applied(p) + 1)..Applied(p)' : Log[p][k] = "ok"
  <2>1. start[p] \in Nat /\ Len(Log[p]) \in Nat
    BY KafkaAssumption DEF KafkaInv, KafkaTypeOK
  <2>2. IsApplied(p, Applied(p)) /\ IsApplied(p, Applied(p))'
    <3>1. IsApplied(p, Applied(p))
      BY AppliedExists
    <3>2. IsApplied(p, Applied(p))'
      BY AppliedExists, PTL
    <3> QED
      BY <3>1, <3>2
  <2> DEFINE a == Applied(p)
             b == Applied(p)'
  <2> HIDE DEF a, b
  <2>3. /\ a \in start[p]..Len(Log[p])
        /\ \A k \in (start[p] + 1)..a : k \in published'[p]
    BY <1>2, <2>2 DEF IsApplied, a
  <2>4. /\ b \in start[p]..Len(Log[p])
        /\ \A k \in (start[p] + 1)..b : k \in published'[p]
        /\ b < Len(Log[p]) => b + 1 \notin published'[p]
    BY <1>1, <2>2 DEF IsApplied, b
  <2>5. a <= b
    <3> SUFFICES ASSUME b < a PROVE FALSE
      BY <2>1, <2>3, <2>4
    <3>1. b + 1 \in (start[p] + 1)..a /\ b < Len(Log[p])
      BY <2>1, <2>3, <2>4
    <3> QED
      BY <2>3, <2>4, <3>1
  <2>6. \A k \in (a + 1)..b : Log[p][k] = "ok"
    <3>1. \A k \in (a + 1)..b : k \in (start[p] + 1)..b
      BY <2>1, <2>3, <2>4
    <3> QED
      BY <2>4, <3>1 DEF KafkaInv, PublishedFirst
  <2> QED
    BY <2>1, <2>3, <2>4, <2>5, <2>6 DEF a, b
<1> QED
  BY <1>1, <1>3 DEF Ingested!Apply, Ingested!Applicable

\* A commit passes only what has been applied: what lies before it in the log was
\* published with it or earlier.
LEMMA CommitFollows ==
  ASSUME KafkaInv, CommitNext
  PROVE  \E p \in Partitions : Ingested!CommitOffset(p)
<1> DEFINE next == First(uncommitted)
           p == batch[next].partition
           o == batch[next].offset
<1>1. next \in Decodable /\ next \in 1..Len(batch)
  <2>1. uncommitted \subseteq Nat /\ uncommitted # {} /\ uncommitted \subseteq Decodable
    BY DEF KafkaInv, KafkaTypeOK, CommitNext, Stages
  <2> QED
    BY <2>1, FirstIn DEF Decodable
<1>2. start' = start /\ published' = published
  BY DEF CommitNext, streamVars
<1>3. committed' = [committed EXCEPT ![p] = o]
  BY DEF CommitNext
<1>4. p \in Partitions /\ o \in (start[p] + 1)..fetched[p]
  BY <1>1, BatchHolds DEF KafkaInv, KafkaTypeOK, Read
<1>5. \A i \in Decodable : IsPublished(i)
  BY DEF CommitNext, KafkaInv, Stages
<1> HIDE DEF p, o
<1>6. ASSUME NEW k \in (start[p] + 1)..o PROVE k \in published[p]
  <2>1. start[p] \in Nat /\ fetched[p] \in Nat
    BY <1>4 DEF KafkaInv, KafkaTypeOK
  <2>2. k \in (start[p] + 1)..fetched[p] /\ k <= o /\ o \in Nat
    BY <1>4, <2>1
  <2>3. k \in acked[p] \/ InBatch(p, k) \/ InQueue(p, k)
    BY <1>4, <2>2 DEF KafkaInv, NoneLost
  <2>4. CASE k \in acked[p]
    BY <1>4, <2>4 DEF KafkaInv, PublishedFirst
  <2>5. CASE InBatch(p, k)
    <3>1. PICK i \in 1..Len(batch) : batch[i].partition = p /\ batch[i].offset = k
      BY <2>5 DEF InBatch
    <3>2. ~ (next < i)
      BY <1>1, <2>2, <3>1 DEF KafkaInv, InStreamOrder, BatchInOrder, p, o
    <3>3. i \in Decodable
      BY <1>1, <3>2 DEF Decodable
    <3> QED
      BY <1>5, <3>1, <3>3 DEF IsPublished
  <2>6. CASE InQueue(p, k)
    <3>1. PICK i \in 1..Len(events) : Queued(i, p) /\ events[i].message.offset = k
      BY <2>6 DEF InQueue
    <3>2. o < k
      BY <1>1, <3>1 DEF KafkaInv, InStreamOrder, BatchFirst, p, o
    <3> QED
      BY <2>2, <3>2
  <2> QED
    BY <2>3, <2>4, <2>5, <2>6
<1>7. /\ start[p] \in Nat /\ fetched[p] \in Nat /\ fetched[p] <= Len(Log[p])
      /\ Len(Log[p]) \in Nat
  BY <1>4, KafkaAssumption DEF KafkaInv, KafkaTypeOK, Bounds
<1>8. o \in start[p]..Len(Log[p]) /\ o \in Nat /\ o > start[p]
  BY <1>4, <1>7
<1>9. Applied(p) \in o..Len(Log[p])
  BY <1>4, <1>6, <1>8, AppliedIs
<1>10. o \in (start[p] + 1)..Applied(p)
  BY <1>7, <1>8, <1>9
<1>11. UNCHANGED [q \in Partitions |-> Applied(q)]
  BY <1>2 DEF Applied
<1> QED
  BY <1>2, <1>3, <1>4, <1>10, <1>11 DEF Ingested!CommitOffset

\* A restart forgets what was applied and resumes where its policy says.
LEMMA RestartResumes ==
  ASSUME KafkaInv, KafkaInv', Restart
  PROVE  Ingested!Resume
<1>1. /\ start' = committed \/ start' = [p \in Partitions |-> 0]
      /\ committed' = committed /\ published' = Nothing
  BY DEF Restart, Beginning
<1>2. ASSUME NEW p \in Partitions PROVE Applied(p)' = start'[p]
  <2>1. /\ start'[p] \in Nat /\ Len(Log[p]) \in Nat /\ start'[p] <= Len(Log[p])
        /\ published'[p] = {}
    BY <1>1, KafkaAssumption DEF KafkaInv, KafkaTypeOK, Bounds, Nothing
  <2>2. IsApplied(p, Applied(p))'
    BY AppliedExists, PTL
  <2> DEFINE b == Applied(p)'
  <2>3. /\ b \in start'[p]..Len(Log[p])
        /\ \A k \in (start'[p] + 1)..b : k \in published'[p]
    BY <2>2 DEF IsApplied
  <2> HIDE DEF b
  <2>4. b = start'[p]
    BY <2>1, <2>3
  <2> QED
    BY <2>4 DEF b
<1>3. start' = [p \in Partitions |-> start'[p]]
  BY DEF KafkaInv, KafkaTypeOK
<1> QED
  BY <1>1, <1>2, <1>3 DEF Ingested!Resume

\* The ingress implements the promise of IngestedLog (AtLeastOnce, checked by
\* the run): a batch's publication applies records in log order, a commit follows
\* everything before it, a restart resumes, and no other step shows.
THEOREM IngressImplementsLog == Spec => AtLeastOnce
<1>1. Init => Ingested!LogInit
  <2> SUFFICES ASSUME Init PROVE Ingested!LogInit
    OBVIOUS
  <2>1. KafkaInv
    BY InitialInv
  <2>2. ASSUME NEW p \in Partitions PROVE Applied(p) = 0
    <3>1. IsApplied(p, Applied(p))
      BY <2>1, AppliedExists
    <3>2. start[p] = 0 /\ published[p] = {} /\ Len(Log[p]) \in Nat
      BY KafkaAssumption DEF Init, Beginning, Nothing
    <3> DEFINE b == Applied(p)
    <3> HIDE DEF b
    <3>3. b \in 0..Len(Log[p]) /\ \A k \in 1..b : FALSE
      BY <3>1, <3>2 DEF IsApplied, b
    <3>4. b = 0
      BY <3>2, <3>3
    <3> QED
      BY <3>4 DEF b
  <2> QED
    BY <2>2 DEF Init, Beginning, Ingested!LogInit
<1>2. KafkaInv /\ KafkaInv' /\ [Next]_vars => [Ingested!LogNext]_(Ingested!logVars)
  <2> SUFFICES ASSUME KafkaInv, KafkaInv', [Next]_vars
               PROVE  [Ingested!LogNext]_(Ingested!logVars)
    OBVIOUS
  <2>1. CASE PublishTopic
    BY <2>1, PublishApplies DEF Ingested!LogNext
  <2>2. CASE CommitNext
    BY <2>2, CommitFollows DEF Ingested!LogNext
  <2>3. CASE Restart
    BY <2>3, RestartResumes DEF Ingested!LogNext
  <2>4. ASSUME start' = start, published' = published, committed' = committed
        PROVE  UNCHANGED Ingested!logVars
    BY <2>4 DEF Ingested!logVars, Applied
  <2>5. ASSUME \/ \E p \in Partitions : Fetch(p)
               \/ \E how \in Terminals : EndSource(how)
               \/ TakeMessage \/ TakeTerminal \/ FlushDeadline \/ Decode
               \/ FailPublish \/ AllPublished \/ FailCommit \/ EndBatch \/ Stop
               \/ UNCHANGED vars
        PROVE  start' = start /\ published' = published /\ committed' = committed
    BY <2>5 DEF Fetch, EndSource, TakeMessage, TakeTerminal, FlushDeadline, Decode,
                FailPublish, AllPublished, FailCommit, EndBatch, Stop, vars, streamVars
  <2> QED
    BY <2>1, <2>2, <2>3, <2>4, <2>5 DEF Next, IngressStep
<1> QED
  BY <1>1, <1>2, IngressInductive, PTL DEF Spec, AtLeastOnce, Ingested!LogSpec

===============================================================================
