--------------------------- MODULE TopicStoreProofs ---------------------------
(***************************************************************************)
(* Proofs about one topic store, for any number of fibers, queries and     *)
(* contents, any queue capacity, and either scheduling of a mutation.      *)
(* First critical sections, leases and registrations.  Then the discipline *)
(* of streams: nothing reaches a subscription before its snapshot, one     *)
(* fiber ends it, the end is told and is the last event, and the health    *)
(* ledger counts mutations.  Then what they deliver: each subscription's   *)
(* events form a gapless chain from its snapshot, each of them shows a     *)
(* committed version, and the chain ends at the evaluation the next delta  *)
(* starts from.  That holds when a mutation's write and its commit are one *)
(* step for the scheduler; TopicStoreTorn.cfg shows what happens otherwise. *)
(***************************************************************************)
EXTENDS TopicStore, FiniteSetTheorems, SequenceTheorems, TLAPS

\* The lock discipline is inductive by itself: each step that enters or leaves a
\* critical section takes or releases that section's permit.
LEMMA PermitsStep ==
  ASSUME FiberTypeOK, PermitsMatchSections, [Next]_vars
  PROVE  PermitsMatchSections'
<1> USE FiberAssumption DEF FiberTypeOK, Fibers, MutatorStates,
      SubscriberStates, AdminStates, PermitsMatchSections, HoldsMutation,
      HoldsNotification
<1>1. ASSUME NEW m \in Mutators, BeginMutation(m) PROVE PermitsMatchSections'
  BY <1>1 DEF BeginMutation, Goto, lockVars
<1>2. ASSUME NEW m \in Mutators, InterruptMutation(m) PROVE PermitsMatchSections'
  BY <1>2 DEF InterruptMutation, Goto, lockVars
<1>3. ASSUME NEW m \in Mutators, EnterMutation(m) PROVE PermitsMatchSections'
  BY <1>3 DEF EnterMutation, Goto
<1>4. ASSUME NEW m \in Mutators, WriteRows(m) PROVE PermitsMatchSections'
  BY <1>4 DEF WriteRows, Goto, lockVars
<1>5. ASSUME NEW m \in Mutators, CommitRows(m) PROVE PermitsMatchSections'
  BY <1>5 DEF CommitRows, Goto
<1>6. ASSUME NEW m \in Mutators, ChangeNothing(m) PROVE PermitsMatchSections'
  BY <1>6 DEF ChangeNothing, Goto
<1>7. ASSUME NEW m \in Mutators, FailMutation(m) PROVE PermitsMatchSections'
  BY <1>7 DEF FailMutation, Goto
<1>8. ASSUME NEW m \in Mutators, EnterNotification(m) PROVE PermitsMatchSections'
  BY <1>8 DEF EnterNotification, Goto
<1>9. ASSUME NEW m \in Mutators, NEW s \in Subscribers, SkipClosed(m, s) PROVE PermitsMatchSections'
  BY <1>9 DEF SkipClosed, Notifying, lockVars
<1>10. ASSUME NEW m \in Mutators, NEW s \in Subscribers, NotifyUnchanged(m, s) PROVE PermitsMatchSections'
  BY <1>10 DEF NotifyUnchanged, Notifying, lockVars
<1>11. ASSUME NEW m \in Mutators, NEW s \in Subscribers, NotifyDelta(m, s) PROVE PermitsMatchSections'
  BY <1>11 DEF NotifyDelta, Notifying, lockVars
<1>12. ASSUME NEW m \in Mutators, NEW s \in Subscribers, NotifyDropped(m, s) PROVE PermitsMatchSections'
  BY <1>12 DEF NotifyDropped, Goto, Notifying, lockVars
<1>13. ASSUME NEW m \in Mutators, EvictSubscriber(m) PROVE PermitsMatchSections'
  BY <1>13 DEF EvictSubscriber, Goto, lockVars
<1>14. ASSUME NEW m \in Mutators, SendBackpressure(m) PROVE PermitsMatchSections'
  BY <1>14 DEF SendBackpressure, Goto, lockVars
<1>15. ASSUME NEW m \in Mutators, EndMutation(m) PROVE PermitsMatchSections'
  BY <1>15 DEF EndMutation, Goto
<1>16. ASSUME NEW s \in Subscribers, BeginSubscribe(s) PROVE PermitsMatchSections'
  BY <1>16 DEF BeginSubscribe, Goto, lockVars
<1>17. ASSUME NEW s \in Subscribers, InterruptSubscribe(s) PROVE PermitsMatchSections'
  BY <1>17 DEF InterruptSubscribe, Goto, lockVars
<1>18. ASSUME NEW s \in Subscribers, EnterSubscribe(s) PROVE PermitsMatchSections'
  BY <1>18 DEF EnterSubscribe, Goto
<1>35. ASSUME NEW s \in Subscribers, AdmitSubscriber(s) PROVE PermitsMatchSections'
  BY <1>35 DEF AdmitSubscriber, Goto, lockVars
<1>19. ASSUME NEW s \in Subscribers, RejectSubscribe(s) PROVE PermitsMatchSections'
  BY <1>19 DEF RejectSubscribe, Goto
<1>20. ASSUME NEW s \in Subscribers, RegisterSubscriber(s) PROVE PermitsMatchSections'
  BY <1>20 DEF RegisterSubscriber, Goto, lockVars
<1>21. ASSUME NEW s \in Subscribers, OfferSnapshot(s) PROVE PermitsMatchSections'
  BY <1>21 DEF OfferSnapshot, Goto
<1>22. ASSUME NEW s \in Subscribers, TakeEvent(s) PROVE PermitsMatchSections'
  BY <1>22 DEF TakeEvent, lockVars
<1>23. ASSUME NEW s \in Subscribers, BeginClose(s) PROVE PermitsMatchSections'
  BY <1>23 DEF BeginClose, Goto, lockVars
<1>36. ASSUME NEW s \in Subscribers, InterruptClose(s) PROVE PermitsMatchSections'
  BY <1>36 DEF InterruptClose, Goto, lockVars
<1>24. ASSUME NEW s \in Subscribers, CloseTakesNotification(s) PROVE PermitsMatchSections'
  BY <1>24 DEF CloseTakesNotification, Goto
<1>25. ASSUME NEW s \in Subscribers, CloseTakesMutation(s) PROVE PermitsMatchSections'
  BY <1>25 DEF CloseTakesMutation, Goto
<1>26. ASSUME NEW s \in Subscribers, FinishClose(s) PROVE PermitsMatchSections'
  BY <1>26 DEF FinishClose, Goto
<1>27. ASSUME NEW a \in Admins, BeginReset(a) PROVE PermitsMatchSections'
  BY <1>27 DEF BeginReset, Goto, lockVars
<1>28. ASSUME NEW a \in Admins, BeginEngineClose(a) PROVE PermitsMatchSections'
  BY <1>28 DEF BeginEngineClose, Goto, lockVars
<1>29. ASSUME NEW a \in Admins, AdminTakesNotification(a) PROVE PermitsMatchSections'
  BY <1>29 DEF AdminTakesNotification, Goto
<1>30. ASSUME NEW a \in Admins, ResetStore(a) PROVE PermitsMatchSections'
  BY <1>30 DEF ResetStore, Goto, DrainSubscribers
<1>31. ASSUME NEW a \in Admins, CloseStore(a) PROVE PermitsMatchSections'
  BY <1>31 DEF CloseStore, Goto, DrainSubscribers
<1>32. ASSUME NEW a \in Admins, NEW s \in Subscribers, CloseWithStatus(a, s) PROVE PermitsMatchSections'
  BY <1>32 DEF CloseWithStatus, lockVars
<1>33. ASSUME NEW a \in Admins, EndTransition(a) PROVE PermitsMatchSections'
  BY <1>33 DEF EndTransition, Goto
<1>34. CASE UNCHANGED vars
  BY <1>34 DEF vars, lockVars
<1> QED
  BY <1>1, <1>2, <1>3, <1>4, <1>5, <1>6, <1>7, <1>8, <1>9, <1>10, <1>11,
     <1>12, <1>13, <1>14, <1>15, <1>16, <1>17, <1>18, <1>19, <1>20, <1>21,
     <1>22, <1>23, <1>24, <1>25, <1>26, <1>27, <1>28, <1>29, <1>30, <1>31,
     <1>32, <1>33, <1>34, <1>35, <1>36
     DEF Next, MutatorStep, SubscribeStep, CloseStep, AdminStep

\* Where fibers stand, who holds the permits and whom they are to notify.
LEMMA FiberTypeStep ==
  ASSUME FiberTypeOK, StreamTypeOK, [Next]_vars
  PROVE  FiberTypeOK'
<1> USE FiberAssumption DEF FiberTypeOK, StreamTypeOK, Fibers, MutatorStates,
      SubscriberStates, AdminStates
<1>1. ASSUME NEW m \in Mutators, BeginMutation(m) PROVE FiberTypeOK'
  BY <1>1 DEF BeginMutation, Goto, lockVars
<1>2. ASSUME NEW m \in Mutators, InterruptMutation(m) PROVE FiberTypeOK'
  BY <1>2 DEF InterruptMutation, Goto, lockVars
<1>3. ASSUME NEW m \in Mutators, EnterMutation(m) PROVE FiberTypeOK'
  BY <1>3 DEF EnterMutation, Goto
<1>4. ASSUME NEW m \in Mutators, WriteRows(m) PROVE FiberTypeOK'
  BY <1>4 DEF WriteRows, Goto, lockVars
<1>5. ASSUME NEW m \in Mutators, CommitRows(m) PROVE FiberTypeOK'
  BY <1>5 DEF CommitRows, Goto
<1>6. ASSUME NEW m \in Mutators, ChangeNothing(m) PROVE FiberTypeOK'
  BY <1>6 DEF ChangeNothing, Goto
<1>7. ASSUME NEW m \in Mutators, FailMutation(m) PROVE FiberTypeOK'
  BY <1>7 DEF FailMutation, Goto
<1>8. ASSUME NEW m \in Mutators, EnterNotification(m) PROVE FiberTypeOK'
  BY <1>8 DEF EnterNotification, Goto
<1>9. ASSUME NEW m \in Mutators, NEW s \in Subscribers, SkipClosed(m, s) PROVE FiberTypeOK'
  BY <1>9 DEF SkipClosed, Notifying, lockVars
<1>10. ASSUME NEW m \in Mutators, NEW s \in Subscribers, NotifyUnchanged(m, s) PROVE FiberTypeOK'
  BY <1>10 DEF NotifyUnchanged, Notifying, lockVars
<1>11. ASSUME NEW m \in Mutators, NEW s \in Subscribers, NotifyDelta(m, s) PROVE FiberTypeOK'
  BY <1>11 DEF NotifyDelta, Notifying, lockVars
<1>12. ASSUME NEW m \in Mutators, NEW s \in Subscribers, NotifyDropped(m, s) PROVE FiberTypeOK'
  BY <1>12 DEF NotifyDropped, Goto, Notifying, lockVars
<1>13. ASSUME NEW m \in Mutators, EvictSubscriber(m) PROVE FiberTypeOK'
  BY <1>13 DEF EvictSubscriber, Goto, lockVars
<1>14. ASSUME NEW m \in Mutators, SendBackpressure(m) PROVE FiberTypeOK'
  BY <1>14 DEF SendBackpressure, Goto, lockVars
<1>15. ASSUME NEW m \in Mutators, EndMutation(m) PROVE FiberTypeOK'
  BY <1>15 DEF EndMutation, Goto
<1>16. ASSUME NEW s \in Subscribers, BeginSubscribe(s) PROVE FiberTypeOK'
  BY <1>16 DEF BeginSubscribe, Goto, lockVars
<1>17. ASSUME NEW s \in Subscribers, InterruptSubscribe(s) PROVE FiberTypeOK'
  BY <1>17 DEF InterruptSubscribe, Goto, lockVars
<1>18. ASSUME NEW s \in Subscribers, EnterSubscribe(s) PROVE FiberTypeOK'
  BY <1>18 DEF EnterSubscribe, Goto
<1>35. ASSUME NEW s \in Subscribers, AdmitSubscriber(s) PROVE FiberTypeOK'
  BY <1>35 DEF AdmitSubscriber, Goto, lockVars
<1>19. ASSUME NEW s \in Subscribers, RejectSubscribe(s) PROVE FiberTypeOK'
  BY <1>19 DEF RejectSubscribe, Goto
<1>20. ASSUME NEW s \in Subscribers, RegisterSubscriber(s) PROVE FiberTypeOK'
  BY <1>20 DEF RegisterSubscriber, Goto, lockVars
<1>21. ASSUME NEW s \in Subscribers, OfferSnapshot(s) PROVE FiberTypeOK'
  BY <1>21 DEF OfferSnapshot, Goto
<1>22. ASSUME NEW s \in Subscribers, TakeEvent(s) PROVE FiberTypeOK'
  BY <1>22 DEF TakeEvent, lockVars
<1>23. ASSUME NEW s \in Subscribers, BeginClose(s) PROVE FiberTypeOK'
  BY <1>23 DEF BeginClose, Goto, lockVars
<1>36. ASSUME NEW s \in Subscribers, InterruptClose(s) PROVE FiberTypeOK'
  BY <1>36 DEF InterruptClose, Goto, lockVars
<1>24. ASSUME NEW s \in Subscribers, CloseTakesNotification(s) PROVE FiberTypeOK'
  BY <1>24 DEF CloseTakesNotification, Goto
<1>25. ASSUME NEW s \in Subscribers, CloseTakesMutation(s) PROVE FiberTypeOK'
  BY <1>25 DEF CloseTakesMutation, Goto
<1>26. ASSUME NEW s \in Subscribers, FinishClose(s) PROVE FiberTypeOK'
  BY <1>26 DEF FinishClose, Goto
<1>27. ASSUME NEW a \in Admins, BeginReset(a) PROVE FiberTypeOK'
  BY <1>27 DEF BeginReset, Goto, lockVars
<1>28. ASSUME NEW a \in Admins, BeginEngineClose(a) PROVE FiberTypeOK'
  BY <1>28 DEF BeginEngineClose, Goto, lockVars
<1>29. ASSUME NEW a \in Admins, AdminTakesNotification(a) PROVE FiberTypeOK'
  BY <1>29 DEF AdminTakesNotification, Goto
<1>30. ASSUME NEW a \in Admins, ResetStore(a) PROVE FiberTypeOK'
  BY <1>30 DEF ResetStore, Goto, DrainSubscribers
<1>31. ASSUME NEW a \in Admins, CloseStore(a) PROVE FiberTypeOK'
  BY <1>31 DEF CloseStore, Goto, DrainSubscribers
<1>32. ASSUME NEW a \in Admins, NEW s \in Subscribers, CloseWithStatus(a, s) PROVE FiberTypeOK'
  BY <1>32 DEF CloseWithStatus, lockVars
<1>33. ASSUME NEW a \in Admins, EndTransition(a) PROVE FiberTypeOK'
  BY <1>33 DEF EndTransition, Goto
<1>34. CASE UNCHANGED vars
  BY <1>34 DEF vars, lockVars
<1> QED
  BY <1>1, <1>2, <1>3, <1>4, <1>5, <1>6, <1>7, <1>8, <1>9, <1>10, <1>11,
     <1>12, <1>13, <1>14, <1>15, <1>16, <1>17, <1>18, <1>19, <1>20, <1>21,
     <1>22, <1>23, <1>24, <1>25, <1>26, <1>27, <1>28, <1>29, <1>30, <1>31,
     <1>32, <1>33, <1>34, <1>35, <1>36
     DEF Next, MutatorStep, SubscribeStep, CloseStep, AdminStep

\* The storage, its version, the history and the counters.
LEMMA StoreTypeStep ==
  ASSUME StoreTypeOK, [Next]_vars
  PROVE  StoreTypeOK'
<1> USE QueryAssumption DEF StoreTypeOK
<1>1. ASSUME NEW m \in Mutators, BeginMutation(m) PROVE StoreTypeOK'
  BY <1>1 DEF BeginMutation, storeVars
<1>2. ASSUME NEW m \in Mutators, InterruptMutation(m) PROVE StoreTypeOK'
  BY <1>2 DEF InterruptMutation, EndBatch, storeVars, boundVars
<1>3. ASSUME NEW m \in Mutators, EnterMutation(m) PROVE StoreTypeOK'
  BY <1>3 DEF EnterMutation, storeVars, boundVars
<1>4. ASSUME NEW m \in Mutators, WriteRows(m) PROVE StoreTypeOK'
  BY <1>4 DEF WriteRows, boundVars
<1>5. ASSUME NEW m \in Mutators, CommitRows(m) PROVE StoreTypeOK'
  BY <1>5 DEF CommitRows, boundVars
<1>6. ASSUME NEW m \in Mutators, ChangeNothing(m) PROVE StoreTypeOK'
  BY <1>6 DEF ChangeNothing, storeVars, boundVars
<1>7. ASSUME NEW m \in Mutators, FailMutation(m) PROVE StoreTypeOK'
  BY <1>7 DEF FailMutation, EndBatch, storeVars, boundVars
<1>8. ASSUME NEW m \in Mutators, EnterNotification(m) PROVE StoreTypeOK'
  BY <1>8 DEF EnterNotification, storeVars, boundVars
<1>9. ASSUME NEW m \in Mutators, NEW s \in Subscribers, SkipClosed(m, s) PROVE StoreTypeOK'
  BY <1>9 DEF SkipClosed, storeVars, boundVars
<1>10. ASSUME NEW m \in Mutators, NEW s \in Subscribers, NotifyUnchanged(m, s) PROVE StoreTypeOK'
  BY <1>10 DEF NotifyUnchanged, storeVars, boundVars
<1>11. ASSUME NEW m \in Mutators, NEW s \in Subscribers, NotifyDelta(m, s) PROVE StoreTypeOK'
  BY <1>11 DEF NotifyDelta, storeVars, boundVars
<1>12. ASSUME NEW m \in Mutators, NEW s \in Subscribers, NotifyDropped(m, s) PROVE StoreTypeOK'
  BY <1>12 DEF NotifyDropped, storeVars, boundVars
<1>13. ASSUME NEW m \in Mutators, EvictSubscriber(m) PROVE StoreTypeOK'
  BY <1>13 DEF EvictSubscriber, storeVars, boundVars
<1>14. ASSUME NEW m \in Mutators, SendBackpressure(m) PROVE StoreTypeOK'
  BY <1>14 DEF SendBackpressure, storeVars, boundVars
<1>15. ASSUME NEW m \in Mutators, EndMutation(m) PROVE StoreTypeOK'
  BY <1>15 DEF EndMutation, EndBatch, storeVars, boundVars
<1>16. ASSUME NEW s \in Subscribers, BeginSubscribe(s) PROVE StoreTypeOK'
  BY <1>16 DEF BeginSubscribe, storeVars, boundVars
<1>17. ASSUME NEW s \in Subscribers, InterruptSubscribe(s) PROVE StoreTypeOK'
  BY <1>17 DEF InterruptSubscribe, storeVars, boundVars
<1>18. ASSUME NEW s \in Subscribers, EnterSubscribe(s) PROVE StoreTypeOK'
  BY <1>18 DEF EnterSubscribe, storeVars, boundVars
<1>35. ASSUME NEW s \in Subscribers, AdmitSubscriber(s) PROVE StoreTypeOK'
  BY <1>35 DEF AdmitSubscriber, storeVars, boundVars
<1>19. ASSUME NEW s \in Subscribers, RejectSubscribe(s) PROVE StoreTypeOK'
  BY <1>19 DEF RejectSubscribe, storeVars, boundVars
<1>20. ASSUME NEW s \in Subscribers, RegisterSubscriber(s) PROVE StoreTypeOK'
  BY <1>20 DEF RegisterSubscriber, storeVars, boundVars
<1>21. ASSUME NEW s \in Subscribers, OfferSnapshot(s) PROVE StoreTypeOK'
  BY <1>21 DEF OfferSnapshot, storeVars, boundVars
<1>22. ASSUME NEW s \in Subscribers, TakeEvent(s) PROVE StoreTypeOK'
  BY <1>22 DEF TakeEvent, storeVars, boundVars
<1>23. ASSUME NEW s \in Subscribers, BeginClose(s) PROVE StoreTypeOK'
  BY <1>23 DEF BeginClose, storeVars, boundVars
<1>36. ASSUME NEW s \in Subscribers, InterruptClose(s) PROVE StoreTypeOK'
  BY <1>36 DEF InterruptClose, storeVars, boundVars
<1>24. ASSUME NEW s \in Subscribers, CloseTakesNotification(s) PROVE StoreTypeOK'
  BY <1>24 DEF CloseTakesNotification, storeVars, boundVars
<1>25. ASSUME NEW s \in Subscribers, CloseTakesMutation(s) PROVE StoreTypeOK'
  BY <1>25 DEF CloseTakesMutation, storeVars, boundVars
<1>26. ASSUME NEW s \in Subscribers, FinishClose(s) PROVE StoreTypeOK'
  BY <1>26 DEF FinishClose, storeVars, boundVars
<1>27. ASSUME NEW a \in Admins, BeginReset(a) PROVE StoreTypeOK'
  BY <1>27 DEF BeginReset, storeVars
<1>28. ASSUME NEW a \in Admins, BeginEngineClose(a) PROVE StoreTypeOK'
  BY <1>28 DEF BeginEngineClose, storeVars, boundVars
<1>29. ASSUME NEW a \in Admins, AdminTakesNotification(a) PROVE StoreTypeOK'
  BY <1>29 DEF AdminTakesNotification, storeVars, boundVars
<1>30. ASSUME NEW a \in Admins, ResetStore(a) PROVE StoreTypeOK'
  BY <1>30 DEF ResetStore, boundVars
<1>31. ASSUME NEW a \in Admins, CloseStore(a) PROVE StoreTypeOK'
  BY <1>31 DEF CloseStore, storeVars, boundVars
<1>32. ASSUME NEW a \in Admins, NEW s \in Subscribers, CloseWithStatus(a, s) PROVE StoreTypeOK'
  BY <1>32 DEF CloseWithStatus, storeVars, boundVars
<1>33. ASSUME NEW a \in Admins, EndTransition(a) PROVE StoreTypeOK'
  BY <1>33 DEF EndTransition, storeVars, boundVars
<1>34. CASE UNCHANGED vars
  BY <1>34 DEF vars, storeVars, boundVars
<1> QED
  BY <1>1, <1>2, <1>3, <1>4, <1>5, <1>6, <1>7, <1>8, <1>9, <1>10, <1>11,
     <1>12, <1>13, <1>14, <1>15, <1>16, <1>17, <1>18, <1>19, <1>20, <1>21,
     <1>22, <1>23, <1>24, <1>25, <1>26, <1>27, <1>28, <1>29, <1>30, <1>31,
     <1>32, <1>33, <1>34, <1>35, <1>36
     DEF Next, MutatorStep, SubscribeStep, CloseStep, AdminStep

\* A subscription that is not registered yet is out of reach of every close.
LEMMA FreshStep ==
  ASSUME FiberTypeOK, StreamTypeOK, RegisteredWhileOpen, FreshIsOpen,
         EvicteeKnown, DrainedIsClosed, [Next]_vars
  PROVE  FreshIsOpen'
<1> USE FiberAssumption DEF FiberTypeOK, StreamTypeOK, Fibers,
      RegisteredWhileOpen, FreshIsOpen, EvicteeKnown, DrainedIsClosed
<1>1. ASSUME NEW m \in Mutators, BeginMutation(m) PROVE FreshIsOpen'
  BY <1>1 DEF BeginMutation, Goto
<1>2. ASSUME NEW m \in Mutators, InterruptMutation(m) PROVE FreshIsOpen'
  BY <1>2 DEF InterruptMutation, Goto
<1>3. ASSUME NEW m \in Mutators, EnterMutation(m) PROVE FreshIsOpen'
  BY <1>3 DEF EnterMutation, Goto
<1>4. ASSUME NEW m \in Mutators, WriteRows(m) PROVE FreshIsOpen'
  BY <1>4 DEF WriteRows, Goto
<1>5. ASSUME NEW m \in Mutators, CommitRows(m) PROVE FreshIsOpen'
  BY <1>5 DEF CommitRows, Goto
<1>6. ASSUME NEW m \in Mutators, ChangeNothing(m) PROVE FreshIsOpen'
  BY <1>6 DEF ChangeNothing, Goto
<1>7. ASSUME NEW m \in Mutators, FailMutation(m) PROVE FreshIsOpen'
  BY <1>7 DEF FailMutation, Goto
<1>8. ASSUME NEW m \in Mutators, EnterNotification(m) PROVE FreshIsOpen'
  BY <1>8 DEF EnterNotification, Goto
<1>9. ASSUME NEW m \in Mutators, NEW s \in Subscribers, SkipClosed(m, s) PROVE FreshIsOpen'
  BY <1>9 DEF SkipClosed, Notifying
<1>10. ASSUME NEW m \in Mutators, NEW s \in Subscribers, NotifyUnchanged(m, s) PROVE FreshIsOpen'
  BY <1>10 DEF NotifyUnchanged, Notifying
<1>11. ASSUME NEW m \in Mutators, NEW s \in Subscribers, NotifyDelta(m, s) PROVE FreshIsOpen'
  BY <1>11 DEF NotifyDelta, Notifying
<1>12. ASSUME NEW m \in Mutators, NEW s \in Subscribers, NotifyDropped(m, s) PROVE FreshIsOpen'
  BY <1>12 DEF NotifyDropped, Goto, Notifying
<1>13. ASSUME NEW m \in Mutators, EvictSubscriber(m) PROVE FreshIsOpen'
  <2>1. evictee[m] \in Subscribers /\ pc[evictee[m]] \notin {"new", "waiting", "subscribing", "admitted"}
    BY <1>13 DEF EvictSubscriber
  <2>2. \A t \in Subscribers : pc'[t] = pc[t]
    BY <1>13 DEF EvictSubscriber, Goto
  <2>3. \A t \in Subscribers : t # evictee[m] => closed'[t] = closed[t]
    BY <1>13 DEF EvictSubscriber
  <2> QED
    BY <2>1, <2>2, <2>3
<1>14. ASSUME NEW m \in Mutators, SendBackpressure(m) PROVE FreshIsOpen'
  BY <1>14 DEF SendBackpressure, Goto
<1>15. ASSUME NEW m \in Mutators, EndMutation(m) PROVE FreshIsOpen'
  BY <1>15 DEF EndMutation, Goto
<1>16. ASSUME NEW s \in Subscribers, BeginSubscribe(s) PROVE FreshIsOpen'
  BY <1>16 DEF BeginSubscribe, Goto
<1>17. ASSUME NEW s \in Subscribers, InterruptSubscribe(s) PROVE FreshIsOpen'
  BY <1>17 DEF InterruptSubscribe, Goto
<1>18. ASSUME NEW s \in Subscribers, EnterSubscribe(s) PROVE FreshIsOpen'
  BY <1>18 DEF EnterSubscribe, Goto
<1>35. ASSUME NEW s \in Subscribers, AdmitSubscriber(s) PROVE FreshIsOpen'
  BY <1>35 DEF AdmitSubscriber, Goto
<1>19. ASSUME NEW s \in Subscribers, RejectSubscribe(s) PROVE FreshIsOpen'
  BY <1>19 DEF RejectSubscribe, Goto
<1>20. ASSUME NEW s \in Subscribers, RegisterSubscriber(s) PROVE FreshIsOpen'
  BY <1>20 DEF RegisterSubscriber, Goto
<1>21. ASSUME NEW s \in Subscribers, OfferSnapshot(s) PROVE FreshIsOpen'
  BY <1>21 DEF OfferSnapshot, Goto
<1>22. ASSUME NEW s \in Subscribers, TakeEvent(s) PROVE FreshIsOpen'
  BY <1>22 DEF TakeEvent
<1>23. ASSUME NEW s \in Subscribers, BeginClose(s) PROVE FreshIsOpen'
  BY <1>23 DEF BeginClose, Goto
<1>36. ASSUME NEW s \in Subscribers, InterruptClose(s) PROVE FreshIsOpen'
  BY <1>36 DEF InterruptClose, Goto
<1>24. ASSUME NEW s \in Subscribers, CloseTakesNotification(s) PROVE FreshIsOpen'
  BY <1>24 DEF CloseTakesNotification, Goto
<1>25. ASSUME NEW s \in Subscribers, CloseTakesMutation(s) PROVE FreshIsOpen'
  BY <1>25 DEF CloseTakesMutation, Goto
<1>26. ASSUME NEW s \in Subscribers, FinishClose(s) PROVE FreshIsOpen'
  BY <1>26 DEF FinishClose, Goto
<1>27. ASSUME NEW a \in Admins, BeginReset(a) PROVE FreshIsOpen'
  BY <1>27 DEF BeginReset, Goto
<1>28. ASSUME NEW a \in Admins, BeginEngineClose(a) PROVE FreshIsOpen'
  BY <1>28 DEF BeginEngineClose, Goto
<1>29. ASSUME NEW a \in Admins, AdminTakesNotification(a) PROVE FreshIsOpen'
  BY <1>29 DEF AdminTakesNotification, Goto
<1>30. ASSUME NEW a \in Admins, ResetStore(a) PROVE FreshIsOpen'
  BY <1>30 DEF ResetStore, Goto, DrainSubscribers
<1>31. ASSUME NEW a \in Admins, CloseStore(a) PROVE FreshIsOpen'
  BY <1>31 DEF CloseStore, Goto, DrainSubscribers
<1>32. ASSUME NEW a \in Admins, NEW s \in Subscribers, CloseWithStatus(a, s) PROVE FreshIsOpen'
  BY <1>32 DEF CloseWithStatus
<1>33. ASSUME NEW a \in Admins, EndTransition(a) PROVE FreshIsOpen'
  BY <1>33 DEF EndTransition, Goto
<1>34. CASE UNCHANGED vars
  BY <1>34 DEF vars
<1> QED
  BY <1>1, <1>2, <1>3, <1>4, <1>5, <1>6, <1>7, <1>8, <1>9, <1>10, <1>11,
     <1>12, <1>13, <1>14, <1>15, <1>16, <1>17, <1>18, <1>19, <1>20, <1>21,
     <1>22, <1>23, <1>24, <1>25, <1>26, <1>27, <1>28, <1>29, <1>30, <1>31,
     <1>32, <1>33, <1>34, <1>35, <1>36
     DEF Next, MutatorStep, SubscribeStep, CloseStep, AdminStep

\* Registration and closure change together.
LEMMA RegisteredStep ==
  ASSUME FiberTypeOK, StreamTypeOK, RegisteredWhileOpen, FreshIsOpen,
         EvicteeKnown, DrainedIsClosed, [Next]_vars
  PROVE  RegisteredWhileOpen'
<1> USE FiberAssumption DEF FiberTypeOK, StreamTypeOK, Fibers,
      RegisteredWhileOpen, FreshIsOpen, EvicteeKnown, DrainedIsClosed
<1>1. ASSUME NEW m \in Mutators, BeginMutation(m) PROVE RegisteredWhileOpen'
  BY <1>1 DEF BeginMutation, Goto
<1>2. ASSUME NEW m \in Mutators, InterruptMutation(m) PROVE RegisteredWhileOpen'
  BY <1>2 DEF InterruptMutation, Goto
<1>3. ASSUME NEW m \in Mutators, EnterMutation(m) PROVE RegisteredWhileOpen'
  BY <1>3 DEF EnterMutation, Goto
<1>4. ASSUME NEW m \in Mutators, WriteRows(m) PROVE RegisteredWhileOpen'
  BY <1>4 DEF WriteRows, Goto
<1>5. ASSUME NEW m \in Mutators, CommitRows(m) PROVE RegisteredWhileOpen'
  BY <1>5 DEF CommitRows, Goto
<1>6. ASSUME NEW m \in Mutators, ChangeNothing(m) PROVE RegisteredWhileOpen'
  BY <1>6 DEF ChangeNothing, Goto
<1>7. ASSUME NEW m \in Mutators, FailMutation(m) PROVE RegisteredWhileOpen'
  BY <1>7 DEF FailMutation, Goto
<1>8. ASSUME NEW m \in Mutators, EnterNotification(m) PROVE RegisteredWhileOpen'
  BY <1>8 DEF EnterNotification, Goto
<1>9. ASSUME NEW m \in Mutators, NEW s \in Subscribers, SkipClosed(m, s) PROVE RegisteredWhileOpen'
  BY <1>9 DEF SkipClosed, Notifying
<1>10. ASSUME NEW m \in Mutators, NEW s \in Subscribers, NotifyUnchanged(m, s) PROVE RegisteredWhileOpen'
  BY <1>10 DEF NotifyUnchanged, Notifying
<1>11. ASSUME NEW m \in Mutators, NEW s \in Subscribers, NotifyDelta(m, s) PROVE RegisteredWhileOpen'
  BY <1>11 DEF NotifyDelta, Notifying
<1>12. ASSUME NEW m \in Mutators, NEW s \in Subscribers, NotifyDropped(m, s) PROVE RegisteredWhileOpen'
  BY <1>12 DEF NotifyDropped, Goto, Notifying
<1>13. ASSUME NEW m \in Mutators, EvictSubscriber(m) PROVE RegisteredWhileOpen'
  <2>1. \A t \in Subscribers : pc'[t] = pc[t]
    BY <1>13 DEF EvictSubscriber, Goto
  <2>2. CASE closed[evictee[m]]
    BY <1>13, <2>1, <2>2 DEF EvictSubscriber
  <2>3. CASE ~closed[evictee[m]]
    <3>1. /\ closed' = [closed EXCEPT ![evictee[m]] = TRUE]
          /\ subscribers' = subscribers \ {evictee[m]}
      BY <1>13, <2>3 DEF EvictSubscriber
    <3> QED
      BY <2>1, <3>1
  <2> QED
    BY <2>2, <2>3
<1>14. ASSUME NEW m \in Mutators, SendBackpressure(m) PROVE RegisteredWhileOpen'
  BY <1>14 DEF SendBackpressure, Goto
<1>15. ASSUME NEW m \in Mutators, EndMutation(m) PROVE RegisteredWhileOpen'
  BY <1>15 DEF EndMutation, Goto
<1>16. ASSUME NEW s \in Subscribers, BeginSubscribe(s) PROVE RegisteredWhileOpen'
  BY <1>16 DEF BeginSubscribe, Goto
<1>17. ASSUME NEW s \in Subscribers, InterruptSubscribe(s) PROVE RegisteredWhileOpen'
  BY <1>17 DEF InterruptSubscribe, Goto
<1>18. ASSUME NEW s \in Subscribers, EnterSubscribe(s) PROVE RegisteredWhileOpen'
  BY <1>18 DEF EnterSubscribe, Goto
<1>35. ASSUME NEW s \in Subscribers, AdmitSubscriber(s) PROVE RegisteredWhileOpen'
  BY <1>35 DEF AdmitSubscriber, Goto
<1>19. ASSUME NEW s \in Subscribers, RejectSubscribe(s) PROVE RegisteredWhileOpen'
  BY <1>19 DEF RejectSubscribe, Goto
<1>20. ASSUME NEW s \in Subscribers, RegisterSubscriber(s) PROVE RegisteredWhileOpen'
  BY <1>20 DEF RegisterSubscriber, Goto
<1>21. ASSUME NEW s \in Subscribers, OfferSnapshot(s) PROVE RegisteredWhileOpen'
  BY <1>21 DEF OfferSnapshot, Goto
<1>22. ASSUME NEW s \in Subscribers, TakeEvent(s) PROVE RegisteredWhileOpen'
  BY <1>22 DEF TakeEvent
<1>23. ASSUME NEW s \in Subscribers, BeginClose(s) PROVE RegisteredWhileOpen'
  BY <1>23 DEF BeginClose, Goto
<1>36. ASSUME NEW s \in Subscribers, InterruptClose(s) PROVE RegisteredWhileOpen'
  BY <1>36 DEF InterruptClose, Goto
<1>24. ASSUME NEW s \in Subscribers, CloseTakesNotification(s) PROVE RegisteredWhileOpen'
  BY <1>24 DEF CloseTakesNotification, Goto
<1>25. ASSUME NEW s \in Subscribers, CloseTakesMutation(s) PROVE RegisteredWhileOpen'
  BY <1>25 DEF CloseTakesMutation, Goto
<1>26. ASSUME NEW s \in Subscribers, FinishClose(s) PROVE RegisteredWhileOpen'
  BY <1>26 DEF FinishClose, Goto
<1>27. ASSUME NEW a \in Admins, BeginReset(a) PROVE RegisteredWhileOpen'
  BY <1>27 DEF BeginReset, Goto
<1>28. ASSUME NEW a \in Admins, BeginEngineClose(a) PROVE RegisteredWhileOpen'
  BY <1>28 DEF BeginEngineClose, Goto
<1>29. ASSUME NEW a \in Admins, AdminTakesNotification(a) PROVE RegisteredWhileOpen'
  BY <1>29 DEF AdminTakesNotification, Goto
<1>30. ASSUME NEW a \in Admins, ResetStore(a) PROVE RegisteredWhileOpen'
  BY <1>30 DEF ResetStore, Goto, DrainSubscribers
<1>31. ASSUME NEW a \in Admins, CloseStore(a) PROVE RegisteredWhileOpen'
  BY <1>31 DEF CloseStore, Goto, DrainSubscribers
<1>32. ASSUME NEW a \in Admins, NEW s \in Subscribers, CloseWithStatus(a, s) PROVE RegisteredWhileOpen'
  BY <1>32 DEF CloseWithStatus
<1>33. ASSUME NEW a \in Admins, EndTransition(a) PROVE RegisteredWhileOpen'
  BY <1>33 DEF EndTransition, Goto
<1>34. CASE UNCHANGED vars
  BY <1>34 DEF vars
<1> QED
  BY <1>1, <1>2, <1>3, <1>4, <1>5, <1>6, <1>7, <1>8, <1>9, <1>10, <1>11,
     <1>12, <1>13, <1>14, <1>15, <1>16, <1>17, <1>18, <1>19, <1>20, <1>21,
     <1>22, <1>23, <1>24, <1>25, <1>26, <1>27, <1>28, <1>29, <1>30, <1>31,
     <1>32, <1>33, <1>34, <1>35, <1>36
     DEF Next, MutatorStep, SubscribeStep, CloseStep, AdminStep

\* Who was captured stays registered until it is closed.
LEMMA TargetsStep ==
  ASSUME FiberTypeOK, StreamTypeOK, TargetsRegistered, [Next]_vars
  PROVE  TargetsRegistered'
<1> USE FiberAssumption DEF FiberTypeOK, StreamTypeOK, Fibers,
      TargetsRegistered
<1>1. ASSUME NEW m \in Mutators, BeginMutation(m) PROVE TargetsRegistered'
  BY <1>1 DEF BeginMutation
<1>2. ASSUME NEW m \in Mutators, InterruptMutation(m) PROVE TargetsRegistered'
  BY <1>2 DEF InterruptMutation
<1>3. ASSUME NEW m \in Mutators, EnterMutation(m) PROVE TargetsRegistered'
  BY <1>3 DEF EnterMutation
<1>4. ASSUME NEW m \in Mutators, WriteRows(m) PROVE TargetsRegistered'
  BY <1>4 DEF WriteRows
<1>5. ASSUME NEW m \in Mutators, CommitRows(m) PROVE TargetsRegistered'
  BY <1>5 DEF CommitRows
<1>6. ASSUME NEW m \in Mutators, ChangeNothing(m) PROVE TargetsRegistered'
  BY <1>6 DEF ChangeNothing
<1>7. ASSUME NEW m \in Mutators, FailMutation(m) PROVE TargetsRegistered'
  BY <1>7 DEF FailMutation
<1>8. ASSUME NEW m \in Mutators, EnterNotification(m) PROVE TargetsRegistered'
  BY <1>8 DEF EnterNotification
<1>9. ASSUME NEW m \in Mutators, NEW s \in Subscribers, SkipClosed(m, s) PROVE TargetsRegistered'
  BY <1>9 DEF SkipClosed, Notifying
<1>10. ASSUME NEW m \in Mutators, NEW s \in Subscribers, NotifyUnchanged(m, s) PROVE TargetsRegistered'
  BY <1>10 DEF NotifyUnchanged, Notifying
<1>11. ASSUME NEW m \in Mutators, NEW s \in Subscribers, NotifyDelta(m, s) PROVE TargetsRegistered'
  BY <1>11 DEF NotifyDelta, Notifying
<1>12. ASSUME NEW m \in Mutators, NEW s \in Subscribers, NotifyDropped(m, s) PROVE TargetsRegistered'
  BY <1>12 DEF NotifyDropped, Notifying
<1>13. ASSUME NEW m \in Mutators, EvictSubscriber(m) PROVE TargetsRegistered'
  BY <1>13 DEF EvictSubscriber
<1>14. ASSUME NEW m \in Mutators, SendBackpressure(m) PROVE TargetsRegistered'
  BY <1>14 DEF SendBackpressure
<1>15. ASSUME NEW m \in Mutators, EndMutation(m) PROVE TargetsRegistered'
  BY <1>15 DEF EndMutation
<1>16. ASSUME NEW s \in Subscribers, BeginSubscribe(s) PROVE TargetsRegistered'
  BY <1>16 DEF BeginSubscribe
<1>17. ASSUME NEW s \in Subscribers, InterruptSubscribe(s) PROVE TargetsRegistered'
  BY <1>17 DEF InterruptSubscribe
<1>18. ASSUME NEW s \in Subscribers, EnterSubscribe(s) PROVE TargetsRegistered'
  BY <1>18 DEF EnterSubscribe
<1>35. ASSUME NEW s \in Subscribers, AdmitSubscriber(s) PROVE TargetsRegistered'
  BY <1>35 DEF AdmitSubscriber
<1>19. ASSUME NEW s \in Subscribers, RejectSubscribe(s) PROVE TargetsRegistered'
  BY <1>19 DEF RejectSubscribe
<1>20. ASSUME NEW s \in Subscribers, RegisterSubscriber(s) PROVE TargetsRegistered'
  BY <1>20 DEF RegisterSubscriber
<1>21. ASSUME NEW s \in Subscribers, OfferSnapshot(s) PROVE TargetsRegistered'
  BY <1>21 DEF OfferSnapshot
<1>22. ASSUME NEW s \in Subscribers, TakeEvent(s) PROVE TargetsRegistered'
  BY <1>22 DEF TakeEvent
<1>23. ASSUME NEW s \in Subscribers, BeginClose(s) PROVE TargetsRegistered'
  BY <1>23 DEF BeginClose
<1>36. ASSUME NEW s \in Subscribers, InterruptClose(s) PROVE TargetsRegistered'
  BY <1>36 DEF InterruptClose
<1>24. ASSUME NEW s \in Subscribers, CloseTakesNotification(s) PROVE TargetsRegistered'
  BY <1>24 DEF CloseTakesNotification
<1>25. ASSUME NEW s \in Subscribers, CloseTakesMutation(s) PROVE TargetsRegistered'
  BY <1>25 DEF CloseTakesMutation
<1>26. ASSUME NEW s \in Subscribers, FinishClose(s) PROVE TargetsRegistered'
  <2>1. targets' = targets
    BY <1>26 DEF FinishClose
  <2>2. \A t \in Subscribers : /\ closed[t] => closed'[t]
                               /\ t \in subscribers => closed'[t] \/ t \in subscribers'
    BY <1>26 DEF FinishClose
  <2> QED
    BY <2>1, <2>2
<1>27. ASSUME NEW a \in Admins, BeginReset(a) PROVE TargetsRegistered'
  BY <1>27 DEF BeginReset
<1>28. ASSUME NEW a \in Admins, BeginEngineClose(a) PROVE TargetsRegistered'
  BY <1>28 DEF BeginEngineClose
<1>29. ASSUME NEW a \in Admins, AdminTakesNotification(a) PROVE TargetsRegistered'
  BY <1>29 DEF AdminTakesNotification
<1>30. ASSUME NEW a \in Admins, ResetStore(a) PROVE TargetsRegistered'
  BY <1>30 DEF ResetStore, DrainSubscribers
<1>31. ASSUME NEW a \in Admins, CloseStore(a) PROVE TargetsRegistered'
  BY <1>31 DEF CloseStore, DrainSubscribers
<1>32. ASSUME NEW a \in Admins, NEW s \in Subscribers, CloseWithStatus(a, s) PROVE TargetsRegistered'
  BY <1>32 DEF CloseWithStatus
<1>33. ASSUME NEW a \in Admins, EndTransition(a) PROVE TargetsRegistered'
  BY <1>33 DEF EndTransition
<1>34. CASE UNCHANGED vars
  BY <1>34 DEF vars
<1> QED
  BY <1>1, <1>2, <1>3, <1>4, <1>5, <1>6, <1>7, <1>8, <1>9, <1>10, <1>11,
     <1>12, <1>13, <1>14, <1>15, <1>16, <1>17, <1>18, <1>19, <1>20, <1>21,
     <1>22, <1>23, <1>24, <1>25, <1>26, <1>27, <1>28, <1>29, <1>30, <1>31,
     <1>32, <1>33, <1>34, <1>35, <1>36
     DEF Next, MutatorStep, SubscribeStep, CloseStep, AdminStep

\* An eviction in progress keeps its subscriber.
LEMMA EvicteeStep ==
  ASSUME FiberTypeOK, StreamTypeOK, TargetsRegistered, EvicteeKnown,
         [Next]_vars
  PROVE  EvicteeKnown'
<1> USE FiberAssumption DEF FiberTypeOK, StreamTypeOK, Fibers,
      TargetsRegistered, EvicteeKnown
<1>1. ASSUME NEW m \in Mutators, BeginMutation(m) PROVE EvicteeKnown'
  BY <1>1 DEF BeginMutation, Goto
<1>2. ASSUME NEW m \in Mutators, InterruptMutation(m) PROVE EvicteeKnown'
  BY <1>2 DEF InterruptMutation, Goto
<1>3. ASSUME NEW m \in Mutators, EnterMutation(m) PROVE EvicteeKnown'
  BY <1>3 DEF EnterMutation, Goto
<1>4. ASSUME NEW m \in Mutators, WriteRows(m) PROVE EvicteeKnown'
  BY <1>4 DEF WriteRows, Goto
<1>5. ASSUME NEW m \in Mutators, CommitRows(m) PROVE EvicteeKnown'
  BY <1>5 DEF CommitRows, Goto
<1>6. ASSUME NEW m \in Mutators, ChangeNothing(m) PROVE EvicteeKnown'
  BY <1>6 DEF ChangeNothing, Goto
<1>7. ASSUME NEW m \in Mutators, FailMutation(m) PROVE EvicteeKnown'
  BY <1>7 DEF FailMutation, Goto
<1>8. ASSUME NEW m \in Mutators, EnterNotification(m) PROVE EvicteeKnown'
  BY <1>8 DEF EnterNotification, Goto
<1>9. ASSUME NEW m \in Mutators, NEW s \in Subscribers, SkipClosed(m, s) PROVE EvicteeKnown'
  BY <1>9 DEF SkipClosed, Notifying
<1>10. ASSUME NEW m \in Mutators, NEW s \in Subscribers, NotifyUnchanged(m, s) PROVE EvicteeKnown'
  BY <1>10 DEF NotifyUnchanged, Notifying
<1>11. ASSUME NEW m \in Mutators, NEW s \in Subscribers, NotifyDelta(m, s) PROVE EvicteeKnown'
  BY <1>11 DEF NotifyDelta, Notifying
<1>12. ASSUME NEW m \in Mutators, NEW s \in Subscribers, NotifyDropped(m, s) PROVE EvicteeKnown'
  BY <1>12 DEF NotifyDropped, Goto, Notifying
<1>13. ASSUME NEW m \in Mutators, EvictSubscriber(m) PROVE EvicteeKnown'
  BY <1>13 DEF EvictSubscriber, Goto
<1>14. ASSUME NEW m \in Mutators, SendBackpressure(m) PROVE EvicteeKnown'
  BY <1>14 DEF SendBackpressure, Goto
<1>15. ASSUME NEW m \in Mutators, EndMutation(m) PROVE EvicteeKnown'
  BY <1>15 DEF EndMutation, Goto
<1>16. ASSUME NEW s \in Subscribers, BeginSubscribe(s) PROVE EvicteeKnown'
  BY <1>16 DEF BeginSubscribe, Goto
<1>17. ASSUME NEW s \in Subscribers, InterruptSubscribe(s) PROVE EvicteeKnown'
  BY <1>17 DEF InterruptSubscribe, Goto
<1>18. ASSUME NEW s \in Subscribers, EnterSubscribe(s) PROVE EvicteeKnown'
  BY <1>18 DEF EnterSubscribe, Goto
<1>35. ASSUME NEW s \in Subscribers, AdmitSubscriber(s) PROVE EvicteeKnown'
  BY <1>35 DEF AdmitSubscriber, Goto
<1>19. ASSUME NEW s \in Subscribers, RejectSubscribe(s) PROVE EvicteeKnown'
  BY <1>19 DEF RejectSubscribe, Goto
<1>20. ASSUME NEW s \in Subscribers, RegisterSubscriber(s) PROVE EvicteeKnown'
  BY <1>20 DEF RegisterSubscriber, Goto
<1>21. ASSUME NEW s \in Subscribers, OfferSnapshot(s) PROVE EvicteeKnown'
  BY <1>21 DEF OfferSnapshot, Goto
<1>22. ASSUME NEW s \in Subscribers, TakeEvent(s) PROVE EvicteeKnown'
  BY <1>22 DEF TakeEvent
<1>23. ASSUME NEW s \in Subscribers, BeginClose(s) PROVE EvicteeKnown'
  BY <1>23 DEF BeginClose, Goto
<1>36. ASSUME NEW s \in Subscribers, InterruptClose(s) PROVE EvicteeKnown'
  BY <1>36 DEF InterruptClose, Goto
<1>24. ASSUME NEW s \in Subscribers, CloseTakesNotification(s) PROVE EvicteeKnown'
  BY <1>24 DEF CloseTakesNotification, Goto
<1>25. ASSUME NEW s \in Subscribers, CloseTakesMutation(s) PROVE EvicteeKnown'
  BY <1>25 DEF CloseTakesMutation, Goto
<1>26. ASSUME NEW s \in Subscribers, FinishClose(s) PROVE EvicteeKnown'
  <2>1. evictee' = evictee /\ \A m \in Mutators : pc'[m] = pc[m]
    BY <1>26 DEF FinishClose, Goto
  <2>2. \A t \in Subscribers : /\ closed[t] => closed'[t]
                               /\ t \in subscribers => closed'[t] \/ t \in subscribers'
    BY <1>26 DEF FinishClose
  <2> QED
    BY <2>1, <2>2
<1>27. ASSUME NEW a \in Admins, BeginReset(a) PROVE EvicteeKnown'
  BY <1>27 DEF BeginReset, Goto
<1>28. ASSUME NEW a \in Admins, BeginEngineClose(a) PROVE EvicteeKnown'
  BY <1>28 DEF BeginEngineClose, Goto
<1>29. ASSUME NEW a \in Admins, AdminTakesNotification(a) PROVE EvicteeKnown'
  BY <1>29 DEF AdminTakesNotification, Goto
<1>30. ASSUME NEW a \in Admins, ResetStore(a) PROVE EvicteeKnown'
  BY <1>30 DEF ResetStore, Goto, DrainSubscribers
<1>31. ASSUME NEW a \in Admins, CloseStore(a) PROVE EvicteeKnown'
  BY <1>31 DEF CloseStore, Goto, DrainSubscribers
<1>32. ASSUME NEW a \in Admins, NEW s \in Subscribers, CloseWithStatus(a, s) PROVE EvicteeKnown'
  BY <1>32 DEF CloseWithStatus
<1>33. ASSUME NEW a \in Admins, EndTransition(a) PROVE EvicteeKnown'
  BY <1>33 DEF EndTransition, Goto
<1>34. CASE UNCHANGED vars
  BY <1>34 DEF vars
<1> QED
  BY <1>1, <1>2, <1>3, <1>4, <1>5, <1>6, <1>7, <1>8, <1>9, <1>10, <1>11,
     <1>12, <1>13, <1>14, <1>15, <1>16, <1>17, <1>18, <1>19, <1>20, <1>21,
     <1>22, <1>23, <1>24, <1>25, <1>26, <1>27, <1>28, <1>29, <1>30, <1>31,
     <1>32, <1>33, <1>34, <1>35, <1>36
     DEF Next, MutatorStep, SubscribeStep, CloseStep, AdminStep

\* While a reset or a close holds both permits nobody registers.
LEMMA DrainedStep ==
  ASSUME FiberTypeOK, StreamTypeOK, PermitsMatchSections, DrainedIsClosed,
         [Next]_vars
  PROVE  DrainedIsClosed'
<1> USE FiberAssumption DEF FiberTypeOK, StreamTypeOK, Fibers,
      PermitsMatchSections, HoldsMutation, HoldsNotification, DrainedIsClosed
<1>1. ASSUME NEW m \in Mutators, BeginMutation(m) PROVE DrainedIsClosed'
  BY <1>1 DEF BeginMutation, Goto
<1>2. ASSUME NEW m \in Mutators, InterruptMutation(m) PROVE DrainedIsClosed'
  BY <1>2 DEF InterruptMutation, Goto
<1>3. ASSUME NEW m \in Mutators, EnterMutation(m) PROVE DrainedIsClosed'
  BY <1>3 DEF EnterMutation, Goto
<1>4. ASSUME NEW m \in Mutators, WriteRows(m) PROVE DrainedIsClosed'
  BY <1>4 DEF WriteRows, Goto
<1>5. ASSUME NEW m \in Mutators, CommitRows(m) PROVE DrainedIsClosed'
  BY <1>5 DEF CommitRows, Goto
<1>6. ASSUME NEW m \in Mutators, ChangeNothing(m) PROVE DrainedIsClosed'
  BY <1>6 DEF ChangeNothing, Goto
<1>7. ASSUME NEW m \in Mutators, FailMutation(m) PROVE DrainedIsClosed'
  BY <1>7 DEF FailMutation, Goto
<1>8. ASSUME NEW m \in Mutators, EnterNotification(m) PROVE DrainedIsClosed'
  BY <1>8 DEF EnterNotification, Goto
<1>9. ASSUME NEW m \in Mutators, NEW s \in Subscribers, SkipClosed(m, s) PROVE DrainedIsClosed'
  BY <1>9 DEF SkipClosed, Notifying
<1>10. ASSUME NEW m \in Mutators, NEW s \in Subscribers, NotifyUnchanged(m, s) PROVE DrainedIsClosed'
  BY <1>10 DEF NotifyUnchanged, Notifying
<1>11. ASSUME NEW m \in Mutators, NEW s \in Subscribers, NotifyDelta(m, s) PROVE DrainedIsClosed'
  BY <1>11 DEF NotifyDelta, Notifying
<1>12. ASSUME NEW m \in Mutators, NEW s \in Subscribers, NotifyDropped(m, s) PROVE DrainedIsClosed'
  BY <1>12 DEF NotifyDropped, Goto, Notifying
<1>13. ASSUME NEW m \in Mutators, EvictSubscriber(m) PROVE DrainedIsClosed'
  BY <1>13 DEF EvictSubscriber, Goto
<1>14. ASSUME NEW m \in Mutators, SendBackpressure(m) PROVE DrainedIsClosed'
  BY <1>14 DEF SendBackpressure, Goto
<1>15. ASSUME NEW m \in Mutators, EndMutation(m) PROVE DrainedIsClosed'
  BY <1>15 DEF EndMutation, Goto
<1>16. ASSUME NEW s \in Subscribers, BeginSubscribe(s) PROVE DrainedIsClosed'
  BY <1>16 DEF BeginSubscribe, Goto
<1>17. ASSUME NEW s \in Subscribers, InterruptSubscribe(s) PROVE DrainedIsClosed'
  BY <1>17 DEF InterruptSubscribe, Goto
<1>18. ASSUME NEW s \in Subscribers, EnterSubscribe(s) PROVE DrainedIsClosed'
  BY <1>18 DEF EnterSubscribe, Goto
<1>35. ASSUME NEW s \in Subscribers, AdmitSubscriber(s) PROVE DrainedIsClosed'
  BY <1>35 DEF AdmitSubscriber, Goto
<1>19. ASSUME NEW s \in Subscribers, RejectSubscribe(s) PROVE DrainedIsClosed'
  BY <1>19 DEF RejectSubscribe, Goto
<1>20. ASSUME NEW s \in Subscribers, RegisterSubscriber(s) PROVE DrainedIsClosed'
  BY <1>20 DEF RegisterSubscriber, Goto
<1>21. ASSUME NEW s \in Subscribers, OfferSnapshot(s) PROVE DrainedIsClosed'
  BY <1>21 DEF OfferSnapshot, Goto
<1>22. ASSUME NEW s \in Subscribers, TakeEvent(s) PROVE DrainedIsClosed'
  BY <1>22 DEF TakeEvent
<1>23. ASSUME NEW s \in Subscribers, BeginClose(s) PROVE DrainedIsClosed'
  BY <1>23 DEF BeginClose, Goto
<1>36. ASSUME NEW s \in Subscribers, InterruptClose(s) PROVE DrainedIsClosed'
  BY <1>36 DEF InterruptClose, Goto
<1>24. ASSUME NEW s \in Subscribers, CloseTakesNotification(s) PROVE DrainedIsClosed'
  BY <1>24 DEF CloseTakesNotification, Goto
<1>25. ASSUME NEW s \in Subscribers, CloseTakesMutation(s) PROVE DrainedIsClosed'
  BY <1>25 DEF CloseTakesMutation, Goto
<1>26. ASSUME NEW s \in Subscribers, FinishClose(s) PROVE DrainedIsClosed'
  BY <1>26 DEF FinishClose, Goto
<1>27. ASSUME NEW a \in Admins, BeginReset(a) PROVE DrainedIsClosed'
  BY <1>27 DEF BeginReset, Goto
<1>28. ASSUME NEW a \in Admins, BeginEngineClose(a) PROVE DrainedIsClosed'
  BY <1>28 DEF BeginEngineClose, Goto
<1>29. ASSUME NEW a \in Admins, AdminTakesNotification(a) PROVE DrainedIsClosed'
  BY <1>29 DEF AdminTakesNotification, Goto
<1>30. ASSUME NEW a \in Admins, ResetStore(a) PROVE DrainedIsClosed'
  BY <1>30 DEF ResetStore, Goto, DrainSubscribers
<1>31. ASSUME NEW a \in Admins, CloseStore(a) PROVE DrainedIsClosed'
  BY <1>31 DEF CloseStore, Goto, DrainSubscribers
<1>32. ASSUME NEW a \in Admins, NEW s \in Subscribers, CloseWithStatus(a, s) PROVE DrainedIsClosed'
  BY <1>32 DEF CloseWithStatus
<1>33. ASSUME NEW a \in Admins, EndTransition(a) PROVE DrainedIsClosed'
  BY <1>33 DEF EndTransition, Goto
<1>34. CASE UNCHANGED vars
  BY <1>34 DEF vars
<1> QED
  BY <1>1, <1>2, <1>3, <1>4, <1>5, <1>6, <1>7, <1>8, <1>9, <1>10, <1>11,
     <1>12, <1>13, <1>14, <1>15, <1>16, <1>17, <1>18, <1>19, <1>20, <1>21,
     <1>22, <1>23, <1>24, <1>25, <1>26, <1>27, <1>28, <1>29, <1>30, <1>31,
     <1>32, <1>33, <1>34, <1>35, <1>36
     DEF Next, MutatorStep, SubscribeStep, CloseStep, AdminStep

\* Whoever finds the engine open holds the mutation semaphore from then on, so the
\* drain of a close that raises the flag meanwhile comes after the registration.
LEMMA StoppingStep ==
  ASSUME FiberTypeOK, StreamTypeOK, PermitsMatchSections, ClosedEngineDrains,
         AdmittedBeforeDrain, [Next]_vars
  PROVE  ClosedEngineDrains' /\ AdmittedBeforeDrain'
<1> USE FiberAssumption DEF FiberTypeOK, StreamTypeOK, Fibers,
      PermitsMatchSections, HoldsMutation, HoldsNotification, ClosedEngineDrains,
      AdmittedBeforeDrain, Stopping
<1>1. ASSUME NEW m \in Mutators, BeginMutation(m) PROVE ClosedEngineDrains' /\ AdmittedBeforeDrain'
  BY <1>1 DEF BeginMutation, Goto
<1>2. ASSUME NEW m \in Mutators, InterruptMutation(m) PROVE ClosedEngineDrains' /\ AdmittedBeforeDrain'
  BY <1>2 DEF InterruptMutation, Goto
<1>3. ASSUME NEW m \in Mutators, EnterMutation(m) PROVE ClosedEngineDrains' /\ AdmittedBeforeDrain'
  BY <1>3 DEF EnterMutation, Goto
<1>4. ASSUME NEW m \in Mutators, WriteRows(m) PROVE ClosedEngineDrains' /\ AdmittedBeforeDrain'
  BY <1>4 DEF WriteRows, Goto
<1>5. ASSUME NEW m \in Mutators, CommitRows(m) PROVE ClosedEngineDrains' /\ AdmittedBeforeDrain'
  BY <1>5 DEF CommitRows, Goto
<1>6. ASSUME NEW m \in Mutators, ChangeNothing(m) PROVE ClosedEngineDrains' /\ AdmittedBeforeDrain'
  BY <1>6 DEF ChangeNothing, Goto
<1>7. ASSUME NEW m \in Mutators, FailMutation(m) PROVE ClosedEngineDrains' /\ AdmittedBeforeDrain'
  BY <1>7 DEF FailMutation, Goto
<1>8. ASSUME NEW m \in Mutators, EnterNotification(m) PROVE ClosedEngineDrains' /\ AdmittedBeforeDrain'
  BY <1>8 DEF EnterNotification, Goto
<1>9. ASSUME NEW m \in Mutators, NEW s \in Subscribers, SkipClosed(m, s) PROVE ClosedEngineDrains' /\ AdmittedBeforeDrain'
  BY <1>9 DEF SkipClosed, Notifying
<1>10. ASSUME NEW m \in Mutators, NEW s \in Subscribers, NotifyUnchanged(m, s) PROVE ClosedEngineDrains' /\ AdmittedBeforeDrain'
  BY <1>10 DEF NotifyUnchanged, Notifying
<1>11. ASSUME NEW m \in Mutators, NEW s \in Subscribers, NotifyDelta(m, s) PROVE ClosedEngineDrains' /\ AdmittedBeforeDrain'
  BY <1>11 DEF NotifyDelta, Notifying
<1>12. ASSUME NEW m \in Mutators, NEW s \in Subscribers, NotifyDropped(m, s) PROVE ClosedEngineDrains' /\ AdmittedBeforeDrain'
  BY <1>12 DEF NotifyDropped, Goto, Notifying
<1>13. ASSUME NEW m \in Mutators, EvictSubscriber(m) PROVE ClosedEngineDrains' /\ AdmittedBeforeDrain'
  BY <1>13 DEF EvictSubscriber, Goto
<1>14. ASSUME NEW m \in Mutators, SendBackpressure(m) PROVE ClosedEngineDrains' /\ AdmittedBeforeDrain'
  BY <1>14 DEF SendBackpressure, Goto
<1>15. ASSUME NEW m \in Mutators, EndMutation(m) PROVE ClosedEngineDrains' /\ AdmittedBeforeDrain'
  BY <1>15 DEF EndMutation, Goto
<1>16. ASSUME NEW s \in Subscribers, BeginSubscribe(s) PROVE ClosedEngineDrains' /\ AdmittedBeforeDrain'
  BY <1>16 DEF BeginSubscribe, Goto
<1>17. ASSUME NEW s \in Subscribers, InterruptSubscribe(s) PROVE ClosedEngineDrains' /\ AdmittedBeforeDrain'
  BY <1>17 DEF InterruptSubscribe, Goto
<1>18. ASSUME NEW s \in Subscribers, EnterSubscribe(s) PROVE ClosedEngineDrains' /\ AdmittedBeforeDrain'
  BY <1>18 DEF EnterSubscribe, Goto
<1>35. ASSUME NEW s \in Subscribers, AdmitSubscriber(s) PROVE ClosedEngineDrains' /\ AdmittedBeforeDrain'
  BY <1>35 DEF AdmitSubscriber, Goto
<1>19. ASSUME NEW s \in Subscribers, RejectSubscribe(s) PROVE ClosedEngineDrains' /\ AdmittedBeforeDrain'
  BY <1>19 DEF RejectSubscribe, Goto
<1>20. ASSUME NEW s \in Subscribers, RegisterSubscriber(s) PROVE ClosedEngineDrains' /\ AdmittedBeforeDrain'
  BY <1>20 DEF RegisterSubscriber, Goto
<1>21. ASSUME NEW s \in Subscribers, OfferSnapshot(s) PROVE ClosedEngineDrains' /\ AdmittedBeforeDrain'
  BY <1>21 DEF OfferSnapshot, Goto
<1>22. ASSUME NEW s \in Subscribers, TakeEvent(s) PROVE ClosedEngineDrains' /\ AdmittedBeforeDrain'
  BY <1>22 DEF TakeEvent
<1>23. ASSUME NEW s \in Subscribers, BeginClose(s) PROVE ClosedEngineDrains' /\ AdmittedBeforeDrain'
  BY <1>23 DEF BeginClose, Goto
<1>36. ASSUME NEW s \in Subscribers, InterruptClose(s) PROVE ClosedEngineDrains' /\ AdmittedBeforeDrain'
  BY <1>36 DEF InterruptClose, Goto
<1>24. ASSUME NEW s \in Subscribers, CloseTakesNotification(s) PROVE ClosedEngineDrains' /\ AdmittedBeforeDrain'
  BY <1>24 DEF CloseTakesNotification, Goto
<1>25. ASSUME NEW s \in Subscribers, CloseTakesMutation(s) PROVE ClosedEngineDrains' /\ AdmittedBeforeDrain'
  BY <1>25 DEF CloseTakesMutation, Goto
<1>26. ASSUME NEW s \in Subscribers, FinishClose(s) PROVE ClosedEngineDrains' /\ AdmittedBeforeDrain'
  BY <1>26 DEF FinishClose, Goto
<1>27. ASSUME NEW a \in Admins, BeginReset(a) PROVE ClosedEngineDrains' /\ AdmittedBeforeDrain'
  BY <1>27 DEF BeginReset, Goto
<1>28. ASSUME NEW a \in Admins, BeginEngineClose(a) PROVE ClosedEngineDrains' /\ AdmittedBeforeDrain'
  BY <1>28 DEF BeginEngineClose, Goto
<1>29. ASSUME NEW a \in Admins, AdminTakesNotification(a) PROVE ClosedEngineDrains' /\ AdmittedBeforeDrain'
  BY <1>29 DEF AdminTakesNotification, Goto
<1>30. ASSUME NEW a \in Admins, ResetStore(a) PROVE ClosedEngineDrains' /\ AdmittedBeforeDrain'
  BY <1>30 DEF ResetStore, Goto, DrainSubscribers
<1>31. ASSUME NEW a \in Admins, CloseStore(a) PROVE ClosedEngineDrains' /\ AdmittedBeforeDrain'
  BY <1>31 DEF CloseStore, Goto, DrainSubscribers
<1>32. ASSUME NEW a \in Admins, NEW s \in Subscribers, CloseWithStatus(a, s) PROVE ClosedEngineDrains' /\ AdmittedBeforeDrain'
  BY <1>32 DEF CloseWithStatus
<1>33. ASSUME NEW a \in Admins, EndTransition(a) PROVE ClosedEngineDrains' /\ AdmittedBeforeDrain'
  BY <1>33 DEF EndTransition, Goto
<1>34. CASE UNCHANGED vars
  BY <1>34 DEF vars
<1> QED
  BY <1>1, <1>2, <1>3, <1>4, <1>5, <1>6, <1>7, <1>8, <1>9, <1>10, <1>11,
     <1>12, <1>13, <1>14, <1>15, <1>16, <1>17, <1>18, <1>19, <1>20, <1>21,
     <1>22, <1>23, <1>24, <1>25, <1>26, <1>27, <1>28, <1>29, <1>30, <1>31,
     <1>32, <1>33, <1>34, <1>35, <1>36
     DEF Next, MutatorStep, SubscribeStep, CloseStep, AdminStep

\* Who closes a subscription ends its queue, at once or before it leaves.
LEMMA ClosedIsEndedStep ==
  ASSUME FiberTypeOK, StreamTypeOK, EvicteeKnown, ClosedIsEnded, [Next]_vars
  PROVE  ClosedIsEnded'
<1> USE FiberAssumption DEF FiberTypeOK, StreamTypeOK, Fibers, EvicteeKnown,
      ClosedIsEnded
<1>1. ASSUME NEW m \in Mutators, BeginMutation(m) PROVE ClosedIsEnded'
  BY <1>1 DEF BeginMutation, Goto, streamVars
<1>2. ASSUME NEW m \in Mutators, InterruptMutation(m) PROVE ClosedIsEnded'
  BY <1>2 DEF InterruptMutation, Goto, streamVars
<1>3. ASSUME NEW m \in Mutators, EnterMutation(m) PROVE ClosedIsEnded'
  BY <1>3 DEF EnterMutation, Goto, streamVars
<1>4. ASSUME NEW m \in Mutators, WriteRows(m) PROVE ClosedIsEnded'
  BY <1>4 DEF WriteRows, Goto, streamVars
<1>5. ASSUME NEW m \in Mutators, CommitRows(m) PROVE ClosedIsEnded'
  BY <1>5 DEF CommitRows, Goto, streamVars
<1>6. ASSUME NEW m \in Mutators, ChangeNothing(m) PROVE ClosedIsEnded'
  BY <1>6 DEF ChangeNothing, Goto, streamVars
<1>7. ASSUME NEW m \in Mutators, FailMutation(m) PROVE ClosedIsEnded'
  BY <1>7 DEF FailMutation, Goto, streamVars
<1>8. ASSUME NEW m \in Mutators, EnterNotification(m) PROVE ClosedIsEnded'
  BY <1>8 DEF EnterNotification, Goto, streamVars
<1>9. ASSUME NEW m \in Mutators, NEW s \in Subscribers, SkipClosed(m, s) PROVE ClosedIsEnded'
  BY <1>9 DEF SkipClosed, Notifying, streamVars
<1>10. ASSUME NEW m \in Mutators, NEW s \in Subscribers, NotifyUnchanged(m, s) PROVE ClosedIsEnded'
  BY <1>10 DEF NotifyUnchanged, Notifying, streamVars
<1>11. ASSUME NEW m \in Mutators, NEW s \in Subscribers, NotifyDelta(m, s) PROVE ClosedIsEnded'
  BY <1>11 DEF NotifyDelta, Notifying
<1>12. ASSUME NEW m \in Mutators, NEW s \in Subscribers, NotifyDropped(m, s) PROVE ClosedIsEnded'
  BY <1>12 DEF NotifyDropped, Goto, Notifying
<1>13. ASSUME NEW m \in Mutators, EvictSubscriber(m) PROVE ClosedIsEnded'
  <2>1. ended' = ended /\ evictee' = evictee /\ targets' = targets
    BY <1>13 DEF EvictSubscriber, streamVars
  <2>2. /\ \A f \in Fibers : f # m => pc'[f] = pc[f]
        /\ pc[m] = "evicting" /\ pc'[m] = "clearing"
    BY <1>13 DEF EvictSubscriber, Goto
  <2>3. \A t \in Subscribers : t # evictee[m] => closed'[t] = closed[t]
    BY <1>13 DEF EvictSubscriber
  <2> SUFFICES ASSUME NEW t \in Subscribers, closed'[t], ~ended'[t]
               PROVE  \/ \E n \in Mutators : pc'[n] = "clearing" /\ evictee'[n] = t
                      \/ \E a \in Admins : pc'[a] = "draining" /\ t \in targets'[a]
    OBVIOUS
  <2>4. CASE t = evictee[m]
    BY <2>1, <2>2, <2>4
  <2>5. CASE \E n \in Mutators : pc[n] = "clearing" /\ evictee[n] = t
    BY <2>1, <2>2, <2>5
  <2>6. CASE \E a \in Admins : pc[a] = "draining" /\ t \in targets[a]
    BY <2>1, <2>2, <2>6
  <2> QED
    BY <2>1, <2>3, <2>4, <2>5, <2>6
<1>14. ASSUME NEW m \in Mutators, SendBackpressure(m) PROVE ClosedIsEnded'
  <2>1. closed' = closed /\ targets' = targets
    BY <1>14 DEF SendBackpressure
  <2>2. /\ \A f \in Fibers : f # m => pc'[f] = pc[f]
        /\ \A n \in Mutators : n # m => evictee'[n] = evictee[n]
    BY <1>14 DEF SendBackpressure, Goto
  <2>3. /\ evictee[m] \in Subscribers
        /\ ended'[evictee[m]]
        /\ \A t \in Subscribers : ended[t] => ended'[t]
    BY <1>14 DEF SendBackpressure, EndWithStatus
  <2> SUFFICES ASSUME NEW t \in Subscribers, closed'[t], ~ended'[t]
               PROVE  \/ \E n \in Mutators : pc'[n] = "clearing" /\ evictee'[n] = t
                      \/ \E a \in Admins : pc'[a] = "draining" /\ t \in targets'[a]
    OBVIOUS
  <2>4. t # evictee[m]
    BY <2>3
  <2>5. CASE \E n \in Mutators : pc[n] = "clearing" /\ evictee[n] = t
    BY <2>2, <2>4, <2>5
  <2>6. CASE \E a \in Admins : pc[a] = "draining" /\ t \in targets[a]
    <3>1. PICK a \in Admins : pc[a] = "draining" /\ t \in targets[a]
      BY <2>6
    <3>2. a \in Fibers /\ a # m
      BY FiberAssumption
    <3>3. pc'[a] = "draining" /\ targets'[a] = targets[a]
      <4> HIDE DEF FiberTypeOK, StreamTypeOK, Fibers, EvicteeKnown, ClosedIsEnded
      <4> QED
        BY <2>1, <2>2, <3>1, <3>2
    <3> QED
      BY <3>1, <3>3
  <2> QED
    BY <2>1, <2>3, <2>5, <2>6
<1>15. ASSUME NEW m \in Mutators, EndMutation(m) PROVE ClosedIsEnded'
  BY <1>15 DEF EndMutation, Goto, streamVars
<1>16. ASSUME NEW s \in Subscribers, BeginSubscribe(s) PROVE ClosedIsEnded'
  BY <1>16 DEF BeginSubscribe, Goto, streamVars
<1>17. ASSUME NEW s \in Subscribers, InterruptSubscribe(s) PROVE ClosedIsEnded'
  BY <1>17 DEF InterruptSubscribe, Goto, streamVars
<1>18. ASSUME NEW s \in Subscribers, EnterSubscribe(s) PROVE ClosedIsEnded'
  BY <1>18 DEF EnterSubscribe, Goto, streamVars
<1>35. ASSUME NEW s \in Subscribers, AdmitSubscriber(s) PROVE ClosedIsEnded'
  BY <1>35 DEF AdmitSubscriber, Goto, streamVars
<1>19. ASSUME NEW s \in Subscribers, RejectSubscribe(s) PROVE ClosedIsEnded'
  BY <1>19 DEF RejectSubscribe, Goto, streamVars
<1>20. ASSUME NEW s \in Subscribers, RegisterSubscriber(s) PROVE ClosedIsEnded'
  BY <1>20 DEF RegisterSubscriber, Goto
<1>21. ASSUME NEW s \in Subscribers, OfferSnapshot(s) PROVE ClosedIsEnded'
  BY <1>21 DEF OfferSnapshot, Goto
<1>22. ASSUME NEW s \in Subscribers, TakeEvent(s) PROVE ClosedIsEnded'
  BY <1>22 DEF TakeEvent
<1>23. ASSUME NEW s \in Subscribers, BeginClose(s) PROVE ClosedIsEnded'
  BY <1>23 DEF BeginClose, Goto, streamVars
<1>36. ASSUME NEW s \in Subscribers, InterruptClose(s) PROVE ClosedIsEnded'
  BY <1>36 DEF InterruptClose, Goto, streamVars
<1>24. ASSUME NEW s \in Subscribers, CloseTakesNotification(s) PROVE ClosedIsEnded'
  BY <1>24 DEF CloseTakesNotification, Goto, streamVars
<1>25. ASSUME NEW s \in Subscribers, CloseTakesMutation(s) PROVE ClosedIsEnded'
  BY <1>25 DEF CloseTakesMutation, Goto, streamVars
<1>26. ASSUME NEW s \in Subscribers, FinishClose(s) PROVE ClosedIsEnded'
  <2>1. evictee' = evictee /\ targets' = targets
    BY <1>26 DEF FinishClose
  <2>2. \A f \in Mutators \union Admins : pc'[f] = pc[f]
    BY <1>26 DEF FinishClose, Goto
  <2>3. \A t \in Subscribers : /\ ended[t] => ended'[t]
                               /\ closed'[t] => closed[t] \/ ended'[t]
    <3>1. CASE closed[s]
      BY <1>26, <3>1 DEF FinishClose
    <3>2. CASE ~closed[s]
      <4>1. closed' = [closed EXCEPT ![s] = TRUE] /\ ended' = [ended EXCEPT ![s] = TRUE]
        BY <1>26, <3>2 DEF FinishClose
      <4> QED
        BY <4>1
    <3> QED
      BY <3>1, <3>2
  <2> SUFFICES ASSUME NEW t \in Subscribers, closed'[t], ~ended'[t]
               PROVE  \/ \E n \in Mutators : pc'[n] = "clearing" /\ evictee'[n] = t
                      \/ \E a \in Admins : pc'[a] = "draining" /\ t \in targets'[a]
    OBVIOUS
  <2>5. CASE \E n \in Mutators : pc[n] = "clearing" /\ evictee[n] = t
    BY <2>1, <2>2, <2>5
  <2>6. CASE \E a \in Admins : pc[a] = "draining" /\ t \in targets[a]
    BY <2>1, <2>2, <2>6
  <2> QED
    BY <2>3, <2>5, <2>6
<1>27. ASSUME NEW a \in Admins, BeginReset(a) PROVE ClosedIsEnded'
  BY <1>27 DEF BeginReset, Goto, streamVars
<1>28. ASSUME NEW a \in Admins, BeginEngineClose(a) PROVE ClosedIsEnded'
  BY <1>28 DEF BeginEngineClose, Goto, streamVars
<1>29. ASSUME NEW a \in Admins, AdminTakesNotification(a) PROVE ClosedIsEnded'
  BY <1>29 DEF AdminTakesNotification, Goto, streamVars
<1>30. ASSUME NEW a \in Admins, ResetStore(a) PROVE ClosedIsEnded'
  BY <1>30 DEF ResetStore, Goto, DrainSubscribers, streamVars
<1>31. ASSUME NEW a \in Admins, CloseStore(a) PROVE ClosedIsEnded'
  BY <1>31 DEF CloseStore, Goto, DrainSubscribers, streamVars
<1>32. ASSUME NEW a \in Admins, NEW s \in Subscribers, CloseWithStatus(a, s) PROVE ClosedIsEnded'
  BY <1>32 DEF CloseWithStatus, EndWithStatus
<1>33. ASSUME NEW a \in Admins, EndTransition(a) PROVE ClosedIsEnded'
  BY <1>33 DEF EndTransition, Goto, streamVars
<1>34. CASE UNCHANGED vars
  BY <1>34 DEF vars, streamVars
<1> QED
  BY <1>1, <1>2, <1>3, <1>4, <1>5, <1>6, <1>7, <1>8, <1>9, <1>10, <1>11,
     <1>12, <1>13, <1>14, <1>15, <1>16, <1>17, <1>18, <1>19, <1>20, <1>21,
     <1>22, <1>23, <1>24, <1>25, <1>26, <1>27, <1>28, <1>29, <1>30, <1>31,
     <1>32, <1>33, <1>34, <1>35, <1>36
     DEF Next, MutatorStep, SubscribeStep, CloseStep, AdminStep

-------------------------------------------------------------------------------
(* Leases. *)

Subscribed(q, S) == {s \in S : QueryOf[s] = q}
Live(r) == {q \in Queries : r[q] > 0}

\* Subscribing adds one lease, and a retainer of the journal if it is the first.
LEMMA AcquireCounts ==
  ASSUME LeaseTypeOK, StreamTypeOK, LeaseCounts,
         NEW s \in Subscribers, s \notin subscribers,
         AcquireExecution(QueryOf[s]), subscribers' = subscribers \union {s}
  PROVE  LeaseTypeOK' /\ LeaseCounts'
<1> DEFINE p == QueryOf[s]
<1>1. p \in Queries /\ refs \in [Queries -> Nat] /\ journalRefs \in Nat
  BY QueryAssumption DEF LeaseTypeOK
<1>2. /\ refs' = [refs EXCEPT ![p] = @ + 1]
      /\ journalRefs' = IF refs[p] = 0 THEN journalRefs + 1 ELSE journalRefs
  BY DEF AcquireExecution
<1>3. ASSUME NEW q \in Queries
      PROVE  refs'[q] = Cardinality(Subscribed(q, subscribers'))
  <2>1. IsFiniteSet(subscribers) /\ IsFiniteSet(Subscribed(q, subscribers))
    <3>1. IsFiniteSet(subscribers)
      BY FiberAssumption, FS_Subset DEF Fibers, StreamTypeOK
    <3> QED
      BY <3>1, FS_Subset DEF Subscribed
  <2>2. refs[q] = Cardinality(Subscribed(q, subscribers))
    BY DEF LeaseCounts, Subscribed
  <2>3. CASE q = p
    <3>1. /\ Subscribed(q, subscribers') = Subscribed(q, subscribers) \union {s}
          /\ s \notin Subscribed(q, subscribers)
      BY <2>3 DEF Subscribed
    <3>2. refs'[q] = refs[q] + 1
      BY <1>1, <1>2, <2>3
    <3>3. Cardinality(Subscribed(q, subscribers')) = Cardinality(Subscribed(q, subscribers)) + 1
      BY <2>1, <3>1, FS_AddElement
    <3> QED
      BY <2>2, <3>2, <3>3
  <2>4. CASE q # p
    <3>1. Subscribed(q, subscribers') = Subscribed(q, subscribers)
      BY <2>4 DEF Subscribed
    <3> QED
      BY <1>1, <1>2, <2>2, <2>4, <3>1
  <2> QED
    BY <2>3, <2>4
<1>4. journalRefs' = Cardinality(Live(refs'))
  <2>1. IsFiniteSet(Live(refs)) /\ journalRefs = Cardinality(Live(refs))
    BY QueryAssumption, FS_Subset DEF Live, LeaseCounts
  <2>2. CASE refs[p] = 0
    <3>1. Live(refs') = Live(refs) \union {p} /\ p \notin Live(refs)
      BY <1>1, <1>2, <2>2 DEF Live
    <3> QED
      BY <1>2, <2>1, <2>2, <3>1, FS_AddElement
  <2>3. CASE refs[p] # 0
    <3>1. Live(refs') = Live(refs)
      BY <1>1, <1>2, <2>3 DEF Live
    <3> QED
      BY <1>2, <2>1, <2>3, <3>1
  <2> QED
    BY <2>2, <2>3
<1>5. LeaseTypeOK'
  BY <1>1, <1>2 DEF LeaseTypeOK
<1> QED
  BY <1>3, <1>4, <1>5 DEF LeaseCounts, Subscribed, Live

\* Closing a registered subscription gives back its lease, and the journal's
\* retainer with the last one.
LEMMA ReleaseCounts ==
  ASSUME LeaseTypeOK, StreamTypeOK, LeaseCounts,
         NEW s \in subscribers,
         ReleaseExecution(QueryOf[s]), subscribers' = subscribers \ {s}
  PROVE  LeaseTypeOK' /\ LeaseCounts'
<1> DEFINE p == QueryOf[s]
<1>1. p \in Queries /\ refs \in [Queries -> Nat] /\ journalRefs \in Nat
  BY QueryAssumption DEF LeaseTypeOK, StreamTypeOK
<1>2. /\ refs' = [refs EXCEPT ![p] = IF @ = 0 THEN 0 ELSE @ - 1]
      /\ journalRefs' = IF refs[p] = 1 THEN journalRefs - 1 ELSE journalRefs
  BY DEF ReleaseExecution
<1>a. \A q \in Queries : /\ IsFiniteSet(Subscribed(q, subscribers))
                         /\ refs[q] = Cardinality(Subscribed(q, subscribers))
  <2>1. IsFiniteSet(subscribers)
    BY FiberAssumption, FS_Subset DEF Fibers, StreamTypeOK
  <2> QED
    BY <2>1, FS_Subset DEF LeaseCounts, Subscribed
<1>b. refs[p] # 0
  <2>1. Subscribed(p, subscribers) # {}
    BY DEF Subscribed
  <2> QED
    BY <1>1, <1>a, <2>1, FS_EmptySet
<1>3. ASSUME NEW q \in Queries
      PROVE  refs'[q] = Cardinality(Subscribed(q, subscribers'))
  <2>1. CASE q = p
    <3>1. /\ Subscribed(q, subscribers') = Subscribed(q, subscribers) \ {s}
          /\ s \in Subscribed(q, subscribers)
      BY <2>1 DEF Subscribed
    <3>2. refs'[q] = refs[q] - 1
      BY <1>1, <1>2, <1>b, <2>1
    <3>3. Cardinality(Subscribed(q, subscribers')) = Cardinality(Subscribed(q, subscribers)) - 1
      BY <1>a, <3>1, FS_RemoveElement
    <3> QED
      BY <1>a, <3>2, <3>3
  <2>2. CASE q # p
    <3>1. Subscribed(q, subscribers') = Subscribed(q, subscribers)
      BY <2>2 DEF Subscribed
    <3> QED
      BY <1>1, <1>2, <1>a, <2>2, <3>1
  <2> QED
    BY <2>1, <2>2
<1>4. journalRefs' = Cardinality(Live(refs'))
  <2>1. IsFiniteSet(Live(refs)) /\ journalRefs = Cardinality(Live(refs))
    BY QueryAssumption, FS_Subset DEF Live, LeaseCounts
  <2>2. CASE refs[p] = 1
    <3>1. Live(refs') = Live(refs) \ {p} /\ p \in Live(refs)
      BY <1>1, <1>2, <2>2 DEF Live
    <3> QED
      BY <1>2, <2>1, <2>2, <3>1, FS_RemoveElement
  <2>3. CASE refs[p] # 1
    <3>1. Live(refs') = Live(refs)
      BY <1>1, <1>2, <1>b, <2>3 DEF Live
    <3> QED
      BY <1>2, <2>1, <2>3, <3>1
  <2> QED
    BY <2>2, <2>3
<1>5. journalRefs' \in Nat
  <2>1. IsFiniteSet(Live(refs'))
    BY QueryAssumption, FS_Subset DEF Live
  <2> QED
    BY <1>4, <2>1, FS_CardinalityType
<1>6. refs' \in [Queries -> Nat]
  BY <1>1, <1>2
<1> QED
  BY <1>3, <1>4, <1>5, <1>6 DEF LeaseCounts, LeaseTypeOK, Subscribed, Live

\* Once nobody is registered there is nothing to release: a release after the
\* registry was cleared, and the clearing itself, leave no lease and no retainer.
LEMMA NoLeases ==
  ASSUME LeaseTypeOK, LeaseCounts, subscribers = {}
  PROVE  journalRefs = 0 /\ \A q \in Queries : refs[q] = 0
<1>1. \A q \in Queries : refs[q] = 0
  BY FS_EmptySet DEF LeaseCounts
<1>2. {q \in Queries : refs[q] > 0} = {}
  BY <1>1
<1> QED
  BY <1>1, <1>2, FS_EmptySet DEF LeaseCounts

\* A release with no lease left changes nothing.
LEMMA ReleaseNothing ==
  ASSUME LeaseTypeOK, LeaseCounts, subscribers = {},
         NEW q \in Queries, ReleaseExecution(q), UNCHANGED subscribers
  PROVE  LeaseTypeOK' /\ LeaseCounts'
<1>1. refs[q] = 0
  BY NoLeases
<1>2. refs' = refs /\ journalRefs' = journalRefs
  BY <1>1 DEF ReleaseExecution, LeaseTypeOK
<1> QED
  BY <1>2 DEF LeaseTypeOK, LeaseCounts

\* Clearing the registry after unregistering everyone leaves both counts at zero.
LEMMA ClearCounts ==
  ASSUME LeaseTypeOK, LeaseCounts, ClearExecutions, subscribers' = {}
  PROVE  LeaseTypeOK' /\ LeaseCounts'
<1>1. journalRefs' = 0 /\ \A q \in Queries : refs'[q] = 0
  BY DEF ClearExecutions, LeaseCounts, LeaseTypeOK
<1>2. \A q \in Queries : {s \in subscribers' : QueryOf[s] = q} = {}
  OBVIOUS
<1>3. {q \in Queries : refs'[q] > 0} = {}
  BY <1>1
<1>4. refs' \in [Queries -> Nat]
  BY DEF ClearExecutions
<1> QED
  BY <1>1, <1>2, <1>3, <1>4, FS_EmptySet DEF LeaseCounts, LeaseTypeOK

\* Each registration is one acquisition and each closure one release, whoever
\* closes: the subscriber itself, an eviction, a reset or the engine.
LEMMA LeaseStep ==
  ASSUME LeaseTypeOK, FiberTypeOK, StreamTypeOK, LeaseCounts,
         RegisteredWhileOpen, EvicteeKnown, DrainedIsClosed, [Next]_vars
  PROVE  LeaseTypeOK' /\ LeaseCounts'
<1> USE DEF LeaseTypeOK, LeaseCounts
<1>1. ASSUME NEW m \in Mutators, BeginMutation(m) PROVE LeaseTypeOK' /\ LeaseCounts'
  BY <1>1 DEF BeginMutation, leaseVars
<1>2. ASSUME NEW m \in Mutators, InterruptMutation(m) PROVE LeaseTypeOK' /\ LeaseCounts'
  BY <1>2 DEF InterruptMutation, leaseVars
<1>3. ASSUME NEW m \in Mutators, EnterMutation(m) PROVE LeaseTypeOK' /\ LeaseCounts'
  BY <1>3 DEF EnterMutation, leaseVars
<1>4. ASSUME NEW m \in Mutators, WriteRows(m) PROVE LeaseTypeOK' /\ LeaseCounts'
  BY <1>4 DEF WriteRows, leaseVars
<1>5. ASSUME NEW m \in Mutators, CommitRows(m) PROVE LeaseTypeOK' /\ LeaseCounts'
  BY <1>5 DEF CommitRows, leaseVars
<1>6. ASSUME NEW m \in Mutators, ChangeNothing(m) PROVE LeaseTypeOK' /\ LeaseCounts'
  BY <1>6 DEF ChangeNothing, leaseVars
<1>7. ASSUME NEW m \in Mutators, FailMutation(m) PROVE LeaseTypeOK' /\ LeaseCounts'
  BY <1>7 DEF FailMutation, leaseVars
<1>8. ASSUME NEW m \in Mutators, EnterNotification(m) PROVE LeaseTypeOK' /\ LeaseCounts'
  BY <1>8 DEF EnterNotification, leaseVars
<1>9. ASSUME NEW m \in Mutators, NEW s \in Subscribers, SkipClosed(m, s) PROVE LeaseTypeOK' /\ LeaseCounts'
  BY <1>9 DEF SkipClosed, leaseVars
<1>10. ASSUME NEW m \in Mutators, NEW s \in Subscribers, NotifyUnchanged(m, s) PROVE LeaseTypeOK' /\ LeaseCounts'
  BY <1>10 DEF NotifyUnchanged, leaseVars
<1>11. ASSUME NEW m \in Mutators, NEW s \in Subscribers, NotifyDelta(m, s) PROVE LeaseTypeOK' /\ LeaseCounts'
  BY <1>11 DEF NotifyDelta, leaseVars
<1>12. ASSUME NEW m \in Mutators, NEW s \in Subscribers, NotifyDropped(m, s) PROVE LeaseTypeOK' /\ LeaseCounts'
  BY <1>12 DEF NotifyDropped, leaseVars
<1>13. ASSUME NEW m \in Mutators, EvictSubscriber(m) PROVE LeaseTypeOK' /\ LeaseCounts'
  <2>1. CASE closed[evictee[m]]
    BY <1>13, <2>1 DEF EvictSubscriber, leaseVars
  <2>2. CASE ~closed[evictee[m]]
    <3>1. evictee[m] \in subscribers
      BY <1>13, <2>2 DEF EvictSubscriber, EvicteeKnown
    <3>2. /\ subscribers' = subscribers \ {evictee[m]}
          /\ ReleaseExecution(QueryOf[evictee[m]])
      BY <1>13, <2>2 DEF EvictSubscriber
    <3> QED
      BY <3>1, <3>2, ReleaseCounts
  <2> QED
    BY <2>1, <2>2
<1>14. ASSUME NEW m \in Mutators, SendBackpressure(m) PROVE LeaseTypeOK' /\ LeaseCounts'
  BY <1>14 DEF SendBackpressure, leaseVars
<1>15. ASSUME NEW m \in Mutators, EndMutation(m) PROVE LeaseTypeOK' /\ LeaseCounts'
  BY <1>15 DEF EndMutation, leaseVars
<1>16. ASSUME NEW s \in Subscribers, BeginSubscribe(s) PROVE LeaseTypeOK' /\ LeaseCounts'
  BY <1>16 DEF BeginSubscribe, leaseVars
<1>17. ASSUME NEW s \in Subscribers, InterruptSubscribe(s) PROVE LeaseTypeOK' /\ LeaseCounts'
  BY <1>17 DEF InterruptSubscribe, leaseVars
<1>18. ASSUME NEW s \in Subscribers, EnterSubscribe(s) PROVE LeaseTypeOK' /\ LeaseCounts'
  BY <1>18 DEF EnterSubscribe, leaseVars
<1>35. ASSUME NEW s \in Subscribers, AdmitSubscriber(s) PROVE LeaseTypeOK' /\ LeaseCounts'
  BY <1>35 DEF AdmitSubscriber, leaseVars
<1>19. ASSUME NEW s \in Subscribers, RejectSubscribe(s) PROVE LeaseTypeOK' /\ LeaseCounts'
  BY <1>19 DEF RejectSubscribe, leaseVars
<1>20. ASSUME NEW s \in Subscribers, RegisterSubscriber(s) PROVE LeaseTypeOK' /\ LeaseCounts'
  <2>1. s \notin subscribers
    BY <1>20 DEF RegisterSubscriber, RegisteredWhileOpen
  <2>2. AcquireExecution(QueryOf[s]) /\ subscribers' = subscribers \union {s}
    BY <1>20 DEF RegisterSubscriber
  <2> QED
    BY <2>1, <2>2, AcquireCounts
<1>21. ASSUME NEW s \in Subscribers, OfferSnapshot(s) PROVE LeaseTypeOK' /\ LeaseCounts'
  BY <1>21 DEF OfferSnapshot, leaseVars
<1>22. ASSUME NEW s \in Subscribers, TakeEvent(s) PROVE LeaseTypeOK' /\ LeaseCounts'
  BY <1>22 DEF TakeEvent, leaseVars
<1>23. ASSUME NEW s \in Subscribers, BeginClose(s) PROVE LeaseTypeOK' /\ LeaseCounts'
  BY <1>23 DEF BeginClose, leaseVars
<1>36. ASSUME NEW s \in Subscribers, InterruptClose(s) PROVE LeaseTypeOK' /\ LeaseCounts'
  BY <1>36 DEF InterruptClose, leaseVars
<1>24. ASSUME NEW s \in Subscribers, CloseTakesNotification(s) PROVE LeaseTypeOK' /\ LeaseCounts'
  BY <1>24 DEF CloseTakesNotification, leaseVars
<1>25. ASSUME NEW s \in Subscribers, CloseTakesMutation(s) PROVE LeaseTypeOK' /\ LeaseCounts'
  BY <1>25 DEF CloseTakesMutation, leaseVars
<1>26. ASSUME NEW s \in Subscribers, FinishClose(s) PROVE LeaseTypeOK' /\ LeaseCounts'
  <2>1. CASE closed[s]
    BY <1>26, <2>1 DEF FinishClose, leaseVars
  <2>2. CASE ~closed[s]
    <3>1. s \in subscribers
      BY <1>26, <2>2 DEF FinishClose, RegisteredWhileOpen
    <3>2. subscribers' = subscribers \ {s} /\ ReleaseExecution(QueryOf[s])
      BY <1>26, <2>2 DEF FinishClose
    <3> QED
      BY <3>1, <3>2, ReleaseCounts
  <2> QED
    BY <2>1, <2>2
<1>27. ASSUME NEW a \in Admins, BeginReset(a) PROVE LeaseTypeOK' /\ LeaseCounts'
  BY <1>27 DEF BeginReset, leaseVars
<1>28. ASSUME NEW a \in Admins, BeginEngineClose(a) PROVE LeaseTypeOK' /\ LeaseCounts'
  BY <1>28 DEF BeginEngineClose, leaseVars
<1>29. ASSUME NEW a \in Admins, AdminTakesNotification(a) PROVE LeaseTypeOK' /\ LeaseCounts'
  BY <1>29 DEF AdminTakesNotification, leaseVars
<1>30. ASSUME NEW a \in Admins, ResetStore(a) PROVE LeaseTypeOK' /\ LeaseCounts'
  BY <1>30, ClearCounts DEF ResetStore, DrainSubscribers
<1>31. ASSUME NEW a \in Admins, CloseStore(a) PROVE LeaseTypeOK' /\ LeaseCounts'
  BY <1>31, ClearCounts DEF CloseStore, DrainSubscribers
<1>32. ASSUME NEW a \in Admins, NEW s \in Subscribers, CloseWithStatus(a, s) PROVE LeaseTypeOK' /\ LeaseCounts'
  <2>1. subscribers = {} /\ subscribers' = subscribers
    BY <1>32 DEF CloseWithStatus, DrainedIsClosed
  <2>2. QueryOf[s] \in Queries /\ ReleaseExecution(QueryOf[s])
    BY <1>32, QueryAssumption DEF CloseWithStatus
  <2> QED
    BY <2>1, <2>2, ReleaseNothing
<1>33. ASSUME NEW a \in Admins, EndTransition(a) PROVE LeaseTypeOK' /\ LeaseCounts'
  BY <1>33 DEF EndTransition, leaseVars
<1>34. CASE UNCHANGED vars
  BY <1>34 DEF vars, leaseVars
<1> QED
  BY <1>1, <1>2, <1>3, <1>4, <1>5, <1>6, <1>7, <1>8, <1>9, <1>10, <1>11,
     <1>12, <1>13, <1>14, <1>15, <1>16, <1>17, <1>18, <1>19, <1>20, <1>21,
     <1>22, <1>23, <1>24, <1>25, <1>26, <1>27, <1>28, <1>29, <1>30, <1>31,
     <1>32, <1>33, <1>34, <1>35, <1>36
     DEF Next, MutatorStep, SubscribeStep, CloseStep, AdminStep

-------------------------------------------------------------------------------
(* Event streams. *)

\* Ending a stream with a status keeps the types of the streams.
LEMMA StatusType ==
  ASSUME StreamTypeOK, NEW s, EndWithStatus(s)
  PROVE  /\ queue' \in [Subscribers -> Seq(Event)]
         /\ ended' \in [Subscribers -> BOOLEAN]
         /\ cursor' \in [Subscribers -> Evaluation]
<1>1. [type |-> "status"] \in Event
  BY DEF Event
<1>2. <<>> \in Seq(Event) /\ <<[type |-> "status"]>> \in Seq(Event)
  BY <1>1
<1> QED
  BY <1>2 DEF EndWithStatus, StreamTypeOK

\* Whatever event a client takes in whatever state, it is left in a state.
LEMMA ApplyType ==
  ASSUME NEW s \in Subscribers, NEW state \in ClientState, NEW event \in Event
  PROVE  Apply(s, state, event) \in ClientState
<1>1. InitialView(s) \in ClientState
  BY QueryAssumption DEF InitialView, ClientState
<1>2. CASE event.type = "snapshot"
  <2>1. event.version \in Nat /\ event.rows \in Results
    BY <1>2 DEF Event
  <2> QED
    BY <1>2, <2>1 DEF Apply, ClientState
<1>3. CASE event.type = "delta"
  <2>1. event.version \in Nat /\ event.rows \in Results
    BY <1>3 DEF Event
  <2> QED
    BY <1>3, <2>1 DEF Apply, ClientState
<1>4. CASE event.type = "status"
  BY <1>1, <1>4 DEF Apply, ClientState
<1> QED
  BY <1>2, <1>3, <1>4 DEF Event

\* What is delivered to clients, and what they make of it.
LEMMA StreamTypeStep ==
  ASSUME FiberTypeOK, StoreTypeOK, StreamTypeOK, [Next]_vars
  PROVE  StreamTypeOK'
<1> USE FiberAssumption DEF FiberTypeOK, StreamTypeOK
<1>1. ASSUME NEW m \in Mutators, BeginMutation(m) PROVE StreamTypeOK'
  BY <1>1 DEF BeginMutation, streamVars
<1>2. ASSUME NEW m \in Mutators, InterruptMutation(m) PROVE StreamTypeOK'
  BY <1>2 DEF InterruptMutation, streamVars
<1>3. ASSUME NEW m \in Mutators, EnterMutation(m) PROVE StreamTypeOK'
  BY <1>3 DEF EnterMutation, streamVars
<1>4. ASSUME NEW m \in Mutators, WriteRows(m) PROVE StreamTypeOK'
  BY <1>4 DEF WriteRows, streamVars
<1>5. ASSUME NEW m \in Mutators, CommitRows(m) PROVE StreamTypeOK'
  BY <1>5 DEF CommitRows, streamVars
<1>6. ASSUME NEW m \in Mutators, ChangeNothing(m) PROVE StreamTypeOK'
  BY <1>6 DEF ChangeNothing, streamVars
<1>7. ASSUME NEW m \in Mutators, FailMutation(m) PROVE StreamTypeOK'
  BY <1>7 DEF FailMutation, streamVars
<1>8. ASSUME NEW m \in Mutators, EnterNotification(m) PROVE StreamTypeOK'
  BY <1>8 DEF EnterNotification, streamVars
<1>9. ASSUME NEW m \in Mutators, NEW s \in Subscribers, SkipClosed(m, s) PROVE StreamTypeOK'
  BY <1>9 DEF SkipClosed, streamVars
<1>10. ASSUME NEW m \in Mutators, NEW s \in Subscribers, NotifyUnchanged(m, s) PROVE StreamTypeOK'
  BY <1>10 DEF NotifyUnchanged, streamVars
<1>11. ASSUME NEW m \in Mutators, NEW s \in Subscribers, NotifyDelta(m, s) PROVE StreamTypeOK'
  <2>1. Latest(s) \in Evaluation
    BY QueryAssumption DEF Latest, Result, Evaluation, StoreTypeOK
  <2>2. Delta(s) \in Event
    BY <2>1 DEF Delta, Event, Evaluation
  <2>3. /\ cursor' = [cursor EXCEPT ![s] = Latest(s)]
        /\ queue' = [queue EXCEPT ![s] = Append(@, Delta(s))]
        /\ UNCHANGED <<subscribers, closed, ended, view>>
    BY <1>11 DEF NotifyDelta
  <2>4. cursor' \in [Subscribers -> Evaluation]
    BY <2>1, <2>3
  <2>5. queue' \in [Subscribers -> Seq(Event)]
    BY <2>2, <2>3
  <2> QED
    BY <2>3, <2>4, <2>5
<1>12. ASSUME NEW m \in Mutators, NEW s \in Subscribers, NotifyDropped(m, s) PROVE StreamTypeOK'
  <2>1. Latest(s) \in Evaluation
    BY QueryAssumption DEF Latest, Result, Evaluation, StoreTypeOK
  <2>2. /\ cursor' = [cursor EXCEPT ![s] = Latest(s)]
        /\ UNCHANGED <<subscribers, closed, queue, ended, view>>
    BY <1>12 DEF NotifyDropped
  <2> QED
    BY <2>1, <2>2
<1>13. ASSUME NEW m \in Mutators, EvictSubscriber(m) PROVE StreamTypeOK'
  <2>1. CASE closed[evictee[m]]
    BY <1>13, <2>1 DEF EvictSubscriber, streamVars
  <2>2. CASE ~closed[evictee[m]]
    BY <1>13, <2>2 DEF EvictSubscriber, streamVars
  <2> QED
    BY <2>1, <2>2
<1>14. ASSUME NEW m \in Mutators, SendBackpressure(m) PROVE StreamTypeOK'
  BY <1>14, StatusType DEF SendBackpressure
<1>15. ASSUME NEW m \in Mutators, EndMutation(m) PROVE StreamTypeOK'
  BY <1>15 DEF EndMutation, streamVars
<1>16. ASSUME NEW s \in Subscribers, BeginSubscribe(s) PROVE StreamTypeOK'
  BY <1>16 DEF BeginSubscribe, streamVars
<1>17. ASSUME NEW s \in Subscribers, InterruptSubscribe(s) PROVE StreamTypeOK'
  BY <1>17 DEF InterruptSubscribe, streamVars
<1>18. ASSUME NEW s \in Subscribers, EnterSubscribe(s) PROVE StreamTypeOK'
  BY <1>18 DEF EnterSubscribe, streamVars
<1>35. ASSUME NEW s \in Subscribers, AdmitSubscriber(s) PROVE StreamTypeOK'
  BY <1>35 DEF AdmitSubscriber, streamVars
<1>19. ASSUME NEW s \in Subscribers, RejectSubscribe(s) PROVE StreamTypeOK'
  BY <1>19 DEF RejectSubscribe, streamVars
<1>20. ASSUME NEW s \in Subscribers, RegisterSubscriber(s) PROVE StreamTypeOK'
  <2>1. Latest(s) \in Evaluation
    BY QueryAssumption DEF Latest, Result, Evaluation, StoreTypeOK
  <2> QED
    BY <1>20, <2>1 DEF RegisterSubscriber
<1>21. ASSUME NEW s \in Subscribers, OfferSnapshot(s) PROVE StreamTypeOK'
  <2> DEFINE snapshot == [type    |-> "snapshot",
                          version |-> Latest(s).version,
                          rows    |-> Latest(s).rows]
  <2>1. snapshot \in Event
    BY QueryAssumption DEF Latest, Result, Event, StoreTypeOK
  <2>2. queue' = [queue EXCEPT ![s] = Append(@, snapshot)]
    BY <1>21 DEF OfferSnapshot
  <2>3. queue' \in [Subscribers -> Seq(Event)]
    BY <2>1, <2>2
  <2> QED
    BY <1>21, <2>3 DEF OfferSnapshot
<1>22. ASSUME NEW s \in Subscribers, TakeEvent(s) PROVE StreamTypeOK'
  <2>1. queue[s] \in Seq(Event) /\ queue[s] # <<>> /\ Head(queue[s]) \in Event
    BY <1>22 DEF TakeEvent
  <2>2. Tail(queue[s]) \in Seq(Event)
    BY <2>1
  <2>3. Apply(s, view[s], Head(queue[s])) \in ClientState
    BY <2>1, ApplyType
  <2>4. /\ view' = [view EXCEPT ![s] = Apply(s, @, Head(queue[s]))]
        /\ queue' = [queue EXCEPT ![s] = Tail(@)]
        /\ UNCHANGED <<subscribers, closed, ended, cursor>>
    BY <1>22 DEF TakeEvent
  <2>5. view' \in [Subscribers -> ClientState] /\ queue' \in [Subscribers -> Seq(Event)]
    BY <2>2, <2>3, <2>4
  <2> QED
    BY <2>4, <2>5
<1>23. ASSUME NEW s \in Subscribers, BeginClose(s) PROVE StreamTypeOK'
  BY <1>23 DEF BeginClose, streamVars
<1>36. ASSUME NEW s \in Subscribers, InterruptClose(s) PROVE StreamTypeOK'
  BY <1>36 DEF InterruptClose, streamVars
<1>24. ASSUME NEW s \in Subscribers, CloseTakesNotification(s) PROVE StreamTypeOK'
  BY <1>24 DEF CloseTakesNotification, streamVars
<1>25. ASSUME NEW s \in Subscribers, CloseTakesMutation(s) PROVE StreamTypeOK'
  BY <1>25 DEF CloseTakesMutation, streamVars
<1>26. ASSUME NEW s \in Subscribers, FinishClose(s) PROVE StreamTypeOK'
  <2>1. CASE closed[s]
    BY <1>26, <2>1 DEF FinishClose
  <2>2. CASE ~closed[s]
    BY <1>26, <2>2 DEF FinishClose
  <2> QED
    BY <2>1, <2>2
<1>27. ASSUME NEW a \in Admins, BeginReset(a) PROVE StreamTypeOK'
  BY <1>27 DEF BeginReset, streamVars
<1>28. ASSUME NEW a \in Admins, BeginEngineClose(a) PROVE StreamTypeOK'
  BY <1>28 DEF BeginEngineClose, streamVars
<1>29. ASSUME NEW a \in Admins, AdminTakesNotification(a) PROVE StreamTypeOK'
  BY <1>29 DEF AdminTakesNotification, streamVars
<1>30. ASSUME NEW a \in Admins, ResetStore(a) PROVE StreamTypeOK'
  BY <1>30 DEF ResetStore, DrainSubscribers, streamVars
<1>31. ASSUME NEW a \in Admins, CloseStore(a) PROVE StreamTypeOK'
  BY <1>31 DEF CloseStore, DrainSubscribers, streamVars
<1>32. ASSUME NEW a \in Admins, NEW s \in Subscribers, CloseWithStatus(a, s) PROVE StreamTypeOK'
  <2>1. queue' \in [Subscribers -> Seq(Event)] /\ ended' \in [Subscribers -> BOOLEAN]
    BY <1>32, StatusType DEF CloseWithStatus
  <2>2. cursor' = cursor /\ closed' \in [Subscribers -> BOOLEAN]
    BY <1>32 DEF CloseWithStatus, EndWithStatus
  <2> QED
    BY <1>32, <2>1, <2>2 DEF CloseWithStatus
<1>33. ASSUME NEW a \in Admins, EndTransition(a) PROVE StreamTypeOK'
  BY <1>33 DEF EndTransition, streamVars
<1>34. CASE UNCHANGED vars
  BY <1>34 DEF vars, streamVars
<1> QED
  BY <1>1, <1>2, <1>3, <1>4, <1>5, <1>6, <1>7, <1>8, <1>9, <1>10, <1>11,
     <1>12, <1>13, <1>14, <1>15, <1>16, <1>17, <1>18, <1>19, <1>20, <1>21,
     <1>22, <1>23, <1>24, <1>25, <1>26, <1>27, <1>28, <1>29, <1>30, <1>31,
     <1>32, <1>33, <1>34, <1>35, <1>36
     DEF Next, MutatorStep, SubscribeStep, CloseStep, AdminStep

-------------------------------------------------------------------------------
(* The inductive invariant. *)

\* A new store satisfies the inductive invariant.
LEMMA InitIInv == Init => IInv
<1> SUFFICES ASSUME Init PROVE IInv
  OBVIOUS
<1> USE DEF Init
<1>1. FiberTypeOK
  BY FiberAssumption
     DEF FiberTypeOK, Fibers, MutatorStates, SubscriberStates, AdminStates
<1>2. StoreTypeOK
  <2>1. Empty \in Contents /\ <<Empty>> \in Seq(Contents)
    BY QueryAssumption
  <2> QED
    BY <2>1 DEF StoreTypeOK
<1>3. StreamTypeOK
  <2>1. \A s \in Subscribers : /\ View[QueryOf[s]][Empty] \in Results
                               /\ InitialView(s) \in ClientState
    BY QueryAssumption DEF InitialView, ClientState
  <2> QED
    BY <2>1 DEF StreamTypeOK, Evaluation
<1>4. LeaseTypeOK /\ LeaseCounts
  <2>1. {q \in Queries : refs[q] > 0} = {} /\ \A q \in Queries : {s \in subscribers : QueryOf[s] = q} = {}
    OBVIOUS
  <2> QED
    BY <2>1, FS_EmptySet DEF LeaseTypeOK, LeaseCounts
<1>5. PermitsMatchSections
  BY FiberAssumption DEF PermitsMatchSections, HoldsMutation, HoldsNotification, Fibers
<1>6. RegisteredWhileOpen /\ FreshIsOpen /\ ClosedIsEnded
  BY DEF RegisteredWhileOpen, FreshIsOpen, ClosedIsEnded, Fibers
<1>7. TargetsRegistered /\ EvicteeKnown /\ DrainedIsClosed
  BY FiberAssumption DEF TargetsRegistered, EvicteeKnown, DrainedIsClosed, Fibers
<1>8. ClosedEngineDrains /\ AdmittedBeforeDrain
  BY DEF ClosedEngineDrains, AdmittedBeforeDrain
<1> QED
  BY <1>1, <1>2, <1>3, <1>4, <1>5, <1>6, <1>7, <1>8 DEF IInv, TypeOK

\* Every step of every fiber, and every stutter, preserves it.
LEMMA NextIInv == IInv /\ [Next]_vars => IInv'
<1> SUFFICES ASSUME IInv, [Next]_vars PROVE IInv'
  OBVIOUS
<1> USE DEF IInv, TypeOK
<1>1. FiberTypeOK'
  BY FiberTypeStep
<1>2. StoreTypeOK'
  BY StoreTypeStep
<1>3. StreamTypeOK'
  BY StreamTypeStep
<1>4. LeaseTypeOK' /\ LeaseCounts'
  BY LeaseStep
<1>5. PermitsMatchSections'
  BY PermitsStep
<1>6. RegisteredWhileOpen'
  BY RegisteredStep
<1>7. FreshIsOpen'
  BY FreshStep
<1>8. TargetsRegistered'
  BY TargetsStep
<1>9. EvicteeKnown'
  BY EvicteeStep
<1>10. DrainedIsClosed'
  BY DrainedStep
<1>11. ClosedIsEnded'
  BY ClosedIsEndedStep
<1>12. ClosedEngineDrains' /\ AdmittedBeforeDrain'
  BY StoppingStep
<1> QED
  BY <1>1, <1>2, <1>3, <1>4, <1>5, <1>6, <1>7, <1>8, <1>9, <1>10, <1>11, <1>12

\* Types, lock discipline, leases, registration and closure hold together in
\* every reachable state; the theorems below are read off this one.
THEOREM Inductive == Spec => []IInv
<1>1. Init => IInv
  BY InitIInv
<1>2. IInv /\ [Next]_vars => IInv'
  BY NextIInv
<1> QED
  BY <1>1, <1>2, PTL DEF Spec

\* Every variable keeps its type; in particular no release takes a lease counter
\* below zero.
THEOREM Typing == Spec => []TypeOK
<1>1. IInv => TypeOK
  BY DEF IInv
<1> QED
  BY <1>1, Inductive, PTL

\* The two semaphores are held exactly inside their critical sections, so
\* mutations, notifications and transitions exclude each other as the code means.
THEOREM MutualExclusion == Spec => []PermitsMatchSections
<1>1. IInv => PermitsMatchSections
  BY DEF IInv
<1> QED
  BY <1>1, Inductive, PTL

\* Leases of shared executions equal registered subscriptions, and journal
\* retainers equal live executions, whatever closes a subscription.
THEOREM LeasesBalance == Spec => []LeaseCounts
<1>1. IInv => LeaseCounts
  BY DEF IInv
<1> QED
  BY <1>1, Inductive, PTL

\* A subscription is in the store's list exactly while it is open.
THEOREM Registration == Spec => []RegisteredWhileOpen
<1>1. IInv => RegisteredWhileOpen
  BY DEF IInv
<1> QED
  BY <1>1, Inductive, PTL

\* No subscription stays behind in a closed engine: one that found the engine open
\* under the mutation semaphore, and is registered after the flag went up, is
\* closed by a drain that is still to come.
THEOREM NothingLeftBehind == Spec => []ClosedEngineDrains
<1>1. IInv => ClosedEngineDrains
  BY DEF IInv
<1> QED
  BY <1>1, Inductive, PTL

\* A captured subscriber has a leased execution until it is marked closed: the
\* notification never computes a delta on an execution that was given back.
THEOREM NotifyLiveExecutions == Spec => []TargetsAlive
<1>1. IInv => TargetsAlive
  <2> SUFFICES ASSUME IInv, NEW m \in Mutators, NEW s \in targets[m], ~closed[s]
               PROVE  s \in subscribers /\ refs[QueryOf[s]] > 0
    BY DEF TargetsAlive
  <2>1. s \in subscribers
    BY DEF IInv, TargetsRegistered
  <2>2. s \in Subscribers /\ QueryOf[s] \in Queries
    BY <2>1, QueryAssumption DEF IInv, TypeOK, StreamTypeOK
  <2> DEFINE S == Subscribed(QueryOf[s], subscribers)
  <2>3. IsFiniteSet(S)
    <3>1. IsFiniteSet(subscribers)
      BY FiberAssumption, FS_Subset DEF Fibers, IInv, TypeOK, StreamTypeOK
    <3> QED
      BY <3>1, FS_Subset DEF Subscribed
  <2>4. S # {}
    BY <2>1 DEF Subscribed
  <2>5. refs[QueryOf[s]] = Cardinality(S)
    BY <2>2 DEF IInv, LeaseCounts, Subscribed
  <2>6. refs[QueryOf[s]] # 0 /\ refs[QueryOf[s]] \in Nat
    BY <2>3, <2>4, <2>5, FS_EmptySet, FS_CardinalityType
  <2> QED
    BY <2>1, <2>6
<1> QED
  BY <1>1, Inductive, PTL

\* No reader waits on the queue of a closed subscription that nobody will end.
THEOREM NoOrphanedReader == Spec => []ClosedIsEnded
<1>1. IInv => ClosedIsEnded
  BY DEF IInv
<1> QED
  BY <1>1, Inductive, PTL
-------------------------------------------------------------------------------
(* The streams of subscriptions. *)

\* A subscription whose snapshot has not been offered: its client knows nothing.
Fresh(s) == pc[s] \in {"new", "waiting", "subscribing", "admitted", "registered", "rejected"}

\* Nothing reaches it: no closure, no event, no mutation that captured it.
FreshIsQuiet ==
  \A s \in Subscribers : Fresh(s) =>
    /\ ~closed[s]
    /\ queue[s] = <<>>
    /\ view[s] = InitialView(s)
    /\ \A m \in Mutators : s \notin targets[m]

\* Between its registration and its snapshot it holds the mutation semaphore:
\* the rows it was evaluated on stay.
RegisteredIsCurrent ==
  \A s \in Subscribers : pc[s] = "registered" => cursor[s] = Latest(s)

DoneIsClosed == \A s \in Subscribers : pc[s] = "done" => closed[s]

EndedIsClosed == \A s \in Subscribers : ended[s] => closed[s]

\* Whom an eviction, a reset or an engine close is about to end, nobody else ends.
EndingIsExclusive ==
  /\ \A m \in Mutators : pc[m] = "evicting" => ~closed[evictee[m]]
  /\ \A m \in Mutators : pc[m] = "clearing" => ~ended[evictee[m]]
  /\ \A a \in Admins : pc[a] = "draining" => \A s \in targets[a] : ~ended[s]

Streaming ==
  /\ FreshIsQuiet
  /\ RegisteredIsCurrent
  /\ DoneIsClosed
  /\ EndedIsClosed
  /\ EndingIsExclusive

\* No event, closure or capture reaches a subscription before its snapshot.
LEMMA FreshIsQuietStep ==
  ASSUME FiberTypeOK, StreamTypeOK, PermitsMatchSections, RegisteredWhileOpen,
         EvicteeKnown, DrainedIsClosed, FreshIsQuiet, [Next]_vars
  PROVE  FreshIsQuiet'
<1> USE FiberAssumption DEF FiberTypeOK, StreamTypeOK, Fibers, FreshIsQuiet,
      Fresh, InitialView
<1>1. ASSUME NEW m \in Mutators, BeginMutation(m) PROVE FreshIsQuiet'
  BY <1>1 DEF BeginMutation, Goto, streamVars
<1>2. ASSUME NEW m \in Mutators, InterruptMutation(m) PROVE FreshIsQuiet'
  BY <1>2 DEF InterruptMutation, Goto, streamVars
<1>3. ASSUME NEW m \in Mutators, EnterMutation(m) PROVE FreshIsQuiet'
  BY <1>3 DEF EnterMutation, Goto, streamVars
<1>4. ASSUME NEW m \in Mutators, WriteRows(m) PROVE FreshIsQuiet'
  BY <1>4 DEF WriteRows, Goto, streamVars
<1>5. ASSUME NEW m \in Mutators, CommitRows(m) PROVE FreshIsQuiet'
  <2>1. \A s \in Subscribers : pc[s] # "registered"
    BY <1>5 DEF CommitRows, PermitsMatchSections, HoldsMutation
  <2>2. \A s \in subscribers : ~Fresh(s)
    BY <2>1 DEF RegisteredWhileOpen
  <2>3. /\ targets' = [targets EXCEPT ![m] = subscribers]
        /\ UNCHANGED <<queue, view, closed>>
        /\ \A s \in Subscribers : pc'[s] = pc[s]
    BY <1>5 DEF CommitRows, Goto, streamVars
  <2> QED
    BY <2>2, <2>3
<1>6. ASSUME NEW m \in Mutators, ChangeNothing(m) PROVE FreshIsQuiet'
  BY <1>6 DEF ChangeNothing, Goto, streamVars
<1>7. ASSUME NEW m \in Mutators, FailMutation(m) PROVE FreshIsQuiet'
  BY <1>7 DEF FailMutation, Goto, streamVars
<1>8. ASSUME NEW m \in Mutators, EnterNotification(m) PROVE FreshIsQuiet'
  BY <1>8 DEF EnterNotification, Goto, streamVars
<1>9. ASSUME NEW m \in Mutators, NEW s \in Subscribers, SkipClosed(m, s) PROVE FreshIsQuiet'
  BY <1>9 DEF SkipClosed, Notifying, streamVars
<1>10. ASSUME NEW m \in Mutators, NEW s \in Subscribers, NotifyUnchanged(m, s) PROVE FreshIsQuiet'
  BY <1>10 DEF NotifyUnchanged, Notifying, streamVars
<1>11. ASSUME NEW m \in Mutators, NEW s \in Subscribers, NotifyDelta(m, s) PROVE FreshIsQuiet'
  BY <1>11 DEF NotifyDelta, Notifying
<1>12. ASSUME NEW m \in Mutators, NEW s \in Subscribers, NotifyDropped(m, s) PROVE FreshIsQuiet'
  BY <1>12 DEF NotifyDropped, Goto, Notifying
<1>13. ASSUME NEW m \in Mutators, EvictSubscriber(m) PROVE FreshIsQuiet'
  <2>1. \A s \in Subscribers : pc[s] # "registered"
    BY <1>13 DEF EvictSubscriber, PermitsMatchSections, HoldsMutation
  <2>2. evictee[m] \in Subscribers /\ ~Fresh(evictee[m])
    BY <1>13, <2>1 DEF EvictSubscriber, EvicteeKnown, RegisteredWhileOpen
  <2>3. /\ \A s \in Subscribers : s # evictee[m] => closed'[s] = closed[s]
        /\ \A s \in Subscribers : pc'[s] = pc[s]
        /\ UNCHANGED <<queue, view, targets>>
    BY <1>13 DEF EvictSubscriber, Goto, streamVars
  <2> QED
    BY <2>2, <2>3
<1>14. ASSUME NEW m \in Mutators, SendBackpressure(m) PROVE FreshIsQuiet'
  <2>1. evictee[m] \in Subscribers /\ ~Fresh(evictee[m])
    BY <1>14 DEF SendBackpressure, EvicteeKnown
  <2>2. /\ \A s \in Subscribers : s # evictee[m] => queue'[s] = queue[s]
        /\ \A s \in Subscribers : pc'[s] = pc[s]
        /\ UNCHANGED <<view, targets, closed>>
    BY <1>14 DEF SendBackpressure, EndWithStatus, Goto
  <2> QED
    BY <2>1, <2>2
<1>15. ASSUME NEW m \in Mutators, EndMutation(m) PROVE FreshIsQuiet'
  BY <1>15 DEF EndMutation, Goto, streamVars
<1>16. ASSUME NEW s \in Subscribers, BeginSubscribe(s) PROVE FreshIsQuiet'
  BY <1>16 DEF BeginSubscribe, Goto, streamVars
<1>17. ASSUME NEW s \in Subscribers, InterruptSubscribe(s) PROVE FreshIsQuiet'
  BY <1>17 DEF InterruptSubscribe, Goto, streamVars
<1>18. ASSUME NEW s \in Subscribers, EnterSubscribe(s) PROVE FreshIsQuiet'
  BY <1>18 DEF EnterSubscribe, Goto, streamVars
<1>35. ASSUME NEW s \in Subscribers, AdmitSubscriber(s) PROVE FreshIsQuiet'
  BY <1>35 DEF AdmitSubscriber, Goto, streamVars
<1>19. ASSUME NEW s \in Subscribers, RejectSubscribe(s) PROVE FreshIsQuiet'
  BY <1>19 DEF RejectSubscribe, Goto, streamVars
<1>20. ASSUME NEW s \in Subscribers, RegisterSubscriber(s) PROVE FreshIsQuiet'
  BY <1>20 DEF RegisterSubscriber, Goto
<1>21. ASSUME NEW s \in Subscribers, OfferSnapshot(s) PROVE FreshIsQuiet'
  BY <1>21 DEF OfferSnapshot, Goto
<1>22. ASSUME NEW s \in Subscribers, TakeEvent(s) PROVE FreshIsQuiet'
  BY <1>22 DEF TakeEvent
<1>23. ASSUME NEW s \in Subscribers, BeginClose(s) PROVE FreshIsQuiet'
  BY <1>23 DEF BeginClose, Goto, streamVars
<1>36. ASSUME NEW s \in Subscribers, InterruptClose(s) PROVE FreshIsQuiet'
  BY <1>36 DEF InterruptClose, Goto, streamVars
<1>24. ASSUME NEW s \in Subscribers, CloseTakesNotification(s) PROVE FreshIsQuiet'
  BY <1>24 DEF CloseTakesNotification, Goto, streamVars
<1>25. ASSUME NEW s \in Subscribers, CloseTakesMutation(s) PROVE FreshIsQuiet'
  BY <1>25 DEF CloseTakesMutation, Goto, streamVars
<1>26. ASSUME NEW s \in Subscribers, FinishClose(s) PROVE FreshIsQuiet'
  <2>1. /\ \A t \in Subscribers : t # s => closed'[t] = closed[t] /\ pc'[t] = pc[t]
        /\ pc'[s] = "done"
        /\ UNCHANGED <<queue, view, targets>>
    BY <1>26 DEF FinishClose, Goto
  <2> QED
    BY <2>1
<1>27. ASSUME NEW a \in Admins, BeginReset(a) PROVE FreshIsQuiet'
  BY <1>27 DEF BeginReset, Goto, streamVars
<1>28. ASSUME NEW a \in Admins, BeginEngineClose(a) PROVE FreshIsQuiet'
  BY <1>28 DEF BeginEngineClose, Goto, streamVars
<1>29. ASSUME NEW a \in Admins, AdminTakesNotification(a) PROVE FreshIsQuiet'
  BY <1>29 DEF AdminTakesNotification, Goto, streamVars
<1>30. ASSUME NEW a \in Admins, ResetStore(a) PROVE FreshIsQuiet'
  <2>1. \A s \in Subscribers : pc[s] # "registered"
    BY <1>30 DEF ResetStore, DrainSubscribers, PermitsMatchSections, HoldsMutation
  <2>2. \A s \in subscribers : ~Fresh(s)
    BY <2>1 DEF RegisteredWhileOpen
  <2>3. /\ \A s \in Subscribers : closed'[s] => closed[s] \/ s \in subscribers
        /\ \A s \in Subscribers : pc'[s] = pc[s]
        /\ \A m \in Mutators : targets'[m] = targets[m]
        /\ UNCHANGED <<queue, view>>
    BY <1>30 DEF ResetStore, DrainSubscribers, Goto, streamVars
  <2> QED
    BY <2>2, <2>3
<1>31. ASSUME NEW a \in Admins, CloseStore(a) PROVE FreshIsQuiet'
  <2>1. \A s \in Subscribers : pc[s] # "registered"
    BY <1>31 DEF CloseStore, DrainSubscribers, PermitsMatchSections, HoldsMutation
  <2>2. \A s \in subscribers : ~Fresh(s)
    BY <2>1 DEF RegisteredWhileOpen
  <2>3. /\ \A s \in Subscribers : closed'[s] => closed[s] \/ s \in subscribers
        /\ \A s \in Subscribers : pc'[s] = pc[s]
        /\ \A m \in Mutators : targets'[m] = targets[m]
        /\ UNCHANGED <<queue, view>>
    BY <1>31 DEF CloseStore, DrainSubscribers, Goto, streamVars
  <2> QED
    BY <2>2, <2>3
<1>32. ASSUME NEW a \in Admins, NEW s \in Subscribers, CloseWithStatus(a, s) PROVE FreshIsQuiet'
  <2>1. closed[s] /\ ~Fresh(s)
    BY <1>32 DEF CloseWithStatus, DrainedIsClosed
  <2>2. /\ \A t \in Subscribers : t # s => queue'[t] = queue[t] /\ closed'[t] = closed[t]
        /\ \A m \in Mutators : targets'[m] = targets[m]
        /\ UNCHANGED <<view, pc>>
    BY <1>32 DEF CloseWithStatus, EndWithStatus
  <2> QED
    BY <2>1, <2>2
<1>33. ASSUME NEW a \in Admins, EndTransition(a) PROVE FreshIsQuiet'
  BY <1>33 DEF EndTransition, Goto, streamVars
<1>34. CASE UNCHANGED vars
  BY <1>34 DEF vars, streamVars
<1> QED
  BY <1>1, <1>2, <1>3, <1>4, <1>5, <1>6, <1>7, <1>8, <1>9, <1>10, <1>11,
     <1>12, <1>13, <1>14, <1>15, <1>16, <1>17, <1>18, <1>19, <1>20, <1>21,
     <1>22, <1>23, <1>24, <1>25, <1>26, <1>27, <1>28, <1>29, <1>30, <1>31,
     <1>32, <1>33, <1>34, <1>35, <1>36
     DEF Next, MutatorStep, SubscribeStep, CloseStep, AdminStep

\* What a subscription was evaluated on stays until its snapshot is offered.
LEMMA RegisteredIsCurrentStep ==
  ASSUME FiberTypeOK, StreamTypeOK, PermitsMatchSections, FreshIsQuiet,
         RegisteredIsCurrent, [Next]_vars
  PROVE  RegisteredIsCurrent'
<1> USE FiberAssumption DEF FiberTypeOK, StreamTypeOK, Fibers,
      PermitsMatchSections, HoldsMutation, RegisteredIsCurrent, Latest, Result
<1>1. ASSUME NEW m \in Mutators, BeginMutation(m) PROVE RegisteredIsCurrent'
  BY <1>1 DEF BeginMutation, Goto, storeVars, streamVars
<1>2. ASSUME NEW m \in Mutators, InterruptMutation(m) PROVE RegisteredIsCurrent'
  BY <1>2 DEF InterruptMutation, Goto, storeVars, streamVars
<1>3. ASSUME NEW m \in Mutators, EnterMutation(m) PROVE RegisteredIsCurrent'
  BY <1>3 DEF EnterMutation, Goto, storeVars, streamVars
<1>4. ASSUME NEW m \in Mutators, WriteRows(m) PROVE RegisteredIsCurrent'
  BY <1>4 DEF WriteRows, Goto, streamVars
<1>5. ASSUME NEW m \in Mutators, CommitRows(m) PROVE RegisteredIsCurrent'
  BY <1>5 DEF CommitRows, Goto, streamVars
<1>6. ASSUME NEW m \in Mutators, ChangeNothing(m) PROVE RegisteredIsCurrent'
  BY <1>6 DEF ChangeNothing, Goto, storeVars, streamVars
<1>7. ASSUME NEW m \in Mutators, FailMutation(m) PROVE RegisteredIsCurrent'
  BY <1>7 DEF FailMutation, Goto, storeVars, streamVars
<1>8. ASSUME NEW m \in Mutators, EnterNotification(m) PROVE RegisteredIsCurrent'
  BY <1>8 DEF EnterNotification, Goto, storeVars, streamVars
<1>9. ASSUME NEW m \in Mutators, NEW s \in Subscribers, SkipClosed(m, s) PROVE RegisteredIsCurrent'
  BY <1>9 DEF SkipClosed, Notifying, storeVars, streamVars
<1>10. ASSUME NEW m \in Mutators, NEW s \in Subscribers, NotifyUnchanged(m, s) PROVE RegisteredIsCurrent'
  BY <1>10 DEF NotifyUnchanged, Notifying, storeVars, streamVars
<1>11. ASSUME NEW m \in Mutators, NEW s \in Subscribers, NotifyDelta(m, s) PROVE RegisteredIsCurrent'
  BY <1>11 DEF NotifyDelta, Notifying, storeVars, FreshIsQuiet, Fresh
<1>12. ASSUME NEW m \in Mutators, NEW s \in Subscribers, NotifyDropped(m, s) PROVE RegisteredIsCurrent'
  BY <1>12 DEF NotifyDropped, Goto, Notifying, storeVars, FreshIsQuiet, Fresh
<1>13. ASSUME NEW m \in Mutators, EvictSubscriber(m) PROVE RegisteredIsCurrent'
  BY <1>13 DEF EvictSubscriber, Goto, storeVars, streamVars
<1>14. ASSUME NEW m \in Mutators, SendBackpressure(m) PROVE RegisteredIsCurrent'
  BY <1>14 DEF SendBackpressure, Goto, EndWithStatus, storeVars
<1>15. ASSUME NEW m \in Mutators, EndMutation(m) PROVE RegisteredIsCurrent'
  BY <1>15 DEF EndMutation, Goto, storeVars, streamVars
<1>16. ASSUME NEW s \in Subscribers, BeginSubscribe(s) PROVE RegisteredIsCurrent'
  BY <1>16 DEF BeginSubscribe, Goto, storeVars, streamVars
<1>17. ASSUME NEW s \in Subscribers, InterruptSubscribe(s) PROVE RegisteredIsCurrent'
  BY <1>17 DEF InterruptSubscribe, Goto, storeVars, streamVars
<1>18. ASSUME NEW s \in Subscribers, EnterSubscribe(s) PROVE RegisteredIsCurrent'
  BY <1>18 DEF EnterSubscribe, Goto, storeVars, streamVars
<1>35. ASSUME NEW s \in Subscribers, AdmitSubscriber(s) PROVE RegisteredIsCurrent'
  BY <1>35 DEF AdmitSubscriber, Goto, storeVars, streamVars
<1>19. ASSUME NEW s \in Subscribers, RejectSubscribe(s) PROVE RegisteredIsCurrent'
  BY <1>19 DEF RejectSubscribe, Goto, storeVars, streamVars
<1>20. ASSUME NEW s \in Subscribers, RegisterSubscriber(s) PROVE RegisteredIsCurrent'
  BY <1>20 DEF RegisterSubscriber, Goto, storeVars
<1>21. ASSUME NEW s \in Subscribers, OfferSnapshot(s) PROVE RegisteredIsCurrent'
  BY <1>21 DEF OfferSnapshot, Goto, storeVars
<1>22. ASSUME NEW s \in Subscribers, TakeEvent(s) PROVE RegisteredIsCurrent'
  BY <1>22 DEF TakeEvent, storeVars
<1>23. ASSUME NEW s \in Subscribers, BeginClose(s) PROVE RegisteredIsCurrent'
  BY <1>23 DEF BeginClose, Goto, storeVars, streamVars
<1>36. ASSUME NEW s \in Subscribers, InterruptClose(s) PROVE RegisteredIsCurrent'
  BY <1>36 DEF InterruptClose, Goto, storeVars, streamVars
<1>24. ASSUME NEW s \in Subscribers, CloseTakesNotification(s) PROVE RegisteredIsCurrent'
  BY <1>24 DEF CloseTakesNotification, Goto, storeVars, streamVars
<1>25. ASSUME NEW s \in Subscribers, CloseTakesMutation(s) PROVE RegisteredIsCurrent'
  BY <1>25 DEF CloseTakesMutation, Goto, storeVars, streamVars
<1>26. ASSUME NEW s \in Subscribers, FinishClose(s) PROVE RegisteredIsCurrent'
  BY <1>26 DEF FinishClose, Goto, storeVars
<1>27. ASSUME NEW a \in Admins, BeginReset(a) PROVE RegisteredIsCurrent'
  BY <1>27 DEF BeginReset, Goto, storeVars, streamVars
<1>28. ASSUME NEW a \in Admins, BeginEngineClose(a) PROVE RegisteredIsCurrent'
  BY <1>28 DEF BeginEngineClose, Goto, storeVars, streamVars
<1>29. ASSUME NEW a \in Admins, AdminTakesNotification(a) PROVE RegisteredIsCurrent'
  BY <1>29 DEF AdminTakesNotification, Goto, storeVars, streamVars
<1>30. ASSUME NEW a \in Admins, ResetStore(a) PROVE RegisteredIsCurrent'
  BY <1>30 DEF ResetStore, Goto, DrainSubscribers, streamVars
<1>31. ASSUME NEW a \in Admins, CloseStore(a) PROVE RegisteredIsCurrent'
  BY <1>31 DEF CloseStore, Goto, DrainSubscribers, storeVars, streamVars
<1>32. ASSUME NEW a \in Admins, NEW s \in Subscribers, CloseWithStatus(a, s) PROVE RegisteredIsCurrent'
  BY <1>32 DEF CloseWithStatus, EndWithStatus, storeVars
<1>33. ASSUME NEW a \in Admins, EndTransition(a) PROVE RegisteredIsCurrent'
  BY <1>33 DEF EndTransition, Goto, storeVars, streamVars
<1>34. CASE UNCHANGED vars
  BY <1>34 DEF vars, storeVars, streamVars
<1> QED
  BY <1>1, <1>2, <1>3, <1>4, <1>5, <1>6, <1>7, <1>8, <1>9, <1>10, <1>11,
     <1>12, <1>13, <1>14, <1>15, <1>16, <1>17, <1>18, <1>19, <1>20, <1>21,
     <1>22, <1>23, <1>24, <1>25, <1>26, <1>27, <1>28, <1>29, <1>30, <1>31,
     <1>32, <1>33, <1>34, <1>35, <1>36
     DEF Next, MutatorStep, SubscribeStep, CloseStep, AdminStep

\* A subscription is done once it has been closed.
LEMMA DoneIsClosedStep ==
  ASSUME FiberTypeOK, StreamTypeOK, DoneIsClosed, [Next]_vars
  PROVE  DoneIsClosed'
<1> USE FiberAssumption DEF FiberTypeOK, StreamTypeOK, Fibers, DoneIsClosed
<1>1. ASSUME NEW m \in Mutators, BeginMutation(m) PROVE DoneIsClosed'
  BY <1>1 DEF BeginMutation, Goto
<1>2. ASSUME NEW m \in Mutators, InterruptMutation(m) PROVE DoneIsClosed'
  BY <1>2 DEF InterruptMutation, Goto
<1>3. ASSUME NEW m \in Mutators, EnterMutation(m) PROVE DoneIsClosed'
  BY <1>3 DEF EnterMutation, Goto
<1>4. ASSUME NEW m \in Mutators, WriteRows(m) PROVE DoneIsClosed'
  BY <1>4 DEF WriteRows, Goto
<1>5. ASSUME NEW m \in Mutators, CommitRows(m) PROVE DoneIsClosed'
  BY <1>5 DEF CommitRows, Goto
<1>6. ASSUME NEW m \in Mutators, ChangeNothing(m) PROVE DoneIsClosed'
  BY <1>6 DEF ChangeNothing, Goto
<1>7. ASSUME NEW m \in Mutators, FailMutation(m) PROVE DoneIsClosed'
  BY <1>7 DEF FailMutation, Goto
<1>8. ASSUME NEW m \in Mutators, EnterNotification(m) PROVE DoneIsClosed'
  BY <1>8 DEF EnterNotification, Goto
<1>9. ASSUME NEW m \in Mutators, NEW s \in Subscribers, SkipClosed(m, s) PROVE DoneIsClosed'
  BY <1>9 DEF SkipClosed, Notifying
<1>10. ASSUME NEW m \in Mutators, NEW s \in Subscribers, NotifyUnchanged(m, s) PROVE DoneIsClosed'
  BY <1>10 DEF NotifyUnchanged, Notifying
<1>11. ASSUME NEW m \in Mutators, NEW s \in Subscribers, NotifyDelta(m, s) PROVE DoneIsClosed'
  BY <1>11 DEF NotifyDelta, Notifying
<1>12. ASSUME NEW m \in Mutators, NEW s \in Subscribers, NotifyDropped(m, s) PROVE DoneIsClosed'
  BY <1>12 DEF NotifyDropped, Goto, Notifying
<1>13. ASSUME NEW m \in Mutators, EvictSubscriber(m) PROVE DoneIsClosed'
  <2>1. \A t \in Subscribers : pc'[t] = pc[t]
    BY <1>13 DEF EvictSubscriber, Goto
  <2>2. closed' = closed \/ closed' = [closed EXCEPT ![evictee[m]] = TRUE]
    BY <1>13 DEF EvictSubscriber
  <2>3. \A t \in Subscribers : closed[t] => closed'[t]
    BY <2>2
  <2> QED
    BY <2>1, <2>3
<1>14. ASSUME NEW m \in Mutators, SendBackpressure(m) PROVE DoneIsClosed'
  BY <1>14 DEF SendBackpressure, Goto
<1>15. ASSUME NEW m \in Mutators, EndMutation(m) PROVE DoneIsClosed'
  BY <1>15 DEF EndMutation, Goto
<1>16. ASSUME NEW s \in Subscribers, BeginSubscribe(s) PROVE DoneIsClosed'
  BY <1>16 DEF BeginSubscribe, Goto
<1>17. ASSUME NEW s \in Subscribers, InterruptSubscribe(s) PROVE DoneIsClosed'
  BY <1>17 DEF InterruptSubscribe, Goto
<1>18. ASSUME NEW s \in Subscribers, EnterSubscribe(s) PROVE DoneIsClosed'
  BY <1>18 DEF EnterSubscribe, Goto
<1>35. ASSUME NEW s \in Subscribers, AdmitSubscriber(s) PROVE DoneIsClosed'
  BY <1>35 DEF AdmitSubscriber, Goto
<1>19. ASSUME NEW s \in Subscribers, RejectSubscribe(s) PROVE DoneIsClosed'
  BY <1>19 DEF RejectSubscribe, Goto
<1>20. ASSUME NEW s \in Subscribers, RegisterSubscriber(s) PROVE DoneIsClosed'
  BY <1>20 DEF RegisterSubscriber, Goto
<1>21. ASSUME NEW s \in Subscribers, OfferSnapshot(s) PROVE DoneIsClosed'
  BY <1>21 DEF OfferSnapshot, Goto
<1>22. ASSUME NEW s \in Subscribers, TakeEvent(s) PROVE DoneIsClosed'
  BY <1>22 DEF TakeEvent
<1>23. ASSUME NEW s \in Subscribers, BeginClose(s) PROVE DoneIsClosed'
  BY <1>23 DEF BeginClose, Goto
<1>36. ASSUME NEW s \in Subscribers, InterruptClose(s) PROVE DoneIsClosed'
  BY <1>36 DEF InterruptClose, Goto
<1>24. ASSUME NEW s \in Subscribers, CloseTakesNotification(s) PROVE DoneIsClosed'
  BY <1>24 DEF CloseTakesNotification, Goto
<1>25. ASSUME NEW s \in Subscribers, CloseTakesMutation(s) PROVE DoneIsClosed'
  BY <1>25 DEF CloseTakesMutation, Goto
<1>26. ASSUME NEW s \in Subscribers, FinishClose(s) PROVE DoneIsClosed'
  BY <1>26 DEF FinishClose, Goto
<1>27. ASSUME NEW a \in Admins, BeginReset(a) PROVE DoneIsClosed'
  BY <1>27 DEF BeginReset, Goto
<1>28. ASSUME NEW a \in Admins, BeginEngineClose(a) PROVE DoneIsClosed'
  BY <1>28 DEF BeginEngineClose, Goto
<1>29. ASSUME NEW a \in Admins, AdminTakesNotification(a) PROVE DoneIsClosed'
  BY <1>29 DEF AdminTakesNotification, Goto
<1>30. ASSUME NEW a \in Admins, ResetStore(a) PROVE DoneIsClosed'
  BY <1>30 DEF ResetStore, Goto, DrainSubscribers
<1>31. ASSUME NEW a \in Admins, CloseStore(a) PROVE DoneIsClosed'
  BY <1>31 DEF CloseStore, Goto, DrainSubscribers
<1>32. ASSUME NEW a \in Admins, NEW s \in Subscribers, CloseWithStatus(a, s) PROVE DoneIsClosed'
  BY <1>32 DEF CloseWithStatus
<1>33. ASSUME NEW a \in Admins, EndTransition(a) PROVE DoneIsClosed'
  BY <1>33 DEF EndTransition, Goto
<1>34. CASE UNCHANGED vars
  BY <1>34 DEF vars
<1> QED
  BY <1>1, <1>2, <1>3, <1>4, <1>5, <1>6, <1>7, <1>8, <1>9, <1>10, <1>11,
     <1>12, <1>13, <1>14, <1>15, <1>16, <1>17, <1>18, <1>19, <1>20, <1>21,
     <1>22, <1>23, <1>24, <1>25, <1>26, <1>27, <1>28, <1>29, <1>30, <1>31,
     <1>32, <1>33, <1>34, <1>35, <1>36
     DEF Next, MutatorStep, SubscribeStep, CloseStep, AdminStep

\* Streams are ended by who closes the subscription, or after.
LEMMA EndedIsClosedStep ==
  ASSUME FiberTypeOK, StreamTypeOK, EvicteeKnown, DrainedIsClosed,
         EndedIsClosed, [Next]_vars
  PROVE  EndedIsClosed'
<1> USE FiberAssumption DEF FiberTypeOK, StreamTypeOK, Fibers, EndedIsClosed
<1>1. ASSUME NEW m \in Mutators, BeginMutation(m) PROVE EndedIsClosed'
  BY <1>1 DEF BeginMutation, streamVars
<1>2. ASSUME NEW m \in Mutators, InterruptMutation(m) PROVE EndedIsClosed'
  BY <1>2 DEF InterruptMutation, streamVars
<1>3. ASSUME NEW m \in Mutators, EnterMutation(m) PROVE EndedIsClosed'
  BY <1>3 DEF EnterMutation, streamVars
<1>4. ASSUME NEW m \in Mutators, WriteRows(m) PROVE EndedIsClosed'
  BY <1>4 DEF WriteRows, streamVars
<1>5. ASSUME NEW m \in Mutators, CommitRows(m) PROVE EndedIsClosed'
  BY <1>5 DEF CommitRows, streamVars
<1>6. ASSUME NEW m \in Mutators, ChangeNothing(m) PROVE EndedIsClosed'
  BY <1>6 DEF ChangeNothing, streamVars
<1>7. ASSUME NEW m \in Mutators, FailMutation(m) PROVE EndedIsClosed'
  BY <1>7 DEF FailMutation, streamVars
<1>8. ASSUME NEW m \in Mutators, EnterNotification(m) PROVE EndedIsClosed'
  BY <1>8 DEF EnterNotification, streamVars
<1>9. ASSUME NEW m \in Mutators, NEW s \in Subscribers, SkipClosed(m, s) PROVE EndedIsClosed'
  BY <1>9 DEF SkipClosed, streamVars
<1>10. ASSUME NEW m \in Mutators, NEW s \in Subscribers, NotifyUnchanged(m, s) PROVE EndedIsClosed'
  BY <1>10 DEF NotifyUnchanged, streamVars
<1>11. ASSUME NEW m \in Mutators, NEW s \in Subscribers, NotifyDelta(m, s) PROVE EndedIsClosed'
  BY <1>11 DEF NotifyDelta
<1>12. ASSUME NEW m \in Mutators, NEW s \in Subscribers, NotifyDropped(m, s) PROVE EndedIsClosed'
  BY <1>12 DEF NotifyDropped
<1>13. ASSUME NEW m \in Mutators, EvictSubscriber(m) PROVE EndedIsClosed'
  BY <1>13 DEF EvictSubscriber, streamVars
<1>14. ASSUME NEW m \in Mutators, SendBackpressure(m) PROVE EndedIsClosed'
  BY <1>14 DEF SendBackpressure, EndWithStatus, EvicteeKnown
<1>15. ASSUME NEW m \in Mutators, EndMutation(m) PROVE EndedIsClosed'
  BY <1>15 DEF EndMutation, streamVars
<1>16. ASSUME NEW s \in Subscribers, BeginSubscribe(s) PROVE EndedIsClosed'
  BY <1>16 DEF BeginSubscribe, streamVars
<1>17. ASSUME NEW s \in Subscribers, InterruptSubscribe(s) PROVE EndedIsClosed'
  BY <1>17 DEF InterruptSubscribe, streamVars
<1>18. ASSUME NEW s \in Subscribers, EnterSubscribe(s) PROVE EndedIsClosed'
  BY <1>18 DEF EnterSubscribe, streamVars
<1>35. ASSUME NEW s \in Subscribers, AdmitSubscriber(s) PROVE EndedIsClosed'
  BY <1>35 DEF AdmitSubscriber, streamVars
<1>19. ASSUME NEW s \in Subscribers, RejectSubscribe(s) PROVE EndedIsClosed'
  BY <1>19 DEF RejectSubscribe, streamVars
<1>20. ASSUME NEW s \in Subscribers, RegisterSubscriber(s) PROVE EndedIsClosed'
  BY <1>20 DEF RegisterSubscriber
<1>21. ASSUME NEW s \in Subscribers, OfferSnapshot(s) PROVE EndedIsClosed'
  BY <1>21 DEF OfferSnapshot
<1>22. ASSUME NEW s \in Subscribers, TakeEvent(s) PROVE EndedIsClosed'
  BY <1>22 DEF TakeEvent
<1>23. ASSUME NEW s \in Subscribers, BeginClose(s) PROVE EndedIsClosed'
  BY <1>23 DEF BeginClose, streamVars
<1>36. ASSUME NEW s \in Subscribers, InterruptClose(s) PROVE EndedIsClosed'
  BY <1>36 DEF InterruptClose, streamVars
<1>24. ASSUME NEW s \in Subscribers, CloseTakesNotification(s) PROVE EndedIsClosed'
  BY <1>24 DEF CloseTakesNotification, streamVars
<1>25. ASSUME NEW s \in Subscribers, CloseTakesMutation(s) PROVE EndedIsClosed'
  BY <1>25 DEF CloseTakesMutation, streamVars
<1>26. ASSUME NEW s \in Subscribers, FinishClose(s) PROVE EndedIsClosed'
  <2>1. CASE closed[s]
    BY <1>26, <2>1 DEF FinishClose
  <2>2. CASE ~closed[s]
    <3>1. closed' = [closed EXCEPT ![s] = TRUE] /\ ended' = [ended EXCEPT ![s] = TRUE]
      BY <1>26, <2>2 DEF FinishClose
    <3> QED
      BY <3>1
  <2> QED
    BY <2>1, <2>2
<1>27. ASSUME NEW a \in Admins, BeginReset(a) PROVE EndedIsClosed'
  BY <1>27 DEF BeginReset, streamVars
<1>28. ASSUME NEW a \in Admins, BeginEngineClose(a) PROVE EndedIsClosed'
  BY <1>28 DEF BeginEngineClose, streamVars
<1>29. ASSUME NEW a \in Admins, AdminTakesNotification(a) PROVE EndedIsClosed'
  BY <1>29 DEF AdminTakesNotification, streamVars
<1>30. ASSUME NEW a \in Admins, ResetStore(a) PROVE EndedIsClosed'
  BY <1>30 DEF ResetStore, DrainSubscribers, streamVars
<1>31. ASSUME NEW a \in Admins, CloseStore(a) PROVE EndedIsClosed'
  BY <1>31 DEF CloseStore, DrainSubscribers, streamVars
<1>32. ASSUME NEW a \in Admins, NEW s \in Subscribers, CloseWithStatus(a, s) PROVE EndedIsClosed'
  BY <1>32 DEF CloseWithStatus, EndWithStatus, DrainedIsClosed
<1>33. ASSUME NEW a \in Admins, EndTransition(a) PROVE EndedIsClosed'
  BY <1>33 DEF EndTransition, streamVars
<1>34. CASE UNCHANGED vars
  BY <1>34 DEF vars, streamVars
<1> QED
  BY <1>1, <1>2, <1>3, <1>4, <1>5, <1>6, <1>7, <1>8, <1>9, <1>10, <1>11,
     <1>12, <1>13, <1>14, <1>15, <1>16, <1>17, <1>18, <1>19, <1>20, <1>21,
     <1>22, <1>23, <1>24, <1>25, <1>26, <1>27, <1>28, <1>29, <1>30, <1>31,
     <1>32, <1>33, <1>34, <1>35, <1>36
     DEF Next, MutatorStep, SubscribeStep, CloseStep, AdminStep

\* Whoever is about to end a stream holds the notification semaphore until it has.
LEMMA EndingIsExclusiveStep ==
  ASSUME FiberTypeOK, StreamTypeOK, PermitsMatchSections, RegisteredWhileOpen,
         EvicteeKnown, DrainedIsClosed, EndedIsClosed, EndingIsExclusive,
         [Next]_vars
  PROVE  EndingIsExclusive'
<1> USE FiberAssumption DEF FiberTypeOK, StreamTypeOK, Fibers,
      PermitsMatchSections, HoldsNotification, EndingIsExclusive
<1>1. ASSUME NEW m \in Mutators, BeginMutation(m) PROVE EndingIsExclusive'
  BY <1>1 DEF BeginMutation, Goto, streamVars
<1>2. ASSUME NEW m \in Mutators, InterruptMutation(m) PROVE EndingIsExclusive'
  BY <1>2 DEF InterruptMutation, Goto, streamVars
<1>3. ASSUME NEW m \in Mutators, EnterMutation(m) PROVE EndingIsExclusive'
  BY <1>3 DEF EnterMutation, Goto, streamVars
<1>4. ASSUME NEW m \in Mutators, WriteRows(m) PROVE EndingIsExclusive'
  BY <1>4 DEF WriteRows, Goto, streamVars
<1>5. ASSUME NEW m \in Mutators, CommitRows(m) PROVE EndingIsExclusive'
  BY <1>5 DEF CommitRows, Goto, streamVars
<1>6. ASSUME NEW m \in Mutators, ChangeNothing(m) PROVE EndingIsExclusive'
  BY <1>6 DEF ChangeNothing, Goto, streamVars
<1>7. ASSUME NEW m \in Mutators, FailMutation(m) PROVE EndingIsExclusive'
  BY <1>7 DEF FailMutation, Goto, streamVars
<1>8. ASSUME NEW m \in Mutators, EnterNotification(m) PROVE EndingIsExclusive'
  BY <1>8 DEF EnterNotification, Goto, streamVars
<1>9. ASSUME NEW m \in Mutators, NEW s \in Subscribers, SkipClosed(m, s) PROVE EndingIsExclusive'
  BY <1>9 DEF SkipClosed, Notifying, streamVars
<1>10. ASSUME NEW m \in Mutators, NEW s \in Subscribers, NotifyUnchanged(m, s) PROVE EndingIsExclusive'
  BY <1>10 DEF NotifyUnchanged, Notifying, streamVars
<1>11. ASSUME NEW m \in Mutators, NEW s \in Subscribers, NotifyDelta(m, s) PROVE EndingIsExclusive'
  BY <1>11 DEF NotifyDelta, Notifying
<1>12. ASSUME NEW m \in Mutators, NEW s \in Subscribers, NotifyDropped(m, s) PROVE EndingIsExclusive'
  BY <1>12 DEF NotifyDropped, Goto, Notifying
<1>13. ASSUME NEW m \in Mutators, EvictSubscriber(m) PROVE EndingIsExclusive'
  <2>1. \A f \in Fibers : HoldsNotification(f) => f = m
    BY <1>13 DEF EvictSubscriber
  <2>2. /\ \A f \in Fibers : f # m => pc'[f] = pc[f]
        /\ pc'[m] = "clearing"
        /\ UNCHANGED <<ended, evictee, targets>>
    BY <1>13 DEF EvictSubscriber, Goto, streamVars
  <2>3. evictee[m] \in Subscribers /\ ~ended[evictee[m]]
    BY <1>13 DEF EvictSubscriber, EvicteeKnown, EndedIsClosed
  <2>4. /\ \A n \in Mutators : n # m => pc'[n] \notin {"evicting", "clearing"}
        /\ \A a \in Admins : pc'[a] # "draining"
    BY <2>1, <2>2
  <2> QED
    BY <2>2, <2>3, <2>4
<1>14. ASSUME NEW m \in Mutators, SendBackpressure(m) PROVE EndingIsExclusive'
  BY <1>14 DEF SendBackpressure, Goto, EndWithStatus
<1>15. ASSUME NEW m \in Mutators, EndMutation(m) PROVE EndingIsExclusive'
  BY <1>15 DEF EndMutation, Goto, streamVars
<1>16. ASSUME NEW s \in Subscribers, BeginSubscribe(s) PROVE EndingIsExclusive'
  BY <1>16 DEF BeginSubscribe, Goto, streamVars
<1>17. ASSUME NEW s \in Subscribers, InterruptSubscribe(s) PROVE EndingIsExclusive'
  BY <1>17 DEF InterruptSubscribe, Goto, streamVars
<1>18. ASSUME NEW s \in Subscribers, EnterSubscribe(s) PROVE EndingIsExclusive'
  BY <1>18 DEF EnterSubscribe, Goto, streamVars
<1>35. ASSUME NEW s \in Subscribers, AdmitSubscriber(s) PROVE EndingIsExclusive'
  BY <1>35 DEF AdmitSubscriber, Goto, streamVars
<1>19. ASSUME NEW s \in Subscribers, RejectSubscribe(s) PROVE EndingIsExclusive'
  BY <1>19 DEF RejectSubscribe, Goto, streamVars
<1>20. ASSUME NEW s \in Subscribers, RegisterSubscriber(s) PROVE EndingIsExclusive'
  BY <1>20 DEF RegisterSubscriber, Goto
<1>21. ASSUME NEW s \in Subscribers, OfferSnapshot(s) PROVE EndingIsExclusive'
  BY <1>21 DEF OfferSnapshot, Goto
<1>22. ASSUME NEW s \in Subscribers, TakeEvent(s) PROVE EndingIsExclusive'
  BY <1>22 DEF TakeEvent
<1>23. ASSUME NEW s \in Subscribers, BeginClose(s) PROVE EndingIsExclusive'
  BY <1>23 DEF BeginClose, Goto, streamVars
<1>36. ASSUME NEW s \in Subscribers, InterruptClose(s) PROVE EndingIsExclusive'
  BY <1>36 DEF InterruptClose, Goto, streamVars
<1>24. ASSUME NEW s \in Subscribers, CloseTakesNotification(s) PROVE EndingIsExclusive'
  BY <1>24 DEF CloseTakesNotification, Goto, streamVars
<1>25. ASSUME NEW s \in Subscribers, CloseTakesMutation(s) PROVE EndingIsExclusive'
  BY <1>25 DEF CloseTakesMutation, Goto, streamVars
<1>26. ASSUME NEW s \in Subscribers, FinishClose(s) PROVE EndingIsExclusive'
  BY <1>26 DEF FinishClose, Goto
<1>27. ASSUME NEW a \in Admins, BeginReset(a) PROVE EndingIsExclusive'
  BY <1>27 DEF BeginReset, Goto, streamVars
<1>28. ASSUME NEW a \in Admins, BeginEngineClose(a) PROVE EndingIsExclusive'
  BY <1>28 DEF BeginEngineClose, Goto, streamVars
<1>29. ASSUME NEW a \in Admins, AdminTakesNotification(a) PROVE EndingIsExclusive'
  BY <1>29 DEF AdminTakesNotification, Goto, streamVars
<1>30. ASSUME NEW a \in Admins, ResetStore(a) PROVE EndingIsExclusive'
  <2>1. \A f \in Fibers : HoldsNotification(f) => f = a
    BY <1>30 DEF ResetStore
  <2>2. /\ \A f \in Fibers : f # a => pc'[f] = pc[f]
        /\ targets'[a] = subscribers
        /\ UNCHANGED <<ended, evictee>>
    BY <1>30 DEF ResetStore, DrainSubscribers, Goto, streamVars
  <2>3. \A s \in subscribers : ~ended[s]
    BY DEF RegisteredWhileOpen, EndedIsClosed
  <2>4. /\ \A n \in Mutators : pc'[n] \notin {"evicting", "clearing"}
        /\ \A b \in Admins : b # a => pc'[b] # "draining"
    BY <2>1, <2>2
  <2> QED
    BY <2>2, <2>3, <2>4
<1>31. ASSUME NEW a \in Admins, CloseStore(a) PROVE EndingIsExclusive'
  <2>1. \A f \in Fibers : HoldsNotification(f) => f = a
    BY <1>31 DEF CloseStore
  <2>2. /\ \A f \in Fibers : f # a => pc'[f] = pc[f]
        /\ targets'[a] = subscribers
        /\ UNCHANGED <<ended, evictee>>
    BY <1>31 DEF CloseStore, DrainSubscribers, Goto, streamVars
  <2>3. \A s \in subscribers : ~ended[s]
    BY DEF RegisteredWhileOpen, EndedIsClosed
  <2>4. /\ \A n \in Mutators : pc'[n] \notin {"evicting", "clearing"}
        /\ \A b \in Admins : b # a => pc'[b] # "draining"
    BY <2>1, <2>2
  <2> QED
    BY <2>2, <2>3, <2>4
<1>32. ASSUME NEW a \in Admins, NEW s \in Subscribers, CloseWithStatus(a, s) PROVE EndingIsExclusive'
  BY <1>32 DEF CloseWithStatus, EndWithStatus
<1>33. ASSUME NEW a \in Admins, EndTransition(a) PROVE EndingIsExclusive'
  BY <1>33 DEF EndTransition, Goto, streamVars
<1>34. CASE UNCHANGED vars
  BY <1>34 DEF vars, streamVars
<1> QED
  BY <1>1, <1>2, <1>3, <1>4, <1>5, <1>6, <1>7, <1>8, <1>9, <1>10, <1>11,
     <1>12, <1>13, <1>14, <1>15, <1>16, <1>17, <1>18, <1>19, <1>20, <1>21,
     <1>22, <1>23, <1>24, <1>25, <1>26, <1>27, <1>28, <1>29, <1>30, <1>31,
     <1>32, <1>33, <1>34, <1>35, <1>36
     DEF Next, MutatorStep, SubscribeStep, CloseStep, AdminStep

-------------------------------------------------------------------------------
(* What ends a stream, and what the ledger counts. *)

\* An ended stream still holds its status, or has told it and holds nothing.
TellsEnd ==
  \A s \in Subscribers : ended[s] /\ pc[s] \in {"open", "closing"} =>
    \/ view[s].status = "closed" /\ queue[s] = <<>>
    \/ queue[s] # <<>> /\ queue[s][Len(queue[s])].type = "status"

EndedQueueShrinks ==
  \A s \in Subscribers : ended[s] =>
    \/ queue'[s] = queue[s]
    \/ queue[s] # <<>> /\ queue'[s] = Tail(queue[s])

ResetsCounted ==
  \A a \in Admins : pc[a] \in {"resetting", "resetTransition"} => resets > 0

InFlight == {m \in Mutators : pc[m] # "idle"}

Ledger ==
  /\ pendingBatches <= Cardinality(InFlight)
  /\ resets = 0 => pendingBatches = Cardinality(InFlight)


\* Two facts about the tail of a queue of events.
LEMMA SingletonTail ==
  ASSUME NEW q \in Seq(Event), Len(q) = 1
  PROVE  Tail(q) = <<>> /\ Head(q) = q[1]
<1>1. q # <<>>
  BY EmptySeq
<1> DEFINE p == Tail(q)
<1>2. p \in Seq(Event) /\ Len(p) = 0
  BY <1>1, HeadTailProperties
<1>3. p = <<>>
  <2> HIDE DEF p
  <2> QED
    BY <1>2, EmptySeq
<1> QED
  BY <1>3

\* Taking the first of several events leaves the last one last.
LEMMA LastOfTail ==
  ASSUME NEW q \in Seq(Event), q # <<>>, Len(q) # 1
  PROVE  /\ Tail(q) # <<>> /\ Len(Tail(q)) = Len(q) - 1
         /\ Tail(q)[Len(q) - 1] = q[Len(q)]
<1> DEFINE p == Tail(q)
<1>1. /\ Len(q) \in Nat \ {0} /\ Len(p) = Len(q) - 1
      /\ \A i \in 1..Len(p) : p[i] = q[i + 1]
  BY EmptySeq, HeadTailProperties
<1> HIDE DEF p
<1>2. Len(q) - 1 \in 1..Len(p) /\ (Len(q) - 1) + 1 = Len(q)
  BY <1>1
<1>3. p # <<>>
  BY <1>2, EmptySeq
<1> QED
  BY <1>1, <1>2, <1>3 DEF p

\* A stream is ended with a status in its queue, which stays there until it is read.
LEMMA TellsEndStep ==
  ASSUME FiberTypeOK, StreamTypeOK, FreshIsQuiet, EndedIsClosed,
         EndingIsExclusive, EvicteeKnown, TellsEnd, [Next]_vars
  PROVE  TellsEnd'
<1> USE FiberAssumption DEF FiberTypeOK, StreamTypeOK, Fibers, TellsEnd,
      EndedIsClosed
<1>1. ASSUME NEW m \in Mutators, BeginMutation(m) PROVE TellsEnd'
  BY <1>1 DEF BeginMutation, Goto, streamVars
<1>2. ASSUME NEW m \in Mutators, InterruptMutation(m) PROVE TellsEnd'
  BY <1>2 DEF InterruptMutation, Goto, streamVars
<1>3. ASSUME NEW m \in Mutators, EnterMutation(m) PROVE TellsEnd'
  BY <1>3 DEF EnterMutation, Goto, streamVars
<1>4. ASSUME NEW m \in Mutators, WriteRows(m) PROVE TellsEnd'
  BY <1>4 DEF WriteRows, Goto, streamVars
<1>5. ASSUME NEW m \in Mutators, CommitRows(m) PROVE TellsEnd'
  BY <1>5 DEF CommitRows, Goto, streamVars
<1>6. ASSUME NEW m \in Mutators, ChangeNothing(m) PROVE TellsEnd'
  BY <1>6 DEF ChangeNothing, Goto, streamVars
<1>7. ASSUME NEW m \in Mutators, FailMutation(m) PROVE TellsEnd'
  BY <1>7 DEF FailMutation, Goto, streamVars
<1>8. ASSUME NEW m \in Mutators, EnterNotification(m) PROVE TellsEnd'
  BY <1>8 DEF EnterNotification, Goto, streamVars
<1>9. ASSUME NEW m \in Mutators, NEW s \in Subscribers, SkipClosed(m, s) PROVE TellsEnd'
  BY <1>9 DEF SkipClosed, Notifying, streamVars
<1>10. ASSUME NEW m \in Mutators, NEW s \in Subscribers, NotifyUnchanged(m, s) PROVE TellsEnd'
  BY <1>10 DEF NotifyUnchanged, Notifying, streamVars
<1>11. ASSUME NEW m \in Mutators, NEW s \in Subscribers, NotifyDelta(m, s) PROVE TellsEnd'
  <2>1. /\ ~closed[s] /\ \A t \in Subscribers : t # s => queue'[t] = queue[t]
        /\ UNCHANGED <<pc, ended, view>>
    BY <1>11 DEF NotifyDelta, Notifying
  <2> QED
    BY <2>1
<1>12. ASSUME NEW m \in Mutators, NEW s \in Subscribers, NotifyDropped(m, s) PROVE TellsEnd'
  BY <1>12 DEF NotifyDropped, Goto, Notifying
<1>13. ASSUME NEW m \in Mutators, EvictSubscriber(m) PROVE TellsEnd'
  BY <1>13 DEF EvictSubscriber, Goto, streamVars
<1>14. ASSUME NEW m \in Mutators, SendBackpressure(m) PROVE TellsEnd'
  <2>1. PICK s \in Subscribers : s = evictee[m] /\ ~ended[s]
    BY <1>14 DEF SendBackpressure, EvicteeKnown, EndingIsExclusive
  <2> DEFINE q == <<[type |-> "status"]>>
  <2>2. /\ queue'[s] = q
        /\ \A t \in Subscribers : t # s => queue'[t] = queue[t] /\ ended'[t] = ended[t]
    BY <1>14, <2>1 DEF SendBackpressure, EndWithStatus
  <2>3. /\ \A t \in Subscribers : pc'[t] = pc[t]
        /\ view' = view
    BY <1>14 DEF SendBackpressure, Goto
  <2>4. q # <<>> /\ q[Len(q)].type = "status"
    OBVIOUS
  <2> HIDE DEF q
  <2> QED
    BY <2>2, <2>3, <2>4
<1>15. ASSUME NEW m \in Mutators, EndMutation(m) PROVE TellsEnd'
  BY <1>15 DEF EndMutation, Goto, streamVars
<1>16. ASSUME NEW s \in Subscribers, BeginSubscribe(s) PROVE TellsEnd'
  BY <1>16 DEF BeginSubscribe, Goto, streamVars
<1>17. ASSUME NEW s \in Subscribers, InterruptSubscribe(s) PROVE TellsEnd'
  BY <1>17 DEF InterruptSubscribe, Goto, streamVars
<1>18. ASSUME NEW s \in Subscribers, EnterSubscribe(s) PROVE TellsEnd'
  BY <1>18 DEF EnterSubscribe, Goto, streamVars
<1>35. ASSUME NEW s \in Subscribers, AdmitSubscriber(s) PROVE TellsEnd'
  BY <1>35 DEF AdmitSubscriber, Goto, streamVars
<1>19. ASSUME NEW s \in Subscribers, RejectSubscribe(s) PROVE TellsEnd'
  BY <1>19 DEF RejectSubscribe, Goto, streamVars
<1>20. ASSUME NEW s \in Subscribers, RegisterSubscriber(s) PROVE TellsEnd'
  BY <1>20 DEF RegisterSubscriber, Goto
<1>21. ASSUME NEW s \in Subscribers, OfferSnapshot(s) PROVE TellsEnd'
  <2>1. /\ ~closed[s] /\ \A t \in Subscribers : t # s => queue'[t] = queue[t] /\ pc'[t] = pc[t]
        /\ UNCHANGED <<ended, view>>
    BY <1>21 DEF OfferSnapshot, FreshIsQuiet, Fresh, Goto
  <2> QED
    BY <2>1
<1>22. ASSUME NEW s \in Subscribers, TakeEvent(s) PROVE TellsEnd'
  <2>1. /\ \A t \in Subscribers : t # s => queue'[t] = queue[t] /\ view'[t] = view[t]
        /\ queue[s] # <<>> /\ queue'[s] = Tail(queue[s])
        /\ view'[s] = Apply(s, view[s], Head(queue[s]))
        /\ UNCHANGED <<pc, ended>>
    BY <1>22 DEF TakeEvent
  <2>2. ASSUME queue[s][Len(queue[s])].type = "status"
        PROVE  \/ view'[s].status = "closed" /\ queue'[s] = <<>>
               \/ queue'[s] # <<>> /\ queue'[s][Len(queue'[s])].type = "status"
    <3> DEFINE q == queue[s]
    <3>a. q \in Seq(Event) /\ q # <<>>
      BY <2>1
    <3>b. Len(q) \in Nat /\ Len(q) > 0
      BY <3>a
    <3>1. CASE Len(q) = 1
      <4>1. Tail(q) = <<>> /\ Head(q) = q[1] /\ q[1].type = "status"
        <5> HIDE DEF q
        <5> QED
          BY <3>a, <3>1, SingletonTail, <2>2 DEF q
      <4> QED
        BY <2>1, <4>1 DEF Apply, InitialView
    <3>2. CASE Len(q) # 1
      <4>1. /\ Tail(q) # <<>> /\ Len(Tail(q)) = Len(q) - 1
            /\ Tail(q)[Len(q) - 1] = q[Len(q)]
        <5> HIDE DEF q
        <5> QED
          BY <3>a, <3>b, <3>2, LastOfTail
      <4> QED
        BY <2>1, <2>2, <4>1
    <3> QED
      BY <3>1, <3>2
  <2>3. ASSUME NEW t \in Subscribers, t # s, ended'[t], pc'[t] \in {"open", "closing"}
        PROVE  \/ view'[t].status = "closed" /\ queue'[t] = <<>>
               \/ queue'[t] # <<>> /\ queue'[t][Len(queue'[t])].type = "status"
    BY <2>1, <2>3
  <2>4. ASSUME ended'[s], pc'[s] \in {"open", "closing"}
        PROVE  \/ view'[s].status = "closed" /\ queue'[s] = <<>>
               \/ queue'[s] # <<>> /\ queue'[s][Len(queue'[s])].type = "status"
    <3>1. queue[s][Len(queue[s])].type = "status"
      BY <2>1, <2>4
    <3> QED
      BY <2>2, <3>1
  <2> QED
    BY <2>3, <2>4
<1>23. ASSUME NEW s \in Subscribers, BeginClose(s) PROVE TellsEnd'
  BY <1>23 DEF BeginClose, Goto, streamVars
<1>36. ASSUME NEW s \in Subscribers, InterruptClose(s) PROVE TellsEnd'
  BY <1>36 DEF InterruptClose, Goto, streamVars
<1>24. ASSUME NEW s \in Subscribers, CloseTakesNotification(s) PROVE TellsEnd'
  BY <1>24 DEF CloseTakesNotification, Goto, streamVars
<1>25. ASSUME NEW s \in Subscribers, CloseTakesMutation(s) PROVE TellsEnd'
  BY <1>25 DEF CloseTakesMutation, Goto, streamVars
<1>26. ASSUME NEW s \in Subscribers, FinishClose(s) PROVE TellsEnd'
  <2>1. /\ \A t \in Subscribers : t # s => ended'[t] = ended[t] /\ pc'[t] = pc[t]
        /\ pc'[s] = "done"
        /\ UNCHANGED <<queue, view>>
    BY <1>26 DEF FinishClose, Goto
  <2> QED
    BY <2>1
<1>27. ASSUME NEW a \in Admins, BeginReset(a) PROVE TellsEnd'
  BY <1>27 DEF BeginReset, Goto, streamVars
<1>28. ASSUME NEW a \in Admins, BeginEngineClose(a) PROVE TellsEnd'
  BY <1>28 DEF BeginEngineClose, Goto, streamVars
<1>29. ASSUME NEW a \in Admins, AdminTakesNotification(a) PROVE TellsEnd'
  BY <1>29 DEF AdminTakesNotification, Goto, streamVars
<1>30. ASSUME NEW a \in Admins, ResetStore(a) PROVE TellsEnd'
  BY <1>30 DEF ResetStore, Goto, DrainSubscribers, streamVars
<1>31. ASSUME NEW a \in Admins, CloseStore(a) PROVE TellsEnd'
  BY <1>31 DEF CloseStore, Goto, DrainSubscribers, streamVars
<1>32. ASSUME NEW a \in Admins, NEW s \in Subscribers, CloseWithStatus(a, s) PROVE TellsEnd'
  <2>1. ~ended[s]
    BY <1>32 DEF CloseWithStatus, EndingIsExclusive
  <2> DEFINE q == <<[type |-> "status"]>>
  <2>2. /\ queue'[s] = q
        /\ \A t \in Subscribers : t # s => queue'[t] = queue[t] /\ ended'[t] = ended[t]
        /\ UNCHANGED <<pc, view>>
    BY <1>32, <2>1 DEF CloseWithStatus, EndWithStatus
  <2>3. q # <<>> /\ q[Len(q)].type = "status"
    OBVIOUS
  <2> HIDE DEF q
  <2> QED
    BY <2>2, <2>3
<1>33. ASSUME NEW a \in Admins, EndTransition(a) PROVE TellsEnd'
  BY <1>33 DEF EndTransition, Goto, streamVars
<1>34. CASE UNCHANGED vars
  BY <1>34 DEF vars, streamVars
<1> QED
  BY <1>1, <1>2, <1>3, <1>4, <1>5, <1>6, <1>7, <1>8, <1>9, <1>10, <1>11,
     <1>12, <1>13, <1>14, <1>15, <1>16, <1>17, <1>18, <1>19, <1>20, <1>21,
     <1>22, <1>23, <1>24, <1>25, <1>26, <1>27, <1>28, <1>29, <1>30, <1>31,
     <1>32, <1>33, <1>34, <1>35, <1>36
     DEF Next, MutatorStep, SubscribeStep, CloseStep, AdminStep

\* No step puts anything into the queue of an ended stream.
LEMMA EndedQueueStep ==
  ASSUME FiberTypeOK, StreamTypeOK, FreshIsQuiet, EndedIsClosed,
         EndingIsExclusive, EvicteeKnown, [Next]_vars
  PROVE  EndedQueueShrinks
<1> USE FiberAssumption DEF FiberTypeOK, StreamTypeOK, Fibers,
      EndedQueueShrinks, EndedIsClosed
<1>1. ASSUME NEW m \in Mutators, BeginMutation(m) PROVE EndedQueueShrinks
  BY <1>1 DEF BeginMutation, streamVars
<1>2. ASSUME NEW m \in Mutators, InterruptMutation(m) PROVE EndedQueueShrinks
  BY <1>2 DEF InterruptMutation, streamVars
<1>3. ASSUME NEW m \in Mutators, EnterMutation(m) PROVE EndedQueueShrinks
  BY <1>3 DEF EnterMutation, streamVars
<1>4. ASSUME NEW m \in Mutators, WriteRows(m) PROVE EndedQueueShrinks
  BY <1>4 DEF WriteRows, streamVars
<1>5. ASSUME NEW m \in Mutators, CommitRows(m) PROVE EndedQueueShrinks
  BY <1>5 DEF CommitRows, streamVars
<1>6. ASSUME NEW m \in Mutators, ChangeNothing(m) PROVE EndedQueueShrinks
  BY <1>6 DEF ChangeNothing, streamVars
<1>7. ASSUME NEW m \in Mutators, FailMutation(m) PROVE EndedQueueShrinks
  BY <1>7 DEF FailMutation, streamVars
<1>8. ASSUME NEW m \in Mutators, EnterNotification(m) PROVE EndedQueueShrinks
  BY <1>8 DEF EnterNotification, streamVars
<1>9. ASSUME NEW m \in Mutators, NEW s \in Subscribers, SkipClosed(m, s) PROVE EndedQueueShrinks
  BY <1>9 DEF SkipClosed, streamVars
<1>10. ASSUME NEW m \in Mutators, NEW s \in Subscribers, NotifyUnchanged(m, s) PROVE EndedQueueShrinks
  BY <1>10 DEF NotifyUnchanged, streamVars
<1>11. ASSUME NEW m \in Mutators, NEW s \in Subscribers, NotifyDelta(m, s) PROVE EndedQueueShrinks
  <2>1. ~closed[s] /\ \A t \in Subscribers : t # s => queue'[t] = queue[t]
    BY <1>11 DEF NotifyDelta
  <2> QED
    BY <2>1
<1>12. ASSUME NEW m \in Mutators, NEW s \in Subscribers, NotifyDropped(m, s) PROVE EndedQueueShrinks
  BY <1>12 DEF NotifyDropped
<1>13. ASSUME NEW m \in Mutators, EvictSubscriber(m) PROVE EndedQueueShrinks
  BY <1>13 DEF EvictSubscriber, streamVars
<1>14. ASSUME NEW m \in Mutators, SendBackpressure(m) PROVE EndedQueueShrinks
  <2>1. PICK s \in Subscribers : s = evictee[m] /\ ~ended[s]
    BY <1>14 DEF SendBackpressure, EvicteeKnown, EndingIsExclusive
  <2>2. \A t \in Subscribers : t # s => queue'[t] = queue[t]
    BY <1>14, <2>1 DEF SendBackpressure, EndWithStatus
  <2> QED
    BY <2>1, <2>2
<1>15. ASSUME NEW m \in Mutators, EndMutation(m) PROVE EndedQueueShrinks
  BY <1>15 DEF EndMutation, streamVars
<1>16. ASSUME NEW s \in Subscribers, BeginSubscribe(s) PROVE EndedQueueShrinks
  BY <1>16 DEF BeginSubscribe, streamVars
<1>17. ASSUME NEW s \in Subscribers, InterruptSubscribe(s) PROVE EndedQueueShrinks
  BY <1>17 DEF InterruptSubscribe, streamVars
<1>18. ASSUME NEW s \in Subscribers, EnterSubscribe(s) PROVE EndedQueueShrinks
  BY <1>18 DEF EnterSubscribe, streamVars
<1>35. ASSUME NEW s \in Subscribers, AdmitSubscriber(s) PROVE EndedQueueShrinks
  BY <1>35 DEF AdmitSubscriber, streamVars
<1>19. ASSUME NEW s \in Subscribers, RejectSubscribe(s) PROVE EndedQueueShrinks
  BY <1>19 DEF RejectSubscribe, streamVars
<1>20. ASSUME NEW s \in Subscribers, RegisterSubscriber(s) PROVE EndedQueueShrinks
  BY <1>20 DEF RegisterSubscriber
<1>21. ASSUME NEW s \in Subscribers, OfferSnapshot(s) PROVE EndedQueueShrinks
  <2>1. ~closed[s] /\ \A t \in Subscribers : t # s => queue'[t] = queue[t]
    BY <1>21 DEF OfferSnapshot, FreshIsQuiet, Fresh
  <2> QED
    BY <2>1
<1>22. ASSUME NEW s \in Subscribers, TakeEvent(s) PROVE EndedQueueShrinks
  BY <1>22 DEF TakeEvent
<1>23. ASSUME NEW s \in Subscribers, BeginClose(s) PROVE EndedQueueShrinks
  BY <1>23 DEF BeginClose, streamVars
<1>36. ASSUME NEW s \in Subscribers, InterruptClose(s) PROVE EndedQueueShrinks
  BY <1>36 DEF InterruptClose, streamVars
<1>24. ASSUME NEW s \in Subscribers, CloseTakesNotification(s) PROVE EndedQueueShrinks
  BY <1>24 DEF CloseTakesNotification, streamVars
<1>25. ASSUME NEW s \in Subscribers, CloseTakesMutation(s) PROVE EndedQueueShrinks
  BY <1>25 DEF CloseTakesMutation, streamVars
<1>26. ASSUME NEW s \in Subscribers, FinishClose(s) PROVE EndedQueueShrinks
  BY <1>26 DEF FinishClose
<1>27. ASSUME NEW a \in Admins, BeginReset(a) PROVE EndedQueueShrinks
  BY <1>27 DEF BeginReset, streamVars
<1>28. ASSUME NEW a \in Admins, BeginEngineClose(a) PROVE EndedQueueShrinks
  BY <1>28 DEF BeginEngineClose, streamVars
<1>29. ASSUME NEW a \in Admins, AdminTakesNotification(a) PROVE EndedQueueShrinks
  BY <1>29 DEF AdminTakesNotification, streamVars
<1>30. ASSUME NEW a \in Admins, ResetStore(a) PROVE EndedQueueShrinks
  BY <1>30 DEF ResetStore, streamVars
<1>31. ASSUME NEW a \in Admins, CloseStore(a) PROVE EndedQueueShrinks
  BY <1>31 DEF CloseStore, streamVars
<1>32. ASSUME NEW a \in Admins, NEW s \in Subscribers, CloseWithStatus(a, s) PROVE EndedQueueShrinks
  <2>1. ~ended[s] /\ \A t \in Subscribers : t # s => queue'[t] = queue[t]
    BY <1>32 DEF CloseWithStatus, EndWithStatus, EndingIsExclusive
  <2> QED
    BY <2>1
<1>33. ASSUME NEW a \in Admins, EndTransition(a) PROVE EndedQueueShrinks
  BY <1>33 DEF EndTransition, streamVars
<1>34. CASE UNCHANGED vars
  BY <1>34 DEF vars, streamVars
<1> QED
  BY <1>1, <1>2, <1>3, <1>4, <1>5, <1>6, <1>7, <1>8, <1>9, <1>10, <1>11,
     <1>12, <1>13, <1>14, <1>15, <1>16, <1>17, <1>18, <1>19, <1>20, <1>21,
     <1>22, <1>23, <1>24, <1>25, <1>26, <1>27, <1>28, <1>29, <1>30, <1>31,
     <1>32, <1>33, <1>34, <1>35, <1>36
     DEF Next, MutatorStep, SubscribeStep, CloseStep, AdminStep

\* A reset in progress has been counted.
LEMMA ResetsCountedStep ==
  ASSUME FiberTypeOK, StoreTypeOK, ResetsCounted, [Next]_vars
  PROVE  ResetsCounted'
<1> USE FiberAssumption DEF FiberTypeOK, StoreTypeOK, Fibers, ResetsCounted
<1>1. ASSUME NEW m \in Mutators, BeginMutation(m) PROVE ResetsCounted'
  BY <1>1 DEF BeginMutation, Goto
<1>2. ASSUME NEW m \in Mutators, InterruptMutation(m) PROVE ResetsCounted'
  BY <1>2 DEF InterruptMutation, Goto, boundVars
<1>3. ASSUME NEW m \in Mutators, EnterMutation(m) PROVE ResetsCounted'
  BY <1>3 DEF EnterMutation, Goto, boundVars
<1>4. ASSUME NEW m \in Mutators, WriteRows(m) PROVE ResetsCounted'
  BY <1>4 DEF WriteRows, Goto, boundVars
<1>5. ASSUME NEW m \in Mutators, CommitRows(m) PROVE ResetsCounted'
  BY <1>5 DEF CommitRows, Goto, boundVars
<1>6. ASSUME NEW m \in Mutators, ChangeNothing(m) PROVE ResetsCounted'
  BY <1>6 DEF ChangeNothing, Goto, boundVars
<1>7. ASSUME NEW m \in Mutators, FailMutation(m) PROVE ResetsCounted'
  BY <1>7 DEF FailMutation, Goto, boundVars
<1>8. ASSUME NEW m \in Mutators, EnterNotification(m) PROVE ResetsCounted'
  BY <1>8 DEF EnterNotification, Goto, boundVars
<1>9. ASSUME NEW m \in Mutators, NEW s \in Subscribers, SkipClosed(m, s) PROVE ResetsCounted'
  BY <1>9 DEF SkipClosed, Notifying, boundVars
<1>10. ASSUME NEW m \in Mutators, NEW s \in Subscribers, NotifyUnchanged(m, s) PROVE ResetsCounted'
  BY <1>10 DEF NotifyUnchanged, Notifying, boundVars
<1>11. ASSUME NEW m \in Mutators, NEW s \in Subscribers, NotifyDelta(m, s) PROVE ResetsCounted'
  BY <1>11 DEF NotifyDelta, Notifying, boundVars
<1>12. ASSUME NEW m \in Mutators, NEW s \in Subscribers, NotifyDropped(m, s) PROVE ResetsCounted'
  BY <1>12 DEF NotifyDropped, Goto, Notifying, boundVars
<1>13. ASSUME NEW m \in Mutators, EvictSubscriber(m) PROVE ResetsCounted'
  BY <1>13 DEF EvictSubscriber, Goto, boundVars
<1>14. ASSUME NEW m \in Mutators, SendBackpressure(m) PROVE ResetsCounted'
  BY <1>14 DEF SendBackpressure, Goto, boundVars
<1>15. ASSUME NEW m \in Mutators, EndMutation(m) PROVE ResetsCounted'
  BY <1>15 DEF EndMutation, Goto, boundVars
<1>16. ASSUME NEW s \in Subscribers, BeginSubscribe(s) PROVE ResetsCounted'
  BY <1>16 DEF BeginSubscribe, Goto, boundVars
<1>17. ASSUME NEW s \in Subscribers, InterruptSubscribe(s) PROVE ResetsCounted'
  BY <1>17 DEF InterruptSubscribe, Goto, boundVars
<1>18. ASSUME NEW s \in Subscribers, EnterSubscribe(s) PROVE ResetsCounted'
  BY <1>18 DEF EnterSubscribe, Goto, boundVars
<1>35. ASSUME NEW s \in Subscribers, AdmitSubscriber(s) PROVE ResetsCounted'
  BY <1>35 DEF AdmitSubscriber, Goto, boundVars
<1>19. ASSUME NEW s \in Subscribers, RejectSubscribe(s) PROVE ResetsCounted'
  BY <1>19 DEF RejectSubscribe, Goto, boundVars
<1>20. ASSUME NEW s \in Subscribers, RegisterSubscriber(s) PROVE ResetsCounted'
  BY <1>20 DEF RegisterSubscriber, Goto, boundVars
<1>21. ASSUME NEW s \in Subscribers, OfferSnapshot(s) PROVE ResetsCounted'
  BY <1>21 DEF OfferSnapshot, Goto, boundVars
<1>22. ASSUME NEW s \in Subscribers, TakeEvent(s) PROVE ResetsCounted'
  BY <1>22 DEF TakeEvent, boundVars
<1>23. ASSUME NEW s \in Subscribers, BeginClose(s) PROVE ResetsCounted'
  BY <1>23 DEF BeginClose, Goto, boundVars
<1>36. ASSUME NEW s \in Subscribers, InterruptClose(s) PROVE ResetsCounted'
  BY <1>36 DEF InterruptClose, Goto, boundVars
<1>24. ASSUME NEW s \in Subscribers, CloseTakesNotification(s) PROVE ResetsCounted'
  BY <1>24 DEF CloseTakesNotification, Goto, boundVars
<1>25. ASSUME NEW s \in Subscribers, CloseTakesMutation(s) PROVE ResetsCounted'
  BY <1>25 DEF CloseTakesMutation, Goto, boundVars
<1>26. ASSUME NEW s \in Subscribers, FinishClose(s) PROVE ResetsCounted'
  BY <1>26 DEF FinishClose, Goto, boundVars
<1>27. ASSUME NEW a \in Admins, BeginReset(a) PROVE ResetsCounted'
  BY <1>27 DEF BeginReset, Goto
<1>28. ASSUME NEW a \in Admins, BeginEngineClose(a) PROVE ResetsCounted'
  BY <1>28 DEF BeginEngineClose, Goto, boundVars
<1>29. ASSUME NEW a \in Admins, AdminTakesNotification(a) PROVE ResetsCounted'
  BY <1>29 DEF AdminTakesNotification, Goto, boundVars
<1>30. ASSUME NEW a \in Admins, ResetStore(a) PROVE ResetsCounted'
  BY <1>30 DEF ResetStore, Goto, DrainSubscribers, boundVars
<1>31. ASSUME NEW a \in Admins, CloseStore(a) PROVE ResetsCounted'
  BY <1>31 DEF CloseStore, Goto, DrainSubscribers, boundVars
<1>32. ASSUME NEW a \in Admins, NEW s \in Subscribers, CloseWithStatus(a, s) PROVE ResetsCounted'
  BY <1>32 DEF CloseWithStatus, boundVars
<1>33. ASSUME NEW a \in Admins, EndTransition(a) PROVE ResetsCounted'
  BY <1>33 DEF EndTransition, Goto, boundVars
<1>34. CASE UNCHANGED vars
  BY <1>34 DEF vars, boundVars
<1> QED
  BY <1>1, <1>2, <1>3, <1>4, <1>5, <1>6, <1>7, <1>8, <1>9, <1>10, <1>11,
     <1>12, <1>13, <1>14, <1>15, <1>16, <1>17, <1>18, <1>19, <1>20, <1>21,
     <1>22, <1>23, <1>24, <1>25, <1>26, <1>27, <1>28, <1>29, <1>30, <1>31,
     <1>32, <1>33, <1>34, <1>35, <1>36
     DEF Next, MutatorStep, SubscribeStep, CloseStep, AdminStep

\* A batch that ends was in flight.
LEMMA BatchEnds ==
  ASSUME NEW S, NEW m \in S, IsFiniteSet(S), pendingBatches \in Nat, EndBatch,
         pendingBatches <= Cardinality(S),
         resets = 0 => pendingBatches = Cardinality(S)
  PROVE  /\ pendingBatches' <= Cardinality(S \ {m})
         /\ resets = 0 => pendingBatches' = Cardinality(S \ {m})
<1>1. Cardinality(S \ {m}) = Cardinality(S) - 1 /\ Cardinality(S) \in Nat
  BY FS_RemoveElement, FS_CardinalityType
<1>2. Cardinality(S \ {m}) \in Nat
  BY FS_RemoveElement, FS_CardinalityType
<1> QED
  BY <1>1, <1>2 DEF EndBatch

\* The ledger's counter follows the mutations in flight, from below after a reset.
LEMMA PendingBatchesStep ==
  ASSUME FiberTypeOK, StoreTypeOK, ResetsCounted, PendingBatches, [Next]_vars
  PROVE  PendingBatches'
<1> USE FiberAssumption DEF FiberTypeOK, Fibers
<1>a. /\ IsFiniteSet(InFlight) /\ Cardinality(InFlight) \in Nat
      /\ pendingBatches \in Nat /\ resets \in Nat
      /\ pendingBatches <= Cardinality(InFlight)
      /\ resets = 0 => pendingBatches = Cardinality(InFlight)
  <2>1. IsFiniteSet(InFlight)
    BY FS_Subset DEF InFlight
  <2> QED
    BY <2>1, FS_CardinalityType DEF PendingBatches, InFlight, StoreTypeOK
<1> SUFFICES Ledger'
  BY DEF PendingBatches, Ledger, InFlight
<1>1. ASSUME NEW m \in Mutators, BeginMutation(m) PROVE Ledger'
  <2>1. /\ InFlight' = InFlight \union {m} /\ m \notin InFlight
        /\ pendingBatches' = pendingBatches + 1 /\ resets' = resets
    BY <1>1 DEF BeginMutation, InFlight, Goto
  <2>2. Cardinality(InFlight') = Cardinality(InFlight) + 1
    BY <1>a, <2>1, FS_AddElement
  <2> QED
    BY <1>a, <2>1, <2>2 DEF Ledger
<1>2. ASSUME NEW m \in Mutators, InterruptMutation(m) PROVE Ledger'
  <2>1. /\ InFlight' = InFlight \ {m} /\ m \in InFlight
        /\ EndBatch /\ resets' = resets
    BY <1>2 DEF InterruptMutation, InFlight, Goto, boundVars
  <2> QED
    BY <1>a, <2>1, BatchEnds DEF Ledger
<1>3. ASSUME NEW m \in Mutators, EnterMutation(m) PROVE Ledger'
  <2>1. UNCHANGED <<pendingBatches, resets>> /\ InFlight' = InFlight
    BY <1>3 DEF InFlight, EnterMutation, Goto, boundVars
  <2> QED
    BY <1>a, <2>1 DEF Ledger
<1>4. ASSUME NEW m \in Mutators, WriteRows(m) PROVE Ledger'
  <2>1. UNCHANGED <<pendingBatches, resets>> /\ InFlight' = InFlight
    BY <1>4 DEF InFlight, WriteRows, Goto, boundVars
  <2> QED
    BY <1>a, <2>1 DEF Ledger
<1>5. ASSUME NEW m \in Mutators, CommitRows(m) PROVE Ledger'
  <2>1. UNCHANGED <<pendingBatches, resets>> /\ InFlight' = InFlight
    BY <1>5 DEF InFlight, CommitRows, Goto, boundVars
  <2> QED
    BY <1>a, <2>1 DEF Ledger
<1>6. ASSUME NEW m \in Mutators, ChangeNothing(m) PROVE Ledger'
  <2>1. UNCHANGED <<pendingBatches, resets>> /\ InFlight' = InFlight
    BY <1>6 DEF InFlight, ChangeNothing, Goto, boundVars
  <2> QED
    BY <1>a, <2>1 DEF Ledger
<1>7. ASSUME NEW m \in Mutators, FailMutation(m) PROVE Ledger'
  <2>1. /\ InFlight' = InFlight \ {m} /\ m \in InFlight
        /\ EndBatch /\ resets' = resets
    BY <1>7 DEF FailMutation, InFlight, Goto, boundVars
  <2> QED
    BY <1>a, <2>1, BatchEnds DEF Ledger
<1>8. ASSUME NEW m \in Mutators, EnterNotification(m) PROVE Ledger'
  <2>1. UNCHANGED <<pendingBatches, resets>> /\ InFlight' = InFlight
    BY <1>8 DEF InFlight, EnterNotification, Goto, boundVars
  <2> QED
    BY <1>a, <2>1 DEF Ledger
<1>9. ASSUME NEW m \in Mutators, NEW s \in Subscribers, SkipClosed(m, s) PROVE Ledger'
  <2>1. UNCHANGED <<pendingBatches, resets>> /\ InFlight' = InFlight
    BY <1>9 DEF InFlight, SkipClosed, Notifying, boundVars
  <2> QED
    BY <1>a, <2>1 DEF Ledger
<1>10. ASSUME NEW m \in Mutators, NEW s \in Subscribers, NotifyUnchanged(m, s) PROVE Ledger'
  <2>1. UNCHANGED <<pendingBatches, resets>> /\ InFlight' = InFlight
    BY <1>10 DEF InFlight, NotifyUnchanged, Notifying, boundVars
  <2> QED
    BY <1>a, <2>1 DEF Ledger
<1>11. ASSUME NEW m \in Mutators, NEW s \in Subscribers, NotifyDelta(m, s) PROVE Ledger'
  <2>1. UNCHANGED <<pendingBatches, resets>> /\ InFlight' = InFlight
    BY <1>11 DEF InFlight, NotifyDelta, Notifying, boundVars
  <2> QED
    BY <1>a, <2>1 DEF Ledger
<1>12. ASSUME NEW m \in Mutators, NEW s \in Subscribers, NotifyDropped(m, s) PROVE Ledger'
  <2>1. UNCHANGED <<pendingBatches, resets>> /\ InFlight' = InFlight
    BY <1>12 DEF InFlight, NotifyDropped, Goto, Notifying, boundVars
  <2> QED
    BY <1>a, <2>1 DEF Ledger
<1>13. ASSUME NEW m \in Mutators, EvictSubscriber(m) PROVE Ledger'
  <2>1. UNCHANGED <<pendingBatches, resets>> /\ InFlight' = InFlight
    BY <1>13 DEF InFlight, EvictSubscriber, Goto, boundVars
  <2> QED
    BY <1>a, <2>1 DEF Ledger
<1>14. ASSUME NEW m \in Mutators, SendBackpressure(m) PROVE Ledger'
  <2>1. UNCHANGED <<pendingBatches, resets>> /\ InFlight' = InFlight
    BY <1>14 DEF InFlight, SendBackpressure, Goto, boundVars
  <2> QED
    BY <1>a, <2>1 DEF Ledger
<1>15. ASSUME NEW m \in Mutators, EndMutation(m) PROVE Ledger'
  <2>1. /\ InFlight' = InFlight \ {m} /\ m \in InFlight
        /\ EndBatch /\ resets' = resets
    BY <1>15 DEF EndMutation, InFlight, Goto, boundVars
  <2> QED
    BY <1>a, <2>1, BatchEnds DEF Ledger
<1>16. ASSUME NEW s \in Subscribers, BeginSubscribe(s) PROVE Ledger'
  <2>1. UNCHANGED <<pendingBatches, resets>> /\ InFlight' = InFlight
    BY <1>16 DEF InFlight, BeginSubscribe, Goto, boundVars
  <2> QED
    BY <1>a, <2>1 DEF Ledger
<1>17. ASSUME NEW s \in Subscribers, InterruptSubscribe(s) PROVE Ledger'
  <2>1. UNCHANGED <<pendingBatches, resets>> /\ InFlight' = InFlight
    BY <1>17 DEF InFlight, InterruptSubscribe, Goto, boundVars
  <2> QED
    BY <1>a, <2>1 DEF Ledger
<1>18. ASSUME NEW s \in Subscribers, EnterSubscribe(s) PROVE Ledger'
  <2>1. UNCHANGED <<pendingBatches, resets>> /\ InFlight' = InFlight
    BY <1>18 DEF InFlight, EnterSubscribe, Goto, boundVars
  <2> QED
    BY <1>a, <2>1 DEF Ledger
<1>35. ASSUME NEW s \in Subscribers, AdmitSubscriber(s) PROVE Ledger'
  <2>1. UNCHANGED <<pendingBatches, resets>> /\ InFlight' = InFlight
    BY <1>35 DEF InFlight, AdmitSubscriber, Goto, boundVars
  <2> QED
    BY <1>a, <2>1 DEF Ledger
<1>19. ASSUME NEW s \in Subscribers, RejectSubscribe(s) PROVE Ledger'
  <2>1. UNCHANGED <<pendingBatches, resets>> /\ InFlight' = InFlight
    BY <1>19 DEF InFlight, RejectSubscribe, Goto, boundVars
  <2> QED
    BY <1>a, <2>1 DEF Ledger
<1>20. ASSUME NEW s \in Subscribers, RegisterSubscriber(s) PROVE Ledger'
  <2>1. UNCHANGED <<pendingBatches, resets>> /\ InFlight' = InFlight
    BY <1>20 DEF InFlight, RegisterSubscriber, Goto, boundVars
  <2> QED
    BY <1>a, <2>1 DEF Ledger
<1>21. ASSUME NEW s \in Subscribers, OfferSnapshot(s) PROVE Ledger'
  <2>1. UNCHANGED <<pendingBatches, resets>> /\ InFlight' = InFlight
    BY <1>21 DEF InFlight, OfferSnapshot, Goto, boundVars
  <2> QED
    BY <1>a, <2>1 DEF Ledger
<1>22. ASSUME NEW s \in Subscribers, TakeEvent(s) PROVE Ledger'
  <2>1. UNCHANGED <<pendingBatches, resets>> /\ InFlight' = InFlight
    BY <1>22 DEF InFlight, TakeEvent, boundVars
  <2> QED
    BY <1>a, <2>1 DEF Ledger
<1>23. ASSUME NEW s \in Subscribers, BeginClose(s) PROVE Ledger'
  <2>1. UNCHANGED <<pendingBatches, resets>> /\ InFlight' = InFlight
    BY <1>23 DEF InFlight, BeginClose, Goto, boundVars
  <2> QED
    BY <1>a, <2>1 DEF Ledger
<1>36. ASSUME NEW s \in Subscribers, InterruptClose(s) PROVE Ledger'
  <2>1. UNCHANGED <<pendingBatches, resets>> /\ InFlight' = InFlight
    BY <1>36 DEF InFlight, InterruptClose, Goto, boundVars
  <2> QED
    BY <1>a, <2>1 DEF Ledger
<1>24. ASSUME NEW s \in Subscribers, CloseTakesNotification(s) PROVE Ledger'
  <2>1. UNCHANGED <<pendingBatches, resets>> /\ InFlight' = InFlight
    BY <1>24 DEF InFlight, CloseTakesNotification, Goto, boundVars
  <2> QED
    BY <1>a, <2>1 DEF Ledger
<1>25. ASSUME NEW s \in Subscribers, CloseTakesMutation(s) PROVE Ledger'
  <2>1. UNCHANGED <<pendingBatches, resets>> /\ InFlight' = InFlight
    BY <1>25 DEF InFlight, CloseTakesMutation, Goto, boundVars
  <2> QED
    BY <1>a, <2>1 DEF Ledger
<1>26. ASSUME NEW s \in Subscribers, FinishClose(s) PROVE Ledger'
  <2>1. UNCHANGED <<pendingBatches, resets>> /\ InFlight' = InFlight
    BY <1>26 DEF InFlight, FinishClose, Goto, boundVars
  <2> QED
    BY <1>a, <2>1 DEF Ledger
<1>27. ASSUME NEW a \in Admins, BeginReset(a) PROVE Ledger'
  <2>1. resets' = resets + 1 /\ pendingBatches' = pendingBatches /\ InFlight' = InFlight
    BY <1>27 DEF BeginReset, Goto, InFlight
  <2> QED
    BY <1>a, <2>1 DEF Ledger
<1>28. ASSUME NEW a \in Admins, BeginEngineClose(a) PROVE Ledger'
  <2>1. UNCHANGED <<pendingBatches, resets>> /\ InFlight' = InFlight
    BY <1>28 DEF InFlight, BeginEngineClose, Goto, boundVars
  <2> QED
    BY <1>a, <2>1 DEF Ledger
<1>29. ASSUME NEW a \in Admins, AdminTakesNotification(a) PROVE Ledger'
  <2>1. UNCHANGED <<pendingBatches, resets>> /\ InFlight' = InFlight
    BY <1>29 DEF InFlight, AdminTakesNotification, Goto, boundVars
  <2> QED
    BY <1>a, <2>1 DEF Ledger
<1>30. ASSUME NEW a \in Admins, ResetStore(a) PROVE Ledger'
  <2>1. pendingBatches' = 0 /\ resets' = resets /\ resets > 0 /\ InFlight' = InFlight
    BY <1>30 DEF ResetStore, DrainSubscribers, Goto, InFlight, boundVars, ResetsCounted
  <2> QED
    BY <1>a, <2>1 DEF Ledger
<1>31. ASSUME NEW a \in Admins, CloseStore(a) PROVE Ledger'
  <2>1. UNCHANGED <<pendingBatches, resets>> /\ InFlight' = InFlight
    BY <1>31 DEF InFlight, CloseStore, Goto, DrainSubscribers, boundVars
  <2> QED
    BY <1>a, <2>1 DEF Ledger
<1>32. ASSUME NEW a \in Admins, NEW s \in Subscribers, CloseWithStatus(a, s) PROVE Ledger'
  <2>1. UNCHANGED <<pendingBatches, resets>> /\ InFlight' = InFlight
    BY <1>32 DEF InFlight, CloseWithStatus, boundVars
  <2> QED
    BY <1>a, <2>1 DEF Ledger
<1>33. ASSUME NEW a \in Admins, EndTransition(a) PROVE Ledger'
  <2>1. UNCHANGED <<pendingBatches, resets>> /\ InFlight' = InFlight
    BY <1>33 DEF InFlight, EndTransition, Goto, boundVars
  <2> QED
    BY <1>a, <2>1 DEF Ledger
<1>34. CASE UNCHANGED vars
  <2>1. UNCHANGED <<pendingBatches, resets>> /\ InFlight' = InFlight
    BY <1>34 DEF vars, boundVars, InFlight
  <2> QED
    BY <1>a, <2>1 DEF Ledger
<1> QED
  BY <1>1, <1>2, <1>3, <1>4, <1>5, <1>6, <1>7, <1>8, <1>9, <1>10, <1>11,
     <1>12, <1>13, <1>14, <1>15, <1>16, <1>17, <1>18, <1>19, <1>20, <1>21,
     <1>22, <1>23, <1>24, <1>25, <1>26, <1>27, <1>28, <1>29, <1>30, <1>31,
     <1>32, <1>33, <1>34, <1>35, <1>36
     DEF Next, MutatorStep, SubscribeStep, CloseStep, AdminStep

-------------------------------------------------------------------------------
(* The theorems about streams. *)

\* A new store streams nothing.
LEMMA InitStreaming == Init => Streaming
<1> SUFFICES ASSUME Init PROVE Streaming
  OBVIOUS
<1> USE FiberAssumption DEF Init, Fibers
<1>1. FreshIsQuiet
  BY DEF FreshIsQuiet, Fresh, InitialView
<1>2. RegisteredIsCurrent /\ DoneIsClosed /\ EndedIsClosed
  BY DEF RegisteredIsCurrent, DoneIsClosed, EndedIsClosed
<1>3. EndingIsExclusive
  BY DEF EndingIsExclusive
<1> QED
  BY <1>1, <1>2, <1>3 DEF Streaming

\* Every step keeps the discipline of streams.
LEMMA NextStreaming == IInv /\ Streaming /\ [Next]_vars => Streaming'
<1> SUFFICES ASSUME IInv, Streaming, [Next]_vars PROVE Streaming'
  OBVIOUS
<1> USE DEF IInv, TypeOK, Streaming
<1>1. FreshIsQuiet'
  BY FreshIsQuietStep
<1>2. RegisteredIsCurrent'
  BY RegisteredIsCurrentStep
<1>3. DoneIsClosed'
  BY DoneIsClosedStep
<1>4. EndedIsClosed'
  BY EndedIsClosedStep
<1>5. EndingIsExclusive'
  BY EndingIsExclusiveStep
<1> QED
  BY <1>1, <1>2, <1>3, <1>4, <1>5

\* The discipline of streams holds in every reachable state.
THEOREM StreamDiscipline == Spec => []Streaming
<1>1. Init => Streaming
  BY InitStreaming
<1>2. IInv /\ Streaming /\ [Next]_vars => Streaming'
  BY NextStreaming
<1> QED
  BY <1>1, <1>2, Inductive, PTL DEF Spec

\* A subscription that the engine ended has told its client so, or its queue
\* still ends with the status: clearing the buffer never costs it the reason.
THEOREM EndsAreTold == Spec => []EndIsTold
<1>1. Init => TellsEnd
  BY FiberAssumption DEF Init, TellsEnd
<1>2. IInv /\ Streaming /\ TellsEnd /\ [Next]_vars => TellsEnd'
  BY TellsEndStep DEF IInv, TypeOK, Streaming
<1>3. TellsEnd => EndIsTold
  BY DEF TellsEnd, EndIsTold
<1> QED
  BY <1>1, <1>2, <1>3, Inductive, StreamDiscipline, PTL DEF Spec

\* No step of any fiber offers an event to a queue that was ended.
THEOREM EndIsLast == Spec => NothingAfterEnd
<1>1. IInv /\ Streaming /\ [Next]_vars => EndedQueueShrinks
  BY EndedQueueStep DEF IInv, TypeOK, Streaming
<1>2. EndedQueueShrinks =>
        \A s \in Subscribers : ended[s] =>
          \/ queue'[s] = queue[s]
          \/ queue[s] # <<>> /\ queue'[s] = Tail(queue[s])
  BY DEF EndedQueueShrinks
<1> QED
  BY <1>1, <1>2, Inductive, StreamDiscipline, PTL DEF Spec, NothingAfterEnd

\* The health ledger counts the mutations in flight: all of them until a reset
\* forgets some, and never one too many.
THEOREM LedgerCounts == Spec => []PendingBatches
<1>1. Init => ResetsCounted /\ PendingBatches
  <2> SUFFICES ASSUME Init PROVE ResetsCounted /\ PendingBatches
    OBVIOUS
  <2>1. {m \in Mutators : pc[m] # "idle"} = {}
    BY FiberAssumption DEF Init, Fibers
  <2>2. pendingBatches = 0 /\ \A a \in Admins : pc[a] = "idle"
    BY FiberAssumption DEF Init, Fibers
  <2>3. ResetsCounted
    BY <2>2 DEF ResetsCounted
  <2> QED
    BY <2>1, <2>2, <2>3, FS_EmptySet DEF PendingBatches
<1>2. IInv /\ ResetsCounted /\ PendingBatches /\ [Next]_vars
        => ResetsCounted' /\ PendingBatches'
  BY ResetsCountedStep, PendingBatchesStep DEF IInv, TypeOK
<1> QED
  BY <1>1, <1>2, Inductive, PTL DEF Spec

-------------------------------------------------------------------------------
(* Streams of events. *)

\* Event e continues a client that shows rows r of version v.
Continues(e, v, r) ==
  /\ e.type = "delta"
  /\ e.from = v
  /\ e.before = r
  /\ e.version > v

\* Each event of a queue continues the one before it, or ends the stream.
Linked(q) ==
  \A i \in 1..(Len(q) - 1) :
    \/ q[i + 1].type = "status"
    \/ q[i].type # "status" /\ Continues(q[i + 1], q[i].version, q[i].rows)

\* The first event of a queue is one the client can apply to its state.
Joins(state, q) ==
  q # <<>> =>
    \/ q[1].type # "delta"
    \/ state.status = "ready" /\ Continues(q[1], state.version, state.rows)

\* Having taken the whole queue, the client shows evaluation c.
Reaches(state, q, c) ==
  IF q = <<>>
  THEN state = [status |-> "ready", version |-> c.version, rows |-> c.rows]
  ELSE q[Len(q)].version = c.version /\ q[Len(q)].rows = c.rows

\* Rows r are what the query of s shows of the rows that version v committed.
Committed(s, v, r, history) ==
  v < Len(history) /\ r = View[QueryOf[s]][history[v + 1]]

AllCommitted(s, q, history) ==
  \A i \in 1..Len(q) :
    q[i].type # "status" /\ Committed(s, q[i].version, q[i].rows, history)

\* Appending an event that continues the last one keeps a queue linked.
LEMMA LinkedAppend ==
  ASSUME NEW q \in Seq(Event), NEW e \in Event, Linked(q),
         q # <<>> => /\ q[Len(q)].type # "status"
                     /\ Continues(e, q[Len(q)].version, q[Len(q)].rows)
  PROVE  Linked(Append(q, e))
<1> DEFINE p == Append(q, e)
<1>1. /\ Len(p) = Len(q) + 1 /\ Len(q) \in Nat
      /\ \A i \in 1..Len(q) : p[i] = q[i]
      /\ p[Len(q) + 1] = e
  OBVIOUS
<1> SUFFICES ASSUME NEW i \in 1..(Len(p) - 1)
             PROVE  \/ p[i + 1].type = "status"
                    \/ p[i].type # "status" /\ Continues(p[i + 1], p[i].version, p[i].rows)
  BY DEF Linked
<1> HIDE DEF p
<1>2. CASE i = Len(q)
  BY <1>1, <1>2
<1>3. CASE i # Len(q)
  <2>1. i \in 1..(Len(q) - 1) /\ p[i] = q[i] /\ p[i + 1] = q[i + 1]
    BY <1>1, <1>3
  <2> QED
    BY <2>1 DEF Linked
<1> QED
  BY <1>2, <1>3

\* Taking the first event keeps a queue linked.
LEMMA LinkedTail ==
  ASSUME NEW q \in Seq(Event), q # <<>>, Linked(q)
  PROVE  Linked(Tail(q))
<1> DEFINE p == Tail(q)
<1>1. /\ Len(p) = Len(q) - 1 /\ Len(q) \in Nat
      /\ \A i \in 1..Len(p) : p[i] = q[i + 1]
  OBVIOUS
<1> SUFFICES ASSUME NEW i \in 1..(Len(p) - 1)
             PROVE  \/ p[i + 1].type = "status"
                    \/ p[i].type # "status" /\ Continues(p[i + 1], p[i].version, p[i].rows)
  BY DEF Linked
<1> HIDE DEF p
<1>2. i + 1 \in 1..(Len(q) - 1) /\ p[i] = q[i + 1] /\ p[i + 1] = q[(i + 1) + 1]
  BY <1>1
<1> QED
  BY <1>2 DEF Linked

\* A client that can apply the first event of a linked queue is not made stale by
\* it, and can apply the next.
LEMMA JoinsTail ==
  ASSUME NEW s, NEW state \in ClientState, NEW q \in Seq(Event), q # <<>>,
         Linked(q), Joins(state, q), state.status # "stale"
  PROVE  /\ Joins(Apply(s, state, q[1]), Tail(q))
         /\ Apply(s, state, q[1]).status # "stale"
<1> DEFINE next == Apply(s, state, q[1])
<1>1. q[1] \in Event /\ Len(q) \in Nat /\ Len(q) > 0
  OBVIOUS
<1>2. q[1].type \in {"snapshot", "delta", "status"}
  BY <1>1 DEF Event
<1>3. CASE q[1].type = "status"
  <2>1. next = [InitialView(s) EXCEPT !.status = "closed"]
    BY <1>3 DEF Apply
  <2>2. next.status # "stale"
    BY <2>1 DEF InitialView
  <2>3. ASSUME Tail(q) # <<>> PROVE Tail(q)[1].type = "status"
    <3>1. Len(q) > 1 /\ Tail(q)[1] = q[1 + 1] /\ 1 \in 1..(Len(q) - 1)
      BY <2>3
    <3> QED
      BY <1>3, <3>1 DEF Linked
  <2> QED
    BY <2>2, <2>3 DEF Joins
<1>4. CASE q[1].type # "status"
  <2>1. next = [status |-> "ready", version |-> q[1].version, rows |-> q[1].rows]
    <3>1. CASE q[1].type = "snapshot"
      BY <3>1 DEF Apply
    <3>2. CASE q[1].type = "delta"
      BY <3>2 DEF Apply, Joins, Continues
    <3> QED
      BY <1>2, <1>4, <3>1, <3>2
  <2>2. ASSUME Tail(q) # <<>>
        PROVE  \/ Tail(q)[1].type # "delta"
               \/ Continues(Tail(q)[1], q[1].version, q[1].rows)
    <3>1. Len(q) > 1 /\ Tail(q)[1] = q[1 + 1] /\ 1 \in 1..(Len(q) - 1)
      BY <2>2
    <3> QED
      BY <3>1 DEF Linked
  <2> QED
    BY <2>1, <2>2 DEF Joins
<1> QED
  BY <1>3, <1>4

\* Taking an event brings the client nearer to where the queue leads.
LEMMA ReachesTail ==
  ASSUME NEW s, NEW state \in ClientState, NEW q \in Seq(Event), q # <<>>, NEW c,
         Joins(state, q), q[1].type # "status", Reaches(state, q, c)
  PROVE  Reaches(Apply(s, state, q[1]), Tail(q), c)
<1>1. q[1] \in Event /\ Len(q) \in Nat /\ Len(q) > 0
  OBVIOUS
<1>2. CASE Tail(q) = <<>>
  <2>1. Len(q) = 1
    <3> DEFINE p == Tail(q)
    <3>1. Len(p) = Len(q) - 1
      BY <1>1
    <3>2. p = <<>>
      BY <1>2
    <3> HIDE DEF p
    <3>3. Len(p) = 0
      BY <3>2
    <3> QED
      BY <1>1, <3>1, <3>3
  <2>2. Apply(s, state, q[1])
          = [status |-> "ready", version |-> q[1].version, rows |-> q[1].rows]
    <3>1. q[1].type \in {"snapshot", "delta"}
      BY <1>1 DEF Event
    <3>2. CASE q[1].type = "snapshot"
      BY <3>2 DEF Apply
    <3>3. CASE q[1].type = "delta"
      BY <3>3 DEF Apply, Joins, Continues
    <3> QED
      BY <3>1, <3>2, <3>3
  <2> QED
    BY <1>2, <2>1, <2>2 DEF Reaches
<1>3. CASE Tail(q) # <<>>
  <2>1. Len(Tail(q)) = Len(q) - 1 /\ Tail(q)[Len(Tail(q))] = q[Len(q)]
    BY <1>1, <1>3
  <2> QED
    BY <1>3, <2>1 DEF Reaches
<1> QED
  BY <1>2, <1>3

\* What a client shows after an event is what the event says.
LEMMA ApplyCommitted ==
  ASSUME NEW s, NEW state \in ClientState, NEW e \in Event,
         Apply(s, state, e).status = "ready"
  PROVE  /\ e.type # "status"
         /\ Apply(s, state, e).version = e.version
         /\ Apply(s, state, e).rows = e.rows
<1>1. e.type \in {"snapshot", "delta", "status"}
  BY DEF Event
<1>2. CASE e.type = "status"
  BY <1>2 DEF Apply, InitialView
<1>3. CASE e.type = "snapshot"
  BY <1>3 DEF Apply
<1>4. CASE e.type = "delta"
  BY <1>4 DEF Apply, ClientState
<1> QED
  BY <1>1, <1>2, <1>3, <1>4

-------------------------------------------------------------------------------
(* Delivery, when a mutation's write and commit are not torn apart. *)

\* The history says what each version committed, up to the rows being written.
LogMatches ==
  /\ Len(log) = version + 1
  /\ (\A m \in Mutators : pc[m] # "written") => rows = log[version + 1]

\* The client of s can apply whatever waits in its queue.
Applicable(s) ==
  /\ Linked(queue[s])
  /\ Joins(view[s], queue[s])
  /\ view[s].status # "stale"

\* Whatever its client shows or is about to show has been committed.
Truthful(s) ==
  ~closed[s] =>
    /\ AllCommitted(s, queue[s], log)
    /\ view[s].status = "ready" => Committed(s, view[s].version, view[s].rows, log)

UnderEviction(s) == \E m \in Mutators : pc[m] = "evicting" /\ evictee[m] = s

\* Nothing it was sent is missing, but for an event its full queue refused.
Complete(s) ==
  s \in subscribers =>
    /\ Committed(s, cursor[s].version, cursor[s].rows, log)
    /\ \/ pc[s] = "registered"
       \/ UnderEviction(s)
       \/ Reaches(view[s], queue[s], cursor[s])

Delivery ==
  /\ LogMatches
  /\ \A s \in Subscribers : Applicable(s) /\ Truthful(s) /\ Complete(s)

\* Steps that touch neither the rows nor a stream, and that only close or
\* unregister subscriptions, keep what is delivered as it is.
LEMMA QuietStep ==
  ASSUME StreamTypeOK, Delivery,
         UNCHANGED <<rows, version, log, queue, view, cursor>>,
         \A m \in Mutators : pc'[m] = "written" <=> pc[m] = "written",
         subscribers' \subseteq subscribers,
         \A s \in Subscribers : closed[s] => closed'[s],
         \A s \in subscribers' : pc[s] = "registered" => pc'[s] = "registered",
         \A s \in subscribers' : UnderEviction(s) => UnderEviction(s)'
  PROVE  Delivery'
<1>1. LogMatches'
  BY DEF Delivery, LogMatches
<1>2. ASSUME NEW s \in Subscribers PROVE Applicable(s)'
  BY <1>2 DEF Delivery, Applicable
<1>3. ASSUME NEW s \in Subscribers PROVE Truthful(s)'
  BY <1>3 DEF Delivery, Truthful
<1>4. ASSUME NEW s \in Subscribers PROVE Complete(s)'
  <2> SUFFICES ASSUME s \in subscribers'
               PROVE  /\ Committed(s, cursor[s].version, cursor[s].rows, log)
                      /\ \/ pc'[s] = "registered"
                         \/ UnderEviction(s)'
                         \/ Reaches(view[s], queue[s], cursor[s])
    BY DEF Complete
  <2> QED
    BY DEF Delivery, Complete
<1> QED
  BY <1>1, <1>2, <1>3, <1>4 DEF Delivery

\* The same for one subscription, when other subscriptions or the history move.
LEMMA OtherStream ==
  ASSUME NEW s \in Subscribers, Applicable(s), Truthful(s), Complete(s),
         log \in Seq(Contents), log' \in Seq(Contents),
         Len(log) <= Len(log'), \A i \in 1..Len(log) : log'[i] = log[i],
         cursor \in [Subscribers -> Evaluation],
         view \in [Subscribers -> ClientState],
         queue \in [Subscribers -> Seq(Event)],
         queue'[s] = queue[s], view'[s] = view[s], cursor'[s] = cursor[s],
         s \in subscribers' => s \in subscribers,
         closed[s] => closed'[s],
         pc[s] = "registered" => pc'[s] = "registered",
         s \in subscribers' /\ UnderEviction(s) => UnderEviction(s)'
  PROVE  Applicable(s)' /\ Truthful(s)' /\ Complete(s)'
<1>1. Applicable(s)'
  BY DEF Applicable
<1>2. ASSUME NEW v \in Nat, NEW r, Committed(s, v, r, log)
      PROVE  Committed(s, v, r, log')
  <2>1. Len(log) \in Nat /\ Len(log') \in Nat /\ v < Len(log)
    BY <1>2 DEF Committed
  <2>2. v < Len(log') /\ v + 1 \in 1..Len(log)
    BY <2>1
  <2> QED
    BY <1>2, <2>2 DEF Committed
<1>3. Truthful(s)'
  <2> SUFFICES ASSUME ~closed[s]
               PROVE  /\ AllCommitted(s, queue[s], log')
                      /\ view[s].status = "ready" =>
                           Committed(s, view[s].version, view[s].rows, log')
    BY DEF Truthful
  <2>1. ASSUME NEW i \in 1..Len(queue[s])
        PROVE  /\ queue[s][i].type # "status"
               /\ Committed(s, queue[s][i].version, queue[s][i].rows, log')
    <3>1. /\ queue[s][i].type # "status"
          /\ Committed(s, queue[s][i].version, queue[s][i].rows, log)
      BY DEF Truthful, AllCommitted
    <3>2. queue[s][i] \in Event
      OBVIOUS
    <3>3. queue[s][i].version \in Nat
      BY <3>1, <3>2 DEF Event
    <3> QED
      BY <1>2, <3>1, <3>3
  <2>2. ASSUME view[s].status = "ready"
        PROVE  Committed(s, view[s].version, view[s].rows, log')
    BY <1>2, <2>2 DEF Truthful, ClientState
  <2> QED
    BY <2>1, <2>2 DEF AllCommitted
<1>4. Complete(s)'
  <2> SUFFICES ASSUME s \in subscribers'
               PROVE  /\ Committed(s, cursor[s].version, cursor[s].rows, log')
                      /\ \/ pc'[s] = "registered"
                         \/ UnderEviction(s)'
                         \/ Reaches(view[s], queue[s], cursor[s])
    BY DEF Complete
  <2>1. cursor[s].version \in Nat
    BY DEF Evaluation
  <2>2. Committed(s, cursor[s].version, cursor[s].rows, log')
    BY <1>2, <2>1 DEF Complete
  <2> QED
    BY <2>2 DEF Complete
<1> QED
  BY <1>1, <1>3, <1>4

\* Under the mutation discipline, what a query shows of the rows is committed,
\* unless a mutation is between writing its rows and committing them.
LEMMA LatestCommitted ==
  ASSUME StoreTypeOK, LogMatches, NEW s \in Subscribers,
         \A m \in Mutators : pc[m] # "written"
  PROVE  Latest(s) \in Evaluation /\ Committed(s, Latest(s).version, Latest(s).rows, log)
<1>1. Latest(s) \in Evaluation
  BY QueryAssumption DEF Latest, Result, Evaluation, StoreTypeOK
<1>2. version < Len(log) /\ rows = log[version + 1]
  BY DEF LogMatches, StoreTypeOK
<1> QED
  BY <1>1, <1>2 DEF Committed, Latest, Result

\* While one mutation notifies, no other evicts.
LEMMA NotifierIsAlone ==
  ASSUME PermitsMatchSections, FiberTypeOK, NEW m \in Mutators, pc[m] = "notifying"
  PROVE  \A n \in Mutators : pc[n] # "evicting"
BY FiberAssumption DEF PermitsMatchSections, HoldsNotification, Fibers

\* Every step keeps what is delivered complete, in order and true.
LEMMA DeliveryStep ==
  ASSUME ~YieldBeforeCommit, IInv, Streaming, Delivery, [Next]_vars
  PROVE  Delivery'
<1> USE FiberAssumption DEF IInv, TypeOK, Streaming
<1>1. ASSUME NEW m \in Mutators, BeginMutation(m) PROVE Delivery'
  <2>1. /\ UNCHANGED <<rows, version, log, queue, view, cursor>>
        /\ subscribers' \subseteq subscribers
        /\ \A t \in Subscribers : closed[t] => closed'[t]
        /\ \A t \in subscribers' : pc[t] = "registered" => pc'[t] = "registered"
    BY <1>1 DEF BeginMutation, Goto, storeVars, streamVars
  <2>2. \A n \in Mutators : pc'[n] = "written" <=> pc[n] = "written"
    BY <1>1 DEF BeginMutation, Goto
  <2>3. \A t \in subscribers' : UnderEviction(t) => UnderEviction(t)'
    BY <1>1 DEF UnderEviction, BeginMutation, Goto
  <2> QED
    BY <2>1, <2>2, <2>3, QuietStep
<1>2. ASSUME NEW m \in Mutators, InterruptMutation(m) PROVE Delivery'
  <2>1. /\ UNCHANGED <<rows, version, log, queue, view, cursor>>
        /\ subscribers' \subseteq subscribers
        /\ \A t \in Subscribers : closed[t] => closed'[t]
        /\ \A t \in subscribers' : pc[t] = "registered" => pc'[t] = "registered"
    BY <1>2 DEF InterruptMutation, Goto, storeVars, streamVars
  <2>2. \A n \in Mutators : pc'[n] = "written" <=> pc[n] = "written"
    BY <1>2 DEF InterruptMutation, Goto
  <2>3. \A t \in subscribers' : UnderEviction(t) => UnderEviction(t)'
    BY <1>2 DEF UnderEviction, InterruptMutation, Goto
  <2> QED
    BY <2>1, <2>2, <2>3, QuietStep
<1>3. ASSUME NEW m \in Mutators, EnterMutation(m) PROVE Delivery'
  <2>1. /\ UNCHANGED <<rows, version, log, queue, view, cursor>>
        /\ subscribers' \subseteq subscribers
        /\ \A t \in Subscribers : closed[t] => closed'[t]
        /\ \A t \in subscribers' : pc[t] = "registered" => pc'[t] = "registered"
    BY <1>3 DEF EnterMutation, Goto, storeVars, streamVars
  <2>2. \A n \in Mutators : pc'[n] = "written" <=> pc[n] = "written"
    BY <1>3 DEF EnterMutation, Goto
  <2>3. \A t \in subscribers' : UnderEviction(t) => UnderEviction(t)'
    BY <1>3 DEF UnderEviction, EnterMutation, Goto
  <2> QED
    BY <2>1, <2>2, <2>3, QuietStep
<1>4. ASSUME NEW m \in Mutators, WriteRows(m) PROVE Delivery'
  <2>1. /\ UNCHANGED <<version, log, queue, view, cursor, subscribers, closed, evictee>>
        /\ \A t \in Subscribers : pc'[t] = pc[t]
        /\ \A n \in Mutators : pc[n] = "evicting" => pc'[n] = "evicting"
        /\ pc'[m] = "written"
    BY <1>4 DEF WriteRows, Goto, streamVars, FiberTypeOK, Fibers
  <2>2. LogMatches'
    BY <2>1 DEF Delivery, LogMatches
  <2>3. \A t \in Subscribers : UnderEviction(t) => UnderEviction(t)'
    BY <2>1 DEF UnderEviction
  <2>4. \A t \in Subscribers : Applicable(t)' /\ Truthful(t)' /\ Complete(t)'
    BY <2>1, <2>3 DEF Delivery, Applicable, Truthful, Complete
  <2> QED
    BY <2>2, <2>4 DEF Delivery
<1>5. ASSUME NEW m \in Mutators, CommitRows(m) PROVE Delivery'
  <2>1. /\ version' = version + 1 /\ log' = Append(log, rows)
        /\ UNCHANGED <<rows, queue, view, cursor, subscribers, closed, evictee>>
        /\ \A t \in Subscribers : pc'[t] = pc[t]
        /\ \A n \in Mutators : pc[n] = "evicting" => pc'[n] = "evicting"
    BY <1>5 DEF CommitRows, Goto, streamVars, FiberTypeOK, Fibers
  <2>2. /\ rows \in Contents /\ log \in Seq(Contents) /\ Len(log) = version + 1
        /\ version \in Nat
    BY DEF StoreTypeOK, Delivery, LogMatches
  <2>3. /\ Len(log') = Len(log) + 1 /\ log' \in Seq(Contents)
        /\ \A i \in 1..Len(log) : log'[i] = log[i]
        /\ log'[Len(log) + 1] = rows
    BY <2>1, <2>2
  <2>4. LogMatches'
    BY <2>1, <2>2, <2>3 DEF LogMatches
  <2>5. \A t \in Subscribers : UnderEviction(t) => UnderEviction(t)'
    BY <2>1 DEF UnderEviction
  <2>6. ASSUME NEW t \in Subscribers
        PROVE  Applicable(t)' /\ Truthful(t)' /\ Complete(t)'
    <3>1. Applicable(t) /\ Truthful(t) /\ Complete(t)
      BY DEF Delivery
    <3>2. Len(log) <= Len(log')
      BY <2>2, <2>3
    <3> QED
      BY <2>1, <2>2, <2>3, <2>5, <3>1, <3>2, OtherStream DEF StreamTypeOK
  <2> QED
    BY <2>4, <2>6 DEF Delivery
<1>6. ASSUME NEW m \in Mutators, ChangeNothing(m) PROVE Delivery'
  <2>1. /\ UNCHANGED <<rows, version, log, queue, view, cursor>>
        /\ subscribers' \subseteq subscribers
        /\ \A t \in Subscribers : closed[t] => closed'[t]
        /\ \A t \in subscribers' : pc[t] = "registered" => pc'[t] = "registered"
    BY <1>6 DEF ChangeNothing, Goto, storeVars, streamVars
  <2>2. \A n \in Mutators : pc'[n] = "written" <=> pc[n] = "written"
    BY <1>6 DEF ChangeNothing, Goto
  <2>3. \A t \in subscribers' : UnderEviction(t) => UnderEviction(t)'
    BY <1>6 DEF UnderEviction, ChangeNothing, Goto
  <2> QED
    BY <2>1, <2>2, <2>3, QuietStep
<1>7. ASSUME NEW m \in Mutators, FailMutation(m) PROVE Delivery'
  <2>1. /\ UNCHANGED <<rows, version, log, queue, view, cursor>>
        /\ subscribers' \subseteq subscribers
        /\ \A t \in Subscribers : closed[t] => closed'[t]
        /\ \A t \in subscribers' : pc[t] = "registered" => pc'[t] = "registered"
    BY <1>7 DEF FailMutation, Goto, storeVars, streamVars
  <2>2. \A n \in Mutators : pc'[n] = "written" <=> pc[n] = "written"
    BY <1>7 DEF FailMutation, Goto
  <2>3. \A t \in subscribers' : UnderEviction(t) => UnderEviction(t)'
    BY <1>7 DEF UnderEviction, FailMutation, Goto
  <2> QED
    BY <2>1, <2>2, <2>3, QuietStep
<1>8. ASSUME NEW m \in Mutators, EnterNotification(m) PROVE Delivery'
  <2>1. /\ UNCHANGED <<rows, version, log, queue, view, cursor>>
        /\ subscribers' \subseteq subscribers
        /\ \A t \in Subscribers : closed[t] => closed'[t]
        /\ \A t \in subscribers' : pc[t] = "registered" => pc'[t] = "registered"
    BY <1>8 DEF EnterNotification, Goto, storeVars, streamVars
  <2>2. \A n \in Mutators : pc'[n] = "written" <=> pc[n] = "written"
    BY <1>8 DEF EnterNotification, Goto
  <2>3. \A t \in subscribers' : UnderEviction(t) => UnderEviction(t)'
    BY <1>8 DEF UnderEviction, EnterNotification, Goto
  <2> QED
    BY <2>1, <2>2, <2>3, QuietStep
<1>9. ASSUME NEW m \in Mutators, NEW s \in Subscribers, SkipClosed(m, s) PROVE Delivery'
  <2>1. /\ UNCHANGED <<rows, version, log, queue, view, cursor>>
        /\ subscribers' \subseteq subscribers
        /\ \A t \in Subscribers : closed[t] => closed'[t]
        /\ \A t \in subscribers' : pc[t] = "registered" => pc'[t] = "registered"
    BY <1>9 DEF SkipClosed, Notifying, storeVars, streamVars
  <2>2. \A n \in Mutators : pc'[n] = "written" <=> pc[n] = "written"
    BY <1>9 DEF SkipClosed, Notifying
  <2>3. \A t \in subscribers' : UnderEviction(t) => UnderEviction(t)'
    BY <1>9 DEF UnderEviction, SkipClosed, Notifying
  <2> QED
    BY <2>1, <2>2, <2>3, QuietStep
<1>10. ASSUME NEW m \in Mutators, NEW s \in Subscribers, NotifyUnchanged(m, s) PROVE Delivery'
  <2>1. /\ UNCHANGED <<rows, version, log, queue, view, cursor>>
        /\ subscribers' \subseteq subscribers
        /\ \A t \in Subscribers : closed[t] => closed'[t]
        /\ \A t \in subscribers' : pc[t] = "registered" => pc'[t] = "registered"
    BY <1>10 DEF NotifyUnchanged, Notifying, storeVars, streamVars
  <2>2. \A n \in Mutators : pc'[n] = "written" <=> pc[n] = "written"
    BY <1>10 DEF NotifyUnchanged, Notifying
  <2>3. \A t \in subscribers' : UnderEviction(t) => UnderEviction(t)'
    BY <1>10 DEF UnderEviction, NotifyUnchanged, Notifying
  <2> QED
    BY <2>1, <2>2, <2>3, QuietStep
<1>11. ASSUME NEW m \in Mutators, NEW s \in Subscribers, NotifyDelta(m, s) PROVE Delivery'
  <2>1. \A n \in Mutators : pc[n] # "written"
    BY <1>11 DEF NotifyDelta, Readable
  <2>2. Latest(s) \in Evaluation /\ Committed(s, Latest(s).version, Latest(s).rows, log)
    BY <2>1, LatestCommitted DEF Delivery
  <2>3. /\ queue' = [queue EXCEPT ![s] = Append(@, Delta(s))]
        /\ cursor' = [cursor EXCEPT ![s] = Latest(s)]
        /\ UNCHANGED <<pc, rows, version, log, subscribers, closed, view, evictee>>
    BY <1>11 DEF NotifyDelta, Notifying, storeVars
  <2>4. s \in subscribers /\ ~closed[s] /\ pc[s] # "registered" /\ ~UnderEviction(s)
    <3>1. pc[m] = "notifying" /\ s \in targets[m] /\ ~closed[s]
      BY <1>11 DEF NotifyDelta, Notifying
    <3>2. s \in subscribers /\ pc[s] # "registered"
      BY <3>1 DEF TargetsRegistered, FreshIsQuiet, Fresh
    <3>3. ~UnderEviction(s)
      BY <3>1, NotifierIsAlone DEF UnderEviction
    <3> QED
      BY <3>1, <3>2, <3>3
  <2>5. /\ Applicable(s) /\ AllCommitted(s, queue[s], log)
        /\ Reaches(view[s], queue[s], cursor[s])
        /\ view[s].status = "ready" => Committed(s, view[s].version, view[s].rows, log)
        /\ Committed(s, cursor[s].version, cursor[s].rows, log)
    BY <2>4 DEF Delivery, Truthful, Complete
  <2>6. queue[s] \in Seq(Event) /\ Delta(s) \in Event /\ view[s] \in ClientState
    BY <2>2 DEF Delta, Event, Evaluation, StreamTypeOK
  <2>7. Continues(Delta(s), cursor[s].version, cursor[s].rows)
    <3>1. cursor[s].version \in Nat /\ version \in Nat
      BY DEF StreamTypeOK, StoreTypeOK, Evaluation
    <3>2. cursor[s].version < version + 1
      BY <2>5 DEF Committed, Delivery, LogMatches
    <3>3. cursor[s].version # version
      <4>1. Result(QueryOf[s]) # cursor[s].rows
        BY <1>11 DEF NotifyDelta, Latest
      <4>2. rows = log[version + 1]
        BY <2>1 DEF Delivery, LogMatches
      <4> QED
        BY <2>5, <4>1, <4>2 DEF Committed, Result
    <3> QED
      BY <3>1, <3>2, <3>3 DEF Continues, Delta, Latest
  <2>8. /\ queue'[s] = Append(queue[s], Delta(s)) /\ cursor'[s] = Latest(s)
        /\ \A t \in Subscribers : t # s => queue'[t] = queue[t] /\ cursor'[t] = cursor[t]
    BY <2>3 DEF StreamTypeOK
  <2>9. Applicable(s)'
    <3>1. Linked(Append(queue[s], Delta(s)))
      <4>1. ASSUME queue[s] # <<>>
            PROVE  /\ queue[s][Len(queue[s])].type # "status"
                   /\ Continues(Delta(s), queue[s][Len(queue[s])].version,
                                queue[s][Len(queue[s])].rows)
        <5>1. Len(queue[s]) \in 1..Len(queue[s])
          BY <2>6, <4>1
        <5> QED
          BY <2>5, <2>7, <4>1, <5>1 DEF AllCommitted, Reaches
      <4> QED
        BY <2>5, <2>6, <4>1, LinkedAppend DEF Applicable
    <3>2. Joins(view[s], Append(queue[s], Delta(s)))
      <4>1. CASE queue[s] = <<>>
        <5>1. Append(queue[s], Delta(s))[1] = Delta(s)
          BY <4>1
        <5>2. view[s].status = "ready" /\ Continues(Delta(s), view[s].version, view[s].rows)
          BY <2>5, <2>7, <4>1 DEF Reaches
        <5> QED
          BY <5>1, <5>2 DEF Joins
      <4>2. CASE queue[s] # <<>>
        <5>1. Append(queue[s], Delta(s))[1] = queue[s][1]
          BY <2>6, <4>2
        <5> QED
          BY <2>5, <4>2, <5>1 DEF Joins, Applicable
      <4> QED
        BY <4>1, <4>2
    <3> QED
      BY <2>3, <2>5, <2>8, <3>1, <3>2 DEF Applicable
  <2>10. Truthful(s)'
    <3>1. AllCommitted(s, Append(queue[s], Delta(s)), log)
      <4>1. /\ Len(Append(queue[s], Delta(s))) = Len(queue[s]) + 1
            /\ \A i \in 1..Len(queue[s]) : Append(queue[s], Delta(s))[i] = queue[s][i]
            /\ Append(queue[s], Delta(s))[Len(queue[s]) + 1] = Delta(s)
            /\ Len(queue[s]) \in Nat
        BY <2>6
      <4>2. /\ Delta(s).type # "status"
            /\ Committed(s, Delta(s).version, Delta(s).rows, log)
        BY <2>2 DEF Delta
      <4> HIDE DEF Delta
      <4>3. ASSUME NEW i \in 1..(Len(queue[s]) + 1)
            PROVE  i = Len(queue[s]) + 1 \/ i \in 1..Len(queue[s])
        BY <4>1
      <4> QED
        BY <2>5, <4>1, <4>2, <4>3 DEF AllCommitted
    <3> QED
      BY <2>3, <2>5, <2>8, <3>1 DEF Truthful
  <2>11. Complete(s)'
    <3>1. Reaches(view[s], Append(queue[s], Delta(s)), Latest(s))
      <4>1. /\ Len(Append(queue[s], Delta(s))) = Len(queue[s]) + 1
            /\ Append(queue[s], Delta(s))[Len(queue[s]) + 1] = Delta(s)
            /\ Append(queue[s], Delta(s)) # <<>>
        BY <2>6
      <4> QED
        BY <4>1 DEF Reaches, Delta
    <3> QED
      BY <2>2, <2>3, <2>8, <3>1 DEF Complete
  <2>12. UnderEviction(s)' <=> UnderEviction(s)
    BY <2>3 DEF UnderEviction
  <2>13. ASSUME NEW t \in Subscribers, t # s
        PROVE  Applicable(t)' /\ Truthful(t)' /\ Complete(t)'
    <3>1. Applicable(t) /\ Truthful(t) /\ Complete(t)
      BY DEF Delivery
    <3>2. UnderEviction(t) => UnderEviction(t)'
      BY <2>3 DEF UnderEviction
    <3> QED
      BY <2>3, <2>8, <2>13, <3>1, <3>2 DEF Applicable, Truthful, Complete
  <2>14. LogMatches'
    BY <2>3 DEF Delivery, LogMatches
  <2> QED
    BY <2>9, <2>10, <2>11, <2>13, <2>14 DEF Delivery
<1>12. ASSUME NEW m \in Mutators, NEW s \in Subscribers, NotifyDropped(m, s) PROVE Delivery'
  <2>1. \A n \in Mutators : pc[n] # "written"
    BY <1>12 DEF NotifyDropped, Readable
  <2>2. Latest(s) \in Evaluation /\ Committed(s, Latest(s).version, Latest(s).rows, log)
    BY <2>1, LatestCommitted DEF Delivery
  <2>3. /\ cursor' = [cursor EXCEPT ![s] = Latest(s)]
        /\ evictee' = [evictee EXCEPT ![m] = s]
        /\ pc[m] = "notifying" /\ pc' = [pc EXCEPT ![m] = "evicting"]
        /\ UNCHANGED <<rows, version, log, subscribers, closed, queue, view>>
    BY <1>12 DEF NotifyDropped, Notifying, Goto, storeVars
  <2>4. UnderEviction(s)' /\ \A t \in Subscribers : ~UnderEviction(t) /\ pc'[t] = pc[t]
    <3>1. /\ pc'[m] = "evicting" /\ evictee'[m] = s
          /\ \A t \in Subscribers : pc'[t] = pc[t]
      BY <2>3 DEF FiberTypeOK, Fibers
    <3> QED
      BY <2>3, <3>1, NotifierIsAlone DEF UnderEviction
  <2>5. LogMatches'
    BY <2>3 DEF Delivery, LogMatches
  <2>6. Applicable(s)' /\ Truthful(s)'
    BY <2>3 DEF Delivery, Applicable, Truthful
  <2>7. Complete(s)'
    BY <2>2, <2>3, <2>4 DEF Complete, StreamTypeOK
  <2>8. ASSUME NEW t \in Subscribers, t # s
        PROVE  Applicable(t)' /\ Truthful(t)' /\ Complete(t)'
    <3>1. Applicable(t) /\ Truthful(t) /\ Complete(t)
      BY DEF Delivery
    <3>2. cursor'[t] = cursor[t]
      BY <2>3, <2>8
    <3> QED
      BY <2>3, <2>4, <3>1, <3>2 DEF Applicable, Truthful, Complete
  <2> QED
    BY <2>5, <2>6, <2>7, <2>8 DEF Delivery
<1>13. ASSUME NEW m \in Mutators, EvictSubscriber(m) PROVE Delivery'
  <2>1. /\ UNCHANGED <<rows, version, log, queue, view, cursor, evictee>>
        /\ pc[m] = "evicting" /\ pc' = [pc EXCEPT ![m] = "clearing"]
        /\ evictee[m] \in Subscribers
    BY <1>13 DEF EvictSubscriber, Goto, storeVars, streamVars, EvicteeKnown
  <2>2. /\ subscribers' \subseteq subscribers /\ evictee[m] \notin subscribers'
        /\ \A t \in Subscribers : closed[t] => closed'[t]
    <3>1. CASE closed[evictee[m]]
      BY <1>13, <2>1, <3>1 DEF EvictSubscriber, RegisteredWhileOpen
    <3>2. CASE ~closed[evictee[m]]
      BY <1>13, <3>2 DEF EvictSubscriber, StreamTypeOK
    <3> QED
      BY <3>1, <3>2
  <2>3. /\ \A t \in Subscribers : pc'[t] = pc[t]
        /\ \A n \in Mutators : n # m => pc'[n] = pc[n]
        /\ pc'[m] = "clearing"
    BY <2>1 DEF FiberTypeOK, Fibers
  <2>4. \A n \in Mutators : pc'[n] = "written" <=> pc[n] = "written"
    BY <2>1, <2>3
  <2>5. \A t \in subscribers' : UnderEviction(t) => UnderEviction(t)'
    BY <2>1, <2>2, <2>3 DEF UnderEviction
  <2>6. \A t \in subscribers' : pc[t] = "registered" => pc'[t] = "registered"
    BY <2>2, <2>3 DEF StreamTypeOK
  <2> QED
    BY <2>1, <2>2, <2>4, <2>5, <2>6, QuietStep
<1>14. ASSUME NEW m \in Mutators, SendBackpressure(m) PROVE Delivery'
  <2>0. PICK s \in Subscribers : s = evictee[m]
    BY <1>14 DEF SendBackpressure, EvicteeKnown
  <2>1. s \in Subscribers /\ closed[s] /\ s \notin subscribers
    BY <2>0, <1>14 DEF SendBackpressure, EvicteeKnown, RegisteredWhileOpen
  <2>2. /\ queue'[s] \in {<<>>, <<[type |-> "status"]>>}
        /\ \A t \in Subscribers : t # s => queue'[t] = queue[t]
        /\ UNCHANGED <<rows, version, log, subscribers, cursor, view>>
        /\ \A t \in Subscribers : closed[t] => closed'[t]
    BY <2>0, <1>14, <2>1 DEF SendBackpressure, EndWithStatus, storeVars, StreamTypeOK
  <2>3. /\ \A n \in Mutators : pc'[n] = "written" <=> pc[n] = "written"
        /\ \A t \in Subscribers : pc'[t] = pc[t]
    BY <1>14 DEF SendBackpressure, Goto
  <2>4. \A t \in Subscribers : UnderEviction(t) => UnderEviction(t)'
    BY <1>14 DEF SendBackpressure, Goto, UnderEviction
  <2>5. LogMatches'
    BY <2>2, <2>3 DEF Delivery, LogMatches
  <2>6. Applicable(s)'
    <3>1. Linked(<<>>) /\ Joins(view[s], <<>>)
      BY DEF Linked, Joins
    <3>2. /\ Linked(<<[type |-> "status"]>>)
          /\ Joins(view[s], <<[type |-> "status"]>>)
      BY DEF Linked, Joins
    <3> QED
      BY <2>1, <2>2, <3>1, <3>2 DEF Delivery, Applicable
  <2>7. Truthful(s)' /\ Complete(s)'
    BY <2>1, <2>2 DEF Truthful, Complete
  <2>8. ASSUME NEW t \in Subscribers, t # s
        PROVE  Applicable(t)' /\ Truthful(t)' /\ Complete(t)'
    <3>1. Applicable(t) /\ Truthful(t) /\ Complete(t)
      BY DEF Delivery
    <3> QED
      BY <2>2, <2>3, <2>4, <2>8, <3>1 DEF Applicable, Truthful, Complete
  <2> QED
    BY <2>5, <2>6, <2>7, <2>8 DEF Delivery
<1>15. ASSUME NEW m \in Mutators, EndMutation(m) PROVE Delivery'
  <2>1. /\ UNCHANGED <<rows, version, log, queue, view, cursor>>
        /\ subscribers' \subseteq subscribers
        /\ \A t \in Subscribers : closed[t] => closed'[t]
        /\ \A t \in subscribers' : pc[t] = "registered" => pc'[t] = "registered"
    BY <1>15 DEF EndMutation, Goto, storeVars, streamVars
  <2>2. \A n \in Mutators : pc'[n] = "written" <=> pc[n] = "written"
    BY <1>15 DEF EndMutation, Goto
  <2>3. \A t \in subscribers' : UnderEviction(t) => UnderEviction(t)'
    BY <1>15 DEF UnderEviction, EndMutation, Goto
  <2> QED
    BY <2>1, <2>2, <2>3, QuietStep
<1>16. ASSUME NEW s \in Subscribers, BeginSubscribe(s) PROVE Delivery'
  <2>1. /\ UNCHANGED <<rows, version, log, queue, view, cursor>>
        /\ subscribers' \subseteq subscribers
        /\ \A t \in Subscribers : closed[t] => closed'[t]
        /\ \A t \in subscribers' : pc[t] = "registered" => pc'[t] = "registered"
    BY <1>16 DEF BeginSubscribe, Goto, storeVars, streamVars
  <2>2. \A n \in Mutators : pc'[n] = "written" <=> pc[n] = "written"
    BY <1>16 DEF BeginSubscribe, Goto
  <2>3. \A t \in subscribers' : UnderEviction(t) => UnderEviction(t)'
    BY <1>16 DEF UnderEviction, BeginSubscribe, Goto
  <2> QED
    BY <2>1, <2>2, <2>3, QuietStep
<1>17. ASSUME NEW s \in Subscribers, InterruptSubscribe(s) PROVE Delivery'
  <2>1. /\ UNCHANGED <<rows, version, log, queue, view, cursor>>
        /\ subscribers' \subseteq subscribers
        /\ \A t \in Subscribers : closed[t] => closed'[t]
        /\ \A t \in subscribers' : pc[t] = "registered" => pc'[t] = "registered"
    BY <1>17 DEF InterruptSubscribe, Goto, storeVars, streamVars
  <2>2. \A n \in Mutators : pc'[n] = "written" <=> pc[n] = "written"
    BY <1>17 DEF InterruptSubscribe, Goto
  <2>3. \A t \in subscribers' : UnderEviction(t) => UnderEviction(t)'
    BY <1>17 DEF UnderEviction, InterruptSubscribe, Goto
  <2> QED
    BY <2>1, <2>2, <2>3, QuietStep
<1>18. ASSUME NEW s \in Subscribers, EnterSubscribe(s) PROVE Delivery'
  <2>1. /\ UNCHANGED <<rows, version, log, queue, view, cursor>>
        /\ subscribers' \subseteq subscribers
        /\ \A t \in Subscribers : closed[t] => closed'[t]
        /\ \A t \in subscribers' : pc[t] = "registered" => pc'[t] = "registered"
    BY <1>18 DEF EnterSubscribe, Goto, storeVars, streamVars
  <2>2. \A n \in Mutators : pc'[n] = "written" <=> pc[n] = "written"
    BY <1>18 DEF EnterSubscribe, Goto
  <2>3. \A t \in subscribers' : UnderEviction(t) => UnderEviction(t)'
    BY <1>18 DEF UnderEviction, EnterSubscribe, Goto
  <2> QED
    BY <2>1, <2>2, <2>3, QuietStep
<1>35. ASSUME NEW s \in Subscribers, AdmitSubscriber(s) PROVE Delivery'
  <2>1. /\ UNCHANGED <<rows, version, log, queue, view, cursor>>
        /\ subscribers' \subseteq subscribers
        /\ \A t \in Subscribers : closed[t] => closed'[t]
        /\ \A t \in subscribers' : pc[t] = "registered" => pc'[t] = "registered"
    BY <1>35 DEF AdmitSubscriber, Goto, storeVars, streamVars
  <2>2. \A n \in Mutators : pc'[n] = "written" <=> pc[n] = "written"
    BY <1>35 DEF AdmitSubscriber, Goto
  <2>3. \A t \in subscribers' : UnderEviction(t) => UnderEviction(t)'
    BY <1>35 DEF UnderEviction, AdmitSubscriber, Goto
  <2> QED
    BY <2>1, <2>2, <2>3, QuietStep
<1>19. ASSUME NEW s \in Subscribers, RejectSubscribe(s) PROVE Delivery'
  <2>1. /\ UNCHANGED <<rows, version, log, queue, view, cursor>>
        /\ subscribers' \subseteq subscribers
        /\ \A t \in Subscribers : closed[t] => closed'[t]
        /\ \A t \in subscribers' : pc[t] = "registered" => pc'[t] = "registered"
    BY <1>19 DEF RejectSubscribe, Goto, storeVars, streamVars
  <2>2. \A n \in Mutators : pc'[n] = "written" <=> pc[n] = "written"
    BY <1>19 DEF RejectSubscribe, Goto
  <2>3. \A t \in subscribers' : UnderEviction(t) => UnderEviction(t)'
    BY <1>19 DEF UnderEviction, RejectSubscribe, Goto
  <2> QED
    BY <2>1, <2>2, <2>3, QuietStep
<1>20. ASSUME NEW s \in Subscribers, RegisterSubscriber(s) PROVE Delivery'
  <2>1. \A n \in Mutators : pc[n] # "written"
    BY <1>20 DEF RegisterSubscriber, PermitsMatchSections, HoldsMutation, Fibers
  <2>2. Latest(s) \in Evaluation /\ Committed(s, Latest(s).version, Latest(s).rows, log)
    BY <2>1, LatestCommitted DEF Delivery
  <2>3. /\ cursor' = [cursor EXCEPT ![s] = Latest(s)]
        /\ subscribers' = subscribers \union {s}
        /\ pc' = [pc EXCEPT ![s] = "registered"]
        /\ UNCHANGED <<rows, version, log, closed, queue, view, evictee>>
    BY <1>20 DEF RegisterSubscriber, Goto, storeVars
  <2>4. /\ \A n \in Mutators : pc'[n] = pc[n]
        /\ \A t \in Subscribers : t # s => pc'[t] = pc[t] /\ cursor'[t] = cursor[t]
        /\ pc'[s] = "registered" /\ cursor'[s] = Latest(s)
    BY <2>3 DEF StreamTypeOK, FiberTypeOK, Fibers
  <2>5. LogMatches'
    BY <2>3, <2>4 DEF Delivery, LogMatches
  <2>6. Applicable(s)' /\ Truthful(s)'
    BY <2>3 DEF Delivery, Applicable, Truthful
  <2>7. Complete(s)'
    BY <2>2, <2>3, <2>4 DEF Complete
  <2>8. ASSUME NEW t \in Subscribers, t # s
        PROVE  Applicable(t)' /\ Truthful(t)' /\ Complete(t)'
    <3>1. Applicable(t) /\ Truthful(t) /\ Complete(t)
      BY DEF Delivery
    <3>2. UnderEviction(t) => UnderEviction(t)'
      BY <2>3, <2>4 DEF UnderEviction
    <3> QED
      BY <2>3, <2>4, <2>8, <3>1, <3>2 DEF Applicable, Truthful, Complete
  <2> QED
    BY <2>5, <2>6, <2>7, <2>8 DEF Delivery
<1>21. ASSUME NEW s \in Subscribers, OfferSnapshot(s) PROVE Delivery'
  <2> DEFINE snapshot == [type    |-> "snapshot",
                          version |-> Latest(s).version,
                          rows    |-> Latest(s).rows]
  <2>1. /\ queue' = [queue EXCEPT ![s] = Append(@, snapshot)]
        /\ pc[s] = "registered" /\ pc' = [pc EXCEPT ![s] = "open"]
        /\ UNCHANGED <<rows, version, log, subscribers, closed, cursor, view, evictee>>
    BY <1>21 DEF OfferSnapshot, Goto, storeVars
  <2>2. /\ queue[s] = <<>> /\ view[s] = InitialView(s) /\ cursor[s] = Latest(s)
        /\ ~closed[s] /\ s \in subscribers
    BY <2>1 DEF FreshIsQuiet, Fresh, RegisteredIsCurrent, RegisteredWhileOpen
  <2>3. Committed(s, Latest(s).version, Latest(s).rows, log)
    BY <2>2 DEF Delivery, Complete
  <2>4. /\ queue'[s] = <<snapshot>>
        /\ \A t \in Subscribers : t # s => queue'[t] = queue[t] /\ pc'[t] = pc[t]
        /\ \A n \in Mutators : pc'[n] = pc[n]
    BY <2>1, <2>2 DEF StreamTypeOK, FiberTypeOK, Fibers
  <2>5. LogMatches'
    BY <2>1, <2>4 DEF Delivery, LogMatches
  <2>6. /\ Len(<<snapshot>>) = 1 /\ <<snapshot>>[1] = snapshot /\ <<snapshot>> # <<>>
        /\ snapshot.type = "snapshot" /\ snapshot.version = Latest(s).version
        /\ snapshot.rows = Latest(s).rows
    OBVIOUS
  <2> HIDE DEF snapshot
  <2>7. Linked(<<snapshot>>) /\ Joins(view[s], <<snapshot>>)
    BY <2>6 DEF Linked, Joins
  <2>8. AllCommitted(s, <<snapshot>>, log)
    BY <2>3, <2>6 DEF AllCommitted
  <2>9. Reaches(view[s], <<snapshot>>, cursor[s])
    BY <2>2, <2>6 DEF Reaches
  <2>10. Applicable(s)'
    BY <2>1, <2>4, <2>7 DEF Delivery, Applicable
  <2>11. Truthful(s)'
    BY <2>1, <2>2, <2>4, <2>8 DEF Truthful, InitialView
  <2>12. Complete(s)'
    BY <2>1, <2>2, <2>3, <2>4, <2>9 DEF Complete
  <2>13. ASSUME NEW t \in Subscribers, t # s
        PROVE  Applicable(t)' /\ Truthful(t)' /\ Complete(t)'
    <3>1. Applicable(t) /\ Truthful(t) /\ Complete(t)
      BY DEF Delivery
    <3>2. UnderEviction(t) => UnderEviction(t)'
      BY <2>1, <2>4 DEF UnderEviction
    <3> QED
      BY <2>1, <2>4, <2>13, <3>1, <3>2 DEF Applicable, Truthful, Complete
  <2> QED
    BY <2>5, <2>10, <2>11, <2>12, <2>13 DEF Delivery
<1>22. ASSUME NEW s \in Subscribers, TakeEvent(s) PROVE Delivery'
  <2> DEFINE next == Apply(s, view[s], queue[s][1])
  <2>1. /\ queue[s] # <<>> /\ queue[s] \in Seq(Event) /\ view[s] \in ClientState
        /\ queue[s][1] \in Event /\ Head(queue[s]) = queue[s][1]
    BY <1>22 DEF TakeEvent, StreamTypeOK
  <2>2. /\ queue'[s] = Tail(queue[s]) /\ view'[s] = next
        /\ \A t \in Subscribers : t # s => queue'[t] = queue[t] /\ view'[t] = view[t]
        /\ UNCHANGED <<pc, rows, version, log, subscribers, closed, cursor, evictee>>
    BY <1>22, <2>1 DEF TakeEvent, StreamTypeOK, storeVars
  <2>3. Applicable(s) /\ Truthful(s) /\ Complete(s)
    BY DEF Delivery
  <2>4. Linked(Tail(queue[s])) /\ Joins(next, Tail(queue[s])) /\ next.status # "stale"
    BY <2>1, <2>3, LinkedTail, JoinsTail DEF Applicable
  <2> HIDE DEF next
  <2>5. Applicable(s)'
    BY <2>2, <2>4 DEF Applicable
  <2>6. Truthful(s)'
    <3> SUFFICES ASSUME ~closed[s]
                 PROVE  /\ AllCommitted(s, Tail(queue[s]), log)
                        /\ next.status = "ready" => Committed(s, next.version, next.rows, log)
      BY <2>2 DEF Truthful
    <3>1. AllCommitted(s, queue[s], log)
      BY <2>3 DEF Truthful
    <3>2. AllCommitted(s, Tail(queue[s]), log)
      <4>1. /\ Len(Tail(queue[s])) = Len(queue[s]) - 1 /\ Len(queue[s]) \in Nat
            /\ \A i \in 1..Len(Tail(queue[s])) : Tail(queue[s])[i] = queue[s][i + 1]
        BY <2>1
      <4>2. \A i \in 1..Len(Tail(queue[s])) : i + 1 \in 1..Len(queue[s])
        BY <4>1
      <4> QED
        BY <3>1, <4>1, <4>2 DEF AllCommitted
    <3>3. next.status = "ready" => Committed(s, next.version, next.rows, log)
      <4>1. 1 \in 1..Len(queue[s])
        BY <2>1
      <4> QED
        BY <2>1, <3>1, <4>1, ApplyCommitted DEF next, AllCommitted
    <3> QED
      BY <3>2, <3>3
  <2>7. Complete(s)'
    <3> SUFFICES ASSUME s \in subscribers, Reaches(view[s], queue[s], cursor[s])
                 PROVE  Reaches(next, Tail(queue[s]), cursor[s])
      BY <2>2, <2>3 DEF Complete, UnderEviction
    <3>1. queue[s][1].type # "status"
      <4>1. ~closed[s] /\ 1 \in 1..Len(queue[s])
        BY <2>1 DEF RegisteredWhileOpen
      <4> QED
        BY <2>3, <4>1 DEF Truthful, AllCommitted
    <3> QED
      BY <2>1, <2>3, <3>1, ReachesTail DEF Applicable, next
  <2>8. ASSUME NEW t \in Subscribers, t # s
        PROVE  Applicable(t)' /\ Truthful(t)' /\ Complete(t)'
    <3>1. Applicable(t) /\ Truthful(t) /\ Complete(t)
      BY DEF Delivery
    <3>2. UnderEviction(t) <=> UnderEviction(t)'
      BY <2>2 DEF UnderEviction
    <3> QED
      BY <2>2, <2>8, <3>1, <3>2 DEF Applicable, Truthful, Complete
  <2>9. LogMatches'
    BY <2>2 DEF Delivery, LogMatches
  <2> QED
    BY <2>5, <2>6, <2>7, <2>8, <2>9 DEF Delivery
<1>23. ASSUME NEW s \in Subscribers, BeginClose(s) PROVE Delivery'
  <2>1. /\ UNCHANGED <<rows, version, log, queue, view, cursor>>
        /\ subscribers' \subseteq subscribers
        /\ \A t \in Subscribers : closed[t] => closed'[t]
        /\ \A t \in subscribers' : pc[t] = "registered" => pc'[t] = "registered"
    BY <1>23 DEF BeginClose, Goto, storeVars, streamVars
  <2>2. \A n \in Mutators : pc'[n] = "written" <=> pc[n] = "written"
    BY <1>23 DEF BeginClose, Goto
  <2>3. \A t \in subscribers' : UnderEviction(t) => UnderEviction(t)'
    BY <1>23 DEF UnderEviction, BeginClose, Goto
  <2> QED
    BY <2>1, <2>2, <2>3, QuietStep
<1>36. ASSUME NEW s \in Subscribers, InterruptClose(s) PROVE Delivery'
  <2>1. /\ UNCHANGED <<rows, version, log, queue, view, cursor>>
        /\ subscribers' \subseteq subscribers
        /\ \A t \in Subscribers : closed[t] => closed'[t]
        /\ \A t \in subscribers' : pc[t] = "registered" => pc'[t] = "registered"
    BY <1>36 DEF InterruptClose, Goto, storeVars, streamVars
  <2>2. \A n \in Mutators : pc'[n] = "written" <=> pc[n] = "written"
    BY <1>36 DEF InterruptClose, Goto
  <2>3. \A t \in subscribers' : UnderEviction(t) => UnderEviction(t)'
    BY <1>36 DEF UnderEviction, InterruptClose, Goto
  <2> QED
    BY <2>1, <2>2, <2>3, QuietStep
<1>24. ASSUME NEW s \in Subscribers, CloseTakesNotification(s) PROVE Delivery'
  <2>1. /\ UNCHANGED <<rows, version, log, queue, view, cursor>>
        /\ subscribers' \subseteq subscribers
        /\ \A t \in Subscribers : closed[t] => closed'[t]
        /\ \A t \in subscribers' : pc[t] = "registered" => pc'[t] = "registered"
    BY <1>24 DEF CloseTakesNotification, Goto, storeVars, streamVars
  <2>2. \A n \in Mutators : pc'[n] = "written" <=> pc[n] = "written"
    BY <1>24 DEF CloseTakesNotification, Goto
  <2>3. \A t \in subscribers' : UnderEviction(t) => UnderEviction(t)'
    BY <1>24 DEF UnderEviction, CloseTakesNotification, Goto
  <2> QED
    BY <2>1, <2>2, <2>3, QuietStep
<1>25. ASSUME NEW s \in Subscribers, CloseTakesMutation(s) PROVE Delivery'
  <2>1. /\ UNCHANGED <<rows, version, log, queue, view, cursor>>
        /\ subscribers' \subseteq subscribers
        /\ \A t \in Subscribers : closed[t] => closed'[t]
        /\ \A t \in subscribers' : pc[t] = "registered" => pc'[t] = "registered"
    BY <1>25 DEF CloseTakesMutation, Goto, storeVars, streamVars
  <2>2. \A n \in Mutators : pc'[n] = "written" <=> pc[n] = "written"
    BY <1>25 DEF CloseTakesMutation, Goto
  <2>3. \A t \in subscribers' : UnderEviction(t) => UnderEviction(t)'
    BY <1>25 DEF UnderEviction, CloseTakesMutation, Goto
  <2> QED
    BY <2>1, <2>2, <2>3, QuietStep
<1>26. ASSUME NEW s \in Subscribers, FinishClose(s) PROVE Delivery'
  <2>1. /\ UNCHANGED <<rows, version, log, queue, view, cursor, evictee>>
        /\ pc[s] = "finalizing" /\ pc' = [pc EXCEPT ![s] = "done"]
    BY <1>26 DEF FinishClose, Goto, storeVars
  <2>2. /\ subscribers' \subseteq subscribers
        /\ \A t \in Subscribers : closed[t] => closed'[t]
    BY <1>26 DEF FinishClose, StreamTypeOK
  <2>3. /\ \A n \in Mutators : pc'[n] = pc[n]
        /\ \A t \in subscribers' : pc[t] = "registered" => pc'[t] = "registered"
    BY <2>1, <2>2 DEF FiberTypeOK, StreamTypeOK, Fibers
  <2>4. \A t \in subscribers' : UnderEviction(t) => UnderEviction(t)'
    BY <2>1, <2>3 DEF UnderEviction
  <2> QED
    BY <2>1, <2>2, <2>3, <2>4, QuietStep
<1>27. ASSUME NEW a \in Admins, BeginReset(a) PROVE Delivery'
  <2>1. /\ UNCHANGED <<rows, version, log, queue, view, cursor>>
        /\ subscribers' \subseteq subscribers
        /\ \A t \in Subscribers : closed[t] => closed'[t]
        /\ \A t \in subscribers' : pc[t] = "registered" => pc'[t] = "registered"
    BY <1>27 DEF BeginReset, Goto, storeVars, streamVars
  <2>2. \A n \in Mutators : pc'[n] = "written" <=> pc[n] = "written"
    BY <1>27 DEF BeginReset, Goto
  <2>3. \A t \in subscribers' : UnderEviction(t) => UnderEviction(t)'
    BY <1>27 DEF UnderEviction, BeginReset, Goto
  <2> QED
    BY <2>1, <2>2, <2>3, QuietStep
<1>28. ASSUME NEW a \in Admins, BeginEngineClose(a) PROVE Delivery'
  <2>1. /\ UNCHANGED <<rows, version, log, queue, view, cursor>>
        /\ subscribers' \subseteq subscribers
        /\ \A t \in Subscribers : closed[t] => closed'[t]
        /\ \A t \in subscribers' : pc[t] = "registered" => pc'[t] = "registered"
    BY <1>28 DEF BeginEngineClose, Goto, storeVars, streamVars
  <2>2. \A n \in Mutators : pc'[n] = "written" <=> pc[n] = "written"
    BY <1>28 DEF BeginEngineClose, Goto
  <2>3. \A t \in subscribers' : UnderEviction(t) => UnderEviction(t)'
    BY <1>28 DEF UnderEviction, BeginEngineClose, Goto
  <2> QED
    BY <2>1, <2>2, <2>3, QuietStep
<1>29. ASSUME NEW a \in Admins, AdminTakesNotification(a) PROVE Delivery'
  <2>1. /\ UNCHANGED <<rows, version, log, queue, view, cursor>>
        /\ subscribers' \subseteq subscribers
        /\ \A t \in Subscribers : closed[t] => closed'[t]
        /\ \A t \in subscribers' : pc[t] = "registered" => pc'[t] = "registered"
    BY <1>29 DEF AdminTakesNotification, Goto, storeVars, streamVars
  <2>2. \A n \in Mutators : pc'[n] = "written" <=> pc[n] = "written"
    BY <1>29 DEF AdminTakesNotification, Goto
  <2>3. \A t \in subscribers' : UnderEviction(t) => UnderEviction(t)'
    BY <1>29 DEF UnderEviction, AdminTakesNotification, Goto
  <2> QED
    BY <2>1, <2>2, <2>3, QuietStep
<1>30. ASSUME NEW a \in Admins, ResetStore(a) PROVE Delivery'
  <2>1. /\ rows' = Empty /\ version' = 0 /\ log' = <<Empty>> /\ subscribers' = {}
        /\ \A t \in Subscribers : closed'[t] <=> closed[t] \/ t \in subscribers
        /\ UNCHANGED <<queue, cursor, view>>
    BY <1>30 DEF ResetStore, DrainSubscribers, streamVars
  <2>2. LogMatches'
    BY <2>1 DEF LogMatches
  <2>3. ASSUME NEW t \in Subscribers
        PROVE  Applicable(t)' /\ Truthful(t)' /\ Complete(t)'
    <3>1. Applicable(t)' /\ Complete(t)'
      BY <2>1 DEF Delivery, Applicable, Complete
    <3>2. ASSUME ~closed'[t]
          PROVE  queue[t] = <<>> /\ view[t].status # "ready"
      <4>1. ~closed[t] /\ t \notin subscribers
        BY <2>1, <3>2
      <4>2. Fresh(t)
        BY <4>1 DEF RegisteredWhileOpen, DoneIsClosed, Fresh, FiberTypeOK, SubscriberStates
      <4> QED
        <5>1. queue[t] = <<>> /\ view[t] = InitialView(t)
          BY <4>2 DEF FreshIsQuiet
        <5> QED
          BY <5>1 DEF InitialView
    <3>3. AllCommitted(t, <<>>, log')
      BY DEF AllCommitted
    <3> QED
      BY <2>1, <3>1, <3>2, <3>3 DEF Truthful
  <2> QED
    BY <2>2, <2>3 DEF Delivery
<1>31. ASSUME NEW a \in Admins, CloseStore(a) PROVE Delivery'
  <2>1. /\ UNCHANGED <<rows, version, log, queue, view, cursor>>
        /\ subscribers' \subseteq subscribers
        /\ \A t \in Subscribers : closed[t] => closed'[t]
        /\ \A t \in subscribers' : pc[t] = "registered" => pc'[t] = "registered"
    BY <1>31 DEF CloseStore, Goto, DrainSubscribers, storeVars, streamVars
  <2>2. \A n \in Mutators : pc'[n] = "written" <=> pc[n] = "written"
    BY <1>31 DEF CloseStore, Goto, DrainSubscribers
  <2>3. \A t \in subscribers' : UnderEviction(t) => UnderEviction(t)'
    BY <1>31 DEF UnderEviction, CloseStore, Goto, DrainSubscribers
  <2> QED
    BY <2>1, <2>2, <2>3, QuietStep
<1>32. ASSUME NEW a \in Admins, NEW s \in Subscribers, CloseWithStatus(a, s) PROVE Delivery'
  <2>1. s \in Subscribers /\ closed[s] /\ s \notin subscribers
    BY <1>32 DEF CloseWithStatus, DrainedIsClosed, RegisteredWhileOpen
  <2>2. /\ queue'[s] \in {<<>>, <<[type |-> "status"]>>}
        /\ \A t \in Subscribers : t # s => queue'[t] = queue[t]
        /\ UNCHANGED <<rows, version, log, subscribers, cursor, view>>
        /\ \A t \in Subscribers : closed[t] => closed'[t]
    BY <1>32, <2>1 DEF CloseWithStatus, EndWithStatus, storeVars, StreamTypeOK
  <2>3. /\ \A n \in Mutators : pc'[n] = "written" <=> pc[n] = "written"
        /\ \A t \in Subscribers : pc'[t] = pc[t]
    BY <1>32 DEF CloseWithStatus, Goto
  <2>4. \A t \in Subscribers : UnderEviction(t) => UnderEviction(t)'
    BY <1>32 DEF CloseWithStatus, Goto, UnderEviction
  <2>5. LogMatches'
    BY <2>2, <2>3 DEF Delivery, LogMatches
  <2>6. Applicable(s)'
    <3>1. Linked(<<>>) /\ Joins(view[s], <<>>)
      BY DEF Linked, Joins
    <3>2. /\ Linked(<<[type |-> "status"]>>)
          /\ Joins(view[s], <<[type |-> "status"]>>)
      BY DEF Linked, Joins
    <3> QED
      BY <2>1, <2>2, <3>1, <3>2 DEF Delivery, Applicable
  <2>7. Truthful(s)' /\ Complete(s)'
    BY <2>1, <2>2 DEF Truthful, Complete
  <2>8. ASSUME NEW t \in Subscribers, t # s
        PROVE  Applicable(t)' /\ Truthful(t)' /\ Complete(t)'
    <3>1. Applicable(t) /\ Truthful(t) /\ Complete(t)
      BY DEF Delivery
    <3> QED
      BY <2>2, <2>3, <2>4, <2>8, <3>1 DEF Applicable, Truthful, Complete
  <2> QED
    BY <2>5, <2>6, <2>7, <2>8 DEF Delivery
<1>33. ASSUME NEW a \in Admins, EndTransition(a) PROVE Delivery'
  <2>1. /\ UNCHANGED <<rows, version, log, queue, view, cursor>>
        /\ subscribers' \subseteq subscribers
        /\ \A t \in Subscribers : closed[t] => closed'[t]
        /\ \A t \in subscribers' : pc[t] = "registered" => pc'[t] = "registered"
    BY <1>33 DEF EndTransition, Goto, storeVars, streamVars
  <2>2. \A n \in Mutators : pc'[n] = "written" <=> pc[n] = "written"
    BY <1>33 DEF EndTransition, Goto
  <2>3. \A t \in subscribers' : UnderEviction(t) => UnderEviction(t)'
    BY <1>33 DEF UnderEviction, EndTransition, Goto
  <2> QED
    BY <2>1, <2>2, <2>3, QuietStep
<1>34. CASE UNCHANGED vars
  <2>1. \A t \in subscribers' : UnderEviction(t) => UnderEviction(t)'
    BY <1>34 DEF vars, UnderEviction
  <2> QED
    BY <1>34, <2>1, QuietStep DEF vars, storeVars, streamVars
<1> QED
  BY <1>1, <1>2, <1>3, <1>4, <1>5, <1>6, <1>7, <1>8, <1>9, <1>10, <1>11,
     <1>12, <1>13, <1>14, <1>15, <1>16, <1>17, <1>18, <1>19, <1>20, <1>21,
     <1>22, <1>23, <1>24, <1>25, <1>26, <1>27, <1>28, <1>29, <1>30, <1>31,
     <1>32, <1>33, <1>34, <1>35, <1>36
     DEF Next, MutatorStep, SubscribeStep, CloseStep, AdminStep

-------------------------------------------------------------------------------
(* The theorems about delivery. *)

\* Nothing has been delivered to anybody yet.
LEMMA InitDelivery == Init => Delivery
<1> SUFFICES ASSUME Init PROVE Delivery
  OBVIOUS
<1> USE DEF Init
<1>1. LogMatches
  <2>1. Len(<<Empty>>) = 1 /\ <<Empty>>[1] = Empty
    OBVIOUS
  <2> QED
    BY <2>1 DEF LogMatches
<1>2. ASSUME NEW s \in Subscribers PROVE Applicable(s) /\ Truthful(s) /\ Complete(s)
  <2>1. queue[s] = <<>> /\ view[s].status = "loading" /\ s \notin subscribers
    BY DEF InitialView
  <2>2. Linked(<<>>) /\ Joins(view[s], <<>>) /\ AllCommitted(s, <<>>, log)
    BY DEF Linked, Joins, AllCommitted
  <2> QED
    BY <2>1, <2>2 DEF Applicable, Truthful, Complete
<1> QED
  BY <1>1, <1>2 DEF Delivery

\* When no scheduling point falls between a mutation's write and its commit,
\* delivery is complete, in order and true in every reachable state: for any
\* number of mutating fibers, subscriptions, resets and closes.
THEOREM Deliveries ==
  ASSUME ~YieldBeforeCommit
  PROVE  Spec => []Delivery
<1>1. Init => Delivery
  BY InitDelivery
<1>2. IInv /\ Streaming /\ Delivery /\ [Next]_vars => Delivery'
  BY DeliveryStep
<1> QED
  BY <1>1, <1>2, Inductive, StreamDiscipline, PTL DEF Spec

\* Then no client is ever handed a delta it cannot apply.
THEOREM NoStaleClient ==
  ASSUME ~YieldBeforeCommit
  PROVE  Spec => []NeverStale
<1>1. Delivery => NeverStale
  BY DEF Delivery, Applicable, NeverStale
<1> QED
  BY <1>1, Deliveries, PTL

\* And an open subscription's client shows what its query shows of the rows that
\* the version it names committed.
THEOREM ShowsCommitted ==
  ASSUME ~YieldBeforeCommit
  PROVE  Spec => []ResultOfVersion
<1>1. Delivery => ResultOfVersion
  BY DEF Delivery, Truthful, Committed, ResultOfVersion
<1> QED
  BY <1>1, Deliveries, PTL
===============================================================================
