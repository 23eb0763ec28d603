----------------------------- MODULE CronProofs -----------------------------
(***************************************************************************)
(* Proofs about CronScheduler, for any number of replicas, schedule        *)
(* changes, minutes, lease expiries and failures: types, one execution per *)
(* occurrence, and no overlap of scheduled executions.                     *)
(***************************************************************************)
EXTENDS CronScheduler, FiniteSetTheorems, TLAPS

\* The part of TypeOK that is not about handlers, their locks and executions.
RestType ==
  /\ now \in Nat /\ on \in BOOLEAN
  /\ request \in [Requests -> Request]
  /\ leaderKey \in Replicas \cup {NoReplica}
  /\ role \in [Replicas ->
                {"follower", "loading", "leader", "draining", "down"}]
  /\ registered \in [Replicas -> BOOLEAN] /\ listening \in [Replicas -> BOOLEAN]
  /\ inbox \in [Replicas -> Seq(BOOLEAN)] /\ cut \subseteq Replicas
  /\ due \in [Replicas -> Occurrences \cup {0}]
  /\ expiries \in Nat /\ faults \in Nat

\* The other part.  A handler that runs has an occurrence to run for.
HandlersOK ==
  /\ hand \in [Replicas -> Handler]
  /\ \A r \in Replicas : hand[r].pc # "idle" => hand[r].occ \in Occurrences
  /\ fireLocks \subseteq Nat
  /\ overlap \in (Replicas \X Occurrences) \cup {NoLock}
  /\ fired \in [Occurrences -> Nat] /\ bypassed \in BOOLEAN

\* Every handler that is about to enqueue has an execution without a job.
Enqueuing == {r \in Replicas : hand[r].pc = "enqueue"}

Counted ==
  /\ live \in Nat /\ orphan \in Nat
  /\ Cardinality(Enqueuing) <= orphan

\* The handlers that have not inserted their execution.
Before == {"overlap", "load", "heal", "inflight", "insert"}

\* The fire lock of an occurrence is set before its handler goes on, and stays
\* when it ends; so no two handlers are on their way to the same insert.
Once ==
  /\ \A r \in Replicas : hand[r].pc # "idle" => hand[r].occ \in fireLocks
  /\ \A r \in Replicas : hand[r].pc \in Before => fired[hand[r].occ] = 0
  /\ \A r, s \in Replicas : hand[r].pc \in Before /\ hand[s].pc \in Before
                              /\ hand[r].occ = hand[s].occ => r = s
  /\ \A o \in Occurrences : fired[o] > 0 => o \in fireLocks
  /\ OneRunPerOccurrence

\* APScheduler is never early.
DueInTime == \A r \in Replicas : due[r] <= now

\* The handlers that the overlap lock protects.
Inside == {"load", "heal", "inflight", "insert", "enqueue"}

\* Unless Redis raised, a handler inside holds the overlap lock, and it
\* inserts only where nothing is in flight.
Exclusive ==
  ~bypassed =>
    /\ \A r \in Replicas : hand[r].pc \in Inside =>
                             hand[r].own /\ overlap = Token(r)
    /\ \A r \in Replicas : hand[r].pc = "insert" => live + orphan = 0

-----------------------------------------------------------------------------
(***************************************************************************)
(* The two kinds of steps.                                                 *)
(***************************************************************************)

\* The steps that touch neither a handler nor a lock nor an execution ...
Quiet ==
  \/ \E r \in Replicas :
       \/ Acquire(r) \/ AcquireFault(r) \/ LoadSchedules(r) \/ LoadFault(r)
       \/ Restart(r) \/ Reconnect(r) \/ Subscribe(r) \/ ListenerFault(r)
       \/ Refresh(r) \/ Miss(r)
  \/ \E q \in Requests :
       \/ \E v \in BOOLEAN : ChangeSchedule(q, v)
       \/ Publish(q) \/ PublishFault(q) \/ DeleteWorkflow(q)
  \/ LeaseExpires \/ Tick \/ UNCHANGED vars

\* ... and the others.
Loud ==
  \/ \E r \in Replicas :
       \/ \E x : StopsServing(r, x)
       \/ Gone(r) \/ Fire(r) \/ HandlerStep(r) \/ HandlerFault(r)
  \/ OverlapExpires \/ RunEnds \/ ReapOrphan

\* There is no third kind.
LEMMA StepKinds == ASSUME [Next]_vars PROVE Quiet \/ Loud
BY DEF Next, Quiet, Loud, ElectionStep, ElectionFault, LoseLease,
       HeartbeatFault, StepDown, Shutdown, Crash, Drained

\* A quiet step leaves the handlers, locks and executions alone.
LEMMA QuietSteps == ASSUME Quiet PROVE UNCHANGED <<hand, locks, runs>>
BY DEF Quiet, Acquire, AcquireFault, LoadSchedules, LoadFault, Restart,
       Reconnect, Subscribe, ListenerFault, Refresh, Miss, ChangeSchedule,
       Publish, PublishFault, DeleteWorkflow, Announced, LeaseExpires, Tick,
       vars

-----------------------------------------------------------------------------
(***************************************************************************)
(* Types.                                                                  *)
(***************************************************************************)

\* An announcement changes the request and the inboxes of the subscribers.
LEMMA AnnouncedType ==
  ASSUME RestType, NEW q \in Requests, NEW subscribers,
         Announced(q, subscribers)
  PROVE  /\ UNCHANGED <<now, on, leaderKey, role, expiries, cut, listening,
                        registered, due>>
         /\ request' \in [Requests -> Request]
         /\ inbox' \in [Replicas -> Seq(BOOLEAN)]
<1>1. request[q].want \in BOOLEAN
  BY DEF RestType, Request
<1>2. request' \in [Requests -> Request]
  BY DEF RestType, Announced, Handled, Request
<1>3. \A r \in Replicas : Append(inbox[r], request[q].want) \in Seq(BOOLEAN)
  BY <1>1 DEF RestType
<1>4. inbox' \in [Replicas -> Seq(BOOLEAN)]
  BY <1>3 DEF RestType, Announced
<1> QED
  BY <1>2, <1>4 DEF Announced, lease, cron

\* The election, the schedule and the refresh channel keep their types.
LEMMA RestTypeStep ==
  ASSUME RestType, [Next]_vars
  PROVE  RestType'
<1> USE ConstantsAssumption DEF RestType, environment, lease, cron, channel
<1>1. ASSUME NEW r \in Replicas, Acquire(r) PROVE RestType'
  BY <1>1 DEF Acquire
<1>2. ASSUME NEW r \in Replicas, AcquireFault(r) PROVE RestType'
  BY <1>2 DEF AcquireFault, RedisFault, Fault
<1>3. ASSUME NEW r \in Replicas, LoadSchedules(r) PROVE RestType'
  BY <1>3 DEF LoadSchedules, SetJob
<1>4. ASSUME NEW r \in Replicas, LoadFault(r) PROVE RestType'
  BY <1>4 DEF LoadFault, Fault
<1>5. ASSUME NEW r \in Replicas, LoseLease(r) PROVE RestType'
  BY <1>5 DEF LoseLease, StepDown, StopsServing, SetJob, To
<1>6. ASSUME NEW r \in Replicas, HeartbeatFault(r) PROVE RestType'
  BY <1>6 DEF HeartbeatFault, RedisFault, Fault, StepDown, StopsServing,
     SetJob, To
<1>7. ASSUME NEW r \in Replicas, Shutdown(r) PROVE RestType'
  BY <1>7 DEF Shutdown, Fault, StopsServing, SetJob, To
<1>8. ASSUME NEW r \in Replicas, Drained(r) PROVE RestType'
  BY <1>8 DEF Drained, Gone, SetJob, Idle
<1>9. ASSUME NEW r \in Replicas, Crash(r) PROVE RestType'
  BY <1>9 DEF Crash, Fault, Gone, SetJob, Idle
<1>10. ASSUME NEW r \in Replicas, Restart(r) PROVE RestType'
  BY <1>10 DEF Restart
<1>11. ASSUME NEW r \in Replicas, Reconnect(r) PROVE RestType'
  BY <1>11 DEF Reconnect
<1>12. ASSUME NEW r \in Replicas, Subscribe(r) PROVE RestType'
  BY <1>12 DEF Subscribe
<1>13. ASSUME NEW r \in Replicas, ListenerFault(r) PROVE RestType'
  BY <1>13 DEF ListenerFault, Fault
<1>14. ASSUME NEW r \in Replicas, Refresh(r) PROVE RestType'
  BY <1>14 DEF Refresh, SetJob
<1>15. ASSUME NEW r \in Replicas, Miss(r) PROVE RestType'
  BY <1>15 DEF Miss
<1>16. ASSUME NEW r \in Replicas, Fire(r) PROVE RestType'
  BY <1>16 DEF Fire, Starts, Begun
<1>17. ASSUME NEW r \in Replicas, FireFault(r) PROVE RestType'
  BY <1>17 DEF FireFault, Starts, RedisFault, Fault
<1>18. ASSUME NEW r \in Replicas, TakeOverlap(r) PROVE RestType'
  BY <1>18 DEF TakeOverlap, Token, Idle, HandlerFrame
<1>19. ASSUME NEW r \in Replicas, OverlapFault(r) PROVE RestType'
  BY <1>19 DEF OverlapFault, RedisFault, Fault, Token, To, HandlerFrame
<1>20. ASSUME NEW r \in Replicas, LoadWorkflow(r) PROVE RestType'
  BY <1>20 DEF LoadWorkflow, To, HandlerFrame
<1>21. ASSUME NEW r \in Replicas, SelfHeal(r) PROVE RestType'
  BY <1>21 DEF SelfHeal, SetJob, To, HandlerFrame
<1>22. ASSUME NEW r \in Replicas, CheckInflight(r) PROVE RestType'
  BY <1>22 DEF CheckInflight, To, HandlerFrame
<1>23. ASSUME NEW r \in Replicas, ReadFault(r) PROVE RestType'
  BY <1>23 DEF ReadFault, Fault, To, HandlerFrame
<1>24. ASSUME NEW r \in Replicas, InsertExecution(r) PROVE RestType'
  BY <1>24 DEF InsertExecution, Inserted, To, HandlerFrame
<1>25. ASSUME NEW r \in Replicas, InsertFault(r) PROVE RestType'
  BY <1>25 DEF InsertFault, Fault, Inserted, To, HandlerFrame
<1>26. ASSUME NEW r \in Replicas, EnqueueRun(r) PROVE RestType'
  BY <1>26 DEF EnqueueRun, GetsJob, To, HandlerFrame
<1>27. ASSUME NEW r \in Replicas, EnqueueFault(r) PROVE RestType'
  BY <1>27 DEF EnqueueFault, Fault, GetsJob, To, HandlerFrame
<1>28. ASSUME NEW r \in Replicas, ReleaseOverlap(r) PROVE RestType'
  BY <1>28 DEF ReleaseOverlap, Idle, HandlerFrame
<1>29. ASSUME NEW r \in Replicas, ReleaseFault(r) PROVE RestType'
  BY <1>29 DEF ReleaseFault, RedisFault, Fault, Idle, HandlerFrame
<1>30. ASSUME NEW q \in Requests, NEW v \in BOOLEAN, ChangeSchedule(q, v)
      PROVE  RestType'
  BY <1>30 DEF ChangeSchedule, Request
<1>31. ASSUME NEW q \in Requests, Publish(q) PROVE RestType'
  <2>1. Announced(q, {r \in Replicas : listening[r]})
    BY <1>31 DEF Publish
  <2>2. faults' \in Nat
    BY <1>31 DEF Publish
  <2> QED
    BY <2>1, <2>2, AnnouncedType
<1>32. ASSUME NEW q \in Requests, PublishFault(q) PROVE RestType'
  <2>1. Announced(q, {})
    BY <1>32 DEF PublishFault
  <2>2. faults' \in Nat
    BY <1>32 DEF PublishFault, Fault
  <2> QED
    BY <2>1, <2>2, AnnouncedType
<1>33. ASSUME NEW q \in Requests, DeleteWorkflow(q) PROVE RestType'
  BY <1>33 DEF DeleteWorkflow, Handled, Request
<1>34. CASE LeaseExpires
  BY <1>34 DEF LeaseExpires
<1>35. CASE Tick
  BY <1>35 DEF Tick
<1>36. CASE OverlapExpires
  BY <1>36 DEF OverlapExpires
<1>37. CASE RunEnds
  BY <1>37 DEF RunEnds
<1>38. CASE ReapOrphan
  BY <1>38 DEF ReapOrphan
<1>39. CASE UNCHANGED vars
  BY <1>39 DEF vars
<1> QED
  BY <1>1, <1>2, <1>3, <1>4, <1>5, <1>6, <1>7, <1>8, <1>9, <1>10, <1>11,
     <1>12, <1>13, <1>14, <1>15, <1>16, <1>17, <1>18, <1>19, <1>20, <1>21,
     <1>22, <1>23, <1>24, <1>25, <1>26, <1>27, <1>28, <1>29, <1>30, <1>31,
     <1>32, <1>33, <1>34, <1>35, <1>36, <1>37, <1>38, <1>39 DEF Next,
     ElectionStep, ElectionFault, HandlerStep, HandlerFault

\* One handler gets a new record.
LEMMA HandSet ==
  ASSUME HandlersOK, NEW r \in Replicas, NEW h \in Handler,
         h.pc # "idle" => h.occ \in Occurrences,
         hand' = [hand EXCEPT ![r] = h]
  PROVE  /\ hand' \in [Replicas -> Handler]
         /\ \A s \in Replicas :
              hand'[s].pc # "idle" => hand'[s].occ \in Occurrences
BY DEF HandlersOK

\* So do the handlers.
LEMMA HandlersStep ==
  ASSUME RestType, HandlersOK, [Next]_vars
  PROVE  HandlersOK'
<1> USE DEF HandlersOK, Handler, Pcs
<1>1. CASE Quiet
  BY <1>1, QuietSteps DEF locks, runs
<1>2. ASSUME NEW r \in Replicas, NEW x, StopsServing(r, x) PROVE HandlersOK'
  <2>0. UNCHANGED <<fireLocks, overlap, fired, bypassed>>
    BY <1>2 DEF StopsServing, locks, runs
  <2>1. CASE hand[r].pc = "idle"
    BY <1>2, <2>0, <2>1 DEF StopsServing
  <2>2. CASE hand[r].pc # "idle"
    <3>1. To(r, "release")
      BY <1>2, <2>2 DEF StopsServing
    <3> QED
      BY <2>0, <2>2, <3>1 DEF To
  <2> QED
    BY <2>1, <2>2
<1>3. ASSUME NEW r \in Replicas, Gone(r) PROVE HandlersOK'
  BY <1>3 DEF Gone, SetJob, Idle, locks, runs
<1>4. ASSUME NEW r \in Replicas, Fire(r) PROVE HandlersOK'
  <2>0. due[r] \in Occurrences /\ now \in Nat
    BY <1>4 DEF Fire, Starts, RestType
  <2>1. CASE r \in cut \/ now \in fireLocks
    BY <1>4, <2>1 DEF Fire, Starts, runs
  <2>2. CASE ~(r \in cut \/ now \in fireLocks)
    <3>1. Begun(r) \in Handler /\ Begun(r).occ \in Occurrences
      BY <2>0 DEF Begun
    <3>2. hand' = [hand EXCEPT ![r] = Begun(r)] /\ UNCHANGED <<overlap, runs>>
      BY <1>4, <2>2 DEF Fire, Starts
    <3>3. fireLocks' = fireLocks \cup {now}
      BY <1>4, <2>2 DEF Fire
    <3> QED
      BY <2>0, <3>1, <3>2, <3>3, HandSet DEF runs
  <2> QED
    BY <2>1, <2>2
<1>5. ASSUME NEW r \in Replicas, FireFault(r) PROVE HandlersOK'
  BY <1>5 DEF FireFault, Starts, RestType, runs
<1>6. ASSUME NEW r \in Replicas, TakeOverlap(r) PROVE HandlersOK'
  <2>1. CASE overlap = NoLock
    BY <1>6, <2>1 DEF TakeOverlap, Token, HandlerFrame, runs
  <2>2. CASE overlap # NoLock
    <3>1. hand' = [hand EXCEPT ![r] = Idle] /\ UNCHANGED <<fireLocks, overlap>>
      BY <1>6, <2>2 DEF TakeOverlap, HandlerFrame
    <3> QED
      BY <1>6, <3>1, HandSet DEF TakeOverlap, Idle, runs
  <2> QED
    BY <2>1, <2>2
<1>7. ASSUME NEW r \in Replicas, OverlapFault(r) PROVE HandlersOK'
  BY <1>7 DEF OverlapFault, RedisFault, Fault, Token, To, HandlerFrame, runs
<1>8. ASSUME NEW r \in Replicas, LoadWorkflow(r) PROVE HandlersOK'
  BY <1>8 DEF LoadWorkflow, To, HandlerFrame, runs
<1>9. ASSUME NEW r \in Replicas, SelfHeal(r) PROVE HandlersOK'
  BY <1>9 DEF SelfHeal, SetJob, To, HandlerFrame, runs
<1>10. ASSUME NEW r \in Replicas, CheckInflight(r) PROVE HandlersOK'
  <2>1. CASE live + orphan = 0 /\ To(r, "insert")
    BY <1>10, <2>1 DEF CheckInflight, To, HandlerFrame, runs
  <2>2. CASE To(r, "release")
    BY <1>10, <2>2 DEF CheckInflight, To, HandlerFrame, runs
  <2> QED
    BY <1>10, <2>1, <2>2 DEF CheckInflight
<1>11. ASSUME NEW r \in Replicas, ReadFault(r) PROVE HandlersOK'
  BY <1>11 DEF ReadFault, Fault, To, HandlerFrame, runs
<1>12. ASSUME NEW r \in Replicas, InsertExecution(r) PROVE HandlersOK'
  BY <1>12 DEF InsertExecution, Inserted, To, HandlerFrame, runs
<1>13. ASSUME NEW r \in Replicas, InsertFault(r) PROVE HandlersOK'
  BY <1>13 DEF InsertFault, Fault, Inserted, To, HandlerFrame, runs
<1>14. ASSUME NEW r \in Replicas, EnqueueRun(r) PROVE HandlersOK'
  BY <1>14 DEF EnqueueRun, GetsJob, To, HandlerFrame, runs
<1>15. ASSUME NEW r \in Replicas, EnqueueFault(r) PROVE HandlersOK'
  BY <1>15 DEF EnqueueFault, Fault, GetsJob, To, HandlerFrame, runs
<1>16. ASSUME NEW r \in Replicas, ReleaseOverlap(r) PROVE HandlersOK'
  BY <1>16 DEF ReleaseOverlap, Idle, HandlerFrame, runs
<1>17. ASSUME NEW r \in Replicas, ReleaseFault(r) PROVE HandlersOK'
  BY <1>17 DEF ReleaseFault, RedisFault, Fault, Idle, HandlerFrame, runs
<1>18. CASE OverlapExpires
  BY <1>18 DEF OverlapExpires, locks, runs
<1>19. CASE RunEnds
  BY <1>19 DEF RunEnds, locks, runs
<1>20. CASE ReapOrphan
  BY <1>20 DEF ReapOrphan, locks, runs
<1> QED
  BY StepKinds, <1>1, <1>2, <1>3, <1>4, <1>5, <1>6, <1>7, <1>8, <1>9, <1>10,
     <1>11, <1>12, <1>13, <1>14, <1>15, <1>16, <1>17, <1>18, <1>19, <1>20 DEF
     Loud, HandlerStep, HandlerFault

\* Handlers can be counted.
LEMMA EnqueuingFinite ==
  IsFiniteSet(Enqueuing) /\ Cardinality(Enqueuing) \in Nat
<1>1. Enqueuing \in SUBSET Replicas
  BY DEF Enqueuing
<1> QED
  BY <1>1, ConstantsAssumption, FS_Subset, FS_CardinalityType

\* Handlers that leave their enqueue to others do no harm.
LEMMA Fewer ==
  ASSUME Counted, Enqueuing' \subseteq Enqueuing, live' \in Nat,
         orphan' \in {orphan, orphan + 1}
  PROVE  Counted'
<1>1. Cardinality(Enqueuing') <= Cardinality(Enqueuing)
  BY EnqueuingFinite, FS_Subset
<1>2. Cardinality(Enqueuing') \in Nat
  BY EnqueuingFinite, FS_Subset, FS_CardinalityType
<1> QED
  BY <1>1, <1>2, EnqueuingFinite DEF Counted

\* An execution without a job is there for every handler that will enqueue.
LEMMA CountedStep ==
  ASSUME HandlersOK, HandlersOK', Counted, [Next]_vars
  PROVE  Counted'
<1>0. live \in Nat /\ orphan \in Nat
  BY DEF Counted
<1> USE <1>0 DEF Handler
<1>1. CASE Quiet
  BY <1>1, QuietSteps, Fewer DEF Enqueuing, runs
<1>2. ASSUME NEW r \in Replicas, NEW x, StopsServing(r, x) PROVE Counted'
  <2>1. CASE hand[r].pc = "idle"
    BY <1>2, <2>1, Fewer DEF Enqueuing, StopsServing, runs
  <2>2. CASE hand[r].pc # "idle"
    <3>1. To(r, "release")
      BY <1>2, <2>2 DEF StopsServing
    <3> QED
      BY <1>2, <3>1, Fewer DEF Enqueuing, HandlersOK, StopsServing, To, runs
  <2> QED
    BY <2>1, <2>2
<1>3. ASSUME NEW r \in Replicas, Gone(r) PROVE Counted'
  BY <1>3, Fewer DEF Enqueuing, HandlersOK, Gone, SetJob, Idle, runs
<1>4. ASSUME NEW r \in Replicas, Fire(r) PROVE Counted'
  BY <1>4, Fewer DEF Enqueuing, HandlersOK, Fire, Starts, Begun, runs
<1>5. ASSUME NEW r \in Replicas, FireFault(r) PROVE Counted'
  BY <1>5, Fewer DEF Enqueuing, HandlersOK, FireFault, Starts, RedisFault,
     Fault, runs
<1>6. ASSUME NEW r \in Replicas, TakeOverlap(r) PROVE Counted'
  BY <1>6, Fewer DEF Enqueuing, HandlersOK, TakeOverlap, Token, Idle,
     HandlerFrame, runs
<1>7. ASSUME NEW r \in Replicas, OverlapFault(r) PROVE Counted'
  BY <1>7, Fewer DEF Enqueuing, HandlersOK, OverlapFault, RedisFault, Fault,
     Token, To, HandlerFrame, runs
<1>8. ASSUME NEW r \in Replicas, LoadWorkflow(r) PROVE Counted'
  BY <1>8, Fewer DEF Enqueuing, HandlersOK, LoadWorkflow, To, HandlerFrame,
     runs
<1>9. ASSUME NEW r \in Replicas, SelfHeal(r) PROVE Counted'
  BY <1>9, Fewer DEF Enqueuing, HandlersOK, SelfHeal, SetJob, To,
     HandlerFrame, runs
<1>10. ASSUME NEW r \in Replicas, CheckInflight(r) PROVE Counted'
  BY <1>10, Fewer DEF Enqueuing, HandlersOK, CheckInflight, To, HandlerFrame,
     runs
<1>11. ASSUME NEW r \in Replicas, ReadFault(r) PROVE Counted'
  BY <1>11, Fewer DEF Enqueuing, HandlersOK, ReadFault, Fault, To,
     HandlerFrame, runs
<1>12. ASSUME NEW r \in Replicas, InsertExecution(r) PROVE Counted'
  <2>1. Enqueuing' = Enqueuing \cup {r} /\ r \notin Enqueuing
    BY <1>12 DEF InsertExecution, To, Enqueuing, HandlersOK
  <2>2. Cardinality(Enqueuing') = Cardinality(Enqueuing) + 1
    BY <2>1, EnqueuingFinite, FS_AddElement
  <2> QED
    BY <1>12, <2>2, EnqueuingFinite DEF InsertExecution, Inserted, Counted
<1>13. ASSUME NEW r \in Replicas, InsertFault(r) PROVE Counted'
  BY <1>13, Fewer DEF Enqueuing, HandlersOK, InsertFault, Fault, Inserted, To,
     HandlerFrame, runs
<1>14. ASSUME NEW r \in Replicas, EnqueueRun(r) PROVE Counted'
  <2>1. Enqueuing' = Enqueuing \ {r} /\ r \in Enqueuing
    BY <1>14 DEF EnqueueRun, To, Enqueuing, HandlersOK
  <2>2. Cardinality(Enqueuing') = Cardinality(Enqueuing) - 1
    BY <2>1, EnqueuingFinite, FS_RemoveElement
  <2>3. Cardinality(Enqueuing) > 0
    BY <2>1, EnqueuingFinite, FS_EmptySet
  <2> QED
    BY <1>14, <2>2, <2>3, EnqueuingFinite DEF EnqueueRun, GetsJob, Counted
<1>15. ASSUME NEW r \in Replicas, EnqueueFault(r) PROVE Counted'
  <2>1. Enqueuing' = Enqueuing \ {r} /\ r \in Enqueuing
    BY <1>15 DEF EnqueueFault, To, Enqueuing, HandlersOK
  <2>2. Cardinality(Enqueuing') = Cardinality(Enqueuing) - 1
    BY <2>1, EnqueuingFinite, FS_RemoveElement
  <2>3. Cardinality(Enqueuing) > 0
    BY <2>1, EnqueuingFinite, FS_EmptySet
  <2> QED
    BY <1>15, <2>2, <2>3, EnqueuingFinite DEF EnqueueFault, GetsJob, Counted
<1>16. ASSUME NEW r \in Replicas, ReleaseOverlap(r) PROVE Counted'
  BY <1>16, Fewer DEF Enqueuing, HandlersOK, ReleaseOverlap, Idle,
     HandlerFrame, runs
<1>17. ASSUME NEW r \in Replicas, ReleaseFault(r) PROVE Counted'
  BY <1>17, Fewer DEF Enqueuing, HandlersOK, ReleaseFault, RedisFault, Fault,
     Idle, HandlerFrame, runs
<1>18. CASE OverlapExpires
  BY <1>18, Fewer DEF OverlapExpires, Enqueuing, runs
<1>19. CASE RunEnds
  BY <1>19, Fewer DEF RunEnds, Enqueuing, Counted
<1>20. CASE ReapOrphan
  <2>1. Enqueuing' = {}
    BY <1>20 DEF ReapOrphan, Enqueuing
  <2> QED
    BY <1>20, <2>1, FS_EmptySet DEF ReapOrphan, Counted
<1> QED
  BY StepKinds, <1>1, <1>2, <1>3, <1>4, <1>5, <1>6, <1>7, <1>8, <1>9, <1>10,
     <1>11, <1>12, <1>13, <1>14, <1>15, <1>16, <1>17, <1>18, <1>19, <1>20 DEF
     Loud, HandlerStep, HandlerFault

\* A job is due at a minute.
LEMMA DueType ==
  ASSUME RestType, NEW r \in Replicas
  PROVE  due[r] \in Nat
<1>1. due[r] \in Occurrences \cup {0}
  BY DEF RestType
<1>2. Occurrences \subseteq Nat
  BY ConstantsAssumption
<1>3. CASE due[r] = 0
  BY <1>3
<1>4. CASE due[r] \in Occurrences
  BY <1>2, <1>4
<1> QED
  BY <1>1, <1>3, <1>4

\* Of all steps only Tick makes a job due, for the new minute.
LEMMA DueStep ==
  ASSUME RestType, RestType', DueInTime, [Next]_vars
  PROVE  DueInTime'
<1>0. now \in Nat /\ \A s \in Replicas : due[s] \in Nat
  BY DueType DEF RestType
<1>1. CASE Tick
  <2>1. now' = now + 1
    BY <1>1 DEF Tick
  <2>2. \A s \in Replicas : due'[s] \in {now', due[s]}
    BY <1>1 DEF Tick
  <2> QED
    BY <1>0, <2>1, <2>2 DEF DueInTime
<1>2. CASE ~Tick
  <2>1. now' = now
    BY <1>2 DEF Next, ElectionStep, ElectionFault, HandlerStep, HandlerFault,
     Acquire, AcquireFault, LoadSchedules, SetJob, LoadFault, LoseLease,
     StepDown, StopsServing, HeartbeatFault, Shutdown, Drained, Gone, Crash,
     Restart, Reconnect, Subscribe,
     ListenerFault, Refresh, Miss, Fire, Starts, FireFault, TakeOverlap,
     OverlapFault, LoadWorkflow, SelfHeal, CheckInflight, ReadFault,
     InsertExecution, InsertFault, EnqueueRun, EnqueueFault, ReleaseOverlap,
     ReleaseFault, ChangeSchedule, Publish, PublishFault, DeleteWorkflow,
     Announced,
     LeaseExpires, OverlapExpires, RunEnds, ReapOrphan, HandlerFrame,
     environment, cron, vars
  <2>2. \/ due' = due
        \/ \E x \in Replicas : due' = [due EXCEPT ![x] = 0]
    BY <1>2 DEF Next, ElectionStep, ElectionFault, HandlerStep,
     HandlerFault,
     Acquire, AcquireFault, LoadSchedules, SetJob, LoadFault, LoseLease,
     StepDown, StopsServing, HeartbeatFault, Shutdown, Drained, Gone, Crash,
     Restart, Reconnect, Subscribe,
     ListenerFault, Refresh, Miss, Fire, Starts, FireFault, TakeOverlap,
     OverlapFault, LoadWorkflow, SelfHeal, CheckInflight, ReadFault,
     InsertExecution, InsertFault, EnqueueRun, EnqueueFault, ReleaseOverlap,
     ReleaseFault, ChangeSchedule, Publish, PublishFault, DeleteWorkflow,
     Announced,
     LeaseExpires, OverlapExpires, RunEnds, ReapOrphan, HandlerFrame,
     environment, cron, vars
  <2>3. \A s \in Replicas : due'[s] \in {0, due[s]}
    BY <2>2 DEF RestType
  <2> QED
    BY <1>0, <2>1, <2>3 DEF DueInTime
<1> QED
  BY <1>1, <1>2

\* The handler starts in the minute of its occurrence.
LEMMA FireMinute ==
  ASSUME RestType, DueInTime, Grace = 0, NEW r \in Replicas, Starts(r)
  PROVE  due[r] = now
<1>1. due[r] \in Nat /\ now \in Nat
  BY DueType DEF RestType
<1> QED
  BY <1>1 DEF Starts, DueInTime

\* One insert per occurrence: with no grace beyond the minute, the key of the
\* fire lock names the occurrence.
LEMMA OnceStep ==
  ASSUME RestType, HandlersOK, HandlersOK', DueInTime, Once, Grace = 0,
         [Next]_vars
  PROVE  Once'
<1> USE DEF HandlersOK, Handler, Pcs, Once, Before, OneRunPerOccurrence
<1>1. CASE Quiet
  BY <1>1, QuietSteps DEF locks, runs
<1>2. ASSUME NEW r \in Replicas, NEW x, StopsServing(r, x) PROVE Once'
  <2>0. UNCHANGED <<fireLocks, fired>>
    BY <1>2 DEF StopsServing, locks, runs
  <2>1. CASE hand[r].pc = "idle"
    BY <1>2, <2>0, <2>1 DEF StopsServing
  <2>2. CASE hand[r].pc # "idle"
    <3>1. To(r, "release")
      BY <1>2, <2>2 DEF StopsServing
    <3> QED
      BY <2>0, <2>2, <3>1 DEF To
  <2> QED
    BY <2>1, <2>2
<1>3. ASSUME NEW r \in Replicas, Gone(r) PROVE Once'
  BY <1>3 DEF Gone, SetJob, Idle, locks, runs
<1>4. ASSUME NEW r \in Replicas, Fire(r) PROVE Once'
  <2>1. CASE r \in cut \/ now \in fireLocks
    BY <1>4, <2>1 DEF Fire, Starts, runs
  <2>2. CASE ~(r \in cut \/ now \in fireLocks)
    <3>1. due[r] = now
      BY <1>4, FireMinute DEF Fire
    <3>2. /\ hand' = [hand EXCEPT ![r] = Begun(r)]
          /\ fireLocks' = fireLocks \cup {now} /\ now \notin fireLocks
          /\ UNCHANGED fired
      BY <1>4, <2>2 DEF Fire, Starts, runs
    <3>3. hand'[r].pc = "overlap" /\ hand'[r].occ = now
      BY <3>1, <3>2 DEF Begun
    <3>4. \A s \in Replicas \ {r} : hand'[s] = hand[s]
      BY <3>2
    <3>5. now \in Occurrences /\ fired[now] = 0
      BY <3>2, <3>3
    <3> QED
      BY <3>2, <3>3, <3>4, <3>5
  <2> QED
    BY <2>1, <2>2
<1>5. ASSUME NEW r \in Replicas, FireFault(r) PROVE Once'
  BY <1>5 DEF FireFault, Starts, RestType, runs
<1>6. ASSUME NEW r \in Replicas, TakeOverlap(r) PROVE Once'
  <2>1. CASE overlap = NoLock
    BY <1>6, <2>1 DEF TakeOverlap, Token, HandlerFrame, runs
  <2>2. CASE overlap # NoLock
    <3>1. hand' = [hand EXCEPT ![r] = Idle] /\ UNCHANGED <<fireLocks, fired>>
      BY <1>6, <2>2 DEF TakeOverlap, HandlerFrame, runs
    <3> QED
      BY <3>1 DEF Idle
  <2> QED
    BY <2>1, <2>2
<1>7. ASSUME NEW r \in Replicas, OverlapFault(r) PROVE Once'
  BY <1>7 DEF OverlapFault, RedisFault, Fault, Token, To, HandlerFrame, runs
<1>8. ASSUME NEW r \in Replicas, LoadWorkflow(r) PROVE Once'
  BY <1>8 DEF LoadWorkflow, To, HandlerFrame, runs
<1>9. ASSUME NEW r \in Replicas, SelfHeal(r) PROVE Once'
  BY <1>9 DEF SelfHeal, SetJob, To, HandlerFrame, runs
<1>10. ASSUME NEW r \in Replicas, CheckInflight(r) PROVE Once'
  <2>1. CASE live + orphan = 0 /\ To(r, "insert")
    BY <1>10, <2>1 DEF CheckInflight, To, HandlerFrame, runs
  <2>2. CASE To(r, "release")
    BY <1>10, <2>2 DEF CheckInflight, To, HandlerFrame, runs
  <2> QED
    BY <1>10, <2>1, <2>2 DEF CheckInflight
<1>11. ASSUME NEW r \in Replicas, ReadFault(r) PROVE Once'
  BY <1>11 DEF ReadFault, Fault, To, HandlerFrame, runs
<1>12. ASSUME NEW r \in Replicas, InsertExecution(r) PROVE Once'
  BY <1>12 DEF InsertExecution, Inserted, To, HandlerFrame, runs
<1>13. ASSUME NEW r \in Replicas, InsertFault(r) PROVE Once'
  BY <1>13 DEF InsertFault, Fault, Inserted, To, HandlerFrame, runs
<1>14. ASSUME NEW r \in Replicas, EnqueueRun(r) PROVE Once'
  BY <1>14 DEF EnqueueRun, GetsJob, To, HandlerFrame, runs
<1>15. ASSUME NEW r \in Replicas, EnqueueFault(r) PROVE Once'
  BY <1>15 DEF EnqueueFault, Fault, GetsJob, To, HandlerFrame, runs
<1>16. ASSUME NEW r \in Replicas, ReleaseOverlap(r) PROVE Once'
  BY <1>16 DEF ReleaseOverlap, Idle, HandlerFrame, runs
<1>17. ASSUME NEW r \in Replicas, ReleaseFault(r) PROVE Once'
  BY <1>17 DEF ReleaseFault, RedisFault, Fault, Idle, HandlerFrame, runs
<1>18. CASE OverlapExpires
  BY <1>18 DEF OverlapExpires, locks, runs
<1>19. CASE RunEnds
  BY <1>19 DEF RunEnds, locks, runs
<1>20. CASE ReapOrphan
  BY <1>20 DEF ReapOrphan, locks, runs
<1> QED
  BY StepKinds, <1>1, <1>2, <1>3, <1>4, <1>5, <1>6, <1>7, <1>8, <1>9, <1>10,
     <1>11, <1>12, <1>13, <1>14, <1>15, <1>16, <1>17, <1>18, <1>19, <1>20 DEF
     Loud, HandlerStep, HandlerFault

\* The stuck sweep resumes or fails a run, it adds none.
LEMMA ReapKeeps ==
  ASSUME Counted, NoOverlap, ReapOrphan
  PROVE  NoOverlap'
<1>1. live \in Nat /\ orphan \in Nat /\ orphan' = orphan - 1
  BY DEF Counted, ReapOrphan
<1>2. live' = live \/ live' = live + 1
  BY DEF ReapOrphan
<1>3. live' + orphan' <= live + orphan
  BY <1>1, <1>2
<1>4. UNCHANGED bypassed
  BY DEF ReapOrphan
<1> QED
  BY <1>1, <1>2, <1>3, <1>4 DEF NoOverlap

\* The token of a handler is told from no lock.
LEMMA TokenIsALock ==
  ASSUME HandlersOK, NEW r \in Replicas, hand[r].pc # "idle"
  PROVE  Token(r) # NoLock
<1>1. hand[r].occ \in Nat
  BY ConstantsAssumption DEF HandlersOK
<1> QED
  BY <1>1, ConstantsAssumption DEF Token

\* The overlap lock and the query for runs in flight together.
LEMMA ExclusiveStep ==
  ASSUME HandlersOK, HandlersOK', Counted, Counted', Exclusive, NoOverlap,
         [Next]_vars
  PROVE  Exclusive' /\ NoOverlap'
<1> USE DEF HandlersOK, Handler, Pcs, Counted, Exclusive, Inside, NoOverlap,
        Token
<1>1. CASE Quiet
  BY <1>1, QuietSteps DEF locks, runs
<1>2. ASSUME NEW r \in Replicas, NEW x, StopsServing(r, x)
      PROVE  Exclusive' /\ NoOverlap'
  <2>1. CASE hand[r].pc = "idle"
    BY <1>2, <2>1 DEF StopsServing, locks, runs
  <2>2. CASE hand[r].pc # "idle"
    BY <1>2, <2>2 DEF StopsServing, To, locks, runs
  <2> QED
    BY <2>1, <2>2
<1>3. ASSUME NEW r \in Replicas, Gone(r) PROVE Exclusive' /\ NoOverlap'
  BY <1>3 DEF Gone, SetJob, Idle, locks, runs
<1>4. ASSUME NEW r \in Replicas, Fire(r) PROVE Exclusive' /\ NoOverlap'
  <2>1. CASE r \in cut \/ now \in fireLocks
    BY <1>4, <2>1 DEF Fire, Starts, runs
  <2>2. CASE ~(r \in cut \/ now \in fireLocks)
    BY <1>4, <2>2 DEF Fire, Starts, Begun, runs
  <2> QED
    BY <2>1, <2>2
<1>5. ASSUME NEW r \in Replicas, FireFault(r) PROVE Exclusive' /\ NoOverlap'
  BY <1>5 DEF FireFault, Starts, RedisFault, Fault, runs
<1>6. ASSUME NEW r \in Replicas, TakeOverlap(r) PROVE Exclusive' /\ NoOverlap'
  <2>1. CASE overlap = NoLock
    <3>1. /\ overlap' = Token(r)
          /\ hand' = [hand EXCEPT ![r].pc = "load", ![r].own = TRUE]
      BY <1>6, <2>1 DEF TakeOverlap
    <3>2. ~bypassed => \A s \in Replicas : hand[s].pc \notin Inside
      BY <2>1, TokenIsALock
    <3> QED
      BY <1>6, <3>1, <3>2 DEF TakeOverlap, HandlerFrame, runs
  <2>2. CASE overlap # NoLock
    BY <1>6, <2>2 DEF TakeOverlap, Idle, HandlerFrame, runs
  <2> QED
    BY <2>1, <2>2
<1>7. ASSUME NEW r \in Replicas, OverlapFault(r) PROVE Exclusive' /\ NoOverlap'
  BY <1>7 DEF OverlapFault, RedisFault, Fault, Token, To, HandlerFrame, runs
<1>8. ASSUME NEW r \in Replicas, LoadWorkflow(r) PROVE Exclusive' /\ NoOverlap'
  BY <1>8 DEF LoadWorkflow, To, HandlerFrame, runs
<1>9. ASSUME NEW r \in Replicas, SelfHeal(r) PROVE Exclusive' /\ NoOverlap'
  BY <1>9 DEF SelfHeal, SetJob, To, HandlerFrame, runs
<1>10. ASSUME NEW r \in Replicas, CheckInflight(r)
      PROVE  Exclusive' /\ NoOverlap'
  <2>1. CASE live + orphan = 0 /\ To(r, "insert")
    BY <1>10, <2>1 DEF CheckInflight, To, HandlerFrame, runs
  <2>2. CASE To(r, "release")
    BY <1>10, <2>2 DEF CheckInflight, To, HandlerFrame, runs
  <2> QED
    BY <1>10, <2>1, <2>2 DEF CheckInflight
<1>11. ASSUME NEW r \in Replicas, ReadFault(r) PROVE Exclusive' /\ NoOverlap'
  BY <1>11 DEF ReadFault, Fault, To, HandlerFrame, runs
<1>12. ASSUME NEW r \in Replicas, InsertExecution(r)
      PROVE  Exclusive' /\ NoOverlap'
  BY <1>12 DEF InsertExecution, Inserted, To, HandlerFrame, runs
<1>13. ASSUME NEW r \in Replicas, InsertFault(r) PROVE Exclusive' /\ NoOverlap'
  BY <1>13 DEF InsertFault, Fault, Inserted, To, HandlerFrame, runs
<1>14. ASSUME NEW r \in Replicas, EnqueueRun(r) PROVE Exclusive' /\ NoOverlap'
  BY <1>14 DEF EnqueueRun, GetsJob, To, HandlerFrame, runs
<1>15. ASSUME NEW r \in Replicas, EnqueueFault(r)
      PROVE  Exclusive' /\ NoOverlap'
  BY <1>15 DEF EnqueueFault, Fault, GetsJob, To, HandlerFrame, runs
<1>16. ASSUME NEW r \in Replicas, ReleaseOverlap(r)
      PROVE  Exclusive' /\ NoOverlap'
  BY <1>16 DEF ReleaseOverlap, Idle, HandlerFrame, runs
<1>17. ASSUME NEW r \in Replicas, ReleaseFault(r)
      PROVE  Exclusive' /\ NoOverlap'
  BY <1>17 DEF ReleaseFault, RedisFault, Fault, Idle, HandlerFrame, runs
<1>18. CASE OverlapExpires
  BY <1>18 DEF OverlapExpires, locks, runs
<1>19. CASE RunEnds
  BY <1>19 DEF RunEnds, locks, runs
<1>20. CASE ReapOrphan
  <2>1. NoOverlap'
    BY <1>20, ReapKeeps
  <2>2. ~bypassed => \A r \in Replicas : hand[r].pc # "insert"
    BY <1>20 DEF ReapOrphan
  <2> QED
    BY <1>20, <2>1, <2>2 DEF ReapOrphan, locks
<1> QED
  BY StepKinds, <1>1, <1>2, <1>3, <1>4, <1>5, <1>6, <1>7, <1>8, <1>9, <1>10,
     <1>11, <1>12, <1>13, <1>14, <1>15, <1>16, <1>17, <1>18, <1>19, <1>20 DEF
     Loud, HandlerStep, HandlerFault

-----------------------------------------------------------------------------
(***************************************************************************)
(* The theorems.                                                           *)
(***************************************************************************)

\* At the start all is well typed.
LEMMA InitTypes == ASSUME Init PROVE RestType /\ HandlersOK /\ Counted
<1>1. RestType
  <2>1. request \in [Requests -> Request]
    <3>1. Handled("idle") \in Request
      BY DEF Handled, Request
    <3> QED
      BY <3>1 DEF Init
  <2>2. inbox \in [Replicas -> Seq(BOOLEAN)]
    BY DEF Init
  <2> QED
    BY <2>1, <2>2 DEF Init, RestType
<1>2. HandlersOK
  BY DEF Init, HandlersOK, Handler, Pcs, Idle
<1>3. Enqueuing = {}
  BY DEF Init, Enqueuing, Idle
<1>4. Counted
  BY <1>3, FS_EmptySet DEF Init, Counted
<1> QED
  BY <1>1, <1>2, <1>4

\* The state keeps its types in every behaviour; in particular the number of
\* executions without a job stays a natural number through every handler,
\* fault and sweep.
THEOREM TypeCorrect == Spec => []TypeOK
<1>1. Init => RestType /\ HandlersOK /\ Counted
  BY InitTypes
<1>2. RestType /\ HandlersOK /\ Counted /\ [Next]_vars
        => RestType' /\ HandlersOK' /\ Counted'
  BY RestTypeStep, HandlersStep, CountedStep
<1>3. RestType /\ HandlersOK /\ Counted => TypeOK
  BY DEF RestType, HandlersOK, Counted, TypeOK
<1> QED
  BY <1>1, <1>2, <1>3, PTL DEF Spec

\* "Replicas do not double-fire": with a misfire grace below a minute, an
\* occurrence starts at most one execution, however many replicas lead.
THEOREM OneRunTheorem ==
  ASSUME Grace = 0
  PROVE  Spec => []OneRunPerOccurrence
<1>1. Init => RestType /\ HandlersOK /\ DueInTime /\ Once
  <2> SUFFICES ASSUME Init PROVE RestType /\ HandlersOK /\ DueInTime /\ Once
    OBVIOUS
  <2>1. RestType /\ HandlersOK
    BY InitTypes
  <2>2. DueInTime
    BY DEF Init, DueInTime
  <2>3. Once
    BY DEF Init, Once, Before, Idle, OneRunPerOccurrence
  <2> QED
    BY <2>1, <2>2, <2>3
<1>2. RestType /\ HandlersOK /\ DueInTime /\ Once /\ [Next]_vars
        => RestType' /\ HandlersOK' /\ DueInTime' /\ Once'
  BY RestTypeStep, HandlersStep, DueStep, OnceStep
<1>3. Once => OneRunPerOccurrence
  BY DEF Once
<1> QED
  BY <1>1, <1>2, <1>3, PTL DEF Spec

\* "Don't pile a concurrent run on": unless Redis raised at the overlap lock,
\* at most one scheduled execution of the workflow is in flight, whatever
\* leases expire, replicas end and queries or enqueues fail.
THEOREM NoOverlapTheorem == Spec => []NoOverlap
<1>1. Init => Exclusive /\ NoOverlap
  BY DEF Init, Exclusive, Inside, NoOverlap, Idle
<1>2. Init => RestType /\ HandlersOK /\ Counted
  BY InitTypes
<1>3. RestType /\ HandlersOK /\ Counted /\ Exclusive /\ NoOverlap /\ [Next]_vars
        => RestType' /\ HandlersOK' /\ Counted' /\ Exclusive' /\ NoOverlap'
  BY RestTypeStep, HandlersStep, CountedStep, ExclusiveStep
<1> QED
  BY <1>1, <1>2, <1>3, PTL DEF Spec

====
