--------------------------- MODULE CronScheduler ---------------------------
(***************************************************************************)
(* The scheduled start of one workflow: leader election, the refresh       *)
(* channel and _execute_scheduled_workflow (scheduler.py), with the        *)
(* endpoints that change the schedule (router.py).                         *)
(*                                                                         *)
(* The replicas are the worker processes (worker.py).  Each runs an        *)
(* election loop, a refresh listener and at most one handler of this       *)
(* workflow's cron job (max_instances 1).  The endpoints run in the API    *)
(* process, whose own scheduler never starts.  A step is one command to    *)
(* Redis or Mongo with what follows it up to the next one.  Time is a      *)
(* count of minutes, the resolution of the fire lock's key, and the same   *)
(* on all replicas.  A replica may be arbitrarily slow, so a lease can     *)
(* expire under a leader that is alive.  APScheduler is external: it makes *)
(* a job due at every occurrence, drops it when it is too late or when the *)
(* handler is busy, and cancels running handlers when it is shut down.     *)
(***************************************************************************)
EXTENDS Integers, Sequences, FiniteSets

CONSTANTS
  Replicas,
  Requests,     \* schedule changes that users make
  Occurrences,  \* minutes at which the cron expression fires
  Grace,        \* misfire_grace_time in whole minutes (30 s: 0)
  FaultKinds,   \* the failures that occur
  MaxMinute,    \* bound: minutes
  MaxExpiries,  \* bound: leases that expire under a live leader
  MaxFaults,    \* bound: failures
  NoReplica, NoLock

Kinds == {"lock", "overlap", "read", "insert", "enqueue", "release",
          "election", "load", "publish", "listener", "shutdown", "crash"}

ASSUME ConstantsAssumption ==
  /\ IsFiniteSet(Replicas)
  /\ Occurrences \subseteq Nat \ {0} /\ Grace \in Nat
  /\ FaultKinds \subseteq Kinds
  /\ MaxMinute \in Nat /\ MaxExpiries \in Nat /\ MaxFaults \in Nat
  /\ NoReplica \notin Replicas
  /\ NoLock \notin Replicas \X Nat

VARIABLES
  now,         \* minutes
  on,          \* Workflows: deployed, active and schedule.enabled
  request,     \* the endpoint handlers that change it
  leaderKey,   \* scheduler:leader
  role,        \* follower, loading, leader, draining (after SIGTERM) or down
  cut,         \* replicas whose cache manager has use_redis = False
  registered,  \* does the replica's APScheduler have the cron job?
  due,         \* occurrence its APScheduler has yet to start; 0 if none
  listening,   \* is it subscribed to the refresh channel?
  inbox,       \* refresh messages it has not handled
  hand,        \* its handler of the cron job
  fireLocks,   \* minutes m with a key lock:wf_cron:<workflow>:<m>
  overlap,     \* lock:wf_running:<workflow>: replica and occurrence, or NoLock
  live,        \* scheduled executions in flight that have a job
  orphan,      \* those left "queued" without a job
  expiries, faults,
  fired,       \* history: executions inserted for each occurrence
  bypassed     \* history: a handler went on without the overlap lock

environment == <<now, on, request>>
lease   == <<leaderKey, role, expiries>>
cron    == <<registered, due>>
channel == <<listening, inbox>>
locks   == <<fireLocks, overlap>>
runs    == <<live, orphan, fired, bypassed>>
vars == <<environment, lease, cut, cron, channel, hand, locks, runs, faults>>

-----------------------------------------------------------------------------
Pcs == {"idle", "overlap", "load", "heal", "inflight", "insert", "enqueue",
        "release"}
Handler == [pc : Pcs, occ : Occurrences \cup {0}, own : BOOLEAN]
Idle == [pc |-> "idle", occ |-> 0, own |-> FALSE]

Request == [pc : {"idle", "announce", "done"}, want : BOOLEAN]
Handled(pc) == [pc |-> pc, want |-> FALSE]

\* lock_value: unique to one call of the handler.
Token(r) == <<r, hand[r].occ>>

\* Replicas that run APScheduler, and replicas that renew the lease.
Active(r) == role[r] \in {"loading", "leader"}
Leads(r)  == Active(r) \/ role[r] = "draining"

Fault(k) == /\ k \in FaultKinds /\ faults < MaxFaults
            /\ faults' = faults + 1

\* A command of replica r to the coordination Redis raises.  After a
\* ConnectionError the manager refuses all commands for 60 s.
RedisFault(k, r) == Fault(k) /\ cut' \in {cut, cut \cup {r}}

Reconnect(r) ==
  /\ r \in cut
  /\ cut' = cut \ {r}
  /\ UNCHANGED <<environment, lease, cron, channel, hand, locks, runs, faults>>

To(r, pc) == hand' = [hand EXCEPT ![r].pc = pc]

\* register_workflow / unregister_workflow on replica r: APScheduler replaces
\* the job, and the next run is computed afresh.
SetJob(r, v) ==
  /\ registered' = [registered EXCEPT ![r] = v]
  /\ due' = [due EXCEPT ![r] = 0]

-----------------------------------------------------------------------------
(***************************************************************************)
(* The election loop.                                                      *)
(***************************************************************************)

\* _try_acquire_leadership: SET NX, or the key is already ours, or, with
\* use_redis off, the static flag alone.  _on_become_leader then starts
\* APScheduler without cron jobs.
Acquire(r) ==
  /\ role[r] = "follower"
  /\ IF r \in cut THEN UNCHANGED leaderKey
                  ELSE leaderKey \in {NoReplica, r} /\ leaderKey' = r
  /\ role' = [role EXCEPT ![r] = "loading"]
  /\ UNCHANGED <<environment, expiries, cut, cron, channel, hand, locks, runs,
                 faults>>

\* SET NX raises: the replica declines, but the key may be set.
AcquireFault(r) ==
  /\ role[r] = "follower" /\ r \notin cut
  /\ RedisFault("election", r)
  /\ leaderKey' \in {leaderKey, IF leaderKey = NoReplica THEN r ELSE leaderKey}
  /\ UNCHANGED <<environment, role, expiries, cron, channel, hand, locks, runs>>

\* _load_deployed_schedules; the heartbeat and the listener start after it.
LoadSchedules(r) ==
  /\ role[r] = "loading"
  /\ role' = [role EXCEPT ![r] = "leader"]
  /\ IF on THEN SetJob(r, TRUE) ELSE UNCHANGED cron
  /\ UNCHANGED <<environment, leaderKey, expiries, cut, channel, hand, locks,
                 runs, faults>>

\* A failing query is logged and the leader goes on without the schedules.
LoadFault(r) ==
  /\ role[r] = "loading"
  /\ Fault("load")
  /\ role' = [role EXCEPT ![r] = "leader"]
  /\ UNCHANGED <<environment, leaderKey, expiries, cut, cron, channel, hand,
                 locks, runs>>

\* APScheduler is shut down, which cancels the handler at its await; its
\* finally clause still runs.  The cache is called without an await, so that
\* the handler is never between its two locks here.
StopsServing(r, next) ==
  /\ hand[r].pc # "overlap"
  /\ role' = [role EXCEPT ![r] = next]
  /\ SetJob(r, FALSE)
  /\ listening' = [listening EXCEPT ![r] = FALSE]
  /\ inbox' = [inbox EXCEPT ![r] = <<>>]
  /\ IF hand[r].pc = "idle" THEN UNCHANGED hand ELSE To(r, "release")
  /\ UNCHANGED <<environment, leaderKey, expiries, locks, runs>>

\* _on_lose_leadership.
StepDown(r) == role[r] \in {"leader", "draining"} /\ StopsServing(r, "follower")

\* Mutant of LoseLease: the result of the renewal is not looked at.
LoseLeaseOnErrorOnly(r) == r \in cut /\ StepDown(r) /\ UNCHANGED <<cut, faults>>

\* The heartbeat finds that the key is not ours any more, or Redis refused.
LoseLease(r) ==
  /\ leaderKey # r \/ r \in cut
  /\ StepDown(r)
  /\ UNCHANGED <<cut, faults>>

\* The heartbeat raises: the replica steps down with the key still set.
HeartbeatFault(r) == RedisFault("election", r) /\ StepDown(r)

\* The TTL ends.  A leader renews at a third of it, once its schedules are
\* loaded, but may be too slow.
LeaseExpires ==
  /\ leaderKey # NoReplica
  /\ IF Leads(leaderKey) /\ leaderKey \notin cut
       THEN expiries < MaxExpiries /\ expiries' = expiries + 1
       ELSE UNCHANGED expiries
  /\ leaderKey' = NoReplica
  /\ UNCHANGED <<environment, role, cut, cron, channel, hand, locks, runs,
                 faults>>

\* SIGTERM: the worker stops the scheduler but not the election loop, which
\* goes on renewing the lease while the worker drains.  (Refresh messages have
\* no effect any more: the listener counts as gone.)
Shutdown(r) ==
  /\ Active(r)
  /\ Fault("shutdown")
  /\ StopsServing(r, "draining")
  /\ UNCHANGED cut

\* A replica ends, with everything it had in memory, and starts again under
\* the same SCHEDULER_INSTANCE_ID (host name and process id).
Gone(r) ==
  /\ role' = [role EXCEPT ![r] = "down"]
  /\ cut' = cut \ {r}
  /\ SetJob(r, FALSE)
  /\ listening' = [listening EXCEPT ![r] = FALSE]
  /\ inbox' = [inbox EXCEPT ![r] = <<>>]
  /\ hand' = [hand EXCEPT ![r] = Idle]
  /\ UNCHANGED <<environment, leaderKey, expiries, locks, runs>>

Crash(r) == role[r] # "down" /\ Fault("crash") /\ Gone(r)

Drained(r) == role[r] = "draining" /\ Gone(r) /\ UNCHANGED faults

Restart(r) ==
  /\ role[r] = "down"
  /\ role' = [role EXCEPT ![r] = "follower"]
  /\ UNCHANGED <<environment, leaderKey, expiries, cut, cron, channel, hand,
                 locks, runs, faults>>

-----------------------------------------------------------------------------
(***************************************************************************)
(* Schedule changes and the refresh channel.                               *)
(***************************************************************************)

\* deploy, undeploy, update and patch_workflow_schedule: the document ...
ChangeSchedule(q, v) ==
  /\ request[q].pc = "idle"
  /\ on' = v
  /\ request' = [request EXCEPT ![q] = [pc |-> "announce", want |-> v]]
  /\ UNCHANGED <<now, lease, cut, cron, channel, hand, locks, runs, faults>>

Announced(q, subscribers) ==
  /\ request[q].pc = "announce"
  /\ request' = [request EXCEPT ![q] = Handled("done")]
  /\ inbox' = [r \in Replicas |-> IF r \in subscribers
                                    THEN Append(inbox[r], request[q].want)
                                    ELSE inbox[r]]
  /\ UNCHANGED <<now, on, lease, cut, cron, listening, hand, locks, runs>>

\* ... then PUBLISH, to who is subscribed at this moment.
Publish(q) == Announced(q, {r \in Replicas : listening[r]}) /\ UNCHANGED faults

\* A failed PUBLISH is logged only.
PublishFault(q) == Announced(q, {}) /\ Fault("publish")

\* delete_workflow tells nobody.
DeleteWorkflow(q) ==
  /\ request[q].pc = "idle"
  /\ on' = FALSE
  /\ request' = [request EXCEPT ![q] = Handled("done")]
  /\ UNCHANGED <<now, lease, cut, cron, channel, hand, locks, runs, faults>>

\* start_refresh_listener subscribes, and again after a lost connection.
Subscribe(r) ==
  /\ role[r] = "leader" /\ ~listening[r]
  /\ listening' = [listening EXCEPT ![r] = TRUE]
  /\ UNCHANGED <<environment, lease, cut, cron, inbox, hand, locks, runs, faults>>

ListenerFault(r) ==
  /\ listening[r]
  /\ Fault("listener")
  /\ listening' = [listening EXCEPT ![r] = FALSE]
  /\ inbox' = [inbox EXCEPT ![r] = <<>>]
  /\ UNCHANGED <<environment, lease, cut, cron, hand, locks, runs>>

Refresh(r) ==
  /\ inbox[r] # <<>>
  /\ SetJob(r, Head(inbox[r]))
  /\ inbox' = [inbox EXCEPT ![r] = Tail(inbox[r])]
  /\ UNCHANGED <<environment, lease, cut, listening, hand, locks, runs, faults>>

-----------------------------------------------------------------------------
(***************************************************************************)
(* The clock and APScheduler.                                              *)
(***************************************************************************)

Tick ==
  /\ now < MaxMinute
  /\ now' = now + 1
  /\ due' = [r \in Replicas |->
               IF registered[r] /\ now' \in Occurrences THEN now' ELSE due[r]]
  /\ UNCHANGED <<on, request, lease, cut, registered, channel, hand, locks,
                 runs, faults>>

\* Too late (misfire_grace_time), or the handler is still busy.
Miss(r) ==
  /\ due[r] # 0
  /\ now - due[r] > Grace \/ hand[r].pc # "idle"
  /\ due' = [due EXCEPT ![r] = 0]
  /\ UNCHANGED <<environment, lease, cut, registered, channel, hand, locks,
                 runs, faults>>

\* APScheduler calls the handler.
Starts(r) ==
  /\ due[r] # 0 /\ now - due[r] <= Grace
  /\ hand[r].pc = "idle"
  /\ due' = [due EXCEPT ![r] = 0]
  /\ UNCHANGED <<environment, lease, registered, channel, overlap, runs>>

-----------------------------------------------------------------------------
(***************************************************************************)
(* _execute_scheduled_workflow.                                            *)
(***************************************************************************)

Begun(r) == [pc |-> "overlap", occ |-> due[r], own |-> FALSE]

\* Mutant of Fire: the lock is released with the handler, as good as not set.
FireUnlocked(r) ==
  /\ Starts(r)
  /\ hand' = [hand EXCEPT ![r] = Begun(r)]
  /\ UNCHANGED <<fireLocks, cut, faults>>

\* SET NX of the fire lock.  Its key names the minute in which the handler
\* runs, not the occurrence it runs for.
Fire(r) ==
  /\ Starts(r)
  /\ IF r \in cut \/ now \in fireLocks
       THEN UNCHANGED <<hand, fireLocks>>
       ELSE /\ fireLocks' = fireLocks \cup {now}
            /\ hand' = [hand EXCEPT ![r] = Begun(r)]
  /\ UNCHANGED <<cut, faults>>

\* Redis raised: the tick is skipped, the lock may be set all the same.
FireFault(r) ==
  /\ Starts(r) /\ r \notin cut
  /\ RedisFault("lock", r)
  /\ fireLocks' \in {fireLocks, fireLocks \cup {now}}
  /\ UNCHANGED hand

\* What the handler leaves alone in every step from here on.
HandlerFrame == UNCHANGED <<environment, lease, channel, fireLocks>>

\* SET NX of the overlap lock; when it is taken the tick is skipped.
TakeOverlap(r) ==
  /\ hand[r].pc = "overlap"
  /\ IF overlap = NoLock
       THEN /\ overlap' = Token(r)
            /\ hand' = [hand EXCEPT ![r].pc = "load", ![r].own = TRUE]
       ELSE /\ hand' = [hand EXCEPT ![r] = Idle]
            /\ UNCHANGED overlap
  /\ HandlerFrame /\ UNCHANGED <<cut, cron, runs, faults>>

\* Redis raised: the handler proceeds without the lock.
OverlapFault(r) ==
  /\ hand[r].pc = "overlap"
  /\ RedisFault("overlap", r)
  /\ overlap' \in {overlap, IF overlap = NoLock THEN Token(r) ELSE overlap}
  /\ To(r, "load")
  /\ bypassed' = TRUE
  /\ HandlerFrame /\ UNCHANGED <<cron, live, orphan, fired>>

\* find_one of the deployed workflow, and the schedule.enabled test.
LoadWorkflow(r) ==
  /\ hand[r].pc = "load"
  /\ To(r, IF on THEN "inflight" ELSE "heal")
  /\ HandlerFrame /\ UNCHANGED <<cut, cron, overlap, runs, faults>>

\* The workflow was not there or not enabled: drop the stale cron job.
SelfHeal(r) ==
  /\ hand[r].pc = "heal"
  /\ SetJob(r, FALSE)
  /\ To(r, "release")
  /\ HandlerFrame /\ UNCHANGED <<cut, overlap, runs, faults>>

\* Mutant of CheckInflight: a queued run without a job does not count.
CheckInflightLiveOnly(r) ==
  /\ hand[r].pc = "inflight"
  /\ To(r, IF live > 0 THEN "release" ELSE "insert")
  /\ HandlerFrame /\ UNCHANGED <<cut, cron, overlap, runs, faults>>

\* A prior run in flight, or a halt of the workflow's scope, skips the tick.
CheckInflight(r) ==
  /\ hand[r].pc = "inflight"
  /\ \/ live + orphan = 0 /\ To(r, "insert")
     \/ To(r, "release")
  /\ HandlerFrame /\ UNCHANGED <<cut, cron, overlap, runs, faults>>

\* A query raises: the outer except, then finally.
ReadFault(r) ==
  /\ hand[r].pc \in {"load", "inflight"}
  /\ Fault("read")
  /\ To(r, "release")
  /\ HandlerFrame /\ UNCHANGED <<cut, cron, overlap, runs>>

Inserted(r) == /\ orphan' = orphan + 1
               /\ fired' = [fired EXCEPT ![hand[r].occ] = @ + 1]

\* insert_one of the execution document, as "queued".
InsertExecution(r) ==
  /\ hand[r].pc = "insert"
  /\ Inserted(r)
  /\ To(r, "enqueue")
  /\ HandlerFrame /\ UNCHANGED <<cut, cron, overlap, live, bypassed, faults>>

InsertFault(r) ==
  /\ hand[r].pc = "insert"
  /\ Fault("insert")
  /\ Inserted(r) \/ UNCHANGED <<orphan, fired>>
  /\ To(r, "release")
  /\ HandlerFrame /\ UNCHANGED <<cut, cron, overlap, live, bypassed>>

GetsJob == orphan' = orphan - 1 /\ live' = live + 1

\* enqueue of workflow.run.
EnqueueRun(r) ==
  /\ hand[r].pc = "enqueue"
  /\ GetsJob
  /\ To(r, "release")
  /\ HandlerFrame /\ UNCHANGED <<cut, cron, overlap, fired, bypassed, faults>>

\* enqueue raised; the job may be there all the same.
EnqueueFault(r) ==
  /\ hand[r].pc = "enqueue"
  /\ Fault("enqueue")
  /\ GetsJob \/ UNCHANGED <<orphan, live>>
  /\ To(r, "release")
  /\ HandlerFrame /\ UNCHANGED <<cut, cron, overlap, fired, bypassed>>

\* finally: delete_if_owner of the overlap lock.  The fire lock stays.
ReleaseOverlap(r) ==
  /\ hand[r].pc = "release"
  /\ overlap' = IF hand[r].own /\ overlap = Token(r) /\ r \notin cut
                  THEN NoLock ELSE overlap
  /\ hand' = [hand EXCEPT ![r] = Idle]
  /\ HandlerFrame /\ UNCHANGED <<cut, cron, runs, faults>>

\* A failure is swallowed.
ReleaseFault(r) ==
  /\ hand[r].pc = "release" /\ hand[r].own
  /\ RedisFault("release", r)
  /\ hand' = [hand EXCEPT ![r] = Idle]
  /\ HandlerFrame /\ UNCHANGED <<cron, overlap, runs>>

\* The TTL of the overlap lock ends.  It is far longer than a handler takes,
\* and the renewal loop extends it.
OverlapExpires ==
  /\ overlap # NoLock
  /\ \A r \in Replicas : hand[r].own => overlap # Token(r)
  /\ overlap' = NoLock
  /\ UNCHANGED <<environment, lease, cut, cron, channel, hand, fireLocks, runs,
                 faults>>

-----------------------------------------------------------------------------
(***************************************************************************)
(* What becomes of the executions: see ExecutionLifecycle.                 *)
(***************************************************************************)

RunEnds ==
  /\ live > 0
  /\ live' = live - 1
  /\ UNCHANGED <<environment, lease, cut, cron, channel, hand, locks, orphan,
                 fired, bypassed, faults>>

\* Mutant of ReapOrphan: the cutoff is shorter than a handler takes.
ReapOrphanEarly ==
  /\ orphan > 0
  /\ \E r \in Replicas : Active(r)
  /\ orphan' = orphan - 1
  /\ live' \in {live, live + 1}
  /\ UNCHANGED <<environment, lease, cut, cron, channel, hand, locks, fired,
                 bypassed, faults>>

\* The stuck sweep of a leader fails a run without a job, or resumes it.  Its
\* cutoff is far longer than a handler takes.
ReapOrphan ==
  /\ orphan > 0
  /\ \E r \in Replicas : Active(r)
  /\ \A r \in Replicas : hand[r].pc # "enqueue"
  /\ orphan' = orphan - 1
  /\ live' \in {live, live + 1}
  /\ UNCHANGED <<environment, lease, cut, cron, channel, hand, locks, fired,
                 bypassed, faults>>

-----------------------------------------------------------------------------
Init ==
  /\ now = 0 /\ on \in BOOLEAN
  /\ request \in [Requests -> {Handled("idle")}]
  /\ leaderKey = NoReplica
  /\ role = [r \in Replicas |-> "follower"] /\ cut = {}
  /\ registered = [r \in Replicas |-> FALSE]
  /\ listening = [r \in Replicas |-> FALSE]
  /\ inbox = [r \in Replicas |-> <<>>]
  /\ due = [r \in Replicas |-> 0]
  /\ hand = [r \in Replicas |-> Idle]
  /\ fireLocks = {} /\ overlap = NoLock
  /\ live = 0 /\ orphan = 0
  /\ expiries = 0 /\ faults = 0
  /\ fired = [o \in Occurrences |-> 0] /\ bypassed = FALSE

HandlerStep(r) ==
  \/ TakeOverlap(r) \/ LoadWorkflow(r) \/ SelfHeal(r) \/ CheckInflight(r)
  \/ InsertExecution(r) \/ EnqueueRun(r) \/ ReleaseOverlap(r)

HandlerFault(r) ==
  \/ FireFault(r) \/ OverlapFault(r) \/ ReadFault(r) \/ InsertFault(r)
  \/ EnqueueFault(r) \/ ReleaseFault(r)

ElectionStep(r) == Acquire(r) \/ LoadSchedules(r) \/ LoseLease(r)

ElectionFault(r) ==
  AcquireFault(r) \/ LoadFault(r) \/ HeartbeatFault(r) \/ ListenerFault(r)

Next ==
  \/ \E r \in Replicas :
       \/ ElectionStep(r) \/ ElectionFault(r) \/ Reconnect(r)
       \/ Shutdown(r) \/ Drained(r) \/ Crash(r) \/ Restart(r)
       \/ Subscribe(r) \/ Refresh(r)
       \/ Miss(r) \/ Fire(r) \/ HandlerStep(r) \/ HandlerFault(r)
  \/ \E q \in Requests :
       \/ \E v \in BOOLEAN : ChangeSchedule(q, v)
       \/ Publish(q) \/ PublishFault(q) \/ DeleteWorkflow(q)
  \/ LeaseExpires \/ Tick \/ OverlapExpires \/ RunEnds \/ ReapOrphan

Spec == Init /\ [][Next]_vars

\* The election loops and the handlers go on, a drained replica ends and an
\* ended one is restarted, a lost connection comes back, and a leader key that
\* nobody renews expires.
ElectionFairness ==
  /\ \A r \in Replicas : /\ WF_vars(ElectionStep(r))
                         /\ WF_vars(Drained(r)) /\ WF_vars(Restart(r))
                         /\ WF_vars(HandlerStep(r)) /\ WF_vars(Reconnect(r))
  /\ WF_vars(leaderKey \in Replicas /\ ~Leads(leaderKey) /\ LeaseExpires)

ElectionSpec == Spec /\ ElectionFairness

\* In addition the listeners, the clock, the endpoints and the runs go on.
Fairness ==
  /\ ElectionFairness
  /\ \A r \in Replicas : /\ WF_vars(Subscribe(r)) /\ WF_vars(Refresh(r))
                         /\ WF_vars(Miss(r) \/ Fire(r))
  /\ \A q \in Requests : WF_vars(Publish(q))
  /\ WF_vars(Tick) /\ WF_vars(OverlapExpires)
  /\ WF_vars(RunEnds) /\ WF_vars(ReapOrphan)

FairSpec == Spec /\ Fairness

-----------------------------------------------------------------------------
(***************************************************************************)
(* Properties.                                                             *)
(***************************************************************************)

TypeOK ==
  /\ now \in Nat /\ on \in BOOLEAN
  /\ request \in [Requests -> Request]
  /\ leaderKey \in Replicas \cup {NoReplica}
  /\ role \in [Replicas ->
                {"follower", "loading", "leader", "draining", "down"}]
  /\ registered \in [Replicas -> BOOLEAN] /\ listening \in [Replicas -> BOOLEAN]
  /\ inbox \in [Replicas -> Seq(BOOLEAN)] /\ cut \subseteq Replicas
  /\ due \in [Replicas -> Occurrences \cup {0}]
  /\ hand \in [Replicas -> Handler]
  /\ fireLocks \subseteq Nat
  /\ overlap \in (Replicas \X Occurrences) \cup {NoLock}
  /\ live \in Nat /\ orphan \in Nat
  /\ expiries \in Nat /\ faults \in Nat
  /\ fired \in [Occurrences -> Nat] /\ bypassed \in BOOLEAN

\* "Leader-elected cron; replicas do not double-fire": one occurrence starts
\* at most one execution, however many replicas think that they lead.
OneRunPerOccurrence == \A o \in Occurrences : fired[o] <= 1

\* "Don't pile a concurrent run on": of the scheduled executions of a workflow
\* at most one is in flight, also when a handler is so slow that the next
\* occurrence comes, on this replica or on a new leader.  (A handler to which
\* Redis raised goes on without the overlap lock.)
NoOverlap == ~bypassed => live + orphan <= 1

\* "Followers automatically take over if the leader key expires": again and
\* again there is exactly one replica that leads, and it holds the key.
LeadershipSettles ==
  []<>(\E r \in Replicas : /\ leaderKey = r /\ role[r] = "leader"
                           /\ \A s \in Replicas \ {r} : ~Active(s))

\* "Fail CLOSED": a replica becomes leader only with the leader key.
LeadersHoldTheKey ==
  [][\A r \in Replicas : role[r] = "follower" /\ role'[r] = "loading"
                           => leaderKey' = r]_vars

\* "Hot-reload": a schedule that is on and stays on is served by the leader in
\* the end.
ScheduleServed ==
  <>[]on => []<>(\E r \in Replicas : leaderKey = r /\ registered[r])
====
