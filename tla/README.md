# Verification of citra-flows

TLA+ models of citra-flows, checked with TLC, and their safety proved with TLAPS (section
4). Line numbers refer to the repository; the map of every definition to the lines it
translates is in `PROJECT.json`.

## 1. The system: parts, state, operations

| part | state it keeps | operations | what makes it hard |
|---|---|---|---|
| Job queue (`citra_queue/queue.py`) | Redis: stream + pending list of the group `workers`, retry ZSET, dead-letter stream, one status hash per job | enqueue, consume_one, claim_stale, mark_running, mark_done, mark_failed, promote | every operation is several Redis commands; the process may die, or a command raise, between any two |
| Worker (`Citra-Worker/worker.py`) | per process: N `_worker_loop` tasks, one `_reclaim_loop`, `_stopped` | process a job, sweep, drain on SIGTERM | tasks of several processes interleave; loops end on an uncaught exception |
| Job handlers (`handlers/workflow_handlers.py`) | none | workflow.run, workflow.resume | replays of a run that already ended |
| Executor (`executor.py`) | Mongo execution document, Redis progress cache, cancel flag, concurrency counter | execute, resume, per-node walk, pause, cancel, checkpoint | unconditional whole-document saves race conditional updates by others; the counter expires under its holders |
| Scheduler (`scheduler.py`) | leader key, per-minute fire lock, overlap lock, APScheduler jobs | elect, heartbeat, fire, reap stuck runs, time out approvals, shut down | lease expiry, two leaders, stale reads before enqueue |
| Authoring (`router.py`) | workflow document, version snapshots, webhook token | create, update, patch, deploy, undeploy, rollback, erase, archive, restore, delete, rotate, duplicate | read-then-write on documents that other requests change |
| Admission (`router.py`, `workflow_control.py`, citra-auth) | halts, a cache of them per process, rate buckets | verify token, role and signature, limit, check halts, submit | caches, rotations and halts between the checks and the enqueue |
| Connections and schemas (`router.py`, `connection_crypto.py`, `connection_resolver.py`, `schema_cache.py`, `schema_discovery.py`) | sealed profiles, cached schemas | create, show, edit, delete, resolve, discover | masks echoed by the form, keys that differ between processes, discovery overlapping an edit |
| Nodes (`nodes/*`) | one attempt at a time (`BaseNode.run`), markers, threads | run with retries and timeout; agents, processors, sources, writers, senders | side effects repeated on retry, threads that outlive a timeout, groups that outlive an attempt |
| Media (`blob_store.py`, `router.py`) | blobs in GridFS | put, get, sweep of a run, orphan sweep | the sweep reads statuses before it deletes |
| AI assistant (`ai_assistant.py`) | a turn: transcript, working copy, test runs | ask, edit, test, propose | rounds and deadlines; a test goes on when the turn has given up |
| LLM client (`citra_llm/oss.py`), AI rate limits (`router.py`), circuit breaker | request-local; Redis windows; breaker state | call, retry, truncate; count; open, half-open, close | token arithmetic at the limits; late outcomes |
| Sandbox pool, file cache (`services/`) | containers, cached files | acquire, release, replace, warm, reap; fetch, evict | the size limit across awaits; two files per cache entry |
| citra-cache, citra-mongo, citra-service-utils, Citra-User-Service, ui | connections; user documents; browser state | thin clients, REST handlers, views | modelled only where the parts above use them |

Interaction: the API and the scheduler insert an execution document and enqueue a
`workflow.run` job; a worker process takes the job and runs the executor, which
writes the execution document and runs the nodes; nodes resolve connections, charge the
run's LLM budget, call the LLM client, the sandbox pool and outside services; approvals
and the stuck-run reaper flip the document to `resuming` and enqueue a `workflow.resume`
job; the API cancels through a marker in Mongo and a flag in Redis that the executor
polls between nodes. The assistant submits tests through the same queue.

What makes each part correct, in a sentence:

* queue and worker: an accepted job ends as done or dead-lettered, is retried within
  its budget, and does not run twice at once while it stays within the visibility
  timeout;
* execution: a gate is passed by its own approval only, a final status is final, a
  cancelled run starts nothing, crash recovery is bounded, and every run ends;
* graph walk: a node starts when all its parents have a result, exactly the branches
  not taken are skipped, nothing recorded runs again after a resumption, and COMPLETED
  means that nothing is left;
* scheduler: an occurrence of a cron schedule starts at most one run, runs of one
  workflow do not pile up, and there is a leader again after every failure;
* authoring: equal version numbers mean equal copies, the version that is live was
  deployed and keeps its snapshot;
* admission: what was replaced or halted opens nothing after its time, and what was
  accepted has a job;
* slots, pool, limits, breaker, LLM call: the limit holds, what was acquired is given
  back or expires, what was used is billed;
* connections: a credential is what somebody typed, and nothing else ever is;
* nodes: one delivery has one effect, COMPLETED means done, a record comes out once with
  its own answer, agents run no write that their guards can tell;
* media: what a live run refers to is there;
* assistant: what it says of a test is true, and a broken graph is not proposed unreported.

## 2. Modules and the code they model

| module | models | composed with |
|---|---|---|
| `JobQueue` | `queue.py`, `worker.py` | implements `JobLedger`; used by `ExecutionLifecycle` through its results (a job may be delivered again; it is dead-lettered on budget) |
| `JobLedger` | abstract: what the queue promises of the jobs it accepted | |
| `ExecutionLifecycle` | one execution document and all its writers: `executor.py`, the execution endpoints of `router.py`, both sweeps of `scheduler.py`, `workflow_handlers.py` | implements `RunPromise` in the calm; the graph is a chain, branching is in `DagExecutor` |
| `RunPromise` | abstract: what a run promises its user | |
| `DagExecutor` | the two walks of `executor.py` over any graph | the outcomes it reaches are the steps of a job in `ExecutionLifecycle` |
| `CronScheduler` | election, refresh channel and `_execute_scheduled_workflow` of `scheduler.py`, the schedule endpoints | what becomes of a started execution is in `ExecutionLifecycle` |
| `Authoring` | the authoring, deployment and version endpoints | implements `DeployLineage` |
| `DeployLineage` | abstract: a log of numbered snapshots, one of them live | |
| `Admission` | JWT middleware, roles, webhook, kill switch, submission of a run | the job it enqueues is one of `JobQueue` |
| `RunSlots` | concurrency slots and LLM budget of runs | |
| `AgentLoop`, `NodeRun`, `Processors`, `Media` | the node library: agents; retry wrapper and effects; processors; files and blobs | a node's outcome is what `DagExecutor` sees of it |
| `Connections` | connections, secrets, schema cache | |
| `Assistant` | a turn of the workflow assistant | |
| `LlmCall`, `AiLimiter`, `CircuitBreaker`, `SandboxPool`, `SandboxFileCache` | the services of these names | |
| `Control` | `Authoring` and `Admission` side by side, with what each promises | no shared state |
| `Services` | `SandboxPool`, `RunSlots`, `CircuitBreaker`, `AiLimiter`, `LlmCall`, `SandboxFileCache` side by side, with what each promises | no shared state |
| `Nodes` | `Connections`, `AgentLoop`, `NodeRun`, `Assistant`, `Media`, `Processors` side by side, with what each promises | no shared state |
| `JobQueueProofs`, `ExecutionProofs`, `DagProofs`, `CronProofs`, `ControlProofs`, `ServicesProofs`, `NodesProofs`, `LibraryProofs` | theorems and proofs | |
| `MCJobQueue`, `MCExecution`, `MCDag`, `MCCron` | instances for TLC (symmetry, choice of graphs, slow or failing queue) | |
| `MCControl`, `MCServices`, `MCNodes` | the components of `Control`, `Services` and `Nodes`, one moving at a time | |

The components in `MCControl`, `MCServices` and `MCNodes` share no state. The variable
`focus` picks in the initial state the one that moves; the others stay where they are,
so each is explored completely and the number of states is the sum, not the product.
A property `XSound` is the conjunction of the invariants of component X; it is defined in
the component's module. `Control`, `Services` and `Nodes` name it for their instance, so
that a run and a theorem about an instance speak of the same definition.

Definitions whose name or comment says "Mutant of" are deliberately wrong variants of the
definition that follows them; `PROJECT.json` lists which property each must break.

### JobQueue, MCJobQueue

`JobQueue` models `queue.py` together with the loops of `worker.py`.
One action is one Redis command of one task (XACK and XDEL of an entry are one:
nothing reads an entry that is acked but not deleted).

* `stream` is the list of entries ever XADDed; an entry is `unread`, `pending`
  (with delivery count and an idle flag) or `gone`. `retry`/`due` are the retry ZSET
  and its members whose score has passed. `dlq` and `status` are the dead-letter
  stream and the status hashes.
* `pc`, `cur`, `batch`, `doomed` are the program counter and the local variables of
  every asyncio task; `proc` is the state of the process.
* `Promote`, `Read`, `AutoClaim`, `Probe`, `DlqAdd` ... are the commands of
  `consume_one` and `claim_stale`; `MarkRunning`, `MarkDone`, `MarkFailed`, `Ack`,
  `ParkRetry`, `ParkDead`, `Signal` those of `_process_job`.
* `ReplyLost`, `ProbeFault`, `DlqFault`, `AckFault`, `TaskDies` are commands that
  raise, each with the handling the code has for it: swallowed by `_ack`, caught by
  the loop, or fatal for the loop's task.
* `Crash` also stands for the end of the shutdown grace period, when tasks are
  cancelled where they stand.
* `JobLedger` is what all this is for, with no entry, task or process in it: a job is open
  from `enqueue` until it is done, dead-lettered or lost; only an open job is reported on,
  as done only with its work done; a closed job stays closed, with its status. A job is open
  in `JobQueue` while a consumer may still get a copy of it or a task has one in memory, so
  `Bury` and the report of "done" come before the job is closed, as in the code.

* `MCJobQueue` runs it in three modes: `slow` jobs that two tasks come to hold, `failing`
  processes and commands, and `killing` handlers that take their process with them, with three
  jobs of which a reclaim claims two; there it counts how often a handler was called for an
  entry (`runs`) and how often XPENDING did not list an entry just claimed (`unlisted`).

Left out: several queues (priority lanes), payloads, TTLs of the hashes, the
approximate trim of the dead-letter stream at 10000 entries.

### ExecutionLifecycle, MCExecution

One execution of a chain of nodes, some of them `human_approval` gates.

* `doc` is the Mongo document (status, completed prefix, the gate it is paused at,
  the crash-resume count, the cancel marker, the recorded decision); `approvals` the
  open approval requests; `flag` and `view` the Redis cancel flag and progress entry.
* `jobs` are the queue jobs of the execution together with the local state of the task
  that runs each; `submitter`, `officer`, `canceller`, `sweep`, `timer` are the request
  handlers and the two sweeps, each with a program counter that stops at every await.
* `StartRun`, `RunNode`, `Pause`, `FailNode`, `Complete`, `TimeOut`, `ObserveCancel`,
  `StartResume`, `RejectRun` are `execute()` and `resume()`; `Saved` is
  `_save_execution`, which replaces the document whatever is in it. `Decide`,
  `CancelCas`, `SweepCas` and `TimeoutFail` are the conditional updates.
* Time appears as what it makes possible: `StartAges` and `ResumeAges` let the stuck
  cutoff pass, `FlagExpires` and `ViewExpires` the Redis TTL.
* `WorkerDies`, `RequestDies`, `SweeperDies`, `TimerDies`, `DecideRaises`,
  `SweepRaises` and the failing branches of the saves are the failures; `FaultKinds`
  chooses which of them occur and `MaxFaults` how many.
* `RunPromise` says in two variables what all this is for: a run goes on, waits for a
  decision, is refused, or has an outcome, and the nodes are started in the order of the
  chain, once each. `Phase` maps the status to it; a run is refused from the moment in which
  a rejection wins its compare-and-set, which the status does not tell: it is seen from the
  request or the job on its way (`Rejecting`).

### DagExecutor, MCDag

`Init` picks a graph: any acyclic set of edges that `_validate_dag` accepts, any kinds of
nodes, any labels on the edges. `Begin`, `Ready`, `SkipNode`, `Start`, `CompleteNode`,
`PauseNode`, `SoftFailNode`, `FailNode` and `Finish` are the rounds of the walk;
`mode` says which of the two loops runs, because they differ: `resume()` has no skip
propagation and no `continue_on_error`. `Resume` restores the walk from `saved` as the
code does, after an approval (`Approve`) or after a crash (`CrashResume`).

### CronScheduler, MCCron

One workflow with a cron schedule, any number of worker processes.

* `leaderKey`, `role`, `cut`: the lease, what each replica takes itself for, and whether
  its cache manager refuses commands after a lost connection. `Acquire`,
  `LoadSchedules`, `LoseLease`, `StepDown`, `Shutdown`, `Drained`, `Crash`, `Restart`.
* `registered`, `due`: the cron job in a replica's APScheduler (external: `Tick`,
  `Miss`, `Starts`).
* `listening`, `inbox`: the refresh channel. `ChangeSchedule` and `DeleteWorkflow` are
  the endpoints; `Publish` reaches whoever is subscribed at that moment.
* `hand` is the running `_execute_scheduled_workflow` of a replica: `Fire`,
  `TakeOverlap`, `LoadWorkflow`, `SelfHeal`, `CheckInflight`, `InsertExecution`,
  `EnqueueRun`, `ReleaseOverlap`, each with its failing variant.
* A minute is the unit of time, as in the key of the fire lock, so the misfire grace of
  30 s is `Grace = 0`. Replicas are assumed to agree on the minute.

### Authoring, DeployLineage, Control

One workflow document `doc`, its `versions`, and requests that each run one endpoint; `req`
holds what a request read and will write. A step is one Mongo command: `Editing` (update,
patch), `Deploying` (deploy, rollback: read, number, insert, prune, update, announce) and
`Managing` (the rest) are its disjuncts. A request may die between any two commands. The
abstract `DeployLineage` knows only the numbers ever taken, the kept snapshots and the
live number; `ImplementsLineage` maps `used`, `versions` and `doc.dv` to them.

### Admission

`Execute`, `WebhookArrives` bring a request in (token, role, organisation, rate limit);
`LookupToken`, `LookupPrevious`, `VerifySignature` are the webhook's credential;
`CheckCached`, `CheckStale`, `ReadControls`, `CheckRead` the kill switch with its cache
per process; `Upload`, `InsertExecution`, `Enqueue`, `UndoInsert` the submission.
`HaltWrite`, `HaltFlush`, `HaltElsewhere` and `Rotate` are the administrators.

### RunSlots, AiLimiter, CircuitBreaker, LlmCall

`RunSlots`: the Redis counter as a pair of value and expiry; `Acquire`, `Refused`,
`AcquireBlind` (Redis raised: the run goes on), `Release`, `Pause`, `Resume`, `Die`,
`ChargeLlmCall`. `AiLimiter`: the counters of the Lua script. `CircuitBreaker`: `Enter` and
the outcomes are separate steps, so that outcomes arrive in any state. `LlmCall`: the
values of the token arithmetic are small numbers chosen around every `min` and `max` of
the code, including prompts that fill the context.

### SandboxPool, SandboxFileCache

What lies between two awaits is one step; Docker calls run in threads and end later.
`Grow`, `Create`, `Grown` are the slow path under the grow lock, `Release`,
`ResetWorkspace`, `Return`, `Replace` the way back, `Warm...` the warm-up, `Snapshot`,
`ReaperList`, `ReaperDestroy` the periodic reaper, `Discard` the end of a container found
dead. A removal that Docker refuses, and a creation that fails after the container was made,
leave a container that the pool does not count ("leaked") until the reaper removes it. The file cache has a content file, a
meta file, readers (`ReadMeta`, `Head`, `CacheHit`, `Download`, `Store`, `Link`) and eviction.

### Connections

One environment with a scalar secret and two headers, each a ciphertext under a key or
legacy plaintext. `GetConnection` shows masks, `UpdateRead` and `UpdateWrite` are the two
halves of an edit with the merge between them, `Invalidate` the schema cache, `RotateKey` a
new key in the service or the worker, `LookUp`, `DiscoverResolve`, `Introspect`, `Connect` an
agent that uses it.

### AgentLoop, NodeRun, Processors, Media

`AgentLoop`: charge, ask, and per tool call `BlockWrite`, `RefuseCall`, `RunCall`, `ToolEnds`,
`ToolTimeout`; `orphans` are threads whose caller gave up, `requests` counts the calls that all
agents made of the client, `repeated` what the client sent again on its own (`max_retries`); the
arguments of a call are harmless, a write that the guards can tell ("bad"), or one that they
cannot ("sly"). `NodeRun`: `Steps` gives each node
type its sequence of checks, calls and effects; `late` are effects in threads that
outlive the node, `marker` the subjects whose email is marked as sent (`MarkerExpires`: for a
day). `Processors`: `Spread`, `Enter`, `Reply`, `CallFails`, `Gather` are the groups
of an attempt; `Compute` the nodes without a model. `Media`: the life of a run with its
blobs, another delivery of its job (`DeliverAgain`), the timeout of the run, and the scan (`ListBlobs`, `ReadStatuses`, `DeleteOrphan`) as three reads and writes.

### Assistant

`Ask`, `CallsTools`, `ReadTool`, `EditTool`, `FinalAnswer`, `Propose` are the rounds of a turn;
`InsertTest`, `EnqueueTest`, `UndoTest`, `PollEnds`, `DeadlinePasses`, `ReadOutcome` a test run seen
from the turn, `WorkerStarts`, `WorkerEnds`, `WorkerDies`, `Approve`, `ResumeEnds` what becomes of
it. A workflow keeps its faults apart: `bad` configs and the graph, which `Fixable` sends back to the
model, and `unknown` references, which only `IsClean` counts. `ReId` is an `update_node` that writes
`id`, and `gone` the ids it took away; `slipped` marks a test whose enqueue lost its reply.

## 3. What TLC checks

| run | bounds | distinct states | shows |
|---|---|---|---|
| `queue_safety` | 2 processes, 2 retries; in turn: 1 job, 2 process ends and 1 command that raises; 1 job slower than the visibility timeout; 3 jobs that kill their workers, claimed 2 at a time | 692,889 | `QueueSound`: the types, and `LostOnlyInAckWindow`, a job can be lost only between the ack and the parking of `mark_failed`; `RetriesBounded`, `FinalStatusAtRest` although two tasks run the same job; `ImplementsLedger`: every step is one of `JobLedger`; `RunsBounded`, what is left of the crash-loop guard when the delivery counts are read for the wrong entries |
| `queue_liveness` | 3 process ends | 14,698 | `EveryJobSettles` |
| `exec_decisions` | 4 nodes, 2 gates, 3 officers, a cancel, the timer | 101,823 | `GateNeedsDecision`, `NodeOnce`, `CancelStopsLaterTasks` and `ImplementsPromise` (the refinement) when nothing fails |
| `exec_faults` | 2 nodes, 1 gate, every kind of failure once, expiring keys | 354,795 | `TypeOK`, `CrashResumesBounded` |
| `exec_liveness` | 2 nodes, 1 gate, silent officer, slow jobs, one failure | 95,704 | `EveryRunSettles` |
| `exec_gate_bypass` | as it takes | | a gate passed without approval (section 6) |
| `dag_walk` | all graphs of 4 nodes: 1 special node with a resumption, or conditions and tolerated failures on 2 | 1,102,758 | `CompletedSettlesAll`, `SkippedExactly`, `FailureHasCulprit`, `ParentsFirst`, `RecordedNotRerun`, `TypeOK` |
| `cron_fires` | 2 replicas, 2 occurrences, 1 schedule change, 1 expiry under a live leader, 1 failure of any kind | 797,760 | `OneRunPerOccurrence`, `NoOverlap`, `TypeOK` |
| `cron_election` | 2 replicas, 1 occurrence, 2 failures, 1 expiry | 35,028 | `LeadershipSettles` |
| `control` | 3 authoring requests over 11 endpoints, 1 dying, 1 kept version; 2 submissions (with a file, by webhook), 1 halt, 1 rotation, 1 failing command | 1,563,489 | `AuthoringSound`, `ImplementsLineage` (the refinement), `AdmissionSound`, `HaltBites` |
| `services` | 3 runs on 2 slots; 4 calls on the breaker; 2 users; all token boundaries; 3 jobs on 2 containers; 3 readers, 2 contents | 1,409,272 | `SlotsSound`, `BreakerLeftAlone`, `LimiterSound`, `LlmSound`, `PoolSound`, `FilesTagNotNewer` |
| `nodes` | 2 editors and an agent; 2 agents, 2 rounds, 2 threads; 1 run with 3 folders; 19 node types delivered twice; 4 records in all groupings; a turn of 2 rounds with 2 tests | 1,819,169 | `ConnectionsSound`, `AgentsSound`, `MediaSound`, `NodesSound`, `ProcessorsSound`, `AssistantSound` |

Why the bounds are enough for the questions asked: the races are between two actors over
one object (two tasks over a job, two writers over a document, two leaders over an
occurrence, two deploys over a number), so two of each suffice to meet, and a third, where
there is one, sees what the two left. Two retries show a budget being spent and exceeded;
with two gates a decision meant for the first may hit the second, and with two jobs claimed at once one waits behind the other; of three pending jobs a probe for two misses one; two occurrences for one run
to meet the next; graphs of four nodes contain the diamond and the branch with a tail,
which are the shapes that the readiness and skip rules tell apart. One version is kept so
that the second deploy prunes; the pool of two containers is full with the second job;
four records in batches of two make two full groups, and three a partial one. For the
properties that are also proved the bounds do not matter. Deadlock is not checked: every
system here may come to rest, and the counters of failures, jobs and minutes are bounded.

### Fairness

* `JobQueue`: every task of a live process goes on, backoffs and visibility timeouts
  elapse, a process that was told to stop ends and is started again (asyncio schedules
  every task, the container is restarted). Nothing has to fail, no job has to arrive.
* `ExecutionLifecycle`: job tasks, request handlers and both periodic sweeps go on, and
  the cutoffs pass. Officers and the operator need not act. The failures have no
  fairness.
* `CronScheduler`: election loops and handlers go on, a drained worker ends and a dead
  one is started again, a lost connection is retried (every 60 s), a key that nobody
  renews expires.

`EveryRunSettles` is checked with one gate and without a dying approval timer or a
failing insert of the approval request: there it does not hold (section 6).

The components of `control`, `services` and `nodes` are checked for safety only, without
fairness: their loops are bounded by counters of the code (rounds, attempts, timeouts).

## 4. What is proved

TLAPS checks every proof to the last leaf, for all values of the constants. Where a run and
a theorem name the same property, the run shows it on an instance and the theorem for
every instance.

* `JobQueueProofs` (2534 obligations): `QueueSound` (`TypeOK` and `LostOnlyInAckWindow`),
  `RetriesBounded`, `FinalStatusAtRest`, `ImplementsLedger`. Inductive
  invariant `Inv` = `TypeOK`, `Hands` (what a task holds is pending, or parked,
  or in the ack window), `Known` (what is anywhere has a status), `Alive` (a dead process has
  no tasks) and `LostOnlyInAckWindow`: whether a job is kept can only be told from where its
  copies are and which task holds one. `FinalStatusAtRest` needs `LastWord` as well:
  while no process ended and no command raised, behind every status stands what it says
  (behind "running" a task, behind "failed" the dead-letter entry or the task about to make
  it); `RetriesBounded` needs `Fine`: retries are bounded wherever a copy is, in a batch and in a hand too.
  `ImplementsLedger` needs no more than `Inv`, and no premise: it holds for any number of
  jobs and processes, whatever crashes or raises. Every copy a step makes, in the stream, the
  delayed set or the memory of a task, is one of a copy there was (`OldEntries`,
  `OldParked`, `InMemory`), so no job is opened again; and when the last copy of a job goes,
  `LostOnlyInAckWindow` in the next state says where the job went.
* `ExecutionProofs` (2413): `TypeOK` and `CrashResumesBounded`, whatever fails. Invariant: the
  types and `CountKept`, which relates the resume jobs that the sweep enqueued to the counter
  in the document and to the increment of a sweep between its update and its enqueue. It is
  needed because saves replace the whole document and rollbacks decrement. Under `Calm`
  (no worker, save, enqueue or request handler is lost, no job is slow; Redis, the sweeps and
  the insert of an approval request may fail) also `GateNeedsDecision`, `NodeOnce` and
  `TerminalStays`, by `CalmInv`: at most one request, sweep or job moves the execution on
  (`OneMover`) and the status tells which, or that there is none (`StatusTells`); every gate
  behind the walk is approved but the one that it waits at (`Behind`); no node ahead of the
  walk has been started (`Ahead`). From it and `Walk` (what was started is what lies behind the
  task that walks, or behind the checkpoint when no task does) follows the refinement
  `ImplementsPromise`: every step of a job, a request or a sweep is a step of `RunPromise` or
  leaves the user's view alone. With `RedisKeeps` (Redis answers, keys do not expire) also
  `CancelStopsLaterTasks`, by `CancelKept`: the flag of an answered cancel is set until the run
  has ended. These premises are no convenience: with slow jobs, a lost worker or an expired
  flag the five are false in the code (section 6). The constants of `exec_decisions` satisfy
  them.
* `DagProofs` (552): for graphs of any size, `TypeOK`, `ParentsFirst`, `RecordedNotRerun`,
  `CompletedSettlesAll`, `SkippedExactly`, `FailureHasCulprit`. First invariant: the set
  `executed` is the image of the results in memory and of the settled ones in the document
  (`ExecutedExact`), and the nodes of a batch are due (`BatchDue`). How a walk ends needs the
  second, `Whole`: nobody who is due is missing from the queue (`Frontier`), and the executed
  nodes are closed under parents and were skipped exactly when they had to be (`Verdicts`).
  That nothing is left when the queue is empty is an argument by a least counterexample in
  the topological order, so no induction over paths is needed. Lemma
  `NoOrphansBesideRoots`: a graph with a root has no orphan.
* `CronProofs` (745): `TypeOK`, `OneRunPerOccurrence` (for `Grace = 0`) and `NoOverlap`, for
  any number of replicas, leaders and failures. `Once`: the fire lock is set before a
  handler goes on and stays, so handlers that have not inserted yet have different
  occurrences. `Exclusive`: a handler inside the overlap lock holds it, and it is about to
  insert only when nothing is in flight. `Counted`: for every handler about to enqueue
  there is an execution without a job.
* `ControlProofs` (2722): `AuthoringSound` and the refinement `ImplementsLineage`, step by
  step: every command of an endpoint is a step of `DeployLineage` or leaves its state alone.
  Invariant: what a handler holds since its read is still true although others ran
  (`HandlersSound`: its copy is not newer than the document, the number it will make live was
  taken, what it prunes has `Keep` newer ones), and every number taken is kept, deleted by
  hand, or has `Keep` newer ones (`AllKept`). Then `AdmissionSound` and the action property
  `HaltBites`, for any number of replicas and calls. The halts rest on `SeenInTime`: a control
  that a find did not return was enabled after the clock was read for it, which holds of every
  cache entry and of every handler that has an answer in its hands. The limit rests on
  `Buckets`: the bucket of a token holds every call that a window ending now counts, so that a
  call is let in only when the window has room. `Presented` and `Stored` relate where a handler
  is to the credential it showed, with the moment it was looked up, and to what it has written.
* `ServicesProofs` (2989): `SlotsSound`, `BreakerLeftAlone` (an action property), `LimiterSound`,
  `LlmSound`, `FilesTagNotNewer`, `PoolSound`, each with an invariant of its own. Slots: the
  counter is at most the number of grants since its key got its expiry. Limiter: at most the
  limit passed in the current window of a key and in the `Window` before it, and any `Window`
  lies in these two. Breaker: the count of failures is the streak, and an open breaker
  remembers the latest failure. Pool: no container has two masters (`OneMaster`), the growth
  lock has one holder who found room (`Serial`), every container that Docker keeps is counted,
  being added, or leaked (`Accounted`), workspaces are empty except under their script (`Clean`).
* `NodesProofs` (3726): `ConnectionsSound`, `NodesSound`, `AssistantSound`. Connections: the
  credential that an edit merged is stored or typed, never the mask, and one that it kept is the
  document's while nobody else wrote (`EditInv`); a cached schema of an older configuration was
  late, lost its invalidation, or some edit is about to invalidate it (`DocumentInv`). Nodes: a
  delivery has behind it every step that it passed (`Behind`), a writer or sender did nothing
  before its one effect (`Single`), emails with one subject that neither overlapped nor lost
  anything nor outlived their marker come one by one (`OneByOne`), and an email that was not
  sent was sent by another delivery, or swallowed its failure (`Answered`); lemma `KindFacts` is what all this needs to know of the table
  `Steps`. Assistant: at most the last test is open, and where the turn stands tells what its
  job has come to (`WaitInv`); what was said of a test stays true while it moves on
  (`Forward`), and an edit keeps every end of an edge or puts it on record (`EndsKept`).
* `LibraryProofs` (5750): `AgentsSound`, `MediaSound` and `ProcessorsSound`. Agents, by `LoopInv`: the
  transcript matches what is still owed (`Paired`), no write that the guards can tell holds a thread
  (`Harmless`), and two counts over all agents: threads held, abandoned ones included, are at
  most `PoolSize`, and calls made or waiting at most what was charged and what the budget
  allows; what the client repeats is at most `max_retries` times the calls (`Repeats`). Media, by `MediaInv`:
  the references of a run are its own blobs and stay in the store until the run is swept or
  judged by the scan when not alive; the orphans of a scan belong to judged runs only; the entries of a folder
  followed by what is still to read are its listing (`Progress`). Processors, by
  `ProcessorInv`: no task exists before its attempt spreads (`Unborn`), and what a heard group
  left in its place is what became of it (`PlaceInv`), so that the groups that an earlier
  attempt left running can do nothing to the node. `SideInv` adds that the groups had slots
  and what a node without a model puts out. The rest of `ProcessorsSound` is a fact about
  completed nodes, proved from what a group comes to: its rows cover its records
  (`ProcessedRows`), the groups joined are the input (`GroupsJoined`), so the rows joined
  cover the input (`JoinedCovers`), and ranking loses none (`RankedRows`). Deduplication is
  followed record by record: after k records there is one for every key so far, in the order
  in which the keys came up (`Stage`). The folds and sorts in this are taken apart by hand:
  that the function a fold chooses exists (`FoldExists`), that a finite strict order gives
  every element its rank (`Ranks`), and an induction over numbers up to a bound (`Climb`) by
  way of the well-foundedness of `<`, none of which needs an operator as a parameter.

The assumptions are the `ConstantsAssumption` of each module: ranges of the bounds, and
finiteness of the replicas. For the components of `Control` (admission), `Services` and `Nodes`
they are hypotheses of the theorems (`EntryConstants`, `PoolConstants`, `LoopConstants`, ...):
numbers are naturals, the cache entry and the window live for a positive time, the sets of
calls, agents and runs are finite, the records of one input have ids of their own and scores
that are integers or missing (`RecordConstants`), names used as markers ("free", "org", a death's number) are
not runs or users, and, in `MediaConstants`, a filtered listing is a sequence of files, which
the provers cannot see of `SelectSeq`. The instances of the runs satisfy them.

Only model-checked are the liveness properties (`EveryJobSettles`, `EveryRunSettles`,
`LeadershipSettles`), out of the prover's reach, and `RunsBounded`, a count over histories that
`MCJobQueue` keeps beside the queue.

## 5. Reading the runs

`tlc -config X.cfg M` with the module and configuration of the run in `PROJECT.json`;
`tlapm XProofs.tla` for the proofs. The statements of section 6 are definitions at the end
of their modules: put one in place of a run's properties to see its counterexample, with
the values that the text names.

## 6. Where the code and its documentation differ

Each of these is a behaviour of the model, found by TLC as a counterexample to the
definition named. The first is a run of the project.

* `GateNeedsApproval` with slow jobs (`ExecutionGateBypass.cfg`): the stuck sweep takes a
  run that waited as `queued` past the cutoff for a crashed one and enqueues
  `workflow.resume` with `approved=True` (`scheduler.py:1171`); if the run's own job
  meanwhile pauses at the gate, that job passes it. Similarly, with `MaxDeliveries = 2`
  and a worker that dies, a resume job of gate 1 that is delivered again passes gate 2, because the job names the
  execution and not the gate. With two gates it needs no failure at all (the constants of
  `exec_decisions`): of two officers who both read that the run waits at gate 1, the second
  wins the compare-and-set after the first one's job has reached gate 2, and his approval of
  gate 1 passes gate 2, because the filter is the status alone (`router.py:2002`).
  `GateNeedsDecision` is what holds.
* `NothingLeftBehind` (DagExecutor): after an approval only the children of the gate are
  walked (`executor.py:821`); nodes of the same round and of other branches never run, and
  the run is COMPLETED. `CompletedSettlesAll` is what holds.
* `NeverLost` (JobQueue): `mark_failed` acks before it parks the copy (`queue.py:540`); the
  module promises at-least-once delivery.
* `NoDoubleRun` with two jobs and `MaxRetries = 3`: a job of a reclaimed batch waits behind
  another one and is reclaimed by a second process. `CrashLoopBounded` with two jobs and
  `ClaimCount = 1`: the delivery counts are read for the lowest pending ids, not for the claimed ones (`queue.py:409`).
  `RunsBounded` is what holds: the handler is called for a delivery over the budget once for every time that the probe did not list it.
  `EveryJobSettles` with one process and `MaxFaults = 1`: a loop that ended on an exception is not started
  again while the process lives (`worker.py:269`).
* `RejectionStands`: a rejected run whose resume job dies is resumed as approved.
  `CancelStopsLaterTasks` with `Expiry`: once the Redis flag has expired nobody reads the
  durable cancel marker. `TerminalStays` with `SlowRuns`: the unconditional save of a
  task that outlived a sweep or a cancel overwrites what they wrote.
* `RestartResumes`: a redelivered `workflow.run` starts over; the README says "a restart
  resumes, it does not restart". `StatusIsCanonical`: the status endpoint goes on answering
  from the cache after a sweep changed the document.
* `EveryRunSettles` with two gates, or with the fault kinds `timer` and `insert`: a second
  gate reached in `resume()` has no approval request (`executor.py:981`), and an approval
  sweep that dies after marking the request leaves the run paused: for good.
* `SkippedExactly` and `FailureHasCulprit` without their premise `restarts = 0`: `resume()` claims the "same logic
  as execute()" but does not propagate skips and ignores `continue_on_error`.
  `TriggersAreNotOrphans`: a workflow of one trigger node fails as having no trigger
  (`executor.py:386` compares `str()` of an enum member).
* `LeadersHoldTheKey`: with `use_redis` off after a lost connection a replica leads on the
  static flag (`scheduler.py:262-265`), although the comment below says "Fail CLOSED". The
  fire lock keeps this from firing twice.
* `ScheduleServed`: two concurrent schedule changes announced in the other order than
  written, or the self-heal of a handler that read the old document, leave an enabled
  schedule unregistered until the next election; so does a failed load
  (`scheduler.py:434`).
* Authoring. `NoSilentOverwrite`: `expected_version` is compared with a copy read earlier
  and the write does not repeat it (`router.py:2811`). `LiveNotErased`: a version becomes
  live between the check and the deletion. `LiveIsSnapshot`: runs load the document, which
  edits change after the deploy. `RotationSticks`: a deploy that read the document before a
  rotation writes the old token back. `RestoreRuns`: restore writes a status that
  `WorkflowDefinition` does not accept.
* Admission. `QueuedHasJob`: the update that marks a run failed when its job could not be
  enqueued may raise itself, and the insert may have been done although it raised
  (`router.py:2366, 4294, 4404`): a queued document stays that no job will run; its caller got a 500.
  `GraceHonoured`: the previous token is found during its grace period, but the
  signature is checked with the new secret.
* Services. `RaisedIsBilled` (LlmCall): the totals are locals, and a call that raises after a
  round of tools or a truncated answer tracks nothing of what it used (`oss.py:412-433`).
  `CapHolds` (RunSlots): the counter expires under running executions.
  `SingleTrial` (CircuitBreaker): in half-open every caller passes. `TierCapHolds`,
  `GrownRequestFits` (LlmCall): the retry of a truncated answer doubles past the tier's cap, and
  tool rounds grow the prompt without another look at the context.
  `NeverOverMax` (SandboxPool): the count goes down although the removal failed
  (`sandbox_pool.py:322-331`), so Docker may hold more containers than the maximum;
  `WithinMax` is what holds.
  `ReaperSparesTracked` (SandboxPool): the reaper works on a snapshot of the known ids and
  meets containers made since. `ReadsCurrent` (SandboxFileCache): a run may link what another
  run stored meanwhile.
* Connections. `NoHeaderMask`: with one header typed anew, the mask of another is stored
  (`router.py:1566-1577`). `NoSecretRevert`: an echoed mask puts back the secret that was read,
  over one that a concurrent edit wrote. `NextRunRediscovers`: a discovery that overlaps the
  edit caches the old schema after the invalidation (`router.py:1700`).
* Agents. `RequestsWithinLimit`: "a single workflow RUN may make at most N LLM calls"
  (`llm_budget.py:12`), but the client repeats a failed request up to five times on one charge
  (`citra_llm/client.py:67`). `NothingWrites`: SQL is read-only by its words
  (`nodes/agents.py:247-266`: `SELECT ... INTO` and functions with effects pass), HTTP by its
  method, and `code_execute` is passed through (471-473).
  `OnlyListed`: built-in tools run whether the node lists them or not
  (`nodes/agents.py:1298`, against the text at 1430). `BlockedIsFinal`: when the audit record
  of a blocked write cannot be written, the error that replaces it is retried.
* Media. `QueuedMediaKept`: the orphan sweep takes the media of a queued run, and of an upload
  whose document is not inserted yet (`router.py:4066`, against the comment at 4190).
  `RestartHasMedia`: a job that is delivered again after the run's end starts the run over
  (`workflow_handlers.py:111-119` has no guard), and its upload went with the first end.
  `TimedOutIsSwept`: the `finally` of the cancelled walk still finds the run running, and
  TIMED_OUT is set after it (`executor.py:327-345`), so nothing is swept, against "EVERY
  terminal exit" (705).
* Nodes. `MailOnce`: the marker is set after the send, lives for a day, and is keyed by the
  recipient and the rendered subject (`nodes/outputs.py:509-519, 563`): a delivery that renders
  another subject, or comes a day later, mails again.
  `NoRepeatedPost`: an API source that POSTs and an MCP tool with `allow_writes` are sources,
  and are retried.
* Processors. `NoBorrowedAnswer`: a record without an answer takes one by position, and the
  prompts do not say whether `record_index` counts from zero (`processors.py:698-705, 996-1000`): if
  the model counts from one, records take the answers of their neighbours.
  `ConcurrencyHolds`, `QuietAfterEnd`: the groups of a failed attempt go on beside the next one
  and after the node failed. `DuplicatesAgree`: the key of a record drops the names of the
  fields, so an email may equal a name.
* Assistant. `ResultIsOfThisTest`: after a test without a summary the result of the one before
  is shown again (`ai_assistant.py:1292`). `NotPersistedIsTrue`: a paused test approved between
  two reads is reported as not persisted. `UneditedIsUntouched`: an update that fails half way
  has changed the working copy. `EdgesHaveEnds`: an update of a node's `id` leaves its edges with
  the old one (`ai_assistant.py:846-849`). `ReferencesReported`: an unknown type or connection makes
  a proposal unclean (523), but only graph and config errors are fed back to the model (1238-1241).
  `NotStartedIsTrue`: the enqueue of a test may lose its reply after the XADD (`queue.py:265-273`);
  the document is marked failed and the model hears that the test could not start (725-737),
  while it runs.

Met while reading, not a state of a model: the vision and OCR nodes charge no LLM calls,
although `llm_budget.py:12` says that every call site does; the approval of an assistant's
test resumes the saved workflow, not the tested canvas (`workflow_handlers.py:163`); the
webhook output ignores the HTTP status.

## 7. Not modelled, and why

* `_validate_dag` itself (its result is the set `Shapes`).
* Nodes of a type without a class. The walk would record such a node as FAILED, count it as
  executed and go on without its children (`executor.py:542-550, 928-936`), unlike `FailNode`,
  and such a run could be COMPLETED. No definition has one: `NodeDefinition.type` is a member of
  `NodeType` (`models.py:152`), and each member has a registered class.
* The step limit of a run (`executor.py:553-557`) and exceptions of the walk itself: the run fails
  though no node did, so `FailureHasCulprit` speaks of the failures of nodes only.
* The branch of the stuck sweep for assistant test runs.
* In `Assistant`, an `update_node` that writes an `id` which another node has already: two nodes
  of one id, told apart by nothing but their place.
* In `Media`, two walks of one run at the same time (a job that is delivered again while its
  first worker goes on; `JobQueue` has them): a job is delivered again when that worker is gone.
* In `CronScheduler`, clocks of replicas that disagree on the minute, and two replicas
  with the same `SCHEDULER_INSTANCE_ID` (host names are cut to 12 characters,
  `config.py:269`).
* DataTransform, MergeData, the parsing of documents, prompts, context texts and the
  reference validator: functions of one input without state. Streaming and the providers
  beside `oss.py`: calls of outside services.
* Token revocation, the mails about approvals and failures, tracing, vault start-up, the
  user service (JavaScript, met only as the issuer of tokens) and the user interface.
* `bucket.py`: single calls to an S3 service, external in the models of its users; no
  service of the repository mounts its endpoints.

## 8. Plan

Every safety property of section 3 but `RunsBounded` is proved. What is left is out of reach of the proofs
(liveness, section 4) or of the models (section 7).
