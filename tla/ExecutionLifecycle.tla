------------------------- MODULE ExecutionLifecycle -------------------------
(***************************************************************************)
(* The life of ONE workflow execution: its WorkflowExecutions document and *)
(* everyone who writes it.                                                 *)
(*                                                                         *)
(*   router.py      execute (insert + enqueue), approve / reject, cancel   *)
(*   executor.py    execute() and resume() in a worker, their saves        *)
(*   scheduler.py   the stuck-execution sweep and the approval-timeout     *)
(*                  sweep                                                  *)
(*                                                                         *)
(* They share no lock: a writer reads the document, awaits, and writes it  *)
(* back, some with a compare-and-set on status, some unconditionally.  An  *)
(* action is what one actor does between two awaits on Mongo or Redis.     *)
(*                                                                         *)
(* The graph is a chain of NodeCount nodes; Gates are its human_approval   *)
(* nodes (branching is the subject of DagExecutor); node_results is then a *)
(* number, the completed prefix.  The job queue is used through what       *)
(* JobQueue shows of it: a job is delivered, delivered again after a crash *)
(* or a transient failure, and dead-lettered when MaxDeliveries is spent.  *)
(***************************************************************************)
EXTENDS Integers, Sequences, FiniteSets

CONSTANTS
  NodeCount,        \* number of nodes in the chain
  Gates,            \* the human_approval nodes
  Officers,         \* people who may approve or reject, one request each
  Cancels,          \* does an operator press Cancel (once)?
  MaxCrashResumes,  \* WF_MAX_CRASH_RESUME_ATTEMPTS
  MaxDeliveries,    \* deliveries of one job before it is dead-lettered
  SlowRuns,         \* may a job wait, or a resume run, for longer than the
                    \* stuck cutoff (timeout + grace)?
  Expiry,           \* may PROGRESS_CACHE_TTL run out on the Redis keys?
  FaultKinds,       \* which of the failures below may happen
  MaxJobs,          \* bound: jobs ever enqueued
  MaxFaults         \* bound: failures that happen

AllFaults ==
  {"worker", "save", "enqueue", "cache", "api", "sweeper", "timer", "insert"}

ASSUME ConstantsAssumption ==
  /\ NodeCount \in Nat /\ Gates \subseteq 1..NodeCount
  /\ MaxCrashResumes \in Nat /\ MaxDeliveries \in Nat \ {0}
  /\ Cancels \in BOOLEAN /\ SlowRuns \in BOOLEAN /\ Expiry \in BOOLEAN
  /\ FaultKinds \subseteq AllFaults
  /\ MaxJobs \in Nat /\ MaxFaults \in Nat

VARIABLES
  doc,        \* the WorkflowExecutions document
  approvals,  \* WorkflowApprovals: unresolved requests per gate
  flag,       \* Redis workflow:cancel:<id>
  view,       \* Redis workflow:exec:<id>, the status in the progress cache
  jobs,       \* the jobs of this execution, each with the task running it
  submitter,  \* the execute endpoint
  officer,    \* approve / reject requests
  canceller,  \* the cancel request
  sweep,      \* _check_stuck_executions
  timer,      \* _check_approval_timeouts
  faults,
  ran,        \* history: how often each node was started
  approved, rejected,  \* history: gates at which a decision won its CAS
  crashJobs   \* history: resume jobs the stuck sweep knows it enqueued

redis == <<flag, view>>
requests == <<submitter, officer, canceller>>
sweeps == <<sweep, timer>>
history == <<ran, approved, rejected, crashJobs>>
vars == <<doc, approvals, redis, jobs, requests, sweeps, faults, history>>

-----------------------------------------------------------------------------
(***************************************************************************)
(* Data.                                                                   *)
(***************************************************************************)

Nodes == 1..NodeCount
Terminal == {"completed", "failed", "timed_out", "cancelled"}
Statuses == Terminal \cup {"none", "queued", "running", "paused", "resuming"}

\* paused_at_node (0: null), the completed prefix of node_results,
\* crash_resume_count, cancel_requested; startOld / resumeOld: started_at /
\* resumed_at lies before the stuck cutoff; runner: the task that is running
\* and wrote started_at, 0 when there is none.
Docs == [status : Statuses, paused : Gates \cup {0}, done : 0..NodeCount,
         crashes : Nat, cancel : BOOLEAN, startOld : BOOLEAN,
         resumeOld : BOOLEAN, runner : Nat]

JobKinds == {"run", "approve", "reject", "crash"}
\* "loop": the task stands at a node boundary; "reject": it is about to save
\* the rejection; "acking": the handler returned, the entry is not acked.
JobStates == {"queued", "loop", "reject", "acking", "ended", "dead"}
\* done, paused: completed prefix and paused_at_node in the task's
\* WorkflowExecution object; told (history): the task started after a cancel
\* request had been answered.
JobRecords == [kind : JobKinds, st : JobStates, tries : Nat,
               done : 0..NodeCount, paused : Gates \cup {0}, told : BOOLEAN]

NewJob(k) == [kind |-> k, st |-> "queued", tries |-> 0, done |-> 0,
              paused |-> 0, told |-> FALSE]
Open(j) == jobs[j].st \in {"queued", "loop", "reject", "acking"}
JobIds == DOMAIN jobs

Fault(k) == k \in FaultKinds /\ faults < MaxFaults /\ faults' = faults + 1
NoFault == faults' = faults
\* Any single Redis command on these keys may raise.
CacheMayFail == "cache" \in FaultKinds

-----------------------------------------------------------------------------
(***************************************************************************)
(* Shared steps.                                                           *)
(***************************************************************************)

\* citra_queue.enqueue returned.
Enqueued(k) ==
  /\ Len(jobs) < MaxJobs
  /\ jobs' = Append(jobs, NewJob(k))

\* citra_queue.enqueue raised: nothing was added, or only the reply was lost.
EnqueueRaised(k) ==
  /\ Fault("enqueue")
  /\ \/ jobs' = jobs
     \/ Enqueued(k)

\* The document after the WorkflowExecution object of task j is $set over it.
\* cancel_requested, crash_resume_count and resumed_at are not fields of the
\* model, so they survive.  A run's object carries its own started_at.
Saved(d, j, s, p, n) ==
  [d EXCEPT !.status = s, !.paused = p, !.done = n,
            !.startOld = IF jobs[j].kind = "run" THEN FALSE ELSE @,
            !.runner = IF jobs[j].kind = "run" /\ s = "running" THEN j ELSE @]

\* _save_execution: no condition on the stored status; an error is swallowed.
SaveExecution(j, s, p, n) ==
  \/ doc' = Saved(doc, j, s, p, n) /\ NoFault
  \/ Fault("save") /\ doc' = doc

\* _update_progress: a cache error is swallowed.
Progress(s) == view' = s \/ (CacheMayFail /\ view' = view)

\* The handler of job j returns with the document left in status s.
Finish(j, s, p, n) ==
  /\ SaveExecution(j, s, p, n)
  /\ Progress(s)
  /\ jobs' = [jobs EXCEPT ![j].st = "acking", ![j].done = n]

\* Transient failure or crash of job j: again, or dead-lettered.
Redeliver(j) ==
  jobs' = [jobs EXCEPT ![j].tries = @ + 1, ![j].done = 0, ![j].paused = 0,
                       ![j].told = FALSE,
                       ![j].st = IF jobs[j].tries + 1 < MaxDeliveries
                                 THEN "queued" ELSE "dead"]

-----------------------------------------------------------------------------
(***************************************************************************)
(* Submission: POST /execute (router.py).                                  *)
(***************************************************************************)

\* The document is inserted as "queued"; started_at is this moment.
Submit ==
  /\ submitter = "idle"
  /\ submitter' = "enqueue"
  /\ doc' = [doc EXCEPT !.status = "queued"]
  /\ UNCHANGED <<approvals, redis, jobs, officer, canceller, sweeps, faults,
                 history>>

SubmitEnqueue ==
  /\ submitter = "enqueue"
  /\ Enqueued("run")
  /\ submitter' = "done"
  /\ UNCHANGED <<doc, approvals, redis, officer, canceller, sweeps, faults,
                 history>>

SubmitRaises ==
  /\ submitter = "enqueue"
  /\ EnqueueRaised("run")
  /\ submitter' = "failed"
  /\ UNCHANGED <<doc, approvals, redis, officer, canceller, sweeps, history>>

SubmitFails ==
  /\ submitter = "failed"
  /\ submitter' = "done"
  /\ doc' = [doc EXCEPT !.status = "failed"]
  /\ UNCHANGED <<approvals, redis, jobs, officer, canceller, sweeps, faults,
                 history>>

-----------------------------------------------------------------------------
(***************************************************************************)
(* The worker: handlers workflow.run and workflow.resume.                  *)
(***************************************************************************)

Told == doc.cancel /\ canceller.pc \in {"cas", "done"}

\* execute(): a fresh WorkflowExecution, whatever the document says; the
\* RUNNING status goes to the progress cache only.
StartRun(j) ==
  /\ jobs[j].kind = "run" /\ jobs[j].st = "queued"
  /\ jobs' = [jobs EXCEPT ![j].st = "loop", ![j].done = 0, ![j].told = Told]
  /\ Progress("running")
  /\ UNCHANGED <<doc, approvals, flag, requests, sweeps, faults, history>>

\* No free slot: ConcurrencyLimitError becomes a transient job failure.
RunRefused(j) ==
  /\ jobs[j].kind = "run" /\ jobs[j].st = "queued"
  /\ Redeliver(j)
  /\ UNCHANGED <<doc, approvals, redis, requests, sweeps, faults, history>>

Resumable == doc.status \in {"paused", "resuming"}

\* The "approved" field of a workflow.resume payload, by who enqueued it.
Approves(k) == k # "reject"

\* Mutant of StartResume: node_results are not restored.
StartResumeAfresh(j) ==
  /\ jobs[j].kind # "run" /\ jobs[j].st = "queued"
  /\ Resumable
  /\ jobs' = [jobs EXCEPT ![j].st = "loop", ![j].done = 0, ![j].told = Told]
  /\ view' = "running"
  /\ UNCHANGED <<doc, approvals, flag, requests, sweeps, faults, history>>

\* resume() on the document as loaded: node_results are kept.
StartResume(j) ==
  /\ jobs[j].kind # "run" /\ jobs[j].st = "queued"
  /\ Resumable
  /\ IF Approves(jobs[j].kind)
     THEN /\ jobs' = [jobs EXCEPT ![j].st = "loop", ![j].done = doc.done,
                                  ![j].told = Told]
          /\ Progress("running")
     ELSE /\ jobs' = [jobs EXCEPT ![j].st = "reject", ![j].done = doc.done,
                                  ![j].paused = doc.paused, ![j].told = Told]
          /\ view' = view
  /\ UNCHANGED <<doc, approvals, flag, requests, sweeps, faults, history>>

\* resume() raises ValueError on any other status: a transient job failure.
ResumeRefused(j) ==
  /\ jobs[j].kind # "run" /\ jobs[j].st = "queued"
  /\ ~Resumable
  /\ Redeliver(j)
  /\ UNCHANGED <<doc, approvals, redis, requests, sweeps, faults, history>>

\* resume(approved=False): FAILED, paused_at_node stays as loaded.
RejectRun(j) ==
  /\ jobs[j].st = "reject"
  /\ Finish(j, "failed", jobs[j].paused, jobs[j].done)
  /\ UNCHANGED <<approvals, flag, requests, sweeps, history>>

\* _is_cancel_requested at the boundary, then _mark_cancelled; deleting the
\* flag may fail, which is swallowed.
ObserveCancel(j) ==
  /\ jobs[j].st = "loop" /\ jobs[j].done < NodeCount /\ flag
  /\ Finish(j, "cancelled", 0, jobs[j].done)
  /\ flag' \in {FALSE, CacheMayFail}
  /\ UNCHANGED <<approvals, requests, sweeps, history>>

\* The boundary lets the next node start: no flag, or the probe raised.
AtNode(j) ==
  /\ jobs[j].st = "loop" /\ jobs[j].done < NodeCount
  /\ ~flag \/ CacheMayFail

\* A node completes.  execute() checkpoints after it when the throttle
\* (CHECKPOINT_INTERVAL_SECONDS) allows, resume() never does.
RunNode(j) ==
  LET n == jobs[j].done + 1 IN
  /\ AtNode(j) /\ n \notin Gates
  /\ ran' = [ran EXCEPT ![n] = @ + 1]
  /\ jobs' = [jobs EXCEPT ![j].done = n]
  /\ Progress("running")
  /\ \/ doc' = doc /\ NoFault
     \/ jobs[j].kind = "run" /\ SaveExecution(j, "running", 0, n)
  /\ UNCHANGED <<approvals, flag, requests, sweeps, approved, rejected,
                 crashJobs>>

\* A node fails, or the loop raises: fail fast.
FailNode(j) ==
  LET n == jobs[j].done + 1 IN
  /\ AtNode(j)
  /\ ran' = [ran EXCEPT ![n] = @ + 1]
  /\ Finish(j, "failed", 0, jobs[j].done)
  /\ UNCHANGED <<approvals, flag, requests, sweeps, approved, rejected,
                 crashJobs>>

\* _create_approval_request: only execute() calls it; an insert that raises is
\* swallowed.
ApprovalRequested(j, n) ==
  \/ /\ jobs[j].kind = "run"
     /\ approvals' = [approvals EXCEPT ![n] = @ + 1]
  \/ /\ jobs[j].kind # "run" \/ "insert" \in FaultKinds
     /\ approvals' = approvals

\* A human_approval node parks the run; resume() saves the pause without a
\* request.
Pause(j) ==
  LET n == jobs[j].done + 1 IN
  /\ AtNode(j) /\ n \in Gates
  /\ ApprovalRequested(j, n)
  /\ ran' = [ran EXCEPT ![n] = @ + 1]
  /\ Finish(j, "paused", n, n)
  /\ UNCHANGED <<flag, requests, sweeps, approved, rejected, crashJobs>>

\* The walk is over (no cancel check here).
Complete(j) ==
  /\ jobs[j].st = "loop" /\ jobs[j].done = NodeCount
  /\ Finish(j, "completed", 0, NodeCount)
  /\ UNCHANGED <<approvals, flag, requests, sweeps, history>>

\* EXECUTION_TIMEOUT_SECONDS: execute() only, resume() has no such limit.
TimeOut(j) ==
  /\ jobs[j].kind = "run" /\ jobs[j].st = "loop"
  /\ Finish(j, "timed_out", 0, jobs[j].done)
  /\ UNCHANGED <<approvals, flag, requests, sweeps, history>>

\* The entry is acked.
Ack(j) ==
  /\ jobs[j].st = "acking"
  /\ jobs' = [jobs EXCEPT ![j].st = "ended"]
  /\ doc' = [doc EXCEPT !.runner = IF @ = j THEN 0 ELSE @]
  /\ UNCHANGED <<approvals, redis, requests, sweeps, faults, history>>

\* The worker process dies before the ack; the entry is claimed again later.
WorkerDies(j) ==
  /\ jobs[j].st \in {"loop", "reject", "acking"}
  /\ Fault("worker")
  /\ Redeliver(j)
  /\ doc' = [doc EXCEPT !.runner = IF @ = j THEN 0 ELSE @]
  /\ UNCHANGED <<approvals, redis, requests, sweeps, history>>

JobStep(j) ==
  \/ StartRun(j) \/ RunRefused(j) \/ StartResume(j) \/ ResumeRefused(j)
  \/ RejectRun(j) \/ ObserveCancel(j) \/ RunNode(j) \/ FailNode(j)
  \/ Pause(j) \/ Complete(j) \/ TimeOut(j) \/ Ack(j)

-----------------------------------------------------------------------------
(***************************************************************************)
(* Approve / reject: _enqueue_resume (router.py).                          *)
(***************************************************************************)

\* The read that answers 400 unless the run is paused.
Look(o) ==
  /\ officer[o].pc = "idle" /\ doc.status = "paused"
  /\ \E k \in {"approve", "reject"} :
       officer' = [officer EXCEPT
         ![o] = [pc |-> "decide", kind |-> k, read |-> doc.paused, hit |-> 0]]
  /\ UNCHANGED <<doc, approvals, redis, jobs, submitter, canceller, sweeps,
                 faults, history>>

\* Mutant of DecideFilter: a second click is let through.
DecideAlsoResuming == doc.status \in {"paused", "resuming"}

\* The filter of the compare-and-set: status, not the gate that was read.
DecideFilter == doc.status = "paused"

\* The compare-and-set PAUSED -> RESUMING; a loser answers 409.
Decide(o) ==
  /\ officer[o].pc = "decide"
  /\ IF DecideFilter
     THEN /\ doc' = [doc EXCEPT !.status = "resuming", !.resumeOld = FALSE]
          /\ officer' = [officer EXCEPT ![o].pc = "enqueue",
                                        ![o].hit = doc.paused]
          /\ IF officer[o].kind = "approve"
             THEN approved' = approved \cup {doc.paused} /\ UNCHANGED rejected
             ELSE rejected' = rejected \cup {doc.paused} /\ UNCHANGED approved
     ELSE /\ officer' = [officer EXCEPT ![o].pc = "done"]
          /\ UNCHANGED <<doc, approved, rejected>>
  /\ UNCHANGED <<approvals, redis, jobs, submitter, canceller, sweeps, faults,
                 ran, crashJobs>>

DecideEnqueue(o) ==
  /\ officer[o].pc = "enqueue"
  /\ Enqueued(officer[o].kind)
  /\ officer' = [officer EXCEPT ![o].pc = "done"]
  /\ UNCHANGED <<doc, approvals, redis, submitter, canceller, sweeps, faults,
                 history>>

DecideRaises(o) ==
  /\ officer[o].pc = "enqueue"
  /\ EnqueueRaised(officer[o].kind)
  /\ officer' = [officer EXCEPT ![o].pc = "rollback"]
  /\ UNCHANGED <<doc, approvals, redis, submitter, canceller, sweeps, history>>

\* The rollback to PAUSED has no condition on the status.
DecideRollback(o) ==
  /\ officer[o].pc = "rollback"
  /\ doc' = [doc EXCEPT !.status = "paused"]
  /\ officer' = [officer EXCEPT ![o].pc = "done"]
  /\ UNCHANGED <<approvals, redis, jobs, submitter, canceller, sweeps, faults,
                 history>>

OfficerStep(o) ==
  Decide(o) \/ DecideEnqueue(o) \/ DecideRaises(o) \/ DecideRollback(o)

\* The API process dies before the handler is through.
RequestDies ==
  /\ Fault("api")
  /\ \/ /\ submitter \in {"enqueue", "failed"} /\ submitter' = "done"
        /\ UNCHANGED officer
     \/ /\ \E o \in Officers :
             /\ officer[o].pc \in {"enqueue", "rollback"}
             /\ officer' = [officer EXCEPT ![o].pc = "done"]
        /\ UNCHANGED submitter
  /\ UNCHANGED <<doc, approvals, redis, jobs, canceller, sweeps, history>>

-----------------------------------------------------------------------------
(***************************************************************************)
(* Cancel: cancel_execution (router.py).                                   *)
(***************************************************************************)

\* The read that answers 409 on a finished run.
CancelRead ==
  /\ Cancels /\ canceller.pc = "idle"
  /\ doc.status \notin Terminal \cup {"none"}
  /\ canceller' = [pc |-> "mark", seen |-> doc.status]
  /\ UNCHANGED <<doc, approvals, redis, jobs, submitter, officer, sweeps,
                 faults, history>>

\* The durable marker.
CancelMark ==
  /\ canceller.pc = "mark"
  /\ doc' = [doc EXCEPT !.cancel = TRUE]
  /\ canceller' = [canceller EXCEPT !.pc = "flag"]
  /\ UNCHANGED <<approvals, redis, jobs, submitter, officer, sweeps, faults,
                 history>>

\* The Redis flag; without it only a paused run can be cancelled (503).
CancelFlag ==
  /\ canceller.pc = "flag"
  /\ \/ /\ flag' = TRUE /\ NoFault
        /\ canceller' = [canceller EXCEPT !.pc =
                           IF canceller.seen = "paused" THEN "cas" ELSE "done"]
     \/ /\ Fault("cache") /\ flag' = flag
        /\ canceller' = [canceller EXCEPT !.pc =
                           IF canceller.seen = "paused" THEN "casOnly"
                           ELSE "refused"]
  /\ UNCHANGED <<doc, approvals, view, jobs, submitter, officer, sweeps,
                 history>>

\* Mutant of CancelCas: the flag is cleared although the CAS was lost.
CancelCasClears ==
  /\ canceller.pc \in {"cas", "casOnly"}
  /\ doc' = [doc EXCEPT !.status = IF @ = "paused" THEN "cancelled" ELSE @]
  /\ view' = "none" /\ flag' = FALSE
  /\ canceller' = [canceller EXCEPT !.pc = "done"]
  /\ UNCHANGED <<approvals, jobs, submitter, officer, sweeps, faults, history>>

\* Compare-and-set PAUSED -> CANCELLED for a run that was read as paused.
\* The winner drops the cached progress and the spent flag.
CancelCas ==
  /\ canceller.pc \in {"cas", "casOnly"}
  /\ IF doc.status = "paused"
     THEN /\ doc' = [doc EXCEPT !.status = "cancelled"]
          /\ \/ view' = "none" /\ flag' = FALSE
             \/ CacheMayFail /\ UNCHANGED redis
          /\ canceller' = [canceller EXCEPT !.pc = "done"]
     ELSE /\ canceller' = [canceller EXCEPT !.pc =
                             IF @ = "cas" THEN "done" ELSE "refused"]
          /\ UNCHANGED <<doc, redis>>
  /\ UNCHANGED <<approvals, jobs, submitter, officer, sweeps, faults, history>>

CancelStep == CancelMark \/ CancelFlag \/ CancelCas

-----------------------------------------------------------------------------
(***************************************************************************)
(* Time.                                                                   *)
(***************************************************************************)

\* Request handlers and sweeps take far less time than any timeout, so time
\* passes only between them.
HandlersIdle ==
  /\ submitter \in {"idle", "done"}
  /\ \A o \in Officers : officer[o].pc \in {"idle", "done"}
  /\ canceller.pc \in {"idle", "done", "refused"}
  /\ sweep.pc = "idle"

\* The premise of the stuck sweep: past the cutoff nobody is at work.
NobodyAtWork == ~\E j \in JobIds : Open(j)

\* A run writes its own started_at and is stopped by EXECUTION_TIMEOUT
\* before the cutoff, so started_at ages only when its writer is gone.
StartAges ==
  /\ doc.status \in {"queued", "running"} /\ ~doc.startOld
  /\ doc.runner = 0
  /\ HandlersIdle /\ (SlowRuns \/ NobodyAtWork)
  /\ doc' = [doc EXCEPT !.startOld = TRUE]
  /\ UNCHANGED <<approvals, redis, jobs, requests, sweeps, faults, history>>

\* Nothing bounds how long a resume job waits or runs.
ResumeAges ==
  /\ doc.status = "resuming" /\ ~doc.resumeOld
  /\ HandlersIdle /\ (SlowRuns \/ NobodyAtWork)
  /\ doc' = [doc EXCEPT !.resumeOld = TRUE]
  /\ UNCHANGED <<approvals, redis, jobs, requests, sweeps, faults, history>>

\* PROGRESS_CACHE_TTL of the cancel flag and of the progress entry.  A running
\* task polls the flag every NODE_TIMEOUT_SECONDS, well within the TTL.
FlagExpires ==
  /\ Expiry /\ HandlersIdle
  /\ ~\E j \in JobIds : jobs[j].st = "loop"
  /\ flag /\ flag' = FALSE
  /\ UNCHANGED <<doc, approvals, view, jobs, requests, sweeps, faults, history>>

ViewExpires ==
  /\ Expiry /\ HandlersIdle /\ view # "none" /\ view' = "none"
  /\ UNCHANGED <<doc, approvals, flag, jobs, requests, sweeps, faults, history>>

-----------------------------------------------------------------------------
(***************************************************************************)
(* _check_stuck_executions (scheduler.py).  A Redis lock makes it one      *)
(* sweep at a time.                                                        *)
(***************************************************************************)

\* Mutant of Stuck: a run that died while resuming is not looked for.
StuckNotResuming == doc.status \in {"queued", "running"} /\ doc.startOld

Stuck ==
  \/ doc.status \in {"queued", "running"} /\ doc.startOld
  \/ doc.status = "resuming" /\ doc.resumeOld

SweepRead ==
  /\ sweep.pc = "idle" /\ Stuck
  /\ sweep' = [pc |-> "cas", status |-> doc.status, crashes |-> doc.crashes,
               cancel |-> doc.cancel]
  /\ UNCHANGED <<doc, approvals, redis, jobs, requests, timer, faults, history>>

SweepIdle == [pc |-> "idle", status |-> "none", crashes |-> 0,
              cancel |-> FALSE]

\* Mutant of AttemptsLeft: off by one.
AttemptsLeftInclusive == sweep.crashes <= MaxCrashResumes

AttemptsLeft == sweep.crashes < MaxCrashResumes

\* Compare-and-set on the status that was read: cancelled, crash-resumed, or
\* given up.
SweepCas ==
  /\ sweep.pc = "cas"
  /\ \/ /\ doc.status # sweep.status
        /\ sweep' = SweepIdle /\ UNCHANGED doc
     \/ /\ doc.status = sweep.status /\ sweep.cancel
        /\ doc' = [doc EXCEPT !.status = "cancelled"]
        /\ sweep' = SweepIdle
     \/ /\ doc.status = sweep.status /\ ~sweep.cancel
        /\ AttemptsLeft
        /\ doc' = [doc EXCEPT !.status = "resuming", !.resumeOld = FALSE,
                              !.crashes = @ + 1]
        /\ sweep' = [sweep EXCEPT !.pc = "enqueue"]
     \/ /\ doc.status = sweep.status /\ ~sweep.cancel
        /\ ~AttemptsLeft
        /\ doc' = [doc EXCEPT !.status = "failed"]
        /\ sweep' = SweepIdle
  /\ UNCHANGED <<approvals, redis, jobs, requests, timer, faults, history>>

\* workflow.resume with approved=True, whatever was decided before.
SweepEnqueue ==
  /\ sweep.pc = "enqueue"
  /\ Enqueued("crash")
  /\ crashJobs' = crashJobs + 1
  /\ sweep' = SweepIdle
  /\ UNCHANGED <<doc, approvals, redis, requests, timer, faults, ran, approved,
                 rejected>>

SweepRaises ==
  /\ sweep.pc = "enqueue"
  /\ EnqueueRaised("crash")
  /\ sweep' = [sweep EXCEPT !.pc = "rollback"]
  /\ UNCHANGED <<doc, approvals, redis, requests, timer, history>>

\* Mutant of SweepRollback: the count is taken back twice.
SweepRollbackTwice ==
  /\ sweep.pc = "rollback"
  /\ doc' = [doc EXCEPT !.status = sweep.status, !.crashes = @ - 2]
  /\ sweep' = SweepIdle
  /\ UNCHANGED <<approvals, redis, jobs, requests, timer, faults, history>>

\* The rollback restores the status that was read, without a condition.
SweepRollback ==
  /\ sweep.pc = "rollback"
  /\ doc' = [doc EXCEPT !.status = sweep.status, !.crashes = @ - 1]
  /\ sweep' = SweepIdle
  /\ UNCHANGED <<approvals, redis, jobs, requests, timer, faults, history>>

\* The scheduler process dies in the middle of the sweep.
SweeperDies ==
  /\ sweep.pc # "idle"
  /\ Fault("sweeper")
  /\ sweep' = SweepIdle
  /\ UNCHANGED <<doc, approvals, redis, jobs, requests, timer, history>>

SweepStep ==
  SweepRead \/ SweepCas \/ SweepEnqueue \/ SweepRaises \/ SweepRollback

-----------------------------------------------------------------------------
(***************************************************************************)
(* _check_approval_timeouts (scheduler.py).                                *)
(***************************************************************************)

\* An unresolved request past its deadline is marked timed_out ...
TimeoutMark ==
  /\ timer = "idle"
  /\ \E g \in Gates : /\ approvals[g] > 0
                      /\ approvals' = [approvals EXCEPT ![g] = @ - 1]
  /\ timer' = "fail"
  /\ UNCHANGED <<doc, redis, jobs, requests, sweep, faults, history>>

\* Mutant of TimeoutFail: no filter on the status.
TimeoutFailBlind ==
  /\ timer = "fail"
  /\ doc' = [doc EXCEPT !.status = "failed"]
  /\ timer' = "idle"
  /\ UNCHANGED <<approvals, redis, jobs, requests, sweep, faults, history>>

\* ... and then the execution is failed if it is paused, at whatever gate.
TimeoutFail ==
  /\ timer = "fail"
  /\ doc' = [doc EXCEPT !.status = IF @ = "paused" THEN "failed" ELSE @]
  /\ timer' = "idle"
  /\ UNCHANGED <<approvals, redis, jobs, requests, sweep, faults, history>>

\* The scheduler process dies between the two writes.
TimerDies ==
  /\ timer = "fail"
  /\ Fault("timer")
  /\ timer' = "idle"
  /\ UNCHANGED <<doc, approvals, redis, jobs, requests, sweep, history>>

TimerStep == TimeoutMark \/ TimeoutFail

-----------------------------------------------------------------------------
Init ==
  /\ doc = [status |-> "none", paused |-> 0, done |-> 0, crashes |-> 0,
            cancel |-> FALSE, startOld |-> FALSE, resumeOld |-> FALSE,
            runner |-> 0]
  /\ approvals = [g \in Gates |-> 0]
  /\ flag = FALSE /\ view = "none"
  /\ jobs = <<>>
  /\ submitter = "idle"
  /\ officer = [o \in Officers |-> [pc |-> "idle", kind |-> "approve",
                                 read |-> 0, hit |-> 0]]
  /\ canceller = [pc |-> "idle", seen |-> "none"]
  /\ sweep = SweepIdle /\ timer = "idle"
  /\ faults = 0
  /\ ran = [n \in Nodes |-> 0]
  /\ approved = {} /\ rejected = {} /\ crashJobs = 0

Next ==
  \/ Submit \/ SubmitEnqueue \/ SubmitRaises \/ SubmitFails
  \/ \E j \in JobIds : JobStep(j) \/ WorkerDies(j)
  \/ \E o \in Officers : Look(o) \/ OfficerStep(o)
  \/ RequestDies
  \/ CancelRead \/ CancelStep
  \/ StartAges \/ ResumeAges \/ FlagExpires \/ ViewExpires
  \/ SweepStep \/ SweeperDies
  \/ TimerStep \/ TimerDies

Spec == Init /\ [][Next]_vars

\* Workers keep consuming, request handlers run to their end, the scheduler
\* keeps sweeping, and time passes.  People need not act, nothing has to fail.
Fairness ==
  /\ WF_vars(SubmitEnqueue \/ SubmitFails)
  /\ \A j \in 1..MaxJobs : WF_vars(j \in JobIds /\ JobStep(j))
  /\ \A o \in Officers : WF_vars(OfficerStep(o))
  /\ WF_vars(CancelStep)
  /\ WF_vars(StartAges) /\ WF_vars(ResumeAges)
  /\ WF_vars(SweepStep) /\ WF_vars(TimerStep)

FairSpec == Spec /\ Fairness

-----------------------------------------------------------------------------
(***************************************************************************)
(* Properties.                                                             *)
(***************************************************************************)

OfficerPcs == {"idle", "decide", "enqueue", "rollback", "done"}
\* read: the gate the run was paused at when the request read it; hit
\* (history): the gate it was paused at when the request won its CAS.
OfficerRecords == [pc : OfficerPcs, kind : {"approve", "reject"},
                   read : Gates \cup {0}, hit : Gates \cup {0}]
CancelPcs == {"idle", "mark", "flag", "cas", "casOnly", "done", "refused"}

\* Every variable has its type; in particular the crash-resume count that the
\* sweep increments and takes back never becomes negative.
TypeOK ==
  /\ doc \in Docs
  /\ approvals \in [Gates -> Nat]
  /\ flag \in BOOLEAN /\ view \in Statuses
  /\ jobs \in Seq(JobRecords)
  /\ submitter \in {"idle", "enqueue", "failed", "done"}
  /\ officer \in [Officers -> OfficerRecords]
  /\ canceller \in [pc : CancelPcs, seen : Statuses]
  /\ sweep \in [pc : {"idle", "cas", "enqueue", "rollback"},
                status : Statuses, crashes : Nat, cancel : BOOLEAN]
  /\ timer \in {"idle", "fail"}
  /\ faults \in Nat /\ ran \in [Nodes -> Nat]
  /\ approved \subseteq Gates \cup {0} /\ rejected \subseteq Gates \cup {0}
  /\ crashJobs \in Nat

\* However officers, cancels and timeouts race, no node behind a gate is
\* started unless an approval won its CAS while the run was paused at that very
\* gate: one approval opens one gate.  It may be an approval that was meant for
\* an earlier gate, see GateNeedsApproval.
GateNeedsDecision ==
  \A n \in Nodes : ran[n] > 0 => \A g \in Gates : g < n => g \in approved

\* "A human_approval node parks the run until someone approves": no node
\* behind a gate is started unless a person who had read that the run waits at
\* this gate approved it.  The code does not keep it: the stuck sweep resumes a
\* run with approved=True, and with two gates a late approval of the first
\* passes the second, since the CAS looks at the status alone.
GateNeedsApproval ==
  \A n \in Nodes : ran[n] > 0 => \A g \in Gates : g < n =>
    \E o \in Officers : /\ officer[o].kind = "approve"
                        /\ officer[o].read = g /\ officer[o].hit = g

\* A gate that was rejected and never approved lets nothing through, also
\* when the worker that should record the rejection is lost.
RejectionStands ==
  \A n \in Nodes, g \in rejected \ approved : g < n => ran[n] = 0

\* However approvals, rejections, cancels and timeouts race, the CAS lets one
\* resume through: no node is started twice.
NodeOnce == \A n \in Nodes : ran[n] <= 1

\* A finished execution keeps its outcome: the late writers (sweeps, losers of
\* a CAS, a task that is still saving) do not overwrite a terminal status.
TerminalStays ==
  [][doc.status \in Terminal => doc'.status = doc.status]_vars

\* "A cancelled run can never come back to life".
CancelledStays ==
  [][doc.status = "cancelled" => doc'.status = "cancelled"]_vars

\* A cancel that was answered is durable: a task that starts after it (a
\* resume after a racing approval included) runs no node.
CancelStopsLaterTasks ==
  [][\A j \in JobIds : jobs[j].told /\ jobs[j].st = "loop"
                         => jobs'[j].done <= jobs[j].done]_vars

\* "A restart resumes, it does not restart": a node that the document records
\* as completed is not started again.
RestartResumes ==
  [][\A n \in Nodes : n <= doc.done => ran'[n] = ran[n]]_vars

\* Saves by the executor overwrite the document and rollbacks take the count
\* back, yet a poison run gets no more resume jobs from the stuck sweep than
\* MAX_CRASH_RESUME_ATTEMPTS (an enqueue whose reply was lost not counted).
CrashResumesBounded == crashJobs <= MaxCrashResumes

\* The status endpoint (cache first) and the document agree on the outcome of
\* a finished execution.
StatusIsCanonical ==
  doc.status \in Terminal => view \in {"none", doc.status}

\* Whatever crashes, an execution ends in a terminal status: a run through
\* its worker or the stuck sweep, a paused one through the approval timeout.
EveryRunSettles == doc.status # "none" ~> doc.status \in Terminal

\* Jobs and requests that move the execution on, and a rejection among them.
Active(j) == jobs[j].st \in {"queued", "loop", "reject"}
Resuming(o) == officer[o].pc \in {"enqueue", "rollback"}
Rejecting ==
  \/ \E o \in Officers : Resuming(o) /\ officer[o].kind = "reject"
  \/ \E j \in JobIds : Active(j) /\ jobs[j].kind = "reject"

\* What the document's status and a rejection on its way mean to the user.
Phase ==
  CASE doc.status \in Terminal \cup {"none"} -> doc.status
    [] doc.status = "paused" -> "waiting"
    [] OTHER -> IF Rejecting THEN "refused" ELSE "going"

Promise == INSTANCE RunPromise WITH phase <- Phase

\* The walks of execute() and resume(), the endpoints and the two sweeps
\* implement the promise: nodes start in order and once, each gate waits for
\* one decision, a rejected run only fails, an outcome is final.
ImplementsPromise == Promise!Spec
====
