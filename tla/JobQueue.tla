------------------------------ MODULE JobQueue ------------------------------
(***************************************************************************)
(* The durable job queue (citra_queue/queue.py) together with the loops of *)
(* the worker processes that consume it (Citra-Worker/worker.py).          *)
(*                                                                         *)
(* Redis keeps: the stream with the pending entries list (PEL) of its one  *)
(* consumer group, the retry ZSET, the dead-letter stream, and one status  *)
(* hash per job.  Every worker process runs Concurrency tasks of           *)
(* _worker_loop and one task of _reclaim_loop; a task issues one Redis     *)
(* command at a time, so one action below is one command (XACK and XDEL of *)
(* an entry are taken together: nothing reads an entry that is acked and   *)
(* not yet deleted).  Between two commands any other task may run, the     *)
(* process may crash, and a command may raise.                             *)
(*                                                                         *)
(* Payloads, priority lanes (several queues) and wall-clock times are      *)
(* abstracted: a job is a model value, there is one queue, and a delay     *)
(* elapses in an action of its own.                                        *)
(***************************************************************************)
EXTENDS Integers, Sequences, FiniteSets

CONSTANTS
  Jobs,          \* the jobs producers enqueue (uuid4 ids: each is used once)
  Procs,         \* worker processes
  Concurrency,   \* CITRA_WORKER_CONCURRENCY: _worker_loop tasks per process
  MaxRetries,    \* CITRA_WORKER_MAX_RETRIES
  ClaimCount,    \* count=16 of XAUTOCLAIM and XPENDING in claim_stale
  PromoteLimit,  \* limit=256 of _promote_due_retries
  SlowJobs,      \* may a live job outlast CLAIM_MIN_IDLE_MS?
  MaxEntries,    \* bound: entries ever added to the stream
  MaxEnds,       \* bound: processes that crash or are stopped
  MaxFaults,     \* bound: Redis commands that raise
  NoJob          \* a task that holds no job

ASSUME ConstantsAssumption ==
  /\ Concurrency \in Nat /\ MaxRetries \in Nat
  /\ ClaimCount \in Nat \ {0} /\ PromoteLimit \in Nat \ {0}
  /\ SlowJobs \in BOOLEAN
  /\ MaxEntries \in Nat /\ MaxEnds \in Nat /\ MaxFaults \in Nat

VARIABLES
  status,     \* HASH job:<id>, field status; "none" before the enqueue
  stream,     \* every entry ever XADDed; the index of an entry is its id
  retry,      \* retry ZSET: a member is the JSON of a job copy
  due,        \* the members of retry whose score (ready-at) has passed
  dlq,        \* jobs with an entry in the dead-letter stream
  proc,       \* worker process: "up", "stopping" (_stopped set) or "down"
  pc,         \* the next command of each task
  cur,        \* the Job object a task is working on
  batch,      \* jobs claim_stale returned that await their turn
  doomed,     \* claimed jobs over their delivery budget, to be dead-lettered
  ends, faults,
  completed,  \* history: jobs whose handler success was recorded once
  dropped     \* history: jobs acked by a task that ended before parking them

redisVars == <<status, stream, retry, due, dlq>>
taskVars  == <<proc, pc, cur, batch, doomed>>
history   == <<completed, dropped>>
vars == <<redisVars, taskVars, ends, faults, history>>

-----------------------------------------------------------------------------
(***************************************************************************)
(* Data.                                                                   *)
(***************************************************************************)

\* Job.to_json: what travels through the stream and the retry ZSET.
Copy == [job : Jobs, retries : Nat]

\* A stream entry.  A "gone" entry has been acked and deleted.
Entry == [job : Jobs, retries : Nat, st : {"unread", "pending", "gone"},
          times : Nat, idle : BOOLEAN]

\* Job.from_json: the copy in a task's memory, with its stream_id.
Held == [job : Jobs, retries : Nat, sid : Nat \ {0}]

Tasks == Procs \X (0..Concurrency)
Reclaimer(t) == t[2] = 0
TasksOf(p) == {t \in Tasks : t[1] = p}

ProcessPcs == {"got", "running", "ackDone", "ackRetry", "ackDead",
               "parkRetry", "parkDead", "signal"}
HoldPcs == ProcessPcs \cup {"dlqAck", "dlqHset", "dlqSignal"}
Pcs == HoldPcs \cup {"idle", "probe", "batch", "off"}

NewEntry(c) == [job |-> c.job, retries |-> c.retries, st |-> "unread",
                times |-> 0, idle |-> FALSE]
HeldOf(i) == [job |-> stream[i].job, retries |-> stream[i].retries, sid |-> i]
CopyOf(h) == [job |-> h.job, retries |-> h.retries]

Ids == 1..Len(stream)
Unread(i) == stream[i].st = "unread"
Pending(i) == stream[i].st = "pending"
\* The ClaimCount lowest ids of S: XPENDING and XAUTOCLAIM work in id order.
Lowest(S) == {i \in S : Cardinality({k \in S : k < i}) < ClaimCount}

Go(t, to) == pc' = [pc EXCEPT ![t] = to]
Running(t) == proc[t[1]] # "down"
\* Where a task continues after _process_job: the loop that called it.
LoopPc(t) == IF Reclaimer(t) THEN "batch" ELSE "idle"
Release(t) == cur' = [cur EXCEPT ![t] = NoJob]

-----------------------------------------------------------------------------
(***************************************************************************)
(* Producers.                                                              *)
(***************************************************************************)

\* enqueue(): status hash and stream entry in one MULTI/EXEC pipeline.
Enqueue(j) ==
  /\ status[j] = "none"
  /\ Len(stream) < MaxEntries
  /\ status' = [status EXCEPT ![j] = "queued"]
  /\ stream' = Append(stream, NewEntry([job |-> j, retries |-> 0]))
  /\ UNCHANGED <<retry, due, dlq, taskVars, ends, faults, history>>

-----------------------------------------------------------------------------
(***************************************************************************)
(* Time.                                                                   *)
(***************************************************************************)

\* The backoff of a parked copy (_retry_delay_seconds) has run out.
BackoffElapses(c) ==
  /\ c \in retry \ due
  /\ due' = due \cup {c}
  /\ UNCHANGED <<status, stream, retry, dlq, taskVars, ends, faults, history>>

\* Is entry i in the hands of a task that is at work on it, or about to be?
\* A job waiting in the batch behind another one is not.
Attended(i) ==
  \E t \in Tasks : \/ pc[t] \in HoldPcs /\ cur[t].sid = i
                   \/ \E h \in doomed[t] : h.sid = i
                   \/ pc[t] \notin ProcessPcs /\ \E h \in batch[t] : h.sid = i

\* A pending entry has been idle for CLAIM_MIN_IDLE_MS.  That the timeout
\* exceeds the longest job means that attended entries stay fresh.
GoesIdle(i) ==
  /\ Pending(i) /\ ~stream[i].idle
  /\ SlowJobs \/ ~Attended(i)
  /\ stream' = [stream EXCEPT ![i].idle = TRUE]
  /\ UNCHANGED <<status, retry, due, dlq, taskVars, ends, faults, history>>

-----------------------------------------------------------------------------
(***************************************************************************)
(* Fetching: consume_one and claim_stale.                                  *)
(***************************************************************************)

\* Faulty variant: ZREM without the XADD.
PromoteDueNoAdd ==
  /\ retry' = retry \ due
  /\ due' = {}
  /\ UNCHANGED stream

\* Faulty variant: promoted members are still counted as due.
PromoteDueTwice ==
  /\ \E c \in due : /\ Len(stream) < MaxEntries
                    /\ stream' = Append(stream, NewEntry(c))
                    /\ retry' = retry \ {c}
  /\ UNCHANGED due

\* _PROMOTE_LUA: XADD and ZREM of up to PromoteLimit due members, atomically.
PromoteDue ==
  \E n \in 0..PromoteLimit : \E f \in [1..n -> due] :
    LET moved == {f[k] : k \in 1..n} IN
    /\ \A k, l \in 1..n : f[k] = f[l] => k = l
    /\ n = PromoteLimit \/ moved = due
    /\ Len(stream) + n <= MaxEntries
    /\ stream' = [i \in 1..(Len(stream) + n) |->
                    IF i <= Len(stream) THEN stream[i]
                                        ELSE NewEntry(f[i - Len(stream)])]
    /\ retry' = retry \ moved
    /\ due' = due \ moved

\* Both loops start an iteration with _promote_due_retries, unless _stopped.
\* More copies may fall due before the read that follows (it blocks for up to
\* five seconds), so the read is an action of its own.
Promote(t) ==
  /\ pc[t] = "idle" /\ proc[t[1]] = "up"
  /\ due # {} /\ PromoteDue
  /\ UNCHANGED <<status, dlq, taskVars, ends, faults, history>>

\* XREADGROUP hands out the oldest entry nobody has read.
Deliver(i) ==
  /\ Unread(i) /\ \A k \in Ids : Unread(k) => i <= k
  /\ stream' = [stream EXCEPT ![i].st = "pending", ![i].times = 1]

\* consume_one: a new entry, now in the PEL of this process.  A read that times
\* out changes nothing.
Read(t) ==
  /\ pc[t] = "idle" /\ proc[t[1]] = "up" /\ ~Reclaimer(t)
  /\ \E i \in Ids :
       /\ Deliver(i)
       /\ cur' = [cur EXCEPT ![t] = HeldOf(i)]
  /\ Go(t, "got")
  /\ UNCHANGED <<status, retry, due, dlq, proc, batch, doomed, ends, faults, history>>

\* XAUTOCLAIM from 0-0 takes over idle entries: each one's delivery count goes
\* up and its idle time restarts.
Stale == Lowest({i \in Ids : Pending(i) /\ stream[i].idle})

Claim ==
  stream' = [i \in Ids |-> IF i \in Stale
               THEN [stream[i] EXCEPT !.times = @ + 1, !.idle = FALSE]
               ELSE stream[i]]

\* claim_stale, every RECLAIM_INTERVAL_SECONDS: XAUTOCLAIM.  A sweep that finds
\* nothing changes nothing.
AutoClaim(t) ==
  /\ pc[t] = "idle" /\ proc[t[1]] = "up" /\ Reclaimer(t)
  /\ Stale # {} /\ Claim
  /\ batch' = [batch EXCEPT ![t] = {HeldOf(i) : i \in Stale}]
  /\ Go(t, "probe")
  /\ UNCHANGED <<status, retry, due, dlq, proc, cur, doomed, ends, faults, history>>

\* Faulty variant: one delivery more than the budget.
OverBudgetByOne(h) ==
  /\ h.sid \in Lowest({i \in Ids : Pending(i)})
  /\ stream[h.sid].times > 2 /\ stream[h.sid].times > MaxRetries + 1

\* times > max(1, max_retries), with the delivery counts XPENDING reports; an
\* entry it does not list counts as delivered once.
OverBudget(h) ==
  /\ h.sid \in Lowest({i \in Ids : Pending(i)})
  /\ stream[h.sid].times > 1 /\ stream[h.sid].times > MaxRetries

\* claim_stale: XPENDING, and the split of the claimed jobs it decides.
Probe(t) ==
  /\ pc[t] = "probe" /\ Running(t)
  /\ LET over == {h \in batch[t] : OverBudget(h)} IN
     /\ doomed' = [doomed EXCEPT ![t] = over]
     /\ batch' = [batch EXCEPT ![t] = @ \ over]
  /\ Go(t, "batch")
  /\ UNCHANGED <<redisVars, proc, cur, ends, faults, history>>

\* Faulty variant: the entry is acked although nothing was dead-lettered.
DlqAddSkipped(t) ==
  /\ pc[t] = "batch" /\ Running(t)
  /\ \E h \in doomed[t] :
       /\ doomed' = [doomed EXCEPT ![t] = @ \ {h}]
       /\ cur' = [cur EXCEPT ![t] = h]
  /\ Go(t, "dlqAck")
  /\ UNCHANGED <<redisVars, proc, batch, ends, faults, history>>

\* claim_stale: XADD of a crash-looping job to the dead-letter stream.
DlqAdd(t) ==
  /\ pc[t] = "batch" /\ Running(t)
  /\ \E h \in doomed[t] :
       /\ dlq' = dlq \cup {h.job}
       /\ doomed' = [doomed EXCEPT ![t] = @ \ {h}]
       /\ cur' = [cur EXCEPT ![t] = h]
  /\ Go(t, "dlqAck")
  /\ UNCHANGED <<status, stream, retry, due, proc, batch, ends, faults, history>>

\* XACK and XDEL of the entry a task holds; its PEL record goes with it.  XACK
\* does not look at the owner, and acking a gone entry has no effect.
AckEntry(t) ==
  stream' = [stream EXCEPT ![cur[t].sid] =
               [@ EXCEPT !.st = "gone", !.times = 0, !.idle = FALSE]]

\* claim_stale: XACK and XDEL of the dead-lettered entry.
DlqAck(t) ==
  /\ pc[t] = "dlqAck" /\ Running(t)
  /\ AckEntry(t)
  /\ Go(t, "dlqHset")
  /\ UNCHANGED <<status, retry, due, dlq, proc, cur, batch, doomed, ends, faults, history>>

\* claim_stale: HSET failed.
DlqHset(t) ==
  /\ pc[t] = "dlqHset" /\ Running(t)
  /\ status' = [status EXCEPT ![cur[t].job] = "failed"]
  /\ Go(t, "dlqSignal")
  /\ UNCHANGED <<stream, retry, due, dlq, proc, cur, batch, doomed, ends, faults, history>>

\* claim_stale: SET of the result signal, and on to the next claimed job.
DlqSignal(t) ==
  /\ pc[t] = "dlqSignal" /\ Running(t)
  /\ Release(t)
  /\ Go(t, "batch")
  /\ UNCHANGED <<redisVars, proc, batch, doomed, ends, faults, history>>

\* _reclaim_loop: claim_stale has returned and the jobs within budget are
\* processed, one after the other.
BatchNext(t) ==
  /\ pc[t] = "batch" /\ doomed[t] = {} /\ proc[t[1]] = "up"
  /\ \E h \in batch[t] :
       /\ cur' = [cur EXCEPT ![t] = h]
       /\ batch' = [batch EXCEPT ![t] = @ \ {h}]
  /\ Go(t, "got")
  /\ UNCHANGED <<redisVars, proc, doomed, ends, faults, history>>

\* _reclaim_loop: the batch is finished, or the process is stopping and leaves
\* the rest of it pending.
BatchEnds(t) ==
  /\ pc[t] = "batch" /\ doomed[t] = {} /\ Running(t)
  /\ batch[t] = {} \/ proc[t[1]] = "stopping"
  /\ batch' = [batch EXCEPT ![t] = {}]
  /\ Go(t, "idle")
  /\ UNCHANGED <<redisVars, proc, cur, doomed, ends, faults, history>>

-----------------------------------------------------------------------------
(***************************************************************************)
(* _process_job, mark_running, mark_done, mark_failed.                     *)
(***************************************************************************)

\* mark_running, and the handler is called.
MarkRunning(t) ==
  /\ pc[t] = "got" /\ Running(t)
  /\ status' = [status EXCEPT ![cur[t].job] = "running"]
  /\ Go(t, "running")
  /\ UNCHANGED <<stream, retry, due, dlq, proc, cur, batch, doomed, ends, faults, history>>

\* mark_done: the handler returned and HSET done is written.
MarkDone(t) ==
  /\ pc[t] = "running" /\ Running(t)
  /\ status' = [status EXCEPT ![cur[t].job] = "done"]
  /\ completed' = completed \cup {cur[t].job}
  /\ Go(t, "ackDone")
  /\ UNCHANGED <<stream, retry, due, dlq, proc, cur, batch, doomed, ends, faults,
                 dropped>>

\* Faulty variant: a job that used up its retries is put back once more.
MarkFailedOffByOne(t, permanent) ==
  /\ Running(t)
  /\ pc[t] = "running" \/ (pc[t] = "got" /\ permanent)
  /\ LET r == cur[t].retries + 1
         willRetry == ~permanent /\ r <= MaxRetries
     IN /\ cur' = [cur EXCEPT ![t].retries = r]
        /\ status' = [status EXCEPT ![cur[t].job] =
                        IF willRetry THEN "queued" ELSE "failed"]
        /\ Go(t, IF willRetry THEN "ackRetry" ELSE "ackDead")
  /\ UNCHANGED <<stream, retry, due, dlq, proc, batch, doomed, ends, faults, history>>

\* Faulty variant: the status of a transient failure is always "queued".
MarkFailedStaysQueued(t, permanent) ==
  /\ Running(t)
  /\ pc[t] = "running" \/ (pc[t] = "got" /\ permanent)
  /\ LET r == cur[t].retries + 1
         willRetry == ~permanent /\ r < MaxRetries
     IN /\ cur' = [cur EXCEPT ![t].retries = r]
        /\ status' = [status EXCEPT ![cur[t].job] =
                        IF permanent THEN "failed" ELSE "queued"]
        /\ Go(t, IF willRetry THEN "ackRetry" ELSE "ackDead")
  /\ UNCHANGED <<stream, retry, due, dlq, proc, batch, doomed, ends, faults, history>>

\* mark_failed up to its HSET: count the failure and decide about a retry.
\* A job whose handler is not registered fails before it runs.
MarkFailed(t, permanent) ==
  /\ Running(t)
  /\ pc[t] = "running" \/ (pc[t] = "got" /\ permanent)
  /\ LET r == cur[t].retries + 1
         willRetry == ~permanent /\ r < MaxRetries
     IN /\ cur' = [cur EXCEPT ![t].retries = r]
        /\ status' = [status EXCEPT ![cur[t].job] =
                        IF willRetry THEN "queued" ELSE "failed"]
        /\ Go(t, IF willRetry THEN "ackRetry" ELSE "ackDead")
  /\ UNCHANGED <<stream, retry, due, dlq, proc, batch, doomed, ends, faults, history>>

\* Where a task goes after the _ack of mark_done or mark_failed.
AfterAck(t) == CASE pc[t] = "ackDone"  -> "signal"
                 [] pc[t] = "ackRetry" -> "parkRetry"
                 [] pc[t] = "ackDead"  -> "parkDead"

\* _ack.
Ack(t) ==
  /\ pc[t] \in {"ackDone", "ackRetry", "ackDead"} /\ Running(t)
  /\ AckEntry(t)
  /\ Go(t, AfterAck(t))
  /\ UNCHANGED <<status, retry, due, dlq, proc, cur, batch, doomed, ends, faults, history>>

\* mark_failed: ZADD of a fresh copy.  A member that is there already only
\* gets the new score.
ParkRetry(t) ==
  /\ pc[t] = "parkRetry" /\ Running(t)
  /\ retry' = retry \cup {CopyOf(cur[t])}
  /\ due' = due \ {CopyOf(cur[t])}
  /\ Release(t)
  /\ Go(t, LoopPc(t))
  /\ UNCHANGED <<status, stream, dlq, proc, batch, doomed, ends, faults, history>>

\* mark_failed: XADD to the dead-letter stream.
ParkDead(t) ==
  /\ pc[t] = "parkDead" /\ Running(t)
  /\ dlq' = dlq \cup {cur[t].job}
  /\ Go(t, "signal")
  /\ UNCHANGED <<status, stream, retry, due, proc, cur, batch, doomed, ends, faults, history>>

\* SET of the result signal; nothing in the repository reads it.
Signal(t) ==
  /\ pc[t] = "signal" /\ Running(t)
  /\ Release(t)
  /\ Go(t, LoopPc(t))
  /\ UNCHANGED <<redisVars, proc, batch, doomed, ends, faults, history>>

-----------------------------------------------------------------------------
(***************************************************************************)
(* Redis commands that raise.  The raise comes before the command takes    *)
(* effect: a raise after it is the step itself followed by a raise of the  *)
(* task's next command.                                                    *)
(***************************************************************************)

Fault == faults < MaxFaults /\ faults' = faults + 1

\* The reply of XREADGROUP or XAUTOCLAIM is lost: the entries it moved stay in
\* the PEL while consume_one or claim_stale raises, which both loops survive.
ReplyLost(t) ==
  /\ Fault
  /\ pc[t] = "idle" /\ proc[t[1]] = "up"
  /\ IF Reclaimer(t) THEN Stale # {} /\ Claim ELSE \E i \in Ids : Deliver(i)
  /\ UNCHANGED <<status, retry, due, dlq, taskVars, ends, history>>

\* XPENDING raised: every claimed job counts as delivered once.
ProbeFault(t) ==
  /\ Fault
  /\ pc[t] = "probe" /\ Running(t)
  /\ Go(t, "batch")
  /\ UNCHANGED <<redisVars, proc, cur, batch, doomed, ends, history>>

\* Dead-lettering raised part way: claim_stale falls back to re-delivery.
DlqFault(t) ==
  /\ Fault
  /\ Running(t)
  /\ \/ /\ pc[t] = "batch"
        /\ \E h \in doomed[t] :
             /\ doomed' = [doomed EXCEPT ![t] = @ \ {h}]
             /\ batch' = [batch EXCEPT ![t] = @ \cup {h}]
        /\ UNCHANGED cur
     \/ /\ pc[t] \in {"dlqAck", "dlqHset", "dlqSignal"}
        /\ batch' = [batch EXCEPT ![t] = @ \cup {cur[t]}]
        /\ Release(t)
        /\ UNCHANGED doomed
  /\ Go(t, "batch")
  /\ UNCHANGED <<redisVars, proc, ends, history>>

\* _ack swallows the exception: the entry stays pending, the task goes on.
AckFault(t) ==
  /\ Fault
  /\ pc[t] \in {"ackDone", "ackRetry", "ackDead"} /\ Running(t)
  /\ Go(t, AfterAck(t))
  /\ UNCHANGED <<redisVars, proc, cur, batch, doomed, ends, history>>

\* The copies that exist only in the memory of the tasks T: acked, not parked.
Unparked(T) == {cur[t].job : t \in {u \in T : pc[u] \in {"parkRetry", "parkDead"}}}

\* Any other command of _process_job raised.  Neither loop catches that, so
\* the loop's asyncio task ends while the process goes on.
TaskDies(t) ==
  /\ Fault
  /\ pc[t] \in ProcessPcs /\ Running(t)
  /\ dropped' = dropped \cup Unparked({t})
  /\ batch' = [batch EXCEPT ![t] = {}]
  /\ Release(t)
  /\ Go(t, "off")
  /\ UNCHANGED <<redisVars, proc, doomed, ends, completed>>

-----------------------------------------------------------------------------
(***************************************************************************)
(* The worker process.                                                     *)
(***************************************************************************)

\* SIGTERM or SIGINT sets _stopped.
Stop(p) ==
  /\ proc[p] = "up"
  /\ ends < MaxEnds /\ ends' = ends + 1
  /\ proc' = [proc EXCEPT ![p] = "stopping"]
  /\ UNCHANGED <<redisVars, pc, cur, batch, doomed, faults, history>>

\* A loop sees _stopped and returns.
LoopExits(t) ==
  /\ pc[t] = "idle" /\ proc[t[1]] = "stopping"
  /\ Go(t, "off")
  /\ UNCHANGED <<redisVars, proc, cur, batch, doomed, ends, faults, history>>

\* _main: every task has ended within the grace period.
ProcExits(p) ==
  /\ proc[p] = "stopping"
  /\ \A t \in TasksOf(p) : pc[t] = "off"
  /\ proc' = [proc EXCEPT ![p] = "down"]
  /\ UNCHANGED <<redisVars, pc, cur, batch, doomed, ends, faults, history>>

\* The process dies, or the grace period runs out and its tasks are cancelled
\* where they stand.
Crash(p) ==
  /\ proc[p] # "down"
  /\ ends < MaxEnds /\ ends' = ends + 1
  /\ proc' = [proc EXCEPT ![p] = "down"]
  /\ dropped' = dropped \cup Unparked(TasksOf(p))
  /\ pc'  = [t \in Tasks |-> IF t[1] = p THEN "off" ELSE pc[t]]
  /\ cur' = [t \in Tasks |-> IF t[1] = p THEN NoJob ELSE cur[t]]
  /\ batch' = [t \in Tasks |-> IF t[1] = p THEN {} ELSE batch[t]]
  /\ doomed' = [t \in Tasks |-> IF t[1] = p THEN {} ELSE doomed[t]]
  /\ UNCHANGED <<redisVars, faults, completed>>

\* The orchestrator starts the process again; _main creates its tasks.
Restart(p) ==
  /\ proc[p] = "down"
  /\ proc' = [proc EXCEPT ![p] = "up"]
  /\ pc' = [t \in Tasks |-> IF t[1] = p THEN "idle" ELSE pc[t]]
  /\ UNCHANGED <<redisVars, cur, batch, doomed, ends, faults, history>>

-----------------------------------------------------------------------------
Init ==
  /\ status = [j \in Jobs |-> "none"]
  /\ stream = <<>>
  /\ retry = {} /\ due = {} /\ dlq = {}
  /\ proc = [p \in Procs |-> "up"]
  /\ pc = [t \in Tasks |-> "idle"]
  /\ cur = [t \in Tasks |-> NoJob]
  /\ batch = [t \in Tasks |-> {}]
  /\ doomed = [t \in Tasks |-> {}]
  /\ ends = 0 /\ faults = 0
  /\ completed = {} /\ dropped = {}

\* What a task does when no command raises.
Step(t) ==
  \/ Promote(t) \/ Read(t) \/ AutoClaim(t) \/ Probe(t)
  \/ DlqAdd(t) \/ DlqAck(t) \/ DlqHset(t) \/ DlqSignal(t)
  \/ BatchNext(t) \/ BatchEnds(t)
  \/ MarkRunning(t) \/ MarkDone(t) \/ (\E perm \in BOOLEAN : MarkFailed(t, perm))
  \/ Ack(t) \/ ParkRetry(t) \/ ParkDead(t) \/ Signal(t)
  \/ LoopExits(t)

Raise(t) == ReplyLost(t) \/ ProbeFault(t) \/ DlqFault(t) \/ AckFault(t) \/ TaskDies(t)

Next ==
  \/ \E j \in Jobs : Enqueue(j)
  \/ \E c \in retry : BackoffElapses(c)
  \/ \E i \in Ids : GoesIdle(i)
  \/ \E t \in Tasks : Step(t) \/ Raise(t)
  \/ \E p \in Procs : Stop(p) \/ ProcExits(p) \/ Crash(p) \/ Restart(p)

Spec == Init /\ [][Next]_vars

\* The event loop runs every task that can run, a handler returns (a run is
\* bounded by its node and execution timeouts), time passes, and the
\* orchestrator restarts a process that is down (restart: unless-stopped).
\* Nothing is assumed of producers, signals, crashes and faults.
Fairness ==
  /\ \A t \in Tasks : WF_vars(Step(t))
  /\ WF_vars(\E c \in retry : BackoffElapses(c))
  /\ WF_vars(\E i \in Ids : GoesIdle(i))
  /\ \A p \in Procs : WF_vars(ProcExits(p)) /\ WF_vars(Restart(p))

FairSpec == Spec /\ Fairness

-----------------------------------------------------------------------------
(***************************************************************************)
(* Properties.                                                             *)
(***************************************************************************)

\* The shape of the queue's keys and of the tasks' memory.
TypeOK ==
  /\ status \in [Jobs -> {"none", "queued", "running", "done", "failed"}]
  /\ stream \in Seq(Entry)
  /\ retry \subseteq Copy /\ due \subseteq retry
  /\ dlq \subseteq Jobs
  /\ proc \in [Procs -> {"up", "stopping", "down"}]
  /\ pc \in [Tasks -> Pcs]
  /\ cur \in [Tasks -> Held \cup {NoJob}]
  /\ batch \in [Tasks -> SUBSET Held]
  /\ doomed \in [Tasks -> SUBSET Held]
  /\ ends \in Nat /\ faults \in Nat
  /\ completed \subseteq Jobs /\ dropped \subseteq Jobs

\* Somewhere in Redis is a copy of j that a consumer will still get: an entry
\* nobody read, one in the PEL, or a parked retry.
Recoverable(j) == \/ \E i \in Ids : stream[i].job = j /\ stream[i].st # "gone"
                  \/ \E c \in retry : c.job = j

\* A live task is between the _ack of mark_failed and the ZADD or XADD that
\* keeps j.
InHand(j) == \E t \in Tasks : pc[t] \in {"parkRetry", "parkDead"} /\ cur[t].job = j

\* Some task has a copy of j in memory.
Carried(j) ==
  \E t \in Tasks : \/ pc[t] \in HoldPcs /\ cur[t].job = j
                   \/ \E h \in batch[t] \cup doomed[t] : h.job = j

\* The promise of the queue: what was enqueued is done, dead-lettered, or a
\* consumer will still get it.
Kept(j) == j \in completed \/ j \in dlq \/ Recoverable(j) \/ InHand(j)

\* A job leaves the queue unfinished only through one window: its task ended
\* between the _ack of mark_failed and the command that parks the copy.  No
\* other crash, raise, reclaim or double run loses it.
LostOnlyInAckWindow == \A j \in Jobs : status[j] # "none" => Kept(j) \/ j \in dropped

\* The shape of the state, and what becomes of the jobs.
QueueSound == TypeOK /\ LostOnlyInAckWindow

\* A copy in a task's memory came from the stream entry it names.
Backed(h) == h.sid \in Ids /\ stream[h.sid].job = h.job

\* What the tasks hold, and what has been written before each ack: mark_done
\* records the result first, the crash-loop path dead-letters first.
Hands ==
  \A t \in Tasks :
    /\ pc[t] \in HoldPcs => cur[t] \in Held /\ Backed(cur[t])
    /\ \A h \in batch[t] \cup doomed[t] : Backed(h)
    /\ pc[t] = "ackDone" => cur[t].job \in completed
    /\ pc[t] \in {"dlqAck", "dlqHset", "dlqSignal"} => cur[t].job \in dlq

\* Every copy on the stream or in the retry ZSET is of a job that was enqueued.
Known == /\ \A i \in Ids : status[stream[i].job] # "none"
         /\ \A c \in retry : status[c.job] # "none"

\* A process that is down has no task left.
Alive == \A t \in Tasks : proc[t[1]] = "down" => pc[t] = "off"

\* The inductive invariant behind LostOnlyInAckWindow.
Inv == TypeOK /\ Hands /\ Known /\ Alive /\ LostOnlyInAckWindow

\* queue.py promises "true at-least-once delivery" with every job "retried, not
\* lost": nothing enqueued ever disappears unfinished.
NeverLost == \A j \in Jobs : status[j] # "none" => Kept(j)

\* A copy that can still be delivered has retries left: mark_failed never puts
\* back a job it has to dead-letter, whatever overlapping runs of it did.
RetriesBounded ==
  /\ \A i \in Ids : ~(stream[i].st = "gone") =>
       stream[i].retries = 0 \/ stream[i].retries < MaxRetries
  /\ \A c \in retry : c.retries < MaxRetries

\* Once no copy of a job is left anywhere, a caller that polls get_status sees
\* a final status, and the one that says where the job is: even when two runs of
\* the job overlapped, the last writer of the hash is the one that settled it.
\* (A process that ended or a command that raised may have left the hash behind.)
FinalStatusAtRest ==
  \A j \in Jobs : (/\ status[j] # "none" /\ ~Recoverable(j) /\ ~Carried(j)
                  /\ ends = 0 /\ faults = 0) =>
    \/ status[j] = "done" /\ j \in completed
    \/ status[j] = "failed" /\ j \in dlq

\* The queue keeps the ledger of JobLedger: whatever is claimed twice, retried,
\* crashed or raised, a job is closed only when it was done, dead-lettered or
\* lost in the ack window, and no worker brings back a job that was closed or
\* writes its status (mark_done, mark_failed, claim_stale).
Ledger == INSTANCE JobLedger WITH
            open <- {j \in Jobs : Recoverable(j) \/ Carried(j)},
            buried <- dlq, lost <- dropped
ImplementsLedger == Ledger!Spec

\* Every job the producer handed over is eventually done or dead-lettered
\* (or was lost in the ack window).
EveryJobSettles ==
  \A j \in Jobs : status[j] # "none" ~> j \in completed \cup dlq \cup dropped

\* Statements of comments that the code does not keep with several jobs.

\* No job runs in two tasks at once: CLAIM_MIN_IDLE_MS "MUST EXCEED the longest
\* expected job runtime, or a slow-but-alive job gets reclaimed and DOUBLE-RUN".
NoDoubleRun ==
  \A t, u \in Tasks : pc[t] = "running" /\ pc[u] = "running" /\ t # u
                        => cur[t].job # cur[u].job

\* claim_stale: "dead-letter a crash-looping job once it has been delivered more
\* than max_retries": no task runs a job over its delivery budget.
CrashLoopBounded ==
  \A t \in Tasks : (pc[t] = "running" /\ Pending(cur[t].sid)) =>
    LET times == stream[cur[t].sid].times
    IN times <= 1 + faults \/ times <= MaxRetries + faults
=============================================================================
