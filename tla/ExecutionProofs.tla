-------------------------- MODULE ExecutionProofs --------------------------
(***************************************************************************)
(* Type correctness of ExecutionLifecycle, and the bound on crash-resumes, *)
(* for any chain, any number of officers, jobs and failures; and, while    *)
(* nobody who moves the execution on is lost (Calm), that gates hold, that *)
(* no node is started twice, that outcomes stay and that cancels are kept. *)
(***************************************************************************)
EXTENDS ExecutionLifecycle, TLAPS

(***************************************************************************)
(* The strengthening of CrashResumesBounded: what the sweep read still     *)
(* holds when it writes (nobody else touches crash_resume_count), and      *)
(* between its compare-and-set and its enqueue one count is still unspent. *)
(***************************************************************************)
CountKept ==
  /\ crashJobs <= doc.crashes
  /\ doc.crashes <= MaxCrashResumes
  /\ sweep.pc = "cas" => sweep.crashes = doc.crashes
  /\ sweep.pc \in {"enqueue", "rollback"} => crashJobs < doc.crashes

Inv == TypeOK /\ CountKept

-----------------------------------------------------------------------------
\* A document whose fields are set to values of their types is a document.
LEMMA SavedType ==
  ASSUME NEW d \in Docs, NEW j, NEW s \in Statuses, NEW p \in Gates \cup {0},
         NEW n \in 0..NodeCount, j \in Nat
  PROVE  Saved(d, j, s, p, n) \in Docs
BY DEF Saved, Docs

\* _save_execution keeps the document well typed and its crash count as it
\* was.
LEMMA SaveKeeps ==
  ASSUME TypeOK, NEW j \in JobIds, NEW s \in Statuses,
         NEW p \in Gates \cup {0}, NEW n \in 0..NodeCount,
         SaveExecution(j, s, p, n)
  PROVE  /\ doc' \in Docs
         /\ doc'.crashes = doc.crashes
         /\ faults' \in Nat
<1>1. j \in Nat
  BY DEF TypeOK, JobIds
<1>2. doc \in Docs /\ faults \in Nat
  BY DEF TypeOK
<1>3. Saved(doc, j, s, p, n) \in Docs
  BY <1>1, <1>2, SavedType
<1>4. Saved(doc, j, s, p, n).crashes = doc.crashes
  BY <1>2 DEF Saved, Docs
<1> QED
  BY <1>2, <1>3, <1>4 DEF SaveExecution, Fault, NoFault

\* A job record with fields changed within their types stays in the sequence.
LEMMA JobsUpdate ==
  ASSUME TypeOK, NEW j \in JobIds, NEW r \in JobRecords
  PROVE  [jobs EXCEPT ![j] = r] \in Seq(JobRecords)
BY DEF TypeOK, JobIds

LEMMA JobType ==
  ASSUME TypeOK, NEW j \in JobIds
  PROVE  jobs[j] \in JobRecords
BY DEF TypeOK, JobIds

\* A new job keeps the sequence well typed.
LEMMA EnqueuedType ==
  ASSUME TypeOK, NEW k \in JobKinds, Enqueued(k)
  PROVE  jobs' \in Seq(JobRecords)
<1>1. NewJob(k) \in JobRecords
  BY ConstantsAssumption DEF NewJob, JobRecords, JobStates
<1> QED
  BY <1>1 DEF Enqueued, TypeOK

LEMMA EnqueueRaisedType ==
  ASSUME TypeOK, NEW k \in JobKinds, EnqueueRaised(k)
  PROVE  jobs' \in Seq(JobRecords) /\ faults' \in Nat
BY EnqueuedType DEF EnqueueRaised, Fault, TypeOK

LEMMA RedeliverType ==
  ASSUME TypeOK, NEW j \in JobIds, Redeliver(j)
  PROVE  jobs' \in Seq(JobRecords)
<1> DEFINE st == IF jobs[j].tries + 1 < MaxDeliveries
                 THEN "queued" ELSE "dead"
           t == jobs[j].tries + 1
           r == [jobs[j] EXCEPT !.tries = t, !.done = 0, !.paused = 0,
                                !.told = FALSE, !.st = st]
<1>0. st \in JobStates /\ t \in Nat /\ 0 \in 0..NodeCount
  BY ConstantsAssumption, JobType DEF JobStates, JobRecords
<1>2. jobs' = [jobs EXCEPT ![j] = r]
  BY DEF Redeliver
<1> HIDE DEF st, t
<1>1. r \in JobRecords
  BY <1>0, JobType DEF JobRecords
<1> QED
  BY <1>1, <1>2, JobsUpdate

\* The progress entry holds a status.
LEMMA ProgressType ==
  ASSUME TypeOK, NEW s \in Statuses, Progress(s)
  PROVE  view' \in Statuses
BY DEF TypeOK, Progress

\* The end of a handler.
LEMMA FinishKeeps ==
  ASSUME TypeOK, NEW j \in JobIds, NEW s \in Statuses,
         NEW p \in Gates \cup {0}, NEW n \in 0..NodeCount,
         Finish(j, s, p, n)
  PROVE  /\ doc' \in Docs /\ doc'.crashes = doc.crashes
         /\ faults' \in Nat
         /\ view' \in Statuses
         /\ jobs' \in Seq(JobRecords)
<1> DEFINE r == [jobs[j] EXCEPT !.st = "acking", !.done = n]
<1>1. r \in JobRecords
  BY JobType DEF JobRecords, JobStates
<1>2. jobs' = [jobs EXCEPT ![j] = r]
  BY DEF Finish
<1>3. jobs' \in Seq(JobRecords)
  BY <1>1, <1>2, JobsUpdate
<1>4. view' \in Statuses
  BY ProgressType DEF Finish
<1> QED
  BY <1>3, <1>4, SaveKeeps DEF Finish

\* A task takes its first step: only its own record changes.
LEMMA TaskStarts ==
  ASSUME TypeOK, NEW j \in JobIds, NEW st \in JobStates,
         NEW n \in 0..NodeCount, NEW p \in Gates \cup {0},
         NEW b \in BOOLEAN
  PROVE  /\ [jobs EXCEPT ![j].st = st, ![j].done = n, ![j].told = b]
              \in Seq(JobRecords)
         /\ [jobs EXCEPT ![j].st = st, ![j].done = n, ![j].paused = p,
                         ![j].told = b] \in Seq(JobRecords)
<1> DEFINE r == [jobs[j] EXCEPT !.st = st, !.done = n, !.told = b]
           q == [jobs[j] EXCEPT !.st = st, !.done = n, !.paused = p, !.told = b]
<1>1. r \in JobRecords /\ q \in JobRecords
  BY JobType DEF JobRecords
<1>2. /\ [jobs EXCEPT ![j] = r] \in Seq(JobRecords)
      /\ [jobs EXCEPT ![j] = q] \in Seq(JobRecords)
  BY <1>1, JobsUpdate
<1> QED
  BY <1>2

-----------------------------------------------------------------------------
(***************************************************************************)
(* One lemma per group of actions that share what they disturb.            *)
(***************************************************************************)

LEMMA InitOK == Init => Inv
<1> SUFFICES ASSUME Init PROVE Inv
  OBVIOUS
<1>1. doc \in Docs
  BY ConstantsAssumption DEF Init, Docs, Statuses
<1>a. officer \in [Officers -> OfficerRecords]
  BY DEF Init, OfficerPcs, OfficerRecords
<1>b. /\ canceller \in [pc : CancelPcs, seen : Statuses]
      /\ sweep \in [pc : {"idle", "cas", "enqueue", "rollback"},
                    status : Statuses, crashes : Nat, cancel : BOOLEAN]
  BY DEF Init, CancelPcs, Statuses, SweepIdle
<1>c. jobs \in Seq(JobRecords) /\ view \in Statuses
  BY DEF Init, Statuses
<1>d. ran \in [Nodes -> Nat] /\ approvals \in [Gates -> Nat]
  BY DEF Init
<1>2. TypeOK
  BY <1>1, <1>a, <1>b, <1>c, <1>d DEF Init, TypeOK
<1>3. CountKept
  BY ConstantsAssumption DEF Init, CountKept, SweepIdle
<1> QED
  BY <1>2, <1>3 DEF Inv

\* The execute endpoint writes the status and the queue.
LEMMA SubmitOK ==
  ASSUME Inv, Submit \/ SubmitEnqueue \/ SubmitRaises \/ SubmitFails
  PROVE  Inv'
<1> USE DEF Inv
<1>1. CASE Submit
  <2>1. doc' \in Docs /\ doc'.crashes = doc.crashes
    BY <1>1 DEF Submit, TypeOK, Docs, Statuses
  <2> QED
    BY <1>1, <2>1 DEF Submit, TypeOK, CountKept, redis, sweeps, history
<1>2. CASE SubmitEnqueue
  <2>1. jobs' \in Seq(JobRecords)
    BY <1>2, EnqueuedType DEF SubmitEnqueue, JobKinds
  <2> QED
    BY <1>2, <2>1 DEF SubmitEnqueue, TypeOK, CountKept, redis, sweeps, history
<1>3. CASE SubmitRaises
  <2>1. jobs' \in Seq(JobRecords) /\ faults' \in Nat
    BY <1>3, EnqueueRaisedType DEF SubmitRaises, JobKinds
  <2> QED
    BY <1>3, <2>1 DEF SubmitRaises, TypeOK, CountKept, redis, sweeps, history
<1>4. CASE SubmitFails
  <2>1. doc' \in Docs /\ doc'.crashes = doc.crashes
    BY <1>4 DEF SubmitFails, TypeOK, Docs, Statuses, Terminal
  <2> QED
    BY <1>4, <2>1 DEF SubmitFails, TypeOK, CountKept, redis, sweeps, history
<1> QED
  BY <1>1, <1>2, <1>3, <1>4

\* A job is delivered, or refused.
LEMMA DeliverOK ==
  ASSUME Inv, NEW j \in JobIds,
         StartRun(j) \/ RunRefused(j) \/ StartResume(j) \/ ResumeRefused(j)
  PROVE  Inv'
<1> USE DEF Inv
<1>0. /\ 0 \in 0..NodeCount /\ "running" \in Statuses
      /\ {"loop", "reject"} \subseteq JobStates
      /\ doc.done \in 0..NodeCount /\ doc.paused \in Gates \cup {0}
      /\ Told \in BOOLEAN
  BY ConstantsAssumption DEF Statuses, JobStates, TypeOK, Docs, Told
<1>1. CASE StartRun(j)
  <2>1. jobs' \in Seq(JobRecords)
    BY <1>0, <1>1, TaskStarts DEF StartRun
  <2>2. view' \in Statuses
    BY <1>1, ProgressType DEF StartRun, Statuses
  <2> QED
    BY <1>0, <1>1, <2>1, <2>2
       DEF StartRun, TypeOK, CountKept, requests, sweeps, history
<1>2. CASE RunRefused(j) \/ ResumeRefused(j)
  <2>1. jobs' \in Seq(JobRecords)
    BY <1>2, RedeliverType DEF RunRefused, ResumeRefused
  <2> QED
    BY <1>2, <2>1 DEF RunRefused, ResumeRefused, TypeOK, CountKept, redis,
                      requests, sweeps, history
<1>3. CASE StartResume(j)
  <2>1. jobs' \in Seq(JobRecords)
    <3>1. CASE Approves(jobs[j].kind)
      <4>1. jobs' = [jobs EXCEPT ![j].st = "loop", ![j].done = doc.done,
                                 ![j].told = Told]
        BY <1>3, <3>1 DEF StartResume
      <4> QED
        BY <1>0, <4>1, TaskStarts
    <3>2. CASE ~Approves(jobs[j].kind)
      <4>1. jobs' = [jobs EXCEPT ![j].st = "reject", ![j].done = doc.done,
                                 ![j].paused = doc.paused, ![j].told = Told]
        BY <1>3, <3>2 DEF StartResume
      <4> QED
        BY <1>0, <4>1, TaskStarts
    <3> QED
      BY <3>1, <3>2
  <2>2. view' \in Statuses
    BY <1>3, ProgressType DEF StartResume, TypeOK, Statuses
  <2> QED
    BY <1>3, <2>1, <2>2
       DEF StartResume, TypeOK, CountKept, requests, sweeps, history
<1> QED
  BY <1>1, <1>2, <1>3

\* Where a task stands, its next node exists.
LEMMA NextNode ==
  ASSUME TypeOK, NEW j \in JobIds, jobs[j].done < NodeCount
  PROVE  jobs[j].done + 1 \in Nodes /\ jobs[j].done + 1 \in 0..NodeCount
BY JobType, ConstantsAssumption DEF JobRecords, Nodes

\* A task runs its nodes and saves the execution.
LEMMA TaskOK ==
  ASSUME Inv, NEW j \in JobIds,
         \/ RejectRun(j) \/ ObserveCancel(j) \/ FailNode(j) \/ Pause(j)
         \/ Complete(j) \/ TimeOut(j)
  PROVE  Inv'
<1> USE DEF Inv
<1>0. /\ jobs[j].done \in 0..NodeCount /\ jobs[j].paused \in Gates \cup {0}
      /\ {"failed", "cancelled", "paused", "completed", "timed_out"}
           \subseteq Statuses
      /\ NodeCount \in 0..NodeCount
  BY JobType, ConstantsAssumption DEF JobRecords, Statuses, Terminal
<1>1. CASE RejectRun(j)
  <2>1. /\ doc' \in Docs /\ doc'.crashes = doc.crashes
        /\ faults' \in Nat /\ view' \in Statuses /\ jobs' \in Seq(JobRecords)
    BY <1>0, <1>1, FinishKeeps DEF RejectRun
  <2> QED
    BY <1>1, <2>1 DEF RejectRun, TypeOK, CountKept, requests, sweeps, history
<1>2. CASE ObserveCancel(j)
  <2>1. /\ doc' \in Docs /\ doc'.crashes = doc.crashes
        /\ faults' \in Nat /\ view' \in Statuses /\ jobs' \in Seq(JobRecords)
    BY <1>0, <1>2, FinishKeeps DEF ObserveCancel
  <2>2. flag' \in BOOLEAN
    <3>1. CacheMayFail \in BOOLEAN
      BY DEF CacheMayFail
    <3>2. flag' = FALSE \/ flag' = CacheMayFail
      BY <1>2 DEF ObserveCancel
    <3> QED
      BY <3>1, <3>2
  <2> QED
    BY <1>2, <2>1, <2>2 DEF ObserveCancel, TypeOK, CountKept, requests,
                            sweeps, history
<1>3. CASE FailNode(j)
  <2>1. /\ doc' \in Docs /\ doc'.crashes = doc.crashes
        /\ faults' \in Nat /\ view' \in Statuses /\ jobs' \in Seq(JobRecords)
    BY <1>0, <1>3, FinishKeeps DEF FailNode
  <2>2. ran' \in [Nodes -> Nat]
    BY <1>3, NextNode DEF FailNode, AtNode, TypeOK
  <2> QED
    BY <1>3, <2>1, <2>2
       DEF FailNode, TypeOK, CountKept, requests, sweeps
<1>4. CASE Pause(j)
  <2> DEFINE n == jobs[j].done + 1
  <2>1. n \in Nodes /\ n \in 0..NodeCount /\ n \in Gates
    BY <1>4, NextNode DEF Pause, AtNode
  <2>2. /\ doc' \in Docs /\ doc'.crashes = doc.crashes
        /\ faults' \in Nat /\ view' \in Statuses /\ jobs' \in Seq(JobRecords)
    BY <1>0, <1>4, <2>1, FinishKeeps DEF Pause
  <2>3. ran' \in [Nodes -> Nat]
    BY <1>4, <2>1 DEF Pause, TypeOK
  <2>4. approvals' \in [Gates -> Nat]
    <3>1. ApprovalRequested(j, n)
      BY <1>4 DEF Pause
    <3>2. approvals \in [Gates -> Nat]
      BY DEF TypeOK
    <3>3. \/ approvals' = [approvals EXCEPT ![n] = @ + 1]
          \/ approvals' = approvals
      BY <3>1 DEF ApprovalRequested
    <3>4. approvals[n] + 1 \in Nat
      BY <2>1, <3>2
    <3> QED
      BY <3>2, <3>3, <3>4
  <2> QED
    BY <1>4, <2>2, <2>3, <2>4 DEF Pause, TypeOK, CountKept, requests, sweeps
<1>5. CASE Complete(j)
  <2>1. /\ doc' \in Docs /\ doc'.crashes = doc.crashes
        /\ faults' \in Nat /\ view' \in Statuses /\ jobs' \in Seq(JobRecords)
    BY <1>0, <1>5, FinishKeeps DEF Complete
  <2> QED
    BY <1>5, <2>1 DEF Complete, TypeOK, CountKept, requests, sweeps, history
<1>6. CASE TimeOut(j)
  <2>1. /\ doc' \in Docs /\ doc'.crashes = doc.crashes
        /\ faults' \in Nat /\ view' \in Statuses /\ jobs' \in Seq(JobRecords)
    BY <1>0, <1>6, FinishKeeps DEF TimeOut
  <2> QED
    BY <1>6, <2>1 DEF TimeOut, TypeOK, CountKept, requests, sweeps, history
<1> QED
  BY <1>1, <1>2, <1>3, <1>4, <1>5, <1>6

LEMMA RunNodeOK ==
  ASSUME Inv, NEW j \in JobIds, RunNode(j)
  PROVE  Inv'
<1> USE DEF Inv
<1> DEFINE n == jobs[j].done + 1
           r == [jobs[j] EXCEPT !.done = n]
<1>1. n \in Nodes /\ n \in 0..NodeCount
  BY NextNode DEF RunNode, AtNode
<1>2. r \in JobRecords
  BY <1>1, JobType DEF JobRecords
<1>3. jobs' = [jobs EXCEPT ![j] = r]
  BY DEF RunNode
<1>4. jobs' \in Seq(JobRecords)
  BY <1>2, <1>3, JobsUpdate
<1>5. doc' \in Docs /\ doc'.crashes = doc.crashes /\ faults' \in Nat
  <2>1. "running" \in Statuses
    BY DEF Statuses
  <2>2. CASE doc' = doc /\ NoFault
    BY <2>2 DEF NoFault, TypeOK
  <2>3. CASE SaveExecution(j, "running", 0, n)
    BY <1>1, <2>1, <2>3, SaveKeeps
  <2> QED
    BY <2>2, <2>3 DEF RunNode
<1>6. ran' \in [Nodes -> Nat]
  BY <1>1 DEF RunNode, TypeOK
<1>7. view' \in Statuses
  BY ProgressType DEF RunNode, Statuses
<1> QED
  BY <1>4, <1>5, <1>6, <1>7
     DEF RunNode, TypeOK, CountKept, requests, sweeps, Statuses

\* The entry is acked, or the worker dies first.
LEMMA JobEndsOK ==
  ASSUME Inv, NEW j \in JobIds, Ack(j) \/ WorkerDies(j)
  PROVE  Inv'
<1> USE DEF Inv
<1>1. doc' \in Docs /\ doc'.crashes = doc.crashes
  <2>1. (IF doc.runner = j THEN 0 ELSE doc.runner) \in Nat
    BY DEF TypeOK, Docs
  <2> QED
    BY <2>1 DEF Ack, WorkerDies, TypeOK, Docs
<1>2. CASE Ack(j)
  <2> DEFINE r == [jobs[j] EXCEPT !.st = "ended"]
  <2>1. r \in JobRecords
    BY JobType DEF JobRecords, JobStates
  <2>2. jobs' = [jobs EXCEPT ![j] = r]
    BY <1>2 DEF Ack
  <2>3. jobs' \in Seq(JobRecords)
    BY <2>1, <2>2, JobsUpdate
  <2> QED
    BY <1>1, <1>2, <2>3
       DEF Ack, TypeOK, CountKept, redis, requests, sweeps, history
<1>3. CASE WorkerDies(j)
  <2>1. jobs' \in Seq(JobRecords)
    BY <1>3, RedeliverType DEF WorkerDies
  <2> QED
    BY <1>1, <1>3, <2>1 DEF WorkerDies, Fault, TypeOK, CountKept, redis,
                            requests, sweeps, history
<1> QED
  BY <1>2, <1>3

-----------------------------------------------------------------------------
\* Approve and reject.
LEMMA OfficerOK ==
  ASSUME Inv, NEW o \in Officers, Look(o) \/ OfficerStep(o)
  PROVE  Inv'
<1> USE DEF Inv
<1>0. officer[o] \in OfficerRecords /\ doc \in Docs /\ officer[o].kind \in JobKinds
  BY DEF TypeOK, JobKinds, OfficerRecords
<1>1. \A q \in OfficerPcs :
        [officer EXCEPT ![o].pc = q] \in [Officers -> OfficerRecords]
  <2> TAKE q \in OfficerPcs
  <2>1. [officer[o] EXCEPT !.pc = q] \in OfficerRecords
    BY <1>0 DEF OfficerRecords
  <2> QED
    BY <2>1 DEF TypeOK
<1>2. {"decide", "enqueue", "rollback", "done"} \subseteq OfficerPcs
  BY DEF OfficerPcs
<1>3. CASE Look(o)
  <2>1. officer' \in [Officers -> OfficerRecords]
    <3>1. PICK k \in {"approve", "reject"} :
            officer' = [officer EXCEPT ![o] = [pc |-> "decide", kind |-> k,
                                               read |-> doc.paused, hit |-> 0]]
      BY <1>3 DEF Look
    <3>2. [pc |-> "decide", kind |-> k, read |-> doc.paused, hit |-> 0]
            \in OfficerRecords
      BY <1>0, <1>2 DEF OfficerRecords, Docs
    <3> QED
      BY <3>1, <3>2 DEF TypeOK
  <2> QED
    BY <1>3, <2>1 DEF Look, TypeOK, CountKept, redis, sweeps, history
<1>4. CASE Decide(o)
  <2>1. officer' \in [Officers -> OfficerRecords]
    <3>1. [officer[o] EXCEPT !.pc = "enqueue", !.hit = doc.paused]
            \in OfficerRecords
      BY <1>0, <1>2 DEF OfficerRecords, Docs
    <3> QED
      BY <3>1, <1>1, <1>2, <1>4 DEF Decide, TypeOK
  <2>2. doc' \in Docs /\ doc'.crashes = doc.crashes
    BY <1>0, <1>4 DEF Decide, Docs, Statuses
  <2>3. /\ approved' \subseteq Gates \cup {0}
        /\ rejected' \subseteq Gates \cup {0}
    BY <1>0, <1>4 DEF Decide, Docs, TypeOK
  <2> QED
    BY <1>4, <2>1, <2>2, <2>3 DEF Decide, TypeOK, CountKept, redis, sweeps
<1>5. CASE DecideEnqueue(o)
  <2>1. officer' \in [Officers -> OfficerRecords] /\ jobs' \in Seq(JobRecords)
    BY <1>0, <1>1, <1>2, <1>5, EnqueuedType DEF DecideEnqueue
  <2> QED
    BY <1>5, <2>1 DEF DecideEnqueue, TypeOK, CountKept, redis, sweeps, history
<1>6. CASE DecideRaises(o)
  <2>1. officer' \in [Officers -> OfficerRecords]
    BY <1>1, <1>2, <1>6 DEF DecideRaises
  <2>2. jobs' \in Seq(JobRecords) /\ faults' \in Nat
    BY <1>0, <1>6, EnqueueRaisedType DEF DecideRaises
  <2> QED
    BY <1>6, <2>1, <2>2
       DEF DecideRaises, TypeOK, CountKept, redis, sweeps, history
<1>7. CASE DecideRollback(o)
  <2>1. officer' \in [Officers -> OfficerRecords]
    BY <1>1, <1>2, <1>7 DEF DecideRollback
  <2>2. doc' \in Docs /\ doc'.crashes = doc.crashes
    BY <1>0, <1>7 DEF DecideRollback, Docs, Statuses
  <2> QED
    BY <1>7, <2>1, <2>2
       DEF DecideRollback, TypeOK, CountKept, redis, sweeps, history
<1> QED
  BY <1>3, <1>4, <1>5, <1>6, <1>7 DEF OfficerStep

LEMMA RequestDiesOK ==
  ASSUME Inv, RequestDies
  PROVE  Inv'
<1> USE DEF Inv
<1>1. officer' \in [Officers -> OfficerRecords]
  <2>1. CASE UNCHANGED officer
    BY <2>1 DEF TypeOK
  <2>2. ASSUME NEW o \in Officers,
               officer' = [officer EXCEPT ![o].pc = "done"]
        PROVE  officer' \in
                 [Officers -> OfficerRecords]
    <3>1. [officer[o] EXCEPT !.pc = "done"]
            \in OfficerRecords
      <4>1. officer[o] \in OfficerRecords
        BY DEF TypeOK
      <4> QED
        BY <4>1 DEF OfficerPcs, OfficerRecords
    <3> QED
      BY <2>2, <3>1 DEF TypeOK
  <2> QED
    BY <2>1, <2>2 DEF RequestDies
<1>2. submitter' \in {"idle", "enqueue", "failed", "done"} /\ faults' \in Nat
  BY DEF RequestDies, Fault, TypeOK
<1> QED
  BY <1>1, <1>2 DEF RequestDies, TypeOK, CountKept, redis, sweeps, history

\* Cancel.
LEMMA CancelOK ==
  ASSUME Inv, CancelRead \/ CancelStep
  PROVE  Inv'
<1> USE DEF Inv
<1> DEFINE Req == [pc : CancelPcs, seen : Statuses]
<1>0. doc \in Docs /\ canceller \in Req
  BY DEF TypeOK
<1>1. canceller' \in Req
  <2>1. \A q \in CancelPcs : [canceller EXCEPT !.pc = q] \in Req
    BY <1>0
  <2>2. CASE CancelRead
    BY <1>0, <2>2 DEF CancelRead, CancelPcs, Docs
  <2>3. CASE CancelMark
    BY <2>1, <2>3 DEF CancelMark, CancelPcs
  <2>4. CASE CancelFlag
    BY <2>1, <2>4 DEF CancelFlag, CancelPcs
  <2>5. CASE CancelCas
    BY <1>0, <2>1, <2>5 DEF CancelCas, CancelPcs
  <2> QED
    BY <2>2, <2>3, <2>4, <2>5 DEF CancelStep
<1>2. doc' \in Docs /\ doc'.crashes = doc.crashes
  BY <1>0 DEF CancelRead, CancelStep, CancelMark, CancelFlag, CancelCas, Docs,
              Statuses, Terminal
<1>3. view' \in Statuses /\ faults' \in Nat
  BY DEF CancelRead, CancelStep, CancelMark, CancelFlag, CancelCas, TypeOK,
         Statuses, redis, Fault, NoFault
<1>4. flag' \in BOOLEAN
  <2>1. flag' = flag \/ flag' = TRUE \/ flag' = FALSE
    BY DEF CancelRead, CancelStep, CancelMark, CancelFlag, CancelCas, redis
  <2> QED
    BY <2>1 DEF TypeOK
<1> QED
  BY <1>1, <1>2, <1>3, <1>4
     DEF CancelRead, CancelStep, CancelMark, CancelFlag, CancelCas, TypeOK,
         CountKept, sweeps, history

\* Time passes.
LEMMA TimeOK ==
  ASSUME Inv, StartAges \/ ResumeAges \/ FlagExpires \/ ViewExpires
  PROVE  Inv'
<1> USE DEF Inv
<1>1. doc' \in Docs /\ doc'.crashes = doc.crashes
  BY DEF StartAges, ResumeAges, FlagExpires, ViewExpires, TypeOK, Docs
<1> QED
  BY <1>1 DEF StartAges, ResumeAges, FlagExpires, ViewExpires, TypeOK,
              CountKept, redis, requests, sweeps, history, Statuses

-----------------------------------------------------------------------------
\* The stuck sweep: the only writer of the crash count.
LEMMA SweepOK ==
  ASSUME Inv, SweepStep \/ SweeperDies
  PROVE  Inv'
<1> USE DEF Inv
<1> DEFINE Sw == [pc : {"idle", "cas", "enqueue", "rollback"},
                  status : Statuses, crashes : Nat, cancel : BOOLEAN]
<1>0. /\ doc \in Docs /\ sweep \in Sw /\ SweepIdle \in Sw
      /\ SweepIdle.pc = "idle"
  BY DEF TypeOK, SweepIdle, Statuses
<1>c. /\ crashJobs \in Nat /\ doc.crashes \in Nat /\ sweep.crashes \in Nat
      /\ doc.status \in Statuses /\ doc.cancel \in BOOLEAN
      /\ sweep.status \in Statuses /\ sweep.cancel \in BOOLEAN
      /\ MaxCrashResumes \in Nat
  BY <1>0, ConstantsAssumption DEF TypeOK, Docs
<1>1. CASE SweepRead
  <2>1. sweep' \in Sw /\ sweep'.pc = "cas" /\ sweep'.crashes = doc.crashes
    BY <1>1, <1>c DEF SweepRead
  <2> QED
    BY <1>1, <2>1 DEF SweepRead, TypeOK, CountKept, redis, requests, history
<1>2. CASE SweepCas
  <2>1. CASE doc.status # sweep.status /\ sweep' = SweepIdle /\ UNCHANGED doc
    BY <1>0, <1>2, <2>1
       DEF SweepCas, TypeOK, CountKept, redis, requests, history
  <2>2. CASE /\ sweep' = SweepIdle
             /\ \E s \in {"cancelled", "failed"} :
                  doc' = [doc EXCEPT !.status = s]
    <3>1. doc' \in Docs /\ doc'.crashes = doc.crashes
      BY <1>0, <2>2 DEF Docs, Statuses, Terminal
    <3> QED
      BY <1>0, <1>2, <2>2, <3>1
         DEF SweepCas, TypeOK, CountKept, redis, requests, history
  <2>3. CASE /\ AttemptsLeft
             /\ doc' = [doc EXCEPT !.status = "resuming", !.resumeOld = FALSE,
                                   !.crashes = @ + 1]
             /\ sweep' = [sweep EXCEPT !.pc = "enqueue"]
    <3>1. sweep.crashes = doc.crashes /\ doc.crashes < MaxCrashResumes
      BY <1>2, <2>3 DEF SweepCas, CountKept, AttemptsLeft
    <3>2. doc.crashes + 1 \in Nat /\ doc.crashes + 1 <= MaxCrashResumes
      BY <1>c, <3>1
    <3>3. doc' \in Docs /\ doc'.crashes = doc.crashes + 1
      <4> DEFINE c == doc.crashes + 1
      <4>1. doc' = [doc EXCEPT !.status = "resuming", !.resumeOld = FALSE,
                               !.crashes = c]
        BY <2>3
      <4>2. c \in Nat
        BY <3>2
      <4> HIDE DEF c
      <4>3. doc' \in Docs /\ doc'.crashes = c
        BY <1>0, <4>1, <4>2 DEF Docs, Statuses
      <4> QED
        BY <4>3 DEF c
    <3>4. sweep' \in Sw /\ sweep'.pc = "enqueue"
      BY <1>0, <2>3
    <3>5. crashJobs < doc.crashes + 1
      BY <1>c DEF CountKept
    <3>6. UNCHANGED <<approvals, redis, jobs, requests, timer, faults, history>>
      BY <1>2 DEF SweepCas
    <3>7. CountKept'
      BY <3>2, <3>3, <3>4, <3>5, <3>6, <1>c DEF CountKept, history
    <3> QED
      BY <3>3, <3>4, <3>6, <3>7 DEF TypeOK, redis, requests, history
  <2> QED
    BY <1>2, <2>1, <2>2, <2>3 DEF SweepCas
<1>3. CASE SweepEnqueue
  <2>1. jobs' \in Seq(JobRecords)
    BY <1>3, EnqueuedType DEF SweepEnqueue, JobKinds
  <2>2. crashJobs < doc.crashes
    BY <1>3 DEF SweepEnqueue, CountKept
  <2>3. crashJobs' \in Nat /\ crashJobs' <= doc.crashes
    BY <1>3, <1>c, <2>2 DEF SweepEnqueue
  <2> QED
    BY <1>0, <1>3, <2>1, <2>3
       DEF SweepEnqueue, TypeOK, CountKept, redis, requests
<1>4. CASE SweepRaises
  <2>1. jobs' \in Seq(JobRecords) /\ faults' \in Nat
    BY <1>4, EnqueueRaisedType DEF SweepRaises, JobKinds
  <2>2. sweep' \in Sw /\ sweep'.pc = "rollback"
    BY <1>0, <1>4 DEF SweepRaises
  <2> QED
    BY <1>4, <2>1, <2>2
       DEF SweepRaises, TypeOK, CountKept, redis, requests, history
<1>5. CASE SweepRollback
  <2> DEFINE c == doc.crashes - 1
  <2>1. crashJobs < doc.crashes
    BY <1>5 DEF SweepRollback, CountKept
  <2>2. c \in Nat /\ crashJobs <= c /\ c <= MaxCrashResumes
    BY <1>c, <2>1 DEF CountKept
  <2>3. doc' = [doc EXCEPT !.status = sweep.status, !.crashes = c]
    BY <1>5 DEF SweepRollback
  <2> HIDE DEF c
  <2>4. doc' \in Docs /\ doc'.crashes = c
    BY <1>0, <1>c, <2>2, <2>3 DEF Docs
  <2> QED
    BY <1>0, <1>5, <2>2, <2>4
       DEF SweepRollback, TypeOK, CountKept, redis, requests, history
<1>6. CASE SweeperDies
  BY <1>0, <1>6 DEF SweeperDies, Fault, TypeOK, CountKept, redis, requests,
                    history
<1> QED
  BY <1>1, <1>2, <1>3, <1>4, <1>5, <1>6 DEF SweepStep

\* The approval-timeout sweep.
LEMMA TimerOK ==
  ASSUME Inv, TimerStep \/ TimerDies
  PROVE  Inv'
<1> USE DEF Inv
<1>1. CASE TimeoutMark
  <2>1. PICK g \in Gates : /\ approvals[g] > 0
                           /\ approvals' = [approvals EXCEPT ![g] = @ - 1]
    BY <1>1 DEF TimeoutMark
  <2>2. approvals[g] - 1 \in Nat
    BY <2>1 DEF TypeOK
  <2>3. approvals' \in [Gates -> Nat]
    BY <2>1, <2>2 DEF TypeOK
  <2> QED
    BY <1>1, <2>3
       DEF TimeoutMark, TypeOK, CountKept, redis, requests, history
<1>2. CASE TimeoutFail
  <2>1. doc' \in Docs /\ doc'.crashes = doc.crashes
    BY <1>2 DEF TimeoutFail, TypeOK, Docs, Statuses, Terminal
  <2> QED
    BY <1>2, <2>1
       DEF TimeoutFail, TypeOK, CountKept, redis, requests, history
<1>3. CASE TimerDies
  BY <1>3 DEF TimerDies, Fault, TypeOK, CountKept, redis, requests, history
<1> QED
  BY <1>1, <1>2, <1>3 DEF TimerStep

-----------------------------------------------------------------------------
LEMMA StepOK == Inv /\ [Next]_vars => Inv'
<1> SUFFICES ASSUME Inv, [Next]_vars PROVE Inv'
  OBVIOUS
<1>1. CASE Submit \/ SubmitEnqueue \/ SubmitRaises \/ SubmitFails
  BY <1>1, SubmitOK
<1>2. ASSUME NEW j \in JobIds, JobStep(j) \/ WorkerDies(j) PROVE Inv'
  BY <1>2, DeliverOK, TaskOK, RunNodeOK, JobEndsOK DEF JobStep
<1>3. ASSUME NEW o \in Officers, Look(o) \/ OfficerStep(o) PROVE Inv'
  BY <1>3, OfficerOK
<1>4. CASE RequestDies
  BY <1>4, RequestDiesOK
<1>5. CASE CancelRead \/ CancelStep
  BY <1>5, CancelOK
<1>6. CASE StartAges \/ ResumeAges \/ FlagExpires \/ ViewExpires
  BY <1>6, TimeOK
<1>7. CASE SweepStep \/ SweeperDies
  BY <1>7, SweepOK
<1>8. CASE TimerStep \/ TimerDies
  BY <1>8, TimerOK
<1>9. CASE UNCHANGED vars
  BY <1>9 DEF vars, redis, requests, sweeps, history, Inv, TypeOK, CountKept
<1> QED
  BY <1>1, <1>2, <1>3, <1>4, <1>5, <1>6, <1>7, <1>8, <1>9 DEF Next

LEMMA InvHolds == Spec => []Inv
BY InitOK, StepOK, PTL DEF Spec

\* Every state the router, the workers and the sweeps can reach is well typed,
\* for every chain of nodes, every number of officers and every failure bound.
THEOREM TypeCorrect == Spec => []TypeOK
<1>1. Inv => TypeOK
  BY DEF Inv
<1> QED
  BY <1>1, InvHolds, PTL

\* The stuck sweep never enqueues more crash-resumes for one execution than
\* MAX_CRASH_RESUME_ATTEMPTS, although executors overwrite the document, its
\* own enqueue may raise and be rolled back, and it may die in between.
THEOREM CrashResumesTheorem == Spec => []CrashResumesBounded
<1>1. Inv => CrashResumesBounded
  BY ConstantsAssumption DEF Inv, TypeOK, Docs, CountKept, CrashResumesBounded
<1> QED
  BY <1>1, InvHolds, PTL

-----------------------------------------------------------------------------
(***************************************************************************)
(* What holds while nobody who moves the execution on is lost: no job is   *)
(* slow, no worker, save, enqueue or request handler fails.  Redis, the    *)
(* sweeps and the insert of a request may fail.                            *)
(***************************************************************************)
Calm == ~SlowRuns /\ FaultKinds \subseteq {"cache", "sweeper", "timer", "insert"}

Sweeping == sweep.pc \in {"enqueue", "rollback"}

\* Nobody moves the execution on.
Quiet ==
  /\ \A j \in JobIds : ~Active(j)
  /\ \A o \in Officers : ~Resuming(o)
  /\ ~Sweeping

\* There is one such call or job at most, and the status tells which.
OneMover ==
  /\ submitter \in {"idle", "enqueue", "done"}
  /\ \A o \in Officers : officer[o].pc # "rollback"
  /\ sweep.pc # "rollback"
  /\ \A i, j \in JobIds : Active(i) /\ Active(j) => i = j
  /\ \A o, p \in Officers : Resuming(o) /\ Resuming(p) => o = p
  /\ Sweeping => \A o \in Officers : ~Resuming(o)
  /\ (\E j \in JobIds : Active(j)) => ~Sweeping /\ \A o \in Officers : ~Resuming(o)

StatusTells ==
  /\ doc.status = "none" <=> submitter = "idle"
  /\ submitter # "done" => JobIds = {} /\ sweep.pc = "idle"
  /\ submitter # "done" => doc.done = 0 /\ ~doc.startOld
  /\ submitter = "enqueue" => doc.status = "queued"
  /\ doc.status \notin {"queued", "running", "resuming"} => Quiet
  /\ doc.status \in {"queued", "running"} =>
       /\ ~Sweeping /\ \A o \in Officers : ~Resuming(o)
       /\ \A j \in JobIds : Active(j) => jobs[j].kind = "run" /\ jobs[j].st # "reject"
  /\ doc.status = "resuming" => \A j \in JobIds : Active(j) => jobs[j].kind # "run"
  /\ Stuck => Quiet
  /\ sweep.pc = "cas" => Stuck /\ sweep.status = doc.status

\* Gates that lie behind n are approved.
Cleared(n) == \A g \in Gates : g <= n => g \in approved

\* What lies behind the walk is approved, but for the gate that it waits at.
Behind ==
  /\ doc.status = "paused" =>
       doc.paused = doc.done /\ doc.done \in Gates /\ Cleared(doc.done - 1)
  /\ doc.status \in {"queued", "running", "resuming"} /\ ~Rejecting => Cleared(doc.done)
  /\ \A j \in JobIds : jobs[j].st = "loop" => Cleared(jobs[j].done) /\ jobs[j].kind # "reject"
  /\ \A j \in JobIds : jobs[j].st = "reject" => jobs[j].kind = "reject"
  /\ GateNeedsDecision

\* What lies ahead of the walk has not been started.
Fresh(n) == \A m \in Nodes : m > n => ran[m] = 0

Ahead ==
  /\ \A j \in JobIds : jobs[j].st = "loop" => Fresh(jobs[j].done)
  /\ doc.status \notin Terminal /\ (~\E j \in JobIds : jobs[j].st = "loop") => Fresh(doc.done)
  /\ \A j \in JobIds : Active(j) /\ jobs[j].kind = "run" /\ jobs[j].st = "queued" => Fresh(0)
  /\ NodeOnce

CalmInv == OneMover /\ StatusTells /\ Behind /\ Ahead

\* A cancel that was answered is in Redis until the run has ended.
CancelKept ==
  /\ canceller.pc \in {"cas", "done"} => flag \/ doc.status \in Terminal
  /\ \A j \in JobIds : jobs[j].told => canceller.pc \in {"cas", "done"}

-----------------------------------------------------------------------------
\* What cannot happen in the calm.
LEMMA NoLoss ==
  ASSUME Calm
  PROVE  \A k \in {"worker", "save", "enqueue", "api"} : ~Fault(k)
BY DEF Calm, Fault

\* Who moves the execution on is alone, and the sweep is not looking.
LEMMA Alone ==
  ASSUME CalmInv, NEW j \in JobIds, Active(j)
  PROVE  /\ submitter = "done" /\ sweep.pc \notin {"cas", "enqueue", "rollback"}
         /\ \A o \in Officers : ~Resuming(o)
         /\ \A i \in JobIds \ {j} : ~Active(i)
         /\ doc.status \in {"queued", "running", "resuming"} /\ ~Stuck
         /\ jobs[j].kind = "run" <=> doc.status \in {"queued", "running"}
BY DEF CalmInv, OneMover, StatusTells, Quiet, Sweeping

\* Steps that touch none of what the invariant speaks of.
LEMMA Aside ==
  ASSUME CalmInv, UNCHANGED <<jobs, submitter, officer, sweep, ran, approved>>,
         doc'.status = doc.status, doc'.done = doc.done, doc'.paused = doc.paused,
         doc'.startOld = doc.startOld, doc'.resumeOld = doc.resumeOld
  PROVE  CalmInv'
<1>1. OneMover'
  BY DEF CalmInv, OneMover, Active, Resuming, Sweeping, JobIds
<1>2. StatusTells'
  BY DEF CalmInv, StatusTells, Quiet, Stuck, Active, Resuming, Sweeping, JobIds
<1>3. Behind'
  BY DEF CalmInv, Behind, Cleared, Rejecting, GateNeedsDecision, Active, Resuming, JobIds
<1>4. Ahead'
  BY DEF CalmInv, Ahead, Fresh, NodeOnce, Active, JobIds
<1> QED
  BY <1>1, <1>2, <1>3, <1>4 DEF CalmInv

\* A run that nobody moves on ends.
LEMMA Ends ==
  ASSUME TypeOK, CalmInv, Quiet, submitter = "done", doc'.status \in Terminal,
         UNCHANGED <<jobs, submitter, officer, ran, approved>>,
         sweep'.pc = "idle"
  PROVE  CalmInv'
<1>0. \A j \in JobIds : jobs[j].st \notin {"queued", "loop", "reject"}
  BY DEF Quiet, Active
<1>1. OneMover'
  BY <1>0 DEF CalmInv, OneMover, Active, Resuming, Sweeping, JobIds, Quiet
<1>2. StatusTells'
  BY <1>0 DEF CalmInv, StatusTells, Quiet, Stuck, Active, Resuming, Sweeping, JobIds, Terminal
<1>3. Behind'
  BY <1>0 DEF CalmInv, Behind, GateNeedsDecision, JobIds, Terminal
<1>4. Ahead'
  BY <1>0 DEF CalmInv, Ahead, NodeOnce, Active, JobIds, Terminal
<1> QED
  BY <1>1, <1>2, <1>3, <1>4 DEF CalmInv

\* The handler of a job returns with the run ended, or parked at a gate.
LEMMA HandlerEnds ==
  ASSUME TypeOK, CalmInv, NEW j \in JobIds, Active(j),
         JobIds' = JobIds, \A i \in JobIds \ {j} : jobs'[i] = jobs[i],
         jobs'[j].st = "acking",
         UNCHANGED <<submitter, officer, sweep, approved>>,
         \/ doc'.status \in Terminal
         \/ /\ doc'.status = "paused" /\ doc'.paused = doc'.done /\ doc'.done \in Gates
            /\ Cleared(doc'.done - 1) /\ Fresh(doc.done)',
         GateNeedsDecision', NodeOnce'
  PROVE  CalmInv'
<1>0. /\ submitter = "done" /\ sweep.pc = "idle"
      /\ \A o \in Officers : ~Resuming(o)
      /\ \A i \in JobIds' : ~Active(i)'
      /\ \A i \in JobIds' : jobs'[i].st \notin {"queued", "loop", "reject"}
      /\ \A o \in Officers : officer[o].pc # "rollback"
  <2>1. sweep.pc \in {"idle", "cas", "enqueue", "rollback"}
    BY DEF TypeOK
  <2> QED
    BY <2>1, Alone DEF Active, CalmInv, OneMover
<1>1. OneMover'
  BY <1>0 DEF OneMover, Resuming, Sweeping
<1>2. StatusTells'
  BY <1>0 DEF StatusTells, Quiet, Stuck, Resuming, Sweeping, Terminal
<1>3. Behind'
  BY <1>0 DEF Behind, Terminal, Cleared
<1>4. Ahead'
  BY <1>0 DEF Ahead, Terminal
<1> QED
  BY <1>1, <1>2, <1>3, <1>4 DEF CalmInv

-----------------------------------------------------------------------------
(***************************************************************************)
(* The steps of the jobs.                                                  *)
(***************************************************************************)

\* A job is enqueued for who was moving the execution on.
LEMMA JobAdded ==
  ASSUME TypeOK, CalmInv, NEW k \in JobKinds, Enqueued(k),
         \A j \in JobIds : ~Active(j),
         submitter' = "done", doc.status # "none", doc' = doc,
         \A o \in Officers : ~Resuming(o)', ~Sweeping',
         \A o \in Officers : officer'[o].pc # "rollback",
         sweep'.pc = "idle", ~Stuck,
         doc.status \in {"queued", "running"} => k = "run" /\ Fresh(0),
         doc.status = "resuming" => k # "run",
         doc.status \in {"queued", "running", "resuming"},
         k = "reject" \/ ~Rejecting,
         UNCHANGED <<ran, approved>>
  PROVE  CalmInv'
<1>1. /\ jobs' = Append(jobs, NewJob(k)) /\ jobs \in Seq(JobRecords)
  BY DEF Enqueued, TypeOK
<1>2. PICK n : n = Len(jobs) + 1
  OBVIOUS
<1>3. /\ n \notin JobIds /\ JobIds' = JobIds \cup {n} /\ jobs'[n] = NewJob(k)
      /\ \A j \in JobIds : jobs'[j] = jobs[j]
  BY <1>1, <1>2 DEF JobIds
<1>4. /\ \A j \in JobIds' : Active(j)' <=> j = n
      /\ \A j \in JobIds' : jobs'[j].st \notin {"loop", "reject"}
      /\ jobs'[n].kind = k /\ jobs'[n].st = "queued"
  BY <1>3 DEF Active, NewJob
<1>5. sweep'.pc # "rollback"
  OBVIOUS
<1>6. OneMover'
  BY <1>4 DEF OneMover
<1>7. StatusTells'
  BY <1>4 DEF StatusTells, Quiet, Stuck, CalmInv
<1>8. Behind'
  <2>1. Rejecting' <=> k = "reject"
    BY <1>3, <1>4 DEF Rejecting
  <2>2. k # "reject" => Cleared(doc.done)
    BY DEF CalmInv, Behind
  <2> QED
    BY <1>4, <2>1, <2>2 DEF CalmInv, Behind, Cleared, GateNeedsDecision
<1>9. Ahead'
  <2>1. Fresh(doc.done)
    BY DEF CalmInv, Ahead, Active, Terminal
  <2>2. k = "run" => Fresh(0)
    OBVIOUS
  <2> QED
    BY <1>4, <2>1, <2>2 DEF CalmInv, Ahead, Fresh, NodeOnce
<1> QED
  BY <1>6, <1>7, <1>8, <1>9 DEF CalmInv

\* A run waits again, or is given up: it had not begun.
LEMMA JobWaits ==
  ASSUME TypeOK, CalmInv, NEW j \in JobIds, jobs[j].st = "queued",
         jobs[j].kind = "run", Redeliver(j),
         UNCHANGED <<doc, submitter, officer, sweep, ran, approved>>
  PROVE  CalmInv'
<1>1. /\ jobs \in Seq(JobRecords) /\ jobs[j] \in JobRecords
  BY JobType DEF TypeOK
<1>2. /\ JobIds' = JobIds /\ \A i \in JobIds \ {j} : jobs'[i] = jobs[i]
      /\ jobs'[j].kind = jobs[j].kind /\ jobs'[j].st \in {"queued", "dead"}
  BY <1>1 DEF Redeliver, JobIds, JobRecords
<1>3. Active(j) /\ \A i \in JobIds : Active(i)' => Active(i) /\ jobs[i].kind = jobs'[i].kind
  BY <1>2 DEF Active
<1>4. \A i \in JobIds : jobs'[i].st \notin {"loop", "reject"}
  BY <1>2, <1>3, Alone DEF Active
<1>5. OneMover'
  BY <1>2, <1>3 DEF CalmInv, OneMover, Resuming, Sweeping
<1>6. StatusTells'
  BY <1>2, <1>3, <1>4 DEF CalmInv, StatusTells, Quiet, Stuck, Resuming, Sweeping
<1>7. Behind'
  <2>1. doc.status \in {"queued", "running"} /\ ~Rejecting
    BY <1>3, Alone DEF Rejecting, Active
  <2> QED
    BY <1>2, <1>4, <2>1 DEF CalmInv, Behind, Cleared, GateNeedsDecision
<1>8. Ahead'
  BY <1>2, <1>3, <1>4, Alone DEF CalmInv, Ahead, Fresh, NodeOnce, Active
<1> QED
  BY <1>5, <1>6, <1>7, <1>8 DEF CalmInv

\* The one active job takes a step and stays active.
LEMMA JobMoves ==
  ASSUME TypeOK, CalmInv, NEW j \in JobIds, Active(j),
         JobIds' = JobIds, \A i \in JobIds \ {j} : jobs'[i] = jobs[i],
         jobs'[j].kind = jobs[j].kind,
         UNCHANGED <<submitter, officer, sweep, approved>>,
         \/ doc'.status = doc.status
         \/ jobs[j].kind = "run" /\ doc'.status = "running",
         ~Stuck',
         \/ /\ jobs'[j].st = "loop" /\ jobs[j].kind # "reject"
            /\ Cleared(jobs'[j].done) /\ Fresh(jobs[j].done)'
            /\ Cleared(doc'.done)
         \/ /\ jobs'[j].st = "reject" /\ jobs[j].kind = "reject"
            /\ Fresh(doc.done)',
         GateNeedsDecision', NodeOnce'
  PROVE  CalmInv'
<1>0. /\ submitter = "done" /\ sweep.pc = "idle"
      /\ \A o \in Officers : ~Resuming(o) /\ ~Resuming(o)'
      /\ \A i \in JobIds' : Active(i)' <=> i = j
      /\ \A o \in Officers : officer[o].pc # "rollback"
      /\ doc'.status \in {"queued", "running", "resuming"}
      /\ jobs[j].kind = "run" <=> doc'.status \in {"queued", "running"}
  <2>1. sweep.pc \in {"idle", "cas", "enqueue", "rollback"}
    BY DEF TypeOK
  <2>2. \A o \in Officers : ~Resuming(o) /\ ~Resuming(o)'
    BY Alone DEF Resuming
  <2>3. \A i \in JobIds' : Active(i)' <=> i = j
    BY Alone DEF Active
  <2> QED
    BY <2>1, <2>2, <2>3, Alone DEF CalmInv, OneMover
<1>1. \A i \in JobIds' \ {j} : jobs'[i].st \notin {"queued", "loop", "reject"}
  BY <1>0 DEF Active
<1>2. OneMover'
  BY <1>0 DEF OneMover, Sweeping
<1>3. StatusTells'
  BY <1>0 DEF StatusTells, Sweeping
<1>4. Behind'
  <2>1. jobs'[j].st = "reject" => Rejecting'
    BY <1>0 DEF Rejecting
  <2> QED
    BY <1>0, <1>1, <2>1 DEF Behind, Cleared
<1>5. Ahead'
  BY <1>0, <1>1 DEF Ahead, Terminal
<1> QED
  BY <1>2, <1>3, <1>4, <1>5 DEF CalmInv

\* Only its own record changes.
LEMMA OwnRecord ==
  ASSUME TypeOK, NEW j \in JobIds,
         NEW st \in JobStates, NEW n \in 0..NodeCount,
         \/ jobs' = [jobs EXCEPT ![j].st = st, ![j].done = n, ![j].told = Told]
         \/ \E p \in Gates \cup {0} :
              jobs' = [jobs EXCEPT ![j].st = st, ![j].done = n,
                                   ![j].paused = p, ![j].told = Told]
         \/ jobs' = [jobs EXCEPT ![j].st = st, ![j].done = n]
  PROVE  /\ JobIds' = JobIds /\ \A i \in JobIds \ {j} : jobs'[i] = jobs[i]
         /\ jobs'[j].kind = jobs[j].kind
         /\ jobs'[j].st = st /\ jobs'[j].done = n
<1>1. jobs \in Seq(JobRecords) /\ jobs[j] \in JobRecords
  BY JobType DEF TypeOK
<1>2. JobIds' = JobIds /\ \A i \in JobIds \ {j} : jobs'[i] = jobs[i]
  BY <1>1 DEF JobIds
<1>3. \/ jobs'[j] = [jobs[j] EXCEPT !.st = st, !.done = n, !.told = Told]
      \/ \E p \in Gates \cup {0} :
           jobs'[j] = [jobs[j] EXCEPT !.st = st, !.done = n, !.paused = p, !.told = Told]
      \/ jobs'[j] = [jobs[j] EXCEPT !.st = st, !.done = n]
  BY <1>1 DEF JobIds
<1>4. /\ jobs'[j].kind = jobs[j].kind
      /\ jobs'[j].st = st /\ jobs'[j].done = n
  BY <1>1, <1>3 DEF JobRecords
<1> QED
  BY <1>2, <1>4

\* A job is delivered: a run starts afresh, a resume where the document stands.
LEMMA CalmDeliver ==
  ASSUME Inv, CalmInv, NEW j \in JobIds,
         StartRun(j) \/ RunRefused(j) \/ StartResume(j) \/ ResumeRefused(j)
  PROVE  CalmInv'
<1>0. /\ TypeOK /\ Active(j) /\ jobs[j].st = "queued"
      /\ {"loop", "reject"} \subseteq JobStates /\ 0 \in 0..NodeCount
      /\ doc.done \in 0..NodeCount /\ doc.paused \in Gates \cup {0}
      /\ \A i \in JobIds : jobs[i].st # "loop"
  <2>1. Active(j) /\ jobs[j].st = "queued"
    BY DEF StartRun, RunRefused, StartResume, ResumeRefused, Active
  <2>2. \A i \in JobIds : jobs[i].st # "loop"
    BY <2>1, Alone DEF Active
  <2> QED
    BY <2>1, <2>2, ConstantsAssumption DEF Inv, TypeOK, Docs, JobStates
<1>u. (StartRun(j) \/ StartResume(j)) =>
        /\ UNCHANGED <<doc, submitter, officer, sweep, ran, approved>>
        /\ ~Stuck' /\ GateNeedsDecision' /\ NodeOnce'
  <2>1. ~Stuck /\ GateNeedsDecision /\ NodeOnce
    BY <1>0, Alone DEF CalmInv, Behind, Ahead
  <2> QED
    BY <2>1 DEF StartRun, StartResume, requests, sweeps, history, Stuck,
                GateNeedsDecision, NodeOnce
<1>1. CASE StartRun(j)
  <2>1. /\ JobIds' = JobIds /\ \A i \in JobIds \ {j} : jobs'[i] = jobs[i]
        /\ jobs'[j].kind = jobs[j].kind
        /\ jobs'[j].st = "loop" /\ jobs'[j].done = 0
    BY <1>0, <1>1, OwnRecord DEF StartRun
  <2>2. jobs[j].kind = "run"
    BY <1>1 DEF StartRun
  <2>3. Fresh(0) /\ Cleared(0)
    BY <1>0, <2>2, ConstantsAssumption DEF CalmInv, Ahead, Cleared
  <2>4. Cleared(doc.done)
    BY <1>0, <2>2, Alone DEF CalmInv, Behind, Rejecting, Active
  <2> QED
    BY <1>0, <1>1, <1>u, <2>1, <2>2, <2>3, <2>4, JobMoves DEF Fresh
<1>2. CASE RunRefused(j)
  BY <1>0, <1>2, JobWaits DEF RunRefused, requests, sweeps, history
<1>3. CASE StartResume(j) /\ Approves(jobs[j].kind)
  <2>1. jobs' = [jobs EXCEPT ![j].st = "loop", ![j].done = doc.done, ![j].told = Told]
    BY <1>3 DEF StartResume
  <2>2. /\ JobIds' = JobIds /\ \A i \in JobIds \ {j} : jobs'[i] = jobs[i]
        /\ jobs'[j].kind = jobs[j].kind
        /\ jobs'[j].st = "loop" /\ jobs'[j].done = doc.done
    BY <1>0, <2>1, OwnRecord
  <2>3. jobs[j].kind \notin {"run", "reject"}
    BY <1>3 DEF StartResume, Approves
  <2>4. ~Rejecting
    BY <1>0, <2>3, Alone DEF Rejecting
  <2>5. Cleared(doc.done) /\ Fresh(doc.done)
    BY <1>0, <2>4, Alone DEF CalmInv, Behind, Ahead, Terminal
  <2> QED
    BY <1>0, <1>3, <1>u, <2>2, <2>3, <2>5, JobMoves DEF Fresh
<1>4. CASE StartResume(j) /\ ~Approves(jobs[j].kind)
  <2>1. jobs' = [jobs EXCEPT ![j].st = "reject", ![j].done = doc.done,
                             ![j].paused = doc.paused, ![j].told = Told]
    BY <1>4 DEF StartResume
  <2>2. /\ JobIds' = JobIds /\ \A i \in JobIds \ {j} : jobs'[i] = jobs[i]
        /\ jobs'[j].kind = jobs[j].kind
        /\ jobs'[j].st = "reject" /\ jobs'[j].done = doc.done
    BY <1>0, <2>1, OwnRecord
  <2>3. jobs[j].kind = "reject"
    BY <1>4 DEF Approves
  <2>4. Fresh(doc.done)
    BY <1>0, Alone DEF CalmInv, Ahead, Terminal
  <2> QED
    BY <1>0, <1>4, <1>u, <2>2, <2>3, <2>4, JobMoves DEF Fresh
<1>5. CASE ResumeRefused(j)
  <2>1. doc.status = "resuming"
    BY <1>0, <1>5, Alone DEF ResumeRefused
  <2> QED
    BY <1>5, <2>1 DEF ResumeRefused, Resumable
<1> QED
  BY <1>1, <1>2, <1>3, <1>4, <1>5

\* The next node is started: for the first time, with every gate before it
\* approved.
LEMMA NodeStarts ==
  ASSUME TypeOK, CalmInv, NEW j \in JobIds, AtNode(j),
         ran' = [ran EXCEPT ![jobs[j].done + 1] = @ + 1], approved' = approved
  PROVE  /\ GateNeedsDecision' /\ NodeOnce'
         /\ \A m \in Nodes : m > jobs[j].done + 1 => ran'[m] = 0
<1>1. PICK n : n = jobs[j].done + 1
  OBVIOUS
<1>2. n \in Nodes /\ ran \in [Nodes -> Nat] /\ jobs[j].done \in Nat
  BY <1>1, NextNode, JobType DEF AtNode, TypeOK, JobRecords
<1>3. ran[n] = 0 /\ Fresh(n) /\ Cleared(n - 1)
  BY <1>1, <1>2, ConstantsAssumption DEF AtNode, CalmInv, Ahead, Behind, Fresh, Nodes
<1>4. ran'[n] = 1 /\ \A m \in Nodes \ {n} : ran'[m] = ran[m]
  BY <1>1, <1>2, <1>3
<1>5. GateNeedsDecision /\ NodeOnce
  BY DEF CalmInv, Behind, Ahead
<1>6. GateNeedsDecision'
  BY <1>2, <1>3, <1>4, <1>5, ConstantsAssumption
     DEF GateNeedsDecision, Cleared, Nodes
<1>7. NodeOnce'
  BY <1>2, <1>4, <1>5 DEF NodeOnce
<1> QED
  BY <1>1, <1>2, <1>3, <1>4, <1>6, <1>7 DEF Fresh

\* A save that is not lost.
LEMMA CalmSave ==
  ASSUME Calm, TypeOK, NEW j \in JobIds, NEW s \in Statuses,
         NEW p \in Gates \cup {0}, NEW n \in 0..NodeCount,
         SaveExecution(j, s, p, n)
  PROVE  /\ doc'.status = s /\ doc'.paused = p /\ doc'.done = n
         /\ jobs[j].kind = "run" => ~doc'.startOld
<1>1. doc' = Saved(doc, j, s, p, n) /\ doc \in Docs
  BY NoLoss DEF SaveExecution, TypeOK
<1> QED
  BY <1>1 DEF Saved, Docs

\* A node completes.
LEMMA CalmRunNode ==
  ASSUME Calm, Inv, CalmInv, NEW j \in JobIds, RunNode(j)
  PROVE  CalmInv'
<1>1. PICK n : n = jobs[j].done + 1
  OBVIOUS
<1>2. /\ TypeOK /\ Active(j) /\ jobs[j].st = "loop" /\ n \in 0..NodeCount
      /\ n \notin Gates /\ jobs[j].done \in Nat
      /\ jobs[j].st \in JobStates
  BY <1>1, NextNode, JobType DEF Inv, RunNode, AtNode, Active, JobRecords
<1>3. jobs' = [jobs EXCEPT ![j].done = n]
  BY <1>1 DEF RunNode
<1>4. /\ JobIds' = JobIds /\ \A i \in JobIds \ {j} : jobs'[i] = jobs[i]
      /\ jobs'[j].kind = jobs[j].kind
      /\ jobs'[j].st = "loop" /\ jobs'[j].done = n
  <2>1. jobs \in Seq(JobRecords) /\ jobs[j] \in JobRecords
    BY <1>2, JobType DEF TypeOK
  <2>2. JobIds' = JobIds /\ \A i \in JobIds \ {j} : jobs'[i] = jobs[i]
    BY <1>3, <2>1 DEF JobIds
  <2>3. jobs'[j] = [jobs[j] EXCEPT !.done = n]
    BY <1>3, <2>1 DEF JobIds
  <2> QED
    BY <1>2, <2>1, <2>2, <2>3 DEF JobRecords
<1>5. ran' = [ran EXCEPT ![jobs[j].done + 1] = @ + 1] /\ approved' = approved
  BY DEF RunNode
<1>6. /\ GateNeedsDecision' /\ NodeOnce'
      /\ \A m \in Nodes : m > n => ran'[m] = 0
  BY <1>1, <1>2, <1>5, NodeStarts DEF RunNode
<1>7. jobs[j].kind # "reject" /\ Cleared(jobs[j].done)
  BY <1>2 DEF CalmInv, Behind
<1>8. Cleared(n)
  BY <1>1, <1>2, <1>7, ConstantsAssumption DEF Cleared
<1>9. ~Rejecting
  BY <1>2, <1>7, Alone DEF Rejecting
<1>10. UNCHANGED <<submitter, officer, sweep, approved>>
  BY DEF RunNode, requests, sweeps
<1>11. /\ \/ doc'.status = doc.status
          \/ jobs[j].kind = "run" /\ doc'.status = "running"
       /\ ~Stuck' /\ Cleared(doc'.done)
  <2>1. CASE doc' = doc
    <3>1. Cleared(doc.done) /\ ~Stuck
      BY <1>2, <1>9, Alone DEF CalmInv, Behind
    <3> QED
      BY <2>1, <3>1 DEF Stuck
  <2>2. CASE jobs[j].kind = "run" /\ SaveExecution(j, "running", 0, n)
    <3>1. doc'.status = "running" /\ doc'.done = n /\ ~doc'.startOld
      BY <1>2, <2>2, CalmSave DEF Statuses
    <3> QED
      BY <1>8, <2>2, <3>1 DEF Stuck
  <2> QED
    BY <1>1, <2>1, <2>2 DEF RunNode
<1> QED
  BY <1>2, <1>4, <1>6, <1>7, <1>8, <1>10, <1>11, JobMoves DEF Fresh, Cleared

\* The handler returns.
LEMMA CalmFinish ==
  ASSUME Calm, Inv, CalmInv, NEW j \in JobIds,
         \/ RejectRun(j) \/ ObserveCancel(j) \/ FailNode(j) \/ Pause(j)
         \/ Complete(j) \/ TimeOut(j)
  PROVE  CalmInv'
<1>0. /\ TypeOK /\ Active(j) /\ "acking" \in JobStates
      /\ jobs[j].done \in 0..NodeCount /\ jobs[j].paused \in Gates \cup {0}
      /\ NodeCount \in 0..NodeCount
      /\ {"failed", "cancelled", "paused", "completed", "timed_out"} \subseteq Statuses
      /\ UNCHANGED <<submitter, officer, sweep, approved>>
  <2>1. Active(j)
    BY DEF RejectRun, ObserveCancel, FailNode, Pause, Complete, TimeOut, AtNode, Active
  <2>2. UNCHANGED <<submitter, officer, sweep, approved>>
    BY DEF RejectRun, ObserveCancel, FailNode, Pause, Complete, TimeOut,
           requests, sweeps, history
  <2>3. jobs[j] \in JobRecords /\ TypeOK
    BY JobType DEF Inv
  <2> QED
    BY <2>1, <2>2, <2>3, ConstantsAssumption DEF JobRecords, JobStates, Statuses, Terminal
<1>1. \A s \in Statuses, p \in Gates \cup {0}, n \in 0..NodeCount :
        Finish(j, s, p, n) =>
          /\ JobIds' = JobIds /\ \A i \in JobIds \ {j} : jobs'[i] = jobs[i]
          /\ jobs'[j].st = "acking"
          /\ doc'.status = s /\ doc'.paused = p /\ doc'.done = n
  <2> SUFFICES ASSUME NEW s \in Statuses, NEW p \in Gates \cup {0},
                      NEW n \in 0..NodeCount, Finish(j, s, p, n)
               PROVE  /\ JobIds' = JobIds
                      /\ \A i \in JobIds \ {j} : jobs'[i] = jobs[i]
                      /\ jobs'[j].st = "acking"
                      /\ doc'.status = s /\ doc'.paused = p /\ doc'.done = n
    OBVIOUS
  <2>1. jobs' = [jobs EXCEPT ![j].st = "acking", ![j].done = n]
    BY DEF Finish
  <2>2. /\ JobIds' = JobIds /\ \A i \in JobIds \ {j} : jobs'[i] = jobs[i]
        /\ jobs'[j].st = "acking"
    BY <1>0, <2>1, OwnRecord
  <2> QED
    BY <1>0, <2>2, CalmSave DEF Finish
<1>2. CASE RejectRun(j) \/ ObserveCancel(j) \/ Complete(j) \/ TimeOut(j)
  <2>1. \E s \in Terminal, p \in Gates \cup {0}, n \in 0..NodeCount :
          s \in Statuses /\ Finish(j, s, p, n)
    BY <1>0, <1>2 DEF RejectRun, ObserveCancel, Complete, TimeOut, Terminal
  <2>2. ran' = ran
    BY <1>2 DEF RejectRun, ObserveCancel, Complete, TimeOut, history
  <2>3. GateNeedsDecision' /\ NodeOnce'
    BY <1>0, <2>2 DEF CalmInv, Behind, Ahead, GateNeedsDecision, NodeOnce
  <2> QED
    BY <1>0, <1>1, <2>1, <2>3, HandlerEnds
<1>3. CASE FailNode(j)
  <2>1. ran' = [ran EXCEPT ![jobs[j].done + 1] = @ + 1]
    BY <1>3 DEF FailNode
  <2>2. GateNeedsDecision' /\ NodeOnce'
    BY <1>0, <1>3, <2>1, NodeStarts DEF FailNode
  <2>3. Finish(j, "failed", 0, jobs[j].done) /\ 0 \in Gates \cup {0} /\ "failed" \in Terminal
    BY <1>3 DEF FailNode, Terminal
  <2> QED
    BY <1>0, <1>1, <2>2, <2>3, HandlerEnds
<1>4. CASE Pause(j)
  <2>1. PICK n : n = jobs[j].done + 1
    OBVIOUS
  <2>2. ran' = [ran EXCEPT ![jobs[j].done + 1] = @ + 1]
    BY <1>4 DEF Pause
  <2>3. GateNeedsDecision' /\ NodeOnce' /\ \A m \in Nodes : m > n => ran'[m] = 0
    BY <1>0, <1>4, <2>1, <2>2, NodeStarts DEF Pause
  <2>4. n \in Gates /\ n \in 0..NodeCount /\ Finish(j, "paused", n, n) /\ n - 1 = jobs[j].done
    BY <1>0, <1>4, <2>1, NextNode DEF Pause, AtNode
  <2>5. Cleared(n - 1)
    BY <1>4, <2>4 DEF CalmInv, Behind, Pause, AtNode
  <2>6. /\ JobIds' = JobIds /\ \A i \in JobIds \ {j} : jobs'[i] = jobs[i]
        /\ jobs'[j].st = "acking"
        /\ doc'.status = "paused" /\ doc'.paused = n /\ doc'.done = n
    BY <1>0, <1>1, <2>4
  <2> QED
    BY <1>0, <2>3, <2>4, <2>5, <2>6, HandlerEnds DEF Fresh
<1> QED
  BY <1>2, <1>3, <1>4

\* The entry is acked.
LEMMA CalmAck ==
  ASSUME Inv, CalmInv, NEW j \in JobIds, Ack(j)
  PROVE  CalmInv'
<1>1. jobs \in Seq(JobRecords) /\ jobs[j] \in JobRecords /\ doc \in Docs
  BY JobType DEF Inv, TypeOK
<1>2. /\ JobIds' = JobIds
      /\ \A i \in JobIds : Active(i)' <=> Active(i)
      /\ \A i \in JobIds : jobs'[i] = jobs[i] \/ (i = j /\ jobs'[i].st = "ended" /\ jobs[i].st = "acking")
  BY <1>1 DEF Ack, Active, JobIds, JobRecords
<1>3. /\ UNCHANGED <<submitter, officer, sweep, ran, approved>>
      /\ doc'.status = doc.status /\ doc'.done = doc.done
      /\ doc'.paused = doc.paused
      /\ doc'.startOld = doc.startOld /\ doc'.resumeOld = doc.resumeOld
  BY <1>1 DEF Ack, requests, sweeps, history, Docs
<1>4. OneMover'
  BY <1>2, <1>3 DEF CalmInv, OneMover, Resuming, Sweeping
<1>5. StatusTells'
  <2>1. \A i \in JobIds : Active(i)' => jobs'[i] = jobs[i]
    BY <1>2 DEF Active
  <2> QED
    BY <1>2, <1>3, <2>1 DEF CalmInv, StatusTells, Quiet, Stuck, Resuming, Sweeping
<1>6. Behind'
  <2>1. Rejecting' <=> Rejecting
    BY <1>2, <1>3 DEF Rejecting, Resuming, Active
  <2> QED
    BY <1>2, <1>3, <2>1 DEF CalmInv, Behind, Cleared, GateNeedsDecision
<1>7. Ahead'
  <2>1. \A i \in JobIds : (jobs'[i].st = "loop" <=> jobs[i].st = "loop") /\ (Active(i)' => jobs'[i] = jobs[i])
    BY <1>2 DEF Active
  <2>2. \A i \in JobIds : jobs[i].st = "loop" => jobs'[i].done = jobs[i].done
    BY <1>2
  <2> QED
    BY <1>2, <1>3, <2>1, <2>2 DEF CalmInv, Ahead, Fresh, NodeOnce
<1> QED
  BY <1>4, <1>5, <1>6, <1>7 DEF CalmInv

-----------------------------------------------------------------------------
(***************************************************************************)
(* The steps of the requests, of time and of the sweeps.                   *)
(***************************************************************************)
LEMMA CalmSubmit ==
  ASSUME Calm, Inv, CalmInv,
         Submit \/ SubmitEnqueue \/ SubmitRaises \/ SubmitFails \/ RequestDies
  PROVE  CalmInv'
<1>0. TypeOK /\ doc \in Docs
  BY DEF Inv, TypeOK
<1>1. CASE Submit
  <2>1. /\ doc.status = "none" /\ JobIds = {} /\ sweep.pc = "idle" /\ Quiet
        /\ Fresh(doc.done) /\ ~Rejecting
    BY <1>1 DEF Submit, CalmInv, StatusTells, Quiet, Ahead, Terminal, Rejecting
  <2>2. /\ doc'.status = "queued" /\ doc'.done = doc.done
        /\ doc'.startOld = doc.startOld /\ submitter' = "enqueue"
        /\ UNCHANGED <<jobs, officer, sweep, ran, approved>>
    BY <1>0, <1>1 DEF Submit, Docs, sweeps, history
  <2>3. doc.done = 0 /\ Cleared(0)
    BY <1>1, ConstantsAssumption DEF Submit, CalmInv, StatusTells, Cleared
  <2>4. OneMover'
    BY <2>1, <2>2 DEF CalmInv, OneMover, Quiet, Active, Resuming, Sweeping, JobIds
  <2>5. StatusTells'
    <3>1. ~Stuck'
      BY <1>0, <1>1, <2>1, <2>2 DEF Submit, CalmInv, StatusTells, Stuck
    <3>2. Quiet' /\ JobIds' = {}
      BY <2>1, <2>2 DEF Quiet, Active, Resuming, Sweeping, JobIds
    <3>3. ~doc'.startOld /\ doc'.done = 0
      BY <1>1, <2>2, <2>3 DEF Submit, CalmInv, StatusTells
    <3> QED
      BY <2>1, <2>2, <3>1, <3>2, <3>3 DEF StatusTells, Quiet
  <2>6. Behind'
    BY <2>1, <2>2, <2>3 DEF CalmInv, Behind, Cleared, GateNeedsDecision, JobIds
  <2>7. Ahead'
    BY <2>1, <2>2 DEF CalmInv, Ahead, Fresh, NodeOnce, Active, JobIds
  <2> QED
    BY <2>4, <2>5, <2>6, <2>7 DEF CalmInv
<1>2. CASE SubmitEnqueue
  <2>1. /\ doc.status = "queued" /\ ~Stuck /\ JobIds = {} /\ sweep.pc = "idle"
        /\ \A o \in Officers : ~Resuming(o) /\ officer[o].pc # "rollback"
        /\ ~Sweeping
    BY <1>2 DEF SubmitEnqueue, CalmInv, OneMover, StatusTells, Stuck
  <2>2. /\ doc' = doc /\ submitter' = "done" /\ Enqueued("run")
        /\ UNCHANGED <<officer, sweep, ran, approved>>
    BY <1>2 DEF SubmitEnqueue, sweeps, history
  <2>3. Fresh(0) /\ ~Rejecting
    BY <1>2, <2>1 DEF SubmitEnqueue, CalmInv, StatusTells, Ahead, Terminal, Rejecting
  <2> QED
    BY <1>0, <2>1, <2>2, <2>3, JobAdded DEF Resuming, Sweeping, JobKinds
<1>3. CASE SubmitRaises \/ SubmitFails \/ RequestDies
  BY <1>3, NoLoss DEF SubmitRaises, EnqueueRaised, SubmitFails, RequestDies, CalmInv, OneMover
<1> QED
  BY <1>1, <1>2, <1>3

\* So is a request or a sweep that is about to enqueue a resume.
LEMMA AloneToo ==
  ASSUME TypeOK, CalmInv, Sweeping \/ \E o \in Officers : Resuming(o)
  PROVE  /\ doc.status = "resuming" /\ ~Stuck /\ submitter = "done"
         /\ \A j \in JobIds : ~Active(j)
         /\ Sweeping => \A o \in Officers : ~Resuming(o)
         /\ ~Sweeping => sweep.pc = "idle"
<1>1. doc.status = "resuming" /\ ~Stuck /\ sweep.pc # "cas"
  BY DEF CalmInv, StatusTells, Quiet
<1>2. submitter = "done"
  BY <1>1 DEF CalmInv, OneMover, StatusTells
<1>3. ~Sweeping => sweep.pc = "idle"
  BY <1>1 DEF TypeOK, Sweeping
<1> QED
  BY <1>1, <1>2, <1>3 DEF CalmInv, OneMover

LEMMA CalmOfficer ==
  ASSUME Calm, Inv, CalmInv, NEW o \in Officers, Look(o) \/ OfficerStep(o)
  PROVE  CalmInv'
<1>0. /\ TypeOK /\ doc \in Docs
      /\ officer \in [Officers -> OfficerRecords]
  BY DEF Inv, TypeOK
<1>1. CASE Look(o)
  <2>1. /\ officer[o].pc = "idle" /\ doc.status = "paused"
        /\ \A p \in Officers \ {o} : officer'[p] = officer[p]
        /\ officer'[o].pc = "decide"
        /\ UNCHANGED <<doc, jobs, submitter, sweep, ran, approved>>
    BY <1>0, <1>1 DEF Look, sweeps, history
  <2>2. Quiet
    BY <2>1 DEF CalmInv, StatusTells
  <2>3. Quiet' /\ \A p \in Officers : ~Resuming(p)'
    BY <2>1, <2>2 DEF Quiet, Active, Resuming, Sweeping, JobIds
  <2>4. OneMover'
    BY <2>1, <2>3 DEF CalmInv, OneMover, Quiet
  <2>5. StatusTells'
    BY <2>1, <2>2, <2>3 DEF CalmInv, StatusTells, Stuck, JobIds
  <2>6. Behind' /\ Ahead'
    BY <2>1 DEF CalmInv, Behind, Cleared, GateNeedsDecision, Ahead, Fresh, NodeOnce,
                Active, JobIds
  <2> QED
    BY <2>4, <2>5, <2>6 DEF CalmInv
<1>2. CASE Decide(o) /\ doc.status = "paused"
  <2>0. /\ officer[o].pc = "decide"
        /\ officer' = [officer EXCEPT ![o].pc = "enqueue",
                                      ![o].hit = doc.paused]
        /\ doc' = [doc EXCEPT !.status = "resuming", !.resumeOld = FALSE]
        /\ UNCHANGED <<jobs, submitter, sweep, ran>>
        /\ officer[o].kind = "approve" => approved' = approved \cup {doc.paused}
        /\ officer[o].kind # "approve" => approved' = approved
    BY <1>2 DEF Decide, DecideFilter, sweeps
  <2>1. /\ \A p \in Officers \ {o} : officer'[p] = officer[p]
        /\ officer'[o].pc = "enqueue" /\ officer'[o].kind = officer[o].kind
        /\ doc'.status = "resuming" /\ ~doc'.resumeOld /\ doc'.done = doc.done
        /\ doc'.startOld = doc.startOld
    <3>1. officer[o] \in OfficerRecords
      BY <1>0
    <3>2. officer'[o] = [officer[o] EXCEPT !.pc = "enqueue",
                                           !.hit = doc.paused]
      BY <1>0, <2>0
    <3>3. \A p \in Officers \ {o} : officer'[p] = officer[p]
      BY <1>0, <2>0
    <3>4. officer'[o].pc = "enqueue" /\ officer'[o].kind = officer[o].kind
      BY <3>1, <3>2 DEF OfficerRecords
    <3> QED
      BY <1>0, <2>0, <3>3, <3>4 DEF Docs
  <2>2. /\ Quiet /\ submitter = "done" /\ ~Stuck
    BY <1>2 DEF CalmInv, OneMover, StatusTells, Stuck
  <2>3. /\ \A j \in JobIds' : ~Active(j)'
        /\ \A p \in Officers : Resuming(p)' <=> p = o
        /\ ~Sweeping' /\ sweep'.pc = "idle" /\ ~Stuck'
    <3>1. sweep.pc = "idle"
      BY <1>0, <2>2 DEF Quiet, Sweeping, TypeOK, CalmInv, StatusTells
    <3> QED
      BY <2>0, <2>1, <2>2, <3>1 DEF Quiet, Active, Resuming, Sweeping, JobIds, Stuck
  <2>4. OneMover'
    BY <2>0, <2>1, <2>2, <2>3 DEF CalmInv, OneMover
  <2>5. StatusTells'
    BY <2>0, <2>1, <2>2, <2>3 DEF StatusTells
  <2>6. Behind'
    <3>1. GateNeedsDecision /\ approved \subseteq approved'
      BY <2>0, <2>1 DEF CalmInv, Behind
    <3>2. officer[o].kind = "reject" => Rejecting'
      BY <2>0, <2>1, <2>3 DEF Rejecting
    <3>3. officer[o].kind = "approve" => Cleared(doc.done)'
      <4>1. doc.paused = doc.done /\ doc.done \in Gates /\ Cleared(doc.done - 1)
        BY <1>2 DEF CalmInv, Behind
      <4>2. Gates \subseteq Int
        BY ConstantsAssumption
      <4>3. PICK d \in Gates : d = doc.done
        BY <4>1
      <4>4. \A g \in Gates : g <= d => g <= d - 1 \/ g = d
        BY <4>2
      <4> QED
        BY <2>0, <2>1, <4>1, <4>3, <4>4 DEF Cleared
    <3>4. officer[o].kind \in {"approve", "reject"}
      BY <1>0 DEF OfficerRecords
    <3>5. GateNeedsDecision'
      BY <2>0, <2>1, <3>1 DEF GateNeedsDecision
    <3>6. \A j \in JobIds' : jobs'[j].st \notin {"loop", "reject"}
      BY <2>3 DEF Active
    <3> QED
      BY <2>0, <2>1, <3>2, <3>3, <3>4, <3>5, <3>6 DEF Behind
  <2>7. Ahead'
    <3>1. Fresh(doc.done) /\ NodeOnce
      BY <1>2, <2>2 DEF CalmInv, Ahead, Quiet, Active, Terminal
    <3> QED
      BY <2>0, <2>1, <2>3, <3>1 DEF Ahead, Fresh, NodeOnce, Active
  <2> QED
    BY <2>4, <2>5, <2>6, <2>7 DEF CalmInv
<1>3. CASE Decide(o) /\ doc.status # "paused"
  <2>1. /\ officer[o].pc = "decide"
        /\ \A p \in Officers \ {o} : officer'[p] = officer[p]
        /\ officer'[o].pc = "done"
        /\ UNCHANGED <<doc, jobs, submitter, sweep, ran, approved>>
    BY <1>0, <1>3 DEF Decide, DecideFilter, sweeps, OfficerRecords
  <2>2. \A p \in Officers : (Resuming(p)' <=> Resuming(p)) /\ (Resuming(p) => officer'[p] = officer[p])
    BY <2>1 DEF Resuming
  <2>3. OneMover'
    BY <2>1, <2>2 DEF CalmInv, OneMover, Active, Sweeping, JobIds
  <2>4. StatusTells'
    BY <2>1, <2>2 DEF CalmInv, StatusTells, Quiet, Stuck, Active, Sweeping, JobIds
  <2>5. Behind'
    <3>1. Rejecting' <=> Rejecting
      BY <2>1, <2>2 DEF Rejecting, Active, JobIds
    <3> QED
      BY <2>1, <3>1 DEF CalmInv, Behind, Cleared, GateNeedsDecision, JobIds
  <2>6. Ahead'
    BY <2>1 DEF CalmInv, Ahead, Fresh, NodeOnce, Active, JobIds
  <2> QED
    BY <2>3, <2>4, <2>5, <2>6 DEF CalmInv
<1>4. CASE DecideEnqueue(o)
  <2>1. /\ officer[o].pc = "enqueue" /\ Enqueued(officer[o].kind)
        /\ officer[o].kind \in JobKinds \ {"run"} /\ officer[o].kind \in {"approve", "reject"}
        /\ \A p \in Officers \ {o} : officer'[p] = officer[p]
        /\ officer'[o].pc = "done"
        /\ UNCHANGED <<doc, submitter, sweep, ran, approved>>
    BY <1>0, <1>4 DEF DecideEnqueue, sweeps, history, JobKinds,
                            OfficerRecords
  <2>2. Resuming(o) /\ \A p \in Officers \ {o} : ~Resuming(p)
    BY <2>1 DEF Resuming, CalmInv, OneMover
  <2>3. /\ doc.status = "resuming" /\ ~Stuck /\ submitter = "done"
        /\ (\A j \in JobIds : ~Active(j)) /\ ~Sweeping /\ sweep.pc = "idle"
    BY <1>0, <2>2, AloneToo
  <2>4. officer[o].kind = "reject" \/ ~Rejecting
    BY <2>1, <2>2, <2>3 DEF Rejecting
  <2>5. /\ \A p \in Officers : ~Resuming(p)' /\ officer'[p].pc # "rollback"
        /\ ~Sweeping'
    BY <2>1, <2>2, <2>3 DEF Resuming, Sweeping
  <2> QED
    BY <1>0, <2>1, <2>3, <2>4, <2>5, JobAdded
<1>5. CASE DecideRaises(o) \/ DecideRollback(o)
  BY <1>5, NoLoss DEF DecideRaises, EnqueueRaised, DecideRollback, CalmInv, OneMover
<1> QED
  BY <1>1, <1>2, <1>3, <1>4, <1>5 DEF OfficerStep

LEMMA CalmCancel ==
  ASSUME Inv, CalmInv, CancelRead \/ CancelStep
  PROVE  CalmInv'
<1>0. TypeOK /\ doc \in Docs
  BY DEF Inv, TypeOK
<1>1. CASE CancelRead \/ CancelMark \/ CancelFlag
  BY <1>0, <1>1, Aside DEF CancelRead, CancelMark, CancelFlag, sweeps, history, Docs
<1>2. CASE CancelCas /\ doc.status # "paused"
  BY <1>2, Aside DEF CancelCas, sweeps, history
<1>3. CASE CancelCas /\ doc.status = "paused"
  <2>1. /\ Quiet /\ submitter = "done" /\ sweep.pc = "idle"
    BY <1>0, <1>3 DEF CalmInv, OneMover, StatusTells, Stuck, Quiet, Sweeping, TypeOK
  <2>2. /\ doc'.status \in Terminal
        /\ UNCHANGED <<jobs, submitter, officer, sweep, ran, approved>>
    BY <1>0, <1>3 DEF CancelCas, sweeps, history, Docs, Terminal
  <2> QED
    BY <1>0, <2>1, <2>2, Ends
<1> QED
  BY <1>1, <1>2, <1>3 DEF CancelStep

LEMMA CalmTime ==
  ASSUME Calm, Inv, CalmInv, StartAges \/ ResumeAges \/ FlagExpires \/ ViewExpires
  PROVE  CalmInv'
<1>0. TypeOK /\ doc \in Docs
  BY DEF Inv, TypeOK
<1>1. CASE FlagExpires \/ ViewExpires
  BY <1>1, Aside DEF FlagExpires, ViewExpires, requests, sweeps, history
<1>2. CASE StartAges \/ ResumeAges
  <2>1. /\ UNCHANGED <<jobs, submitter, officer, sweep, ran, approved>>
        /\ doc.status \in {"queued", "running", "resuming"}
        /\ doc'.status = doc.status /\ doc'.done = doc.done
    BY <1>0, <1>2 DEF StartAges, ResumeAges, requests, sweeps, history, Docs
  <2>2. /\ Quiet /\ sweep.pc = "idle" /\ submitter = "done"
    BY <1>2, <2>1 DEF StartAges, ResumeAges, HandlersIdle, NobodyAtWork, Calm, Open,
                      Quiet, Active, Resuming, Sweeping, CalmInv, StatusTells
  <2>3. Quiet' /\ JobIds' = JobIds
    BY <2>1, <2>2 DEF Quiet, Active, Resuming, Sweeping, JobIds
  <2>4. OneMover'
    BY <2>1, <2>2, <2>3 DEF CalmInv, OneMover, Quiet
  <2>5. StatusTells'
    BY <2>1, <2>2, <2>3 DEF StatusTells, Quiet
  <2>6. Behind'
    <3>1. ~Rejecting
      BY <2>2 DEF Quiet, Rejecting
    <3>2. \A j \in JobIds : jobs'[j].st \notin {"loop", "reject"}
      BY <2>1, <2>2 DEF Quiet, Active
    <3> QED
      BY <2>1, <2>3, <3>1, <3>2 DEF CalmInv, Behind, Cleared, GateNeedsDecision
  <2>7. Ahead'
    BY <2>1, <2>3 DEF CalmInv, Ahead, Fresh, NodeOnce, Quiet
  <2> QED
    BY <2>4, <2>5, <2>6, <2>7 DEF CalmInv
<1> QED
  BY <1>1, <1>2

\* A step of the sweep that leaves nobody who moves the execution on.
LEMMA SweepLeaves ==
  ASSUME CalmInv,
         UNCHANGED <<doc, jobs, submitter, officer, ran, approved>>,
         \A j \in JobIds : ~Active(j), \A o \in Officers : ~Resuming(o),
         \/ sweep'.pc = "idle"
         \/ Stuck /\ submitter = "done" /\ sweep'.pc = "cas" /\ sweep'.status = doc.status
  PROVE  CalmInv'
<1>1. Quiet' /\ JobIds' = JobIds /\ (Stuck' <=> Stuck)
  BY DEF Quiet, Active, Resuming, Sweeping, JobIds, Stuck
<1>2. OneMover'
  BY <1>1 DEF CalmInv, OneMover, Quiet
<1>3. StatusTells'
  BY <1>1 DEF CalmInv, StatusTells, Quiet
<1>4. Behind'
  <2>1. ~Rejecting
    BY DEF Rejecting
  <2> QED
    BY <1>1, <2>1 DEF CalmInv, Behind, Cleared, GateNeedsDecision, Quiet
<1>5. Ahead'
  BY <1>1 DEF CalmInv, Ahead, Fresh, NodeOnce, Quiet
<1> QED
  BY <1>2, <1>3, <1>4, <1>5 DEF CalmInv

LEMMA CalmSweep ==
  ASSUME Calm, Inv, CalmInv, SweepStep \/ SweeperDies
  PROVE  CalmInv'
<1>0. TypeOK /\ doc \in Docs
  BY DEF Inv, TypeOK
<1>s. sweep \in [pc : {"idle", "cas", "enqueue", "rollback"}, status : Statuses,
                 crashes : Nat, cancel : BOOLEAN]
  BY <1>0 DEF TypeOK
<1>c. Stuck => Quiet /\ submitter = "done"
  BY DEF CalmInv, OneMover, StatusTells, Stuck
<1>1. CASE SweepRead
  <2>1. /\ Stuck /\ sweep'.pc = "cas" /\ sweep'.status = doc.status
        /\ UNCHANGED <<doc, jobs, submitter, officer, ran, approved>>
    BY <1>1 DEF SweepRead, requests, history
  <2> QED
    BY <1>c, <2>1, SweepLeaves DEF Quiet
<1>2. CASE SweepCas
  <2>1. /\ Stuck /\ Quiet /\ submitter = "done" /\ sweep.status = doc.status
        /\ UNCHANGED <<jobs, submitter, officer, ran, approved>>
    BY <1>2, <1>c DEF SweepCas, CalmInv, StatusTells, requests, history
  <2>2. CASE sweep'.pc = "idle"
    <3>1. doc'.status \in {"cancelled", "failed"}
      BY <1>0, <1>2, <2>1, <2>2, <1>s DEF SweepCas, Docs
    <3> QED
      BY <1>0, <2>1, <2>2, <3>1, Ends DEF Terminal
  <2>3. CASE sweep'.pc # "idle"
    <3>1. /\ sweep'.pc = "enqueue" /\ doc'.status = "resuming" /\ ~doc'.resumeOld
          /\ doc'.done = doc.done /\ doc'.startOld = doc.startOld
      <4>1. /\ sweep' = [sweep EXCEPT !.pc = "enqueue"]
            /\ doc' = [doc EXCEPT !.status = "resuming", !.resumeOld = FALSE,
                                  !.crashes = @ + 1]
        BY <1>2, <2>1, <2>3 DEF SweepCas, SweepIdle
      <4> QED
        BY <1>0, <1>s, <4>1 DEF Docs
    <3>2. /\ Sweeping' /\ ~Stuck' /\ \A o \in Officers : ~Resuming(o)'
          /\ \A j \in JobIds' : ~Active(j)'
      BY <2>1, <3>1 DEF Sweeping, Stuck, Quiet, Resuming, Active, JobIds
    <3>3. OneMover'
      BY <2>1, <3>1, <3>2 DEF CalmInv, OneMover
    <3>4. StatusTells'
      BY <2>1, <3>1, <3>2 DEF StatusTells
    <3>5. Cleared(doc.done) /\ Fresh(doc.done) /\ GateNeedsDecision /\ NodeOnce
      <4>1. ~Rejecting
        BY <2>1 DEF Quiet, Rejecting
      <4> QED
        BY <2>1, <4>1 DEF CalmInv, Behind, Ahead, Stuck, Quiet, Active, Terminal
    <3>6. Behind'
      BY <2>1, <3>1, <3>2, <3>5 DEF Behind, Cleared, GateNeedsDecision, Active
    <3>7. Ahead'
      BY <2>1, <3>1, <3>2, <3>5 DEF Ahead, Fresh, NodeOnce, Active
    <3> QED
      BY <3>3, <3>4, <3>6, <3>7 DEF CalmInv
  <2> QED
    BY <2>2, <2>3
<1>3. CASE SweepEnqueue
  <2>1. /\ Sweeping /\ Enqueued("crash") /\ sweep'.pc = "idle"
        /\ UNCHANGED <<doc, submitter, officer, ran, approved>>
    BY <1>3 DEF SweepEnqueue, Sweeping, SweepIdle, requests
  <2>2. /\ doc.status = "resuming" /\ ~Stuck /\ submitter = "done"
        /\ \A j \in JobIds : ~Active(j)
        /\ \A o \in Officers : ~Resuming(o)
    BY <1>0, <2>1, AloneToo
  <2>3. ~Rejecting
    BY <2>2 DEF Rejecting
  <2>4. /\ \A o \in Officers : ~Resuming(o)' /\ officer'[o].pc # "rollback"
        /\ ~Sweeping'
    BY <2>1, <2>2 DEF Resuming, Sweeping
  <2> QED
    BY <1>0, <2>1, <2>2, <2>3, <2>4, JobAdded DEF JobKinds
<1>4. CASE SweepRaises \/ SweepRollback
  BY <1>4, NoLoss DEF SweepRaises, EnqueueRaised, SweepRollback, CalmInv, OneMover
<1>5. CASE SweeperDies
  <2>1. /\ sweep.pc # "idle" /\ sweep'.pc = "idle"
        /\ UNCHANGED <<doc, jobs, submitter, officer, ran, approved>>
    BY <1>5 DEF SweeperDies, SweepIdle, requests, history
  <2>2. /\ \A j \in JobIds : ~Active(j)
        /\ \A o \in Officers : ~Resuming(o)
    <3>1. CASE Sweeping
      BY <1>0, <3>1, AloneToo
    <3>2. CASE ~Sweeping
      BY <1>s, <1>c, <2>1, <3>2 DEF Sweeping, CalmInv, StatusTells, Quiet
    <3> QED
      BY <3>1, <3>2
  <2> QED
    BY <2>1, <2>2, SweepLeaves
<1> QED
  BY <1>1, <1>2, <1>3, <1>4, <1>5 DEF SweepStep

LEMMA CalmTimer ==
  ASSUME Inv, CalmInv, TimerStep \/ TimerDies
  PROVE  CalmInv'
<1>0. TypeOK /\ doc \in Docs
  BY DEF Inv, TypeOK
<1>1. CASE TimeoutMark \/ TimerDies
  BY <1>1, Aside DEF TimeoutMark, TimerDies, requests, history
<1>2. CASE TimeoutFail /\ doc.status # "paused"
  BY <1>0, <1>2, Aside DEF TimeoutFail, requests, history, Docs
<1>3. CASE TimeoutFail /\ doc.status = "paused"
  <2>1. /\ Quiet /\ submitter = "done" /\ sweep.pc = "idle"
    BY <1>0, <1>3 DEF CalmInv, OneMover, StatusTells, Stuck, Quiet, Sweeping, TypeOK
  <2>2. /\ doc'.status = "failed"
        /\ UNCHANGED <<jobs, submitter, officer, sweep, ran, approved>>
    BY <1>0, <1>3 DEF TimeoutFail, requests, history, Docs
  <2> QED
    BY <1>0, <2>1, <2>2, Ends DEF Terminal
<1> QED
  BY <1>1, <1>2, <1>3 DEF TimerStep

-----------------------------------------------------------------------------
LEMMA CalmInit == Init => CalmInv
<1> SUFFICES ASSUME Init PROVE CalmInv
  OBVIOUS
<1>1. /\ JobIds = {} /\ submitter = "idle" /\ sweep.pc = "idle"
      /\ \A o \in Officers : officer[o].pc = "idle"
      /\ doc.status = "none" /\ doc.done = 0 /\ doc.paused = 0 /\ ~doc.startOld
      /\ \A n \in Nodes : ran[n] = 0
  BY DEF Init, SweepIdle, JobIds
<1>2. Quiet /\ ~Stuck
  BY <1>1 DEF Quiet, Resuming, Sweeping, Stuck
<1>3. OneMover /\ StatusTells
  BY <1>1, <1>2 DEF OneMover, StatusTells, Quiet
<1>4. Behind
  BY <1>1 DEF Behind, GateNeedsDecision
<1>5. Ahead
  BY <1>1 DEF Ahead, Fresh, NodeOnce
<1> QED
  BY <1>3, <1>4, <1>5 DEF CalmInv

LEMMA CalmStep ==
  ASSUME Calm, Inv, CalmInv, [Next]_vars
  PROVE  CalmInv'
<1>1. CASE Submit \/ SubmitEnqueue \/ SubmitRaises \/ SubmitFails \/ RequestDies
  BY <1>1, CalmSubmit
<1>2. ASSUME NEW j \in JobIds, JobStep(j) \/ WorkerDies(j) PROVE CalmInv'
  <2>1. ~WorkerDies(j)
    BY NoLoss DEF WorkerDies
  <2> QED
    BY <1>2, <2>1, CalmDeliver, CalmFinish, CalmRunNode, CalmAck DEF JobStep
<1>3. ASSUME NEW o \in Officers, Look(o) \/ OfficerStep(o) PROVE CalmInv'
  BY <1>3, CalmOfficer
<1>4. CASE CancelRead \/ CancelStep
  BY <1>4, CalmCancel
<1>5. CASE StartAges \/ ResumeAges \/ FlagExpires \/ ViewExpires
  BY <1>5, CalmTime
<1>6. CASE SweepStep \/ SweeperDies
  BY <1>6, CalmSweep
<1>7. CASE TimerStep \/ TimerDies
  BY <1>7, CalmTimer
<1>8. CASE UNCHANGED vars
  BY <1>8, Aside DEF vars, requests, sweeps, history
<1> QED
  BY <1>1, <1>2, <1>3, <1>4, <1>5, <1>6, <1>7, <1>8 DEF Next

LEMMA CalmHolds ==
  ASSUME Calm
  PROVE  Spec => [](Inv /\ CalmInv)
<1>1. Init => Inv /\ CalmInv
  BY InitOK, CalmInit
<1>2. (Inv /\ CalmInv) /\ [Next]_vars => (Inv /\ CalmInv)'
  BY StepOK, CalmStep
<1> QED
  BY <1>1, <1>2, PTL DEF Spec

\* No node behind a human_approval gate is started unless an approval won its
\* compare-and-set while the run was paused at that gate: approvals, rejections, cancels, timeouts,
\* the stuck sweep and the deaths of the scheduler may come in any order.
THEOREM GateTheorem ==
  ASSUME Calm
  PROVE  Spec => []GateNeedsDecision
<1>1. CalmInv => GateNeedsDecision
  BY DEF CalmInv, Behind
<1> QED
  BY <1>1, CalmHolds, PTL

\* However these race, the compare-and-set on the status lets one of them
\* through, and no node is started twice.
THEOREM OnceTheorem ==
  ASSUME Calm
  PROVE  Spec => []NodeOnce
<1>1. CalmInv => NodeOnce
  BY DEF CalmInv, Ahead
<1> QED
  BY <1>1, CalmHolds, PTL

-----------------------------------------------------------------------------
\* Nobody is left who could write to a finished execution.
LEMMA FinalStep ==
  ASSUME Calm, Inv, CalmInv, [Next]_vars, doc.status \in Terminal
  PROVE  doc'.status = doc.status
<1>0. TypeOK /\ doc \in Docs
  BY DEF Inv, TypeOK
<1>q. /\ Quiet /\ submitter = "done" /\ sweep.pc = "idle"
  BY <1>0 DEF CalmInv, OneMover, StatusTells, Stuck, Terminal, Quiet, Sweeping, TypeOK
<1>1. CASE Submit \/ SubmitEnqueue \/ SubmitRaises \/ SubmitFails \/ RequestDies
  BY <1>1, <1>q DEF Submit, SubmitEnqueue, SubmitRaises, SubmitFails, RequestDies
<1>2. ASSUME NEW j \in JobIds, JobStep(j) \/ WorkerDies(j) PROVE doc'.status = doc.status
  <2>1. jobs[j].st \notin {"queued", "loop", "reject"}
    BY <1>q DEF Quiet, Active
  <2>2. Ack(j)
    BY <1>2, <2>1, NoLoss DEF JobStep, WorkerDies, StartRun, RunRefused, StartResume,
       ResumeRefused, RejectRun, ObserveCancel, RunNode, FailNode, Pause, Complete,
       TimeOut, AtNode
  <2> QED
    BY <1>0, <2>2 DEF Ack, Docs
<1>3. ASSUME NEW o \in Officers, Look(o) \/ OfficerStep(o) PROVE doc'.status = doc.status
  <2>1. officer[o].pc \notin {"enqueue", "rollback"} /\ doc.status # "paused"
    BY <1>q DEF Quiet, Resuming, Terminal
  <2> QED
    BY <1>3, <2>1 DEF Look, OfficerStep, Decide, DecideFilter, DecideEnqueue, DecideRaises,
                      DecideRollback
<1>4. CASE CancelRead \/ CancelStep
  BY <1>0, <1>4 DEF CancelRead, CancelStep, CancelMark, CancelFlag, CancelCas, Docs, Terminal
<1>5. CASE StartAges \/ ResumeAges \/ FlagExpires \/ ViewExpires
  BY <1>5 DEF StartAges, ResumeAges, FlagExpires, ViewExpires, Terminal
<1>6. CASE SweepStep \/ SweeperDies
  BY <1>6, <1>q DEF SweepStep, SweepRead, SweepCas, SweepEnqueue, SweepRaises,
                    SweepRollback, SweeperDies
<1>7. CASE TimerStep \/ TimerDies
  BY <1>0, <1>7 DEF TimerStep, TimeoutMark, TimeoutFail, TimerDies, Docs, Terminal
<1>8. CASE UNCHANGED vars
  BY <1>8 DEF vars
<1> QED
  BY <1>1, <1>2, <1>3, <1>4, <1>5, <1>6, <1>7, <1>8 DEF Next

\* The late writers (the sweeps, the losers of a compare-and-set, a task that
\* is still saving) never overwrite the outcome of a finished execution.
THEOREM FinalTheorem ==
  ASSUME Calm
  PROVE  Spec => TerminalStays
<1>1. Inv /\ CalmInv /\ [Next]_vars =>
        [doc.status \in Terminal => doc'.status = doc.status]_vars
  BY FinalStep
<1> QED
  BY <1>1, CalmHolds, PTL DEF Spec, TerminalStays

-----------------------------------------------------------------------------
(***************************************************************************)
(* The execution implements the promise of RunPromise.                     *)
(***************************************************************************)

\* What was started is what lies behind the task that walks, and behind the
\* checkpoint of the document when no task does.
Walk ==
  /\ \A j \in JobIds : jobs[j].st = "loop" => ran = Promise!Walked(jobs[j].done)
  /\ doc.status \notin Terminal /\ (~\E j \in JobIds : jobs[j].st = "loop")
       => ran = Promise!Walked(doc.done)

\* Starting the next node of a walk extends the walk by it.
LEMMA WalkedNext ==
  ASSUME NEW n \in Nodes, ran = Promise!Walked(n - 1), ran' = [ran EXCEPT ![n] = @ + 1]
  PROVE  ran' = Promise!Walked(n)
<1>1. n \in Int /\ \A m \in Nodes : m \in Int
  BY ConstantsAssumption DEF Nodes
<1>2. \A m \in Nodes : ran'[m] = IF m <= n THEN 1 ELSE 0
  BY <1>1 DEF Promise!Walked, Promise!Nodes, Nodes
<1>3. ran' = [m \in Nodes |-> ran'[m]]
  BY DEF Promise!Walked, Promise!Nodes, Nodes
<1> QED
  BY <1>2, <1>3 DEF Promise!Walked, Promise!Nodes, Nodes

\* A walk of which no node was started is the empty one.
LEMMA WalkedNone ==
  ASSUME Fresh(0), NEW n \in Nat, ran = Promise!Walked(n)
  PROVE  ran = Promise!Walked(0)
<1>1. \A m \in Nodes : m \in Int /\ m > 0
  BY ConstantsAssumption DEF Nodes
<1>2. \A m \in Nodes : ran[m] = 0 /\ ~(m <= 0)
  BY <1>1 DEF Fresh
<1>3. ran = [m \in Nodes |-> ran[m]]
  BY DEF Promise!Walked, Promise!Nodes, Nodes
<1> QED
  BY <1>2, <1>3 DEF Promise!Walked, Promise!Nodes, Nodes

\* The phases, before and after a step.
LEMMA PhaseIs ==
  /\ doc.status \in Terminal \cup {"none"} => Phase = doc.status
  /\ doc.status = "paused" => Phase = "waiting"
  /\ doc.status \in {"queued", "running", "resuming"} =>
       Phase = IF Rejecting THEN "refused" ELSE "going"
  /\ doc'.status \in Terminal \cup {"none"} => Phase' = doc'.status
  /\ doc'.status = "paused" => Phase' = "waiting"
  /\ doc'.status \in {"queued", "running", "resuming"} =>
       Phase' = IF Rejecting' THEN "refused" ELSE "going"
BY DEF Phase, Terminal

\* Steps that the user does not see.
LEMMA Unseen ==
  ASSUME TypeOK, ran' = ran, Rejecting' <=> Rejecting,
         \/ doc'.status = doc.status
         \/ {doc.status, doc'.status} \subseteq {"queued", "running", "resuming"}
  PROVE  UNCHANGED <<Phase, ran>>
<1>1. doc.status \in Statuses
  BY DEF TypeOK, Docs
<1>2. doc.status \in Terminal \cup {"none"} \/ doc.status = "paused"
      \/ doc.status \in {"queued", "running", "resuming"}
  BY <1>1 DEF Statuses
<1> QED
  BY <1>2, PhaseIs

\* No walk starts or ends, and the checkpoint stays.
LEMMA WalkStays ==
  ASSUME Walk, ran' = ran, doc'.done = doc.done,
         doc.status \in Terminal => doc'.status \in Terminal,
         \A j \in JobIds' : jobs'[j].st = "loop" =>
           j \in JobIds /\ jobs[j].st = "loop" /\ jobs'[j].done = jobs[j].done,
         \A j \in JobIds : jobs[j].st = "loop" => j \in JobIds' /\ jobs'[j].st = "loop"
  PROVE  Walk'
BY DEF Walk, Promise!Walked, Promise!Nodes

\* Nothing is asked of the walk of a finished run.
LEMMA WalkOver ==
  ASSUME CalmInv', doc'.status \in Terminal
  PROVE  Walk'
<1>1. \A j \in JobIds' : jobs'[j].st # "loop"
  BY DEF CalmInv, StatusTells, Quiet, Active, Terminal
<1> QED
  BY <1>1 DEF Walk

\* A step of the promise, and the walk.
Kept == Walk' /\ [Promise!Next]_<<Phase, ran>>

\* A job is delivered: the walk starts where the last one was recorded.
LEMMA KeptDeliver ==
  ASSUME Inv, CalmInv, Walk, NEW j \in JobIds,
         StartRun(j) \/ RunRefused(j) \/ StartResume(j) \/ ResumeRefused(j)
  PROVE  Kept
<1>0. /\ TypeOK /\ Active(j) /\ jobs[j].st = "queued"
      /\ {"loop", "reject"} \subseteq JobStates /\ 0 \in 0..NodeCount
      /\ doc.done \in 0..NodeCount /\ doc.paused \in Gates \cup {0}
      /\ \A i \in JobIds : jobs[i].st # "loop"
      /\ doc.status \in {"queued", "running", "resuming"}
      /\ UNCHANGED <<doc, officer, ran>>
  <2>1. Active(j) /\ jobs[j].st = "queued" /\ UNCHANGED <<doc, officer, ran>>
    BY DEF StartRun, RunRefused, StartResume, ResumeRefused, Active, requests, history
  <2>2. \A i \in JobIds : jobs[i].st # "loop"
    BY <2>1, Alone DEF Active
  <2> QED
    BY <2>1, <2>2, Alone, ConstantsAssumption DEF Inv, TypeOK, Docs, JobStates
<1>w. ran = Promise!Walked(doc.done)
  BY <1>0 DEF Walk, Terminal
<1>1. CASE StartRun(j)
  <2>1. /\ JobIds' = JobIds /\ \A i \in JobIds \ {j} : jobs'[i] = jobs[i]
        /\ jobs'[j].kind = jobs[j].kind
        /\ jobs'[j].st = "loop" /\ jobs'[j].done = 0
    BY <1>0, <1>1, OwnRecord DEF StartRun
  <2>2. ran = Promise!Walked(0)
    <3>1. Fresh(0) /\ doc.done \in Nat
      BY <1>0, <1>1, ConstantsAssumption DEF StartRun, CalmInv, Ahead
    <3> QED
      BY <1>w, <3>1, WalkedNone
  <2>3. Walk'
    BY <1>0, <2>1, <2>2 DEF Walk, Promise!Walked, Promise!Nodes
  <2>4. Rejecting' <=> Rejecting
    BY <1>0, <2>1 DEF Rejecting, Resuming, Active
  <2> QED
    BY <1>0, <2>3, <2>4, Unseen DEF Kept
<1>2. CASE RunRefused(j)
  <2>1. jobs \in Seq(JobRecords) /\ jobs[j] \in JobRecords
    BY <1>0, JobType DEF TypeOK
  <2>2. /\ JobIds' = JobIds /\ \A i \in JobIds \ {j} : jobs'[i] = jobs[i]
        /\ jobs'[j].kind = "run" /\ jobs[j].kind = "run"
        /\ jobs'[j].st \in {"queued", "dead"}
    BY <1>2, <2>1 DEF RunRefused, Redeliver, JobIds, JobRecords
  <2>3. Rejecting' <=> Rejecting
    BY <1>0, <2>2 DEF Rejecting, Resuming, Active
  <2>4. \A i \in JobIds' : jobs'[i].st # "loop"
    BY <1>0, <2>2
  <2>5. Walk'
    BY <1>0, <1>w, <2>4 DEF Walk, Promise!Walked, Promise!Nodes
  <2> QED
    BY <1>0, <2>3, <2>5, Unseen DEF Kept
<1>3. CASE StartResume(j)
  <2>1. PICK st \in {"loop", "reject"} :
          /\ JobIds' = JobIds /\ \A i \in JobIds \ {j} : jobs'[i] = jobs[i]
          /\ jobs'[j].kind = jobs[j].kind
          /\ jobs'[j].st = st /\ jobs'[j].done = doc.done
    <3>1. CASE jobs' = [jobs EXCEPT ![j].st = "loop", ![j].done = doc.done,
                                    ![j].told = Told]
      <4>1. /\ JobIds' = JobIds /\ \A i \in JobIds \ {j} : jobs'[i] = jobs[i]
            /\ jobs'[j].kind = jobs[j].kind
            /\ jobs'[j].st = "loop" /\ jobs'[j].done = doc.done
        BY <1>0, <3>1, OwnRecord
      <4> QED
        BY <4>1
    <3>2. CASE jobs' = [jobs EXCEPT ![j].st = "reject", ![j].done = doc.done,
                                    ![j].paused = doc.paused, ![j].told = Told]
      <4>1. /\ JobIds' = JobIds /\ \A i \in JobIds \ {j} : jobs'[i] = jobs[i]
            /\ jobs'[j].kind = jobs[j].kind
            /\ jobs'[j].st = "reject" /\ jobs'[j].done = doc.done
        BY <1>0, <3>2, OwnRecord
      <4> QED
        BY <4>1
    <3> QED
      BY <1>3, <3>1, <3>2 DEF StartResume
  <2>3. Rejecting' <=> Rejecting
    <3>1. st \in {"loop", "reject"} /\ \A i \in JobIds : Active(i)' <=> Active(i)
      BY <1>0, <2>1 DEF Active
    <3>2. \A i \in JobIds : jobs'[i].kind = jobs[i].kind
      BY <2>1
    <3> QED
      BY <1>0, <2>1, <3>1, <3>2 DEF Rejecting, Resuming
  <2>4. Walk'
    BY <1>0, <1>w, <2>1 DEF Walk, Promise!Walked, Promise!Nodes
  <2> QED
    BY <1>0, <2>3, <2>4, Unseen DEF Kept
<1>4. CASE ResumeRefused(j)
  <2>1. doc.status = "resuming"
    BY <1>0, <1>4, Alone DEF ResumeRefused
  <2> QED
    BY <1>4, <2>1 DEF ResumeRefused, Resumable
<1> QED
  BY <1>1, <1>2, <1>3, <1>4

\* The task that walks is the only mover, so no rejection is on its way.
LEMMA Walking ==
  ASSUME Inv, CalmInv, Walk, NEW j \in JobIds, jobs[j].st = "loop"
  PROVE  /\ Active(j) /\ Phase = "going" /\ ~Rejecting
         /\ ran = Promise!Walked(jobs[j].done)
         /\ \A i \in JobIds \ {j} : ~Active(i)
         /\ \A o \in Officers : ~Resuming(o)
         /\ jobs[j].kind # "reject"
<1>1. Active(j) /\ jobs[j].kind # "reject"
  BY DEF Active, CalmInv, Behind
<1>2. /\ \A o \in Officers : ~Resuming(o)
      /\ \A i \in JobIds \ {j} : ~Active(i)
      /\ doc.status \in {"queued", "running", "resuming"}
  BY <1>1, Alone
<1>3. ~Rejecting
  BY <1>1, <1>2 DEF Rejecting
<1> QED
  BY <1>1, <1>2, <1>3, PhaseIs DEF Walk

\* The next node of the walk, and what was started before it.
LEMMA NextOfWalk ==
  ASSUME Inv, CalmInv, Walk, NEW j \in JobIds, AtNode(j), NEW n, n = jobs[j].done + 1,
         ran' = [ran EXCEPT ![n] = @ + 1]
  PROVE  /\ n \in Nodes /\ n \in Promise!Nodes /\ n \in 0..NodeCount
         /\ ran = Promise!Walked(n - 1) /\ ran' = Promise!Walked(n)
<1>1. n \in Nodes /\ n \in 0..NodeCount /\ jobs[j].done \in Int
  BY NextNode, JobType DEF Inv, TypeOK, AtNode, JobRecords
<1>2. n - 1 = jobs[j].done
  BY <1>1
<1>3. ran = Promise!Walked(n - 1)
  BY <1>2, Walking DEF AtNode
<1> QED
  BY <1>1, <1>3, WalkedNext DEF Nodes, Promise!Nodes

\* A node completes and the walk goes on.
LEMMA KeptRunNode ==
  ASSUME Calm, Inv, CalmInv, Walk, NEW j \in JobIds, RunNode(j)
  PROVE  Kept
<1>1. PICK n : n = jobs[j].done + 1
  OBVIOUS
<1>2. /\ AtNode(j) /\ jobs[j].st = "loop" /\ n \notin Gates
      /\ ran' = [ran EXCEPT ![n] = @ + 1]
      /\ jobs' = [jobs EXCEPT ![j].done = n] /\ officer' = officer
  BY <1>1 DEF RunNode, AtNode, requests
<1>3. /\ n \in Nodes /\ n \in Promise!Nodes /\ n \in 0..NodeCount
      /\ ran = Promise!Walked(n - 1) /\ ran' = Promise!Walked(n)
  BY <1>1, <1>2, NextOfWalk
<1>4. /\ JobIds' = JobIds /\ \A i \in JobIds \ {j} : jobs'[i] = jobs[i]
      /\ jobs'[j].kind = jobs[j].kind
      /\ jobs'[j].st = "loop" /\ jobs'[j].done = n
  <2>1. jobs \in Seq(JobRecords) /\ jobs[j] \in JobRecords
    BY JobType DEF Inv, TypeOK
  <2>2. JobIds' = JobIds /\ \A i \in JobIds \ {j} : jobs'[i] = jobs[i]
    BY <1>2, <2>1 DEF JobIds
  <2>3. jobs'[j] = [jobs[j] EXCEPT !.done = n]
    BY <1>2, <2>1 DEF JobIds
  <2> QED
    BY <1>2, <2>1, <2>2, <2>3 DEF JobRecords
<1>5. /\ Active(j) /\ Phase = "going" /\ ~Rejecting
      /\ \A i \in JobIds \ {j} : ~Active(i)
      /\ \A o \in Officers : ~Resuming(o)
      /\ jobs[j].kind # "reject"
  BY <1>2, Walking
<1>6. ~Rejecting'
  BY <1>2, <1>4, <1>5 DEF Rejecting, Resuming, Active
<1>7. doc'.status \in {"queued", "running", "resuming"}
  <2>1. doc.status \in {"queued", "running", "resuming"}
    BY <1>5, Alone
  <2>2. jobs[j].kind = "run" /\ SaveExecution(j, "running", 0, n) => doc'.status = "running"
    BY <1>3, CalmSave DEF Inv, Statuses
  <2> QED
    BY <1>1, <2>1, <2>2 DEF RunNode
<1>8. Phase' = "going"
  BY <1>6, <1>7, PhaseIs
<1>9. Walk'
  <2>1. \A i \in JobIds' : jobs'[i].st = "loop" <=> i = j
    BY <1>4, <1>5 DEF Active
  <2> QED
    BY <1>3, <1>4, <2>1 DEF Walk, Promise!Walked, Promise!Nodes
<1>10. Promise!Advance
  BY <1>2, <1>3, <1>5, <1>8 DEF Promise!Advance
<1> QED
  BY <1>9, <1>10 DEF Kept, Promise!Next

\* The handler returns with the run ended or parked.
LEMMA KeptFinish ==
  ASSUME Calm, Inv, CalmInv, CalmInv', Walk, NEW j \in JobIds,
         \/ RejectRun(j) \/ ObserveCancel(j) \/ FailNode(j) \/ Pause(j)
         \/ Complete(j) \/ TimeOut(j)
  PROVE  Kept
<1>0. /\ TypeOK /\ jobs[j].done \in 0..NodeCount /\ jobs[j].paused \in Gates \cup {0}
      /\ NodeCount \in 0..NodeCount /\ 0 \in Gates \cup {0}
      /\ {"failed", "cancelled", "paused", "completed", "timed_out"} \subseteq Statuses
      /\ \A s \in Statuses, p \in Gates \cup {0}, n \in 0..NodeCount :
           Finish(j, s, p, n) => doc'.status = s /\ doc'.done = n
  <2>1. jobs[j] \in JobRecords /\ TypeOK
    BY JobType DEF Inv
  <2>2. \A s \in Statuses, p \in Gates \cup {0}, n \in 0..NodeCount :
           Finish(j, s, p, n) => doc'.status = s /\ doc'.done = n
    BY <2>1, CalmSave DEF Finish
  <2> QED
    BY <2>1, <2>2, ConstantsAssumption DEF JobRecords, Statuses, Terminal
<1>1. CASE RejectRun(j)
  <2>1. doc'.status = "failed" /\ ran' = ran /\ jobs[j].st = "reject"
    BY <1>0, <1>1 DEF RejectRun, history
  <2>2. Active(j) /\ jobs[j].kind = "reject"
    BY <2>1 DEF Active, CalmInv, Behind
  <2>3. Phase = "refused" /\ Phase' = "failed"
    <3>1. Rejecting /\ doc.status \in {"queued", "running", "resuming"}
      BY <2>2, Alone DEF Rejecting
    <3> QED
      BY <2>1, <3>1, PhaseIs DEF Terminal
  <2>4. Walk' /\ Promise!End
    BY <2>1, <2>3, WalkOver DEF Promise!End, Terminal
  <2> QED
    BY <2>4 DEF Kept, Promise!Next
<1>2. CASE ObserveCancel(j) \/ Complete(j) \/ TimeOut(j)
  <2>1. /\ jobs[j].st = "loop" /\ ran' = ran
        /\ doc'.status \in {"cancelled", "completed", "timed_out"}
        /\ doc'.status = "completed" => jobs[j].done = NodeCount
    BY <1>0, <1>2 DEF ObserveCancel, Complete, TimeOut, history
  <2>2. Phase = "going" /\ ran = Promise!Walked(jobs[j].done)
    BY <2>1, Walking
  <2>3. Phase' = doc'.status
    BY <2>1, PhaseIs DEF Terminal
  <2>4. Promise!End
    BY <2>1, <2>2, <2>3 DEF Promise!End, Promise!Outcomes
  <2>5. Walk'
    BY <2>1, WalkOver DEF Terminal
  <2> QED
    BY <2>4, <2>5 DEF Kept, Promise!Next
<1>3. CASE FailNode(j)
  <2>1. PICK n : n = jobs[j].done + 1
    OBVIOUS
  <2>2. AtNode(j) /\ ran' = [ran EXCEPT ![n] = @ + 1] /\ doc'.status = "failed"
    BY <1>0, <1>3, <2>1 DEF FailNode
  <2>3. n \in Promise!Nodes /\ ran = Promise!Walked(n - 1) /\ ran' = Promise!Walked(n)
    BY <2>1, <2>2, NextOfWalk
  <2>4. Phase = "going" /\ Phase' = "failed"
    BY <2>2, Walking, PhaseIs DEF AtNode, Terminal
  <2>5. Promise!Advance
    BY <2>3, <2>4 DEF Promise!Advance
  <2>6. Walk'
    BY <2>2, WalkOver DEF Terminal
  <2> QED
    BY <2>5, <2>6 DEF Kept, Promise!Next
<1>4. CASE Pause(j)
  <2>1. PICK n : n = jobs[j].done + 1
    OBVIOUS
  <2>2. /\ AtNode(j) /\ ran' = [ran EXCEPT ![n] = @ + 1] /\ n \in Gates
        /\ Finish(j, "paused", n, n)
    BY <2>1, <1>4 DEF Pause
  <2>3. n \in Promise!Nodes /\ ran = Promise!Walked(n - 1) /\ ran' = Promise!Walked(n) /\ n \in 0..NodeCount
    BY <2>1, <2>2, NextOfWalk
  <2>4. doc'.status = "paused" /\ doc'.done = n
    BY <1>0, <2>2, <2>3
  <2>5. Phase = "going" /\ Phase' = "waiting"
    BY <2>2, <2>4, Walking, PhaseIs DEF AtNode
  <2>6. Promise!Advance
    BY <2>2, <2>3, <2>5 DEF Promise!Advance
  <2>7. Walk'
    <3>1. \A i \in JobIds' : jobs'[i].st # "loop"
      BY <2>4 DEF CalmInv, StatusTells, Quiet, Active
    <3> QED
      BY <2>3, <2>4, <3>1 DEF Walk, Promise!Walked, Promise!Nodes
  <2> QED
    BY <2>6, <2>7 DEF Kept, Promise!Next
<1> QED
  BY <1>1, <1>2, <1>3, <1>4

\* Steps that leave the jobs and the requests alone.
LEMMA KeptAside ==
  ASSUME Inv, Walk, UNCHANGED <<jobs, officer, ran>>, doc'.done = doc.done,
         \/ doc'.status = doc.status
         \/ {doc.status, doc'.status} \subseteq {"queued", "running", "resuming"}
  PROVE  Kept
<1>1. TypeOK /\ (Rejecting' <=> Rejecting)
  BY DEF Inv, Rejecting, Resuming, Active, JobIds
<1>2. Walk'
  BY DEF Walk, JobIds, Promise!Walked, Promise!Nodes, Terminal
<1> QED
  BY <1>1, <1>2, Unseen DEF Kept

\* The run ends without a task that walks.
LEMMA KeptEnds ==
  ASSUME CalmInv', ran' = ran,
         \/ doc.status = "paused" /\ doc'.status \in {"failed", "cancelled"}
         \/ /\ doc.status \in {"queued", "running", "resuming"} /\ ~Rejecting
            /\ doc'.status \in {"failed", "cancelled"}
  PROVE  Kept
<1>1. Walk'
  BY WalkOver DEF Terminal
<1>2. Phase' = doc'.status /\ Phase \in {"waiting", "going"}
  BY PhaseIs DEF Terminal
<1>3. Promise!End
  BY <1>2 DEF Promise!End, Promise!Outcomes
<1> QED
  BY <1>1, <1>3 DEF Kept, Promise!Next

\* A job is enqueued for who was moving the execution on.
LEMMA KeptEnqueue ==
  ASSUME Inv, Walk, NEW k \in JobKinds, Enqueued(k), UNCHANGED <<doc, ran>>,
         (\E o \in Officers : Resuming(o) /\ officer[o].kind = "reject")
            <=> k = "reject" \/ \E o \in Officers : (Resuming(o) /\ officer[o].kind = "reject")'
  PROVE  Kept
<1>1. /\ jobs' = Append(jobs, NewJob(k)) /\ jobs \in Seq(JobRecords)
  BY DEF Enqueued, Inv, TypeOK
<1>2. PICK n : n = Len(jobs) + 1
  OBVIOUS
<1>3. /\ n \notin JobIds /\ JobIds' = JobIds \cup {n} /\ jobs'[n] = NewJob(k)
      /\ \A j \in JobIds : jobs'[j] = jobs[j]
  BY <1>1, <1>2 DEF JobIds
<1>4. /\ Active(n)' /\ jobs'[n].kind = k /\ jobs'[n].st = "queued"
      /\ \A j \in JobIds : Active(j)' <=> Active(j)
  BY <1>3 DEF Active, NewJob
<1>5. (\E j \in JobIds' : Active(j)' /\ jobs'[j].kind = "reject")
        <=> k = "reject" \/ \E j \in JobIds : Active(j) /\ jobs[j].kind = "reject"
  BY <1>3, <1>4
<1>6. Rejecting' <=> Rejecting
  BY <1>5 DEF Rejecting
<1>7. Walk'
  BY <1>3, <1>4, WalkStays
<1> QED
  BY <1>6, <1>7, Unseen DEF Kept, Inv

\* The entry is acked.
LEMMA KeptAck ==
  ASSUME Inv, Walk, NEW j \in JobIds, Ack(j)
  PROVE  Kept
<1>1. jobs \in Seq(JobRecords) /\ jobs[j] \in JobRecords /\ doc \in Docs /\ TypeOK
  BY JobType DEF Inv, TypeOK
<1>2. /\ JobIds' = JobIds
      /\ \A i \in JobIds : jobs'[i] = jobs[i]
           \/ (i = j /\ jobs'[i].st = "ended" /\ jobs[i].st = "acking")
  BY <1>1 DEF Ack, JobIds, JobRecords
<1>3. /\ UNCHANGED <<officer, ran>>
      /\ doc'.status = doc.status /\ doc'.done = doc.done
  BY <1>1 DEF Ack, requests, history, Docs
<1>4. Rejecting' <=> Rejecting
  BY <1>2, <1>3 DEF Rejecting, Resuming, Active
<1>5. Walk'
  BY <1>2, <1>3, WalkStays
<1> QED
  BY <1>1, <1>3, <1>4, <1>5, Unseen DEF Kept

LEMMA KeptSubmit ==
  ASSUME Calm, Inv, CalmInv, Walk,
         Submit \/ SubmitEnqueue \/ SubmitRaises \/ SubmitFails \/ RequestDies
  PROVE  Kept
<1>1. CASE Submit
  <2>1. doc.status = "none" /\ Quiet
    BY <1>1 DEF Submit, CalmInv, StatusTells
  <2>2. doc'.status = "queued" /\ doc'.done = doc.done /\ UNCHANGED <<jobs, officer, ran>>
    BY <1>1 DEF Submit, history, Inv, TypeOK, Docs
  <2>3. ~Rejecting'
    BY <2>1, <2>2 DEF Quiet, Rejecting, Resuming, Active, JobIds
  <2>4. Phase = "none" /\ Phase' = "going"
    BY <2>1, <2>2, <2>3, PhaseIs
  <2>5. Walk'
    BY <2>1, <2>2, WalkStays DEF JobIds, Terminal
  <2> QED
    BY <2>2, <2>4, <2>5 DEF Kept, Promise!Next, Promise!Accept
<1>2. CASE SubmitEnqueue
  <2>1. Enqueued("run") /\ UNCHANGED <<doc, officer, ran>>
    BY <1>2 DEF SubmitEnqueue, history
  <2> QED
    BY <2>1, KeptEnqueue DEF JobKinds, Resuming
<1>3. CASE SubmitRaises \/ SubmitFails \/ RequestDies
  BY <1>3, NoLoss DEF SubmitRaises, EnqueueRaised, SubmitFails, RequestDies, CalmInv, OneMover
<1> QED
  BY <1>1, <1>2, <1>3

\* Look and Decide: a decision ends the wait; enqueueing it changes nothing.
LEMMA KeptOfficer ==
  ASSUME Calm, Inv, CalmInv, Walk, NEW o \in Officers, Look(o) \/ OfficerStep(o)
  PROVE  Kept
<1>0. /\ TypeOK /\ doc \in Docs
      /\ officer \in [Officers -> OfficerRecords]
  BY DEF Inv, TypeOK
<1>1. CASE Look(o) \/ (Decide(o) /\ doc.status # "paused")
  <2>1. /\ \A p \in Officers \ {o} : officer'[p] = officer[p]
        /\ ~Resuming(o) /\ ~Resuming(o)'
        /\ UNCHANGED <<doc, jobs, ran>>
    BY <1>0, <1>1 DEF Look, Decide, DecideFilter, history, Resuming,
                      OfficerRecords
  <2>2. Rejecting' <=> Rejecting
    BY <2>1 DEF Rejecting, Resuming, Active, JobIds
  <2>3. Walk'
    BY <2>1, WalkStays DEF JobIds
  <2> QED
    BY <1>0, <2>1, <2>2, <2>3, Unseen DEF Kept
<1>2. CASE Decide(o) /\ doc.status = "paused"
  <2>0. /\ officer[o].pc = "decide"
        /\ officer' = [officer EXCEPT ![o].pc = "enqueue",
                                      ![o].hit = doc.paused]
        /\ doc' = [doc EXCEPT !.status = "resuming", !.resumeOld = FALSE]
        /\ UNCHANGED <<jobs, ran>>
    BY <1>2 DEF Decide, DecideFilter
  <2>1. /\ \A p \in Officers \ {o} : officer'[p] = officer[p]
        /\ officer'[o].pc = "enqueue" /\ officer'[o].kind = officer[o].kind
    <3>1. officer[o] \in OfficerRecords
      BY <1>0
    <3>2. officer'[o] = [officer[o] EXCEPT !.pc = "enqueue",
                                           !.hit = doc.paused]
      BY <1>0, <2>0
    <3>3. \A p \in Officers \ {o} : officer'[p] = officer[p]
      BY <1>0, <2>0
    <3> QED
      BY <3>1, <3>2, <3>3 DEF OfficerRecords
  <2>2. doc'.status = "resuming" /\ doc'.done = doc.done
    BY <1>0, <2>0 DEF Docs
  <2>3. Quiet
    BY <1>2 DEF CalmInv, StatusTells
  <2>4. Rejecting' <=> officer[o].kind = "reject"
    BY <2>0, <2>1, <2>3 DEF Rejecting, Quiet, Resuming, Active, JobIds
  <2>5. Phase = "waiting" /\ Phase' \in {"going", "refused"}
    BY <1>2, <2>2, PhaseIs
  <2>6. Promise!Approve \/ Promise!Reject
    BY <2>0, <2>5 DEF Promise!Approve, Promise!Reject
  <2>7. Walk'
    BY <1>2, <2>0, <2>2, WalkStays DEF JobIds, Terminal
  <2> QED
    BY <2>6, <2>7 DEF Kept, Promise!Next
<1>3. CASE DecideEnqueue(o)
  <2>1. /\ officer[o].pc = "enqueue" /\ Enqueued(officer[o].kind)
        /\ officer[o].kind \in JobKinds /\ officer[o].kind \in {"approve", "reject"}
        /\ \A p \in Officers \ {o} : officer'[p] = officer[p]
        /\ officer'[o].pc = "done"
        /\ UNCHANGED <<doc, ran>>
    BY <1>0, <1>3 DEF DecideEnqueue, history, JobKinds, OfficerRecords
  <2>2. /\ Resuming(o) /\ ~Resuming(o)'
        /\ \A p \in Officers \ {o} : ~Resuming(p) /\ ~Resuming(p)'
    BY <2>1 DEF Resuming, CalmInv, OneMover
  <2> QED
    BY <2>1, <2>2, KeptEnqueue
<1>4. CASE DecideRaises(o) \/ DecideRollback(o)
  BY <1>4, NoLoss DEF DecideRaises, EnqueueRaised, DecideRollback, CalmInv, OneMover
<1> QED
  BY <1>1, <1>2, <1>3, <1>4 DEF OfficerStep

LEMMA KeptCancel ==
  ASSUME Inv, CalmInv, CalmInv', Walk, CancelRead \/ CancelStep
  PROVE  Kept
<1>0. doc \in Docs
  BY DEF Inv, TypeOK
<1>1. CASE CancelRead \/ CancelMark \/ CancelFlag
  BY <1>0, <1>1, KeptAside DEF CancelRead, CancelMark, CancelFlag, history, Docs
<1>2. CASE CancelCas /\ doc.status # "paused"
  BY <1>2, KeptAside DEF CancelCas, history
<1>3. CASE CancelCas /\ doc.status = "paused"
  BY <1>0, <1>3, KeptEnds DEF CancelCas, history, Docs
<1> QED
  BY <1>1, <1>2, <1>3 DEF CancelStep

LEMMA KeptSweep ==
  ASSUME Calm, Inv, CalmInv, CalmInv', Walk,
         SweepStep \/ SweeperDies
  PROVE  Kept
<1>0. doc \in Docs
  BY DEF Inv, TypeOK
<1>1. CASE SweepRead \/ SweeperDies
  BY <1>1, KeptAside DEF SweepRead, SweeperDies, requests, history
<1>2. CASE SweepCas
  <2>1. /\ Stuck /\ Quiet /\ sweep.status = doc.status
        /\ UNCHANGED <<jobs, officer, ran>>
    BY <1>2 DEF SweepCas, CalmInv, StatusTells, requests, history
  <2>2. ~Rejecting /\ doc.status \in {"queued", "running", "resuming"}
    BY <2>1 DEF Quiet, Rejecting, Stuck
  <2>3. doc'.done = doc.done /\ doc'.status \in {"cancelled", "failed", "resuming"}
    BY <1>0, <1>2, <2>1 DEF SweepCas, Docs
  <2> QED
    BY <2>1, <2>2, <2>3, KeptEnds, KeptAside
<1>3. CASE SweepEnqueue
  <2>1. Enqueued("crash") /\ UNCHANGED <<doc, officer, ran>>
    BY <1>3 DEF SweepEnqueue, requests
  <2> QED
    BY <2>1, KeptEnqueue DEF JobKinds, Resuming
<1>4. CASE SweepRaises \/ SweepRollback
  BY <1>4, NoLoss DEF SweepRaises, EnqueueRaised, SweepRollback, CalmInv, OneMover
<1> QED
  BY <1>1, <1>2, <1>3, <1>4 DEF SweepStep

LEMMA KeptByTime ==
  ASSUME Inv, CalmInv, CalmInv', Walk,
         \/ StartAges \/ ResumeAges \/ FlagExpires \/ ViewExpires
         \/ TimerStep \/ TimerDies
  PROVE  Kept
<1>0. doc \in Docs
  BY DEF Inv, TypeOK
<1>1. CASE StartAges \/ ResumeAges \/ FlagExpires \/ ViewExpires
  BY <1>0, <1>1, KeptAside DEF StartAges, ResumeAges, FlagExpires, ViewExpires,
                               requests, history, Docs
<1>2. CASE TimeoutMark \/ TimerDies
  BY <1>2, KeptAside DEF TimeoutMark, TimerDies, requests, history
<1>3. CASE TimeoutFail /\ doc.status # "paused"
  BY <1>0, <1>3, KeptAside DEF TimeoutFail, requests, history, Docs
<1>4. CASE TimeoutFail /\ doc.status = "paused"
  BY <1>0, <1>4, KeptEnds DEF TimeoutFail, requests, history, Docs
<1> QED
  BY <1>1, <1>2, <1>3, <1>4 DEF TimerStep

LEMMA PromiseStep ==
  ASSUME Calm, Inv, CalmInv, Walk, [Next]_vars
  PROVE  Walk' /\ [Promise!Next]_<<Phase, ran>>
<1>0. CalmInv'
  BY CalmStep
<1>1. CASE Submit \/ SubmitEnqueue \/ SubmitRaises \/ SubmitFails \/ RequestDies
  BY <1>1, KeptSubmit DEF Kept
<1>2. ASSUME NEW j \in JobIds, JobStep(j) \/ WorkerDies(j) PROVE Kept
  <2>1. ~WorkerDies(j)
    BY NoLoss DEF WorkerDies
  <2> QED
    BY <1>0, <1>2, <2>1, KeptDeliver, KeptFinish, KeptRunNode, KeptAck DEF JobStep
<1>3. ASSUME NEW o \in Officers, Look(o) \/ OfficerStep(o) PROVE Kept
  BY <1>3, KeptOfficer
<1>4. CASE CancelRead \/ CancelStep
  BY <1>0, <1>4, KeptCancel DEF Kept
<1>5. CASE StartAges \/ ResumeAges \/ FlagExpires \/ ViewExpires \/ TimerStep \/ TimerDies
  BY <1>0, <1>5, KeptByTime DEF Kept
<1>6. CASE SweepStep \/ SweeperDies
  BY <1>0, <1>6, KeptSweep DEF Kept
<1>7. CASE UNCHANGED vars
  BY <1>7, KeptAside DEF vars, requests, history, Kept
<1> QED
  BY <1>1, <1>2, <1>3, <1>4, <1>5, <1>6, <1>7 DEF Next, Kept

LEMMA PromiseInit == Init => Walk /\ Promise!Init
<1> SUFFICES ASSUME Init PROVE Walk /\ Promise!Init
  OBVIOUS
<1>1. doc.status = "none" /\ doc.done = 0 /\ JobIds = {}
  BY DEF Init, JobIds
<1>2. ran = Promise!Walked(0)
  <2>1. \A m \in Nodes : m \in Int /\ ~(m <= 0)
    BY ConstantsAssumption DEF Nodes
  <2> QED
    BY <2>1 DEF Init, Promise!Walked, Promise!Nodes, Nodes
<1>3. Phase = "none"
  BY <1>1, PhaseIs
<1> QED
  BY <1>1, <1>2, <1>3 DEF Walk, Promise!Init

\* The walks of execute() and resume(), the endpoints and the two sweeps
\* implement the promise: the nodes are started in order and once, a gate
\* waits for one decision, a rejected run can only fail, an outcome is final.
THEOREM PromiseTheorem ==
  ASSUME Calm
  PROVE  Spec => ImplementsPromise
<1>1. Init => Walk /\ Promise!Init
  BY PromiseInit
<1>2. Inv /\ CalmInv /\ Walk /\ [Next]_vars => Walk' /\ [Promise!Next]_<<Phase, ran>>
  BY PromiseStep
<1> QED
  BY <1>1, <1>2, CalmHolds, PTL DEF Spec, ImplementsPromise, Promise!Spec

-----------------------------------------------------------------------------
(***************************************************************************)
(* Cancel, when Redis answers and keeps its keys.                          *)
(***************************************************************************)
RedisKeeps == ~Expiry /\ "cache" \notin FaultKinds

\* A task learns of a cancel when it starts, and of none but an answered one.
LEMMA ToldStep ==
  ASSUME Inv, CancelKept, [Next]_vars
  PROVE  \A i \in JobIds' : jobs'[i].told => canceller.pc \in {"cas", "done"}
<1>0. jobs \in Seq(JobRecords) /\ \A i \in JobIds : jobs[i] \in JobRecords
  BY JobType DEF Inv, TypeOK
<1>1. CASE UNCHANGED jobs
  BY <1>1 DEF CancelKept, JobIds
<1>2. ASSUME NEW k, Enqueued(k)
      PROVE  \A i \in JobIds' : jobs'[i].told => canceller.pc \in {"cas", "done"}
  <2>1. \A i \in JobIds' : jobs'[i] = NewJob(k) \/ (i \in JobIds /\ jobs'[i] = jobs[i])
    BY <1>0, <1>2 DEF Enqueued, JobIds
  <2> QED
    BY <2>1 DEF NewJob, CancelKept
<1>3. ASSUME NEW j \in JobIds, JobIds' = JobIds, \A i \in JobIds \ {j} : jobs'[i] = jobs[i],
             jobs'[j].told \in {jobs[j].told, FALSE, Told}
      PROVE  \A i \in JobIds' : jobs'[i].told => canceller.pc \in {"cas", "done"}
  BY <1>3 DEF CancelKept, Told
<1>4. ASSUME NEW j \in JobIds, JobStep(j) \/ WorkerDies(j)
      PROVE  \A i \in JobIds' : jobs'[i].told => canceller.pc \in {"cas", "done"}
  <2>1. JobIds' = JobIds /\ \A i \in JobIds \ {j} : jobs'[i] = jobs[i]
    BY <1>0, <1>4 DEF JobStep, WorkerDies, StartRun, RunRefused, StartResume, ResumeRefused,
       RejectRun, ObserveCancel, RunNode, FailNode, Pause, Complete, TimeOut, Ack,
       Finish, Redeliver, JobIds
  <2>2. jobs'[j].told \in {jobs[j].told, FALSE, Told}
    <3>1. CASE StartRun(j) \/ StartResume(j)
      <4>1. PICK t : t = Told
        OBVIOUS
      <4>2. \/ jobs' = [jobs EXCEPT ![j].st = "loop", ![j].done = 0, ![j].told = t]
            \/ jobs' = [jobs EXCEPT ![j].st = "loop", ![j].done = doc.done, ![j].told = t]
            \/ jobs' = [jobs EXCEPT ![j].st = "reject", ![j].done = doc.done,
                                   ![j].paused = doc.paused, ![j].told = t]
        BY <3>1, <4>1 DEF StartRun, StartResume
      <4>3. \/ jobs'[j] = [jobs[j] EXCEPT !.st = "loop", !.done = 0, !.told = t]
            \/ jobs'[j] = [jobs[j] EXCEPT !.st = "loop", !.done = doc.done, !.told = t]
            \/ jobs'[j] = [jobs[j] EXCEPT !.st = "reject", !.done = doc.done,
                                          !.paused = doc.paused, !.told = t]
        BY <1>0, <4>2 DEF JobIds
      <4>4. jobs'[j].told = t
        BY <1>0, <4>3 DEF JobRecords
      <4> QED
        BY <4>1, <4>4
    <3>2. CASE Redeliver(j)
      BY <1>0, <3>2 DEF Redeliver, JobRecords, JobIds
    <3>3. CASE \E s, p, n : Finish(j, s, p, n)
      BY <1>0, <3>3 DEF Finish, JobRecords, JobIds
    <3>4. CASE RunNode(j) \/ Ack(j)
      BY <1>0, <3>4 DEF RunNode, Ack, JobRecords, JobIds
    <3> QED
      BY <1>4, <3>1, <3>2, <3>3, <3>4
         DEF JobStep, WorkerDies, RunRefused, ResumeRefused, RejectRun, ObserveCancel, FailNode,
             Pause, Complete, TimeOut
  <2> QED
    BY <1>3, <2>1, <2>2
<1>5. \/ UNCHANGED jobs
      \/ \E k : Enqueued(k)
      \/ \E j \in JobIds : JobStep(j) \/ WorkerDies(j)
  BY DEF Next, vars, Submit, SubmitEnqueue, SubmitRaises, SubmitFails, EnqueueRaised,
     Look, OfficerStep, Decide, DecideEnqueue, DecideRaises, DecideRollback,
     RequestDies, CancelRead, CancelStep, CancelMark, CancelFlag, CancelCas,
     StartAges, ResumeAges, FlagExpires, ViewExpires, SweepStep, SweepRead,
     SweepCas, SweepEnqueue, SweepRaises, SweepRollback, SweeperDies,
     TimerStep, TimeoutMark, TimeoutFail, TimerDies
<1> QED
  BY <1>1, <1>2, <1>4, <1>5

LEMMA CancelKeptStep ==
  ASSUME Calm, RedisKeeps, Inv, CalmInv, CancelKept, [Next]_vars
  PROVE  CancelKept'
<1>0. /\ TypeOK /\ doc \in Docs /\ canceller \in [pc : CancelPcs, seen : Statuses]
      /\ ~CacheMayFail /\ ~Fault("cache")
  BY DEF Inv, TypeOK, RedisKeeps, CacheMayFail, Fault
<1>1. doc.status \in Terminal => doc'.status \in Terminal
  BY FinalStep
<1>2. CASE UNCHANGED <<flag, canceller>>
  BY <1>1, <1>2, ToldStep DEF CancelKept
<1>3. CASE CancelRead \/ CancelStep
  <2>1. canceller.pc \in {"cas", "done"} => canceller'.pc \in {"cas", "done"}
    BY <1>0, <1>3 DEF CancelRead, CancelStep, CancelMark, CancelFlag, CancelCas
  <2>2. canceller'.pc \in {"cas", "done"} => flag' \/ doc'.status \in Terminal
    <3>1. CASE CancelRead \/ CancelMark
      BY <1>0, <3>1 DEF CancelRead, CancelMark
    <3>2. CASE CancelFlag
      BY <1>0, <3>2 DEF CancelFlag
    <3>3. CASE CancelCas
      BY <1>0, <1>1, <3>3 DEF CancelCas, CancelKept, redis, Docs, Terminal
    <3> QED
      BY <1>3, <3>1, <3>2, <3>3 DEF CancelStep
  <2> QED
    BY <2>1, <2>2, ToldStep DEF CancelKept
<1>4. ASSUME NEW j \in JobIds, ObserveCancel(j) PROVE CancelKept'
  <2>1. doc'.status = "cancelled" /\ canceller' = canceller
    <3>1. /\ jobs[j].done \in 0..NodeCount /\ 0 \in Gates \cup {0}
          /\ "cancelled" \in Statuses
      BY <1>0, JobType DEF JobRecords, Statuses, Terminal
    <3>2. SaveExecution(j, "cancelled", 0, jobs[j].done)
      BY <1>4 DEF ObserveCancel, Finish
    <3> QED
      BY <1>0, <1>4, <3>1, <3>2, CalmSave DEF ObserveCancel, requests
  <2> QED
    BY <2>1, ToldStep DEF CancelKept, Terminal
<1>5. ~FlagExpires
  BY DEF RedisKeeps, FlagExpires
<1>6. \/ UNCHANGED <<flag, canceller>> \/ FlagExpires
      \/ CancelRead \/ CancelStep \/ \E j \in JobIds : ObserveCancel(j)
  BY DEF Next, vars, redis, requests, Submit, SubmitEnqueue, SubmitRaises, SubmitFails,
     JobStep, WorkerDies, StartRun, RunRefused, StartResume, ResumeRefused, RejectRun,
     RunNode, FailNode, Pause, Complete, TimeOut, Ack,
     Look, OfficerStep, Decide, DecideEnqueue, DecideRaises, DecideRollback,
     RequestDies, StartAges, ResumeAges, ViewExpires, SweepStep, SweepRead,
     SweepCas, SweepEnqueue, SweepRaises, SweepRollback, SweeperDies,
     TimerStep, TimeoutMark, TimeoutFail, TimerDies
<1> QED
  BY <1>2, <1>3, <1>4, <1>5, <1>6

\* A task that knows of the cancel stops at the next boundary.
LEMMA CancelStops ==
  ASSUME Calm, RedisKeeps, Inv, CalmInv, CancelKept, [Next]_vars,
         NEW j \in JobIds, jobs[j].told, jobs[j].st = "loop"
  PROVE  jobs'[j].done <= jobs[j].done
<1>0. /\ TypeOK /\ jobs \in Seq(JobRecords) /\ Active(j)
      /\ \A i \in JobIds : jobs[i] \in JobRecords
  BY JobType DEF Inv, TypeOK, Active
<1>1. flag /\ ~AtNode(j) /\ \A i \in JobIds \ {j} : ~Active(i)
  <2>1. doc.status \notin Terminal
    BY <1>0, Alone DEF Terminal
  <2> QED
    BY <1>0, <2>1, Alone DEF CancelKept, AtNode, RedisKeeps, CacheMayFail
<1>2. jobs[j].done <= jobs[j].done /\ jobs[j].done \in 0..NodeCount
  BY <1>0 DEF JobRecords
<1>3. CASE UNCHANGED jobs
  BY <1>2, <1>3
<1>4. ASSUME NEW k, Enqueued(k) PROVE jobs'[j].done <= jobs[j].done
  <2>1. jobs'[j] = jobs[j]
    BY <1>0, <1>4 DEF Enqueued, JobIds
  <2> QED
    BY <1>2, <2>1
<1>5. ASSUME NEW i \in JobIds, JobStep(i) \/ WorkerDies(i) PROVE jobs'[j].done <= jobs[j].done
  <2>1. CASE i = j
    <3>1. RejectRun(j) \/ ObserveCancel(j) \/ Complete(j) \/ TimeOut(j)
      BY <1>1, <1>5, <2>1, NoLoss
         DEF JobStep, WorkerDies, StartRun, RunRefused, StartResume, ResumeRefused, RunNode,
             FailNode, Pause, Ack
    <3>2. \E s, p : Finish(j, s, p, jobs[j].done)
      BY <3>1 DEF RejectRun, ObserveCancel, Complete, TimeOut
    <3>3. jobs'[j] = [jobs[j] EXCEPT !.st = "acking", !.done = jobs[j].done]
      BY <1>0, <3>2 DEF Finish, JobIds
    <3> QED
      BY <1>0, <1>2, <3>3 DEF JobRecords
  <2>2. CASE i # j
    <3>1. Ack(i)
      <4>1. jobs[i].st \notin {"queued", "loop", "reject"}
        BY <1>1, <2>2 DEF Active
      <4> QED
        BY <1>5, <4>1, NoLoss
           DEF JobStep, WorkerDies, StartRun, RunRefused, StartResume, ResumeRefused,
               RejectRun, ObserveCancel, RunNode, FailNode, Pause, Complete,
               TimeOut, AtNode
    <3>2. jobs'[j] = jobs[j]
      BY <1>0, <2>2, <3>1 DEF Ack, JobIds
    <3> QED
      BY <1>2, <3>2
  <2> QED
    BY <2>1, <2>2
<1>6. \/ UNCHANGED jobs
      \/ \E k : Enqueued(k)
      \/ \E i \in JobIds : JobStep(i) \/ WorkerDies(i)
  BY DEF Next, vars, Submit, SubmitEnqueue, SubmitRaises, SubmitFails, EnqueueRaised,
     Look, OfficerStep, Decide, DecideEnqueue, DecideRaises, DecideRollback,
     RequestDies, CancelRead, CancelStep, CancelMark, CancelFlag, CancelCas,
     StartAges, ResumeAges, FlagExpires, ViewExpires, SweepStep, SweepRead,
     SweepCas, SweepEnqueue, SweepRaises, SweepRollback, SweeperDies,
     TimerStep, TimeoutMark, TimeoutFail, TimerDies
<1> QED
  BY <1>3, <1>4, <1>5, <1>6

\* A cancel that was answered is durable: a task that starts after it, a resume
\* after a racing approval included, runs no node.
THEOREM CancelTheorem ==
  ASSUME Calm, RedisKeeps
  PROVE  Spec => CancelStopsLaterTasks
<1>1. Init => CancelKept
  BY DEF Init, CancelKept, JobIds
<1>2. Inv /\ CalmInv /\ CancelKept /\ [Next]_vars => CancelKept'
  BY CancelKeptStep
<1>3. Inv /\ CalmInv /\ CancelKept /\ [Next]_vars =>
        [\A j \in JobIds : jobs[j].told /\ jobs[j].st = "loop"
                             => jobs'[j].done <= jobs[j].done]_vars
  BY CancelStops
<1> QED
  BY <1>1, <1>2, <1>3, CalmHolds, PTL DEF Spec, CancelStopsLaterTasks
=============================================================================
