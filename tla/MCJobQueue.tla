---------------------------- MODULE MCJobQueue ----------------------------
(***************************************************************************)
(* Small instances of JobQueue for TLC, with a count of what is run.       *)
(***************************************************************************)
EXTENDS JobQueue, TLC

Sym == Permutations(Jobs) \cup Permutations(Procs)

VARIABLES
  mode,     \* what this behaviour is about, see MCNext
  runs,     \* history: how often the handler was called with each entry
  unlisted  \* history: how often XPENDING did not list an entry just claimed

mcVars == <<vars, mode, runs, unlisted>>

MCInit == /\ Init
          /\ mode \in {"slow", "failing", "killing"}
          /\ runs = [i \in 1..MaxEntries |-> 0] /\ unlisted = runs

InTime == \A i \in Ids : Attended(i) /\ stream'[i].idle => stream[i].idle
OneJob == \A j, k \in Jobs : status'[j] # "none" /\ status'[k] # "none" => j = k

Called(i) == \E t \in Tasks : pc[t] = "got" /\ pc'[t] = "running" /\ cur[t].sid = i
Missed(i) == \E t \in Tasks : /\ pc[t] = "probe" /\ pc'[t] = "batch"
                              /\ \E h \in batch[t] : h.sid = i
                              /\ i \notin Lowest({k \in Ids : Pending(k)})

Observe ==
  /\ runs' = [i \in DOMAIN runs |-> IF Called(i) THEN runs[i] + 1 ELSE runs[i]]
  /\ unlisted' = [i \in DOMAIN runs |->
                    IF Missed(i) THEN unlisted[i] + 1 ELSE unlisted[i]]

\* One job that outlasts the visibility timeout, so that two tasks run it.
Slow == UNCHANGED <<ends, faults, runs, unlisted>> /\ Len(stream') <= 2 /\ OneJob

\* One job, processes that end and commands that raise.
Failing == InTime /\ OneJob /\ UNCHANGED <<runs, unlisted>>

\* Several jobs, whose handlers return or take the process with them.
Killing == /\ InTime /\ UNCHANGED faults
           /\ \A p \in Procs : proc'[p] # "stopping"
           /\ \A t \in Tasks : pc'[t] \notin {"ackRetry", "ackDead"}
           /\ Observe

MCNext == /\ Next /\ UNCHANGED mode
          /\ \/ mode = "slow" /\ Slow
             \/ mode = "failing" /\ Failing
             \/ mode = "killing" /\ Killing

MCSpec == MCInit /\ [][MCNext]_mcVars

LiveInit == MCInit /\ mode = "failing"

\* Without slow jobs, and with the fairness of the scheduling.
LiveSpec == LiveInit /\ [][MCNext]_mcVars /\ Fairness

\* The crash-loop guard of claim_stale: a job that keeps killing its worker has
\* its handler called max(1, max_retries) times, and once more only for a
\* delivery whose count XPENDING did not report, because that many entries were
\* pending before it or another task had acked it.  So it is with any number of
\* jobs in a batch, and although what the probe read may be old when the job's
\* turn comes.
RunsBounded ==
  \A i \in Ids : \/ runs[i] <= 1 + unlisted[i]
                 \/ runs[i] <= MaxRetries + unlisted[i]
=============================================================================
