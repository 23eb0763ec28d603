----------------------------- MODULE JobLedger -----------------------------
(***************************************************************************)
(* What the durable queue promises of the jobs it accepts: a job is open   *)
(* until it was done, dead-lettered or lost; only an open job is reported  *)
(* on; and a job that is closed stays closed, with the status it has.      *)
(***************************************************************************)
CONSTANT Jobs

VARIABLES
  status,     \* what a caller is told; "none" of a job nobody enqueued
  open,       \* jobs that some worker may still take up or is at work on
  completed,  \* jobs that were done
  buried,     \* jobs in the dead-letter stream
  lost        \* jobs a worker dropped when it ended

ledger == <<status, open, completed, buried, lost>>

Init ==
  /\ status = [j \in Jobs |-> "none"]
  /\ open = {} /\ completed = {} /\ buried = {} /\ lost = {}

Accept(j) ==
  /\ status[j] = "none"
  /\ status' = [status EXCEPT ![j] = "queued"]
  /\ open' = open \cup {j}
  /\ UNCHANGED <<completed, buried, lost>>

\* "done" is reported when the work was done, and not else.
Report(j) ==
  /\ j \in open
  /\ \/ /\ status' = [status EXCEPT ![j] = "done"]
        /\ completed' = completed \cup {j}
     \/ /\ \E s \in {"queued", "running", "failed"} : status' = [status EXCEPT ![j] = s]
        /\ UNCHANGED completed
  /\ UNCHANGED <<open, buried, lost>>

Bury(j) ==
  /\ j \in open
  /\ buried' = buried \cup {j}
  /\ UNCHANGED <<status, open, completed, lost>>

\* Workers let go of the jobs they have, and of some they drop the only copy.
Close(gone, left) ==
  /\ open' = open \ gone /\ lost' = lost \cup left
  /\ gone \subseteq completed \cup buried \cup lost'
  /\ UNCHANGED <<status, completed, buried>>

Next ==
  \/ \E j \in Jobs : Accept(j) \/ Report(j) \/ Bury(j)
  \/ \E gone, left \in SUBSET open : Close(gone, left)

Spec == Init /\ [][Next]_ledger
=============================================================================
