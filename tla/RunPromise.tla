----------------------------- MODULE RunPromise -----------------------------
(***************************************************************************)
(* What an execution promises to those who submitted it: the nodes of the  *)
(* chain are started in their order and each of them once, a gate makes    *)
(* the run wait for one decision, only an approval lets it go on, a        *)
(* rejected run can only fail, and the outcome of a run is final.          *)
(***************************************************************************)
EXTENDS Integers

CONSTANTS NodeCount, Gates

VARIABLES
  phase,  \* none, going, waiting (for a decision), refused, or the outcome
  ran     \* how often each node was started

Nodes == 1..NodeCount
Outcomes == {"completed", "failed", "timed_out", "cancelled"}

\* The first n nodes were started, once each.
Walked(n) == [m \in Nodes |-> IF m <= n THEN 1 ELSE 0]

Init == phase = "none" /\ ran = Walked(0)

Accept == phase = "none" /\ phase' = "going" /\ UNCHANGED ran

\* The next node is started: it completes, parks the run, or fails it.
Advance ==
  /\ phase = "going"
  /\ \E n \in Nodes :
       /\ ran = Walked(n - 1) /\ ran' = Walked(n)
       /\ \/ n \notin Gates /\ phase' = "going"
          \/ n \in Gates /\ phase' = "waiting"
          \/ phase' = "failed"

Approve == phase = "waiting" /\ phase' = "going" /\ UNCHANGED ran

Reject == phase = "waiting" /\ phase' = "refused" /\ UNCHANGED ran

End ==
  /\ \/ /\ phase = "going" /\ phase' \in Outcomes
        /\ phase' = "completed" => ran = Walked(NodeCount)
     \/ phase = "waiting" /\ phase' \in {"failed", "cancelled"}
     \/ phase = "refused" /\ phase' = "failed"
  /\ UNCHANGED ran

Next == Accept \/ Advance \/ Approve \/ Reject \/ End

Spec == Init /\ [][Next]_<<phase, ran>>
=============================================================================
