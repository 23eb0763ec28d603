---------------------------- MODULE DagExecutor ----------------------------
(***************************************************************************)
(* The walk of a workflow graph: WorkflowExecutor._execute_inner and       *)
(* WorkflowExecutor.resume (executor.py), for one execution.               *)
(*                                                                         *)
(* The graph is an input: Init picks one.  The order inside a batch        *)
(* follows the order of roots in a Python set and of edges in the          *)
(* definition, which nothing fixes: any node of the batch may be next.     *)
(*                                                                         *)
(* In memory the walk has its batch, the queue that becomes the next       *)
(* round, and the sets executed and soft_failed; the document has the node *)
(* results of the last save.  What a node computes is left out, but for    *)
(* the branch a condition or a switch takes.  Cancellation, the timeout of *)
(* the run and a redelivered workflow.run job are in ExecutionLifecycle.   *)
(***************************************************************************)
EXTENDS Integers, FiniteSets

CONSTANTS
  NodeCount,    \* nodes of the graph
  Kinds,        \* kinds of nodes that occur in the graph
  MaxSpecial,   \* bound: nodes whose kind is not "plain"
  MaxRestarts   \* bound: approvals and crashes after which the run resumes

AllKinds == {"trigger", "plain", "cond", "switch", "gate", "soft"}

ASSUME ConstantsAssumption ==
  /\ NodeCount \in Nat /\ MaxSpecial \in Nat /\ MaxRestarts \in Nat
  /\ Kinds \subseteq AllKinds

VARIABLES
  graph,      \* the workflow definition; never changes
  mode,       \* which of the two walks is running
  status,     \* of the WorkflowExecution object
  queue,      \* next_queue, the candidates of the next round
  batch,      \* the nodes of this round that are still to be looked at
  executed, softFailed,
  results,    \* execution.node_results in memory
  branch,     \* branch taken by the conditions that completed
  saved,      \* the document: node_results, their branches, paused_at_node
  restarts,
  ran         \* history: how often each node was started

walk == <<queue, batch, executed, softFailed>>
vars == <<graph, mode, status, walk, results, branch, saved, restarts, ran>>

-----------------------------------------------------------------------------
(***************************************************************************)
(* The graph.                                                              *)
(***************************************************************************)

Nodes == 1..NodeCount
Branches == {"true", "false", "none"}
Results == {"none", "completed", "failed", "skipped"}

\* What _validate_dag lets through.  An acyclic graph can be numbered so that
\* edges lead upwards.  No node is without an edge, unless there are no edges
\* at all: one node, or a template saved without edges, which is not checked.
Shapes ==
  {E \in SUBSET {e \in Nodes \X Nodes : e[1] < e[2]} :
     E = {} \/ \A n \in Nodes : \E e \in E : n \in {e[1], e[2]}}

Typings ==
  {K \in [Nodes -> Kinds \cup {"plain"}] :
     Cardinality({n \in Nodes : K[n] # "plain"}) <= MaxSpecial}

\* What is read off the handle and the label of an edge.  Only the edges of a
\* condition or a switch matter, and an edge of a switch always has a route.
\* "none" is also two parallel edges that name both branches.
Labellings(E, K) ==
  {L \in [{e \in E : K[e[1]] \in {"cond", "switch"}} -> Branches] :
     \A e \in DOMAIN L : K[e[1]] = "switch" => L[e] # "none"}

Graphs ==
  UNION {{[edges |-> E, kind |-> K, label |-> L] : L \in Labellings(E, K)} :
           E \in Shapes, K \in Typings}

Edge(a, b) == <<a, b>> \in graph.edges
Parents(n) == {p \in Nodes : Edge(p, n)}
Children(n) == {c \in Nodes : Edge(n, c)}
Kind(n) == graph.kind[n]

\* Nodes with no edge at all.  The test that should spare triggers compares
\* str(NodeType.X), which is "NodeType.X", with the values of the enum: it
\* spares no node.
Orphans == {n \in Nodes : Parents(n) = {} /\ Children(n) = {}}
Roots == {n \in Nodes : Parents(n) = {}} \ Orphans

NoResults == [n \in Nodes |-> "none"]

-----------------------------------------------------------------------------
(***************************************************************************)
(* The start of _execute_inner: orphans are marked as skipped, the queue   *)
(* holds the roots.  Without a root the run fails.                         *)
(***************************************************************************)

Begin ==
  /\ mode = "start"
  /\ mode' = "execute"
  /\ results' = [n \in Nodes |-> IF n \in Orphans THEN "skipped" ELSE "none"]
  /\ queue' = Roots
  /\ status' = IF Roots = {} THEN "failed" ELSE "running"
  /\ UNCHANGED <<graph, batch, executed, softFailed, branch, saved, restarts,
                 ran>>

-----------------------------------------------------------------------------
(***************************************************************************)
(* One round.                                                              *)
(***************************************************************************)

Walking == mode # "start" /\ status = "running"

\* Mutant: one executed parent is enough.
ReadyAnyParent ==
  {n \in queue \ executed :
     Parents(n) = {} \/ Parents(n) \cap executed # {}}

\* A candidate is due when all its dependencies are executed.
Ready == {n \in queue \ executed : Parents(n) \subseteq executed}

\* Collect the batch; the others stay for the next round.
Collect ==
  /\ Walking /\ batch = {}
  /\ Ready # {}
  /\ batch' = Ready
  /\ queue' = (queue \ executed) \ Ready
  /\ UNCHANGED <<graph, mode, status, executed, softFailed, results, branch,
                 saved, restarts, ran>>

\* A condition or a switch that completed has taken another branch.  An edge
\* without a branch, or a switch without a matching route, gates nothing.
NotTaken(p, n) ==
  /\ Kind(p) \in {"cond", "switch"} /\ results[p] = "completed"
  /\ branch[p] # "none"
  /\ graph.label[<<p, n>>] \notin {"none", branch[p]}

\* Mutant: one skipped parent is enough.
AnyParentSkipped(n) ==
  /\ mode = "execute"
  /\ \E p \in Parents(n) : p \in softFailed \/ results[p] = "skipped"

\* Skip propagation: only _execute_inner has it.
AllParentsSkipped(n) ==
  /\ mode = "execute" /\ Parents(n) # {}
  /\ \A p \in Parents(n) : p \in softFailed \/ results[p] = "skipped"

Skipped(n) ==
  \/ \E p \in Parents(n) : NotTaken(p, n)
  \/ AllParentsSkipped(n)

\* Mutant: only a node that completed hands on to its children.
SettleNoChildren(n, r) ==
  /\ results' = [results EXCEPT ![n] = r]
  /\ executed' = executed \cup {n}
  /\ batch' = batch \ {n}
  /\ queue' = IF r = "completed" THEN queue \cup (Children(n) \ executed)
                                 ELSE queue

\* n is settled: recorded, and its children become candidates.
Settle(n, r) ==
  /\ results' = [results EXCEPT ![n] = r]
  /\ executed' = executed \cup {n}
  /\ batch' = batch \ {n}
  /\ queue' = queue \cup (Children(n) \ executed)

SkipNode(n) ==
  /\ Walking /\ n \in batch /\ Skipped(n)
  /\ Settle(n, "skipped")
  /\ UNCHANGED <<graph, mode, status, softFailed, branch, saved, restarts, ran>>

\* The node is started.
Start(n) ==
  /\ Walking /\ n \in batch /\ ~Skipped(n)
  /\ ran' = [ran EXCEPT ![n] = @ + 1]

\* The document after _save_execution.
Save(p) == saved' = [results |-> results', branch |-> branch', paused |-> p]

\* The branch n may take; a switch may have no route for the value.
Taken(n) ==
  CASE Kind(n) = "cond"   -> {"true", "false"}
    [] Kind(n) = "switch" -> Branches
    [] OTHER              -> {"none"}

\* COMPLETED.  execute() then checkpoints, if the throttle allows it.
CompleteNode(n) ==
  /\ Start(n) /\ Kind(n) # "gate"
  /\ Settle(n, "completed")
  /\ \E b \in Taken(n) : branch' = [branch EXCEPT ![n] = b]
  /\ \/ UNCHANGED saved
     \/ mode = "execute" /\ Save(0)
  /\ UNCHANGED <<graph, mode, status, softFailed, restarts>>

\* A human_approval node completes: the walk is saved and left at once, with
\* what is still in the batch and in the queue.
PauseNode(n) ==
  /\ Start(n) /\ Kind(n) = "gate"
  /\ results' = [results EXCEPT ![n] = "completed"]
  /\ status' = "paused"
  /\ UNCHANGED branch
  /\ Save(n)
  /\ UNCHANGED <<graph, mode, walk, restarts>>

\* Mutant: continue_on_error is ignored.
ToleratedNever(n) == mode = "start" /\ Kind(n) = "soft"

\* continue_on_error: only _execute_inner has it.
Tolerated(n) == mode = "execute" /\ Kind(n) = "soft"

SoftFailNode(n) ==
  /\ Start(n) /\ Tolerated(n)
  /\ Settle(n, "failed")
  /\ softFailed' = softFailed \cup {n}
  /\ UNCHANGED <<graph, mode, status, branch, saved, restarts>>

\* Any other failure stops the run.
FailNode(n) ==
  /\ Start(n) /\ ~Tolerated(n)
  /\ results' = [results EXCEPT ![n] = "failed"]
  /\ status' = "failed"
  /\ UNCHANGED branch
  /\ Save(0)
  /\ UNCHANGED <<graph, mode, walk, restarts>>

\* The queue is empty, or nothing in it is due ("unresolvable deps", logged):
\* either way the run is COMPLETED.
Finish ==
  /\ Walking /\ batch = {}
  /\ Ready = {}
  /\ status' = "completed"
  /\ UNCHANGED <<results, branch>>
  /\ Save(0)
  /\ UNCHANGED <<graph, mode, walk, restarts, ran>>

-----------------------------------------------------------------------------
(***************************************************************************)
(* resume().                                                               *)
(***************************************************************************)

\* Mutant: what completed is not restored.
RestoredSkippedOnly == {n \in Nodes : saved.results[n] = "skipped"}

\* What counts as executed in a loaded document.
Restored == {n \in Nodes : saved.results[n] \in {"completed", "skipped"}}

\* After an approval: the children of the paused node.  After a crash: every
\* node that is not restored.
Seeds ==
  IF saved.paused # 0 THEN Children(saved.paused) \ Restored
                      ELSE Nodes \ Restored

\* Mutant: the set of soft failures outlives the walk.
ResumeKeepsSoft ==
  /\ restarts < MaxRestarts /\ restarts' = restarts + 1
  /\ mode' = "resume" /\ status' = "running"
  /\ results' = saved.results /\ branch' = saved.branch
  /\ executed' = Restored /\ softFailed' = softFailed
  /\ batch' = {} /\ queue' = Seeds
  /\ UNCHANGED <<graph, saved, ran>>

\* The walk starts again from the document.
Resume ==
  /\ restarts < MaxRestarts /\ restarts' = restarts + 1
  /\ mode' = "resume" /\ status' = "running"
  /\ results' = saved.results /\ branch' = saved.branch
  /\ executed' = Restored /\ softFailed' = {}
  /\ batch' = {} /\ queue' = Seeds
  /\ UNCHANGED <<graph, saved, ran>>

\* Someone approves the paused run.
Approve == status = "paused" /\ Resume

\* The worker dies; the stuck sweep has the run resumed from the document.
CrashResume == status = "running" /\ Resume

-----------------------------------------------------------------------------
Init ==
  /\ graph \in Graphs
  /\ mode = "start" /\ status = "running"
  /\ queue = {} /\ batch = {} /\ executed = {} /\ softFailed = {}
  /\ results = NoResults
  /\ branch = [n \in Nodes |-> "none"]
  /\ saved = [results |-> NoResults, branch |-> branch, paused |-> 0]
  /\ restarts = 0
  /\ ran = [n \in Nodes |-> 0]

NodeStep(n) ==
  SkipNode(n) \/ CompleteNode(n) \/ PauseNode(n) \/ SoftFailNode(n)
    \/ FailNode(n)

Next ==
  \/ Begin \/ Collect \/ Finish
  \/ \E n \in Nodes : NodeStep(n)
  \/ Approve \/ CrashResume

Spec == Init /\ [][Next]_vars

-----------------------------------------------------------------------------
(***************************************************************************)
(* Properties.                                                             *)
(***************************************************************************)

TypeOK ==
  /\ mode \in {"start", "execute", "resume"}
  /\ status \in {"running", "paused", "failed", "completed"}
  /\ queue \subseteq Nodes /\ batch \subseteq Nodes
  /\ executed \subseteq Nodes /\ softFailed \subseteq executed
  /\ results \in [Nodes -> Results]
  /\ branch \in [Nodes -> Branches]
  /\ saved \in [results : [Nodes -> Results], branch : [Nodes -> Branches],
                paused : Nodes \cup {0}]
  /\ restarts \in 0..MaxRestarts
  /\ ran \in [Nodes -> Nat]

Starts(n) == ran'[n] # ran[n]

\* The batch only takes nodes "whose dependencies are all met": whatever the
\* graph, a node starts only when each of its parents has a result, in the
\* first walk and in a resumed one.
ParentsFirst ==
  [][\A n \in Nodes : Starts(n) =>
       \A p \in Parents(n) : results[p] # "none"]_vars

\* resume(): "Already-completed nodes (and their committed, idempotent side
\* effects) are not re-run".
RecordedNotRerun ==
  [][\A n \in Nodes : Starts(n) =>
       saved.results[n] \notin {"completed", "skipped"}]_vars

\* A run that is COMPLETED has settled every node of the graph: the walk, also
\* one that continues after an approval, leaves no frontier behind.
NothingLeftBehind ==
  status = "completed" => \A n \in Nodes : results[n] # "none"

\* What does hold of it: without a gate in the graph no order of the walk, no
\* dead branch and no crash with its resume loses a node.
CompletedSettlesAll ==
  (\A n \in Nodes : Kind(n) # "gate") => NothingLeftBehind

\* What the order of the walk may not change: in a run that completes in one
\* walk exactly those nodes are skipped that a taken branch leaves out, or
\* that follow only skipped and failed nodes.
DeadEnd(n) ==
  \/ \E p \in Parents(n) : NotTaken(p, n)
  \/ /\ Parents(n) # {}
     /\ \A p \in Parents(n) : results[p] \in {"skipped", "failed"}

SkippedExactly ==
  status = "completed" /\ restarts = 0 =>
    \A n \in Nodes : results[n] = "skipped" <=> DeadEnd(n)

\* Strict fail-fast, with the one exception of continue_on_error: a first walk
\* that had a root fails only because of a node that does not have it.
FailureHasCulprit ==
  status = "failed" /\ Roots # {} /\ restarts = 0 =>
    \E n \in Nodes : results[n] = "failed" /\ Kind(n) # "soft"

\* "A node with no edges at all ... and that is not a trigger type is
\* considered orphaned": a trigger is never set aside.
TriggersAreNotOrphans ==
  status = "failed" => \A n \in Nodes : ~(Kind(n) = "trigger" /\ results[n] = "skipped")
====
