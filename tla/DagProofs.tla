----------------------------- MODULE DagProofs -----------------------------
(***************************************************************************)
(* Proofs about DagExecutor, for every workflow graph that _validate_dag   *)
(* lets through, of any size, and any number of resumptions: types, the    *)
(* order of the walk, that a resumed walk repeats nothing the document has *)
(* recorded, and what a walk that ended has settled, skipped and blamed.   *)
(***************************************************************************)
EXTENDS DagExecutor, WellFoundedInduction, TLAPS

\* The two results that resume() restores.
Settled == {"completed", "skipped"}

\* The set executed is, while a walk goes on, the in-memory image of the
\* results: it holds every settled node, of memory and of the document, and
\* only nodes with a result.
ExecutedExact ==
  Walking =>
    /\ \A n \in Nodes : results[n] \in Settled => n \in executed
    /\ \A n \in Nodes : saved.results[n] \in Settled => n \in executed
    /\ \A n \in executed : results[n] # "none"

\* The batch holds nodes that are due.
BatchDue ==
  Walking => \A n \in batch : n \notin executed /\ Parents(n) \subseteq executed

\* Before the first round nothing has been recorded.
StartsEmpty ==
  mode = "start" =>
    batch = {} /\ executed = {} /\ saved.results = NoResults

Inv ==
  /\ TypeOK
  /\ graph.edges \in Shapes
  /\ ExecutedExact /\ BatchDue /\ StartsEmpty

-----------------------------------------------------------------------------

\* A graph with a root has no orphan: _validate_dag admits isolated nodes only
\* where there is no edge, and then every node is one.
LEMMA NoOrphansBesideRoots ==
  ASSUME graph.edges \in Shapes, Roots # {}
  PROVE  Orphans = {}
<1>1. PICK r \in Nodes : Parents(r) = {} /\ r \notin Orphans
  BY DEF Roots
<1>2. PICK c \in Nodes : Edge(r, c)
  BY <1>1 DEF Orphans, Children
<1>3. graph.edges # {}
  BY <1>2 DEF Edge
<1>4. ASSUME NEW n \in Nodes PROVE n \notin Orphans
  <2>1. PICK e \in graph.edges : n \in {e[1], e[2]}
    BY <1>3 DEF Shapes
  <2>2. e \in Nodes \X Nodes
    BY <2>1 DEF Shapes
  <2>3. e = <<e[1], e[2]>> /\ e[1] \in Nodes /\ e[2] \in Nodes
    BY <2>2
  <2>4. Edge(e[1], e[2])
    BY <2>1, <2>3 DEF Edge
  <2> QED
    BY <2>1, <2>3, <2>4 DEF Orphans, Parents, Children
<1> QED
  BY <1>4 DEF Orphans

\* The branch a node takes is a branch.
LEMMA TakenType == \A n : Taken(n) \subseteq Branches
BY DEF Taken, Branches

LEMMA SettleType ==
  ASSUME TypeOK, NEW n \in batch, NEW r \in Results, Settle(n, r)
  PROVE  /\ queue' \subseteq Nodes /\ batch' \subseteq Nodes
         /\ executed' \subseteq Nodes
         /\ results' \in [Nodes -> Results]
BY DEF TypeOK, Settle, Children

LEMMA SaveType ==
  ASSUME NEW p \in Nodes \cup {0}, Save(p),
         results' \in [Nodes -> Results], branch' \in [Nodes -> Branches]
  PROVE  saved' \in [results : [Nodes -> Results],
                     branch : [Nodes -> Branches], paused : Nodes \cup {0}]
BY DEF Save

\* Initially.
LEMMA InitInv == ASSUME Init PROVE Inv
<1>1. TypeOK
  BY ConstantsAssumption
     DEF Init, TypeOK, NoResults, Results, Branches
<1>2. graph.edges \in Shapes
  BY DEF Init, Graphs
<1> QED
  BY <1>1, <1>2
     DEF Init, Inv, ExecutedExact, BatchDue, StartsEmpty, Walking

-----------------------------------------------------------------------------
(***************************************************************************)
(* The inductive step, one lemma per group of actions.                     *)
(***************************************************************************)

LEMMA BeginInv == ASSUME Inv, Begin PROVE Inv'
<1> USE DEF Inv
<1>1. TypeOK'
  BY DEF TypeOK, Begin, Roots, Results
<1>2. (graph.edges \in Shapes)' /\ StartsEmpty'
  BY DEF Begin, StartsEmpty, Shapes, Nodes
<1>3. ASSUME Walking' PROVE Roots # {}
  BY <1>3 DEF Walking, Begin
<1>4. ExecutedExact'
  <2> SUFFICES ASSUME Walking'
               PROVE  /\ \A n \in Nodes : results'[n] = "none"
                      /\ executed' = {} /\ saved'.results = NoResults
    BY DEF ExecutedExact, Settled, NoResults
  <2>1. Orphans = {}
    BY <1>3, NoOrphansBesideRoots
  <2> QED
    BY <2>1 DEF Begin, StartsEmpty
<1>5. BatchDue'
  BY DEF Begin, StartsEmpty, BatchDue
<1> QED
  BY <1>1, <1>2, <1>4, <1>5

LEMMA CollectInv == ASSUME Inv, Collect PROVE Inv'
<1> USE DEF Inv
<1>1. TypeOK'
  BY DEF TypeOK, Collect, Ready
<1>2. (graph.edges \in Shapes)' /\ StartsEmpty'
  BY DEF Collect, StartsEmpty, Walking, Shapes, Nodes
<1>3. ExecutedExact'
  BY DEF Collect, ExecutedExact, Walking
<1>4. BatchDue'
  BY DEF Collect, BatchDue, Ready, Parents, Edge
<1> QED
  BY <1>1, <1>2, <1>3, <1>4

\* A settled node keeps the picture exact and the rest of the batch due.
LEMMA SettleInv ==
  ASSUME Inv, Walking, NEW n \in batch, NEW r \in Results \ {"none"},
         Settle(n, r), UNCHANGED graph,
         \/ saved' = saved
         \/ saved'.results = results'
  PROVE  ExecutedExact' /\ BatchDue'
<1> USE DEF Inv
<1>1. n \in Nodes /\ results' = [results EXCEPT ![n] = r]
      /\ executed' = executed \cup {n} /\ batch' = batch \ {n}
  BY DEF TypeOK, Settle
<1>2. /\ \A m \in Nodes : results[m] \in Settled => m \in executed
      /\ \A m \in Nodes : saved.results[m] \in Settled => m \in executed
      /\ \A m \in executed : results[m] # "none"
      /\ \A m \in batch : m \notin executed /\ Parents(m) \subseteq executed
  BY DEF ExecutedExact, BatchDue
<1>3. \A m \in Nodes : results'[m] = IF m = n THEN r ELSE results[m]
  BY <1>1 DEF TypeOK
<1>4. \A m \in Nodes : results'[m] \in Settled => m \in executed'
  BY <1>1, <1>2, <1>3
<1>5. \A m \in Nodes : saved'.results[m] \in Settled => m \in executed'
  BY <1>1, <1>2, <1>4
<1>6. \A m \in executed' : results'[m] # "none"
  BY <1>1, <1>2, <1>3 DEF TypeOK
<1>7. ExecutedExact'
  BY <1>4, <1>5, <1>6 DEF ExecutedExact, Nodes, Settled
<1>8. BatchDue'
  BY <1>1, <1>2 DEF BatchDue, Parents, Edge
<1> QED
  BY <1>7, <1>8

LEMMA SkipNodeInv ==
  ASSUME Inv, NEW n \in Nodes, SkipNode(n)
  PROVE  Inv'
<1> USE DEF Inv
<1>1. Walking /\ n \in batch /\ Settle(n, "skipped")
  BY DEF SkipNode
<1>2. "skipped" \in Results \ {"none"}
  BY DEF Results
<1>3. TypeOK'
  BY <1>1, <1>2, SettleType DEF TypeOK, SkipNode, Settle
<1>4. ExecutedExact' /\ BatchDue'
  BY <1>1, <1>2, SettleInv DEF SkipNode
<1> QED
  BY <1>1, <1>3, <1>4 DEF SkipNode, StartsEmpty, Walking, Shapes, Nodes

LEMMA CompleteNodeInv ==
  ASSUME Inv, NEW n \in Nodes, CompleteNode(n)
  PROVE  Inv'
<1> USE DEF Inv
<1>1. Walking /\ n \in batch /\ Settle(n, "completed")
  BY DEF CompleteNode, Start
<1>2. "completed" \in Results \ {"none"}
  BY DEF Results
<1>3. branch' \in [Nodes -> Branches]
  <2>1. PICK b \in Taken(n) : branch' = [branch EXCEPT ![n] = b]
    BY DEF CompleteNode
  <2>2. b \in Branches
    BY <2>1, TakenType
  <2> QED
    BY <2>1, <2>2 DEF TypeOK
<1>4. results' \in [Nodes -> Results]
  BY <1>1, <1>2, SettleType
<1>5. saved' = saved \/ Save(0)
  BY DEF CompleteNode
<1>6. saved' \in [results : [Nodes -> Results],
                  branch : [Nodes -> Branches], paused : Nodes \cup {0}]
  BY <1>3, <1>4, <1>5, SaveType DEF TypeOK
<1>7. ran' \in [Nodes -> Nat]
  BY DEF CompleteNode, Start, TypeOK
<1>8. TypeOK'
  BY <1>1, <1>2, <1>3, <1>6, <1>7, SettleType DEF TypeOK, CompleteNode, Settle
<1>9. ExecutedExact' /\ BatchDue'
  <2>1. saved' = saved \/ saved'.results = results'
    BY <1>5 DEF Save
  <2> QED
    BY <1>1, <1>2, <2>1, SettleInv DEF CompleteNode
<1> QED
  BY <1>1, <1>8, <1>9 DEF CompleteNode, StartsEmpty, Walking, Shapes, Nodes

LEMMA SoftFailNodeInv ==
  ASSUME Inv, NEW n \in Nodes, SoftFailNode(n)
  PROVE  Inv'
<1> USE DEF Inv
<1>1. Walking /\ n \in batch /\ Settle(n, "failed")
  BY DEF SoftFailNode, Start
<1>2. "failed" \in Results \ {"none"}
  BY DEF Results
<1>3. ran' \in [Nodes -> Nat]
  BY DEF SoftFailNode, Start, TypeOK
<1>4. TypeOK'
  BY <1>1, <1>2, <1>3, SettleType DEF TypeOK, SoftFailNode, Settle
<1>5. ExecutedExact' /\ BatchDue'
  BY <1>1, <1>2, SettleInv DEF SoftFailNode
<1> QED
  BY <1>1, <1>4, <1>5 DEF SoftFailNode, StartsEmpty, Walking, Shapes, Nodes

\* The three ways to leave the walk.
LEMMA LeaveInv ==
  ASSUME Inv, (\E n \in Nodes : PauseNode(n) \/ FailNode(n)) \/ Finish
  PROVE  Inv'
<1> USE DEF Inv
<1>1. Walking /\ ~Walking' /\ UNCHANGED <<graph, mode, walk, restarts>>
  BY DEF PauseNode, FailNode, Finish, Start, Walking
<1>2. status' \in {"paused", "failed", "completed"}
  BY DEF PauseNode, FailNode, Finish
<1>3. /\ results' \in [Nodes -> Results] /\ branch' \in [Nodes -> Branches]
      /\ ran' \in [Nodes -> Nat]
  <2>1. ASSUME NEW n \in Nodes, PauseNode(n)
        PROVE  /\ results' \in [Nodes -> Results] /\ UNCHANGED branch
               /\ ran' \in [Nodes -> Nat]
    BY <2>1 DEF PauseNode, Start, TypeOK, Results
  <2>2. ASSUME NEW n \in Nodes, FailNode(n)
        PROVE  /\ results' \in [Nodes -> Results] /\ UNCHANGED branch
               /\ ran' \in [Nodes -> Nat]
    BY <2>2 DEF FailNode, Start, TypeOK, Results
  <2>3. CASE Finish
    BY <2>3 DEF Finish, TypeOK
  <2> QED
    BY <2>1, <2>2, <2>3 DEF TypeOK
<1>4. saved' \in [results : [Nodes -> Results],
                  branch : [Nodes -> Branches], paused : Nodes \cup {0}]
  <2>1. \E p \in Nodes \cup {0} : Save(p)
    BY DEF PauseNode, FailNode, Finish
  <2> QED
    BY <1>3, <2>1, SaveType
<1>5. TypeOK'
  BY <1>1, <1>2, <1>3, <1>4 DEF TypeOK, walk
<1>6. ExecutedExact' /\ BatchDue'
  BY <1>1 DEF ExecutedExact, BatchDue
<1>7. (graph.edges \in Shapes)' /\ StartsEmpty'
  BY <1>1 DEF StartsEmpty, Walking, Shapes, Nodes
<1> QED
  BY <1>5, <1>6, <1>7

LEMMA ResumeInv == ASSUME Inv, Resume PROVE Inv'
<1> USE DEF Inv
<1>1. TypeOK'
  BY ConstantsAssumption DEF TypeOK, Resume, Seeds, Restored, Children
<1>2. (graph.edges \in Shapes)' /\ StartsEmpty'
  BY DEF Resume, StartsEmpty, Shapes, Nodes
<1>3. ExecutedExact'
  BY DEF Resume, Restored, ExecutedExact, Settled, Nodes
<1>4. BatchDue'
  BY DEF Resume, BatchDue
<1> QED
  BY <1>1, <1>2, <1>3, <1>4

LEMMA StutterInv == ASSUME Inv, UNCHANGED vars PROVE Inv'
BY DEF Inv, vars, walk, TypeOK, Nodes, Results, Branches, Shapes,
       ExecutedExact, BatchDue, StartsEmpty, Walking, Settled, NoResults,
       Parents, Edge

LEMMA NextInv == ASSUME Inv, [Next]_vars PROVE Inv'
BY BeginInv, CollectInv, SkipNodeInv, CompleteNodeInv, SoftFailNodeInv,
   LeaveInv, ResumeInv, StutterInv DEF Next, NodeStep, Approve, CrashResume

LEMMA AlwaysInv == Spec => []Inv
<1>1. Init => Inv
  BY InitInv
<1>2. Inv /\ [Next]_vars => Inv'
  BY NextInv
<1> QED
  BY <1>1, <1>2, PTL DEF Spec

\* The state of both walks (the sets executed and soft_failed, the batch, the
\* results and the saved document) is well typed; in particular a soft-failed
\* node is always an executed one.
THEOREM TypeCorrect == Spec => []TypeOK
<1>1. Inv => TypeOK
  BY DEF Inv
<1> QED
  BY <1>1, AlwaysInv, PTL

-----------------------------------------------------------------------------

\* Only a node of the batch is started, by the walk.
LEMMA OnlyBatchStarts ==
  ASSUME Inv, Next, NEW n \in Nodes, Starts(n)
  PROVE  Walking /\ n \in batch
<1>1. ASSUME NEW m \in Nodes, Start(m) PROVE Walking /\ n \in batch
  BY <1>1 DEF Start, Starts, Inv, TypeOK
<1>2. ASSUME NEW m \in Nodes, SkipNode(m) PROVE FALSE
  BY <1>2 DEF SkipNode, Starts
<1>3. ~(Begin \/ Collect \/ Finish \/ Approve \/ CrashResume)
  BY DEF Begin, Collect, Finish, Approve, CrashResume, Resume, Starts
<1> QED
  BY <1>1, <1>2, <1>3
     DEF Next, NodeStep, CompleteNode, PauseNode, SoftFailNode, FailNode

\* In every graph, first walk or resumed: a node starts only when each of its
\* parents has a result.
THEOREM ParentsFirstTheorem == Spec => ParentsFirst
<1>1. ASSUME Inv, [Next]_vars
      PROVE  [\A n \in Nodes : Starts(n) =>
                \A p \in Parents(n) : results[p] # "none"]_vars
  <2>1. ASSUME Next, NEW n \in Nodes, Starts(n), NEW p \in Parents(n)
        PROVE  results[p] # "none"
    BY <1>1, <2>1, OnlyBatchStarts DEF Inv, BatchDue, ExecutedExact
  <2> QED
    BY <1>1, <2>1
<1> QED
  BY <1>1, AlwaysInv, PTL DEF Spec, ParentsFirst

\* In every graph and after any number of approvals and crashes: a node whose
\* completion or skip is in the document is not started again.
THEOREM RecordedNotRerunTheorem == Spec => RecordedNotRerun
<1>1. ASSUME Inv, [Next]_vars
      PROVE  [\A n \in Nodes : Starts(n) =>
                saved.results[n] \notin {"completed", "skipped"}]_vars
  <2>1. ASSUME Next, NEW n \in Nodes, Starts(n)
        PROVE  saved.results[n] \notin {"completed", "skipped"}
    BY <1>1, <2>1, OnlyBatchStarts DEF Inv, BatchDue, ExecutedExact, Settled
  <2> QED
    BY <1>1, <2>1
<1> QED
  BY <1>1, AlwaysInv, PTL DEF Spec, RecordedNotRerun
-----------------------------------------------------------------------------
(***************************************************************************)
(* How a walk ends.  The proofs need what the queue promises (Frontier),   *)
(* what has been decided about the executed nodes (Verdicts), and that the *)
(* terminal states keep what they promise, which is why the three          *)
(* properties are part of the invariant.                                   *)
(***************************************************************************)

NoGates == \A n \in Nodes : Kind(n) # "gate"

\* Nothing ends before it has begun; the first walk is over once the run has
\* been resumed; a run without gates is never saved as paused.
Chronicle ==
  /\ mode = "start" => status = "running"
  /\ restarts = 0 => mode # "resume"
  /\ NoGates => saved.paused = 0

\* The walk has lost nobody: a node that is not executed, and that has no
\* parent or an executed one, is a candidate.  A walk that continues after an
\* approval does not promise this.
Frontier ==
  Walking /\ (mode = "execute" \/ NoGates) =>
    \A n \in Nodes \ executed :
      Parents(n) = {} \/ Parents(n) \cap executed # {} => n \in queue \cup batch

\* In the first walk the executed nodes are closed under parents, soft_failed
\* is exactly what failed so far, and who was skipped had to be.
Verdicts ==
  Walking /\ mode = "execute" =>
    /\ \A n \in executed : Parents(n) \subseteq executed
    /\ \A n \in executed : n \in softFailed <=> results[n] = "failed"
    /\ \A n \in executed : results[n] = "skipped" <=> DeadEnd(n)

Outcomes == CompletedSettlesAll /\ SkippedExactly /\ FailureHasCulprit

Whole == Chronicle /\ Frontier /\ Verdicts /\ Outcomes
-----------------------------------------------------------------------------

\* The graph stays, and with it what is read off it.
LEMMA GraphStays ==
  ASSUME UNCHANGED graph
  PROVE  /\ \A n : Parents(n)' = Parents(n) /\ Children(n)' = Children(n)
         /\ \A n : Kind(n)' = Kind(n)
         /\ Roots' = Roots /\ NoGates' = NoGates
BY DEF Parents, Children, Kind, Edge, Roots, Orphans, NoGates, Nodes

\* The result of a parent and the branch it took decide about a node.
LEMMA DeadEndDependsOnParents ==
  ASSUME UNCHANGED graph, NEW n \in Nodes,
         \A p \in Parents(n) : results'[p] = results[p] /\ branch'[p] = branch[p]
  PROVE  DeadEnd(n)' = DeadEnd(n)
<1>1. Parents(n)' = Parents(n) /\ \A p \in Parents(n) : Kind(p)' = Kind(p)
  BY GraphStays
<1>2. \A p \in Parents(n) : NotTaken(p, n)' = NotTaken(p, n)
  BY <1>1 DEF NotTaken
<1> QED
  BY <1>1, <1>2 DEF DeadEnd

\* Among some nodes there is a first one.
LEMMA FirstNode ==
  ASSUME NEW B \in SUBSET Nodes, B # {}
  PROVE  \E b \in B : \A c \in B : b <= c
<1> DEFINE R == OpToRel(<, Nat)
<1>1. IsWellFoundedOn(R, Nat)
  BY NatLessThanWellFounded
<1>2. R = {ss \in Nat \X Nat : ss[1] < ss[2]}
  BY DEF OpToRel
<1>3. B \in SUBSET Nat
  BY ConstantsAssumption DEF Nodes
<1> HIDE DEF R
<1>4. PICK b \in B : \A c \in B : ~ (<<c, b>> \in R)
  BY <1>1, <1>3, WFMin
<1>5. \A c \in B : ~ (c < b)
  BY <1>2, <1>3, <1>4
<1> QED
  BY <1>3, <1>5

\* Edges lead upwards.
LEMMA ParentsBefore ==
  ASSUME graph.edges \in Shapes, NEW n \in Nodes, NEW p \in Parents(n)
  PROVE  p \in Nodes /\ p < n
<1>1. <<p, n>> \in graph.edges /\ p \in Nodes
  BY DEF Parents, Edge
<1>2. graph.edges \subseteq {e \in Nodes \X Nodes : e[1] < e[2]}
  BY DEF Shapes
<1> QED
  BY <1>1, <1>2

\* When a walk that kept its frontier has nothing due, every node is executed:
\* the first of the others would be due.
LEMMA NobodyLeft ==
  ASSUME Inv, Frontier, Walking, mode = "execute" \/ NoGates,
         batch = {}, Ready = {}
  PROVE  \A n \in Nodes : n \in executed /\ results[n] # "none"
<1>1. Nodes \ executed = {}
  <2> SUFFICES ASSUME Nodes \ executed # {} PROVE FALSE
    OBVIOUS
  <2>1. PICK b \in Nodes \ executed : \A c \in Nodes \ executed : b <= c
    BY FirstNode
  <2>2. Parents(b) \subseteq executed
    <3> SUFFICES ASSUME NEW p \in Parents(b), p \notin executed PROVE FALSE
      OBVIOUS
    <3>1. p \in Nodes /\ p < b
      BY ParentsBefore DEF Inv
    <3>2. b \in Int /\ p \in Int
      BY <3>1 DEF Nodes
    <3> QED
      BY <2>1, <3>1, <3>2
  <2>3. b \in queue
    BY <2>2 DEF Frontier
  <2> QED
    BY <2>2, <2>3 DEF Ready
<1> QED
  BY <1>1 DEF Inv, ExecutedExact

LEMMA InitWhole == ASSUME Init PROVE Whole
BY DEF Init, Whole, Chronicle, Frontier, Verdicts, Outcomes, Walking,
       CompletedSettlesAll, NothingLeftBehind, SkippedExactly, FailureHasCulprit

\* Outcomes speak of runs that have ended; so does nothing else.
LEMMA RunningOutcomes ==
  ASSUME status' \in {"running", "paused"}
  PROVE  Outcomes'
BY DEF Outcomes, CompletedSettlesAll, NothingLeftBehind, SkippedExactly,
       FailureHasCulprit

LEMMA BeginWhole == ASSUME Inv, Whole, Begin PROVE Whole'
<1> USE GraphStays DEF Whole
<1>1. UNCHANGED graph
  BY DEF Begin
<1>2. Chronicle'
  BY <1>1 DEF Begin, Chronicle
<1>3. executed' = {} /\ batch' = {}
  BY DEF Begin, Inv, StartsEmpty
<1>4. Frontier'
  <2> SUFFICES ASSUME Walking', NEW n \in Nodes, Parents(n) = {}
               PROVE  n \in queue'
    BY <1>1, <1>3 DEF Frontier, Nodes
  <2>1. Roots # {}
    BY DEF Walking, Begin
  <2>2. Orphans = {}
    BY <2>1, NoOrphansBesideRoots DEF Inv
  <2> QED
    BY <2>2 DEF Begin, Roots
<1>5. Verdicts'
  BY <1>3 DEF Verdicts
<1>6. Outcomes'
  <2>1. CASE Roots = {}
    BY <1>1, <2>1 DEF Begin, Outcomes, CompletedSettlesAll,
                      NothingLeftBehind, SkippedExactly, FailureHasCulprit
  <2>2. CASE Roots # {}
    BY <2>2, RunningOutcomes DEF Begin
  <2> QED
    BY <2>1, <2>2
<1> QED
  BY <1>2, <1>4, <1>5, <1>6

LEMMA CollectWhole == ASSUME Inv, Whole, Collect PROVE Whole'
<1> USE GraphStays DEF Whole
<1>1. UNCHANGED <<graph, mode, status, executed, softFailed, results, branch,
                  saved, restarts>>
  BY DEF Collect
<1>2. Chronicle'
  BY <1>1 DEF Chronicle
<1>3. Frontier'
  BY <1>1 DEF Collect, Frontier, Walking, Ready, Nodes
<1>4. Verdicts'
  <2> SUFFICES ASSUME Walking', mode' = "execute", NEW n \in executed
               PROVE  /\ Parents(n) \subseteq executed
                      /\ n \in softFailed <=> results[n] = "failed"
                      /\ results[n] = "skipped" <=> DeadEnd(n)'
    BY <1>1 DEF Verdicts
  <2>1. DeadEnd(n)' = DeadEnd(n)
    BY <1>1, DeadEndDependsOnParents DEF Inv, TypeOK
  <2> QED
    BY <1>1, <2>1 DEF Verdicts, Walking
<1>5. Outcomes'
  BY RunningOutcomes DEF Collect, Walking
<1> QED
  BY <1>2, <1>3, <1>4, <1>5
\* To settle a node keeps the frontier, and decides about this node alone: its
\* parents are executed, and it is nobody's parent among the executed.
LEMMA SettleWhole ==
  ASSUME Inv, Whole, Walking, NEW n \in batch, NEW r \in Results \ {"none"},
         Settle(n, r), UNCHANGED <<graph, mode, status, restarts>>,
         saved' = saved \/ saved'.paused = 0,
         \A m \in Nodes \ {n} : branch'[m] = branch[m],
         softFailed' = IF r = "failed" THEN softFailed \cup {n} ELSE softFailed,
         r = "skipped" <=> Skipped(n)
  PROVE  Whole'
<1> USE GraphStays DEF Whole
<1>1. /\ n \in Nodes /\ n \notin executed /\ Parents(n) \subseteq executed
      /\ executed \subseteq Nodes /\ softFailed \subseteq executed
      /\ results \in [Nodes -> Results]
  BY DEF Inv, TypeOK, BatchDue
<1>2. /\ executed' = executed \cup {n} /\ batch' = batch \ {n}
      /\ queue' = queue \cup (Children(n) \ executed)
      /\ results'[n] = r /\ \A m \in Nodes \ {n} : results'[m] = results[m]
  BY <1>1 DEF Settle
<1>3. Chronicle'
  BY DEF Chronicle
<1>4. Frontier'
  <2> SUFFICES ASSUME mode = "execute" \/ NoGates, NEW m \in Nodes \ executed',
                      Parents(m) = {} \/ Parents(m) \cap executed' # {}
               PROVE  m \in queue' \cup batch'
    BY DEF Frontier, Walking, Nodes
  <2>1. m \notin executed /\ m # n
    BY <1>2
  <2>2. CASE n \in Parents(m)
    BY <1>2, <2>1, <2>2 DEF Parents, Children
  <2>3. CASE n \notin Parents(m)
    BY <1>2, <2>1, <2>3 DEF Frontier
  <2> QED
    BY <2>2, <2>3
<1>5. Verdicts'
  <2> SUFFICES ASSUME mode = "execute"
               PROVE  \A m \in executed' :
                        /\ Parents(m) \subseteq executed'
                        /\ m \in softFailed' <=> results'[m] = "failed"
                        /\ results'[m] = "skipped" <=> DeadEnd(m)'
    BY DEF Verdicts
  <2>1. \A m \in executed' : Parents(m) \subseteq executed
    BY <1>1, <1>2 DEF Verdicts
  <2>2. \A m \in executed' : DeadEnd(m)' = DeadEnd(m)
    <3> SUFFICES ASSUME NEW m \in executed' PROVE DeadEnd(m)' = DeadEnd(m)
      OBVIOUS
    <3>1. m \in Nodes /\ \A p \in Parents(m) : p \in Nodes \ {n}
      BY <1>1, <1>2, <2>1
    <3> QED
      BY <1>2, <3>1, DeadEndDependsOnParents
  <2>3. Skipped(n) <=> DeadEnd(n)
    <3>1. \A p \in Parents(n) : p \in softFailed <=> results[p] = "failed"
      BY <1>1 DEF Verdicts
    <3> QED
      BY <3>1 DEF Skipped, AllParentsSkipped, DeadEnd
  <2>4. /\ n \in softFailed' <=> results'[n] = "failed"
        /\ results'[n] = "skipped" <=> DeadEnd(n)'
    BY <1>1, <1>2, <2>2, <2>3
  <2>5. ASSUME NEW m \in executed
        PROVE  /\ m \in softFailed' <=> results'[m] = "failed"
               /\ results'[m] = "skipped" <=> DeadEnd(m)'
    BY <1>1, <1>2, <2>2 DEF Verdicts
  <2> QED
    BY <1>2, <2>1, <2>4, <2>5
<1>6. Outcomes'
  BY RunningOutcomes DEF Walking
<1> QED
  BY <1>3, <1>4, <1>5, <1>6

LEMMA SkipNodeWhole ==
  ASSUME Inv, Whole, NEW n \in Nodes, SkipNode(n)
  PROVE  Whole'
<1>1. "skipped" \in Results \ {"none"}
  BY DEF Results
<1> QED
  BY <1>1, SettleWhole DEF SkipNode

LEMMA CompleteNodeWhole ==
  ASSUME Inv, Whole, NEW n \in Nodes, CompleteNode(n)
  PROVE  Whole'
<1>1. "completed" \in Results \ {"none"}
  BY DEF Results
<1>2. saved' = saved \/ saved'.paused = 0
  BY DEF CompleteNode, Save
<1>3. \A m \in Nodes \ {n} : branch'[m] = branch[m]
  BY DEF CompleteNode, Inv, TypeOK
<1> QED
  BY <1>1, <1>2, <1>3, SettleWhole DEF CompleteNode, Start

LEMMA SoftFailNodeWhole ==
  ASSUME Inv, Whole, NEW n \in Nodes, SoftFailNode(n)
  PROVE  Whole'
<1>1. "failed" \in Results \ {"none"}
  BY DEF Results
<1> QED
  BY <1>1, SettleWhole DEF SoftFailNode, Start

\* A walk that has been left promises nothing any more.
LEMMA LeftWhole ==
  ASSUME ~Walking', Chronicle', Outcomes'
  PROVE  Whole'
BY DEF Whole, Frontier, Verdicts

LEMMA PauseNodeWhole ==
  ASSUME Inv, Whole, NEW n \in Nodes, PauseNode(n)
  PROVE  Whole'
<1>1. Walking /\ status' = "paused" /\ UNCHANGED <<graph, mode, restarts>>
      /\ Kind(n) = "gate"
  BY DEF PauseNode, Start
<1>2. Chronicle'
  BY <1>1, GraphStays DEF Whole, Chronicle, Walking, NoGates
<1> QED
  BY <1>1, <1>2, LeftWhole, RunningOutcomes DEF Walking

LEMMA FailNodeWhole ==
  ASSUME Inv, Whole, NEW n \in Nodes, FailNode(n)
  PROVE  Whole'
<1>1. Walking /\ status' = "failed" /\ UNCHANGED <<graph, mode, restarts>>
      /\ saved'.paused = 0
  BY DEF FailNode, Start, Save
<1>2. Chronicle'
  BY <1>1, GraphStays DEF Whole, Chronicle, Walking
<1>3. Outcomes'
  <2> SUFFICES ASSUME restarts = 0
               PROVE  \E m \in Nodes : results'[m] = "failed" /\ Kind(m)' # "soft"
    BY <1>1 DEF Outcomes, CompletedSettlesAll, NothingLeftBehind,
                SkippedExactly, FailureHasCulprit, Nodes
  <2>1. mode = "execute"
    BY <1>1 DEF Whole, Chronicle, Walking, Inv, TypeOK
  <2>2. Kind(n) # "soft"
    BY <2>1 DEF FailNode, Tolerated
  <2>3. results'[n] = "failed"
    BY DEF FailNode, Inv, TypeOK
  <2> QED
    BY <1>1, <2>2, <2>3, GraphStays
<1> QED
  BY <1>1, <1>2, <1>3, LeftWhole DEF Walking

LEMMA FinishWhole == ASSUME Inv, Whole, Finish PROVE Whole'
<1>1. Walking /\ status' = "completed" /\ saved'.paused = 0
      /\ batch = {} /\ Ready = {}
      /\ UNCHANGED <<graph, mode, restarts, results, branch>>
  BY DEF Finish, Save
<1>2. Chronicle'
  BY <1>1, GraphStays DEF Whole, Chronicle, Walking
<1>3. ASSUME mode = "execute" \/ NoGates
      PROVE  \A n \in Nodes : n \in executed /\ results[n] # "none"
  BY <1>1, <1>3, NobodyLeft DEF Whole
<1>4. CompletedSettlesAll'
  BY <1>1, <1>3, GraphStays
     DEF CompletedSettlesAll, NothingLeftBehind, NoGates, Nodes
<1>5. SkippedExactly'
  <2> SUFFICES ASSUME restarts = 0, NEW n \in Nodes
               PROVE  results[n] = "skipped" <=> DeadEnd(n)'
    BY <1>1 DEF SkippedExactly, Nodes
  <2>1. mode = "execute"
    BY <1>1 DEF Whole, Chronicle, Walking, Inv, TypeOK
  <2>2. DeadEnd(n)' = DeadEnd(n)
    BY <1>1, DeadEndDependsOnParents
  <2> QED
    BY <1>1, <1>3, <2>1, <2>2 DEF Whole, Verdicts
<1>6. FailureHasCulprit'
  BY <1>1 DEF FailureHasCulprit
<1> QED
  BY <1>1, <1>2, <1>4, <1>5, <1>6, LeftWhole DEF Walking, Outcomes

\* After a crash every node that is not restored is a candidate again.
LEMMA ResumeWhole == ASSUME Inv, Whole, Resume PROVE Whole'
<1>1. /\ UNCHANGED <<graph, saved>> /\ mode' = "resume" /\ status' = "running"
      /\ restarts' = restarts + 1 /\ executed' = Restored /\ queue' = Seeds
  BY DEF Resume
<1>2. restarts \in Nat
  BY ConstantsAssumption DEF Inv, TypeOK
<1>3. Chronicle'
  BY <1>1, <1>2, GraphStays DEF Whole, Chronicle
<1>4. Frontier'
  BY <1>1, GraphStays DEF Whole, Chronicle, Frontier, Seeds, Nodes
<1>5. Verdicts'
  BY <1>1 DEF Verdicts
<1> QED
  BY <1>1, <1>3, <1>4, <1>5, RunningOutcomes DEF Whole

LEMMA StutterWhole == ASSUME Inv, Whole, UNCHANGED vars PROVE Whole'
<1>1. UNCHANGED <<graph, mode, status, queue, batch, executed, softFailed,
                  results, branch, saved, restarts>>
  BY DEF vars, walk
<1>2. \A n \in Nodes : DeadEnd(n)' = DeadEnd(n)
  BY <1>1, DeadEndDependsOnParents
<1>3. Chronicle' /\ Frontier'
  BY <1>1, GraphStays DEF Whole, Chronicle, Frontier, Walking, Nodes
<1>4. Verdicts'
  BY <1>1, <1>2, GraphStays DEF Whole, Verdicts, Walking, Inv, TypeOK
<1>5. Outcomes'
  BY <1>1, <1>2, GraphStays
     DEF Whole, Outcomes, CompletedSettlesAll, NothingLeftBehind,
         SkippedExactly, FailureHasCulprit, Nodes
<1> QED
  BY <1>3, <1>4, <1>5 DEF Whole

LEMMA NextWhole == ASSUME Inv, Whole, [Next]_vars PROVE Whole'
BY BeginWhole, CollectWhole, SkipNodeWhole, CompleteNodeWhole,
   SoftFailNodeWhole, PauseNodeWhole, FailNodeWhole, FinishWhole, ResumeWhole,
   StutterWhole DEF Next, NodeStep, Approve, CrashResume

LEMMA AlwaysWhole == Spec => []Whole
<1>1. Init => Whole
  BY InitWhole
<1>2. Inv /\ Whole /\ [Next]_vars => Whole'
  BY NextWhole
<1> QED
  BY <1>1, <1>2, AlwaysInv, PTL DEF Spec

\* In every graph without a human_approval node, whatever the order of the
\* walk, the branches taken and the crashes: a run that ends as COMPLETED has
\* a result for every node, though the loop also ends where nothing that is
\* left is due ("unresolvable deps").
THEOREM CompletedTheorem == Spec => []CompletedSettlesAll
<1>1. Whole => CompletedSettlesAll
  BY DEF Whole, Outcomes
<1> QED
  BY <1>1, AlwaysWhole, PTL

\* In every graph: a run that completes in one walk has skipped the nodes that
\* a taken branch leaves out or that follow only skipped and failed ones, and
\* no other, in whichever order the batches were worked off.
THEOREM SkippedTheorem == Spec => []SkippedExactly
<1>1. Whole => SkippedExactly
  BY DEF Whole, Outcomes
<1> QED
  BY <1>1, AlwaysWhole, PTL

\* In every graph with a root: a first walk that fails has a failed node
\* without continue_on_error.
THEOREM CulpritTheorem == Spec => []FailureHasCulprit
<1>1. Whole => FailureHasCulprit
  BY DEF Whole, Outcomes
<1> QED
  BY <1>1, AlwaysWhole, PTL
====
