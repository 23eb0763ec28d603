----------------------------- MODULE Assistant -----------------------------
(***************************************************************************)
(* One turn of the workflow assistant (ai_assistant.py, ai_chat): the      *)
(* model is asked in rounds, its tool calls read the canvas, edit a        *)
(* working copy or run a test of it on the worker, and at the end the      *)
(* working copy is proposed to the user.                                   *)
(*                                                                         *)
(* A workflow is a set of nodes, those of them whose config breaks its     *)
(* schema, those that refer to a type or connection that is not there,     *)
(* those with another name than on the canvas, and its edges; `gone' keeps *)
(* the ids that update_node took away.  A test is an execution document    *)
(* and a job; the worker, and somebody who approves a paused test, run     *)
(* beside the turn.                                                        *)
(***************************************************************************)
EXTENDS Integers, Sequences, FiniteSets, SequencesExt

CONSTANTS
  Nodes,
  Canvases,     \* workflows that are open in the builder
  Creations,    \* bound: workflows the model builds from scratch
  MaxRounds,    \* WF_ASSISTANT_MAX_ROUNDS
  MaxCalls, MaxTests, MaxMishaps     \* bounds

VARIABLES
  chat,     \* the turn
  canvas,   \* the workflow that was sent
  wc,       \* the working copy
  tests,    \* executions and jobs of the test runs
  told,     \* what the model heard of each test
  ui,       \* the last run_result event: the test asked for, the test shown
  mishap

chatVars == <<chat, canvas, wc, tests, told, ui, mishap>>

Tokens  == 1                                \* what one completion reports
Settled == {"completed", "failed", "paused"}
Ended   == {"done", "error", "gone"}
Faults  == {"config", "reference"}

-----------------------------------------------------------------------------
\* _validate_dag and the orphan check: known ends, no cycle, no lone node.
Dangling(g) == \E e \in g.edges : e[1] \notin g.nodes \/ e[2] \notin g.nodes
Cyclic(g) ==
  \E S \in SUBSET g.nodes \ {{}} : \A n \in S : \E m \in S : <<m, n>> \in g.edges
Orphaned(g) ==
  Cardinality(g.nodes) > 1 /\ \E n \in g.nodes : \A e \in g.edges : n \notin {e[1], e[2]}
BadGraph(g) == g.nodes # {} /\ (Dangling(g) \/ Cyclic(g) \/ Orphaned(g))

\* _validate_node_config_schemas.
BadConfig(g) == g.bad # {}

\* What is sent back to the model; _validate_candidate counts bad references too.
Fixable(g) == BadGraph(g) \/ BadConfig(g)
IsClean(g) == ~Fixable(g) /\ g.unknown = {}

-----------------------------------------------------------------------------
\* The edits.  Each returns the working copy and whether the tool said Error.
Same(msg) == [wc |-> wc, ok |-> msg]

\* What n is now written with.
Written(g, n, faults) ==
  [g EXCEPT !.nodes = @ \cup {n},
            !.bad = IF "config" \in faults THEN @ \cup {n} ELSE @ \ {n},
            !.unknown = IF "reference" \in faults THEN @ \cup {n} ELSE @ \ {n}]

AddNode(n, faults) ==
  IF n \in wc.nodes THEN Same(FALSE) ELSE [wc |-> Written(wc, n, faults), ok |-> TRUE]

\* The keys of changes are applied in turn: one that is no object ends the tool
\* with an error, the ones before it stay.
UpdateNode(n, faults) ==
  IF n \notin wc.nodes THEN Same(FALSE) ELSE [wc |-> Written(wc, n, faults), ok |-> TRUE]
RenameNode(n, configOk) ==
  IF n \notin wc.nodes THEN Same(FALSE)
  ELSE [wc |-> [wc EXCEPT !.renamed = @ \cup {n}], ok |-> configOk]

\* The id is a key like any other: the edges keep the old one.
ReId(n, m) ==
  LET moved(S) == IF n \in S THEN (S \ {n}) \cup {m} ELSE S IN
  IF n \notin wc.nodes \/ m \in wc.nodes THEN Same(FALSE)
  ELSE [wc |-> [wc EXCEPT !.nodes = moved(@), !.bad = moved(@), !.unknown = moved(@),
                          !.renamed = moved(@), !.gone = @ \cup {n}],
        ok |-> TRUE]

RemoveNode(n) ==
  IF n \notin wc.nodes THEN Same(FALSE)
  ELSE [wc |-> [wc EXCEPT !.nodes = @ \ {n}, !.bad = @ \ {n}, !.unknown = @ \ {n},
                          !.renamed = @ \ {n},
                          !.edges = {e \in @ : n \notin {e[1], e[2]}}],
        ok |-> TRUE]

AddEdge(m, n) ==
  IF {m, n} \subseteq wc.nodes THEN [wc |-> [wc EXCEPT !.edges = @ \cup {<<m, n>>}], ok |-> TRUE]
  ELSE Same(FALSE)

\* "No matching edge" is not an error.
RemoveEdge(m, n) == [wc |-> [wc EXCEPT !.edges = @ \ {<<m, n>>}], ok |-> TRUE]

\* create_workflow replaces everything, unless it came without nodes.
CreateWorkflow(g) == IF g.nodes = {} THEN Same(FALSE) ELSE [wc |-> g, ok |-> TRUE]

SetMeta == Same(TRUE)

Edits == {AddNode(n, faults) : n \in Nodes, faults \in SUBSET Faults} \cup
         {UpdateNode(n, faults) : n \in Nodes, faults \in SUBSET Faults} \cup
         {RenameNode(n, configOk) : n \in Nodes, configOk \in BOOLEAN} \cup
         {ReId(n, m) : n, m \in Nodes} \cup {RemoveNode(n) : n \in Nodes} \cup
         {AddEdge(m, n) : m, n \in Nodes} \cup {RemoveEdge(m, n) : m, n \in Nodes} \cup
         {CreateWorkflow(g) : g \in Creations} \cup {SetMeta}

-----------------------------------------------------------------------------
Init ==
  /\ canvas \in Canvases /\ wc = canvas
  /\ chat = [pc |-> "think", round |-> 1, tries |-> 0, calls |-> 0, edited |-> FALSE,
             repaired |-> FALSE, tokens |-> 0, tracked |-> 0, op |-> "none"]
  /\ tests = <<>> /\ told = <<>> /\ ui = <<0, 0>> /\ mishap = 0

Mishap == mishap < MaxMishaps /\ mishap' = mishap + 1
Go(c) == chat' = c
End(pc) == [chat EXCEPT !.pc = pc, !.tracked = chat.tokens]     \* finally: _track_usage

\* The call to the model runs in a thread.
Ask ==
  /\ chat.pc = "think" /\ chat.round <= MaxRounds
  /\ Go([chat EXCEPT !.pc = "llm"])
  /\ UNCHANGED <<canvas, wc, tests, told, ui, mishap>>

\* An empty completion is asked for again, the third one ends the turn.
EmptyReply ==
  /\ chat.pc = "llm"
  /\ Go(IF chat.tries < 2 THEN [chat EXCEPT !.pc = "think", !.tries = @ + 1] ELSE End("error"))
  /\ UNCHANGED <<canvas, wc, tests, told, ui, mishap>>

Heard == [chat EXCEPT !.tokens = @ + Tokens, !.tries = 0]

CallsTools(n) ==
  /\ chat.pc = "llm"
  /\ Go([Heard EXCEPT !.pc = "tools", !.calls = n])
  /\ UNCHANGED <<canvas, wc, tests, told, ui, mishap>>

\* Mutant: a broken proposal is accepted at once.
TakesAnswer ==
  /\ chat.pc = "llm"
  /\ Go([Heard EXCEPT !.pc = "propose"])
  /\ UNCHANGED <<canvas, wc, tests, told, ui, mishap>>

\* No tool calls: an edit with a bad graph or config is sent back once, then it
\* is the answer.
FinalAnswer ==
  /\ chat.pc = "llm"
  /\ Go(IF chat.edited /\ ~chat.repaired /\ Fixable(wc)
        THEN [Heard EXCEPT !.pc = "think", !.round = @ + 1, !.repaired = TRUE]
        ELSE [Heard EXCEPT !.pc = "propose"])
  /\ UNCHANGED <<canvas, wc, tests, told, ui, mishap>>

OutOfRounds ==
  /\ chat.pc = "think" /\ chat.round > MaxRounds
  /\ Go([chat EXCEPT !.pc = "propose"])
  /\ UNCHANGED <<canvas, wc, tests, told, ui, mishap>>

\* The working copy becomes the operation, if anything was edited.
Propose ==
  /\ chat.pc = "propose"
  /\ Go([End("done") EXCEPT !.op = IF ~chat.edited THEN "none"
                                   ELSE IF IsClean(wc) THEN "clean" ELSE "broken"])
  /\ UNCHANGED <<canvas, wc, tests, told, ui, mishap>>

\* So does whatever raises: the call to the model, a database in a tool, the queue.
TurnRaises ==
  /\ chat.pc \in {"llm", "tools", "undo", "poll", "read"} /\ Mishap
  /\ Go(End("error"))
  /\ UNCHANGED <<canvas, wc, tests, told, ui>>

\* The client went away: the task is cancelled where it stands.
Disconnect ==
  /\ chat.pc \notin Ended /\ Mishap
  /\ Go(End("gone"))
  /\ UNCHANGED <<canvas, wc, tests, told, ui>>

-----------------------------------------------------------------------------
\* Tool calls; after the last answer the next round begins.
Answered(c) == [c EXCEPT !.calls = @ - 1, !.pc = IF c.calls = 1 THEN "think" ELSE "tools",
                         !.round = IF c.calls = 1 THEN @ + 1 ELSE @]

\* Tools that only read (inspect, list, validate, past runs), unknown tools, and
\* calls whose arguments are no JSON, which do not run.
ReadTool ==
  /\ chat.pc = "tools"
  /\ Go(Answered(chat))
  /\ UNCHANGED <<canvas, wc, tests, told, ui, mishap>>

EditTool ==
  /\ chat.pc = "tools"
  /\ \E e \in Edits :
       /\ wc' = e.wc
       /\ Go([Answered(chat) EXCEPT !.edited = @ \/ e.ok])
  /\ UNCHANGED <<canvas, tests, told, ui, mishap>>

\* run_workflow_test: the document is inserted as queued, then the job.
InsertTest ==
  /\ chat.pc = "tools" /\ Len(tests) < MaxTests
  /\ tests' = Append(tests, [job |-> "none", doc |-> "queued", end |-> "none", unsaved |-> FALSE,
                           slipped |-> FALSE, resuming |-> FALSE])
  /\ Go([chat EXCEPT !.pc = "enqueue"])
  /\ UNCHANGED <<canvas, wc, told, ui, mishap>>

Current == Len(tests)

\* The answer to the test tool, and the run_result event: the last summary there
\* is, whichever test it is of.
Tell(what) ==
  LET heard == Append(told, what)
      shown == {k \in DOMAIN heard : heard[k] \in Settled} IN
  /\ told' = heard
  /\ ui' = IF shown = {} THEN ui
           ELSE <<Len(heard), CHOOSE k \in shown : \A j \in shown : j <= k>>
  /\ Go(Answered(chat))

\* The enqueue, in one transaction.  One that raises left no job, or its reply
\* was lost and the job slipped in.
EnqueueTest ==
  /\ chat.pc = "enqueue"
  /\ \/ /\ tests' = [tests EXCEPT ![Current].job = "queued"]
        /\ Go([chat EXCEPT !.pc = "poll"]) /\ UNCHANGED mishap
     \/ /\ Mishap /\ Go([chat EXCEPT !.pc = "undo"])
        /\ \/ UNCHANGED tests
           \/ tests' = [tests EXCEPT ![Current].job = "queued", ![Current].slipped = TRUE]
  /\ UNCHANGED <<canvas, wc, told, ui>>

\* Then the document is marked failed, whatever the worker wrote meanwhile.
UndoTest ==
  /\ chat.pc = "undo"
  /\ tests' = [tests EXCEPT ![Current].doc = "failed"]
  /\ Tell("not started")
  /\ UNCHANGED <<canvas, wc, mishap>>

\* The poll loop: the job is done or failed, unknown five times, or the time is
\* up; the run itself is left alone.
PollEnds ==
  /\ chat.pc = "poll" /\ tests[Current].job \in {"done", "failed"}
  /\ Go([chat EXCEPT !.pc = "read"])
  /\ UNCHANGED <<canvas, wc, tests, told, ui, mishap>>
StatusLost ==
  /\ chat.pc = "poll" /\ tests[Current].job = "expired"
  /\ Tell("lost")
  /\ UNCHANGED <<canvas, wc, tests, mishap>>
DeadlinePasses ==
  /\ chat.pc = "poll" /\ tests[Current].job \notin {"done", "failed"} /\ Mishap
  /\ Tell("still running")
  /\ UNCHANGED <<canvas, wc, tests>>

\* The outcome: the document where it settled, else what the job says.
ReadOutcome ==
  /\ chat.pc = "read"
  /\ LET t == tests[Current] IN
     Tell(IF t.doc \in Settled THEN t.doc
          ELSE IF t.job = "failed" THEN "died" ELSE "not persisted")
  /\ UNCHANGED <<canvas, wc, tests, mishap>>

-----------------------------------------------------------------------------
\* The worker, and the approver of a paused test.
Worker(k, t) == tests' = [tests EXCEPT ![k] = t] /\ UNCHANGED <<chat, canvas, wc, told, ui>>

WorkerStarts(k) ==
  /\ tests[k].job = "queued"
  /\ Worker(k, [tests[k] EXCEPT !.job = "running", !.doc = "running"]) /\ UNCHANGED mishap

\* _save_execution swallows its errors; the job's result has the status.
WorkerEnds(k, s) ==
  /\ tests[k].job = "running"
  /\ \/ Worker(k, [tests[k] EXCEPT !.job = "done", !.doc = s, !.end = s]) /\ UNCHANGED mishap
     \/ Mishap /\ Worker(k, [tests[k] EXCEPT !.job = "done", !.end = s, !.unsaved = TRUE])

\* The last retry of the job is used up by a crash or a refused payload.
WorkerDies(k) ==
  /\ tests[k].job \in {"queued", "running"} /\ Mishap
  /\ Worker(k, [tests[k] EXCEPT !.job = "failed"])

JobExpires(k) ==
  /\ tests[k].job \in {"queued", "running", "done"} /\ Mishap
  /\ Worker(k, [tests[k] EXCEPT !.job = "expired"])

Approve(k) ==
  /\ tests[k].doc = "paused"
  /\ Worker(k, [tests[k] EXCEPT !.doc = "running", !.resuming = TRUE]) /\ UNCHANGED mishap

\* The resumed run ends either way; it walks the saved workflow.
ResumeEnds(k, s) ==
  /\ tests[k].resuming
  /\ Worker(k, [tests[k] EXCEPT !.doc = s, !.end = s, !.resuming = FALSE]) /\ UNCHANGED mishap

Next ==
  \/ Ask \/ EmptyReply \/ FinalAnswer \/ OutOfRounds \/ Propose \/ TurnRaises \/ Disconnect
  \/ \E n \in 1..MaxCalls : CallsTools(n)
  \/ ReadTool \/ EditTool \/ InsertTest \/ EnqueueTest \/ UndoTest
  \/ PollEnds \/ StatusLost \/ DeadlinePasses \/ ReadOutcome
  \/ \E k \in DOMAIN tests :
       \/ WorkerStarts(k) \/ WorkerDies(k) \/ JobExpires(k) \/ Approve(k)
       \/ \E s \in Settled : WorkerEnds(k, s)
       \/ \E s \in {"completed", "failed"} : ResumeEnds(k, s)

Spec == Init /\ [][Next]_chatVars

-----------------------------------------------------------------------------
TypeOK ==
  /\ chat.pc \in {"think", "llm", "tools", "enqueue", "undo", "poll", "read", "propose"} \cup Ended
  /\ chat.round \in 1..MaxRounds + 1 /\ chat.calls \in 0..MaxCalls
  /\ wc.nodes \subseteq Nodes /\ Len(told) <= Len(tests) /\ mishap \in 0..MaxMishaps

\* A workflow whose graph or config is broken is proposed only after the model was
\* told once what is wrong, or when its rounds were used up ("feed the issues back
\* ONCE").
BrokenWasReported ==
  chat.op # "none" /\ Fixable(wc) => chat.repaired \/ chat.round > MaxRounds

\* The model is asked again only when every tool call has its answer, and the
\* usage that is tracked is that of all the completions, however the turn ends.
TurnWhole ==
  /\ chat.pc \in {"think", "llm", "propose"} => chat.calls = 0 /\ Len(told) = Len(tests)
  /\ chat.pc \in Ended => chat.tracked = chat.tokens

\* What the model hears of a test is true: a summary is one the test really came
\* to, "died" means no outcome was ever written, and a test that "could not start"
\* has no job and no queued document, unless the reply of its enqueue was lost
\* (_run_test_on_worker: "don't summarize it as if it were").
TestsToldTruly ==
  \A k \in DOMAIN told :
    /\ told[k] \in Settled =>
         tests[k].end = told[k] \/ (told[k] = "paused" /\ tests[k].end # "none")
    /\ told[k] = "died" => tests[k].job = "failed" /\ tests[k].end = "none"
    /\ told[k] = "not started" =>
         (tests[k].doc = "failed" /\ tests[k].job = "none") \/ tests[k].slipped
    /\ told[k] = "not persisted" => tests[k].unsaved \/ tests[k].end # "none"

\* An edge of the working copy has its ends: one that is missing is an id that
\* update_node took away, or the canvas, or a workflow that the model wrote in one
\* piece, came without it.
LeftBehind(g) == \E e \in g.edges : ~({e[1], e[2]} \subseteq g.nodes \cup g.gone)
NoEdgeLeftBehind == LeftBehind(wc) => \E g \in Canvases \cup Creations : LeftBehind(g)

AssistantSound == TypeOK /\ BrokenWasReported /\ TurnWhole /\ TestsToldTruly /\ NoEdgeLeftBehind

-----------------------------------------------------------------------------
\* Statements of comments that the code does not keep.

\* "Surface a test-run result (per-node pass/fail) immediately": after a test
\* without a summary the result of an earlier one is shown again.
ResultIsOfThisTest == ui[1] = ui[2]

\* "Job done but the executor's Mongo save never landed": a paused test that is
\* approved between the two reads looks the same.
NotPersistedIsTrue == \A k \in DOMAIN told : told[k] = "not persisted" => tests[k].unsaved

\* "edited flips True once any edit tool ran": an update that ends with an error
\* half way has changed the working copy all the same.
UneditedIsUntouched == ~chat.edited => wc = canvas

\* "every edge must reference an existing node id": an update of the id itself
\* leaves the edges of the old one.
EdgesHaveEnds == Dangling(wc) => \E g \in Canvases \cup Creations : Dangling(g)

\* "feed the issues back ONCE": a type or connection that does not exist is shown
\* to the user and never to the model.
ReferencesReported == chat.op = "broken" => chat.repaired \/ chat.round > MaxRounds

\* "Test run could not start": the reply of an enqueue may be lost after the job
\* was queued, and the test runs all the same.
NotStartedIsTrue == \A k \in DOMAIN told : told[k] = "not started" => tests[k].job = "none"
=============================================================================
