----------------------------- MODULE AgentLoop -----------------------------
(***************************************************************************)
(* The AI agent node (nodes/agents.py): its connections are resolved, then *)
(* the model is asked in a loop, each request charged to the run's budget, *)
(* and every tool call of the reply is guarded, run under a timeout and    *)
(* answered in the transcript.  BaseNode.run retries a failed attempt, and *)
(* the executor gives the whole node a timeout.                            *)
(*                                                                         *)
(* Requests to the model and the SQL, bucket and SFTP tools run in threads *)
(* of the loop's default executor, which the agents share: a thread whose  *)
(* caller gave up goes on, a job that no thread had taken yet is dropped.  *)
(* The client of such a thread repeats a request that failed on its own.   *)
(* A call is a tool and what its arguments do: "bad" is SQL that is no     *)
(* SELECT, a mutating HTTP method, an action that is neither list nor      *)
(* download, or an unknown tool named after a write; "sly" changes its     *)
(* target without looking like it: SELECT ... INTO, a function called by a *)
(* SELECT, a script, a GET that has effects.                               *)
(***************************************************************************)
EXTENDS Integers, Sequences, FiniteSets

CONSTANTS
  Agents,          \* agent nodes that run at the same time, of one run
  Grants,          \* the tools fields the nodes may have
  MaxIterations,   \* max_iterations of the node
  Retries,         \* max_retries of the node
  Limit,           \* the run's LLM budget
  ClientRetries,   \* max_retries of the client, of one call
  PoolSize,        \* threads of the default executor
  Asked,           \* bound: the calls the model is let to make
  MaxCalls         \* bound: tool calls of one reply

VARIABLES
  agent,     \* the nodes
  charged,   \* the run's LLM counter
  requests,  \* calls made of the client, by all the nodes
  repeated,  \* requests the client repeated
  orphans    \* threads whose caller gave up

agentVars == <<agent, charged, requests, repeated, orphans>>

Builtin  == {"web_search", "code_execute", "sql_query", "nosql_query", "http_request",
             "bucket_read", "sftp_read"}              \* TOOL_EXECUTORS
Connected == {"sql_query", "nosql_query", "bucket_read", "sftp_read"}
Calls == [fn : Builtin \cup {"other"}, arg : {"ok"}] \cup
         [fn : {"sql_query", "http_request", "bucket_read", "sftp_read", "other"}, arg : {"bad"}] \cup
         [fn : {"sql_query", "code_execute", "http_request"}, arg : {"sly"}]

\* _build_tool_definitions: what the model is offered.
Offered(granted) == granted \cap Builtin

-----------------------------------------------------------------------------
\* The tools: whether the call reaches its target, and in a thread or not.

\* _tool_web_search: a search provider, or a scrape; errors are text.
WebSearch == [runs |-> TRUE, thread |-> FALSE]

\* _tool_code_execute: the input is staged and the script goes to the sandbox.
CodeExecute == [runs |-> TRUE, thread |-> FALSE]

\* _validate_readonly_sql: one statement that starts with SELECT or WITH and
\* holds no destructive keyword, which is not to say that it only reads.
ReadonlySql(c) == c.arg # "bad"

\* _tool_sql_query: over a connection that was resolved before the loop.
SqlQuery(granted, c) == [runs |-> ReadonlySql(c) /\ c.fn \in granted, thread |-> TRUE]

\* _tool_nosql_query: a find over a resolved connection.
NosqlQuery(granted, c) == [runs |-> c.fn \in granted, thread |-> FALSE]

\* _tool_http_request: to a public address.
HttpRequest == [runs |-> TRUE, thread |-> FALSE]

\* _tool_bucket_read: list or download, over a resolved connection.
BucketRead(granted, c) == [runs |-> c.arg = "ok" /\ c.fn \in granted, thread |-> TRUE]

\* _tool_sftp_read: the same over SFTP, FTP or FTPS.
SftpRead(granted, c) == [runs |-> c.arg = "ok" /\ c.fn \in granted, thread |-> TRUE]

\* The dispatch of one call.
Dispatch(granted, c) ==
  CASE c.fn = "web_search"   -> WebSearch
    [] c.fn = "code_execute" -> CodeExecute
    [] c.fn = "sql_query"    -> SqlQuery(granted, c)
    [] c.fn = "nosql_query"  -> NosqlQuery(granted, c)
    [] c.fn = "http_request" -> HttpRequest
    [] c.fn = "bucket_read"  -> BucketRead(granted, c)
    [] c.fn = "sftp_read"    -> SftpRead(granted, c)
    [] OTHER                 -> [runs |-> FALSE, thread |-> FALSE]    \* Unknown tool

\* _assert_tool_is_read_only.
Blocked(c) == c.fn \in {"http_request", "other"} /\ c.arg = "bad"

\* What the call that runs now leaves behind: the way it changes its target, if
\* it does, and whether the node did not list it.
Noted(r) == LET c == Head(r.calls) IN
  [r EXCEPT !.wrote = @ \cup ({c.arg} \ {"ok"}), !.unlisted = @ \/ c.fn \notin r.granted]

-----------------------------------------------------------------------------
Init ==
  /\ agent \in [Agents -> [pc : {"start"}, granted : Grants, attempt : {0}, round : {0},
                           job : {"none"}, calls : {<<>>}, owed : {0}, requests : {0},
                           wrote : {{}}, unlisted : {FALSE}, blocked : {FALSE}, lost : {FALSE}]]
  /\ charged = 0 /\ requests = 0 /\ repeated = 0 /\ orphans = 0

Running == Cardinality({a \in Agents : agent[a].job = "running"}) + orphans

\* BaseNode.run: another attempt, unless the error says non_retryable.  An
\* attempt starts with a new transcript.
AttemptFails(a, nonRetryable) ==
  agent' = [agent EXCEPT ![a] =
    IF ~nonRetryable /\ agent[a].attempt < Retries
    THEN [agent[a] EXCEPT !.pc = "start", !.attempt = @ + 1, !.round = 0, !.job = "none",
                          !.calls = <<>>, !.owed = 0]
    ELSE [agent[a] EXCEPT !.pc = "failed", !.job = "none", !.calls = <<>>]]

\* Schemas are discovered, then the connections of the granted tools are
\* resolved and their required fields looked at: an error there fails the
\* attempt before the first request.
Start(a) ==
  /\ agent[a].pc = "start"
  /\ \/ agent' = [agent EXCEPT ![a].pc = "ask"]
     \/ agent[a].granted \cap Connected # {} /\ AttemptFails(a, FALSE)
  /\ UNCHANGED <<charged, requests, repeated, orphans>>

\* The loop is over: a warning is the result, the node is completed.
OutOfRounds(a) ==
  /\ agent[a].pc = "ask" /\ agent[a].round >= MaxIterations
  /\ agent' = [agent EXCEPT ![a].pc = "done"]
  /\ UNCHANGED <<charged, requests, repeated, orphans>>

\* charge_llm_call, then the request is handed to the executor's threads.
Charge(a) ==
  /\ agent[a].pc = "ask" /\ agent[a].round < MaxIterations
  /\ charged' = charged + 1
  /\ IF charged' > Limit THEN AttemptFails(a, FALSE)
     ELSE agent' = [agent EXCEPT ![a].pc = "llm", ![a].job = "queued", ![a].round = @ + 1]
  /\ UNCHANGED <<requests, repeated, orphans>>

\* A thread takes a job: now the request is made, and repeated if it must be, or
\* the query.
ThreadTakes(a) ==
  /\ agent[a].job = "queued" /\ Running < PoolSize
  /\ IF agent[a].pc = "llm"
     THEN /\ agent' = [agent EXCEPT ![a].job = "running", ![a].requests = @ + 1]
          /\ requests' = requests + 1
          /\ \E n \in 0..ClientRetries : repeated' = repeated + n
     ELSE /\ agent' = [agent EXCEPT ![a] = Noted([agent[a] EXCEPT !.job = "running"])]
          /\ UNCHANGED <<requests, repeated>>
  /\ UNCHANGED <<charged, orphans>>

\* No tool calls in the reply: the answer, parsed where a schema is given.
Answers(a) ==
  /\ agent[a].pc = "llm" /\ agent[a].job = "running"
  /\ agent' = [agent EXCEPT ![a].pc = "done", ![a].job = "none"]
  /\ UNCHANGED <<charged, requests, repeated, orphans>>

\* A reply with tool calls goes into the transcript and owes their answers.
CallsTools(a, cs) ==
  /\ agent[a].pc = "llm" /\ agent[a].job = "running" /\ Offered(agent[a].granted) # {}
  /\ agent' = [agent EXCEPT ![a].pc = "guard", ![a].job = "none", ![a].calls = cs,
                            ![a].owed = Len(cs)]
  /\ UNCHANGED <<charged, requests, repeated, orphans>>

LlmFails(a) ==
  /\ agent[a].pc = "llm" /\ agent[a].job = "running"
  /\ AttemptFails(a, FALSE)
  /\ UNCHANGED <<charged, requests, repeated, orphans>>

\* A call is answered; after the last one the next round begins.
Answered(a) ==
  agent' = [agent EXCEPT ![a].calls = Tail(@), ![a].job = "none", ![a].owed = @ - 1,
              ![a].pc = IF Len(agent[a].calls) = 1 THEN "ask" ELSE "guard"]

\* A mutating call is audited and fails the node for good; when the audit file
\* cannot be opened that error is raised instead, and is retried.
BlockWrite(a) ==
  LET c == Head(agent[a].calls) IN
  /\ agent[a].pc = "guard" /\ Blocked(c)
  /\ \E audited \in BOOLEAN :
       LET failed == [agent[a] EXCEPT !.blocked = TRUE, !.lost = ~audited] IN
       agent' = [agent EXCEPT ![a] =
         IF ~audited /\ agent[a].attempt < Retries
         THEN [failed EXCEPT !.pc = "start", !.attempt = @ + 1, !.round = 0, !.calls = <<>>,
                             !.owed = 0]
         ELSE [failed EXCEPT !.pc = "failed", !.calls = <<>>]]
  /\ UNCHANGED <<charged, requests, repeated, orphans>>

\* Mutant: a tool the node does not know is passed over.
SkipsUnknown(a) ==
  LET c == Head(agent[a].calls) IN
  /\ agent[a].pc = "guard" /\ ~Blocked(c) /\ ~Dispatch(agent[a].granted, c).runs
  /\ agent' = [agent EXCEPT ![a].calls = Tail(@),
                 ![a].pc = IF Len(agent[a].calls) = 1 THEN "ask" ELSE "guard"]
  /\ UNCHANGED <<charged, requests, repeated, orphans>>

\* A call that goes nowhere (unknown tool, no connection, refused arguments)
\* is answered with an error text.
RefuseCall(a) ==
  LET c == Head(agent[a].calls) IN
  /\ agent[a].pc = "guard" /\ ~Blocked(c) /\ ~Dispatch(agent[a].granted, c).runs
  /\ Answered(a)
  /\ UNCHANGED <<charged, requests, repeated, orphans>>

\* A call that runs, in a thread or on the loop itself.
RunCall(a) ==
  LET c == Head(agent[a].calls)
      d == Dispatch(agent[a].granted, c) IN
  /\ agent[a].pc = "guard" /\ ~Blocked(c) /\ d.runs
  /\ agent' = [agent EXCEPT ![a] =
       IF d.thread THEN [agent[a] EXCEPT !.pc = "tool", !.job = "queued"]
       ELSE Noted([agent[a] EXCEPT !.pc = "tool", !.job = "loop"])]
  /\ UNCHANGED <<charged, requests, repeated, orphans>>

\* The tool returned, or raised: both are text for the model.
ToolEnds(a) ==
  /\ agent[a].pc = "tool" /\ agent[a].job \in {"running", "loop"}
  /\ Answered(a)
  /\ UNCHANGED <<charged, requests, repeated, orphans>>

Left(a) == orphans' = orphans + (IF agent[a].job = "running" THEN 1 ELSE 0)

\* wait_for gave up: the answer says so, the thread goes on.
ToolTimeout(a) ==
  /\ agent[a].pc = "tool"
  /\ Answered(a) /\ Left(a)
  /\ UNCHANGED <<charged, requests, repeated>>

\* The executor's wait_for around node.run.
NodeTimeout(a) ==
  /\ agent[a].pc \notin {"done", "failed"}
  /\ agent' = [agent EXCEPT ![a].pc = "failed", ![a].job = "none", ![a].calls = <<>>]
  /\ Left(a)
  /\ UNCHANGED <<charged, requests, repeated>>

\* A thread nobody waits for comes to its end; its result is dropped.
OrphanEnds ==
  orphans > 0 /\ orphans' = orphans - 1 /\ UNCHANGED <<agent, charged, requests, repeated>>

Replies == UNION {[1..n -> Asked] : n \in 1..MaxCalls}

Next ==
  \/ \E a \in Agents :
       \/ Start(a) \/ OutOfRounds(a) \/ Charge(a) \/ ThreadTakes(a) \/ Answers(a) \/ LlmFails(a)
       \/ \E cs \in Replies : CallsTools(a, cs)
       \/ BlockWrite(a) \/ RefuseCall(a) \/ RunCall(a) \/ ToolEnds(a) \/ ToolTimeout(a)
       \/ NodeTimeout(a)
  \/ OrphanEnds

Spec == Init /\ [][Next]_agentVars

-----------------------------------------------------------------------------
TypeOK ==
  /\ \A a \in Agents :
       /\ agent[a].pc \in {"start", "ask", "llm", "guard", "tool", "done", "failed"}
       /\ agent[a].attempt \in 0..Retries /\ agent[a].round \in 0..MaxIterations
       /\ agent[a].job \in {"none", "queued", "running", "loop"} /\ agent[a].calls \in Seq(Calls)
  /\ charged \in Nat /\ requests \in Nat /\ repeated \in Nat /\ orphans \in 0..PoolSize

\* Whenever the model is asked, every tool call of the transcript has exactly
\* one answer: unknown tools, errors and timeouts answer too, and a thread that
\* ends late answers nothing (_run_agent_with_tools).
TranscriptWhole ==
  \A a \in Agents :
    /\ agent[a].pc \in {"ask", "llm", "done"} => agent[a].owed = 0
    /\ agent[a].pc \in {"guard", "tool"} => agent[a].owed = Len(agent[a].calls)

\* Over all the nodes of the run the client is called no oftener than was charged
\* and the budget allows, it repeats a call at most max_retries times, and an agent
\* calls it at most max_iterations times per attempt (charge_llm_call).
RequestsPaid ==
  /\ requests <= (IF charged < Limit THEN charged ELSE Limit)
  /\ repeated <= ClientRetries * requests
  /\ \A a \in Agents : agent[a].requests <= (agent[a].attempt + 1) * MaxIterations

\* No call that the guards can tell for a write ever ran, not even one whose caller
\* had given up, and a blocked write is the end of the node unless its audit record
\* was lost (_assert_tool_is_read_only, WriteBlockedError.non_retryable).
ReadsOnly ==
  \A a \in Agents :
    /\ "bad" \notin agent[a].wrote
    /\ agent[a].blocked /\ ~agent[a].lost => agent[a].pc = "failed"

AgentsSound == TypeOK /\ TranscriptWhole /\ RequestsPaid /\ ReadsOnly

-----------------------------------------------------------------------------
\* Statements of comments that the code does not keep.

\* "A single workflow RUN may make at most N LLM calls": what the client repeats
\* is not charged.
RequestsWithinLimit == requests + repeated <= Limit

\* "Run a read-only SQL query", "Make a read-only HTTP request": the words of SQL and
\* the method of a request do not tell, and code_execute is passed through.
NothingWrites == \A a \in Agents : agent[a].wrote = {}

\* "Only the built-in tools listed in 'tools' are callable from inside the agent
\* loop": web search, code and HTTP are, listed or not.
OnlyListed == \A a \in Agents : ~agent[a].unlisted

\* "``non_retryable`` tells the node run() wrapper not to auto-retry": it is
\* lost with the audit record.
BlockedIsFinal == \A a \in Agents : agent[a].blocked => agent[a].pc = "failed"
=============================================================================
