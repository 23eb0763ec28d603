------------------------------ MODULE NodeRun ------------------------------
(***************************************************************************)
(* What a node does to the world outside: BaseNode.run with its retries    *)
(* and the executor's timeout around it, and the execute methods of the    *)
(* writers, senders and sources (nodes/outputs.py, notifications.py,       *)
(* mcp.py, state.py, sources.py, vector.py), each as the sequence of its   *)
(* steps.                                                                  *)
(*                                                                         *)
(* One node of one execution is dispatched to several workers: its job may *)
(* be delivered again while the first delivery still runs.  A step checks  *)
(* the configuration, talks to a remote without changing it, or has an     *)
(* effect.  Effects in a thread outlive the node's timeout.                *)
(***************************************************************************)
EXTENDS Integers, Sequences, FiniteSets

CONSTANTS
  Dispatches,   \* deliveries of the node
  NodeKinds,    \* node types that are tried
  MaxRetries,   \* max_retries of the node
  Items,        \* bound: input items of the per-item nodes
  MaxFaults     \* bound: lost calls, lost replies, timeouts, cache errors

VARIABLES
  kind, run, landed, marker, late, flaws

nodeVars == <<kind, run, landed, marker, late, flaws>>

\* Steps.  check: raises on a bad configuration.  call: a remote read that may
\* raise.  soft: one whose failure is swallowed.  rows, put, file: effects in a
\* thread.  post: HTTP, an error status raises.  fire: its status is ignored.
\* mail: its failure is only reported.  seen, mark: the duplicate marker.
Threaded == {"rows", "put", "file"}
Effects  == Threaded \cup {"post", "fire", "mail"}

SqlWriter    == <<"call", "check", "rows">>
SqlNothing   == <<"call", "check">>           \* no records: nothing is written
PdfExport    == <<"call", "check", "put">>
PdfInline    == <<"call">>                    \* save_to_bucket is off
ExcelExport  == <<"check", "put">>
CsvExport    == <<"check", "put">>
EmailSender  == <<"check", "seen", "mail", "mark">>
FileDownload == <<"check">>
BucketWriter == <<"call", "check", "put">>
SftpWriter   == <<"check", "call", "check", "file">>
WebhookOut   == <<"check", "fire">>
Notify       == <<"check", "post">>
StateSet     == <<"check", "soft", "post">>
StateGet     == <<"check", "soft", "soft">>
SqlSource    == <<"call", "check", "call">>
MongoSource  == <<"call", "check", "call">>
ApiPost      == <<"call", "check", "post">>

\* MCP: tools/list may fail, the tool must prove that it only reads unless
\* writes are allowed; then one call per item.
RefuseIfMutating == <<"check", "soft", "check">>
McpCall          == <<"check", "post">>

\* Vector search embeds and searches, once per item.
VectorCheck  == <<"check", "check">>
VectorSearch == <<"call", "call">>

\* The steps before the items, and those of each item.
Prologue == CASE kind = "mcp" -> RefuseIfMutating
              [] kind = "vector" -> VectorCheck
              [] OTHER -> <<>>
PerItem  == CASE kind = "sql_writer" -> SqlWriter   [] kind = "pdf" -> PdfExport
              [] kind = "pdf_inline" -> PdfInline
              [] kind = "sql_nothing" -> SqlNothing
              [] kind = "excel" -> ExcelExport      [] kind = "csv" -> CsvExport
              [] kind = "email" -> EmailSender      [] kind = "download" -> FileDownload
              [] kind = "bucket" -> BucketWriter    [] kind = "sftp_writer" -> SftpWriter
              [] kind = "webhook" -> WebhookOut     [] kind = "notify" -> Notify
              [] kind = "state_set" -> StateSet     [] kind = "state_get" -> StateGet
              [] kind = "sql" -> SqlSource          [] kind = "mongo" -> MongoSource
              [] kind = "api_post" -> ApiPost       [] kind = "mcp" -> McpCall
              [] kind = "vector" -> VectorSearch
Count == IF kind \in {"mcp", "vector"} THEN Items ELSE 1

\* The step at place p: the item it belongs to (0 in the prologue), and its name.
ItemAt(p) == IF p <= Len(Prologue) THEN 0
             ELSE 1 + ((p - Len(Prologue) - 1) \div Len(PerItem))
StepAt(p) == IF p <= Len(Prologue) THEN Prologue[p]
             ELSE PerItem[1 + ((p - Len(Prologue) - 1) % Len(PerItem))]
Places == Len(Prologue) + Count * Len(PerItem)

\* category = OUTPUT, or side_effecting.
SideEffecting(k) == k \notin {"state_get", "sql", "mongo", "api_post", "mcp", "vector"}

\* Mutant: every node is retried.
EveryNodeRetried(k) == MaxRetries

\* BaseNode.run: a side-effecting node has one attempt.
Retries(k) == IF SideEffecting(k) THEN 0 ELSE MaxRetries

-----------------------------------------------------------------------------
\* The marker's key is a digest of the recipient and the subject, which is
\* rendered from the input and the variables of each delivery.
Subjects(k) == IF k = "email" THEN {"one", "two"} ELSE {"one"}

Fresh(s) ==
  [pc |-> "waiting", attempt |-> 0, place |-> 1, cached |-> TRUE, status |-> "none", subject |-> s]

Init ==
  /\ kind \in NodeKinds
  /\ run \in [Dispatches -> {Fresh(s) : s \in Subjects(kind)}]
  /\ landed = [d \in Dispatches |-> [i \in 1..Count |-> 0]]
  /\ marker = {}
  /\ late = {}
  /\ flaws = [lost |-> 0, soft |-> FALSE, overlap |-> FALSE, expired |-> FALSE, used |-> 0]

Fault == flaws.used < MaxFaults
Faulty(f) == [f EXCEPT !.used = @ + 1]
Step(d, s) == run[d].pc = "running" /\ run[d].place <= Places /\ StepAt(run[d].place) = s
Onward(d) == run' = [run EXCEPT ![d].place = @ + 1]

\* execute raised: the next attempt, from the first step, or FAILED.
Raises(d) ==
  run' = [run EXCEPT ![d] =
    IF run[d].attempt < Retries(kind)
    THEN [run[d] EXCEPT !.attempt = @ + 1, !.place = 1]
    ELSE [run[d] EXCEPT !.pc = "done", !.status = "failed"]]

Start(d) ==
  /\ run[d].pc = "waiting"
  /\ run' = [run EXCEPT ![d].pc = "running"]
  /\ flaws' = [flaws EXCEPT !.overlap = @ \/ \E e \in Dispatches : run[e].pc = "running"]
  /\ UNCHANGED <<kind, landed, marker, late>>

Check(d) ==
  /\ Step(d, "check")
  /\ Onward(d) \/ Raises(d)
  /\ UNCHANGED <<kind, landed, marker, late, flaws>>

Call(d) ==
  /\ Step(d, "call")
  /\ \/ Onward(d) /\ UNCHANGED flaws
     \/ Fault /\ Raises(d) /\ flaws' = Faulty(flaws)
  /\ UNCHANGED <<kind, landed, marker, late>>

Soft(d) ==
  /\ Step(d, "soft")
  /\ Onward(d)
  /\ UNCHANGED <<kind, landed, marker, late, flaws>>

Land(d) == landed' = [landed EXCEPT ![d][ItemAt(run[d].place)] = @ + 1]

\* A write or POST that arrives and whose reply arrives, one whose reply is
\* lost, and one that never arrives.
Write(d) ==
  /\ run[d].pc = "running" /\ run[d].place <= Places
  /\ StepAt(run[d].place) \in Threaded \cup {"post"}
  /\ \/ Land(d) /\ Onward(d) /\ UNCHANGED flaws
     \/ Fault /\ Land(d) /\ Raises(d) /\ flaws' = [Faulty(flaws) EXCEPT !.lost = @ + 1]
     \/ Fault /\ UNCHANGED landed /\ Raises(d) /\ flaws' = Faulty(flaws)
  /\ UNCHANGED <<kind, marker, late>>

\* WebhookOutputNode does not look at the status.
Fire(d) ==
  /\ Step(d, "fire")
  /\ \/ Land(d) /\ Onward(d) /\ UNCHANGED flaws
     \/ Fault /\ UNCHANGED landed /\ Onward(d) /\ flaws' = [Faulty(flaws) EXCEPT !.soft = TRUE]
     \/ Fault /\ Land(d) /\ Raises(d) /\ flaws' = [Faulty(flaws) EXCEPT !.lost = @ + 1]
  /\ UNCHANGED <<kind, marker, late>>

\* EmailSenderNode: the marker of an email to this recipient with this subject;
\* a cache error never blocks a send, and then no marker is written either.
Seen(d) ==
  /\ Step(d, "seen")
  /\ \/ /\ run[d].subject \in marker /\ UNCHANGED flaws
        /\ run' = [run EXCEPT ![d].pc = "done", ![d].status = "completed"]
     \/ run[d].subject \notin marker /\ Onward(d) /\ UNCHANGED flaws
     \/ Fault /\ run' = [run EXCEPT ![d].place = @ + 1, ![d].cached = FALSE]
        /\ flaws' = [Faulty(flaws) EXCEPT !.lost = @ + 1]
  /\ UNCHANGED <<kind, landed, marker, late>>

\* The send: an error reply or none at all completes the node, unsent.
Mail(d) ==
  /\ Step(d, "mail")
  /\ \/ Land(d) /\ Onward(d) /\ UNCHANGED flaws
     \/ /\ Fault /\ (Land(d) \/ UNCHANGED landed)
        /\ run' = [run EXCEPT ![d].pc = "done", ![d].status = "completed"]
        /\ flaws' = [Faulty(flaws) EXCEPT !.soft = TRUE, !.lost = @ + 1]
  /\ UNCHANGED <<kind, marker, late>>

Mark(d) ==
  /\ Step(d, "mark")
  /\ Onward(d)
  /\ \/ /\ marker' = IF run[d].cached THEN marker \cup {run[d].subject} ELSE marker
        /\ UNCHANGED flaws
     \/ Fault /\ UNCHANGED marker /\ flaws' = [Faulty(flaws) EXCEPT !.lost = @ + 1]
  /\ UNCHANGED <<kind, landed, late>>

Return(d) ==
  /\ run[d].pc = "running" /\ run[d].place > Places
  /\ run' = [run EXCEPT ![d].pc = "done", ![d].status = "completed"]
  /\ UNCHANGED <<kind, landed, marker, late, flaws>>

\* The executor's wait_for around node.run: a thread goes on, a request on the
\* loop is cut off before or after it arrived.
NodeTimeout(d) ==
  /\ run[d].pc = "running" /\ run[d].place <= Places /\ Fault
  /\ run' = [run EXCEPT ![d].pc = "done", ![d].status = "failed"]
  /\ flaws' = [Faulty(flaws) EXCEPT !.lost = @ + 1]
  /\ LET s == StepAt(run[d].place) IN
       \/ s \in Threaded /\ late' = late \cup {<<d, ItemAt(run[d].place)>>} /\ UNCHANGED landed
       \/ s \in Effects \ Threaded /\ Land(d) /\ UNCHANGED late
       \/ s \notin Threaded /\ UNCHANGED <<landed, late>>
  /\ UNCHANGED <<kind, marker>>

\* The worker dies; nothing of the node is left but what had landed.
Dies(d) ==
  /\ run[d].pc = "running" /\ Fault
  /\ run' = [run EXCEPT ![d].pc = "done", ![d].status = "lost"]
  /\ flaws' = [Faulty(flaws) EXCEPT !.lost = @ + 1]
  /\ UNCHANGED <<kind, landed, marker, late>>

\* ex=86400: a marker is gone after a day, and a job may be delivered later.
MarkerExpires(s) ==
  /\ s \in marker
  /\ marker' = marker \ {s} /\ flaws' = [flaws EXCEPT !.expired = TRUE]
  /\ UNCHANGED <<kind, run, landed, late>>

LateEffect(x) ==
  /\ x \in late
  /\ landed' = [landed EXCEPT ![x[1]][x[2]] = @ + 1] /\ late' = late \ {x}
  /\ UNCHANGED <<kind, run, marker, flaws>>

Next ==
  \/ \E d \in Dispatches :
       \/ Start(d) \/ Check(d) \/ Call(d) \/ Soft(d) \/ Write(d) \/ Fire(d) \/ Seen(d)
       \/ Mail(d) \/ Mark(d) \/ Return(d) \/ NodeTimeout(d) \/ Dies(d)
  \/ \E s \in marker : MarkerExpires(s)
  \/ \E x \in late : LateEffect(x)

Spec == Init /\ [][Next]_nodeVars

-----------------------------------------------------------------------------
TypeOK ==
  /\ kind \in NodeKinds
  /\ \A d \in Dispatches :
       /\ run[d].pc \in {"waiting", "running", "done"}
       /\ run[d].status \in {"none", "completed", "failed", "lost"}
       /\ run[d].attempt \in 0..MaxRetries /\ run[d].place \in 1..Places + 1
  /\ marker \subseteq Subjects(kind) /\ flaws.used \in 0..MaxFaults

\* "A failure after a partial write commits would duplicate the row / email /
\* external call": one delivery of a side-effecting node writes at most once,
\* whatever is lost or outlives its timeout (BaseNode.run).
OncePerDispatch ==
  SideEffecting(kind) => \A d \in Dispatches, i \in 1..Count : landed[d][i] <= 1

\* An email of this subject went out, by whichever delivery.
Sent(s) == \E d \in Dispatches : run[d].subject = s /\ landed[d][1] >= 1

\* A node that is COMPLETED did all its effects, except an email or a webhook
\* whose failure the node swallows.  An email that a marker suppressed was sent
\* by another delivery, with the same subject: no marker ever stops an email
\* that nobody got (EmailSenderNode.execute).
CompletedIsDone ==
  \A d \in Dispatches :
    (run[d].status = "completed" /\ \E p \in 1..Places : StepAt(p) \in Effects) =>
      \/ \A i \in 1..Count : landed[d][i] >= 1
      \/ kind = "webhook" /\ flaws.soft
      \/ kind = "email" /\ (flaws.soft \/ Sent(run[d].subject))

\* "One Send Email node sends at most once per execution": a second email needs
\* deliveries that overlap, or a reply, a worker or the cache lost on the way, or
\* a marker older than a day; or it has another subject.
MailExplained ==
  kind = "email" =>
    \A d, e \in Dispatches :
      d # e /\ landed[d][1] >= 1 /\ landed[e][1] >= 1 =>
        \/ flaws.overlap \/ flaws.lost > 0 \/ flaws.expired
        \/ run[d].subject # run[e].subject

NodesSound == TypeOK /\ OncePerDispatch /\ CompletedIsDone /\ MailExplained

-----------------------------------------------------------------------------
\* Statements of comments that the code does not keep.

\* "One Send Email node sends at most once per execution", also "a job
\* redelivered to a second worker": the marker is set after the send, lives for a
\* day, and only stops an email that has the same subject.
MailOnce == kind = "email" =>
              ~ \E d, e \in Dispatches : d # e /\ landed[d][1] + landed[e][1] > 1

\* "Side-effecting nodes (writers, senders, external POSTs) must NOT be blindly
\* auto-retried": an API source that POSTs and an MCP tool that writes are
\* SOURCE nodes, and are.
NoRepeatedPost == \A d \in Dispatches, i \in 1..Count : landed[d][i] <= 1
=============================================================================
