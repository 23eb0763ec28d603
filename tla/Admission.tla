----------------------------- MODULE Admission -----------------------------
(***************************************************************************)
(* How a request becomes a run: the JWT middleware, the role checks, the   *)
(* rate limiters, the webhook's token and signature, the kill switch with  *)
(* its cache in every process, and the three endpoints that submit a run   *)
(* (execute, execute-with-file, webhook) of router.py, for one deployed    *)
(* workflow.                                                               *)
(*                                                                         *)
(* Time is a number of ticks.  A webhook credential is a generation: the   *)
(* token and the secret that deploy or rotate minted together.  A step is  *)
(* one command to Mongo or Redis with what follows it up to the next one.  *)
(***************************************************************************)
EXTENDS Integers, FiniteSets

CONSTANTS
  Processes,    \* replicas of the workflow service
  Requests,
  Kinds,        \* the endpoints that are called
  Callers,      \* the identities that call: [role, org, itDept, token]
  Scopes,       \* the scopes that administrators halt
  CacheTTL,     \* _CACHE_TTL_SECONDS
  Grace,        \* WEBHOOK_TOKEN_GRACE_PERIOD
  Replay,       \* WEBHOOK_REPLAY_WINDOW
  Window,       \* RATE_LIMIT_WINDOW
  HookLimit,    \* RATE_LIMIT_WEBHOOK
  MaxTime, MaxHalts, MaxRotations, MaxFaults    \* bounds

Roles == {"super_admin", "org_admin", "dept_admin", "IT-workflow", "user"}
\* org is "own" for the organisation of the workflow.
Caller == [role : Roles, org : {"own", "other", ""}, itDept : BOOLEAN,
           token : {"valid", "expired", "forged", "malformed", "missing"}]

VARIABLES
  now,
  controls,   \* workflow_control: the scopes whose halt is enabled
  since,      \* history: when each scope was last halted
  cache,      \* _cache of each process
  unflushed,  \* processes whose set_control has not invalidated its cache yet
  hook,       \* generation of the webhook token, when each was minted
  bucket,     \* _rate_buckets: process, generation -> calls with their times
  req,        \* the request handlers with their local variables
  exec,       \* the execution document of each request
  jobs,       \* requests whose workflow.run job is in the queue
  halts, faults

switch == <<controls, since, unflushed, halts>>
store  == <<exec, jobs>>
vars   == <<now, switch, cache, hook, bucket, req, store, faults>>

-----------------------------------------------------------------------------
\* Who may do what.

WorkflowAccess(c) == \/ c.role \in {"super_admin", "org_admin", "IT-workflow"}
                     \/ c.role = "dept_admin" /\ c.itDept

\* verify_token: signature, expiry and the claims that must be there.
VerifyToken(t) == t \notin {"expired", "forged"}

\* The middleware lets the request through to the handler.  No revocation
\* checker is registered by this service, so no token counts as revoked.
Authenticated(c) == c.token \notin {"missing", "malformed"} /\ VerifyToken(c.token)

\* _check_workflow_action, action "run"
MayRun(c) == c.role = "super_admin" \/ (WorkflowAccess(c) /\ c.org = "own")

\* set_workflow_halt; the departments of a caller are of its organisation.
MayHalt(c, s) ==
  /\ Authenticated(c) /\ WorkflowAccess(c) /\ c.org # ""
  /\ \/ c.role = "super_admin"
     \/ s \in {"org", "dept"} /\ c.role = "org_admin" /\ c.org = "own"
     \/ s \in {"otherOrg", "otherDept"} /\ c.role = "org_admin" /\ c.org = "other"
     \/ s = "dept" /\ c.role = "dept_admin" /\ c.itDept /\ c.org = "own"

\* get_halt: some enabled control covers the workflow.
Halted(docs) == docs \cap {"global", "org", "dept"} # {}

-----------------------------------------------------------------------------
Never == -CacheTTL     \* at = 0.0: no reading of the clock is that fresh
NoCall == [pc |-> "idle", kind |-> "none", proc |-> "none", gen |-> 0,
           key |-> 0, current |-> 0, arrived |-> 0, looked |-> 0, began |-> 0,
           docs |-> {}, sure |-> TRUE, out |-> "none"]

Outcomes == {"none", "queued", "400", "401", "404", "429", "500",
             "503", "refused"}

\* One type invariant: every variable ranges over its declared type.
TypeOK ==
  /\ now \in 0..MaxTime
  /\ controls \subseteq Scopes /\ since \in [Scopes -> 0..MaxTime]
  /\ cache \in [Processes -> [at : Never..MaxTime, docs : SUBSET Scopes]]
  /\ unflushed \subseteq Processes
  /\ hook \in [gen : 1..(MaxRotations + 1), minted : [1..(MaxRotations + 1) -> 0..MaxTime]]
  /\ bucket \in [Processes \X (1..(MaxRotations + 1)) -> SUBSET (Requests \X (0..MaxTime))]
  /\ req \in [Requests ->
       [pc : {"idle", "lookup", "previous", "body", "check", "reading",
              "read", "blob", "insert", "enqueue", "undo", "done"},
        kind : Kinds \cup {"none"}, proc : Processes \cup {"none"},
        gen : 0..(MaxRotations + 1), key : 0..(MaxRotations + 1),
        current : 0..(MaxRotations + 1), arrived : 0..MaxTime, looked : 0..MaxTime,
        began : 0..MaxTime, docs : SUBSET Scopes, sure : BOOLEAN,
        out : Outcomes]]
  /\ exec \in [Requests -> {"none", "queued", "failed"}]
  /\ jobs \subseteq Requests
  /\ halts \in 0..MaxHalts /\ faults \in 0..MaxFaults

Init ==
  /\ now = 0
  /\ controls = {} /\ since = [s \in Scopes |-> 0]
  /\ cache = [p \in Processes |-> [at |-> Never, docs |-> {}]]
  /\ unflushed = {}
  /\ hook = [gen |-> 1, minted |-> [g \in 1..(MaxRotations + 1) |-> 0]]
  /\ bucket = [b \in Processes \X (1..(MaxRotations + 1)) |-> {}]
  /\ req = [r \in Requests |-> NoCall]
  /\ exec = [r \in Requests |-> "none"]
  /\ jobs = {}
  /\ halts = 0 /\ faults = 0

Goto(r, pc)  == req' = [req EXCEPT ![r].pc = pc]
\* The handler returns; what the limit's history needs is kept.
Over(c, o) ==
  LET kept == IF c.kind = "webhook"
              THEN [NoCall EXCEPT !.kind = c.kind, !.proc = c.proc,
                                  !.gen = c.gen, !.arrived = c.arrived]
              ELSE NoCall
  IN [kept EXCEPT !.pc = "done", !.out = o]
Answer(r, o) == req' = [req EXCEPT ![r] = Over(@, o)]
Fault == faults < MaxFaults /\ faults' = faults + 1
NoFault == UNCHANGED faults

Tick == /\ now < MaxTime
        /\ now' = now + 1
        /\ UNCHANGED <<switch, cache, hook, bucket, req, store, faults>>

-----------------------------------------------------------------------------
\* The kill switch.

\* set_control: upsert one scope ...
SetControl(s, on) ==
  /\ halts < MaxHalts /\ halts' = halts + 1
  /\ \E c \in Callers : MayHalt(c, s)
  /\ controls' = IF on THEN controls \cup {s} ELSE controls \ {s}
  /\ since' = IF on /\ s \notin controls THEN [since EXCEPT ![s] = now] ELSE since
  /\ UNCHANGED <<now, cache, hook, bucket, req, store, faults>>

\* ... by process p, or by a replica whose requests are not modelled, ...
HaltWrite(p, s, on) ==
  /\ p \notin unflushed /\ unflushed' = unflushed \cup {p}
  /\ SetControl(s, on)
HaltElsewhere(s, on) == UNCHANGED unflushed /\ SetControl(s, on)

\* ... then invalidate_cache, of this process only.
HaltFlush(p) ==
  /\ p \in unflushed
  /\ unflushed' = unflushed \ {p}
  /\ cache' = [cache EXCEPT ![p].at = Never]
  /\ UNCHANGED <<now, controls, since, halts, hook, bucket, req, store, faults>>

\* What follows the kill switch: the upload first, where there is one.
AfterSwitch(r) == IF req[r].kind = "file" THEN "blob" ELSE "insert"

\* _active_controls on a fresh cache: no await, the decision falls at once.
CheckCached(r) ==
  LET c == cache[req[r].proc] IN
  /\ req[r].pc = "check"
  /\ now - c.at < CacheTTL
  /\ req' = [req EXCEPT ![r] = IF Halted(c.docs) THEN Over(@, "503")
               ELSE [@ EXCEPT !.began = now, !.pc = AfterSwitch(r)]]
  /\ UNCHANGED <<now, switch, cache, hook, bucket, store, faults>>

\* A stale cache: the clock is read, then the store is asked.
CheckStale(r) ==
  /\ req[r].pc = "check"
  /\ now - cache[req[r].proc].at >= CacheTTL
  /\ req' = [req EXCEPT ![r].began = now, ![r].pc = "reading"]
  /\ UNCHANGED <<now, switch, cache, hook, bucket, store, faults>>

\* The store answers the find, or fails: then the run is allowed.
ReadControls(r) ==
  /\ req[r].pc = "reading"
  /\ \/ NoFault /\ req' = [req EXCEPT ![r].docs = controls, ![r].pc = "read"]
     \/ Fault /\ req' = [req EXCEPT ![r].sure = FALSE, ![r].pc = AfterSwitch(r)]
  /\ UNCHANGED <<now, switch, cache, hook, bucket, store>>

\* Mutant: the entry is stamped when it is stored.
StampsLate(r) ==
  /\ req[r].pc = "read"
  /\ cache' = [cache EXCEPT ![req[r].proc] = [at |-> now, docs |-> req[r].docs]]
  /\ req' = [req EXCEPT ![r] = IF Halted(@.docs) THEN Over(@, "503")
               ELSE [@ EXCEPT !.docs = {}, !.pc = AfterSwitch(r)]]
  /\ UNCHANGED <<now, switch, hook, bucket, store, faults>>

\* The handler resumes: it fills the cache with the time before the find.
CheckRead(r) ==
  /\ req[r].pc = "read"
  /\ cache' = [cache EXCEPT ![req[r].proc] =
                 [at |-> req[r].began, docs |-> req[r].docs]]
  /\ req' = [req EXCEPT ![r] = IF Halted(@.docs) THEN Over(@, "503")
               ELSE [@ EXCEPT !.docs = {}, !.pc = AfterSwitch(r)]]
  /\ UNCHANGED <<now, switch, hook, bucket, store, faults>>

-----------------------------------------------------------------------------
\* Manual runs.

Free(r, k) == req[r].pc = "idle" /\ k \in Kinds

\* execute_workflow and execute_workflow_with_file: the middleware, then the
\* document is read and the caller checked against it.
Execute(r, k, p, c) ==
  /\ Free(r, k) /\ k \in {"manual", "file"}
  /\ req' = [req EXCEPT ![r] =
       IF Authenticated(c) /\ MayRun(c)
       THEN [NoCall EXCEPT !.kind = k, !.proc = p, !.pc = "check"]
       ELSE Over(NoCall, "refused")]
  /\ UNCHANGED <<now, switch, cache, hook, bucket, store, faults>>

\* The uploaded file goes to the blob store; an empty one is refused, and a
\* put that fails ends the request.
Upload(r) ==
  /\ req[r].pc = "blob"
  /\ \/ NoFault /\ Goto(r, "insert")
     \/ NoFault /\ Answer(r, "400")
     \/ Fault /\ Answer(r, "500")
  /\ UNCHANGED <<now, switch, cache, hook, bucket, store>>

\* mint_workflow_org_token returns None: before the kill switch in the
\* webhook, after it in the manual endpoints.
MintFails(r) ==
  /\ \/ req[r].pc = "check" /\ req[r].kind = "webhook"
     \/ req[r].pc \in {"blob", "insert"} /\ req[r].kind # "webhook"
  /\ Fault /\ Answer(r, "500")
  /\ UNCHANGED <<now, switch, cache, hook, bucket, store>>

\* The execution document is inserted before the job is.  An insert that
\* raises ends the request, and may have been done when only the reply is lost.
InsertExecution(r) ==
  /\ req[r].pc = "insert"
  /\ LET made == [exec EXCEPT ![r] = "queued"] IN
     \/ NoFault /\ exec' = made /\ Goto(r, "enqueue")
     \/ Fault /\ exec' \in {exec, made} /\ Answer(r, "500")
  /\ UNCHANGED <<now, switch, cache, hook, bucket, jobs>>

\* enqueue answers, or raises: without having added the job, or after it when
\* only the reply was lost.
Enqueue(r) ==
  /\ req[r].pc = "enqueue"
  /\ \/ NoFault /\ jobs' = jobs \cup {r} /\ Answer(r, "queued")
     \/ Fault /\ Goto(r, "undo") /\ jobs' \in {jobs, jobs \cup {r}}
  /\ UNCHANGED <<now, switch, cache, hook, bucket, exec>>

\* The document of a run that could not be enqueued is marked failed, if the
\* update does not raise as well: that ends the request, so needs no bound.
UndoInsert(r) ==
  /\ req[r].pc = "undo"
  /\ LET undone == [exec EXCEPT ![r] = "failed"] IN
     \/ exec' = undone /\ Answer(r, "503")
     \/ exec' \in {exec, undone} /\ Answer(r, "500")
  /\ UNCHANGED <<now, switch, cache, hook, bucket, jobs, faults>>

-----------------------------------------------------------------------------
\* Webhook runs.

\* _check_rate_limit: the calls of the last Window, in this process.
Recent(calls) == {c \in calls : now - c[2] < Window}

\* A call to the token of generation g.  The limit is checked before the token
\* is known to be one; a refused call leaves the pruned list.
WebhookArrives(r, p, g) ==
  LET kept == Recent(bucket[<<p, g>>])
      call == [NoCall EXCEPT !.pc = "lookup", !.kind = "webhook", !.proc = p,
                             !.gen = g, !.arrived = now, !.current = hook.gen]
  IN
  /\ Free(r, "webhook") /\ g <= hook.gen
  /\ IF Cardinality(kept) >= HookLimit
     THEN /\ bucket' = [bucket EXCEPT ![<<p, g>>] = kept]
          /\ req' = [req EXCEPT ![r] = Over(call, "429")]
     ELSE /\ bucket' = [bucket EXCEPT ![<<p, g>>] = kept \cup {<<r, now>>}]
          /\ req' = [req EXCEPT ![r] = call]
  /\ UNCHANGED <<now, switch, cache, hook, store, faults>>

\* The document was found: its secret is the one to verify with.
Found(c) == [c EXCEPT !.pc = "body", !.key = hook.gen, !.looked = now]

\* The first find, by webhook_token.
LookupToken(r) ==
  /\ req[r].pc = "lookup"
  /\ req' = [req EXCEPT ![r] = IF @.gen = hook.gen THEN Found(@)
               ELSE [@ EXCEPT !.pc = "previous"]]
  /\ UNCHANGED <<now, switch, cache, hook, bucket, store, faults>>

\* Mutant: the previous token has no end.
GraceForgotten(r) ==
  /\ req[r].pc = "previous"
  /\ req' = [req EXCEPT ![r] = IF @.gen = hook.gen - 1 THEN Found(@) ELSE Over(@, "404")]
  /\ UNCHANGED <<now, switch, cache, hook, bucket, store, faults>>

\* The second find, by previous_webhook_token, with the grace period.
LookupPrevious(r) ==
  /\ req[r].pc = "previous"
  /\ req' = [req EXCEPT ![r] =
       IF @.gen = hook.gen - 1 /\ now - hook.minted[hook.gen] <= Grace
       THEN Found(@) ELSE Over(@, "404")]
  /\ UNCHANGED <<now, switch, cache, hook, bucket, store, faults>>

\* The body has arrived: timestamp and HMAC, then the payload.  The caller
\* signed at time t with the secret of generation g, over a body that is JSON
\* or is not.
VerifySignature(r, t, g, json) ==
  /\ req[r].pc = "body" /\ t <= now /\ g <= hook.gen
  /\ req' = [req EXCEPT ![r] =
       CASE now - t > Replay \/ g # @.key -> Over(@, "401")
         [] now - t <= Replay /\ g = @.key /\ ~json -> Over(@, "400")
         [] OTHER -> [@ EXCEPT !.pc = "check", !.key = g]]
  /\ UNCHANGED <<now, switch, cache, hook, bucket, store, faults>>

\* rotate_webhook_token: a new token and a new secret; the old token is kept
\* as the previous one, the one before it is forgotten.
Rotate ==
  /\ hook.gen <= MaxRotations
  /\ hook' = [gen |-> hook.gen + 1, minted |-> [hook.minted EXCEPT ![hook.gen + 1] = now]]
  /\ UNCHANGED <<now, switch, cache, bucket, req, store, faults>>

-----------------------------------------------------------------------------
Next ==
  \/ Tick \/ Rotate
  \/ \E p \in Processes : HaltFlush(p)
  \/ \E s \in Scopes, on \in BOOLEAN :
       HaltElsewhere(s, on) \/ \E p \in Processes : HaltWrite(p, s, on)
  \/ \E r \in Requests :
       \/ CheckCached(r) \/ CheckStale(r) \/ ReadControls(r) \/ CheckRead(r)
       \/ Upload(r) \/ MintFails(r) \/ InsertExecution(r) \/ Enqueue(r) \/ UndoInsert(r)
       \/ LookupToken(r) \/ LookupPrevious(r)
       \/ \E t \in 0..now, g \in 1..hook.gen, json \in BOOLEAN : VerifySignature(r, t, g, json)
       \/ \E p \in Processes :
            \/ \E k \in Kinds, c \in Callers : Execute(r, k, p, c)
            \/ \E g \in 1..hook.gen : WebhookArrives(r, p, g)

Spec == Init /\ [][Next]_vars

-----------------------------------------------------------------------------
Passed(r) == req[r].pc \in {"blob", "insert", "enqueue", "undo"} \/ exec[r] # "none"

\* A halt bites everywhere within the life of a cache entry: no handler whose
\* look at the kill switch began CacheTTL or more after a covering halt was
\* enabled gets past it, in whatever process, whichever readers refilled the
\* cache around the write, unless the control store could not be read
\* (_active_controls, set_control).
PassesInTime ==
  \A r \in Requests :
    ~Passed(r) /\ Passed(r)' /\ req'[r].sure =>
      \A s \in controls : Halted({s}) => since[s] + CacheTTL > req'[r].began
HaltBites == [][PassesInTime]_vars

\* Rotation takes effect: a call that gets past the webhook's checks has the
\* token of the document that was found or the one before it, that token was
\* replaced at most Grace before the lookup, and a secret that had been replaced
\* when the call arrived verifies nothing (webhook_trigger, rotate_webhook_token).
RotationBites ==
  \A r \in Requests :
    req[r].kind = "webhook" /\ (req[r].pc \in {"check", "reading", "read"} \/ Passed(r)) =>
      /\ req[r].key >= req[r].current
      /\ req[r].gen >= req[r].key - 1
      /\ req[r].gen < hook.gen => req[r].looked - hook.minted[req[r].gen + 1] <= Grace

\* No process lets more than HookLimit calls of one token into any Window
\* (_check_rate_limit prunes before it counts).
CallsOf(p, g) == {r \in Requests : /\ req[r].kind = "webhook" /\ req[r].proc = p
                                   /\ req[r].gen = g /\ req[r].out # "429"}
HookLimitHolds ==
  \A p \in Processes, g \in 1..hook.gen, t \in 0..now :
    Cardinality({r \in CallsOf(p, g) : t - req[r].arrived \in 0..(Window - 1)}) <= HookLimit

\* What the caller is told is so: "queued" with its job in the queue; and only
\* a request that ended in a 500 leaves a "queued" document without one, its
\* insert or the update that undoes it having raised (execute_workflow,
\* execute_workflow_with_file, webhook_trigger).
AnswersTruly ==
  \A r \in Requests : req[r].pc = "done" =>
    /\ req[r].out = "queued" => exec[r] = "queued" /\ r \in jobs
    /\ exec[r] = "queued" /\ r \notin jobs => req[r].out = "500"

\* Every variable keeps its type, a replaced webhook credential opens nothing,
\* a token's calls stay within the limit of their window, and callers are told
\* truly whether their run was queued (webhook_trigger, _check_rate_limit,
\* execute_workflow).
AdmissionSound == TypeOK /\ RotationBites /\ HookLimitHolds /\ AnswersTruly

-----------------------------------------------------------------------------
\* Statements of comments that the code does not keep.

\* execute_workflow: "Mark the pre-created execution as failed so the UI sees
\* something": no finished request leaves a "queued" document without its job.
QueuedHasJob ==
  \A r \in Requests : req[r].pc = "done" /\ exec[r] = "queued" => r \in jobs

\* rotate_webhook_token: "stores the old one with a grace period so in-flight
\* requests using the old token still work briefly": a call that was sent to
\* the previous token in its grace period, and signed with the secret that
\* belongs to it, is not refused for its signature.
GraceHonoured ==
  [][\A r \in Requests :
       /\ req[r].pc = "body" /\ req[r].gen = hook.gen - 1
       /\ now - hook.minted[hook.gen] <= Grace /\ now <= Replay
       => ~VerifySignature(r, now, req[r].gen, TRUE) \/ req'[r].out # "401"]_vars
=============================================================================
