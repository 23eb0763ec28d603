----------------------------- MODULE Authoring -----------------------------
(***************************************************************************)
(* One workflow document and its deploy lineage: the authoring, deployment *)
(* and version endpoints of router.py.                                     *)
(*                                                                         *)
(* Every endpoint reads the document, decides, and writes with later       *)
(* commands that do not repeat the decision, so requests interleave        *)
(* between two commands to Mongo.  A request runs one endpoint.  A step is *)
(* one command with what follows it up to the next one.                    *)
(*                                                                         *)
(* A graph is one of a few that the endpoints tell apart: Refused have no  *)
(* nodes or something that _validate_deploy_environment rejects, Hooked    *)
(* have a webhook trigger; _validate_dag keeps graphs that are no DAG out. *)
(* A schedule is off, on, or bad (enabled with a cron expression           *)
(* that validate_cron_schedule refuses).  A webhook token stands for the   *)
(* token and the secret minted with it and is named after the request      *)
(* that minted it.  What the scheduler does with an announcement is in     *)
(* CronScheduler.                                                          *)
(***************************************************************************)
EXTENDS Integers, FiniteSets

CONSTANTS
  Requests,
  Operations,   \* the endpoints that are called
  Keep,         \* MAX_WORKFLOW_VERSIONS
  MaxDeaths,    \* bound: requests whose process dies
  Graphs, Refused, Hooked,
  NoToken

Endpoints == {"update", "patch", "deploy", "undeploy", "rollback", "erase",
              "archive", "restore", "delete", "rotate", "duplicate"}

ASSUME ConstantsAssumption ==
  /\ Operations \subseteq Endpoints
  /\ Keep \in Nat \ {0} /\ MaxDeaths \in Nat
  /\ Refused \subseteq Graphs /\ Hooked \subseteq Graphs /\ Graphs # {}
  /\ NoToken \notin Requests

VARIABLES
  doc,        \* the document in Workflows
  versions,   \* WorkflowVersions: number -> snapshot
  req,        \* the request handlers with their local variables
  announced,  \* last schedule announcement: is the cron job registered?
  clone,      \* the document that /duplicate inserted
  deaths,
  used,       \* history: numbers that were ever inserted
  erased      \* history: numbers deleted by hand

lineage == <<versions, used, erased>>
vars == <<doc, lineage, req, announced, clone, deaths>>

-----------------------------------------------------------------------------
Schedules == {"off", "on", "bad"}
Tokens == Requests \cup {NoToken}
Statuses == {"none", "draft", "deployed", "inactive", "active"}

Document == [graph : Graphs, sched : Schedules, version : Nat,
             status : Statuses, live : BOOLEAN, archived : BOOLEAN,
             dv : Nat, hook : Tokens, oldHook : Tokens]
Snapshot == [graph : Graphs, sched : Schedules]

\* create_workflow with nodes g and schedule s; no document before it.
Fresh(g, s) == [graph |-> g, sched |-> s, version |-> 1, status |-> "draft",
                live |-> TRUE, archived |-> FALSE, dv |-> 0,
                hook |-> NoToken, oldHook |-> NoToken]
AnyGraph == CHOOSE g \in Graphs : TRUE
NoDoc == [Fresh(AnyGraph, "off") EXCEPT !.version = 0, !.status = "none"]

\* A handler: the version and content that its client loaded, the content it
\* works with, the number it chose or was given, the numbers it prunes, the
\* token it read or minted, whether the workflow it read was deployed, and
\* what it will announce.
Handler == [pc : {"idle", "editing", "write", "reload", "target", "number",
                  "insert", "prune", "drop", "announce", "done"},
            op : Endpoints \cup {"none"}, loaded : Snapshot, version : Nat,
            checked : BOOLEAN, snap : Snapshot, num : Nat, drop : SUBSET Nat,
            hook : Tokens, isLive : BOOLEAN, want : BOOLEAN]
NoContent == [graph |-> AnyGraph, sched |-> "off"]
At(op, pc) == [pc |-> pc, op |-> op, loaded |-> NoContent, version |-> 0,
               checked |-> FALSE, snap |-> NoContent, num |-> 0, drop |-> {},
               hook |-> NoToken, isLive |-> FALSE, want |-> FALSE]

Content(d) == [graph |-> d.graph, sched |-> d.sched]

Step(r, pc) == req' = [req EXCEPT ![r].pc = pc]
Return(r)   == req' = [req EXCEPT ![r] = At("none", "done")]
Busy(r, op, pc) == req[r].op = op /\ req[r].pc = pc

\* The first command of an endpoint: find_one, 404 without a document, and
\* the checks of role and organisation, which these callers pass.
Begins(r, op) == req[r].pc = "idle" /\ op \in Operations /\ doc # NoDoc
Reads(r, op, pc) == req' = [req EXCEPT ![r] = At(op, pc)]

\* After the last write: publish_schedule_refresh, or the end.
Announces(r, yes, want) ==
  req' = [req EXCEPT ![r] =
            IF yes THEN [At("none", "announce") EXCEPT !.want = want]
                   ELSE At("none", "done")]

Init ==
  /\ doc = NoDoc
  /\ versions = [n \in {} |-> NoContent]
  /\ req = [r \in Requests |-> At("none", "idle")]
  /\ announced = FALSE /\ clone = NoDoc /\ deaths = 0
  /\ used = {} /\ erased = {}

-----------------------------------------------------------------------------
\* create_workflow, and create_from_template, which takes no schedule.
CreateWorkflow ==
  /\ doc = NoDoc
  /\ \E g \in Graphs, s \in Schedules : doc' = Fresh(g, s)
  /\ UNCHANGED <<lineage, req, announced, clone, deaths>>

CreateFromTemplate ==
  /\ doc = NoDoc
  /\ \E g \in Graphs : doc' = Fresh(g, "off")
  /\ UNCHANGED <<lineage, req, announced, clone, deaths>>

\* get_workflow: a client loads the document to edit it.
GetWorkflow(r) ==
  /\ Begins(r, "update")
  /\ req' = [req EXCEPT ![r] = [At("update", "editing") EXCEPT
               !.loaded = Content(doc), !.version = doc.version]]
  /\ UNCHANGED <<doc, lineage, announced, clone, deaths>>

\* A body of update_workflow has a graph, and may have a schedule.
Bodies == {b \in [content : Snapshot, sched : BOOLEAN] :
             b.sched \/ b.content.sched = "off"}

\* update_workflow: 409 when expected_version is not the stored version.
UpdateCheck(r) ==
  /\ Busy(r, "update", "editing")
  /\ \E body \in Bodies, expected \in BOOLEAN :
       IF expected /\ doc.version # req[r].version
       THEN Return(r)
       ELSE req' = [req EXCEPT ![r].pc = "write", ![r].checked = expected,
                               ![r].snap = body.content, ![r].want = body.sched]
  /\ UNCHANGED <<doc, lineage, announced, clone, deaths>>

\* The update itself, which no longer looks at the version.
UpdateWrite(r) ==
  /\ Busy(r, "update", "write")
  /\ doc' = [doc EXCEPT !.graph = req[r].snap.graph, !.version = @ + 1,
                        !.sched = IF req[r].want THEN req[r].snap.sched ELSE @]
  /\ IF req[r].want THEN Step(r, "reload") ELSE Return(r)
  /\ UNCHANGED <<lineage, announced, clone, deaths>>

\* A body with a schedule: the handler reads the document again and
\* reloads the cron job of a deployed workflow.
UpdateReload(r) ==
  /\ Busy(r, "update", "reload")
  /\ Announces(r, doc.status = "deployed", doc.sched = "on")
  /\ UNCHANGED <<doc, lineage, announced, clone, deaths>>

\* patch_workflow_schedule writes the whole schedule.
PatchRead(r) ==
  /\ Begins(r, "patch")
  /\ \E s \in Schedules :
       req' = [req EXCEPT ![r] = [At("patch", "write") EXCEPT
                 !.isLive = (doc.status = "deployed"), !.snap.sched = s]]
  /\ UNCHANGED <<doc, lineage, announced, clone, deaths>>

PatchWrite(r) ==
  /\ Busy(r, "patch", "write")
  /\ doc' = [doc EXCEPT !.sched = req[r].snap.sched, !.version = @ + 1]
  /\ Announces(r, req[r].isLive, req[r].snap.sched = "on")
  /\ UNCHANGED <<lineage, announced, clone, deaths>>

\* The announcement reaches the scheduler, or publish fails and is logged.
Announce(r) ==
  /\ req[r].pc = "announce"
  /\ announced' \in {announced, req[r].want}
  /\ Return(r)
  /\ UNCHANGED <<doc, lineage, clone, deaths>>

-----------------------------------------------------------------------------
(***************************************************************************)
(* Deploy and rollback append a snapshot before they touch the document.   *)
(***************************************************************************)
\* What deploy, and a rollback of a live workflow, refuse.
Deployable(c) == c.graph \notin Refused /\ c.sched # "bad"

\* The token a deploy keeps: the stored one, else a new one for a webhook
\* workflow, else none.
DeployHook(r) == IF doc.hook = NoToken /\ doc.graph \in Hooked THEN r
                                                             ELSE doc.hook

DeployRead(r) ==
  /\ Begins(r, "deploy")
  /\ IF Deployable(Content(doc))
     THEN req' = [req EXCEPT ![r] = [At("deploy", "number") EXCEPT
                    !.snap = Content(doc), !.hook = DeployHook(r)]]
     ELSE Return(r)
  /\ UNCHANGED <<doc, lineage, announced, clone, deaths>>

\* _append_version_snapshot: the highest number of the collection, plus one.
NextNumber == IF DOMAIN versions = {} THEN 1
              ELSE 1 + (CHOOSE n \in DOMAIN versions :
                          \A m \in DOMAIN versions : m <= n)

SnapshotNumber(r) ==
  /\ req[r].op \in {"deploy", "rollback"} /\ req[r].pc = "number"
  /\ req' = [req EXCEPT ![r].pc = "insert", ![r].num = NextNumber]
  /\ UNCHANGED <<doc, lineage, announced, clone, deaths>>

Inserted(n, s) ==
  versions' = [m \in DOMAIN versions \cup {n} |->
                 IF m = n THEN s ELSE versions[m]]

\* Mutant of SnapshotInsert: no unique index on (workflow_id, version_number).
SnapshotForks(r) ==
  /\ req[r].op \in {"deploy", "rollback"} /\ req[r].pc = "insert"
  /\ Inserted(req[r].num, req[r].snap)
  /\ used' = used \cup {req[r].num}
  /\ Step(r, "prune")
  /\ UNCHANGED <<doc, erased, announced, clone, deaths>>

\* The insert; the unique index makes the later of two equal numbers raise.
SnapshotInsert(r) ==
  /\ req[r].op \in {"deploy", "rollback"} /\ req[r].pc = "insert"
  /\ IF req[r].num \in DOMAIN versions
     THEN Return(r) /\ UNCHANGED <<versions, used>>
     ELSE /\ Inserted(req[r].num, req[r].snap)
          /\ used' = used \cup {req[r].num}
          /\ Step(r, "prune")
  /\ UNCHANGED <<doc, erased, announced, clone, deaths>>

\* Mutant of Pruned: the window is one snapshot too small.
PrunedTooEagerly(n) == {m \in DOMAIN versions \ {n} :
  Cardinality({k \in DOMAIN versions : k > m}) >= Keep - 1}

\* _prune_old_versions: what is neither among the Keep newest nor protected.
Pruned(n) == {m \in DOMAIN versions \ {n} :
  Cardinality({k \in DOMAIN versions : k > m}) >= Keep}

PruneRead(r) ==
  /\ req[r].op \in {"deploy", "rollback"} /\ req[r].pc = "prune"
  /\ req' = [req EXCEPT ![r].pc = "drop", ![r].drop = Pruned(req[r].num)]
  /\ UNCHANGED <<doc, lineage, announced, clone, deaths>>

Without(S) == [m \in DOMAIN versions \ S |-> versions[m]]

PruneDelete(r) ==
  /\ req[r].op \in {"deploy", "rollback"} /\ req[r].pc = "drop"
  /\ versions' = Without(req[r].drop)
  /\ req' = [req EXCEPT ![r].pc = "write", ![r].drop = {}]
  /\ UNCHANGED <<doc, used, erased, announced, clone, deaths>>

\* The document goes live.
DeployWrite(r) ==
  /\ Busy(r, "deploy", "write")
  /\ doc' = [doc EXCEPT !.status = "deployed", !.dv = req[r].num,
                        !.hook = IF req[r].hook = NoToken THEN @
                                                    ELSE req[r].hook]
  /\ Announces(r, req[r].snap.sched = "on", TRUE)
  /\ UNCHANGED <<lineage, announced, clone, deaths>>

UndeployRead(r) ==
  /\ Begins(r, "undeploy")
  /\ Reads(r, "undeploy", "write")
  /\ UNCHANGED <<doc, lineage, announced, clone, deaths>>

UndeployWrite(r) ==
  /\ Busy(r, "undeploy", "write")
  /\ doc' = [doc EXCEPT !.status = "draft"]
  /\ Announces(r, TRUE, FALSE)
  /\ UNCHANGED <<lineage, announced, clone, deaths>>

\* rollback_workflow to version n.
RollbackRead(r) ==
  /\ Begins(r, "rollback")
  /\ \E n \in used :
       req' = [req EXCEPT ![r] = [At("rollback", "target") EXCEPT
                 !.isLive = (doc.status = "deployed"), !.num = n]]
  /\ UNCHANGED <<doc, lineage, announced, clone, deaths>>

RollbackTarget(r) ==
  /\ Busy(r, "rollback", "target")
  /\ IF /\ req[r].num \in DOMAIN versions
        /\ req[r].isLive => Deployable(versions[req[r].num])
     THEN req' = [req EXCEPT ![r].snap = versions[req[r].num],
                    ![r].num = 0,
                    ![r].pc = IF req[r].isLive THEN "number" ELSE "write"]
     ELSE Return(r)
  /\ UNCHANGED <<doc, lineage, announced, clone, deaths>>

RollbackWrite(r) ==
  /\ Busy(r, "rollback", "write")
  /\ doc' = [doc EXCEPT !.graph = req[r].snap.graph,
                        !.sched = req[r].snap.sched, !.version = @ + 1,
                        !.dv = IF req[r].isLive THEN req[r].num ELSE @]
  /\ Announces(r, req[r].isLive, req[r].snap.sched = "on")
  /\ UNCHANGED <<lineage, announced, clone, deaths>>

\* delete_workflow_version, refused for the live number.
EraseRead(r) ==
  /\ Begins(r, "erase")
  /\ \E n \in used :
       IF doc.dv = n
       THEN Return(r)
       ELSE req' = [req EXCEPT ![r] = [At("erase", "write") EXCEPT !.num = n]]
  /\ UNCHANGED <<doc, lineage, announced, clone, deaths>>

EraseWrite(r) ==
  /\ Busy(r, "erase", "write")
  /\ versions' = Without({req[r].num})
  /\ erased' = IF req[r].num \in DOMAIN versions THEN erased \cup {req[r].num}
                                                 ELSE erased
  /\ Return(r)
  /\ UNCHANGED <<doc, used, announced, clone, deaths>>

-----------------------------------------------------------------------------
(***************************************************************************)
(* Archive, restore, delete, token rotation, duplicate.                    *)
(***************************************************************************)
ArchiveRead(r) ==
  /\ Begins(r, "archive")
  /\ IF doc.archived THEN Return(r) ELSE Reads(r, "archive", "write")
  /\ UNCHANGED <<doc, lineage, announced, clone, deaths>>

ArchiveWrite(r) ==
  /\ Busy(r, "archive", "write")
  /\ doc' = [doc EXCEPT !.archived = TRUE, !.status = "inactive"]
  /\ Return(r)
  /\ UNCHANGED <<lineage, announced, clone, deaths>>

RestoreRead(r) ==
  /\ Begins(r, "restore")
  /\ IF doc.archived THEN Reads(r, "restore", "write") ELSE Return(r)
  /\ UNCHANGED <<doc, lineage, announced, clone, deaths>>

RestoreWrite(r) ==
  /\ Busy(r, "restore", "write")
  /\ doc' = [doc EXCEPT !.archived = FALSE, !.status = "active"]
  /\ Return(r)
  /\ UNCHANGED <<lineage, announced, clone, deaths>>

\* delete_workflow: is_active goes; nothing is announced.
DeleteRead(r) ==
  /\ Begins(r, "delete")
  /\ Reads(r, "delete", "write")
  /\ UNCHANGED <<doc, lineage, announced, clone, deaths>>

DeleteWrite(r) ==
  /\ Busy(r, "delete", "write")
  /\ doc' = [doc EXCEPT !.live = FALSE]
  /\ Return(r)
  /\ UNCHANGED <<lineage, announced, clone, deaths>>

\* rotate_webhook_token: a new token, the one it read stays for a while.
RotateRead(r) ==
  /\ Begins(r, "rotate")
  /\ IF doc.hook = NoToken
     THEN Return(r)
     ELSE req' = [req EXCEPT ![r] = [At("rotate", "write") EXCEPT
                                       !.hook = doc.hook]]
  /\ UNCHANGED <<doc, lineage, announced, clone, deaths>>

RotateWrite(r) ==
  /\ Busy(r, "rotate", "write")
  /\ doc' = [doc EXCEPT !.hook = r, !.oldHook = req[r].hook]
  /\ Return(r)
  /\ UNCHANGED <<lineage, announced, clone, deaths>>

\* duplicate_workflow copies every field but the ones it replaces.  Nobody
\* reads the copy between its read and its insert: one step.
Duplicate(r) ==
  /\ Begins(r, "duplicate")
  /\ clone' = [doc EXCEPT !.version = 1, !.archived = FALSE]
  /\ Return(r)
  /\ UNCHANGED <<doc, lineage, announced, deaths>>

\* The process of a request dies between two commands.
RequestDies(r) ==
  /\ req[r].pc \notin {"idle", "done"} /\ deaths < MaxDeaths
  /\ deaths' = deaths + 1
  /\ Return(r)
  /\ UNCHANGED <<doc, lineage, announced, clone>>

-----------------------------------------------------------------------------
Editing(r) == \/ GetWorkflow(r) \/ UpdateCheck(r) \/ UpdateWrite(r)
              \/ UpdateReload(r) \/ PatchRead(r) \/ PatchWrite(r)
              \/ Announce(r)
Deploying(r) == \/ DeployRead(r) \/ SnapshotNumber(r) \/ SnapshotInsert(r)
                \/ PruneRead(r) \/ PruneDelete(r) \/ DeployWrite(r)
                \/ UndeployRead(r) \/ UndeployWrite(r) \/ RollbackRead(r)
                \/ RollbackTarget(r) \/ RollbackWrite(r)
                \/ EraseRead(r) \/ EraseWrite(r)
Managing(r) == \/ ArchiveRead(r) \/ ArchiveWrite(r) \/ RestoreRead(r)
               \/ RestoreWrite(r) \/ DeleteRead(r) \/ DeleteWrite(r)
               \/ RotateRead(r) \/ RotateWrite(r) \/ Duplicate(r)
               \/ RequestDies(r)

Next == \/ CreateWorkflow \/ CreateFromTemplate
        \/ \E r \in Requests : Editing(r) \/ Deploying(r) \/ Managing(r)

Spec == Init /\ [][Next]_vars

-----------------------------------------------------------------------------
(***************************************************************************)
(* Properties.                                                             *)
(***************************************************************************)
TypeOK ==
  /\ doc \in Document /\ clone \in Document
  /\ req \in [Requests -> Handler]
  /\ announced \in BOOLEAN /\ deaths \in 0..MaxDeaths
  /\ used \in SUBSET Nat /\ erased \in SUBSET Nat
  /\ DOMAIN versions \in SUBSET Nat
  /\ \A n \in DOMAIN versions : versions[n] \in Snapshot

\* expected_version can only protect a client if equal versions mean equal
\* content: whoever holds a copy with the stored version holds the stored
\* graph and schedule, whatever update, patch or rollback wrote in between.
VersionTellsCopies ==
  \A r \in Requests :
    (req[r].op = "update" /\ req[r].pc \in {"editing", "write"}
      /\ req[r].version = doc.version)
       => req[r].loaded = Content(doc)

\* The live version keeps its snapshot until Keep newer ones were taken,
\* however deploys, rollbacks and prunes overlap or die half-way; deleting
\* it by hand while it is about to go live is the exception (see
\* LiveNotErased).
LiveSnapshotKept ==
  (doc.dv # 0 /\ doc.dv \notin erased
    /\ Cardinality({n \in used : n > doc.dv}) < Keep)
       => doc.dv \in DOMAIN versions

\* Every variable keeps its type, equal edit versions mean equal content, and
\* the live version keeps its snapshot until Keep newer ones were taken
\* (update_workflow, _append_version_snapshot, _prune_old_versions).
AuthoringSound == TypeOK /\ VersionTellsCopies /\ LiveSnapshotKept

\* What the lineage promises its readers: a snapshot is never rewritten (a
\* racing deploy raises instead) and the live pointer only ever moves to a
\* number whose snapshot was inserted before, whichever deploys and rollbacks
\* race or die between insert and update.
Lineage == INSTANCE DeployLineage WITH
             taken <- used, kept <- versions, live <- doc.dv

ImplementsLineage == Lineage!Spec

\* "Reject a save built on a stale copy rather than letting it silently
\* overwrite newer server state": a checked save finds the version that its
\* client loaded.
NoSilentOverwrite ==
  [][\A r \in Requests :
       (Busy(r, "update", "write") /\ req[r].checked /\ doc' # doc
         /\ req'[r].pc # "write")
            => doc.version = req[r].version]_vars

\* "The currently-live version cannot be deleted."
LiveNotErased ==
  (doc.status = "deployed" /\ doc.dv \in erased) => doc.dv \in DOMAIN versions

\* deployed_version "means what's running": runs load the document.
LiveIsSnapshot ==
  (doc.status = "deployed" /\ doc.dv \in DOMAIN versions)
     => Content(doc) = versions[doc.dv]

\* A rotated token is out of use: no later deploy brings it back.
RotationSticks ==
  [][doc'.hook # doc.oldHook \/ doc.oldHook = NoToken]_vars

\* Archiving is "reversible via /restore": a document that WorkflowDefinition
\* accepts before is accepted after.
RestoreRuns == doc.status # "active"
=============================================================================
