------------------------------- MODULE Media -------------------------------
(***************************************************************************)
(* Media that travels by reference: blob_store.py, the upload endpoint and *)
(* the maintenance sweep (router.py), the nodes that fetch files           *)
(* (nodes/sources.py, FileFetch of nodes/multimodal.py), the nodes that    *)
(* consume blobs (OCR, transcription, vision) and the executor's sweep of  *)
(* a terminal run.                                                         *)
(*                                                                         *)
(* Each run has one source node and one consumer, perhaps with an approval *)
(* between them.  A remote file is known by its kind: "csv" parses, "bin"  *)
(* becomes a blob, "dir" is a directory that FTP and SFTP list like a      *)
(* file, "big" is over the S3 limit, "dot" is a dot file, "marker" stands  *)
(* for the directory itself, "other" has an extension that is filtered     *)
(* out.  A folder node may also be told to list without reading.           *)
(*                                                                         *)
(* A job whose worker is gone may be delivered again, and the run starts   *)
(* over, whatever its document says.  That a job is delivered again while  *)
(* its first worker goes on is not modelled here (see JobQueue).           *)
(***************************************************************************)
EXTENDS Integers, Sequences, FiniteSets, SequencesExt

CONSTANTS
  Runs,
  Kinds,      \* source nodes of the workflows
  Folders,    \* what the remote holds: sequences of file kinds
  Retries,    \* max_retries of the source node
  MaxFaults, MaxSweeps     \* bounds

VARIABLES
  exec,      \* WorkflowExecutions and the worker's side of the run
  blobs,     \* workflow_blobs.files: [run, n]
  inflight,  \* uploads to GridFS whose caller is gone
  scan,      \* the maintenance sweep
  faults, sweeps

mediaVars == <<exec, blobs, inflight, scan, faults, sweeps>>

Folder   == {"ftp_folder", "sftp_folder", "s3_folder"}
Alive    == {"pending", "running", "resuming", "paused", "waiting_approval"}
Terminal == {"completed", "failed", "cancelled", "timed_out"}

Blob(r) == [run |-> r, n |-> exec[r].puts + 1]
Of(r)   == {b \in blobs : b.run = r}

-----------------------------------------------------------------------------
\* The source nodes: what each lists, and what each makes of a file.

FtpFolder(f)  == f \notin {"marker", "other"}          \* "." and "..", extensions
SftpFolder(f) == f \notin {"marker", "dot", "other"}   \* names with a dot, extensions
S3Folder(f)   == f \notin {"marker", "dir", "other"}   \* keys only, no markers

\* S3 File, SFTP File and Fetch File read the one file they are pointed at.
SingleFile(dir) == SubSeq(dir, 1, 1)

Listed(kind, dir) == CASE kind = "ftp_folder"  -> SelectSeq(dir, FtpFolder)
                       [] kind = "sftp_folder" -> SelectSeq(dir, SftpFolder)
                       [] kind = "s3_folder"   -> SelectSeq(dir, S3Folder)
                       [] OTHER                -> SingleFile(dir)

\* _parse_file_by_type after the download: "put" goes to the blob store.
ParseFile(f) == CASE f = "csv" -> {"items", "error"}
                  [] f = "dir" -> {"error"}
                  [] OTHER     -> {"put", "error"}

\* FileFetch stores whatever it downloads; S3 folders skip large files.
ReadFile(kind, f) == CASE kind = "fetch" -> {"put", "error"}
                       [] kind = "s3_folder" /\ f = "big" -> {"error"}
                       [] OTHER -> ParseFile(f)

-----------------------------------------------------------------------------
Init ==
  /\ exec \in [Runs -> [status : {"none"}, pc : {"upload"}, kind : Kinds, dir : Folders,
                        attempt : {0}, todo : {<<>>}, entries : {<<>>}, refs : {{}},
                        puts : {0}, robbed : {FALSE}, swept : {FALSE}, leaked : {FALSE}]]
  /\ blobs = {} /\ inflight = {} /\ faults = 0 /\ sweeps = 0
  /\ scan = [pc |-> "idle", listed |-> {}, orphans |-> {}]

Fault == faults < MaxFaults /\ faults' = faults + 1
Set(r, x) == exec' = [exec EXCEPT ![r] = x]

\* execute_with_file: put_blob, insert of the queued document, enqueue.  The
\* service may die in between, and a failed enqueue marks the run failed.
Upload(r) ==
  /\ exec[r].pc = "upload"
  /\ blobs' = blobs \cup {Blob(r)}
  /\ Set(r, [exec[r] EXCEPT !.pc = "insert", !.puts = @ + 1, !.refs = {Blob(r)}])
  /\ UNCHANGED <<inflight, scan, faults, sweeps>>

InsertQueued(r) ==
  /\ exec[r].pc = "insert"
  /\ \/ Set(r, [exec[r] EXCEPT !.pc = "queue", !.status = "queued"]) /\ UNCHANGED faults
     \/ Fault /\ Set(r, [exec[r] EXCEPT !.pc = "end", !.leaked = TRUE])
  /\ UNCHANGED <<blobs, inflight, scan, sweeps>>

Enqueue(r) ==
  /\ exec[r].pc = "queue"
  /\ \/ Set(r, [exec[r] EXCEPT !.pc = "queued"]) /\ UNCHANGED faults
     \/ Fault /\ Set(r, [exec[r] EXCEPT !.pc = "end", !.status = "failed", !.leaked = TRUE])
  /\ UNCHANGED <<blobs, inflight, scan, sweeps>>

\* The worker takes the run up.
Begin(r) ==
  /\ exec[r].pc = "queued" /\ exec[r].status = "queued"
  /\ Set(r, [exec[r] EXCEPT !.pc = "list", !.status = "running"])
  /\ UNCHANGED <<blobs, inflight, scan, faults, sweeps>>

\* The job is delivered to another worker: the first one is dead, or could not
\* acknowledge it, or the enqueue that failed had reached the queue.  execute does
\* not look at the document; what it starts from is the upload of the trigger.
DeliverAgain(r) ==
  /\ exec[r].pc \in {"list", "files", "put", "gate", "consume", "sweep", "end"}
  /\ exec[r].status # "none" /\ Fault
  /\ Set(r, [exec[r] EXCEPT !.pc = "list", !.status = "running", !.attempt = 0, !.todo = <<>>,
                            !.entries = <<>>, !.refs = {b \in @ : b.n = 1}])
  /\ UNCHANGED <<blobs, inflight, scan, sweeps>>

Failed(x) == [x EXCEPT !.status = "failed", !.pc = "sweep", !.todo = <<>>]

\* BaseNode.run: a source node is retried, from its listing; what the failed
\* attempt stored stays behind until the run's sweep.
AttemptFails(x) ==
  IF x.attempt < Retries
  THEN [x EXCEPT !.pc = "list", !.attempt = @ + 1, !.todo = <<>>, !.entries = <<>>,
                 !.refs = {b \in @ : b.n = 1}]       \* the upload
  ELSE Failed(x)

\* The listing; with read_files off its paths are the result.
List(r) ==
  /\ exec[r].pc = "list"
  /\ \/ /\ LET files == Listed(exec[r].kind, exec[r].dir)
            paths == [i \in DOMAIN files |-> [file |-> files[i], is |-> "path"]] IN
           \/ Set(r, [exec[r] EXCEPT !.pc = "files", !.todo = files])
           \/ exec[r].kind \in Folder /\ Set(r, [exec[r] EXCEPT !.pc = "files", !.entries = paths])
        /\ UNCHANGED faults
     \/ Fault /\ Set(r, AttemptFails(exec[r]))
  /\ UNCHANGED <<blobs, inflight, scan, sweeps>>

\* One entry for a file: its items, its reference, or its error.
Entry(x, e) == [x EXCEPT !.pc = "files", !.todo = Tail(@),
                         !.entries = Append(@, [file |-> Head(x.todo), is |-> e])]

\* The loop of a folder node turns an error into an entry; a single file's
\* error fails the attempt.
ReadNext(r) ==
  /\ exec[r].pc = "files" /\ exec[r].todo # <<>>
  /\ \E e \in ReadFile(exec[r].kind, Head(exec[r].todo)) :
       Set(r, CASE e = "put" -> [exec[r] EXCEPT !.pc = "put"]
                [] e = "error" /\ exec[r].kind \notin Folder -> AttemptFails(exec[r])
                [] OTHER -> Entry(exec[r], e))
  /\ UNCHANGED <<blobs, inflight, scan, faults, sweeps>>

\* put_blob, tagged with the execution.
PutBlob(r) ==
  /\ exec[r].pc = "put"
  /\ \/ /\ blobs' = blobs \cup {Blob(r)}
        /\ Set(r, [Entry(exec[r], "blob") EXCEPT !.puts = @ + 1, !.refs = @ \cup {Blob(r)}])
        /\ UNCHANGED faults
     \/ /\ Fault
        /\ Set(r, IF exec[r].kind \in Folder THEN Entry(exec[r], "error")
                  ELSE AttemptFails(exec[r]))
        /\ UNCHANGED blobs
  /\ UNCHANGED <<inflight, scan, sweeps>>

\* The node's timeout: the upload of the moment is finished without it.
NodeTimeout(r) ==
  /\ exec[r].pc \in {"list", "files", "put"} /\ Fault
  /\ inflight' = IF exec[r].pc = "put" THEN inflight \cup {Blob(r)} ELSE inflight
  /\ Set(r, [Failed(exec[r]) EXCEPT !.puts = IF exec[r].pc = "put" THEN @ + 1 ELSE @])
  /\ UNCHANGED <<blobs, scan, sweeps>>

\* The timeout of the whole run: _execute_inner is cancelled, its finally finds the
\* run "running" and sweeps nothing, and then the status is set.  It is the same for
\* the media whether the source works or the consumer.
RunTimeout(r) ==
  /\ exec[r].pc \in {"list", "files", "put"} /\ Fault
  /\ inflight' = IF exec[r].pc = "put" THEN inflight \cup {Blob(r)} ELSE inflight
  /\ Set(r, [exec[r] EXCEPT !.pc = "end", !.status = "timed_out", !.leaked = TRUE,
                            !.puts = IF exec[r].pc = "put" THEN @ + 1 ELSE @])
  /\ UNCHANGED <<blobs, scan, sweeps>>

PutLands(b) ==
  /\ b \in inflight
  /\ blobs' = blobs \cup {b} /\ inflight' = inflight \ {b}
  /\ exec' = [exec EXCEPT ![b.run].leaked = @ \/ exec[b.run].pc = "end"]
  /\ UNCHANGED <<scan, faults, sweeps>>

\* The gate between the two nodes, or none.
SourceDone(r) ==
  /\ exec[r].pc = "files" /\ exec[r].todo = <<>>
  /\ \/ Set(r, [exec[r] EXCEPT !.pc = "gate", !.status = "paused"])
     \/ Set(r, [exec[r] EXCEPT !.pc = "consume"])
  /\ UNCHANGED <<blobs, inflight, scan, faults, sweeps>>

Resume(r) ==
  /\ exec[r].pc = "gate" /\ exec[r].status = "paused"
  /\ Set(r, [exec[r] EXCEPT !.pc = "consume", !.status = "running"])
  /\ UNCHANGED <<blobs, inflight, scan, faults, sweeps>>

\* _resolve_all, get_blob: every item must resolve to media, so an error entry,
\* a bare path or a missing blob fails OCR, transcription and vision.  Rows of
\* a parsed file may carry media of their own.
Consume(r) ==
  /\ exec[r].pc = "consume"
  /\ Set(r, IF exec[r].refs \subseteq blobs /\ \A i \in DOMAIN exec[r].entries :
                 exec[r].entries[i].is \notin {"error", "path"}
            THEN [exec[r] EXCEPT !.pc = "sweep", !.status = "completed"]
            ELSE Failed(exec[r]))
  /\ UNCHANGED <<blobs, inflight, scan, faults, sweeps>>

\* _sweep_blobs_if_terminal, delete_blobs_for_execution: best effort.
SweepRun(r) ==
  /\ exec[r].pc = "sweep"
  /\ \/ /\ blobs' = blobs \ Of(r) /\ UNCHANGED faults
        /\ Set(r, [exec[r] EXCEPT !.pc = "end", !.swept = TRUE])
     \/ /\ Fault /\ \E left \in SUBSET Of(r) \ {{}} :
            blobs' = blobs \ (Of(r) \ left)
        /\ Set(r, [exec[r] EXCEPT !.pc = "end", !.swept = TRUE, !.leaked = TRUE])
  /\ UNCHANGED <<inflight, scan, sweeps>>

\* Ends that no worker sees: a cancelled waiting run, and a dead worker's run
\* that the stuck sweep fails.  Nobody sweeps their media.
EndUnswept(r) ==
  /\ exec[r].pc \in {"queued", "gate", "list", "files", "put", "consume", "sweep"} /\ Fault
  /\ Set(r, [exec[r] EXCEPT !.pc = "end", !.leaked = TRUE,
               !.status = IF @ \in Terminal THEN @
                          ELSE IF @ \in {"queued", "paused"} THEN "cancelled" ELSE "failed"])
  /\ UNCHANGED <<blobs, inflight, scan, sweeps>>

-----------------------------------------------------------------------------
\* Maintenance sweep of a super admin.

\* list_blob_files.
ListBlobs ==
  /\ scan.pc = "idle" /\ sweeps < MaxSweeps
  /\ scan' = [pc |-> "listed", listed |-> blobs, orphans |-> {}] /\ sweeps' = sweeps + 1
  /\ UNCHANGED <<exec, blobs, inflight, faults>>

\* Mutant: a paused run counts as finished.
PausedIsOver(b) == exec[b.run].status \notin Alive \ {"paused"}

\* Whose run is terminal, missing, or in no status of _ALIVE_EXEC_STATUSES.
IsOrphan(b) == exec[b.run].status \notin Alive

ReadStatuses ==
  /\ scan.pc = "listed"
  /\ scan' = [scan EXCEPT !.pc = "delete", !.orphans = {b \in scan.listed : IsOrphan(b)},
                          !.listed = {}]
  /\ exec' = [r \in Runs |-> [exec[r] EXCEPT !.robbed = @ \/
                (exec[r].status \notin Alive /\ \E b \in scan.listed : b.run = r)]]
  /\ UNCHANGED <<blobs, inflight, faults, sweeps>>

\* delete_blob: one that is gone already is no error.
DeleteOrphan(b) ==
  /\ scan.pc = "delete" /\ b \in scan.orphans
  /\ \/ blobs' = blobs \ {b} /\ UNCHANGED faults
     \/ Fault /\ UNCHANGED blobs
  /\ scan' = [scan EXCEPT !.orphans = @ \ {b}]
  /\ UNCHANGED <<exec, inflight, sweeps>>

ScanEnds ==
  /\ scan.pc = "delete" /\ scan.orphans = {}
  /\ scan' = [scan EXCEPT !.pc = "idle"]
  /\ UNCHANGED <<exec, blobs, inflight, faults, sweeps>>

Next ==
  \/ \E r \in Runs :
       \/ Upload(r) \/ InsertQueued(r) \/ Enqueue(r) \/ Begin(r) \/ DeliverAgain(r) \/ List(r) \/ ReadNext(r)
       \/ PutBlob(r) \/ NodeTimeout(r) \/ RunTimeout(r) \/ SourceDone(r) \/ Resume(r) \/ Consume(r)
       \/ SweepRun(r) \/ EndUnswept(r)
  \/ \E b \in inflight : PutLands(b)
  \/ ListBlobs \/ ReadStatuses \/ ScanEnds
  \/ \E b \in scan.orphans : DeleteOrphan(b)

Spec == Init /\ [][Next]_mediaVars

-----------------------------------------------------------------------------
TypeOK ==
  /\ \A r \in Runs :
       /\ exec[r].status \in {"none", "queued", "running", "paused"} \cup Terminal
       /\ exec[r].attempt \in 0..Retries
  /\ blobs \cup inflight \subseteq [run : Runs, n : Nat]
  /\ scan.pc \in {"idle", "listed", "delete"}
  /\ faults \in 0..MaxFaults /\ sweeps \in 0..MaxSweeps

\* "Media for a still-live run (pending / running / paused-for-approval) is
\* NEVER touched": what a live run refers to is there to be consumed, through
\* retries, pauses, sweeps and deliveries, unless the scan read its status when it
\* was not alive, before it began or between two deliveries, or its own terminal
\* sweep went before the delivery (_scan_blob_orphans, _sweep_blobs_if_terminal).
LiveMediaKept ==
  \A r \in Runs :
    exec[r].status \in {"running", "paused"} /\ ~exec[r].robbed /\ ~exec[r].swept =>
      exec[r].refs \subseteq blobs

\* Nothing of a finished run is left unless its end was not swept (nobody's worker
\* saw it, or it was the timeout of the run), a delete failed, or an upload
\* outlived its node (_sweep_blobs_if_terminal).
LeftoversExplained ==
  \A r \in Runs : exec[r].pc = "end" /\ Of(r) # {} => exec[r].leaked

\* A folder's result has one entry per listed file, in order, of the last
\* attempt only: a file that cannot be read is reported, not dropped.
EveryFileOnce ==
  \A r \in Runs :
    exec[r].pc \in {"gate", "consume"} =>
      [i \in DOMAIN exec[r].entries |-> exec[r].entries[i].file]
        = Listed(exec[r].kind, exec[r].dir)

MediaSound == TypeOK /\ LiveMediaKept /\ LeftoversExplained /\ EveryFileOnce

-----------------------------------------------------------------------------
\* The same of a run whose job is delivered again: the media it starts from went
\* with the end of the first delivery.
RestartHasMedia ==
  \A r \in Runs :
    exec[r].status \in {"running", "paused"} /\ ~exec[r].robbed => exec[r].refs \subseteq blobs

\* "Reclaim this run's GridFS media on EVERY terminal exit": not of a run that its
\* timeout ended.
TimedOutIsSwept == \A r \in Runs : exec[r].status = "timed_out" => Of(r) = {}

\* "Media for a live/paused run is never touched": the sweep takes that of a
\* queued run, and of an upload whose document is not there yet.
QueuedMediaKept ==
  \A r \in Runs : exec[r].status \in {"queued", "running", "paused"} => exec[r].refs \subseteq blobs
=============================================================================
