-------------------------- MODULE SandboxFileCache --------------------------
(***************************************************************************)
(* The disk cache of the files that sandbox runs read                      *)
(* (services/sandbox_file_cache.py, download_s3_files_to_dir in            *)
(* services/code_executor.py), for one object and several runs of one      *)
(* worker process.  The ETag of an object is a digest of its content, so   *)
(* it is the content here; contents have one size.                         *)
(*                                                                         *)
(* Requests to the store are awaited; the files are written and linked     *)
(* without an await in between, so only the eviction thread can come       *)
(* between the return of a path and the link.                              *)
(***************************************************************************)
EXTENDS Integers, FiniteSets

CONSTANTS
  Readers,
  MaxVersion,   \* bounds: contents the object gets,
  MaxFaults     \*   calls that fail

VARIABLES
  object,     \* the content of the object: the first, the second, ...
  bin, meta,  \* the cached file and the ETag beside it
  reader,     \* the runs: where they are, the ETags, what they got
  current,    \* history: the contents of the object since the run began
  evict,      \* the eviction thread: where it is
  faulty

vars == <<object, bin, meta, reader, current, evict, faulty>>

-----------------------------------------------------------------------------
Nothing == 0
Contents == 1..MaxVersion
Held == 0..MaxVersion

\* Every variable ranges over its declared type.
TypeOK ==
  /\ object \in Contents
  /\ bin \in Held /\ meta \in Held
  /\ reader \in [Readers -> [pc : {"new", "head", "get", "got", "link", "copy", "done", "failed"},
                             cached : Held, etag : Held, got : Held]]
  /\ current \in [Readers -> SUBSET Contents]
  /\ evict \in {"off", "bin", "meta"}
  /\ faulty \in 0..MaxFaults

Init ==
  /\ object = 1
  /\ bin = Nothing /\ meta = Nothing
  /\ reader = [r \in Readers |-> [pc |-> "new", cached |-> Nothing, etag |-> Nothing, got |-> Nothing]]
  /\ current = [r \in Readers |-> {}]
  /\ evict = "off" /\ faulty = 0

Fault == faulty < MaxFaults /\ faulty' = faulty + 1

\* The owner of the object replaces it, never by a content it had before.
Overwrite ==
  /\ object < MaxVersion
  /\ object' = object + 1
  /\ current' = [r \in Readers |-> IF reader[r].pc = "new" THEN {} ELSE current[r] \cup {object'}]
  /\ UNCHANGED <<bin, meta, reader, evict, faulty>>

-----------------------------------------------------------------------------
\* get_or_download reads the ETag beside the cached file, and asks for the
\* object's.
ReadMeta(r) ==
  /\ reader[r].pc = "new"
  /\ reader' = [reader EXCEPT ![r].pc = "head", ![r].cached = meta]
  /\ current' = [current EXCEPT ![r] = {object}]
  /\ UNCHANGED <<object, bin, meta, evict, faulty>>

\* A head request that fails leaves no ETag.
Head(r) ==
  /\ reader[r].pc = "head"
  /\ \/ reader' = [reader EXCEPT ![r].pc = "get", ![r].etag = object] /\ UNCHANGED faulty
     \/ Fault /\ reader' = [reader EXCEPT ![r].pc = "get"]
  /\ UNCHANGED <<object, bin, meta, current, evict>>

IsHit(r) == /\ reader[r].etag # Nothing /\ reader[r].cached = reader[r].etag
            /\ bin # Nothing

\* The cached file stands for the object.
CacheHit(r) ==
  /\ reader[r].pc = "get" /\ IsHit(r)
  /\ reader' = [reader EXCEPT ![r].pc = "link"]
  /\ UNCHANGED <<object, bin, meta, current, evict, faulty>>

\* get_object, or its failure, which ends the run.
Download(r) ==
  /\ reader[r].pc = "get" /\ ~IsHit(r)
  /\ \/ reader' = [reader EXCEPT ![r].pc = "got", ![r].got = object] /\ UNCHANGED faulty
     \/ Fault /\ reader' = [reader EXCEPT ![r].pc = "failed"]
  /\ UNCHANGED <<object, bin, meta, current, evict>>

\* Mutant: the stored ETag is the one a late head request gives.
StoresLateTag(r) ==
  /\ reader[r].pc = "got"
  /\ bin' = reader[r].got /\ meta' = object
  /\ evict' = IF evict = "off" THEN "bin" ELSE evict
  /\ reader' = [reader EXCEPT ![r].pc = "link"]
  /\ UNCHANGED <<object, current, faulty>>

\* The file, then its ETag, then an eviction in a thread; a disk that refuses
\* the write leaves the bytes in a file of their own.
Store(r) ==
  /\ reader[r].pc = "got"
  /\ \/ /\ bin' = reader[r].got /\ meta' = reader[r].etag
        /\ evict' = IF evict = "off" THEN "bin" ELSE evict
        /\ reader' = [reader EXCEPT ![r].pc = "link"] /\ UNCHANGED faulty
     \/ /\ Fault
        /\ reader' = [reader EXCEPT ![r].pc = "done"]
        /\ UNCHANGED <<bin, meta, evict>>
  /\ UNCHANGED <<object, current>>

\* Nothing but the eviction comes between the path and the link.
Busy == \E r \in Readers : reader[r].pc = "link"

\* os.link, else copyfile: both fail when the file was evicted.
Link(r) ==
  /\ reader[r].pc = "link"
  /\ reader' = IF bin = Nothing THEN [reader EXCEPT ![r].pc = "failed"]
               ELSE [reader EXCEPT ![r].pc = "done", ![r].got = bin]
  /\ UNCHANGED <<object, bin, meta, current, evict, faulty>>

\* _evict_if_oversize finds room enough, or removes the file and then its
\* ETag, if there is one.
EvictBin ==
  /\ evict = "bin"
  /\ \/ evict' = "off" /\ UNCHANGED bin
     \/ bin' = Nothing /\ evict' = "meta"
  /\ UNCHANGED <<object, meta, reader, current, faulty>>

EvictMeta ==
  /\ evict = "meta"
  /\ meta' = Nothing /\ evict' = "off"
  /\ UNCHANGED <<object, bin, reader, current, faulty>>

Next ==
  \/ EvictBin \/ EvictMeta \/ Overwrite
  \/ \E r \in Readers :
       \/ ~Busy /\ (ReadMeta(r) \/ Head(r) \/ CacheHit(r) \/ Download(r) \/ Store(r))
       \/ Link(r)

Spec == Init /\ [][Next]_vars

-----------------------------------------------------------------------------
\* A cached file is never tagged with an ETag newer than its content, however
\* downloads overtake each other, so a request that starts now and finds the
\* object's ETag in the cache is served the object (get_or_download).
TagNotNewer == meta # Nothing /\ bin # Nothing => bin >= meta

\* The promise of the cached pair, with the types it is stated over.
FilesTagNotNewer == TypeOK /\ TagNotNewer

-----------------------------------------------------------------------------
\* "Validity: ETag from head_object - if it changed (file re-uploaded) we
\* redownload; otherwise the cached file is reused": a run reads a content
\* the object had at some moment since the run asked for it.
ReadsCurrent == \A r \in Readers : reader[r].pc = "done" => reader[r].got \in current[r]
=============================================================================
