---------------------------- MODULE SandboxPool ----------------------------
(***************************************************************************)
(* The pool of warm sandbox containers of one worker process               *)
(* (services/sandbox_pool.py) and the script runs that use it              *)
(* (_run_in_pooled_container in services/code_executor.py).                *)
(*                                                                         *)
(* Everything runs on one event loop: what lies between two awaits is one  *)
(* step.  The calls to Docker run in threads, so the pool moves on while   *)
(* one of them is under way.  shutdown has no caller in this repository    *)
(* and is left out, and so are the containers of other workers, which the  *)
(* reaper leaves alone while they run.                                     *)
(***************************************************************************)
EXTENDS Integers, Sequences, FiniteSets, SequencesExt

CONSTANTS
  Jobs,               \* calls of execute_code
  MinSize, MaxSize,   \* POOL_MIN_SIZE, POOL_MAX_SIZE
  MaxContainers,      \* bounds: containers ever created,
  MaxDeaths,          \*   containers that die by themselves,
  MaxFaults,          \*   calls that fail,
  MaxReaps            \*   rounds of the periodic reaper

VARIABLES
  docker,    \* what Docker knows of every container; "leaked": it has one that
             \* the pool takes for destroyed, or for never created
  left,      \* the runs whose files are in its workspace
  idle,      \* _idle
  inUse,     \* _in_use
  created,   \* _created
  growLock,  \* _grow_lock: who holds it
  script,    \* the runs: where they are, with which container, from where
             \* in acquire they took it
  warm,      \* the warmup task: where it is, containers made, ids to reap
  wanted,    \* warmup tasks created and not begun
  reaper,    \* the periodic reaper: where it is, the ids it spares or reaps
  bad        \* bounds used: deaths, faults, reaps

vars == <<docker, left, idle, inUse, created, growLock, script, warm, wanted, reaper, bad>>

-----------------------------------------------------------------------------
Containers == 1..MaxContainers
None == 0
Kept(c) == docker[c] \in {"running", "exited"}
Exists(c) == Kept(c) \/ docker[c] = "leaked"
FreshId == Cardinality({c \in Containers : docker[c] # "none"}) + 1

\* Every variable ranges over its declared type.
TypeOK ==
  /\ docker \in [Containers -> {"none", "running", "exited", "gone", "leaked"}]
  /\ left \in [Containers -> SUBSET Jobs]
  /\ IsInjective(idle) /\ ToSet(idle) \subseteq Containers
  /\ inUse \subseteq Containers
  /\ created \in 0..MaxSize
  /\ growLock \in Jobs \cup {"warmup", "free"}
  /\ script \in [Jobs -> [pc : {"ask", "wantlock", "asklocked", "check", "creating", "made",
                                "wait", "hold", "run", "release", "reset", "return",
                                "replace", "done", "failed"},
                          c : Containers \cup {None},
                          from : {"ask", "asklocked", "wait"}]]
  /\ warm \in [pc : {"off", "list", "destroy", "lock", "grow", "made"},
               made : 0..MinSize, ids : SUBSET Containers]
  /\ wanted \in 0..Cardinality(Jobs)
  /\ reaper \in [pc : {"off", "sleep", "list", "destroy"}, ids : SUBSET Containers]
  /\ bad \in [deaths : 0..MaxDeaths, faults : 0..MaxFaults, reaps : 0..MaxReaps]

Init ==
  /\ docker = [c \in Containers |-> "none"]
  /\ left = [c \in Containers |-> {}]
  /\ idle = <<>> /\ inUse = {} /\ created = 0 /\ growLock = "free"
  /\ script = [j \in Jobs |-> [pc |-> "ask", c |-> None, from |-> "ask"]]
  /\ warm = [pc |-> "off", made |-> 0, ids |-> {}] /\ wanted = 0
  /\ reaper = [pc |-> "off", ids |-> {}]
  /\ bad = [deaths |-> 0, faults |-> 0, reaps |-> 0]

Fault == bad.faults < MaxFaults /\ bad' = [bad EXCEPT !.faults = @ + 1]
To(j, pc) == script' = [script EXCEPT ![j].pc = pc]
Uncounted == IF created = 0 THEN 0 ELSE created - 1
\* _destroy returns: the container is removed.  Or the removal raised, which is
\* logged only: a container that Docker still knew stays.
Destroyed(c) ==
  \/ docker' = [docker EXCEPT ![c] = "gone"] /\ UNCHANGED bad
  \/ Kept(c) /\ Fault /\ docker' = [docker EXCEPT ![c] = "leaked"]

\* containers.run raised: it may have created the container and not started it.
NotCreated ==
  \/ docker' = docker
  \/ FreshId \in Containers /\ docker' = [docker EXCEPT ![FreshId] = "leaked"]

Unlock(j) == growLock' = IF growLock = j THEN "free" ELSE growLock

-----------------------------------------------------------------------------
\* acquire.

\* Takes the first idle container and looks whether it is alive: without the
\* lock, under it, or after a wait.
TakeIdle(j) ==
  /\ script[j].pc \in {"ask", "asklocked", "wait"} /\ idle # <<>>
  /\ idle' = Tail(idle)
  /\ script' = [script EXCEPT ![j] = [pc |-> "check", c |-> Head(idle), from |-> script[j].pc]]
  /\ UNCHANGED <<docker, left, inUse, created, growLock, warm, wanted, reaper, bad>>

\* _validate_alive: a live one is handed out.
Validate(j) ==
  /\ script[j].pc = "check" /\ docker[script[j].c] = "running"
  /\ To(j, "hold") /\ Unlock(j)
  /\ inUse' = inUse \cup {script[j].c}
  /\ UNCHANGED <<docker, left, idle, created, warm, wanted, reaper, bad>>

\* A dead one, or one that could not be looked at, is destroyed and the search
\* goes on.
Discard(j) ==
  LET c == script[j].c IN
  /\ script[j].pc = "check"
  /\ \/ docker[c] # "running" /\ Destroyed(c)
     \/ /\ docker[c] = "running" /\ Fault
        /\ docker' \in {[docker EXCEPT ![c] = "gone"], [docker EXCEPT ![c] = "leaked"]}
  /\ To(j, script[j].from)
  /\ inUse' = inUse \ {c}
  /\ created' = Uncounted
  /\ UNCHANGED <<left, idle, growLock, warm, wanted, reaper>>

NothingIdle(j) ==
  /\ script[j].pc = "ask" /\ idle = <<>>
  /\ To(j, "wantlock")
  /\ UNCHANGED <<docker, left, idle, inUse, created, growLock, warm, wanted, reaper, bad>>

\* Mutant: the growth is not serialised.
NoLock(j) ==
  /\ script[j].pc = "wantlock"
  /\ To(j, "asklocked")
  /\ UNCHANGED <<docker, left, idle, inUse, created, growLock, warm, wanted, reaper, bad>>

TakeGrowLock(j) ==
  /\ script[j].pc = "wantlock" /\ growLock = "free"
  /\ growLock' = j
  /\ To(j, "asklocked")
  /\ UNCHANGED <<docker, left, idle, inUse, created, warm, wanted, reaper, bad>>

\* Room for one more: Docker is asked for it, the lock is kept.
Grow(j) ==
  /\ script[j].pc = "asklocked" /\ idle = <<>>
  /\ IF created < MaxSize THEN To(j, "creating") /\ UNCHANGED growLock
     ELSE To(j, "wait") /\ Unlock(j)
  /\ UNCHANGED <<docker, left, idle, inUse, created, warm, wanted, reaper, bad>>

\* _create_container_sync, in its thread.
Create(j) ==
  /\ script[j].pc = "creating" /\ FreshId \in Containers
  /\ docker' = [docker EXCEPT ![FreshId] = "running"]
  /\ script' = [script EXCEPT ![j].pc = "made", ![j].c = FreshId]
  /\ UNCHANGED <<left, idle, inUse, created, growLock, warm, wanted, reaper, bad>>

CreateFails(j) ==
  /\ script[j].pc = "creating" /\ Fault
  /\ NotCreated
  /\ To(j, "wait") /\ Unlock(j)
  /\ UNCHANGED <<left, idle, inUse, created, warm, wanted, reaper>>

Grown(j) ==
  /\ script[j].pc = "made"
  /\ created' = created + 1
  /\ inUse' = inUse \cup {script[j].c}
  /\ To(j, "hold") /\ Unlock(j)
  /\ UNCHANGED <<docker, left, idle, warm, wanted, reaper, bad>>

TimesOut(j) ==
  /\ script[j].pc = "wait" /\ idle = <<>>
  /\ To(j, "failed")
  /\ UNCHANGED <<docker, left, idle, inUse, created, growLock, warm, wanted, reaper, bad>>

-----------------------------------------------------------------------------
\* The run.

\* progress_cb or the archive raises before the try: nothing releases the
\* container.
ArchiveFails(j) ==
  /\ script[j].pc = "hold" /\ Fault
  /\ To(j, "failed")
  /\ UNCHANGED <<docker, left, idle, inUse, created, growLock, warm, wanted, reaper>>

\* put_archive, which a dead container refuses.
PutArchive(j) ==
  LET c == script[j].c IN
  /\ script[j].pc = "hold"
  /\ IF docker[c] = "running"
     THEN left' = [left EXCEPT ![c] = @ \cup {j}] /\ To(j, "run")
     ELSE To(j, "release") /\ UNCHANGED left
  /\ UNCHANGED <<docker, idle, inUse, created, growLock, warm, wanted, reaper, bad>>

\* _exec_streaming ends, or is past its deadline and kills the container.
Exec(j) ==
  /\ script[j].pc = "run"
  /\ To(j, "release")
  /\ \/ UNCHANGED docker
     \/ /\ docker[script[j].c] = "running"
        /\ docker' = [docker EXCEPT ![script[j].c] = "exited"]
  /\ UNCHANGED <<left, idle, inUse, created, growLock, warm, wanted, reaper, bad>>

Release(j) ==
  /\ script[j].pc = "release"
  /\ inUse' = inUse \ {script[j].c}
  /\ To(j, "reset")
  /\ UNCHANGED <<docker, left, idle, created, growLock, warm, wanted, reaper, bad>>

\* _reset_workspace: empties the workspace of a live container; it may fail
\* on one too.
ResetWorkspace(j) ==
  LET c == script[j].c IN
  /\ script[j].pc = "reset"
  /\ \/ /\ docker[c] = "running"
        /\ left' = [left EXCEPT ![c] = {}] /\ To(j, "return") /\ UNCHANGED bad
     \/ docker[c] # "running" /\ To(j, "replace") /\ UNCHANGED <<left, bad>>
     \/ docker[c] = "running" /\ Fault /\ To(j, "replace") /\ UNCHANGED left
  /\ UNCHANGED <<docker, idle, inUse, created, growLock, warm, wanted, reaper>>

Return(j) ==
  /\ script[j].pc = "return"
  /\ idle' = Append(idle, script[j].c)
  /\ To(j, "done")
  /\ UNCHANGED <<docker, left, inUse, created, growLock, warm, wanted, reaper, bad>>

\* A container that could not be reset is destroyed and a warmup replaces it.
Replace(j) ==
  /\ script[j].pc = "replace"
  /\ Destroyed(script[j].c)
  /\ created' = Uncounted
  /\ wanted' = wanted + 1
  /\ To(j, "done")
  /\ UNCHANGED <<left, idle, inUse, growLock, warm, reaper>>

-----------------------------------------------------------------------------
\* warmup.

\* A pool that counts nothing is swept first.
WarmBegin ==
  /\ wanted > 0 /\ warm.pc = "off"
  /\ wanted' = wanted - 1
  /\ warm' = [pc |-> IF created = 0 /\ idle = <<>> THEN "list" ELSE "lock",
              made |-> 0, ids |-> {}]
  /\ UNCHANGED <<docker, left, idle, inUse, created, growLock, script, reaper, bad>>

WarmLock ==
  /\ warm.pc = "lock" /\ growLock = "free"
  /\ growLock' = "warmup"
  /\ warm' = [warm EXCEPT !.pc = "grow"]
  /\ UNCHANGED <<docker, left, idle, inUse, created, script, wanted, reaper, bad>>

WarmCreate ==
  /\ warm.pc = "grow" /\ Len(idle) + warm.made < MinSize /\ created < MaxSize
  /\ FreshId \in Containers
  /\ docker' = [docker EXCEPT ![FreshId] = "running"]
  /\ warm' = [warm EXCEPT !.pc = "made", !.ids = {FreshId}]
  /\ UNCHANGED <<left, idle, inUse, created, growLock, script, wanted, reaper, bad>>

WarmPut ==
  /\ warm.pc = "made"
  /\ created' = created + 1
  /\ idle' = Append(idle, CHOOSE c \in warm.ids : TRUE)
  /\ warm' = [warm EXCEPT !.pc = "grow", !.made = @ + 1, !.ids = {}]
  /\ UNCHANGED <<docker, left, inUse, growLock, script, wanted, reaper, bad>>

\* Enough, or Docker refuses: the reaper starts if it has not.
WarmEnd ==
  /\ warm.pc = "grow"
  /\ \/ ~(Len(idle) + warm.made < MinSize /\ created < MaxSize) /\ UNCHANGED <<docker, bad>>
     \/ Fault /\ NotCreated
  /\ growLock' = "free"
  /\ warm' = [warm EXCEPT !.pc = "off"]
  /\ reaper' = IF reaper.pc = "off" THEN [pc |-> "sleep", ids |-> {}] ELSE reaper
  /\ UNCHANGED <<left, idle, inUse, created, script, wanted>>

-----------------------------------------------------------------------------
\* _periodic_reaper and _reap_orphans.

\* The ids the pool knows, taken on the event loop.
Snapshot ==
  /\ reaper.pc = "sleep" /\ bad.reaps < MaxReaps
  /\ bad' = [bad EXCEPT !.reaps = @ + 1]
  /\ reaper' = [pc |-> "list", ids |-> inUse \cup ToSet(idle)]
  /\ UNCHANGED <<docker, left, idle, inUse, created, growLock, script, warm, wanted>>

Orphans(known) == {c \in Containers : Exists(c)} \ known

\* The thread lists the containers, then destroys the unknown ones.
ReaperList ==
  /\ reaper.pc = "list"
  /\ reaper' = [pc |-> "destroy", ids |-> Orphans(reaper.ids)]
  /\ UNCHANGED <<docker, left, idle, inUse, created, growLock, script, warm, wanted, bad>>

\* _destroy of an orphan; when the removal raises it may have been stopped.
Reaped(c) ==
  \/ docker' = [docker EXCEPT ![c] = "gone"] /\ UNCHANGED bad
  \/ /\ Fault
     /\ \/ docker' = docker
        \/ docker[c] = "running" /\ docker' = [docker EXCEPT ![c] = "exited"]

ReaperDestroy ==
  /\ reaper.pc = "destroy" /\ reaper.ids # {}
  /\ \E c \in reaper.ids :
       /\ Reaped(c)
       /\ reaper' = [reaper EXCEPT !.ids = @ \ {c}]
  /\ UNCHANGED <<left, idle, inUse, created, growLock, script, warm, wanted>>

ReaperSleeps ==
  /\ reaper.pc = "destroy" /\ reaper.ids = {}
  /\ reaper' = [reaper EXCEPT !.pc = "sleep"]
  /\ UNCHANGED <<docker, left, idle, inUse, created, growLock, script, warm, wanted, bad>>

WarmList ==
  /\ warm.pc = "list"
  /\ warm' = [warm EXCEPT !.pc = "destroy", !.ids = Orphans({})]
  /\ UNCHANGED <<docker, left, idle, inUse, created, growLock, script, wanted, reaper, bad>>

WarmDestroy ==
  /\ warm.pc = "destroy"
  /\ IF warm.ids = {} THEN warm' = [warm EXCEPT !.pc = "lock"] /\ UNCHANGED <<docker, bad>>
     ELSE \E c \in warm.ids :
            /\ Reaped(c)
            /\ warm' = [warm EXCEPT !.ids = @ \ {c}]
  /\ UNCHANGED <<left, idle, inUse, created, growLock, script, wanted, reaper>>

\* A Docker restart leaves an exited container.
ContainerDies ==
  /\ bad.deaths < MaxDeaths
  /\ \E c \in Containers :
       /\ docker[c] = "running"
       /\ docker' = [docker EXCEPT ![c] = "exited"]
  /\ bad' = [bad EXCEPT !.deaths = @ + 1]
  /\ UNCHANGED <<left, idle, inUse, created, growLock, script, warm, wanted, reaper>>

-----------------------------------------------------------------------------
Next ==
  \/ \E j \in Jobs :
       \/ TakeIdle(j) \/ Validate(j) \/ Discard(j) \/ NothingIdle(j) \/ TakeGrowLock(j) \/ Grow(j)
       \/ Create(j) \/ CreateFails(j) \/ Grown(j) \/ TimesOut(j)
       \/ ArchiveFails(j) \/ PutArchive(j) \/ Exec(j)
       \/ Release(j) \/ ResetWorkspace(j) \/ Return(j) \/ Replace(j)
  \/ WarmBegin \/ WarmLock \/ WarmCreate \/ WarmPut \/ WarmEnd \/ WarmList \/ WarmDestroy
  \/ Snapshot \/ ReaperList \/ ReaperDestroy \/ ReaperSleeps
  \/ ContainerDies

Spec == Init /\ [][Next]_vars

-----------------------------------------------------------------------------
Held(j) ==
  {c \in {script[j].c} :
     \/ script[j].pc \in {"check", "hold", "run", "release", "reset", "return", "replace"}
     \/ script[j].pc = "failed" /\ c \in inUse}

\* The count never drifts from the containers: whatever dies, is replaced or
\* is reaped, and in whatever order, _created is the number of containers
\* that are idle, with a run, or lost to a run that failed before its try
\* (acquire, release, _validate_alive, warmup).
CountIsExact ==
  created = Cardinality(ToSet(idle) \cup UNION {Held(j) : j \in Jobs})

\* "the _created < max_size invariant cannot be violated by concurrent
\* acquirers" (acquire): Docker never has more than MaxSize containers of this
\* pool beside the ones it could not remove, or created and could not start.
WithinMax == Cardinality({c \in Containers : Kept(c)}) <= MaxSize

\* A script finds its own files and no other run's in the workspace, and no
\* two scripts share one (release resets before it returns the container).
OwnWorkspace == \A j \in Jobs : script[j].pc = "run" => left[script[j].c] = {j}

\* What the pool promises its scripts and its host.
PoolSound == TypeOK /\ CountIsExact /\ WithinMax /\ OwnWorkspace

-----------------------------------------------------------------------------
\* _destroy: "repeated remove failures are how the pool ends up over its
\* declared MAX_SIZE": one is enough, since the count goes down all the same.
NeverOverMax == Cardinality({c \in Containers : Exists(c)}) <= MaxSize

\* warmup and _periodic_reaper: the reaper "only destroys *unknown*
\* warm-labelled containers ..., never anything tracked by this pool
\* instance"; "Idle and in-use containers owned by self are protected".
ReaperSparesTracked ==
  [][ReaperDestroy => \A c \in inUse \cup ToSet(idle) : docker'[c] = docker[c]]_vars
=============================================================================
