------------------------------ MODULE RunSlots ------------------------------
(***************************************************************************)
(* What a run holds while a worker executes it: one of the concurrency     *)
(* slots that all workers count in one Redis key, and its own budget of    *)
(* LLM calls (executor.py, llm_budget.py, the workflow.run handler).       *)
(*                                                                         *)
(* The key is [n, until]: until = 0 when there is no key, NoTTL when it    *)
(* has no expiry.  Time is a number of ticks; a run that reaches Timeout   *)
(* is cancelled before the clock moves on.                                 *)
(***************************************************************************)
EXTENDS Integers, FiniteSets

CONSTANTS
  Runs,
  MaxConcurrent,    \* MAX_CONCURRENT_EXECUTIONS
  Timeout,          \* EXECUTION_TIMEOUT_SECONDS
  SlotTTL,          \* CONCURRENCY_TTL
  Limit,            \* what _resolve_run_llm_limit gives the workflow
  MaxTime, MaxFaults, MaxDeaths, MaxPauses    \* bounds

VARIABLES
  now,
  key,      \* workflow:concurrent_executions
  run,      \* the runs: where they are, when they began, calls charged
  grants,   \* history: slots granted and not given back: to which run, or lost
            \* in which death; and when
  faults, deaths, pauses

vars == <<now, key, run, grants, faults, deaths, pauses>>

-----------------------------------------------------------------------------
NoTTL == 2 * MaxTime + SlotTTL + 1
Idle == [pc |-> "queued", began |-> 0, calls |-> 0, slot |-> FALSE]

\* Every variable ranges over its declared type.
TypeOK ==
  /\ now \in 0..MaxTime
  /\ key \in [n : 0..MaxConcurrent, until : 0..NoTTL]
  /\ run \in [Runs -> [pc : {"queued", "running", "releasing", "paused", "done"},
                       began : 0..MaxTime, calls : 0..(Limit + 1), slot : BOOLEAN]]
  /\ grants \subseteq (Runs \cup 1..MaxDeaths) \X (0..MaxTime)
  /\ faults \in 0..MaxFaults /\ deaths \in 0..MaxDeaths /\ pauses \in 0..MaxPauses

Init ==
  /\ now = 0 /\ key = [n |-> 0, until |-> 0]
  /\ run = [e \in Runs |-> Idle]
  /\ grants = {} /\ faults = 0 /\ deaths = 0 /\ pauses = 0

Fault == faults < MaxFaults /\ faults' = faults + 1

\* The key as Redis sees it: expired keys are gone.
Live == IF now < key.until THEN key ELSE [n |-> 0, until |-> 0]

Running == {e \in Runs : run[e].pc = "running"}

\* wait_for cancels a run at Timeout, so none outlives it.
Tick ==
  /\ now < MaxTime
  /\ \A e \in Running : now - run[e].began < Timeout
  /\ now' = now + 1
  /\ UNCHANGED <<key, run, grants, faults, deaths, pauses>>

-----------------------------------------------------------------------------
\* The scripts.

\* Mutant: the expiry is set when the script finds no key, before INCR.
ExpireForgotten == [n |-> Live.n + 1, until |-> IF Live.n = 0 THEN NoTTL ELSE Live.until]

\* INCR, with EXPIRE when the counter leaves zero.
Incremented == [n |-> Live.n + 1, until |-> IF Live.n = 0 THEN now + SlotTTL ELSE Live.until]

\* DECR; a counter below zero is set to zero, with a new expiry.
Decremented == IF Live.n = 0 THEN [n |-> 0, until |-> now + SlotTTL]
               ELSE [Live EXCEPT !.n = @ - 1]

-----------------------------------------------------------------------------
Begin(e, s) == run' = [run EXCEPT ![e] = [pc |-> "running", began |-> now,
                                          calls |-> 0, slot |-> s]]

\* execute: a slot is free; the budget is fresh.
Acquire(e) ==
  /\ run[e].pc = "queued" /\ Incremented.n <= MaxConcurrent
  /\ key' = Incremented
  /\ Begin(e, TRUE)
  /\ grants' = grants \cup {<<e, now>>}
  /\ UNCHANGED <<now, faults, deaths, pauses>>

\* At capacity: the script takes its INCR back, the job is retried.
Refused(e) ==
  /\ run[e].pc = "queued" /\ Incremented.n > MaxConcurrent
  /\ key' = [Incremented EXCEPT !.n = @ - 1]
  /\ UNCHANGED <<now, run, grants, faults, deaths, pauses>>

\* Redis cannot be reached: the run goes ahead and believes it holds a slot.
AcquireBlind(e) ==
  /\ run[e].pc = "queued" /\ Fault
  /\ Begin(e, TRUE)
  /\ UNCHANGED <<now, key, grants, deaths, pauses>>

\* charge_llm_call before the request: the call over the limit is not made
\* and ends the run.
ChargeLlmCall(e) ==
  /\ run[e].pc = "running"
  /\ run' = IF run[e].calls < Limit THEN [run EXCEPT ![e].calls = @ + 1]
            ELSE [run EXCEPT ![e].pc = "releasing"]
  /\ UNCHANGED <<now, key, grants, faults, deaths, pauses>>

\* The run completes, fails, or is cancelled at Timeout; a resumed one holds
\* no slot.
Finish(e) ==
  /\ run[e].pc = "running"
  /\ run' = [run EXCEPT ![e].pc = IF run[e].slot THEN "releasing" ELSE "done"]
  /\ UNCHANGED <<now, key, grants, faults, deaths, pauses>>

\* The finally of execute gives the slot back, or fails to.
GiveBack(e, next) ==
  \/ /\ key' = Decremented
     /\ grants' = {g \in grants : g[1] # e}
     /\ run' = [run EXCEPT ![e].pc = next]
     /\ UNCHANGED faults
  \/ /\ Fault
     /\ run' = [run EXCEPT ![e].pc = next]
     /\ UNCHANGED <<key, grants>>

Release(e) ==
  /\ run[e].pc = "releasing"
  /\ IF run[e].slot THEN GiveBack(e, "done")
     ELSE run' = [run EXCEPT ![e].pc = "done"] /\ UNCHANGED <<key, grants, faults>>
  /\ UNCHANGED <<now, deaths, pauses>>

\* A run that reaches an approval node returns and gives its slot back.
Pause(e) ==
  /\ run[e].pc = "running" /\ run[e].slot
  /\ pauses < MaxPauses /\ pauses' = pauses + 1
  /\ GiveBack(e, "paused")
  /\ UNCHANGED <<now, deaths>>

\* resume takes no slot and starts a budget of its own.
Resume(e) ==
  /\ run[e].pc = "paused"
  /\ Begin(e, FALSE)
  /\ UNCHANGED <<now, key, grants, faults, deaths, pauses>>

\* The worker dies; the queue hands the job to another one.
Die(e) ==
  /\ run[e].pc \in {"running", "releasing"} /\ run[e].slot
  /\ deaths < MaxDeaths /\ deaths' = deaths + 1
  /\ run' = [run EXCEPT ![e] = Idle]
  /\ grants' = {IF g[1] = e THEN <<deaths', g[2]>> ELSE g : g \in grants}
  /\ UNCHANGED <<now, key, faults, pauses>>

Next ==
  \/ Tick
  \/ \E e \in Runs :
       \/ Acquire(e) \/ Refused(e) \/ AcquireBlind(e) \/ ChargeLlmCall(e)
       \/ Finish(e) \/ Release(e) \/ Pause(e) \/ Resume(e) \/ Die(e)

Spec == Init /\ [][Next]_vars

-----------------------------------------------------------------------------
\* A refusal is justified by recent runs: when no slot is free, MaxConcurrent
\* slots were granted less than SlotTTL ago and not given back, so a slot that
\* a dead worker or a lost release leaks is refused to others for at most
\* SlotTTL (_acquire_slot, _release_slot).
RefusalJustified ==
  Live.n >= MaxConcurrent =>
    Cardinality({g \in grants : now - g[2] < SlotTTL}) >= MaxConcurrent

\* No segment of a run makes more LLM calls than its limit (charge).
BudgetHolds == \A e \in Running : run[e].calls <= Limit

\* What slots and budgets promise together.
SlotsSound == TypeOK /\ RefusalJustified /\ BudgetHolds

-----------------------------------------------------------------------------
\* config.py: "Maximum simultaneous workflow executions across all pods
\* sharing the same Redis.  ...  Each running execution holds one slot."
CapHolds == Cardinality(Running) <= MaxConcurrent
=============================================================================
