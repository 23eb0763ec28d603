------------------------------ MODULE Services ------------------------------
(***************************************************************************)
(* The services that runs and endpoints lean on, side by side: the sandbox *)
(* pool, the slots of runs, the circuit breaker, the rate limits of the AI *)
(* endpoints, the LLM call and the cache of sandbox files.  They share no  *)
(* state; what each promises is stated here.                               *)
(***************************************************************************)
EXTENDS SandboxPool

CONSTANTS
  Readers, MaxVersion,                            \* SandboxFileCache
  Calls, Threshold, Recovery, MaxClock,           \* CircuitBreaker
  Context, Buffer, Ceiling, OutputCaps, InputCap, \* LlmCall
  Systems, Prompts, Wanted, Attempts, ToolRounds,
  Runs, MaxConcurrent, Timeout, SlotTTL, Limit,   \* RunSlots
  MaxPauses,
  Users, Window, UserLimit, OrgLimit, MaxCalls,   \* AiLimiter
  MaxTime                                         \* a bound of two

VARIABLES
  object, bin, meta, reader, current, evict, faulty,
  clock, state, failures, openedAt, call, streak, lastFail,
  pc, args, budget, grown, attempt, round, usage, answers, tracked,
  now, key, run, grants, faults, deaths, pauses,
  time, counter, passed, made

Files == INSTANCE SandboxFileCache
Breaker == INSTANCE CircuitBreaker WITH MaxTime <- MaxClock
Llm == INSTANCE LlmCall
Slots == INSTANCE RunSlots
Limiter == INSTANCE AiLimiter

slots   == <<now, key, run, grants, faults, deaths, pauses>>
breaker == <<clock, state, failures, openedAt, call, streak, lastFail>>
limiter == <<time, counter, passed, made>>
llm     == <<pc, args, budget, grown, attempt, round, usage, answers, tracked>>
pool    == vars
files   == <<object, bin, meta, reader, current, evict, faulty>>

-----------------------------------------------------------------------------
\* Slots and budget: a run is refused a slot only because of runs of the last
\* SlotTTL, and no segment of a run makes more LLM calls than its budget
\* (_acquire_slot, _release_slot, charge_llm_call).
SlotsSound == Slots!SlotsSound

\* Breaker: a dependency whose last calls failed is left alone for the
\* recovery time (CircuitBreaker.call).
BreakerLeftAlone == Breaker!BreakerLeftAlone

\* Limiter: a fixed window lets at most twice its limit through in a window's
\* time, and a user over the limit does not use up the organisation's share
\* (check_ai_rate_limit).
LimiterSound == Limiter!LimiterSound

\* LLM call: a call that returns has tracked the usage of all its rounds and
\* attempts, and where the prompt leaves room every request of a call without
\* tools fits the context (llm_call).
LlmSound == Llm!LlmSound

\* File cache: a cached file is never tagged with an ETag newer than its
\* content (fetch_file, _store).
FilesTagNotNewer == Files!FilesTagNotNewer
=============================================================================
