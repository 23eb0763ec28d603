--------------------------- MODULE CircuitBreaker ---------------------------
(***************************************************************************)
(* The asynchronous circuit breaker of citra-service-utils, with calls     *)
(* that overlap: a call looks at the state, awaits the function it wraps,  *)
(* and reports the outcome under the lock, in whatever state the breaker   *)
(* is by then.                                                             *)
(***************************************************************************)
EXTENDS Integers, FiniteSets

CONSTANTS
  Calls,
  Threshold,    \* failure_threshold
  Recovery,     \* recovery_timeout
  MaxTime       \* bound

VARIABLES
  clock,
  state,        \* _state
  failures,     \* _consecutive_failures
  openedAt,     \* _opened_at
  call,         \* the calls: where they are, when they were let through
  streak,       \* history: failures recorded since the last success
  lastFail      \* history: when a failure was last recorded

vars == <<clock, state, failures, openedAt, call, streak, lastFail>>

-----------------------------------------------------------------------------
\* Every variable ranges over its declared type.
TypeOK ==
  /\ clock \in 0..MaxTime
  /\ state \in {"closed", "open", "half_open"}
  /\ failures \in 0..Cardinality(Calls) /\ openedAt \in 0..MaxTime
  /\ call \in [Calls -> [pc : {"idle", "awaiting", "rejected", "done"},
                         began : 0..MaxTime]]
  /\ streak \in 0..Cardinality(Calls) /\ lastFail \in 0..MaxTime

Init ==
  /\ clock = 0 /\ state = "closed" /\ failures = 0 /\ openedAt = 0
  /\ streak = 0 /\ lastFail = 0
  /\ call = [c \in Calls |-> [pc |-> "idle", began |-> 0]]

Tick ==
  /\ clock < MaxTime /\ clock' = clock + 1
  /\ UNCHANGED <<state, failures, openedAt, call, streak, lastFail>>

\* _maybe_close_or_half_open
Recovered == state = "open" /\ clock >= openedAt + Recovery

\* The call is let through: closed, half open, or just made half open.
Enter(c) ==
  /\ call[c].pc = "idle" /\ (state # "open" \/ Recovered)
  /\ state' = IF Recovered THEN "half_open" ELSE state
  /\ call' = [call EXCEPT ![c] = [pc |-> "awaiting", began |-> clock]]
  /\ UNCHANGED <<clock, failures, openedAt, streak, lastFail>>

\* CircuitBreakerOpen
Reject(c) ==
  /\ call[c].pc = "idle" /\ state = "open" /\ ~Recovered
  /\ call' = [call EXCEPT ![c].pc = "rejected"]
  /\ UNCHANGED <<clock, state, failures, openedAt, streak, lastFail>>

\* _record_success
Succeed(c) ==
  /\ call[c].pc = "awaiting"
  /\ state' = "closed" /\ failures' = 0 /\ streak' = 0
  /\ call' = [call EXCEPT ![c].pc = "done"]
  /\ UNCHANGED <<clock, openedAt, lastFail>>

\* Mutant: a failed trial counts, but does not open the breaker again.
TrialForgiven(c) ==
  /\ call[c].pc = "awaiting"
  /\ failures' = failures + 1 /\ streak' = streak + 1 /\ lastFail' = clock
  /\ IF failures' = Threshold
     THEN state' = "open" /\ openedAt' = clock
     ELSE UNCHANGED <<state, openedAt>>
  /\ call' = [call EXCEPT ![c].pc = "done"]
  /\ UNCHANGED clock

\* _record_failure: a failed trial opens the breaker again at once, and so
\* does every failure from the threshold on.
Fail(c) ==
  /\ call[c].pc = "awaiting"
  /\ failures' = failures + 1 /\ streak' = streak + 1 /\ lastFail' = clock
  /\ IF state = "half_open" \/ failures' >= Threshold
     THEN state' = "open" /\ openedAt' = clock
     ELSE UNCHANGED <<state, openedAt>>
  /\ call' = [call EXCEPT ![c].pc = "done"]
  /\ UNCHANGED clock

\* The function raised what expected_exception does not name, or the task was
\* cancelled: the outcome is not recorded.
Escape(c) ==
  /\ call[c].pc = "awaiting"
  /\ call' = [call EXCEPT ![c].pc = "done"]
  /\ UNCHANGED <<clock, state, failures, openedAt, streak, lastFail>>

Next == \/ Tick
        \/ \E c \in Calls : Enter(c) \/ Reject(c) \/ Succeed(c) \/ Fail(c) \/ Escape(c)

Spec == Init /\ [][Next]_vars

-----------------------------------------------------------------------------
EntersInTime ==
  \A c \in Calls :
    call[c].pc = "idle" /\ call'[c].pc = "awaiting" /\ streak >= Threshold =>
      clock >= lastFail + Recovery

\* A dead host is left alone: once Threshold failures were recorded with no
\* success since, no call is let through before Recovery has passed since the
\* latest failure, however the calls overlap (call, _record_failure).
BreakerLeftAlone == [][TypeOK /\ EntersInTime]_vars

-----------------------------------------------------------------------------
\* The class comment: "Seconds to stay OPEN before allowing a single trial
\* call."
SingleTrial ==
  state = "half_open" =>
    Cardinality({c \in Calls : call[c].pc = "awaiting" /\ call[c].began >= openedAt + Recovery}) <= 1
=============================================================================
