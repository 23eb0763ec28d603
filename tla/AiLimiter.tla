------------------------------ MODULE AiLimiter ------------------------------
(***************************************************************************)
(* The rate limits of the AI endpoints: fixed windows that all replicas    *)
(* count in Redis, one per user and one per organisation (router.py).      *)
(***************************************************************************)
EXTENDS Integers, FiniteSets

CONSTANTS
  Users,        \* of one organisation
  Window,       \* RATE_LIMIT_WINDOW
  UserLimit,    \* RATE_LIMIT_AI_PER_USER
  OrgLimit,     \* RATE_LIMIT_AI_PER_ORG
  MaxTime, MaxCalls    \* bounds

VARIABLES
  time,
  counter,      \* the keys wf:rl:ai:... : count and expiry
  passed,       \* history: the calls let through: user, time, which call
  made          \* calls made

vars == <<time, counter, passed, made>>

Keys == Users \cup {"org"}

-----------------------------------------------------------------------------
\* Every variable ranges over its declared type.
TypeOK ==
  /\ time \in 0..MaxTime
  /\ counter \in [Keys -> [n : 0..MaxCalls, until : 0..(MaxTime + Window)]]
  /\ passed \subseteq Users \X (0..MaxTime) \X (1..MaxCalls) /\ made \in 0..MaxCalls

Init == /\ time = 0 /\ passed = {} /\ made = 0
        /\ counter = [k \in Keys |-> [n |-> 0, until |-> 0]]

Tick == time < MaxTime /\ time' = time + 1 /\ UNCHANGED <<counter, passed, made>>

\* _RATE_LIMIT_LUA: INCR, and EXPIRE at the first hit of a window.
Incr(k) == IF time >= counter[k].until THEN [n |-> 1, until |-> time + Window]
           ELSE [counter[k] EXCEPT !.n = @ + 1]

Call == made < MaxCalls /\ made' = made + 1 /\ UNCHANGED time

\* Mutant: both counters are raised before either is compared.
CountsBoth(u) ==
  /\ Call
  /\ counter' = [counter EXCEPT ![u] = Incr(u), !["org"] = Incr("org")]
  /\ passed' = IF Incr(u).n <= UserLimit /\ Incr("org").n <= OrgLimit
               THEN passed \cup {<<u, time, made'>>} ELSE passed

\* _enforce_ai_rate_limit: the user's counter first; a user over the limit is
\* not counted against the organisation.
AiRequest(u) ==
  /\ Call
  /\ counter' = [counter EXCEPT ![u] = Incr(u),
                   !["org"] = IF Incr(u).n <= UserLimit THEN Incr("org") ELSE @]
  /\ passed' = IF Incr(u).n <= UserLimit /\ Incr("org").n <= OrgLimit
               THEN passed \cup {<<u, time, made'>>} ELSE passed

\* The shared cache cannot be reached: allowed, and not counted.
AiRequestUncounted == Call /\ UNCHANGED <<counter, passed>>

Next == Tick \/ AiRequestUncounted \/ \E u \in Users : AiRequest(u)

Spec == Init /\ [][Next]_vars

-----------------------------------------------------------------------------
In(us, t) ==
  Cardinality({c \in passed : c[1] \in us /\ t - c[2] \in 0..(Window - 1)})

\* Fixed windows can meet in a burst, and nothing worse: in any Window, over
\* all replicas, at most two windows' worth of a user's requests and of the
\* organisation's pass the counters (_check_rate_limit_distributed).
BurstBounded ==
  \A t \in 0..time :
    /\ In(Users, t) <= 2 * OrgLimit
    /\ \A u \in Users : In({u}, t) <= 2 * UserLimit

\* A user over the limit cannot lock out the others: when the organisation's
\* counter is full, OrgLimit requests did pass in its window
\* (_enforce_ai_rate_limit).
NoLockout ==
  LET org == counter["org"] IN
  time < org.until /\ org.n > OrgLimit =>
    Cardinality({c \in passed : c[2] >= org.until - Window}) >= OrgLimit

\* What the limits promise together.
LimiterSound == TypeOK /\ BurstBounded /\ NoLockout
=============================================================================
