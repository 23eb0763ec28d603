---------------------------- MODULE LibraryProofs ----------------------------
(***************************************************************************)
(* Theorems about the rest of the node library: the agents of a run, the   *)
(* media of runs, and the groups of a processor.  The three share nothing; *)
(* each part has its invariant, one lemma per action, and a theorem.       *)
(***************************************************************************)
EXTENDS Nodes, FiniteSetTheorems, SequenceTheorems, WellFoundedInduction,
        TLAPS

LoopConstants ==
  /\ IsFiniteSet(Agents) /\ Asked \subseteq Loop!Calls
  /\ MaxIterations \in Nat /\ NodeRetries \in Nat /\ Limit \in Nat
  /\ PoolSize \in Nat /\ MaxReplyCalls \in Nat /\ ClientRetries \in Nat

AgentRecords ==
  [pc : {"start", "ask", "llm", "guard", "tool", "done", "failed"}, granted : Grants,
   attempt : 0..NodeRetries, round : 0..MaxIterations,
   job : {"none", "queued", "running", "loop"}, calls : Seq(Loop!Calls), owed : Nat,
   requests : Nat, wrote : SUBSET {"bad", "sly"}, unlisted : BOOLEAN, blocked : BOOLEAN, lost : BOOLEAN]

\* Where an agent is tells what job it has and what answers it owes.
Paired(r) ==
  /\ r.pc \in {"start", "ask", "guard", "done", "failed"} => r.job = "none"
  /\ r.pc = "llm" => r.job \in {"queued", "running"}
  /\ r.pc = "tool" => r.job # "none"
  /\ r.pc \in {"start", "ask", "llm", "done"} => r.owed = 0
  /\ r.pc \in {"guard", "tool"} => r.calls # <<>> /\ r.owed = Len(r.calls)

\* What runs, or waits for a thread, is no write that the guards can tell; a blocked
\* one ended the node.
Harmless(r) ==
  /\ "bad" \notin r.wrote
  /\ r.pc = "tool" => Head(r.calls).arg # "bad"
  /\ r.blocked /\ ~r.lost => r.pc = "failed"

\* The requests of an agent, the one that waits for a thread included.
Asks(r) == IF r.pc = "llm" /\ r.job = "queued" THEN 1 ELSE 0
Spared(r) == r.requests + Asks(r) <= r.attempt * MaxIterations + r.round

Decent(r) == r \in AgentRecords /\ Paired(r) /\ Harmless(r) /\ Spared(r)

Holding == {a \in Agents : agent[a].job = "running"}
Waiting == {a \in Agents : agent[a].pc = "llm" /\ agent[a].job = "queued"}

LoopInv ==
  /\ agent \in [Agents -> AgentRecords]
  /\ \A a \in Agents : Decent(agent[a])
  /\ charged \in Nat /\ requests \in Nat /\ orphans \in Nat
  /\ Cardinality(Holding) + orphans <= PoolSize
  /\ requests + Cardinality(Waiting) <= charged
  /\ requests + Cardinality(Waiting) <= Limit

\* The client repeats each call a bounded number of times.
Repeats ==
  /\ repeated \in Nat /\ requests \in Nat
  /\ repeated <= ClientRetries * requests

LEMMA LoopCardinality ==
  \A S : Loop!Cardinality(S) = Cardinality(S)
BY DEF Loop!Cardinality, Cardinality

\* A set that one element may enter or leave.
LEMMA SetMoves ==
  ASSUME NEW S, IsFiniteSet(S), NEW T, NEW x, NEW b \in BOOLEAN,
         T = (IF b THEN S \cup {x} ELSE S \ {x})
  PROVE  /\ IsFiniteSet(T) /\ Cardinality(S) \in Nat /\ Cardinality(T) \in Nat
         /\ Cardinality(T) + (IF x \in S THEN 1 ELSE 0)
              = Cardinality(S) + (IF b THEN 1 ELSE 0)
<1>1. Cardinality(S) \in Nat
  BY FS_CardinalityType
<1>2. CASE b
  BY <1>1, <1>2, FS_AddElement
<1>3. CASE ~b
  <2>1. T = S \ {x}
    BY <1>3
  <2>2. /\ IsFiniteSet(T)
        /\ Cardinality(T) = IF x \in S THEN Cardinality(S) - 1 ELSE Cardinality(S)
    BY <2>1, FS_RemoveElement
  <2>3. Cardinality(T) \in Nat
    BY <2>2, FS_CardinalityType
  <2> QED
    BY <1>1, <1>3, <2>2, <2>3
<1> QED
  BY <1>2, <1>3

\* The counts that a step of one agent moves.
Runs1(r) == IF r.job = "running" THEN 1 ELSE 0

LEMMA CountsMove ==
  ASSUME LoopConstants, LoopInv, NEW a \in Agents, NEW u \in AgentRecords,
         agent' = [agent EXCEPT ![a] = u]
  PROVE  /\ Cardinality(Holding) \in Nat /\ Cardinality(Holding') \in Nat
         /\ Cardinality(Waiting) \in Nat /\ Cardinality(Waiting') \in Nat
         /\ Cardinality(Holding') + Runs1(agent[a]) = Cardinality(Holding) + Runs1(u)
         /\ Cardinality(Waiting') + Asks(agent[a]) = Cardinality(Waiting) + Asks(u)
<1>1. IsFiniteSet(Holding) /\ IsFiniteSet(Waiting)
  <2>1. Holding \in SUBSET Agents /\ Waiting \in SUBSET Agents
    BY DEF Holding, Waiting
  <2> QED
    BY <2>1, FS_Subset DEF LoopConstants
<1>2. agent \in [Agents -> AgentRecords]
  BY DEF LoopInv
<1>3. agent'[a] = u /\ \A b \in Agents : b # a => agent'[b] = agent[b]
  BY <1>2
<1>4. PICK p \in BOOLEAN : p <=> u.job = "running"
  OBVIOUS
<1>5. PICK q \in BOOLEAN : q <=> u.pc = "llm" /\ u.job = "queued"
  OBVIOUS
<1>6. Holding' = IF p THEN Holding \cup {a} ELSE Holding \ {a}
  BY <1>3, <1>4 DEF Holding
<1>7. Waiting' = IF q THEN Waiting \cup {a} ELSE Waiting \ {a}
  BY <1>3, <1>5 DEF Waiting
<1>8. /\ (IF a \in Holding THEN 1 ELSE 0) = Runs1(agent[a])
      /\ (IF p THEN 1 ELSE 0) = Runs1(u)
  BY <1>4 DEF Holding, Runs1
<1>9. /\ (IF a \in Waiting THEN 1 ELSE 0) = Asks(agent[a])
      /\ (IF q THEN 1 ELSE 0) = Asks(u)
  BY <1>5 DEF Waiting, Asks
<1>10. /\ Cardinality(Holding) \in Nat /\ Cardinality(Holding') \in Nat
       /\ Cardinality(Holding') + Runs1(agent[a]) = Cardinality(Holding) + Runs1(u)
  <2>1. PICK S, T : S = Holding /\ T = Holding'
    OBVIOUS
  <2>2. IsFiniteSet(S) /\ T = IF p THEN S \cup {a} ELSE S \ {a}
    BY <1>1, <1>6, <2>1
  <2>3. /\ Cardinality(S) \in Nat /\ Cardinality(T) \in Nat
        /\ Cardinality(T) + (IF a \in S THEN 1 ELSE 0)
             = Cardinality(S) + (IF p THEN 1 ELSE 0)
    BY <2>2, SetMoves
  <2> QED
    BY <1>8, <2>1, <2>3
<1>11. /\ Cardinality(Waiting) \in Nat /\ Cardinality(Waiting') \in Nat
       /\ Cardinality(Waiting') + Asks(agent[a]) = Cardinality(Waiting) + Asks(u)
  <2>1. PICK S, T : S = Waiting /\ T = Waiting'
    OBVIOUS
  <2>2. IsFiniteSet(S) /\ T = IF q THEN S \cup {a} ELSE S \ {a}
    BY <1>1, <1>7, <2>1
  <2>3. /\ Cardinality(S) \in Nat /\ Cardinality(T) \in Nat
        /\ Cardinality(T) + (IF a \in S THEN 1 ELSE 0)
             = Cardinality(S) + (IF q THEN 1 ELSE 0)
    BY <2>2, SetMoves
  <2> QED
    BY <1>9, <2>1, <2>3
<1> QED
  BY <1>10, <1>11

\* What is to show of a step of one agent: its own state, and the counts.
LEMMA AgentMoves ==
  ASSUME LoopConstants, LoopInv, NEW a \in Agents, NEW u, Decent(u),
         agent' = [agent EXCEPT ![a] = u],
         charged' \in Nat, requests' \in Nat, orphans' \in Nat,
         \/ Runs1(u) + orphans' <= Runs1(agent[a]) + orphans
         \/ Loop!Running < PoolSize /\ Runs1(u) + orphans' <= Runs1(agent[a]) + orphans + 1,
         charged <= charged',
         \/ requests' + Asks(u) <= requests + Asks(agent[a])
         \/ /\ requests' + Asks(u) <= requests + Asks(agent[a]) + 1
            /\ charged' = charged + 1 /\ charged' <= Limit
  PROVE  LoopInv'
<1>1. u \in AgentRecords /\ agent \in [Agents -> AgentRecords]
  BY DEF Decent, LoopInv
<1>2. agent' \in [Agents -> AgentRecords]
  BY <1>1
<1>3. \A b \in Agents : Decent(agent'[b])
  <2>1. \A b \in Agents : Decent(agent[b])
    BY DEF LoopInv
  <2> QED
    BY <1>1, <2>1
<1>4. PICK h, hh, w, ww :
        /\ h = Cardinality(Holding) /\ hh = Cardinality(Holding')
        /\ w = Cardinality(Waiting) /\ ww = Cardinality(Waiting')
  OBVIOUS
<1>5. /\ h \in Nat /\ hh \in Nat /\ w \in Nat /\ ww \in Nat
       /\ hh + Runs1(agent[a]) = h + Runs1(u) /\ ww + Asks(agent[a]) = w + Asks(u)
  BY <1>1, <1>4, CountsMove
<1>6. /\ Runs1(u) \in 0..1 /\ Runs1(agent[a]) \in 0..1
      /\ Asks(u) \in 0..1 /\ Asks(agent[a]) \in 0..1
  BY DEF Runs1, Asks
<1>7. /\ h + orphans <= PoolSize /\ w + requests <= charged /\ w + requests <= Limit
      /\ charged \in Nat /\ requests \in Nat /\ orphans \in Nat
      /\ PoolSize \in Nat /\ Limit \in Nat
  BY <1>4, <1>5 DEF LoopInv, LoopConstants
<1>8. Loop!Running < PoolSize => h + orphans < PoolSize
  <2>1. Loop!Running = h + orphans
    BY <1>4, LoopCardinality DEF Loop!Running, Holding
  <2> QED
    BY <2>1
<1>9. PICK x, y, s, t, c, r, o :
         /\ x = Runs1(u) /\ y = Runs1(agent[a]) /\ s = Asks(u) /\ t = Asks(agent[a])
         /\ c = charged' /\ r = requests' /\ o = orphans'
  OBVIOUS
<1>10. /\ x \in Nat /\ y \in Nat /\ s \in Nat /\ t \in Nat
       /\ c \in Nat /\ r \in Nat /\ o \in Nat
  BY <1>6, <1>9
<1>11. /\ hh + y = h + x /\ ww + t = w + s /\ charged <= c
       /\ x + o <= y + orphans \/ (h + orphans < PoolSize /\ x + o <= y + orphans + 1)
       /\ r + s <= requests + t \/ (r + s <= requests + t + 1 /\ c = charged + 1 /\ c <= Limit)
  BY <1>5, <1>8, <1>9
<1>12. h \in Nat /\ hh \in Nat /\ w \in Nat /\ ww \in Nat
  BY <1>5
<1>13. PICK cc, rr, oo, m, l :
         /\ cc = charged /\ rr = requests /\ oo = orphans /\ m = PoolSize /\ l = Limit
  OBVIOUS
<1>14. /\ cc \in Nat /\ rr \in Nat /\ oo \in Nat /\ m \in Nat /\ l \in Nat
       /\ h + oo <= m /\ w + rr <= cc /\ w + rr <= l
  BY <1>7, <1>13
<1>15. /\ hh + y = h + x /\ ww + t = w + s /\ cc <= c
       /\ x + o <= y + oo \/ (h + oo < m /\ x + o <= y + oo + 1)
       /\ r + s <= rr + t \/ (r + s <= rr + t + 1 /\ c = cc + 1 /\ c <= l)
  BY <1>11, <1>13
<1>16. hh + o <= m
  BY <1>10, <1>12, <1>14, <1>15
<1>17. ww + r <= c /\ ww + r <= l
  BY <1>10, <1>12, <1>14, <1>15
<1> QED
  BY <1>2, <1>3, <1>4, <1>5, <1>9, <1>13, <1>16, <1>17 DEF LoopInv
-----------------------------------------------------------------------------
\* The next attempt has as many rounds as the last one.
LEMMA OneMoreAttempt ==
  ASSUME NEW n \in Nat, NEW m \in Nat
  PROVE  n * m \in Nat /\ (n + 1) * m = n * m + m
OBVIOUS

\* An attempt that fails: another one, or the end of the node.
LEMMA AttemptFailed ==
  ASSUME LoopConstants, NEW r, Decent(r), r.pc \notin {"done", "failed"},
         NEW bl \in BOOLEAN, NEW lo \in BOOLEAN,
         bl /\ ~lo => r.blocked /\ ~r.lost
  PROVE  /\ r.attempt < NodeRetries =>
              /\ Decent([r EXCEPT !.blocked = bl, !.lost = lo, !.pc = "start", !.attempt = @ + 1,
                                  !.round = 0, !.job = "none", !.calls = <<>>, !.owed = 0])
         /\ Decent([r EXCEPT !.pc = "failed", !.job = "none", !.calls = <<>>])
<1>1. /\ r \in AgentRecords /\ "bad" \notin r.wrote /\ ~(r.blocked /\ ~r.lost)
      /\ r.requests + Asks(r) <= r.attempt * MaxIterations + r.round
  BY DEF Decent, Harmless, Spared
<1>2. <<>> \in Seq(Loop!Calls)
  OBVIOUS
<1>3. PICK n, m, k : n = r.attempt + 1 /\ m = r.attempt * MaxIterations /\ k = r.requests
  OBVIOUS
<1>4. /\ r.attempt \in Nat /\ MaxIterations \in Nat /\ r.round \in 0..MaxIterations /\ k \in Nat
  BY <1>1, <1>3 DEF AgentRecords, LoopConstants
<1>5. m \in Nat /\ n * MaxIterations = m + MaxIterations
  BY <1>3, <1>4, OneMoreAttempt
<1>6. k <= m + r.round
  <2>1. Asks(r) \in 0..1
    BY DEF Asks
  <2> QED
    BY <1>1, <1>3, <1>4, <1>5, <2>1
<1>7. ASSUME r.attempt < NodeRetries, NEW u,
             u = [r EXCEPT !.blocked = bl, !.lost = lo, !.pc = "start", !.attempt = n,
                           !.round = 0, !.job = "none", !.calls = <<>>, !.owed = 0]
      PROVE  Decent(u)
  <2>1. n \in 0..NodeRetries /\ 0 \in 0..MaxIterations
    BY <1>3, <1>4, <1>7 DEF LoopConstants
  <2>2. u \in AgentRecords
    BY <1>1, <1>2, <1>7, <2>1 DEF AgentRecords
  <2>3. /\ u.pc = "start" /\ u.job = "none" /\ u.owed = 0 /\ u.attempt = n /\ u.round = 0
        /\ u.requests = k /\ u.wrote = r.wrote /\ u.blocked = bl /\ u.lost = lo
    BY <1>1, <1>3, <1>7 DEF AgentRecords
  <2>4. Spared(u)
    BY <1>4, <1>5, <1>6, <2>3 DEF Spared, Asks
  <2> QED
    BY <1>1, <2>2, <2>3, <2>4 DEF Decent, Paired, Harmless
<1>8. ASSUME NEW u, u = [r EXCEPT !.pc = "failed", !.job = "none", !.calls = <<>>]
      PROVE  Decent(u)
  <2>1. u \in AgentRecords
    BY <1>1, <1>2, <1>8 DEF AgentRecords
  <2>2. /\ u.pc = "failed" /\ u.job = "none" /\ u.attempt = r.attempt /\ u.round = r.round
        /\ u.requests = k /\ u.wrote = r.wrote
    BY <1>1, <1>3, <1>8 DEF AgentRecords
  <2>3. Spared(u)
    BY <1>3, <1>4, <1>5, <1>6, <2>2 DEF Spared, Asks
  <2> QED
    BY <1>1, <2>1, <2>2, <2>3 DEF Decent, Paired, Harmless
<1> QED
  BY <1>3, <1>7, <1>8

LEMMA AttemptFailsKeeps ==
  ASSUME LoopConstants, LoopInv, NEW a \in Agents, Loop!AttemptFails(a, FALSE),
         agent[a].pc \notin {"done", "failed"},
         charged' \in Nat, charged <= charged', requests' = requests, orphans' = orphans
  PROVE  LoopInv'
<1>1. PICK r : r = agent[a]
  OBVIOUS
<1>2. Decent(r) /\ r \in AgentRecords /\ requests' \in Nat /\ orphans' \in Nat
  BY <1>1 DEF LoopInv, Decent
<1>3. PICK u : /\ agent' = [agent EXCEPT ![a] = u] /\ Decent(u)
               /\ u.pc \in {"start", "failed"}
  <2>1. CASE r.attempt < NodeRetries
    <3>1. PICK u : u = [r EXCEPT !.pc = "start", !.attempt = @ + 1, !.round = 0,
                                 !.job = "none", !.calls = <<>>, !.owed = 0]
      OBVIOUS
    <3>2. u = [r EXCEPT !.blocked = r.blocked, !.lost = r.lost, !.pc = "start",
                        !.attempt = @ + 1, !.round = 0, !.job = "none", !.calls = <<>>,
                        !.owed = 0]
      BY <1>2, <3>1 DEF AgentRecords
    <3>3. r.blocked \in BOOLEAN /\ r.lost \in BOOLEAN
      BY <1>2 DEF AgentRecords
    <3>4. Decent(u)
      BY <1>1, <1>2, <2>1, <3>2, <3>3, AttemptFailed
    <3>5. u.pc = "start"
      BY <1>2, <3>1 DEF AgentRecords
    <3>6. agent' = [agent EXCEPT ![a] = u]
      BY <1>1, <2>1, <3>1 DEF Loop!AttemptFails
    <3> QED
      BY <3>4, <3>5, <3>6
  <2>2. CASE ~(r.attempt < NodeRetries)
    <3>1. PICK u : u = [r EXCEPT !.pc = "failed", !.job = "none", !.calls = <<>>]
      OBVIOUS
    <3>2. Decent(u)
      BY <1>1, <1>2, <3>1, AttemptFailed
    <3>3. u.pc = "failed"
      BY <1>2, <3>1 DEF AgentRecords
    <3>4. agent' = [agent EXCEPT ![a] = u]
      BY <1>1, <2>2, <3>1 DEF Loop!AttemptFails
    <3> QED
      BY <3>2, <3>3, <3>4
  <2> QED
    BY <2>1, <2>2
<1>4. Runs1(u) = 0 /\ Asks(u) = 0 /\ Runs1(agent[a]) \in Nat /\ Asks(agent[a]) \in Nat
  BY <1>3 DEF Decent, Paired, Runs1, Asks
<1>5. /\ Runs1(u) + orphans' <= Runs1(agent[a]) + orphans
      /\ requests' + Asks(u) <= requests + Asks(agent[a])
  <2>1. orphans \in Nat /\ requests \in Nat
    BY DEF LoopInv
  <2>2. PICK x, y : x = Runs1(agent[a]) /\ y = Asks(agent[a])
    OBVIOUS
  <2> QED
    BY <1>4, <2>1, <2>2
<1> QED
  BY <1>2, <1>3, <1>5, AgentMoves

\* A call is answered: its answer is no longer owed.
LEMMA AnsweredMoves ==
  ASSUME LoopConstants, LoopInv, NEW a \in Agents, Loop!Answered(a),
         agent[a].pc \in {"guard", "tool"}
  PROVE  \E u : agent' = [agent EXCEPT ![a] = u] /\ Decent(u) /\ u.job = "none"
<1>1. PICK r : r = agent[a]
  OBVIOUS
<1>2. /\ Decent(r) /\ r \in AgentRecords /\ r.calls # <<>> /\ r.owed = Len(r.calls)
      /\ r.calls \in Seq(Loop!Calls) /\ r.owed \in Nat
      /\ r.pc # "failed" /\ r.pc # "llm"
  BY <1>1 DEF LoopInv, Decent, Paired, AgentRecords
<1>3. PICK q, n, p : /\ q = Tail(r.calls) /\ n = r.owed - 1
                     /\ p = IF Len(r.calls) = 1 THEN "ask" ELSE "guard"
  OBVIOUS
<1>4. /\ q \in Seq(Loop!Calls) /\ n \in Nat /\ n = Len(q)
      /\ p = "ask" => n = 0
      /\ p = "guard" => q # <<>>
      /\ p \in {"ask", "guard"}
  <2>1. Len(r.calls) \in Nat /\ Len(r.calls) # 0
    BY <1>2
  <2>2. q \in Seq(Loop!Calls) /\ Len(q) = Len(r.calls) - 1
    BY <1>2, <1>3
  <2>3. p = "guard" => Len(q) # 0
    BY <1>3, <2>1, <2>2
  <2>4. q = <<>> => Len(q) = 0
    OBVIOUS
  <2> QED
    BY <1>2, <1>3, <2>1, <2>2, <2>3, <2>4
<1>5. PICK u : u = [r EXCEPT !.calls = q, !.job = "none", !.owed = n, !.pc = p]
  OBVIOUS
<1>6. u \in AgentRecords
  BY <1>2, <1>4, <1>5 DEF AgentRecords
<1>7. /\ u.pc = p /\ u.job = "none" /\ u.owed = n /\ u.calls = q /\ u.attempt = r.attempt
      /\ u.round = r.round /\ u.requests = r.requests /\ u.wrote = r.wrote
      /\ u.blocked = r.blocked /\ u.lost = r.lost
  BY <1>2, <1>5 DEF AgentRecords
<1>8. Decent(u)
  <2>1. Spared(u)
    <3>1. Asks(u) = 0 /\ Asks(r) = 0
      BY <1>2, <1>4, <1>7 DEF Asks
    <3> QED
      BY <1>2, <1>7, <3>1 DEF Decent, Spared
  <2>2. Paired(u)
    BY <1>4, <1>7 DEF Paired
  <2>3. Harmless(u)
    BY <1>2, <1>4, <1>7 DEF Decent, Harmless
  <2> QED
    BY <1>6, <2>1, <2>2, <2>3 DEF Decent
<1>9. agent' = [agent EXCEPT ![a] = u]
  <2>1. agent' = [agent EXCEPT ![a] =
          [r EXCEPT !.calls = Tail(r.calls), !.job = "none", !.owed = r.owed - 1,
                    !.pc = IF Len(r.calls) = 1 THEN "ask" ELSE "guard"]]
    BY <1>1 DEF Loop!Answered, LoopInv
  <2> QED
    BY <1>3, <1>5, <2>1
<1> QED
  BY <1>7, <1>8, <1>9

\* An agent that gives its thread back, or leaves it behind, and asks nothing.
LEMMA Releases ==
  ASSUME LoopConstants, LoopInv, NEW a \in Agents, NEW u, Decent(u), u.job # "running",
         u.job # "queued" \/ u.pc # "llm",
         agent' = [agent EXCEPT ![a] = u], charged' = charged, requests' = requests,
         orphans' = orphans \/ Loop!Left(a)
  PROVE  LoopInv'
<1>1. charged' \in Nat /\ requests' \in Nat /\ orphans \in Nat /\ charged <= charged'
      /\ requests \in Nat
  BY DEF LoopInv
<1>2. PICK x, y : x = Runs1(agent[a]) /\ y = Asks(agent[a])
  OBVIOUS
<1>3. x \in Nat /\ y \in Nat /\ Runs1(u) = 0 /\ Asks(u) = 0
  BY <1>2 DEF Runs1, Asks
<1>4. orphans' \in Nat /\ orphans' <= x + orphans
  BY <1>1, <1>2, <1>3 DEF Loop!Left, Runs1
<1>5. requests' + Asks(u) <= requests + Asks(agent[a])
  BY <1>1, <1>2, <1>3
<1>6. Runs1(u) + orphans' <= Runs1(agent[a]) + orphans
  BY <1>2, <1>3, <1>4
<1> QED
  BY <1>1, <1>4, <1>5, <1>6, AgentMoves

LEMMA AnsweredKeeps ==
  ASSUME LoopConstants, LoopInv, NEW a \in Agents, Loop!Answered(a),
         agent[a].pc \in {"guard", "tool"}, charged' = charged, requests' = requests,
         orphans' = orphans \/ Loop!Left(a)
  PROVE  LoopInv'
<1>1. PICK u : agent' = [agent EXCEPT ![a] = u] /\ Decent(u) /\ u.job = "none"
  BY AnsweredMoves
<1> QED
  BY <1>1, Releases

-----------------------------------------------------------------------------
\* The actions.
LEMMA LoopStart ==
  ASSUME LoopConstants, LoopInv, NEW a \in Agents, Loop!Start(a)
  PROVE  LoopInv'
<1>1. CASE Loop!AttemptFails(a, FALSE)
  <2>1. charged \in Nat
    BY DEF LoopInv
  <2>2. /\ charged' \in Nat /\ charged <= charged'
        /\ requests' = requests /\ orphans' = orphans
        /\ agent[a].pc \notin {"done", "failed"}
    BY <2>1 DEF Loop!Start
  <2> QED
    BY <1>1, <2>2, AttemptFailsKeeps
<1>2. CASE agent' = [agent EXCEPT ![a].pc = "ask"]
  <2>1. PICK r, u : r = agent[a] /\ u = [r EXCEPT !.pc = "ask"]
    OBVIOUS
  <2>2. r \in AgentRecords /\ Decent(r) /\ r.pc = "start"
    BY <2>1 DEF LoopInv, Decent, Loop!Start
  <2>3. /\ u \in AgentRecords /\ u.pc = "ask" /\ u.job = r.job /\ u.owed = r.owed
        /\ u.attempt = r.attempt /\ u.round = r.round /\ u.requests = r.requests
        /\ u.wrote = r.wrote /\ u.blocked = r.blocked /\ u.lost = r.lost
    BY <2>1, <2>2 DEF AgentRecords
  <2>4. Decent(u)
    BY <2>2, <2>3 DEF Decent, Paired, Harmless, Spared, Asks
  <2>5. agent' = [agent EXCEPT ![a] = u]
    BY <1>2, <2>1
  <2>6. u.job = "none"
    BY <2>2, <2>3 DEF Decent, Paired
  <2> QED
    BY <2>4, <2>5, <2>6, Releases DEF Loop!Start
<1> QED
  BY <1>1, <1>2 DEF Loop!Start

\* The loop ends: out of rounds, or with an answer.
LEMMA LoopEnds ==
  ASSUME LoopConstants, LoopInv, NEW a \in Agents,
         Loop!OutOfRounds(a) \/ Loop!Answers(a)
  PROVE  LoopInv'
<1>1. PICK r, u : r = agent[a] /\ u = [r EXCEPT !.pc = "done", !.job = "none"]
  OBVIOUS
<1>2. r \in AgentRecords /\ Decent(r) /\ r.pc \in {"ask", "llm"}
      /\ (r.pc = "llm" => r.job = "running")
  BY <1>1 DEF LoopInv, Decent, Loop!OutOfRounds, Loop!Answers
<1>3. /\ u \in AgentRecords /\ u.pc = "done" /\ u.job = "none" /\ u.owed = r.owed
      /\ u.attempt = r.attempt /\ u.round = r.round /\ u.requests = r.requests
      /\ u.wrote = r.wrote /\ u.blocked = r.blocked /\ u.lost = r.lost
  BY <1>1, <1>2 DEF AgentRecords
<1>4. Decent(u)
  BY <1>2, <1>3 DEF Decent, Paired, Harmless, Spared, Asks
<1>5. agent' = [agent EXCEPT ![a] = u]
  <2>1. CASE Loop!Answers(a)
    BY <1>1, <2>1 DEF Loop!Answers
  <2>2. CASE Loop!OutOfRounds(a)
    <3>1. u = [r EXCEPT !.pc = "done"]
      BY <1>1, <1>2, <2>2 DEF Loop!OutOfRounds, Decent, Paired, AgentRecords
    <3> QED
      BY <1>1, <2>2, <3>1 DEF Loop!OutOfRounds
  <2> QED
    BY <2>1, <2>2
<1> QED
  BY <1>3, <1>4, <1>5, Releases DEF Loop!OutOfRounds, Loop!Answers

LEMMA LoopCharge ==
  ASSUME LoopConstants, LoopInv, NEW a \in Agents, Loop!Charge(a)
  PROVE  LoopInv'
<1>1. /\ charged \in Nat /\ charged' = charged + 1 /\ charged' \in Nat /\ charged <= charged'
      /\ requests' = requests /\ orphans' = orphans /\ requests \in Nat /\ orphans \in Nat
      /\ agent[a].pc = "ask" /\ agent[a].round < MaxIterations
      /\ Limit \in Nat
  BY DEF Loop!Charge, LoopInv, LoopConstants
<1>2. CASE charged' > Limit /\ Loop!AttemptFails(a, FALSE)
  BY <1>1, <1>2, AttemptFailsKeeps
<1>3. CASE /\ ~(charged' > Limit)
           /\ agent' = [agent EXCEPT ![a].pc = "llm", ![a].job = "queued", ![a].round = @ + 1]
  <2>1. PICK r, n : r = agent[a] /\ n = r.round + 1
    OBVIOUS
  <2>2. PICK u : u = [r EXCEPT !.pc = "llm", !.job = "queued", !.round = n]
    OBVIOUS
  <2>3. /\ r \in AgentRecords /\ Decent(r) /\ r.pc = "ask" /\ r.job = "none"
        /\ r.round \in 0..MaxIterations /\ r.round < MaxIterations /\ MaxIterations \in Nat
    BY <1>1, <2>1 DEF LoopInv, Decent, Paired, AgentRecords, LoopConstants
  <2>4. n \in 0..MaxIterations /\ n = r.round + 1
    BY <2>1, <2>3
  <2>5. /\ u \in AgentRecords /\ u.pc = "llm" /\ u.job = "queued" /\ u.owed = r.owed
        /\ u.attempt = r.attempt /\ u.round = n /\ u.requests = r.requests
        /\ u.wrote = r.wrote /\ u.blocked = r.blocked /\ u.lost = r.lost
    BY <2>2, <2>3, <2>4 DEF AgentRecords
  <2>6. Asks(r) = 0 /\ Asks(u) = 1 /\ Runs1(r) = 0 /\ Runs1(u) = 0
    BY <2>3, <2>5 DEF Asks, Runs1
  <2>7. Spared(u)
    <3>1. PICK m, k, o : m = r.attempt * MaxIterations /\ k = r.requests /\ o = r.round
      OBVIOUS
    <3>2. m \in Nat /\ k \in Nat /\ o \in Nat
      <4>1. r.attempt \in Nat
        BY <2>3 DEF AgentRecords
      <4> QED
        BY <2>3, <3>1, <4>1, OneMoreAttempt DEF AgentRecords
    <3>3. k <= m + o
      BY <2>3, <2>6, <3>1, <3>2 DEF Decent, Spared
    <3>4. k + 1 <= m + n
      BY <2>4, <3>1, <3>2, <3>3
    <3> QED
      BY <2>5, <2>6, <3>1, <3>4 DEF Spared
  <2>8. Decent(u)
    BY <2>3, <2>5, <2>7 DEF Decent, Paired, Harmless
  <2>9. agent' = [agent EXCEPT ![a] = u]
    BY <1>3, <2>1, <2>2
  <2>10. requests' + Asks(u) <= requests + Asks(agent[a]) + 1
         /\ Runs1(u) + orphans' <= Runs1(agent[a]) + orphans
    BY <1>1, <2>1, <2>6
  <2>11. requests' \in Nat /\ orphans' \in Nat /\ charged' <= Limit
    BY <1>1, <1>3
  <2> QED
    BY <1>1, <2>8, <2>9, <2>10, <2>11, AgentMoves
<1> QED
  BY <1>2, <1>3 DEF Loop!Charge

LEMMA LoopTakes ==
  ASSUME LoopConstants, LoopInv, NEW a \in Agents, Loop!ThreadTakes(a)
  PROVE  LoopInv'
<1>1. PICK r, c : r = agent[a] /\ c = Head(r.calls)
  OBVIOUS
<1>2. /\ r \in AgentRecords /\ Decent(r) /\ r.job = "queued" /\ r.pc \in {"llm", "tool"}
      /\ r.requests \in Nat
      /\ charged \in Nat /\ charged' = charged /\ requests \in Nat /\ orphans \in Nat
      /\ orphans' = orphans /\ Loop!Running < PoolSize
  BY <1>1 DEF LoopInv, Decent, Paired, Loop!ThreadTakes, AgentRecords
<1>3. Runs1(r) = 0
  BY <1>2 DEF Runs1
<1>4. charged' \in Nat /\ charged <= charged' /\ orphans' \in Nat
  BY <1>2
<1>5. CASE r.pc = "llm"
  <2>1. PICK n \in Nat : n = r.requests + 1
    BY <1>2
  <2>2. PICK u : u = [r EXCEPT !.job = "running", !.requests = n]
    OBVIOUS
  <2>3. /\ u \in AgentRecords /\ u.pc = "llm" /\ u.job = "running" /\ u.owed = r.owed
        /\ u.attempt = r.attempt /\ u.round = r.round /\ u.requests = n
        /\ u.wrote = r.wrote /\ u.blocked = r.blocked /\ u.lost = r.lost
    BY <1>2, <1>5, <2>1, <2>2 DEF AgentRecords
  <2>4. Asks(r) = 1 /\ Asks(u) = 0 /\ Runs1(u) = 1
    BY <1>2, <1>5, <2>3 DEF Asks, Runs1
  <2>5. Spared(u)
    <3>1. n + 0 = r.requests + 1
      BY <1>2, <2>1
    <3> QED
      BY <1>2, <2>3, <2>4, <3>1 DEF Decent, Spared
  <2>6. Decent(u)
    BY <1>2, <1>5, <2>3, <2>5 DEF Decent, Paired, Harmless
  <2>7. agent' = [agent EXCEPT ![a] = u] /\ requests' = requests + 1
    BY <1>1, <1>5, <2>1, <2>2 DEF Loop!ThreadTakes
  <2>8. requests' + Asks(u) <= requests + Asks(agent[a]) /\ requests' \in Nat
    BY <1>1, <1>2, <2>4, <2>7
  <2>9. Runs1(u) + orphans' <= Runs1(agent[a]) + orphans + 1
    BY <1>1, <1>2, <1>3, <2>4
  <2> QED
    BY <1>2, <1>4, <2>6, <2>7, <2>8, <2>9, AgentMoves
<1>6. CASE r.pc = "tool"
  <2>1. PICK w, v : /\ w = r.wrote \cup ({c.arg} \ {"ok"})
                    /\ v = (r.unlisted \/ c.fn \notin r.granted)
    OBVIOUS
  <2>2. /\ c.arg \in {"ok", "sly"} /\ r.unlisted \in BOOLEAN
        /\ r.wrote \in SUBSET {"bad", "sly"} /\ "bad" \notin r.wrote
    <3>1. /\ r.calls \in Seq(Loop!Calls) /\ r.calls # <<>> /\ c.arg # "bad"
          /\ r.unlisted \in BOOLEAN /\ r.wrote \in SUBSET {"bad", "sly"}
          /\ "bad" \notin r.wrote
      BY <1>1, <1>2, <1>6 DEF Decent, Paired, Harmless, AgentRecords
    <3>2. c \in Loop!Calls
      BY <1>1, <3>1
    <3> QED
      BY <3>1, <3>2 DEF Loop!Calls
  <2>3. w \in SUBSET {"bad", "sly"} /\ "bad" \notin w /\ v \in BOOLEAN
    <3>1. w \in SUBSET {"bad", "sly"} /\ "bad" \notin w
      BY <2>1, <2>2
    <3>3. v \in BOOLEAN
      BY <2>1, <2>2, Zenon
    <3> QED
      BY <3>1, <3>3
  <2>4. PICK u : u = [r EXCEPT !.job = "running", !.wrote = w, !.unlisted = v]
    OBVIOUS
  <2>5. /\ u \in AgentRecords /\ u.pc = "tool" /\ u.job = "running" /\ u.owed = r.owed
        /\ u.attempt = r.attempt /\ u.round = r.round /\ u.requests = r.requests
        /\ u.wrote = w /\ u.blocked = r.blocked /\ u.lost = r.lost /\ u.calls = r.calls
    BY <1>2, <1>6, <2>3, <2>4 DEF AgentRecords
  <2>6. Asks(r) = 0 /\ Asks(u) = 0 /\ Runs1(u) = 1
    BY <1>6, <2>5 DEF Asks, Runs1
  <2>7. Decent(u)
    BY <1>2, <1>6, <2>3, <2>5, <2>6 DEF Decent, Paired, Harmless, Spared
  <2>8. agent' = [agent EXCEPT ![a] = u] /\ requests' = requests
    <3>1. PICK g : g = [r EXCEPT !.job = "running"]
      OBVIOUS
    <3>2. /\ g.calls = r.calls /\ g.granted = r.granted /\ g.wrote = r.wrote
          /\ g.unlisted = r.unlisted
      BY <1>2, <3>1 DEF AgentRecords
    <3>3. Loop!Noted(g) = [g EXCEPT !.wrote = w, !.unlisted = v]
      <4>1. Loop!Noted(g) = [g EXCEPT !.wrote = g.wrote \cup ({c.arg} \ {"ok"}),
                                      !.unlisted = (g.unlisted \/ c.fn \notin g.granted)]
        BY <1>1, <3>2 DEF Loop!Noted
      <4> QED
        BY <2>1, <3>2, <4>1
    <3>4. [g EXCEPT !.wrote = w, !.unlisted = v] = u
      BY <1>2, <2>4, <3>1 DEF AgentRecords
    <3>5. agent[a].pc # "llm"
      BY <1>1, <1>6
    <3> QED
      BY <1>1, <3>1, <3>3, <3>4, <3>5 DEF Loop!ThreadTakes
  <2>9. requests' + Asks(u) <= requests + Asks(agent[a]) /\ requests' \in Nat
    BY <1>1, <1>2, <2>6, <2>8
  <2>10. Runs1(u) + orphans' <= Runs1(agent[a]) + orphans + 1
    BY <1>1, <1>2, <1>3, <2>6
  <2> QED
    BY <1>2, <1>4, <2>7, <2>8, <2>9, <2>10, AgentMoves
<1> QED
  BY <1>2, <1>5, <1>6

LEMMA LoopCalls ==
  ASSUME LoopConstants, LoopInv, NEW a \in Agents, NEW cs \in Loop!Replies,
         Loop!CallsTools(a, cs)
  PROVE  LoopInv'
<1>1. PICK n \in 1..MaxReplyCalls : cs \in [1..n -> Asked]
  BY DEF Loop!Replies
<1>2. /\ cs \in Seq(Loop!Calls) /\ cs # <<>> /\ Len(cs) \in Nat
  <2>1. n \in Nat /\ n >= 1
    BY <1>1 DEF LoopConstants
  <2>2. cs \in [1..n -> Loop!Calls]
    BY <1>1 DEF LoopConstants
  <2>3. cs \in Seq(Loop!Calls) /\ Len(cs) = n
    BY <2>1, <2>2, SeqDef
  <2>4. cs # <<>>
    BY <2>1, <2>3
  <2> QED
    BY <2>1, <2>3, <2>4
<1>3. PICK r, k : r = agent[a] /\ k = Len(cs)
  OBVIOUS
<1>4. PICK u : u = [r EXCEPT !.pc = "guard", !.job = "none", !.calls = cs, !.owed = k]
  OBVIOUS
<1>5. r \in AgentRecords /\ Decent(r) /\ r.pc = "llm" /\ r.job = "running" /\ k \in Nat
  BY <1>2, <1>3 DEF LoopInv, Decent, Loop!CallsTools
<1>6. /\ u \in AgentRecords /\ u.pc = "guard" /\ u.job = "none" /\ u.owed = k
      /\ u.calls = cs /\ u.attempt = r.attempt /\ u.round = r.round
      /\ u.requests = r.requests /\ u.wrote = r.wrote /\ u.blocked = r.blocked
      /\ u.lost = r.lost
  BY <1>2, <1>4, <1>5 DEF AgentRecords
<1>7. Asks(u) = 0 /\ Asks(r) = 0
  BY <1>5, <1>6 DEF Asks
<1>8. Decent(u)
  BY <1>2, <1>3, <1>5, <1>6, <1>7 DEF Decent, Paired, Harmless, Spared
<1>9. agent' = [agent EXCEPT ![a] = u]
  BY <1>3, <1>4 DEF Loop!CallsTools
<1> QED
  BY <1>6, <1>8, <1>9, Releases DEF Loop!CallsTools

LEMMA LoopLlmFails ==
  ASSUME LoopConstants, LoopInv, NEW a \in Agents, Loop!LlmFails(a)
  PROVE  LoopInv'
<1>1. charged \in Nat
  BY DEF LoopInv
<1>2. Loop!AttemptFails(a, FALSE)
  BY Zenon DEF Loop!LlmFails
<1>3. /\ charged' \in Nat /\ charged <= charged'
      /\ requests' = requests /\ orphans' = orphans
      /\ agent[a].pc \notin {"done", "failed"}
  BY <1>1 DEF Loop!LlmFails
<1> QED
  BY <1>2, <1>3, AttemptFailsKeeps

LEMMA LoopBlocks ==
  ASSUME LoopConstants, LoopInv, NEW a \in Agents, Loop!BlockWrite(a)
  PROVE  LoopInv'
<1>1. PICK r : r = agent[a]
  OBVIOUS
<1>2. r \in AgentRecords /\ Decent(r) /\ r.pc = "guard" /\ r.job = "none"
  BY <1>1 DEF LoopInv, Decent, Paired, Loop!BlockWrite
<1>3. PICK audited \in BOOLEAN :
        LET failed == [agent[a] EXCEPT !.blocked = TRUE, !.lost = ~audited] IN
        agent' = [agent EXCEPT ![a] =
          IF ~audited /\ agent[a].attempt < NodeRetries
          THEN [failed EXCEPT !.pc = "start", !.attempt = @ + 1, !.round = 0, !.calls = <<>>,
                              !.owed = 0]
          ELSE [failed EXCEPT !.pc = "failed", !.calls = <<>>]]
  BY DEF Loop!BlockWrite
<1>4. PICK u : /\ agent' = [agent EXCEPT ![a] = u] /\ Decent(u) /\ u.job = "none"
  <2>1. CASE ~audited /\ r.attempt < NodeRetries
    <3>1. PICK u : u = [r EXCEPT !.blocked = TRUE, !.lost = TRUE, !.pc = "start",
                                 !.attempt = @ + 1, !.round = 0, !.job = "none",
                                 !.calls = <<>>, !.owed = 0]
      OBVIOUS
    <3>2. Decent(u)
      <4>1. [r EXCEPT !.blocked = TRUE, !.lost = TRUE, !.pc = "start",
                      !.attempt = @ + 1, !.round = 0, !.job = "none",
                      !.calls = <<>>, !.owed = 0] = u
        BY <3>1
      <4> QED
        BY <1>2, <2>1, <4>1, AttemptFailed
    <3>3. u.job = "none"
      BY <1>2, <3>1 DEF AgentRecords
    <3>4. u = [[r EXCEPT !.blocked = TRUE, !.lost = ~audited]
                 EXCEPT !.pc = "start", !.attempt = @ + 1, !.round = 0, !.calls = <<>>,
                        !.owed = 0]
      BY <1>2, <2>1, <3>1 DEF AgentRecords
    <3>5. agent' = [agent EXCEPT ![a] = u]
      BY <1>1, <1>3, <2>1, <3>4
    <3> QED
      BY <3>2, <3>3, <3>5
  <2>2. CASE ~(~audited /\ r.attempt < NodeRetries)
    <3>1. PICK l : l = ~audited
      OBVIOUS
    <3>2. PICK g, u : /\ g = [r EXCEPT !.blocked = TRUE, !.lost = l]
                      /\ u = [g EXCEPT !.pc = "failed", !.calls = <<>>]
      OBVIOUS
    <3>3. l \in BOOLEAN
      BY <3>1, Zenon
    <3>4. /\ g \in AgentRecords /\ g.attempt = r.attempt /\ g.round = r.round
          /\ g.requests = r.requests /\ g.pc = "guard" /\ g.job = "none"
          /\ g.wrote = r.wrote
      BY <1>2, <3>2, <3>3 DEF AgentRecords
    <3>5. <<>> \in Seq(Loop!Calls)
      OBVIOUS
    <3>6. /\ u \in AgentRecords /\ u.attempt = r.attempt /\ u.round = r.round
          /\ u.requests = r.requests /\ u.pc = "failed" /\ u.job = "none"
          /\ u.wrote = r.wrote
      BY <3>2, <3>4, <3>5 DEF AgentRecords
    <3>7. Decent(u)
      <4>1. Asks(u) = 0 /\ Asks(r) = 0
        BY <1>2, <3>6 DEF Asks
      <4> QED
        BY <1>2, <3>6, <4>1 DEF Decent, Paired, Harmless, Spared
    <3>8. agent' = [agent EXCEPT ![a] = u]
      BY <1>1, <1>3, <2>2, <3>1, <3>2
    <3> QED
      BY <3>6, <3>7, <3>8
  <2> QED
    BY <2>1, <2>2
<1> QED
  BY <1>4, Releases DEF Loop!BlockWrite

\* A call that is let through and runs is none that the guards can tell for a write.
LEMMA RunsRead ==
  ASSUME NEW c \in Loop!Calls, NEW granted, ~Loop!Blocked(c), Loop!Dispatch(granted, c).runs
  PROVE  c.arg # "bad"
<1>1. /\ c.fn \in Loop!Builtin \cup {"other"}
      /\ c.arg = "bad" =>
           c.fn \in {"sql_query", "http_request", "bucket_read", "sftp_read", "other"}
  BY DEF Loop!Calls, Loop!Builtin
<1>2. SUFFICES ASSUME c.arg = "bad" PROVE FALSE
  BY <1>1
<1>3. c.fn \in {"sql_query", "bucket_read", "sftp_read"}
  BY <1>1, <1>2 DEF Loop!Blocked
<1>4. CASE c.fn = "sql_query"
  BY <1>2, <1>4 DEF Loop!Dispatch, Loop!SqlQuery, Loop!ReadonlySql
<1>5. CASE c.fn = "bucket_read"
  BY <1>2, <1>5 DEF Loop!Dispatch, Loop!BucketRead
<1>6. CASE c.fn = "sftp_read"
  BY <1>2, <1>6 DEF Loop!Dispatch, Loop!SftpRead
<1> QED
  BY <1>3, <1>4, <1>5, <1>6

\* Whichever way a call begins to run.
Begun(r, u) ==
  \E j \in {"queued", "loop"}, w \in SUBSET {"sly"}, v \in BOOLEAN :
    u = [r EXCEPT !.pc = "tool", !.job = j, !.wrote = w, !.unlisted = v]

LEMMA RunsDecent ==
  ASSUME NEW r, Decent(r), r.pc = "guard", Head(r.calls).arg # "bad", NEW u, Begun(r, u)
  PROVE  Decent(u) /\ u.job # "running" /\ u.pc = "tool"
<1> PICK j \in {"queued", "loop"}, w \in SUBSET {"sly"}, v \in BOOLEAN :
      u = [r EXCEPT !.pc = "tool", !.job = j, !.wrote = w, !.unlisted = v]
  BY DEF Begun
<1>0. r \in AgentRecords /\ w \in SUBSET {"bad", "sly"} /\ "bad" \notin w
  BY DEF Decent
<1>1. /\ u \in AgentRecords /\ u.pc = "tool" /\ u.job = j /\ u.owed = r.owed
      /\ u.calls = r.calls /\ u.attempt = r.attempt /\ u.round = r.round
      /\ u.requests = r.requests /\ u.wrote = w /\ u.blocked = r.blocked /\ u.lost = r.lost
  BY <1>0 DEF AgentRecords
<1>2. Asks(u) = 0 /\ Asks(r) = 0
  BY <1>1 DEF Asks
<1> QED
  BY <1>0, <1>1, <1>2 DEF Decent, Paired, Harmless, Spared

LEMMA LoopRuns ==
  ASSUME LoopConstants, LoopInv, NEW a \in Agents, Loop!RunCall(a)
  PROVE  LoopInv'
<1>1. PICK r, c, d : r = agent[a] /\ c = Head(r.calls) /\ d = Loop!Dispatch(r.granted, c)
  OBVIOUS
<1>2. /\ r \in AgentRecords /\ Decent(r) /\ r.pc = "guard" /\ r.calls # <<>>
      /\ r.calls \in Seq(Loop!Calls) /\ "bad" \notin r.wrote
      /\ r.wrote \in SUBSET {"bad", "sly"}
      /\ r.unlisted \in BOOLEAN
  BY <1>1 DEF LoopInv, Decent, Paired, Harmless, AgentRecords, Loop!RunCall
<1>3. ~Loop!Blocked(c) /\ d.runs
  BY <1>1 DEF Loop!RunCall
<1>4. c.arg \in {"ok", "sly"} /\ Head(r.calls).arg # "bad"
  <2>1. c \in Loop!Calls
    BY <1>1, <1>2
  <2>2. c.arg # "bad"
    BY <1>1, <1>3, <2>1, RunsRead
  <2>3. c.arg \in {"ok", "bad", "sly"}
    BY <2>1 DEF Loop!Calls
  <2> QED
    BY <1>1, <2>2, <2>3
<1>5. PICK u : agent' = [agent EXCEPT ![a] = u] /\ Decent(u) /\ u.job # "running" /\ u.pc = "tool"
  <2>1. CASE d.thread
    <3>1. PICK u : u = [r EXCEPT !.pc = "tool", !.job = "queued"]
      OBVIOUS
    <3>2. PICK j, w, v : j = "queued" /\ w = r.wrote /\ v = r.unlisted
      OBVIOUS
    <3>3. u = [r EXCEPT !.pc = "tool", !.job = j, !.wrote = w, !.unlisted = v]
      BY <1>2, <3>1, <3>2 DEF AgentRecords
    <3>4. Decent(u) /\ u.job # "running" /\ u.pc = "tool"
      <4>1. j \in {"queued", "loop"} /\ v \in BOOLEAN /\ w \in SUBSET {"sly"}
        BY <1>2, <3>2
      <4>2. Begun(r, u)
        BY <3>3, <4>1 DEF Begun
      <4> QED
        BY <1>2, <1>4, <4>2, RunsDecent
    <3>5. agent' = [agent EXCEPT ![a] = u]
      BY <1>1, <2>1, <3>1 DEF Loop!RunCall
    <3> QED
      BY <3>4, <3>5
  <2>2. CASE ~d.thread
    <3>1. PICK g : g = [r EXCEPT !.pc = "tool", !.job = "loop"]
      OBVIOUS
    <3>2. /\ g.calls = r.calls /\ g.granted = r.granted /\ g.wrote = r.wrote
          /\ g.unlisted = r.unlisted
      BY <1>2, <3>1 DEF AgentRecords
    <3>3. PICK w, v : /\ w = r.wrote \cup ({c.arg} \ {"ok"})
                      /\ v = (r.unlisted \/ c.fn \notin r.granted)
      OBVIOUS
    <3>4. w \in SUBSET {"bad", "sly"} /\ "bad" \notin w /\ v \in BOOLEAN
      <4>2. w \in SUBSET {"bad", "sly"} /\ "bad" \notin w
        BY <1>2, <1>4, <3>3
      <4>3. v \in BOOLEAN
        BY <1>2, <3>3, Zenon
      <4> QED
        BY <4>2, <4>3
    <3>5. PICK u : u = [r EXCEPT !.pc = "tool", !.job = "loop", !.wrote = w,
                                 !.unlisted = v]
      OBVIOUS
    <3>6. Loop!Noted(g) = u
      <4>1. Loop!Noted(g) = [g EXCEPT !.wrote = g.wrote \cup ({c.arg} \ {"ok"}),
                                      !.unlisted = (g.unlisted \/ c.fn \notin g.granted)]
        BY <1>1, <3>2 DEF Loop!Noted
      <4>2. Loop!Noted(g) = [g EXCEPT !.wrote = w, !.unlisted = v]
        BY <3>2, <3>3, <4>1
      <4> QED
        BY <1>2, <3>1, <3>4, <3>5, <4>2 DEF AgentRecords
    <3>7. Decent(u) /\ u.job # "running" /\ u.pc = "tool"
      <4>1. PICK j : j = "loop"
        OBVIOUS
      <4>2. j \in {"queued", "loop"} /\ v \in BOOLEAN /\ w \in SUBSET {"sly"}
        BY <3>4, <4>1
      <4>3. u = [r EXCEPT !.pc = "tool", !.job = j, !.wrote = w, !.unlisted = v]
        BY <3>5, <4>1
      <4>4. Begun(r, u)
        BY <4>2, <4>3 DEF Begun
      <4> QED
        BY <1>2, <1>4, <4>4, RunsDecent
    <3>8. agent' = [agent EXCEPT ![a] = u]
      BY <1>1, <2>2, <3>1, <3>6 DEF Loop!RunCall
    <3> QED
      BY <3>7, <3>8
  <2> QED
    BY <2>1, <2>2
<1> QED
  BY <1>5, Releases DEF Loop!RunCall

LEMMA LoopTimeout ==
  ASSUME LoopConstants, LoopInv, NEW a \in Agents, Loop!NodeTimeout(a)
  PROVE  LoopInv'
<1>1. PICK r, u : r = agent[a] /\ u = [r EXCEPT !.pc = "failed", !.job = "none", !.calls = <<>>]
  OBVIOUS
<1>2. r \in AgentRecords /\ Decent(r) /\ r.pc \notin {"done", "failed"}
  BY <1>1 DEF LoopInv, Decent, Loop!NodeTimeout
<1>3. r.blocked \in BOOLEAN /\ r.lost \in BOOLEAN
  BY <1>2 DEF AgentRecords
<1>4. Decent(u)
  BY <1>1, <1>2, <1>3, AttemptFailed
<1>5. u.job = "none" /\ u.pc = "failed"
  BY <1>1, <1>2 DEF AgentRecords
<1>6. agent' = [agent EXCEPT ![a] = u]
  BY <1>1 DEF Loop!NodeTimeout
<1> QED
  BY <1>4, <1>5, <1>6, Releases DEF Loop!NodeTimeout

LEMMA LoopAnswers ==
  ASSUME LoopConstants, LoopInv, NEW a \in Agents,
         Loop!RefuseCall(a) \/ Loop!ToolEnds(a) \/ Loop!ToolTimeout(a)
  PROVE  LoopInv'
<1>1. /\ Loop!Answered(a) /\ agent[a].pc \in {"guard", "tool"}
      /\ charged' = charged /\ requests' = requests
      /\ orphans' = orphans \/ Loop!Left(a)
  BY DEF Loop!RefuseCall, Loop!ToolEnds, Loop!ToolTimeout
<1> QED
  BY <1>1, AnsweredKeeps

LEMMA LoopOrphan ==
  ASSUME LoopConstants, LoopInv,
         /\ agent' = agent /\ charged' = charged /\ requests' = requests
         /\ orphans' = orphans \/ (orphans > 0 /\ orphans' = orphans - 1)
  PROVE  LoopInv'
<1>1. Holding' = Holding /\ Waiting' = Waiting
  BY DEF Holding, Waiting
<1>2. IsFiniteSet(Holding)
  <2>1. Holding \in SUBSET Agents
    BY DEF Holding
  <2> QED
    BY <2>1, FS_Subset DEF LoopConstants
<1>3. PICK n : n = Cardinality(Holding)
  OBVIOUS
<1>4. n \in Nat
  BY <1>2, <1>3, FS_CardinalityType
<1>5. n + orphans <= PoolSize /\ orphans \in Nat /\ PoolSize \in Nat
  BY <1>3 DEF LoopInv, LoopConstants
<1>6. orphans' \in Nat /\ n + orphans' <= PoolSize
  BY <1>4, <1>5
<1> QED
  BY <1>1, <1>3, <1>6 DEF LoopInv

LEMMA LoopNext ==
  ASSUME LoopConstants, LoopInv, [Loop!Next]_(Loop!agentVars)
  PROVE  LoopInv'
<1>1. CASE UNCHANGED Loop!agentVars
  BY <1>1, LoopOrphan DEF Loop!agentVars
<1>2. ASSUME NEW a \in Agents,
             \/ Loop!Start(a) \/ Loop!OutOfRounds(a) \/ Loop!Charge(a)
             \/ Loop!ThreadTakes(a) \/ Loop!Answers(a) \/ Loop!LlmFails(a)
             \/ \E cs \in Loop!Replies : Loop!CallsTools(a, cs)
             \/ Loop!BlockWrite(a) \/ Loop!RefuseCall(a) \/ Loop!RunCall(a)
             \/ Loop!ToolEnds(a) \/ Loop!ToolTimeout(a) \/ Loop!NodeTimeout(a)
      PROVE  LoopInv'
  BY <1>2, LoopStart, LoopEnds, LoopCharge, LoopTakes, LoopCalls, LoopLlmFails, LoopBlocks,
     LoopAnswers, LoopRuns, LoopTimeout
<1>3. CASE Loop!OrphanEnds
  BY <1>3, LoopOrphan DEF Loop!OrphanEnds
<1> QED
  BY <1>1, <1>2, <1>3 DEF Loop!Next

LEMMA LoopInit ==
  ASSUME LoopConstants, Loop!Init
  PROVE  LoopInv
<1>1. /\ charged = 0 /\ requests = 0 /\ orphans = 0
      /\ agent \in [Agents -> [pc : {"start"}, granted : Grants, attempt : {0}, round : {0},
                      job : {"none"}, calls : {<<>>}, owed : {0}, requests : {0},
                      wrote : {{}}, unlisted : {FALSE}, blocked : {FALSE}, lost : {FALSE}]]
  BY DEF Loop!Init
<1>2. <<>> \in Seq(Loop!Calls) /\ 0 \in 0..NodeRetries /\ 0 \in 0..MaxIterations
  <2>1. <<>> \in Seq(Loop!Calls)
    OBVIOUS
  <2> QED
    BY <2>1 DEF LoopConstants
<1>3. ASSUME NEW a \in Agents
      PROVE  Decent(agent[a]) /\ agent[a].job = "none"
  <2>1. PICK r : r = agent[a]
    OBVIOUS
  <2>2. /\ r.pc = "start" /\ r.granted \in Grants /\ r.attempt = 0 /\ r.round = 0
        /\ r.job = "none" /\ r.calls = <<>> /\ r.owed = 0 /\ r.requests = 0
        /\ r.wrote = {} /\ r.unlisted = FALSE /\ r.blocked = FALSE /\ r.lost = FALSE
    BY <1>1, <2>1
  <2>3. r \in AgentRecords
    <3>1. r \in [pc : {"start"}, granted : Grants, attempt : {0}, round : {0},
                 job : {"none"}, calls : {<<>>}, owed : {0}, requests : {0},
                 wrote : {{}}, unlisted : {FALSE}, blocked : {FALSE}, lost : {FALSE}]
      BY <1>1, <2>1
    <3>2. PICK g \in Grants :
            r = [pc |-> "start", granted |-> g, attempt |-> 0, round |-> 0, job |-> "none",
                 calls |-> <<>>, owed |-> 0, requests |-> 0, wrote |-> {},
                 unlisted |-> FALSE, blocked |-> FALSE, lost |-> FALSE]
      BY <3>1
    <3> QED
      BY <1>2, <3>2 DEF AgentRecords
  <2>4. Spared(r)
    <3>1. Asks(r) = 0 /\ 0 * MaxIterations = 0
      BY <2>2 DEF Asks, LoopConstants
    <3> QED
      BY <2>2, <3>1 DEF Spared
  <2> QED
    BY <2>1, <2>2, <2>3, <2>4 DEF Decent, Paired, Harmless
<1>4. Holding = {} /\ Waiting = {}
  BY <1>3 DEF Holding, Waiting
<1>5. Cardinality(Holding) = 0 /\ Cardinality(Waiting) = 0
  BY <1>4, FS_EmptySet
<1>6. agent \in [Agents -> AgentRecords]
  BY <1>1, <1>3 DEF Decent
<1> QED
  BY <1>1, <1>3, <1>5, <1>6 DEF LoopInv, LoopConstants

\* Only a call that a thread takes adds to them.
LEMMA RepeatsNext ==
  ASSUME LoopConstants, LoopInv, Repeats, [Loop!Next]_(Loop!agentVars)
  PROVE  Repeats'
<1>1. CASE repeated' = repeated /\ requests' = requests
  BY <1>1 DEF Repeats
<1>2. ASSUME NEW n \in 0..ClientRetries, repeated' = repeated + n, requests' = requests + 1
      PROVE  Repeats'
  <2>1. PICK m, k : m = requests * ClientRetries /\ k = ClientRetries
    OBVIOUS
  <2>2. /\ requests \in Nat /\ repeated \in Nat /\ k \in Nat /\ n \in 0..k
        /\ m = ClientRetries * requests /\ repeated <= m
    BY <1>2, <2>1 DEF Repeats, LoopConstants
  <2>3. m \in Nat /\ (requests + 1) * k = m + k
    BY <2>1, <2>2, OneMoreAttempt
  <2>4. repeated + n <= m + k /\ repeated + n \in Nat /\ requests + 1 \in Nat
    BY <2>2, <2>3
  <2>5. ClientRetries * (requests + 1) = m + k
    BY <2>1, <2>2, <2>3
  <2> QED
    BY <1>2, <2>4, <2>5 DEF Repeats
<1>3. ASSUME NEW a \in Agents, Loop!ThreadTakes(a)
      PROVE  Repeats'
  BY <1>1, <1>2, <1>3 DEF Loop!ThreadTakes
<1>4. ASSUME NEW a \in Agents,
             \/ Loop!Start(a) \/ Loop!OutOfRounds(a) \/ Loop!Charge(a)
             \/ Loop!Answers(a) \/ Loop!LlmFails(a)
             \/ \E cs \in Loop!Replies : Loop!CallsTools(a, cs)
             \/ Loop!BlockWrite(a) \/ Loop!RefuseCall(a) \/ Loop!RunCall(a)
             \/ Loop!ToolEnds(a) \/ Loop!ToolTimeout(a) \/ Loop!NodeTimeout(a)
      PROVE  Repeats'
  BY <1>1, <1>4 DEF Loop!Start, Loop!OutOfRounds, Loop!Charge, Loop!Answers, Loop!LlmFails,
     Loop!CallsTools, Loop!BlockWrite, Loop!RefuseCall, Loop!RunCall, Loop!ToolEnds,
     Loop!ToolTimeout, Loop!NodeTimeout
<1>5. CASE Loop!OrphanEnds \/ UNCHANGED Loop!agentVars
  BY <1>1, <1>5 DEF Loop!OrphanEnds, Loop!agentVars
<1> QED
  BY <1>3, <1>4, <1>5 DEF Loop!Next

LEMMA LoopSound ==
  ASSUME LoopConstants, LoopInv, Repeats
  PROVE  AgentsSound
<1>1. /\ \A a \in Agents : Decent(agent[a])
      /\ charged \in Nat /\ requests \in Nat /\ orphans \in Nat
      /\ PoolSize \in Nat /\ Limit \in Nat
  BY DEF LoopInv, LoopConstants
<1>2. PICK h, w : h = Cardinality(Holding) /\ w = Cardinality(Waiting)
  OBVIOUS
<1>3. h \in Nat /\ w \in Nat
  <2>1. Holding \in SUBSET Agents /\ Waiting \in SUBSET Agents
    BY DEF Holding, Waiting
  <2>2. IsFiniteSet(Holding) /\ IsFiniteSet(Waiting)
    BY <2>1, FS_Subset DEF LoopConstants
  <2> QED
    BY <1>2, <2>2, FS_CardinalityType
<1>4. h + orphans <= PoolSize /\ requests + w <= charged /\ requests + w <= Limit
  BY <1>2 DEF LoopInv
<1>5. orphans \in 0..PoolSize /\ requests <= charged /\ requests <= Limit
  BY <1>1, <1>3, <1>4
<1>6. Loop!TypeOK
  BY <1>1, <1>5 DEF Loop!TypeOK, Decent, AgentRecords, Repeats
<1>7. Loop!TranscriptWhole
  BY <1>1 DEF Loop!TranscriptWhole, Decent, Paired
<1>8. Loop!ReadsOnly
  BY <1>1 DEF Loop!ReadsOnly, Decent, Harmless
<1>9. \A a \in Agents : agent[a].requests <= (agent[a].attempt + 1) * MaxIterations
  <2> SUFFICES ASSUME NEW a \in Agents
               PROVE  agent[a].requests <= (agent[a].attempt + 1) * MaxIterations
    OBVIOUS
  <2>1. PICK r, k, m, o, i : /\ r = agent[a] /\ k = r.requests /\ m = r.attempt * MaxIterations
                             /\ o = r.round /\ i = Asks(r)
    OBVIOUS
  <2>2. /\ r.attempt \in Nat /\ k \in Nat /\ o \in 0..MaxIterations /\ MaxIterations \in Nat
        /\ i \in {0, 1} /\ k + i <= m + o
    BY <1>1, <2>1 DEF Decent, Spared, AgentRecords, Asks, LoopConstants
  <2>3. m \in Nat /\ (r.attempt + 1) * MaxIterations = m + MaxIterations
    BY <2>1, <2>2, OneMoreAttempt
  <2>4. k <= m + MaxIterations
    BY <2>2, <2>3
  <2> QED
    BY <2>1, <2>3, <2>4
<1>10. Loop!RequestsPaid
  BY <1>5, <1>9 DEF Loop!RequestsPaid, Repeats
<1> QED
  BY <1>6, <1>7, <1>8, <1>10 DEF AgentsSound, Loop!AgentsSound

\* Any number of agents of one run, on any number of threads: whenever the model
\* is asked every tool call has its one answer, the client is called no oftener
\* than the budget of the run was charged and allows and repeats a call at most
\* max_retries times, an agent calls it at most max_iterations times per attempt,
\* and no call that the guards can tell for a write ever runs, not even one whose
\* caller had given up (_run_agent_with_tools, charge_llm_call,
\* _assert_tool_is_read_only).
THEOREM AgentsTheorem ==
  ASSUME LoopConstants
  PROVE  Loop!Spec => []AgentsSound
<1>1. Loop!Init => LoopInv /\ Repeats
  <2>1. Loop!Init => Repeats
    BY DEF Loop!Init, Repeats, LoopConstants
  <2> QED
    BY <2>1, LoopInit
<1>2. LoopInv /\ Repeats /\ [Loop!Next]_(Loop!agentVars) => (LoopInv /\ Repeats)'
  BY LoopNext, RepeatsNext
<1>3. LoopInv /\ Repeats => AgentsSound
  BY LoopSound
<1> QED
  BY <1>1, <1>2, <1>3, PTL DEF Loop!Spec
-----------------------------------------------------------------------------
(***************************************************************************)
(* Media.  What a run refers to is its own, and stays until the run's own  *)
(* sweep, or until the scan has read its status when it was not alive;     *)
(* what the scan is about to delete belongs to runs of the second kind.    *)
(***************************************************************************)

FileKinds == {"csv", "bin", "dir", "big", "dot", "marker", "other"}

\* A listing is a selection of what the remote holds, so it is a sequence of
\* files too.
MediaConstants ==
  /\ NodeRetries \in Nat /\ MediaFaults \in Nat /\ MaxSweeps \in Nat
  /\ \A k \in Sources, d \in Folders : Files!Listed(k, d) \in Seq(FileKinds)

Blobs   == [run : Runs, n : Nat]
Entries == [file : FileKinds, is : {"items", "error", "blob", "path"}]
Before  == {"upload", "insert", "queue", "queued", "list"}
Reading == {"files", "put"}
Read    == {"gate", "consume"}
MediaRuns ==
  [status : {"none", "queued", "running", "paused"} \cup Files!Terminal,
   pc : Before \cup Reading \cup Read \cup {"sweep", "end"},
   kind : Sources, dir : Folders, attempt : 0..NodeRetries,
   todo : Seq(FileKinds), entries : Seq(Entries), refs : SUBSET Blobs,
   puts : Nat, robbed : BOOLEAN, swept : BOOLEAN, leaked : BOOLEAN]

\* What has an entry, and then what is still to read, is the listing.
Progress(x) ==
  LET all == Files!Listed(x.kind, x.dir)
      n   == Len(x.entries) IN
  /\ x.pc \in Before => x.entries = <<>> /\ x.todo = <<>>
  /\ x.pc \in Reading \cup Read =>
       /\ n + Len(x.todo) = Len(all)
       /\ \A i \in 1..n : x.entries[i].file = all[i]
       /\ \A i \in 1..Len(x.todo) : x.todo[i] = all[n + i]
  /\ x.pc = "put" => x.todo # <<>>
  /\ x.pc \in Read => x.todo = <<>>

\* Where a run is tells whether it is over.
Over(x) == x.status \in Files!Terminal
Placed(x) ==
  /\ Over(x) => x.pc \in {"sweep", "end"}
  /\ x.pc = "sweep" => Over(x)

Orderly(x) == x \in MediaRuns /\ Progress(x) /\ Placed(x)

\* A run, and the blobs there are.
RunInv(x, r, bs) ==
  /\ Orderly(x)
  /\ \A b \in x.refs : b.run = r
  /\ ~x.robbed /\ ~x.swept => x.refs \subseteq bs
  /\ x.pc = "end" /\ ~x.leaked => \A b \in bs : b.run # r

MediaInv ==
  /\ exec \in [Runs -> MediaRuns]
  /\ blobs \in SUBSET Blobs /\ inflight \in SUBSET Blobs
  /\ scan \in [pc : {"idle", "listed", "delete"}, listed : SUBSET Blobs, orphans : SUBSET Blobs]
  /\ faults \in 0..MediaFaults /\ sweeps \in 0..MaxSweeps
  /\ \A r \in Runs : RunInv(exec[r], r, blobs)
  /\ \A b \in scan.orphans : exec[b.run].robbed
-----------------------------------------------------------------------------
\* One run moves: what is to show of it, and of the blobs it touches.
LEMMA MediaMoves ==
  ASSUME MediaConstants, MediaInv, NEW r \in Runs, NEW u,
         exec' = [exec EXCEPT ![r] = u], RunInv(u, r, blobs'), scan' = scan,
         exec[r].robbed => u.robbed,
         blobs' \in SUBSET Blobs, inflight' \in SUBSET Blobs,
         \A b \in blobs : b.run # r => b \in blobs',
         \A b \in blobs' : b \in blobs \/ b.run = r,
         faults' \in 0..MediaFaults, sweeps' \in 0..MaxSweeps
  PROVE  MediaInv'
<1>1. exec \in [Runs -> MediaRuns] /\ u \in MediaRuns
  BY DEF MediaInv, RunInv, Orderly
<1>2. exec' \in [Runs -> MediaRuns] /\ exec'[r] = u
  BY <1>1
<1>3. \A q \in Runs : q # r => exec'[q] = exec[q]
  BY <1>1
<1>4. ASSUME NEW q \in Runs PROVE RunInv(exec'[q], q, blobs')
  <2>1. CASE q = r
    BY <1>2, <2>1
  <2>2. CASE q # r
    <3>1. RunInv(exec[q], q, blobs) /\ exec'[q] = exec[q]
      BY <1>3, <2>2 DEF MediaInv
    <3>2. \A b \in blobs' : b.run = q => b \in blobs
      BY <2>2
    <3>3. \A b \in blobs : b.run = q => b \in blobs'
      BY <2>2
    <3> QED
      BY <3>1, <3>2, <3>3 DEF RunInv
  <2> QED
    BY <2>1, <2>2
<1>5. ASSUME NEW b \in scan.orphans PROVE exec'[b.run].robbed
  <2>1. b \in Blobs /\ b.run \in Runs
    BY DEF MediaInv, Blobs
  <2>2. exec[b.run].robbed
    BY DEF MediaInv
  <2> QED
    BY <1>2, <1>3, <2>1, <2>2
<1>6. scan' \in [pc : {"idle", "listed", "delete"}, listed : SUBSET Blobs, orphans : SUBSET Blobs]
  BY DEF MediaInv
<1> QED
  BY <1>2, <1>4, <1>5, <1>6 DEF MediaInv

\* An entry for the next file.
LEMMA EntryOrderly ==
  ASSUME NEW x, Orderly(x), x.pc \in Reading, x.todo # <<>>,
         NEW e \in {"items", "error", "blob"}, NEW u, u = Files!Entry(x, e)
  PROVE  /\ Orderly(u) /\ u.pc = "files" /\ u.status = x.status /\ u.refs = x.refs
         /\ u.robbed = x.robbed /\ u.swept = x.swept /\ u.leaked = x.leaked /\ u.puts = x.puts
<1>1. /\ x \in MediaRuns /\ x.todo \in Seq(FileKinds) /\ x.entries \in Seq(Entries)
      /\ ~Over(x)
  BY DEF Orderly, MediaRuns, Placed, Reading
<1>2. PICK t, n : t = Tail(x.todo) /\ n = Append(x.entries, [file |-> Head(x.todo), is |-> e])
  OBVIOUS
<1>3. /\ Head(x.todo) \in FileKinds /\ Head(x.todo) = x.todo[1] /\ t \in Seq(FileKinds)
      /\ Len(x.todo) \in Nat /\ Len(x.todo) >= 1 /\ Len(t) = Len(x.todo) - 1
      /\ \A i \in 1..Len(t) : t[i] = x.todo[i + 1]
  BY <1>1, <1>2
<1>4. [file |-> Head(x.todo), is |-> e] \in Entries
  BY <1>3 DEF Entries
<1>5. /\ n \in Seq(Entries) /\ Len(x.entries) \in Nat /\ Len(n) = Len(x.entries) + 1
      /\ n[Len(n)].file = x.todo[1]
      /\ \A i \in 1..Len(x.entries) : n[i] = x.entries[i]
  BY <1>1, <1>2, <1>3, <1>4
<1>6. u = [x EXCEPT !.pc = "files", !.todo = t, !.entries = n]
  BY <1>1, <1>2 DEF Files!Entry, MediaRuns
<1>7. u \in MediaRuns
  BY <1>1, <1>3, <1>5, <1>6 DEF MediaRuns, Reading
<1>8. /\ u.pc = "files" /\ u.todo = t /\ u.entries = n /\ u.kind = x.kind /\ u.dir = x.dir
      /\ u.status = x.status /\ u.refs = x.refs /\ u.puts = x.puts
      /\ u.robbed = x.robbed /\ u.swept = x.swept /\ u.leaked = x.leaked
  BY <1>1, <1>6 DEF MediaRuns
<1>9. PICK all, p, m, l : /\ all = Files!Listed(x.kind, x.dir) /\ l = Len(all)
                         /\ p = Len(x.entries) /\ m = Len(x.todo)
  OBVIOUS
<1>10. /\ p + m = l
       /\ \A i \in 1..p : x.entries[i].file = all[i]
       /\ \A i \in 1..m : x.todo[i] = all[p + i]
  BY <1>9 DEF Orderly, Progress
<1>11. /\ p \in Nat /\ m \in Nat /\ m >= 1 /\ Len(n) = p + 1 /\ Len(t) = m - 1
       /\ Len(n) + Len(t) = Len(all)
  <2>1. p \in Nat /\ m \in Nat /\ m >= 1 /\ Len(n) = p + 1 /\ Len(t) = m - 1
    BY <1>3, <1>5, <1>9
  <2>2. (p + 1) + (m - 1) = l
    BY <1>10, <2>1
  <2> QED
    BY <1>9, <2>1, <2>2
<1>12. \A i \in 1..Len(n) : n[i].file = all[i]
  <2> SUFFICES ASSUME NEW i \in 1..Len(n) PROVE n[i].file = all[i]
    OBVIOUS
  <2>1. CASE i = p + 1
    <3>1. 1 \in 1..m
      BY <1>11
    <3>2. x.todo[1] = all[i]
      BY <1>10, <2>1, <3>1
    <3> QED
      BY <1>5, <1>11, <2>1, <3>2
  <2>2. CASE i # p + 1
    <3>1. i \in 1..p
      BY <1>11, <2>2
    <3>2. n[i] = x.entries[i]
      BY <1>5, <1>9, <3>1
    <3> QED
      BY <1>10, <3>1, <3>2
  <2> QED
    BY <2>1, <2>2
<1>13. \A i \in 1..Len(t) : t[i] = all[Len(n) + i]
  <2> SUFFICES ASSUME NEW i \in 1..Len(t) PROVE t[i] = all[Len(n) + i]
    OBVIOUS
  <2>1. i \in 1..m - 1
    BY <1>11
  <2>2. i + 1 \in 1..m /\ p + (i + 1) = p + 1 + i
    BY <1>11, <2>1
  <2>3. x.todo[i + 1] = all[p + 1 + i]
    BY <1>10, <2>2
  <2>4. t[i] = x.todo[i + 1]
    BY <1>3
  <2> QED
    BY <1>11, <2>3, <2>4
<1>14. Progress(u)
  <2>1. Progress(u) <=> /\ Len(n) + Len(t) = Len(all)
                        /\ \A i \in 1..Len(n) : n[i].file = all[i]
                        /\ \A i \in 1..Len(t) : t[i] = all[Len(n) + i]
    BY <1>8, <1>9 DEF Progress, Before, Reading, Read
  <2> QED
    BY <1>11, <1>12, <1>13, <2>1
<1>15. Placed(u)
  BY <1>1, <1>8 DEF Placed, Over
<1> QED
  BY <1>7, <1>8, <1>14, <1>15 DEF Orderly

\* A run that fails, and an attempt that does.
LEMMA FailedOrderly ==
  ASSUME NEW x, Orderly(x), NEW u, u = Files!Failed(x)
  PROVE  /\ Orderly(u) /\ u.pc = "sweep" /\ Over(u) /\ u.refs = x.refs
         /\ u.robbed = x.robbed /\ u.swept = x.swept /\ u.leaked = x.leaked /\ u.puts = x.puts
<1>1. x \in MediaRuns /\ <<>> \in Seq(FileKinds)
  BY DEF Orderly
<1>2. u \in MediaRuns
  BY <1>1 DEF Files!Failed, MediaRuns, Files!Terminal
<1>3. /\ u.pc = "sweep" /\ u.status = "failed" /\ u.todo = <<>> /\ u.refs = x.refs
      /\ u.robbed = x.robbed /\ u.swept = x.swept /\ u.leaked = x.leaked /\ u.puts = x.puts
  BY <1>1 DEF Files!Failed, MediaRuns
<1>4. Over(u)
  BY <1>3 DEF Over, Files!Terminal
<1>5. Progress(u) /\ Placed(u)
  BY <1>3, <1>4 DEF Progress, Placed, Before, Reading, Read
<1> QED
  BY <1>2, <1>3, <1>4, <1>5 DEF Orderly

LEMMA AttemptOrderly ==
  ASSUME MediaConstants, NEW x, Orderly(x), ~Over(x), NEW u, u = Files!AttemptFails(x)
  PROVE  /\ Orderly(u) /\ u.pc \in {"list", "sweep"} /\ u.refs \subseteq x.refs
         /\ u.robbed = x.robbed /\ u.swept = x.swept /\ u.leaked = x.leaked /\ u.puts = x.puts
<1>1. x \in MediaRuns /\ <<>> \in Seq(FileKinds) /\ <<>> \in Seq(Entries)
  BY DEF Orderly
<1>2. CASE x.attempt < NodeRetries
  <2>1. PICK rs : rs = {b \in x.refs : b.n = 1}
    OBVIOUS
  <2>2. rs \subseteq x.refs /\ rs \in SUBSET Blobs
    BY <1>1, <2>1 DEF MediaRuns
  <2>3. x.attempt + 1 \in 0..NodeRetries
    BY <1>1, <1>2 DEF MediaRuns, MediaConstants
  <2>4. u = [x EXCEPT !.pc = "list", !.attempt = x.attempt + 1, !.todo = <<>>, !.entries = <<>>,
                      !.refs = rs]
    BY <1>1, <1>2, <2>1 DEF Files!AttemptFails, MediaRuns
  <2>5. u \in MediaRuns
    BY <1>1, <2>2, <2>3, <2>4 DEF MediaRuns, Before
  <2>6. /\ u.pc = "list" /\ u.status = x.status /\ u.todo = <<>> /\ u.entries = <<>>
        /\ u.refs = rs /\ u.robbed = x.robbed /\ u.swept = x.swept /\ u.leaked = x.leaked /\ u.puts = x.puts
    BY <1>1, <2>4 DEF MediaRuns
  <2>7. Progress(u) /\ Placed(u)
    BY <2>6 DEF Progress, Placed, Over, Before, Reading, Read
  <2> QED
    BY <2>2, <2>5, <2>6, <2>7 DEF Orderly
<1>3. CASE ~(x.attempt < NodeRetries)
  <2>1. u = Files!Failed(x)
    BY <1>3 DEF Files!AttemptFails
  <2> QED
    BY <2>1, FailedOrderly
<1> QED
  BY <1>2, <1>3
-----------------------------------------------------------------------------
\* What every step starts from.
LEMMA MediaFacts ==
  ASSUME MediaConstants, MediaInv, NEW r \in Runs
  PROVE  /\ exec[r] \in MediaRuns /\ RunInv(exec[r], r, blobs) /\ Orderly(exec[r])
         /\ Files!Blob(r) \in Blobs /\ Files!Blob(r).run = r
         /\ (Files!Fault \/ faults' = faults) => faults' \in 0..MediaFaults
<1>1. /\ exec[r] \in MediaRuns /\ RunInv(exec[r], r, blobs) /\ faults \in 0..MediaFaults
      /\ MediaFaults \in Nat
  BY DEF MediaInv, MediaConstants
<1>2. Orderly(exec[r]) /\ exec[r].puts + 1 \in Nat
  BY <1>1 DEF RunInv, MediaRuns
<1>3. Files!Blob(r) \in Blobs /\ Files!Blob(r).run = r
  BY <1>2 DEF Files!Blob, Blobs
<1>4. (Files!Fault \/ faults' = faults) => faults' \in 0..MediaFaults
  BY <1>1 DEF Files!Fault
<1> QED
  BY <1>1, <1>2, <1>3, <1>4

\* A step of a run that stores and deletes nothing.
LEMMA QuietMoves ==
  ASSUME MediaConstants, MediaInv, NEW r \in Runs, NEW u,
         exec' = [exec EXCEPT ![r] = u], Orderly(u), u.refs \subseteq exec[r].refs,
         u.robbed = exec[r].robbed, u.swept = exec[r].swept, u.pc = "end" => u.leaked,
         Files!Fault \/ faults' = faults, inflight' \in SUBSET Blobs,
         UNCHANGED <<blobs, scan, sweeps>>
  PROVE  MediaInv'
<1>1. /\ RunInv(exec[r], r, blobs) /\ faults' \in 0..MediaFaults
  BY MediaFacts
<1>2. RunInv(u, r, blobs')
  BY <1>1 DEF RunInv
<1>3. blobs \in SUBSET Blobs /\ sweeps \in 0..MaxSweeps
  BY DEF MediaInv
<1> QED
  BY <1>1, <1>2, <1>3, MediaMoves

LEMMA MediaUpload ==
  ASSUME MediaConstants, MediaInv, NEW r \in Runs, Files!Upload(r)
  PROVE  MediaInv'
<1>1. PICK x, b, u : /\ x = exec[r] /\ b = Files!Blob(r)
                     /\ u = [x EXCEPT !.pc = "insert", !.puts = @ + 1, !.refs = {b}]
  OBVIOUS
<1>2. /\ x \in MediaRuns /\ RunInv(x, r, blobs) /\ Orderly(x) /\ b \in Blobs /\ b.run = r
      /\ x.pc = "upload" /\ blobs \in SUBSET Blobs /\ inflight \in SUBSET Blobs
      /\ sweeps \in 0..MaxSweeps /\ faults \in 0..MediaFaults
  BY <1>1, MediaFacts DEF Files!Upload, MediaInv
<1>3. /\ u \in MediaRuns /\ u.pc = "insert" /\ u.refs = {b} /\ u.robbed = x.robbed /\ u.swept = x.swept
      /\ u.status = x.status /\ u.todo = x.todo /\ u.entries = x.entries
  <2>1. PICK k, bs : k = x.puts + 1 /\ bs = {b}
    OBVIOUS
  <2>2. k \in Nat /\ bs \in SUBSET Blobs
    BY <1>2, <2>1 DEF MediaRuns
  <2>3. u = [x EXCEPT !.pc = "insert", !.puts = k, !.refs = bs]
    BY <1>1, <2>1
  <2> QED
    BY <1>2, <2>1, <2>2, <2>3 DEF MediaRuns, Before
<1>4. Orderly(u)
  BY <1>2, <1>3 DEF Orderly, Progress, Placed, Over, Before, Reading, Read
<1>5. /\ blobs' = blobs \cup {b} /\ exec' = [exec EXCEPT ![r] = u]
      /\ UNCHANGED <<inflight, scan, faults, sweeps>>
  BY <1>1 DEF Files!Upload, Files!Set
<1>6. RunInv(u, r, blobs')
  BY <1>2, <1>3, <1>4, <1>5 DEF RunInv
<1>7. blobs' \in SUBSET Blobs
  BY <1>2, <1>5
<1> QED
  BY <1>1, <1>2, <1>3, <1>5, <1>6, <1>7, MediaMoves

\* A run on its way to its worker, to an approval, or to its end.
Passage(x, p, s) ==
  \/ x.pc \in Before /\ p \in Before /\ s \in {"queued", "running", x.status}
  \/ x.pc = "files" /\ x.todo = <<>> /\ p \in Read /\ s \in {"paused", x.status}
  \/ x.pc \in Read /\ p \in Read /\ s = "running"
  \/ p = "end" /\ s \in Files!Terminal \cup {x.status}
  \/ p = "sweep" /\ s \in Files!Terminal

Passed(x, p, s, l) == [x EXCEPT !.pc = p, !.status = s, !.leaked = l]

LEMMA Passes ==
  ASSUME NEW x, Orderly(x), NEW p, NEW s, NEW l \in BOOLEAN, NEW u, u = Passed(x, p, s, l),
         Passage(x, p, s)
  PROVE  /\ Orderly(u) /\ u.refs = x.refs /\ u.robbed = x.robbed /\ u.swept = x.swept /\ u.leaked = l
         /\ u.pc = p /\ u.status = s
<1>1. x \in MediaRuns /\ Progress(x) /\ Placed(x)
  BY DEF Orderly
<1>2. s \in {"none", "queued", "running", "paused"} \cup Files!Terminal
  BY <1>1 DEF MediaRuns, Passage
<1>3. p \in Before \cup Reading \cup Read \cup {"sweep", "end"}
  BY DEF Passage
<1>4. u \in MediaRuns
  BY <1>1, <1>2, <1>3 DEF MediaRuns, Passed
<1>5. /\ u.refs = x.refs /\ u.robbed = x.robbed /\ u.swept = x.swept /\ u.leaked = l /\ u.pc = p /\ u.status = s
      /\ u.todo = x.todo /\ u.entries = x.entries /\ u.kind = x.kind /\ u.dir = x.dir
  BY <1>1 DEF MediaRuns, Passed
<1>6. Progress(u)
  BY <1>1, <1>5 DEF Passage, Progress, Before, Reading, Read
<1>7. Placed(u)
  BY <1>1, <1>5 DEF Passage, Placed, Over, Before, Reading, Read, Files!Terminal
<1> QED
  BY <1>4, <1>5, <1>6, <1>7 DEF Orderly

LEMMA PassMoves ==
  ASSUME MediaConstants, MediaInv, NEW r \in Runs, NEW x, x = exec[r],
         NEW p, NEW s, NEW l \in BOOLEAN,
         exec' = [exec EXCEPT ![r] = [x EXCEPT !.pc = p, !.status = s, !.leaked = l]],
         Passage(x, p, s),
         p = "end" => l = TRUE,
         Files!Fault \/ faults' = faults, UNCHANGED <<blobs, inflight, scan, sweeps>>
  PROVE  MediaInv'
<1>1. Orderly(x) /\ x \in MediaRuns /\ inflight \in SUBSET Blobs
  BY MediaFacts DEF MediaInv
<1>2. PICK u : u = Passed(x, p, s, l)
  OBVIOUS
<1>3. /\ Orderly(u) /\ u.refs = x.refs /\ u.robbed = x.robbed /\ u.swept = x.swept /\ u.leaked = l
      /\ u.pc = p /\ u.status = s
  BY <1>1, <1>2, Passes
<1>5. u.pc = "end" => u.leaked
  BY <1>3
<1>6. exec' = [exec EXCEPT ![r] = u] /\ inflight' \in SUBSET Blobs
  BY <1>1, <1>2 DEF Passed
<1> QED
  BY <1>3, <1>5, <1>6, QuietMoves

LEMMA MediaInsert ==
  ASSUME MediaConstants, MediaInv, NEW r \in Runs, Files!InsertQueued(r)
  PROVE  MediaInv'
<1>1. PICK x : x = exec[r]
  OBVIOUS
<1>2. /\ x \in MediaRuns /\ Orderly(x) /\ x.pc = "insert" /\ ~Over(x) /\ x.leaked \in BOOLEAN
      /\ UNCHANGED <<blobs, inflight, scan, sweeps>>
  BY <1>1, MediaFacts DEF Files!InsertQueued, Orderly, Placed, MediaRuns
<1>3. CASE Files!Set(r, [x EXCEPT !.pc = "queue", !.status = "queued"]) /\ faults' = faults
  <2>1. exec' = [exec EXCEPT ![r] = [x EXCEPT !.pc = "queue", !.status = "queued",
                                              !.leaked = x.leaked]]
    BY <1>2, <1>3 DEF Files!Set, MediaRuns
  <2>2. Passage(x, "queue", "queued")
    BY <1>2 DEF Passage, Before
  <2> QED
    BY <1>1, <1>2, <1>3, <2>1, <2>2, PassMoves
<1>4. CASE Files!Fault /\ Files!Set(r, [x EXCEPT !.pc = "end", !.leaked = TRUE])
  <2>1. exec' = [exec EXCEPT ![r] = [x EXCEPT !.pc = "end", !.status = x.status,
                                              !.leaked = TRUE]]
    BY <1>2, <1>4 DEF Files!Set, MediaRuns
  <2>2. Passage(x, "end", x.status)
    BY DEF Passage
  <2> QED
    BY <1>1, <1>2, <1>4, <2>1, <2>2, PassMoves
<1> QED
  BY <1>1, <1>3, <1>4 DEF Files!InsertQueued

LEMMA MediaEnqueue ==
  ASSUME MediaConstants, MediaInv, NEW r \in Runs, Files!Enqueue(r)
  PROVE  MediaInv'
<1>1. PICK x : x = exec[r]
  OBVIOUS
<1>2. /\ x \in MediaRuns /\ Orderly(x) /\ x.pc = "queue" /\ x.leaked \in BOOLEAN
      /\ UNCHANGED <<blobs, inflight, scan, sweeps>>
  BY <1>1, MediaFacts DEF Files!Enqueue, MediaRuns
<1>3. CASE Files!Set(r, [x EXCEPT !.pc = "queued"]) /\ faults' = faults
  <2>1. exec' = [exec EXCEPT ![r] = [x EXCEPT !.pc = "queued", !.status = x.status,
                                              !.leaked = x.leaked]]
    BY <1>2, <1>3 DEF Files!Set, MediaRuns
  <2>2. Passage(x, "queued", x.status)
    BY <1>2 DEF Passage, Before
  <2> QED
    BY <1>1, <1>2, <1>3, <2>1, <2>2, PassMoves
<1>4. CASE Files!Fault /\ Files!Set(r, [x EXCEPT !.pc = "end", !.status = "failed",
                                                 !.leaked = TRUE])
  <2>1. exec' = [exec EXCEPT ![r] = [x EXCEPT !.pc = "end", !.status = "failed",
                                              !.leaked = TRUE]]
    BY <1>4 DEF Files!Set
  <2>2. Passage(x, "end", "failed")
    BY DEF Passage, Files!Terminal
  <2> QED
    BY <1>1, <1>2, <1>4, <2>1, <2>2, PassMoves
<1> QED
  BY <1>1, <1>3, <1>4 DEF Files!Enqueue

LEMMA MediaBegin ==
  ASSUME MediaConstants, MediaInv, NEW r \in Runs, Files!Begin(r)
  PROVE  MediaInv'
<1>1. PICK x : x = exec[r]
  OBVIOUS
<1>2. x \in MediaRuns /\ x.pc = "queued" /\ x.leaked \in BOOLEAN
  BY <1>1, MediaFacts DEF Files!Begin, MediaRuns
<1>3. exec' = [exec EXCEPT ![r] = [x EXCEPT !.pc = "list", !.status = "running",
                                            !.leaked = x.leaked]]
  BY <1>1, <1>2 DEF Files!Begin, Files!Set, MediaRuns
<1>4. faults' = faults /\ UNCHANGED <<blobs, inflight, scan, sweeps>>
  BY DEF Files!Begin
<1>5. Passage(x, "list", "running")
  BY <1>2 DEF Passage, Before
<1> QED
  BY <1>1, <1>2, <1>3, <1>4, <1>5, PassMoves

\* Another delivery starts over with the upload.
LEMMA MediaAgain ==
  ASSUME MediaConstants, MediaInv, NEW r \in Runs, Files!DeliverAgain(r)
  PROVE  MediaInv'
<1>1. PICK x, rs : x = exec[r] /\ rs = {b \in x.refs : b.n = 1}
  OBVIOUS
<1>2. x \in MediaRuns /\ Orderly(x) /\ <<>> \in Seq(FileKinds) /\ <<>> \in Seq(Entries)
  BY <1>1, MediaFacts
<1>3. rs \subseteq x.refs /\ rs \in SUBSET Blobs /\ 0 \in 0..NodeRetries
  BY <1>1, <1>2 DEF MediaRuns, MediaConstants
<1>4. PICK u : u = [x EXCEPT !.pc = "list", !.status = "running", !.attempt = 0, !.todo = <<>>,
                             !.entries = <<>>, !.refs = rs]
  OBVIOUS
<1>5. u \in MediaRuns
  BY <1>2, <1>3, <1>4 DEF MediaRuns, Before
<1>6. /\ u.pc = "list" /\ u.status = "running" /\ u.todo = <<>> /\ u.entries = <<>>
      /\ u.refs = rs /\ u.robbed = x.robbed /\ u.swept = x.swept
  BY <1>2, <1>4 DEF MediaRuns
<1>7. Progress(u) /\ Placed(u)
  BY <1>6 DEF Progress, Placed, Over, Files!Terminal, Before, Reading, Read
<1>8. exec' = [exec EXCEPT ![r] = u]
  BY <1>1, <1>4 DEF Files!DeliverAgain, Files!Set
<1>9. Files!Fault /\ UNCHANGED <<blobs, inflight, scan, sweeps>> /\ inflight \in SUBSET Blobs
  BY DEF Files!DeliverAgain, MediaInv
<1> QED
  BY <1>1, <1>3, <1>5, <1>6, <1>7, <1>8, <1>9, QuietMoves DEF Orderly

LEMMA MediaSource ==
  ASSUME MediaConstants, MediaInv, NEW r \in Runs, Files!SourceDone(r)
  PROVE  MediaInv'
<1>1. PICK x : x = exec[r]
  OBVIOUS
<1>2. /\ x \in MediaRuns /\ x.pc = "files" /\ x.todo = <<>> /\ x.leaked \in BOOLEAN
      /\ faults' = faults /\ UNCHANGED <<blobs, inflight, scan, sweeps>>
  BY <1>1, MediaFacts DEF Files!SourceDone, MediaRuns
<1>3. PICK p, s : /\ exec' = [exec EXCEPT ![r] = [x EXCEPT !.pc = p, !.status = s,
                                                           !.leaked = x.leaked]]
                  /\ p \in Read /\ s \in {"paused", x.status}
  <2>1. CASE Files!Set(r, [x EXCEPT !.pc = "gate", !.status = "paused"])
    <3>1. [x EXCEPT !.pc = "gate", !.status = "paused"]
            = [x EXCEPT !.pc = "gate", !.status = "paused", !.leaked = x.leaked]
      BY <1>2 DEF MediaRuns
    <3> QED
      BY <2>1, <3>1 DEF Files!Set, Read
  <2>2. CASE Files!Set(r, [x EXCEPT !.pc = "consume"])
    <3>1. [x EXCEPT !.pc = "consume"]
            = [x EXCEPT !.pc = "consume", !.status = x.status, !.leaked = x.leaked]
      BY <1>2 DEF MediaRuns
    <3> QED
      BY <2>2, <3>1 DEF Files!Set, Read
  <2> QED
    BY <1>1, <2>1, <2>2 DEF Files!SourceDone
<1>4. Passage(x, p, s) /\ p # "end"
  BY <1>2, <1>3 DEF Passage, Read
<1> QED
  BY <1>1, <1>2, <1>3, <1>4, PassMoves

LEMMA MediaResume ==
  ASSUME MediaConstants, MediaInv, NEW r \in Runs, Files!Resume(r)
  PROVE  MediaInv'
<1>1. PICK x : x = exec[r]
  OBVIOUS
<1>2. x \in MediaRuns /\ x.pc = "gate" /\ x.leaked \in BOOLEAN
  BY <1>1, MediaFacts DEF Files!Resume, MediaRuns
<1>3. exec' = [exec EXCEPT ![r] = [x EXCEPT !.pc = "consume", !.status = "running",
                                            !.leaked = x.leaked]]
  BY <1>1, <1>2 DEF Files!Resume, Files!Set, MediaRuns
<1>4. faults' = faults /\ UNCHANGED <<blobs, inflight, scan, sweeps>>
  BY DEF Files!Resume
<1>5. Passage(x, "consume", "running")
  BY <1>2 DEF Passage, Read
<1> QED
  BY <1>1, <1>2, <1>3, <1>4, <1>5, PassMoves

LEMMA MediaConsume ==
  ASSUME MediaConstants, MediaInv, NEW r \in Runs, Files!Consume(r)
  PROVE  MediaInv'
<1>1. PICK x : x = exec[r]
  OBVIOUS
<1>2. /\ x \in MediaRuns /\ Orderly(x) /\ x.pc = "consume" /\ x.leaked \in BOOLEAN
      /\ faults' = faults /\ UNCHANGED <<blobs, inflight, scan, sweeps>>
  BY <1>1, MediaFacts DEF Files!Consume, MediaRuns
<1>3. CASE Files!Set(r, [x EXCEPT !.pc = "sweep", !.status = "completed"])
  <2>1. exec' = [exec EXCEPT ![r] = [x EXCEPT !.pc = "sweep", !.status = "completed",
                                              !.leaked = x.leaked]]
    BY <1>2, <1>3 DEF Files!Set, MediaRuns
  <2>2. Passage(x, "sweep", "completed")
    BY DEF Passage, Files!Terminal
  <2> QED
    BY <1>1, <1>2, <2>1, <2>2, PassMoves
<1>4. CASE Files!Set(r, Files!Failed(x))
  <2>1. PICK u : u = Files!Failed(x)
    OBVIOUS
  <2>2. /\ Orderly(u) /\ u.pc = "sweep" /\ Over(u) /\ u.refs = x.refs /\ u.robbed = x.robbed /\ u.swept = x.swept
    BY <1>2, <2>1, FailedOrderly
  <2>3. exec' = [exec EXCEPT ![r] = u] /\ inflight' \in SUBSET Blobs
    BY <1>2, <1>4, <2>1 DEF Files!Set, MediaInv
  <2> QED
    BY <1>1, <1>2, <2>2, <2>3, QuietMoves
<1> QED
  BY <1>1, <1>3, <1>4 DEF Files!Consume

LEMMA MediaUnswept ==
  ASSUME MediaConstants, MediaInv, NEW r \in Runs, Files!EndUnswept(r)
  PROVE  MediaInv'
<1>1. PICK x, s : /\ x = exec[r]
                  /\ s = IF x.status \in Files!Terminal THEN x.status
                         ELSE IF x.status \in {"queued", "paused"} THEN "cancelled" ELSE "failed"
  OBVIOUS
<1>2. x \in MediaRuns
  BY <1>1, MediaFacts
<1>3. exec' = [exec EXCEPT ![r] = [x EXCEPT !.pc = "end", !.status = s, !.leaked = TRUE]]
  <2>1. [x EXCEPT !.pc = "end", !.leaked = TRUE, !.status = s]
          = [x EXCEPT !.pc = "end", !.status = s, !.leaked = TRUE]
    BY <1>2 DEF MediaRuns
  <2> QED
    BY <1>1, <2>1 DEF Files!EndUnswept, Files!Set
<1>4. Passage(x, "end", s)
  BY <1>1 DEF Passage, Files!Terminal
<1>5. Files!Fault /\ UNCHANGED <<blobs, inflight, scan, sweeps>>
  BY DEF Files!EndUnswept
<1> QED
  BY <1>1, <1>3, <1>4, <1>5, PassMoves

\* The listing is what there is to read; without reading, it is the result.
LEMMA MediaList ==
  ASSUME MediaConstants, MediaInv, NEW r \in Runs, Files!List(r)
  PROVE  MediaInv'
<1>1. PICK x, all : x = exec[r] /\ all = Files!Listed(x.kind, x.dir)
  OBVIOUS
<1>2. /\ x \in MediaRuns /\ Orderly(x) /\ x.pc = "list" /\ ~Over(x)
      /\ x.todo = <<>> /\ x.entries = <<>>
      /\ inflight \in SUBSET Blobs /\ UNCHANGED <<blobs, inflight, scan, sweeps>>
  <2>1. x \in MediaRuns /\ Orderly(x) /\ inflight \in SUBSET Blobs
    BY <1>1, MediaFacts DEF MediaInv
  <2>2. x.pc = "list" /\ UNCHANGED <<blobs, inflight, scan, sweeps>>
    BY <1>1 DEF Files!List
  <2>3. x.todo = <<>> /\ x.entries = <<>>
    BY <2>1, <2>2 DEF Orderly, Progress, Before
  <2>4. ~Over(x)
    BY <2>1, <2>2 DEF Orderly, Placed
  <2> QED
    BY <2>1, <2>2, <2>3, <2>4
<1>3. all \in Seq(FileKinds)
  BY <1>1, <1>2 DEF MediaConstants, MediaRuns
<1>4. CASE Files!Set(r, [x EXCEPT !.pc = "files", !.todo = all]) /\ faults' = faults
  <2>1. PICK u : u = [x EXCEPT !.pc = "files", !.todo = all]
    OBVIOUS
  <2>2. /\ u \in MediaRuns /\ u.pc = "files" /\ u.todo = all /\ u.entries = <<>>
        /\ u.kind = x.kind /\ u.dir = x.dir /\ u.refs = x.refs /\ u.robbed = x.robbed /\ u.swept = x.swept
        /\ u.status = x.status
    BY <1>2, <1>3, <2>1 DEF MediaRuns, Reading
  <2>3. Len(all) \in Nat /\ Len(<<>>) = 0
    BY <1>3
  <2>4. Progress(u)
    <3>1. /\ 0 + Len(all) = Len(all)
          /\ \A i \in 1..0 : FALSE
          /\ \A i \in 1..Len(all) : all[i] = all[0 + i]
      BY <2>3
    <3> QED
      BY <1>1, <2>2, <2>3, <3>1 DEF Progress, Before, Reading, Read
  <2>5. Placed(u)
    BY <1>2, <2>2 DEF Placed, Over
  <2>6. exec' = [exec EXCEPT ![r] = u] /\ inflight' \in SUBSET Blobs
    BY <1>2, <1>4, <2>1 DEF Files!Set
  <2> QED
    BY <1>1, <1>2, <1>4, <2>2, <2>4, <2>5, <2>6, QuietMoves DEF Orderly, Over
<1>5. ASSUME NEW paths, paths = [i \in DOMAIN all |-> [file |-> all[i], is |-> "path"]],
             Files!Set(r, [x EXCEPT !.pc = "files", !.entries = paths]), faults' = faults
      PROVE  MediaInv'
  <2>1. PICK u, n : u = [x EXCEPT !.pc = "files", !.entries = paths] /\ n = Len(all)
    OBVIOUS
  <2>2. n \in Nat /\ DOMAIN all = 1..n /\ \A i \in 1..n : all[i] \in FileKinds
    BY <1>3, <2>1
  <2>3. paths \in [1..n -> Entries]
    BY <1>5, <2>2 DEF Entries
  <2>4. paths \in Seq(Entries) /\ Len(paths) = n
    BY <2>2, <2>3
  <2>5. /\ u \in MediaRuns /\ u.pc = "files" /\ u.todo = <<>> /\ u.entries = paths
        /\ u.kind = x.kind /\ u.dir = x.dir /\ u.refs = x.refs /\ u.robbed = x.robbed /\ u.swept = x.swept
        /\ u.status = x.status
    BY <1>2, <2>1, <2>4 DEF MediaRuns, Reading
  <2>6. Progress(u)
    <3>1. /\ n + 0 = n /\ Len(<<>>) = 0
          /\ \A i \in 1..n : paths[i].file = all[i]
          /\ \A i \in 1..0 : FALSE
      BY <1>5, <2>2
    <3> QED
      BY <1>1, <2>1, <2>4, <2>5, <3>1 DEF Progress, Before, Reading, Read
  <2>7. Placed(u)
    BY <1>2, <2>5 DEF Placed, Over
  <2>8. exec' = [exec EXCEPT ![r] = u] /\ inflight' \in SUBSET Blobs
    BY <1>2, <1>5, <2>1 DEF Files!Set
  <2> QED
    BY <1>1, <1>2, <1>5, <2>5, <2>6, <2>7, <2>8, QuietMoves DEF Orderly, Over
<1>6. CASE Files!Fault /\ Files!Set(r, Files!AttemptFails(x))
  <2>1. PICK u : u = Files!AttemptFails(x)
    OBVIOUS
  <2>2. /\ Orderly(u) /\ u.pc \in {"list", "sweep"} /\ u.refs \subseteq x.refs
        /\ u.robbed = x.robbed /\ u.swept = x.swept
    BY <1>2, <2>1, AttemptOrderly
  <2>3. exec' = [exec EXCEPT ![r] = u] /\ inflight' \in SUBSET Blobs
    BY <1>2, <1>6, <2>1 DEF Files!Set
  <2> QED
    BY <1>1, <1>2, <1>6, <2>2, <2>3, QuietMoves
<1> QED
  BY <1>1, <1>4, <1>5, <1>6 DEF Files!List

\* A file that was read: an entry of it, a blob to store, or an attempt that fails.
LEMMA MediaRead ==
  ASSUME MediaConstants, MediaInv, NEW r \in Runs, Files!ReadNext(r)
  PROVE  MediaInv'
<1>1. PICK x : x = exec[r]
  OBVIOUS
<1>2. /\ x \in MediaRuns /\ Orderly(x) /\ x.pc = "files" /\ x.todo # <<>> /\ ~Over(x)
      /\ inflight \in SUBSET Blobs
  BY <1>1, MediaFacts DEF Files!ReadNext, Orderly, Placed, MediaInv
<1>3. faults' = faults /\ UNCHANGED <<blobs, inflight, scan, sweeps>>
  BY DEF Files!ReadNext
<1>4. PICK e \in Files!ReadFile(x.kind, Head(x.todo)) :
        Files!Set(r, CASE e = "put" -> [x EXCEPT !.pc = "put"]
                       [] e = "error" /\ x.kind \notin Files!Folder -> Files!AttemptFails(x)
                       [] OTHER -> Files!Entry(x, e))
  BY <1>1 DEF Files!ReadNext
<1>5. e \in {"items", "error", "put"}
  BY <1>4 DEF Files!ReadFile, Files!ParseFile
<1>6. PICK u : /\ exec' = [exec EXCEPT ![r] = u] /\ Orderly(u) /\ u.refs \subseteq x.refs
               /\ u.robbed = x.robbed /\ u.swept = x.swept /\ u.pc # "end"
  <2>1. CASE e = "put"
    <3>1. PICK u : u = [x EXCEPT !.pc = "put"]
      OBVIOUS
    <3>2. /\ u \in MediaRuns /\ u.pc = "put" /\ u.todo = x.todo /\ u.entries = x.entries
          /\ u.kind = x.kind /\ u.dir = x.dir /\ u.refs = x.refs /\ u.robbed = x.robbed /\ u.swept = x.swept
          /\ u.status = x.status
      BY <1>2, <3>1 DEF MediaRuns, Reading
    <3>3. Progress(x)
      BY <1>2 DEF Orderly
    <3>4. Progress(u)
      BY <1>2, <3>2, <3>3 DEF Progress, Before, Reading, Read
    <3>5. Placed(u)
      BY <1>2, <3>2 DEF Placed, Over
    <3>6. exec' = [exec EXCEPT ![r] = u]
      BY <1>4, <2>1, <3>1 DEF Files!Set
    <3> QED
      BY <3>2, <3>4, <3>5, <3>6 DEF Orderly
  <2>2. CASE e = "error" /\ x.kind \notin Files!Folder
    <3>1. PICK u : u = Files!AttemptFails(x)
      OBVIOUS
    <3>2. /\ Orderly(u) /\ u.pc \in {"list", "sweep"} /\ u.refs \subseteq x.refs
          /\ u.robbed = x.robbed /\ u.swept = x.swept
      BY <1>2, <3>1, AttemptOrderly
    <3>3. exec' = [exec EXCEPT ![r] = u]
      BY <1>4, <2>2, <3>1 DEF Files!Set
    <3> QED
      BY <3>2, <3>3
  <2>3. CASE e # "put" /\ ~(e = "error" /\ x.kind \notin Files!Folder)
    <3>1. PICK u : u = Files!Entry(x, e)
      OBVIOUS
    <3>2. e \in {"items", "error", "blob"} /\ x.pc \in Reading
      BY <1>2, <1>5, <2>3 DEF Reading
    <3>3. Orderly(u) /\ u.pc = "files" /\ u.refs = x.refs /\ u.robbed = x.robbed /\ u.swept = x.swept
      BY <1>2, <3>1, <3>2, EntryOrderly
    <3>4. exec' = [exec EXCEPT ![r] = u]
      BY <1>4, <2>3, <3>1 DEF Files!Set
    <3> QED
      BY <3>3, <3>4
  <2> QED
    BY <2>1, <2>2, <2>3
<1>7. inflight' \in SUBSET Blobs
  BY <1>2, <1>3
<1> QED
  BY <1>1, <1>2, <1>3, <1>6, <1>7, QuietMoves

\* A step of a run that stores a blob of it.
LEMMA StoreMoves ==
  ASSUME MediaConstants, MediaInv, NEW r \in Runs, NEW x, x = exec[r], NEW u, Orderly(u),
         exec' = [exec EXCEPT ![r] = u], u.refs \subseteq x.refs \cup {Files!Blob(r)},
         u.robbed = x.robbed, u.swept = x.swept, ~Over(x), u.pc # "end",
         blobs' = blobs \cup {Files!Blob(r)},
         Files!Fault \/ faults' = faults, UNCHANGED <<inflight, scan, sweeps>>
  PROVE  MediaInv'
<1>1. PICK b : b = Files!Blob(r)
  OBVIOUS
<1>2. /\ RunInv(x, r, blobs) /\ b \in Blobs /\ b.run = r /\ faults' \in 0..MediaFaults
      /\ blobs \in SUBSET Blobs /\ inflight \in SUBSET Blobs /\ sweeps \in 0..MaxSweeps
  BY <1>1, MediaFacts DEF MediaInv
<1>3. blobs' = blobs \cup {b} /\ u.refs \subseteq x.refs \cup {b}
  BY <1>1
<1>4. RunInv(u, r, blobs')
  BY <1>2, <1>3 DEF RunInv
<1>5. blobs' \in SUBSET Blobs
  BY <1>2, <1>3
<1> QED
  BY <1>2, <1>3, <1>4, <1>5, MediaMoves

LEMMA MediaPut ==
  ASSUME MediaConstants, MediaInv, NEW r \in Runs, Files!PutBlob(r)
  PROVE  MediaInv'
<1>1. PICK x, b : x = exec[r] /\ b = Files!Blob(r)
  OBVIOUS
<1>2. /\ x \in MediaRuns /\ Orderly(x) /\ x.pc = "put" /\ ~Over(x)
      /\ b \in Blobs /\ inflight \in SUBSET Blobs
  BY <1>1, MediaFacts DEF Files!PutBlob, Orderly, Placed, MediaInv
<1>3. x.todo # <<>> /\ x.pc \in Reading
  BY <1>2 DEF Orderly, Progress, Reading
<1>4. UNCHANGED <<inflight, scan, sweeps>>
  BY DEF Files!PutBlob
<1>5. CASE /\ blobs' = blobs \cup {b} /\ faults' = faults
           /\ Files!Set(r, [Files!Entry(x, "blob") EXCEPT !.puts = @ + 1, !.refs = @ \cup {b}])
  <2>1. PICK v : v = Files!Entry(x, "blob")
    OBVIOUS
  <2>2. Orderly(v) /\ v.pc = "files" /\ v.status = x.status /\ v.refs = x.refs /\ v.robbed = x.robbed /\ v.swept = x.swept
    <3>1. "blob" \in {"items", "error", "blob"}
      OBVIOUS
    <3> QED
      BY <1>2, <1>3, <2>1, <3>1, EntryOrderly
  <2>3. PICK k, rs : k = v.puts + 1 /\ rs = v.refs \cup {b}
    OBVIOUS
  <2>4. v \in MediaRuns /\ k \in Nat /\ rs \in SUBSET Blobs
    BY <1>2, <2>2, <2>3 DEF Orderly, MediaRuns
  <2>5. PICK u : u = [v EXCEPT !.puts = k, !.refs = rs]
    OBVIOUS
  <2>6. /\ u \in MediaRuns /\ u.refs = rs /\ u.pc = v.pc /\ u.status = v.status
        /\ u.robbed = v.robbed /\ u.swept = v.swept /\ u.todo = v.todo /\ u.entries = v.entries
        /\ u.kind = v.kind /\ u.dir = v.dir
    BY <2>4, <2>5 DEF MediaRuns
  <2>7. Progress(u) /\ Placed(u)
    BY <2>2, <2>6 DEF Orderly, Progress, Placed, Over
  <2>8. Files!Set(r, u)
    BY <1>5, <2>1, <2>3, <2>5
  <2>9. exec' = [exec EXCEPT ![r] = u]
    BY <2>8 DEF Files!Set
  <2> QED
    BY <1>1, <1>2, <1>4, <1>5, <2>2, <2>3, <2>6, <2>7, <2>9, StoreMoves DEF Orderly
<1>6. CASE /\ Files!Fault /\ blobs' = blobs
           /\ Files!Set(r, IF x.kind \in Files!Folder THEN Files!Entry(x, "error")
                           ELSE Files!AttemptFails(x))
  <2>1. PICK u : u = IF x.kind \in Files!Folder THEN Files!Entry(x, "error")
                     ELSE Files!AttemptFails(x)
    OBVIOUS
  <2>2. Orderly(u) /\ u.pc # "end" /\ u.refs \subseteq x.refs /\ u.robbed = x.robbed /\ u.swept = x.swept
    <3>1. CASE x.kind \in Files!Folder
      <4>1. "error" \in {"items", "error", "blob"} /\ u = Files!Entry(x, "error")
        BY <2>1, <3>1
      <4> QED
        BY <1>2, <1>3, <4>1, EntryOrderly
    <3>2. CASE x.kind \notin Files!Folder
      <4>1. u = Files!AttemptFails(x)
        BY <2>1, <3>2
      <4> QED
        BY <1>2, <4>1, AttemptOrderly
    <3> QED
      BY <3>1, <3>2
  <2>3. exec' = [exec EXCEPT ![r] = u] /\ inflight' \in SUBSET Blobs
    BY <1>2, <1>4, <1>6, <2>1 DEF Files!Set
  <2> QED
    BY <1>1, <1>2, <1>4, <1>6, <2>2, <2>3, QuietMoves
<1> QED
  BY <1>1, <1>5, <1>6 DEF Files!PutBlob

LEMMA MediaTimeout ==
  ASSUME MediaConstants, MediaInv, NEW r \in Runs, Files!NodeTimeout(r)
  PROVE  MediaInv'
<1>1. PICK x, b, v : x = exec[r] /\ b = Files!Blob(r) /\ v = Files!Failed(x)
  OBVIOUS
<1>2. /\ x \in MediaRuns /\ Orderly(x) /\ b \in Blobs /\ inflight \in SUBSET Blobs
  BY <1>1, MediaFacts DEF MediaInv
<1>3. Orderly(v) /\ v.pc = "sweep" /\ Over(v) /\ v.refs = x.refs /\ v.robbed = x.robbed /\ v.swept = x.swept
  BY <1>1, <1>2, FailedOrderly
<1>4. PICK k, u : k = (IF x.pc = "put" THEN v.puts + 1 ELSE v.puts) /\ u = [v EXCEPT !.puts = k]
  OBVIOUS
<1>5. v \in MediaRuns /\ k \in Nat
  BY <1>3, <1>4 DEF Orderly, MediaRuns
<1>6. /\ u \in MediaRuns /\ u.pc = v.pc /\ u.status = v.status /\ u.refs = v.refs
      /\ u.robbed = v.robbed /\ u.swept = v.swept /\ u.todo = v.todo /\ u.entries = v.entries
      /\ u.kind = v.kind /\ u.dir = v.dir
  BY <1>4, <1>5 DEF MediaRuns
<1>7. Progress(u) /\ Placed(u) /\ Over(u)
  BY <1>3, <1>6 DEF Orderly, Progress, Placed, Over
<1>8. exec' = [exec EXCEPT ![r] = u]
  BY <1>1, <1>4 DEF Files!NodeTimeout, Files!Set
<1>9. inflight' \in SUBSET Blobs /\ Files!Fault /\ UNCHANGED <<blobs, scan, sweeps>>
  BY <1>1, <1>2 DEF Files!NodeTimeout
<1> QED
  BY <1>1, <1>3, <1>6, <1>7, <1>8, <1>9, QuietMoves DEF Orderly

LEMMA MediaRunTimeout ==
  ASSUME MediaConstants, MediaInv, NEW r \in Runs, Files!RunTimeout(r)
  PROVE  MediaInv'
<1>1. PICK x, b : x = exec[r] /\ b = Files!Blob(r)
  OBVIOUS
<1>2. /\ x \in MediaRuns /\ Orderly(x) /\ b \in Blobs /\ inflight \in SUBSET Blobs
  BY <1>1, MediaFacts DEF MediaInv
<1>3. PICK k, u : /\ k = (IF x.pc = "put" THEN x.puts + 1 ELSE x.puts)
                  /\ u = [x EXCEPT !.pc = "end", !.status = "timed_out", !.leaked = TRUE,
                                   !.puts = k]
  OBVIOUS
<1>4. k \in Nat
  BY <1>2, <1>3 DEF MediaRuns
<1>5. /\ u \in MediaRuns /\ u.pc = "end" /\ u.leaked = TRUE /\ u.refs = x.refs
      /\ u.robbed = x.robbed /\ u.swept = x.swept
  BY <1>2, <1>3, <1>4 DEF MediaRuns, Files!Terminal
<1>6. Progress(u) /\ Placed(u)
  BY <1>5 DEF Progress, Placed, Before, Reading, Read
<1>7. exec' = [exec EXCEPT ![r] = u]
  BY <1>1, <1>3 DEF Files!RunTimeout, Files!Set
<1>8. inflight' \in SUBSET Blobs /\ Files!Fault /\ UNCHANGED <<blobs, scan, sweeps>>
  BY <1>1, <1>2 DEF Files!RunTimeout
<1> QED
  BY <1>1, <1>5, <1>6, <1>7, <1>8, QuietMoves DEF Orderly

\* An upload that outlived its node lands, perhaps after the sweep of its run.
LEMMA MediaLands ==
  ASSUME MediaConstants, MediaInv, NEW b \in inflight, Files!PutLands(b)
  PROVE  MediaInv'
<1>1. b \in Blobs /\ blobs \in SUBSET Blobs /\ inflight \in SUBSET Blobs
  BY DEF MediaInv
<1>2. PICK r \in Runs : r = b.run
  BY <1>1 DEF Blobs
<1>3. PICK x, l, u : /\ x = exec[r] /\ l = (x.leaked \/ x.pc = "end")
                     /\ u = [x EXCEPT !.leaked = l]
  OBVIOUS
<1>4. x \in MediaRuns /\ RunInv(x, r, blobs) /\ Orderly(x)
  BY <1>3, MediaFacts
<1>5. l \in BOOLEAN
  BY <1>3, <1>4, Zenon DEF MediaRuns
<1>6. /\ u \in MediaRuns /\ u.pc = x.pc /\ u.status = x.status /\ u.refs = x.refs
      /\ u.robbed = x.robbed /\ u.swept = x.swept /\ u.todo = x.todo /\ u.entries = x.entries
      /\ u.kind = x.kind /\ u.dir = x.dir /\ u.leaked = l
  BY <1>3, <1>4, <1>5 DEF MediaRuns
<1>7. Orderly(u)
  BY <1>4, <1>6 DEF Orderly, Progress, Placed, Over
<1>8. /\ blobs' = blobs \cup {b} /\ inflight' = inflight \ {b}
      /\ UNCHANGED <<scan, faults, sweeps>>
  BY DEF Files!PutLands
<1>9. exec' = [exec EXCEPT ![r] = u]
  <2>1. exec' = [exec EXCEPT ![r] = [exec[r] EXCEPT !.leaked = l]]
    BY <1>2, <1>3 DEF Files!PutLands, MediaInv
  <2> QED
    BY <1>3, <2>1
<1>10. RunInv(u, r, blobs')
  <2>1. u.pc = "end" => u.leaked
    BY <1>3, <1>6
  <2>2. \A c \in u.refs : c.run = r
    BY <1>4, <1>6 DEF RunInv
  <2>3. ~u.robbed /\ ~u.swept => u.refs \subseteq blobs'
    BY <1>4, <1>6, <1>8 DEF RunInv
  <2> QED
    BY <1>7, <2>1, <2>2, <2>3 DEF RunInv
<1>11. x.robbed => u.robbed
  BY <1>6
<1>12. blobs' \in SUBSET Blobs /\ inflight' \in SUBSET Blobs
  BY <1>1, <1>8
<1>13. faults' \in 0..MediaFaults /\ sweeps' \in 0..MaxSweeps
  BY <1>8 DEF MediaInv
<1> QED
  BY <1>2, <1>3, <1>8, <1>9, <1>10, <1>11, <1>12, <1>13, MediaMoves

\* The sweep of a run takes nothing that another run refers to.
LEMMA MediaSweep ==
  ASSUME MediaConstants, MediaInv, NEW r \in Runs, Files!SweepRun(r)
  PROVE  MediaInv'
<1>1. PICK x : x = exec[r]
  OBVIOUS
<1>2. /\ x \in MediaRuns /\ RunInv(x, r, blobs) /\ Orderly(x) /\ x.pc = "sweep"
      /\ x.leaked \in BOOLEAN /\ blobs \in SUBSET Blobs /\ inflight \in SUBSET Blobs
  BY <1>1, MediaFacts DEF Files!SweepRun, MediaInv, MediaRuns
<1>3. PICK left, l :
        /\ l \in BOOLEAN
        /\ blobs' = blobs \ (Files!Of(r) \ left)
        /\ exec' = [exec EXCEPT ![r] = [x EXCEPT !.pc = "end", !.swept = TRUE, !.leaked = l]]
        /\ ~l => left = {}
        /\ Files!Fault \/ faults' = faults
  <2>1. CASE /\ blobs' = blobs \ Files!Of(r) /\ faults' = faults
             /\ Files!Set(r, [x EXCEPT !.pc = "end", !.swept = TRUE])
    <3>1. [x EXCEPT !.pc = "end", !.swept = TRUE]
            = [x EXCEPT !.pc = "end", !.swept = TRUE, !.leaked = x.leaked]
      BY <1>2 DEF MediaRuns
    <3>2. blobs' = blobs \ (Files!Of(r) \ {})
      BY <2>1
    <3> QED
      BY <1>2, <2>1, <3>1, <3>2 DEF Files!Set
  <2>2. CASE Files!Fault /\ \E left \in SUBSET Files!Of(r) \ {{}} :
                              blobs' = blobs \ (Files!Of(r) \ left)
             /\ Files!Set(r, [x EXCEPT !.pc = "end", !.swept = TRUE, !.leaked = TRUE])
    <3>2. PICK left : blobs' = blobs \ (Files!Of(r) \ left)
      BY <2>2
    <3> QED
      BY <2>2, <3>2 DEF Files!Set
  <2> QED
    BY <1>1, <2>1, <2>2 DEF Files!SweepRun
<1>4. PICK u : u = [x EXCEPT !.pc = "end", !.swept = TRUE, !.leaked = l]
  OBVIOUS
<1>5. /\ Orderly(u) /\ u.refs = x.refs /\ u.robbed = x.robbed /\ u.swept /\ u.leaked = l
      /\ u.pc = "end"
  <2>1. /\ u \in MediaRuns /\ u.refs = x.refs /\ u.robbed = x.robbed /\ u.swept = TRUE
        /\ u.leaked = l /\ u.pc = "end"
    BY <1>2, <1>3, <1>4 DEF MediaRuns
  <2>2. Progress(u) /\ Placed(u)
    BY <2>1 DEF Progress, Placed, Before, Reading, Read
  <2> QED
    BY <2>1, <2>2 DEF Orderly
<1>6. exec' = [exec EXCEPT ![r] = u]
  BY <1>3, <1>4
<1>7. /\ \A c \in blobs : c.run # r => c \in blobs'
      /\ ~l => \A c \in blobs' : c.run # r
      /\ blobs' \subseteq blobs
  BY <1>3 DEF Files!Of
<1>9. RunInv(u, r, blobs')
  BY <1>2, <1>5, <1>7 DEF RunInv
<1>10. faults' \in 0..MediaFaults
  BY <1>3, MediaFacts
<1>11. UNCHANGED <<inflight, scan, sweeps>> /\ sweeps \in 0..MaxSweeps
  BY DEF Files!SweepRun, MediaInv
<1>12. blobs' \in SUBSET Blobs /\ inflight' \in SUBSET Blobs
  BY <1>2, <1>7, <1>11
<1> QED
  BY <1>1, <1>5, <1>6, <1>7, <1>9, <1>10, <1>11, <1>12, MediaMoves

\* The scan. A status that it read too early robs the run of what it refers to.
LEMMA MediaScan ==
  ASSUME MediaConstants, MediaInv,
         \/ Files!ListBlobs \/ Files!ReadStatuses \/ Files!ScanEnds
         \/ \E b \in scan.orphans : Files!DeleteOrphan(b)
  PROVE  MediaInv'
<1>1. /\ exec \in [Runs -> MediaRuns] /\ blobs \in SUBSET Blobs /\ inflight \in SUBSET Blobs
      /\ scan \in [pc : {"idle", "listed", "delete"}, listed : SUBSET Blobs,
                   orphans : SUBSET Blobs]
      /\ faults \in 0..MediaFaults /\ sweeps \in 0..MaxSweeps
      /\ \A r \in Runs : RunInv(exec[r], r, blobs)
      /\ \A b \in scan.orphans : exec[b.run].robbed
  BY DEF MediaInv
<1>2. MediaFaults \in Nat /\ MaxSweeps \in Nat
  BY DEF MediaConstants
<1>3. CASE Files!ListBlobs
  <2>1. /\ scan' = [pc |-> "listed", listed |-> blobs, orphans |-> {}]
        /\ sweeps' = sweeps + 1 /\ sweeps < MaxSweeps
        /\ UNCHANGED <<exec, blobs, inflight, faults>>
    BY <1>3 DEF Files!ListBlobs
  <2>2. sweeps' \in 0..MaxSweeps
    BY <1>1, <1>2, <2>1
  <2>3. scan' \in [pc : {"idle", "listed", "delete"}, listed : SUBSET Blobs,
                   orphans : SUBSET Blobs]
    BY <1>1, <2>1
  <2>4. \A b \in scan'.orphans : FALSE
    BY <2>1
  <2> QED
    BY <1>1, <2>1, <2>2, <2>3, <2>4 DEF MediaInv
<1>4. CASE Files!ReadStatuses
  <2>1. PICK os : os = {b \in scan.listed : Files!IsOrphan(b)}
    OBVIOUS
  <2>2. /\ scan' = [scan EXCEPT !.pc = "delete", !.orphans = os, !.listed = {}]
        /\ UNCHANGED <<blobs, inflight, faults, sweeps>>
    BY <1>4, <2>1 DEF Files!ReadStatuses
  <2>3. os \in SUBSET Blobs /\ os \subseteq scan.listed
    BY <1>1, <2>1
  <2>4. /\ scan' \in [pc : {"idle", "listed", "delete"}, listed : SUBSET Blobs,
                      orphans : SUBSET Blobs]
        /\ scan'.orphans = os
    BY <1>1, <2>2, <2>3
  <2>5. ASSUME NEW r \in Runs
        PROVE  /\ exec'[r] \in MediaRuns /\ RunInv(exec'[r], r, blobs')
               /\ exec'[r].status = exec[r].status
               /\ exec[r].status \notin Files!Alive /\ (\E b \in scan.listed : b.run = r)
                    => exec'[r].robbed
    <3>1. PICK x, g : /\ x = exec[r]
                      /\ g = (x.robbed \/ (x.status \notin Files!Alive
                                             /\ \E b \in scan.listed : b.run = r))
      OBVIOUS
    <3>2. x \in MediaRuns /\ RunInv(x, r, blobs) /\ Orderly(x)
      BY <1>1, <3>1 DEF RunInv
    <3>3. g \in BOOLEAN
      BY <3>1, <3>2, Zenon DEF MediaRuns
    <3>4. PICK u : u = [x EXCEPT !.robbed = g]
      OBVIOUS
    <3>5. exec'[r] = u
      <4>1. exec'[r] = [exec[r] EXCEPT !.robbed = (exec[r].robbed \/
                          (exec[r].status \notin Files!Alive
                             /\ \E b \in scan.listed : b.run = r))]
        BY <1>4 DEF Files!ReadStatuses
      <4> QED
        BY <3>1, <3>4, <4>1, Zenon
    <3>6. /\ u \in MediaRuns /\ u.pc = x.pc /\ u.status = x.status /\ u.refs = x.refs
          /\ u.robbed = g /\ u.swept = x.swept /\ u.todo = x.todo /\ u.entries = x.entries
          /\ u.kind = x.kind /\ u.dir = x.dir /\ u.leaked = x.leaked
      BY <3>2, <3>3, <3>4 DEF MediaRuns
    <3>7. Orderly(u)
      BY <3>2, <3>6 DEF Orderly, Progress, Placed, Over
    <3>8. x.robbed => g
      BY <3>1
    <3>9. RunInv(u, r, blobs')
      <4>1. ~u.robbed /\ ~u.swept => u.refs \subseteq blobs
        BY <3>2, <3>6, <3>8 DEF RunInv
      <4>2. u.pc = "end" /\ ~u.leaked => \A b \in blobs : b.run # r
        BY <3>2, <3>6 DEF RunInv
      <4>3. \A b \in u.refs : b.run = r
        BY <3>2, <3>6 DEF RunInv
      <4> QED
        BY <2>2, <3>7, <4>1, <4>2, <4>3 DEF RunInv
    <3>10. x.status \notin Files!Alive /\ (\E b \in scan.listed : b.run = r) => g
      BY <3>1
    <3> QED
      BY <3>1, <3>5, <3>6, <3>9, <3>10
  <2>6. exec' \in [Runs -> MediaRuns]
    <3>1. exec' = [r \in Runs |-> exec'[r]]
      BY <1>4 DEF Files!ReadStatuses
    <3> QED
      BY <2>5, <3>1
  <2>7. ASSUME NEW b \in os PROVE exec'[b.run].robbed
    <3>1. b.run \in Runs /\ b \in scan.listed /\ exec[b.run].status \notin Files!Alive
      BY <2>1, <2>3 DEF Blobs, Files!IsOrphan
    <3> QED
      BY <2>5, <3>1
  <2> QED
    BY <1>1, <2>2, <2>4, <2>5, <2>6, <2>7 DEF MediaInv
<1>5. CASE Files!ScanEnds
  <2>1. scan' = [scan EXCEPT !.pc = "idle"] /\ UNCHANGED <<exec, blobs, inflight, faults, sweeps>>
    BY <1>5 DEF Files!ScanEnds
  <2>2. /\ scan' \in [pc : {"idle", "listed", "delete"}, listed : SUBSET Blobs,
                      orphans : SUBSET Blobs]
        /\ scan'.orphans = scan.orphans
    BY <1>1, <2>1
  <2> QED
    BY <1>1, <2>1, <2>2 DEF MediaInv
<1>6. ASSUME NEW b \in scan.orphans, Files!DeleteOrphan(b) PROVE MediaInv'
  <2>1. PICK os : os = scan.orphans \ {b}
    OBVIOUS
  <2>2. scan' = [scan EXCEPT !.orphans = os] /\ UNCHANGED <<exec, inflight, sweeps>>
    BY <1>6, <2>1 DEF Files!DeleteOrphan
  <2>3. /\ scan' \in [pc : {"idle", "listed", "delete"}, listed : SUBSET Blobs,
                      orphans : SUBSET Blobs]
        /\ scan'.orphans = os
    BY <1>1, <2>1, <2>2
  <2>4. faults' \in 0..MediaFaults
    BY <1>1, <1>2, <1>6 DEF Files!DeleteOrphan, Files!Fault
  <2>5. blobs' \subseteq blobs /\ \A c \in blobs : c # b => c \in blobs'
    BY <1>6 DEF Files!DeleteOrphan
  <2>6. ASSUME NEW r \in Runs PROVE RunInv(exec[r], r, blobs')
    <3>1. RunInv(exec[r], r, blobs)
      BY <1>1
    <3>2. ~exec[r].robbed => b \notin exec[r].refs
      BY <1>1, <3>1 DEF RunInv
    <3> QED
      BY <2>5, <3>1, <3>2 DEF RunInv
  <2>7. blobs' \in SUBSET Blobs
    BY <1>1, <2>5
  <2> QED
    BY <1>1, <2>1, <2>2, <2>3, <2>4, <2>6, <2>7 DEF MediaInv
<1> QED
  BY <1>3, <1>4, <1>5, <1>6

LEMMA MediaNext ==
  ASSUME MediaConstants, MediaInv, [Files!Next]_(Files!mediaVars)
  PROVE  MediaInv'
<1>1. CASE UNCHANGED Files!mediaVars
  BY <1>1 DEF Files!mediaVars, MediaInv, RunInv
<1>2. ASSUME NEW r \in Runs,
             \/ Files!Upload(r) \/ Files!InsertQueued(r) \/ Files!Enqueue(r) \/ Files!Begin(r)
             \/ Files!DeliverAgain(r) \/ Files!RunTimeout(r) \/ Files!List(r) \/ Files!ReadNext(r) \/ Files!PutBlob(r) \/ Files!NodeTimeout(r)
             \/ Files!SourceDone(r) \/ Files!Resume(r) \/ Files!Consume(r)
             \/ Files!SweepRun(r) \/ Files!EndUnswept(r)
      PROVE  MediaInv'
  BY <1>2, MediaUpload, MediaInsert, MediaEnqueue, MediaBegin, MediaAgain, MediaRunTimeout,
     MediaList, MediaRead, MediaPut,
     MediaTimeout, MediaSource, MediaResume, MediaConsume, MediaSweep, MediaUnswept
<1>3. CASE \E b \in inflight : Files!PutLands(b)
  BY <1>3, MediaLands
<1>4. CASE \/ Files!ListBlobs \/ Files!ReadStatuses \/ Files!ScanEnds
           \/ \E b \in scan.orphans : Files!DeleteOrphan(b)
  BY <1>4, MediaScan
<1> QED
  BY <1>1, <1>2, <1>3, <1>4 DEF Files!Next

LEMMA MediaInit ==
  ASSUME MediaConstants, Files!Init
  PROVE  MediaInv
<1>1. /\ blobs = {} /\ inflight = {} /\ faults = 0 /\ sweeps = 0
      /\ scan = [pc |-> "idle", listed |-> {}, orphans |-> {}]
  BY DEF Files!Init
<1>2. ASSUME NEW r \in Runs
      PROVE  exec[r] \in MediaRuns /\ RunInv(exec[r], r, blobs)
  <2>1. PICK x : x = exec[r]
    OBVIOUS
  <2>2. x \in [status : {"none"}, pc : {"upload"}, kind : Sources, dir : Folders,
               attempt : {0}, todo : {<<>>}, entries : {<<>>}, refs : {{}},
               puts : {0}, robbed : {FALSE}, swept : {FALSE}, leaked : {FALSE}]
    BY <2>1 DEF Files!Init
  <2>3. PICK k \in Sources, d \in Folders :
          x = [status |-> "none", pc |-> "upload", kind |-> k, dir |-> d, attempt |-> 0,
               todo |-> <<>>, entries |-> <<>>, refs |-> {}, puts |-> 0,
               robbed |-> FALSE, swept |-> FALSE, leaked |-> FALSE]
    BY <2>2
  <2>4. /\ 0 \in 0..NodeRetries /\ <<>> \in Seq(FileKinds) /\ <<>> \in Seq(Entries)
        /\ {} \in SUBSET Blobs
    BY DEF MediaConstants
  <2>5. x \in MediaRuns
    BY <2>3, <2>4 DEF MediaRuns, Before
  <2>6. /\ x.pc = "upload" /\ x.status = "none" /\ x.entries = <<>> /\ x.todo = <<>>
        /\ x.refs = {}
    BY <2>3
  <2>7. Progress(x) /\ Placed(x)
    BY <2>6 DEF Progress, Placed, Over, Files!Terminal, Before, Reading, Read
  <2> QED
    BY <2>1, <2>5, <2>6, <2>7 DEF RunInv, Orderly
<1>3. exec \in [Runs -> MediaRuns]
  <2>1. exec = [r \in Runs |-> exec[r]]
    BY DEF Files!Init
  <2> QED
    BY <1>2, <2>1
<1> QED
  BY <1>1, <1>2, <1>3 DEF MediaInv, MediaConstants

LEMMA MediaImplies ==
  ASSUME MediaConstants, MediaInv
  PROVE  MediaSound
<1>1. \A r \in Runs : exec[r] \in MediaRuns /\ RunInv(exec[r], r, blobs) /\ Orderly(exec[r])
  BY DEF MediaInv, RunInv
<1>2. Files!TypeOK
  <2>1. /\ blobs \cup inflight \subseteq Blobs /\ scan.pc \in {"idle", "listed", "delete"}
        /\ faults \in 0..MediaFaults /\ sweeps \in 0..MaxSweeps
    BY DEF MediaInv
  <2> QED
    BY <1>1, <2>1 DEF Files!TypeOK, MediaRuns, Blobs
<1>3. Files!LiveMediaKept
  BY <1>1 DEF Files!LiveMediaKept, RunInv, Over, Files!Terminal
<1>4. Files!LeftoversExplained
  BY <1>1 DEF Files!LeftoversExplained, RunInv, Files!Of
<1>5. Files!EveryFileOnce
  <2> SUFFICES ASSUME NEW r \in Runs, exec[r].pc \in {"gate", "consume"}
               PROVE  [i \in DOMAIN exec[r].entries |-> exec[r].entries[i].file]
                        = Files!Listed(exec[r].kind, exec[r].dir)
    BY DEF Files!EveryFileOnce
  <2>1. PICK x, all, n : /\ x = exec[r] /\ all = Files!Listed(x.kind, x.dir)
                         /\ n = Len(x.entries)
    OBVIOUS
  <2>2. x \in MediaRuns /\ Progress(x) /\ x.pc \in Read
    BY <1>1, <2>1 DEF Orderly, Read
  <2>3. all \in Seq(FileKinds) /\ x.entries \in Seq(Entries)
    BY <2>1, <2>2 DEF MediaConstants, MediaRuns
  <2>4. n \in Nat /\ DOMAIN x.entries = 1..n
    BY <2>1, <2>3
  <2>5. n + Len(<<>>) = Len(all) /\ \A i \in 1..n : x.entries[i].file = all[i]
    BY <2>1, <2>2 DEF Progress
  <2>6. Len(all) = n /\ Len(all) \in Nat
    BY <2>3, <2>4, <2>5
  <2>7. all = [i \in 1..n |-> all[i]]
    BY <2>3, <2>6
  <2> QED
    BY <2>1, <2>4, <2>5, <2>7
<1> QED
  BY <1>2, <1>3, <1>4, <1>5 DEF MediaSound, Files!MediaSound

\* Any number of runs with any remote folders, whatever fails, times out, is
\* retried, paused, delivered again or scanned meanwhile: what a live run refers
\* to is in the store unless the scan read its status when it was not alive or its
\* own sweep went before the delivery, what a finished run left has an explanation,
\* and a folder yields every listed file once and in order (put_blob,
\* _sweep_blobs_if_terminal, _scan_blob_orphans).
THEOREM MediaTheorem ==
  ASSUME MediaConstants
  PROVE  Files!Spec => []MediaSound
<1>1. Files!Init => MediaInv
  BY MediaInit
<1>2. MediaInv /\ [Files!Next]_(Files!mediaVars) => MediaInv'
  BY MediaNext
<1>3. MediaInv => MediaSound
  BY MediaImplies
<1> QED
  BY <1>1, <1>2, <1>3, PTL DEF Files!Spec

-----------------------------------------------------------------------------
(***************************************************************************)
(* Processors.  Attempts overlap: what the groups of an earlier attempt do *)
(* changes neither the node nor what gather holds, because nobody hears    *)
(* them, and the tasks of an attempt do not exist before it spreads.       *)
(***************************************************************************)

ProcessorConstants ==
  /\ NodeRetries \in Nat /\ CallFaults \in Nat /\ BatchSize \in Nat \ {0}
  /\ \A s \in Inputs : Len(s) \in Nat

TaskStates == {"none", "queued", "llm", "done", "dead"}
ProcessorNodes ==
  [kind : Processing, mode : Modes, input : Inputs, attempt : 0..NodeRetries,
   pc : {"start", "gather", "completed", "failed"}, whole : BOOLEAN]

\* Tasks that no attempt has created yet.
Unborn(t) == t[1] > node.attempt \/ (t[1] = node.attempt /\ node.pc = "start")

\* What a heard group left, with what it must be.
PlaceInv(g) ==
  node.kind \notin Process!Plain /\ node.pc \in {"gather", "completed"}
      /\ task[<<node.attempt, g>>] = "done"
    => Process!Outcome(g)

OutInv ==
  node.kind \notin Process!Plain /\ node.pc = "completed" =>
    /\ \A g \in Process!Slots : task[<<node.attempt, g>>] \in {"none", "done"}
    /\ \A g \in 1..Len(Process!Groups) : task[<<node.attempt, g>>] = "done"
    /\ out = Process!Finished(Process!FlattenSeq(SubSeq(result, 1, Len(Process!Groups))))

ProcessorInv ==
  /\ node \in ProcessorNodes
  /\ task \in [Process!Tasks -> TaskStates]
  /\ result = [g \in Process!Slots |-> result[g]]
  /\ spent \in Nat /\ mishaps \in 0..CallFaults
  /\ \A t \in Process!Tasks : Unborn(t) => task[t] = "none"
  /\ \A g \in Process!Slots :
       g \notin 1..Len(Process!Groups) => task[<<node.attempt, g>>] = "none"
  /\ node.kind = "simple_rules" => \A t \in Process!Tasks : task[t] # "llm"
  /\ \A g \in Process!Slots : PlaceInv(g)
  /\ OutInv

\* A step keeps what the node is; so the groups and what becomes of them stay.
LEMMA SameNode ==
  ASSUME node'.kind = node.kind, node'.mode = node.mode, node'.input = node.input
  PROVE  /\ Process!Groups' = Process!Groups
         /\ \A group, reply, try :
              Process!Processed(group, reply, try)' = Process!Processed(group, reply, try)
         /\ \A s : Process!Finished(s)' = Process!Finished(s)
<1>1. Process!Groups' = Process!Groups
  BY DEF Process!Groups
<1>2. \A group, reply, try :
        Process!Processed(group, reply, try)' = Process!Processed(group, reply, try)
  BY DEF Process!Processed
<1>3. \A s : Process!Finished(s)' = Process!Finished(s)
  BY DEF Process!Finished
<1> QED
  BY <1>1, <1>2, <1>3

\* There are finitely many groups.
LEMMA GroupsCount ==
  ASSUME ProcessorConstants, node \in ProcessorNodes
  PROVE  Len(Process!Groups) \in Nat
<1>1. PICK n, size : /\ n = Len(node.input)
                     /\ size = CASE node.mode = "each" -> 1 [] node.mode = "batch" -> BatchSize
                                 [] OTHER -> n
  OBVIOUS
<1>2. n \in Nat
  BY <1>1 DEF ProcessorConstants, ProcessorNodes
<1>3. CASE n <= 1
  <2>1. Process!Groups = <<node.input>>
    BY <1>1, <1>3 DEF Process!Groups
  <2> QED
    BY <2>1
<1>4. CASE ~(n <= 1)
  <2>1. size \in Nat \ {0}
    BY <1>1, <1>2, <1>4 DEF ProcessorConstants
  <2>2. PICK k : k = (n + size - 1) \div size
    OBVIOUS
  <2>3. k \in Nat
    <3>1. n + size - 1 \in Nat
      BY <1>2, <2>1
    <3> QED
      BY <2>1, <2>2, <3>1
  <2>4. PICK gs : gs = [g \in 1..k |-> SubSeq(node.input, (g - 1) * size + 1,
                                              IF g * size < n THEN g * size ELSE n)]
    OBVIOUS
  <2>5. Process!Groups = gs
    BY <1>1, <1>4, <2>2, <2>4 DEF Process!Groups
  <2>6. gs \in [1..k -> {gs[g] : g \in 1..k}]
    BY <2>4
  <2>7. gs \in Seq({gs[g] : g \in 1..k})
    BY <2>3, <2>6
  <2> QED
    BY <2>5, <2>7
<1> QED
  BY <1>3, <1>4

\* What became of a group stays so while the node does not change.
LEMMA OutcomeStays ==
  ASSUME node'.kind = node.kind, node'.mode = node.mode, node'.input = node.input,
         node'.attempt = node.attempt, node'.whole => node.whole,
         NEW g, result'[g] = result[g], Process!Outcome(g)
  PROVE  Process!Outcome(g)'
<1>1. /\ Process!Groups' = Process!Groups
      /\ \A group, reply, try :
           Process!Processed(group, reply, try)' = Process!Processed(group, reply, try)
  BY SameNode
<1> QED
  BY <1>1 DEF Process!Outcome

\* The next attempt, or the end: nobody hears the groups that are left.
LEMMA AttemptEnds ==
  ASSUME ProcessorConstants, ProcessorInv, Process!AttemptFails,
         task' \in [Process!Tasks -> TaskStates],
         \A t \in Process!Tasks : t[1] > node.attempt => task'[t] = task[t],
         \A g \in Process!Slots :
           g \notin 1..Len(Process!Groups) => task'[<<node.attempt, g>>] = "none",
         node.kind = "simple_rules" => \A t \in Process!Tasks : task'[t] # "llm",
         result' = [g \in Process!Slots |-> result'[g]],
         spent' \in Nat, mishaps' \in 0..CallFaults, node.pc \in {"start", "gather"},
         node.pc = "start" => task' = task
  PROVE  ProcessorInv'
<1>1. /\ node \in ProcessorNodes /\ NodeRetries \in Nat
      /\ \A t \in Process!Tasks : Unborn(t) => task[t] = "none"
  BY DEF ProcessorInv, ProcessorConstants
<1>2. PICK a : a = node'.attempt
  OBVIOUS
<1>3. /\ node' \in ProcessorNodes /\ node'.pc \in {"start", "failed"}
      /\ node'.kind = node.kind /\ node'.mode = node.mode /\ node'.input = node.input
      /\ \/ a = node.attempt + 1 /\ node'.pc = "start"
         \/ a = node.attempt /\ node'.pc = "failed"
      /\ a \in 0..NodeRetries /\ node.attempt \in 0..NodeRetries
  <2>1. CASE node.attempt < NodeRetries
    <3>1. PICK k : k = node.attempt + 1
      OBVIOUS
    <3>2. k \in 0..NodeRetries
      BY <1>1, <2>1, <3>1 DEF ProcessorNodes
    <3>3. node' = [node EXCEPT !.attempt = k, !.pc = "start", !.whole = TRUE]
      BY <2>1, <3>1 DEF Process!AttemptFails
    <3> QED
      BY <1>1, <1>2, <3>1, <3>2, <3>3 DEF ProcessorNodes
  <2>2. CASE ~(node.attempt < NodeRetries)
    <3>1. node' = [node EXCEPT !.pc = "failed"]
      BY <2>2 DEF Process!AttemptFails
    <3> QED
      BY <1>1, <1>2, <3>1 DEF ProcessorNodes
  <2> QED
    BY <2>1, <2>2
<1>4. Process!Groups' = Process!Groups
  BY <1>3, SameNode
<1>5. ASSUME NEW t \in Process!Tasks, Unborn(t)' PROVE task'[t] = "none"
  <2>1. t[1] \in Nat
    BY DEF Process!Tasks, Process!Tries, ProcessorConstants
  <2>2. t[1] > node.attempt
    BY <1>2, <1>3, <1>5, <2>1 DEF Unborn
  <2> QED
    BY <1>1, <2>2 DEF Unborn
<1>6. ASSUME NEW g \in Process!Slots, g \notin 1..Len(Process!Groups')
      PROVE  task'[<<node'.attempt, g>>] = "none"
  <2>1. CASE node'.pc = "failed"
    BY <1>2, <1>3, <1>4, <1>6, <2>1
  <2>2. CASE node'.pc = "start"
    <3>1. <<a, g>> \in Process!Tasks /\ <<a, g>>[1] = a
      BY <1>3 DEF Process!Tasks, Process!Tries
    <3>2. Unborn(<<a, g>>)'
      BY <1>2, <2>2, <3>1 DEF Unborn
    <3> QED
      BY <1>2, <1>5, <3>1, <3>2
  <2> QED
    BY <1>3, <2>1, <2>2
<1>7. \A g \in Process!Slots : PlaceInv(g)'
  BY <1>3 DEF PlaceInv
<1>8. OutInv'
  BY <1>3 DEF OutInv
<1>9. node'.kind = "simple_rules" => \A t \in Process!Tasks : task'[t] # "llm"
  BY <1>3
<1> QED
  BY <1>3, <1>5, <1>6, <1>7, <1>8, <1>9 DEF ProcessorInv

\* One task of some attempt moves on.  Heard, it puts what became of its group in
\* that group's place; unheard, it changes nothing of the current attempt.
LEMMA TaskMoves ==
  ASSUME ProcessorConstants, ProcessorInv,
         NEW t \in Process!Tasks, task[t] \in {"queued", "llm"},
         NEW s \in {"llm", "done", "dead"}, task' = [task EXCEPT ![t] = s],
         s = "llm" => node.kind # "simple_rules",
         node' \in ProcessorNodes, node'.kind = node.kind, node'.mode = node.mode,
         node'.input = node.input, node'.attempt = node.attempt, node'.pc = node.pc,
         node'.whole => node.whole,
         result' = [g \in Process!Slots |-> result'[g]],
         \A g \in Process!Slots : result'[g] = result[g] \/ (Process!Heard(t) /\ g = t[2]),
         node.kind \notin Process!Plain /\ Process!Heard(t) /\ s = "done"
           => Process!Outcome(t[2])',
         out' = out, spent' \in Nat, mishaps' \in 0..CallFaults
  PROVE  ProcessorInv'
<1>1. /\ task \in [Process!Tasks -> TaskStates] /\ node \in ProcessorNodes
      /\ result = [g \in Process!Slots |-> result[g]]
      /\ \A u \in Process!Tasks : Unborn(u) => task[u] = "none"
      /\ \A g \in Process!Slots :
           g \notin 1..Len(Process!Groups) => task[<<node.attempt, g>>] = "none"
      /\ node.kind = "simple_rules" => \A u \in Process!Tasks : task[u] # "llm"
      /\ \A g \in Process!Slots : PlaceInv(g)
      /\ OutInv
  BY DEF ProcessorInv
<1>2. /\ t = <<t[1], t[2]>> /\ t[1] \in Process!Tries /\ t[2] \in Process!Slots
      /\ \A g \in Process!Slots : <<node.attempt, g>> \in Process!Tasks
  BY <1>1 DEF Process!Tasks, Process!Tries, ProcessorNodes
<1>3. task' \in [Process!Tasks -> TaskStates]
  BY <1>1 DEF TaskStates
<1>4. /\ task'[t] = s
      /\ \A u \in Process!Tasks : u # t => task'[u] = task[u]
      /\ \A u \in Process!Tasks : task[u] \notin {"queued", "llm"} => task'[u] = task[u]
  BY <1>1
<1>5. /\ Process!Groups' = Process!Groups
      /\ \A q : Process!Finished(q)' = Process!Finished(q)
  BY SameNode
<1>6. ASSUME NEW u \in Process!Tasks, Unborn(u)' PROVE task'[u] = "none"
  <2>1. task[u] = "none"
    BY <1>1, <1>6 DEF Unborn
  <2> QED
    BY <1>4, <2>1
<1>7. ASSUME NEW g \in Process!Slots, g \notin 1..Len(Process!Groups')
      PROVE  task'[<<node'.attempt, g>>] = "none"
  <2>1. task[<<node.attempt, g>>] = "none"
    BY <1>1, <1>5, <1>7
  <2> QED
    BY <1>2, <1>4, <2>1
<1>8. node'.kind = "simple_rules" => \A u \in Process!Tasks : task'[u] # "llm"
  BY <1>1, <1>4
<1>9. node.kind \notin Process!Plain /\ node.pc = "completed" => t[1] # node.attempt
  <2> SUFFICES ASSUME node.kind \notin Process!Plain, node.pc = "completed",
                      t[1] = node.attempt
               PROVE  FALSE
    OBVIOUS
  <2>1. task[<<node.attempt, t[2]>>] \in {"none", "done"}
    BY <1>1, <1>2 DEF OutInv
  <2>2. <<node.attempt, t[2]>> = t
    BY <1>2
  <2> QED
    BY <2>1, <2>2
<1>10. ASSUME NEW g \in Process!Slots PROVE PlaceInv(g)'
  <2> SUFFICES ASSUME node.kind \notin Process!Plain, node.pc \in {"gather", "completed"},
                      task'[<<node.attempt, g>>] = "done"
               PROVE  Process!Outcome(g)'
    BY DEF PlaceInv, Process!Plain
  <2>1. CASE <<node.attempt, g>> = t
    <3>1. /\ t[1] = node.attempt /\ t[2] = g /\ s = "done"
      BY <1>4, <2>1
    <3>2. Process!Heard(t)
      BY <1>9, <3>1 DEF Process!Heard
    <3> QED
      BY <3>1, <3>2
  <2>2. CASE <<node.attempt, g>> # t
    <3>1. task[<<node.attempt, g>>] = "done"
      BY <1>2, <1>4, <2>2
    <3>2. Process!Outcome(g)
      BY <1>1, <3>1 DEF PlaceInv
    <3>3. ~(t[1] = node.attempt /\ g = t[2])
      BY <1>2, <2>2
    <3>4. result'[g] = result[g]
      BY <3>3 DEF Process!Heard
    <3> QED
      BY <3>2, <3>4, OutcomeStays
  <2> QED
    BY <2>1, <2>2
<1>11. OutInv'
  <2> SUFFICES ASSUME node.kind \notin Process!Plain, node.pc = "completed" PROVE OutInv'
    BY DEF OutInv, Process!Plain
  <2>1. \A g \in Process!Slots : result'[g] = result[g]
    BY <1>9 DEF Process!Heard
  <2>2. result' = result
    BY <1>1, <2>1
  <2>3. \A g \in Process!Slots :
          task'[<<node.attempt, g>>] = task[<<node.attempt, g>>]
    BY <1>2, <1>4, <1>9
  <2>4. ASSUME NEW g \in 1..Len(Process!Groups) PROVE task'[<<node.attempt, g>>] = "done"
    <3>1. task[<<node.attempt, g>>] = "done"
      BY <1>1 DEF OutInv
    <3>2. CASE g \in Process!Slots
      BY <2>3, <3>1, <3>2
    <3>3. CASE g \notin Process!Slots
      <4>1. <<node.attempt, g>> # t
        BY <1>2, <3>3
      <4> QED
        BY <1>4, <3>1, <4>1
    <3> QED
      BY <3>2, <3>3
  <2>5. PICK q : q = Process!FlattenSeq(SubSeq(result, 1, Len(Process!Groups)))
    OBVIOUS
  <2>6. q = Process!FlattenSeq(SubSeq(result, 1, Len(Process!Groups)))'
    BY <1>5, <2>2, <2>5
  <2>7. out = Process!Finished(q)
    BY <1>1, <2>5 DEF OutInv
  <2>8. out' = Process!Finished(q)'
    BY <2>7 DEF Process!Finished
  <2>9. out' = Process!Finished(Process!FlattenSeq(SubSeq(result, 1, Len(Process!Groups))))'
    BY <2>6, <2>8 DEF Process!Finished
  <2> QED
    BY <1>1, <1>5, <2>2, <2>3, <2>4, <2>9 DEF OutInv
<1> QED
  BY <1>3, <1>6, <1>7, <1>8, <1>10, <1>11 DEF ProcessorInv

\* A group raises: the attempt is over, or nobody hears it.
LEMMA GroupDies ==
  ASSUME ProcessorConstants, ProcessorInv,
         NEW t \in Process!Tasks, task[t] \in {"queued", "llm"}, Process!GroupRaises(t),
         result' = result, out' = out, spent' \in Nat, mishaps' \in 0..CallFaults
  PROVE  ProcessorInv'
<1>1. /\ task \in [Process!Tasks -> TaskStates] /\ node \in ProcessorNodes
      /\ result = [g \in Process!Slots |-> result[g]]
      /\ \A g \in Process!Slots :
           g \notin 1..Len(Process!Groups) => task[<<node.attempt, g>>] = "none"
      /\ node.kind = "simple_rules" => \A u \in Process!Tasks : task[u] # "llm"
  BY DEF ProcessorInv
<1>2. task' = [task EXCEPT ![t] = "dead"]
  BY DEF Process!GroupRaises
<1>3. CASE Process!Heard(t)
  <2>1. Process!AttemptFails /\ t[1] = node.attempt /\ node.pc = "gather"
    BY <1>3 DEF Process!GroupRaises, Process!Heard
  <2>2. task' \in [Process!Tasks -> TaskStates]
    BY <1>1, <1>2 DEF TaskStates
  <2>3. \A u \in Process!Tasks : u[1] > node.attempt => task'[u] = task[u]
    <3> SUFFICES ASSUME NEW u \in Process!Tasks, u[1] > node.attempt PROVE u # t
      BY <1>1, <1>2
    <3> QED
      BY <1>1, <2>1 DEF ProcessorNodes, ProcessorConstants
  <2>4. \A g \in Process!Slots :
          g \notin 1..Len(Process!Groups) => task'[<<node.attempt, g>>] = "none"
    <3> SUFFICES ASSUME NEW g \in Process!Slots, g \notin 1..Len(Process!Groups)
                 PROVE  task'[<<node.attempt, g>>] = "none"
      OBVIOUS
    <3>1. task[<<node.attempt, g>>] = "none"
      BY <1>1
    <3>2. <<node.attempt, g>> # t /\ <<node.attempt, g>> \in Process!Tasks
      BY <1>1, <3>1 DEF ProcessorNodes, Process!Tasks, Process!Tries
    <3> QED
      BY <1>1, <1>2, <3>1, <3>2
  <2>5. node.kind = "simple_rules" => \A u \in Process!Tasks : task'[u] # "llm"
    BY <1>1, <1>2
  <2>6. result' = [g \in Process!Slots |-> result'[g]]
    BY <1>1
  <2> QED
    BY <2>1, <2>2, <2>3, <2>4, <2>5, <2>6, AttemptEnds
<1>4. CASE ~Process!Heard(t)
  <2>1. node' = node
    BY <1>4 DEF Process!GroupRaises
  <2>2. result' = [g \in Process!Slots |-> result'[g]]
    BY <1>1
  <2>3. PICK s \in {"llm", "done", "dead"} : s = "dead"
    OBVIOUS
  <2>4. \A g \in Process!Slots : result'[g] = result[g] \/ (Process!Heard(t) /\ g = t[2])
    OBVIOUS
  <2> QED
    BY <1>1, <1>2, <1>4, <2>1, <2>2, <2>3, <2>4, TaskMoves
<1> QED
  BY <1>3, <1>4

\* Past the semaphore.
LEMMA EnterKeeps ==
  ASSUME ProcessorConstants, ProcessorInv, NEW t \in Process!Tasks, Process!Enter(t)
  PROVE  ProcessorInv'
<1>1. /\ node \in ProcessorNodes /\ result = [g \in Process!Slots |-> result[g]]
      /\ spent \in Nat /\ mishaps \in 0..CallFaults
  BY DEF ProcessorInv
<1>2. task[t] \in {"queued", "llm"} /\ out' = out
  BY DEF Process!Enter
<1>3. CASE /\ node.kind = "simple_rules"
           /\ task' = [task EXCEPT ![t] = "done"]
           /\ result' = IF Process!Heard(t)
                THEN [result EXCEPT ![t[2]] =
                        Process!Processed(Process!Groups[t[2]],
                          Process!Deterministic(Process!Groups[t[2]]), t[1])]
                ELSE result
           /\ UNCHANGED <<node, spent, mishaps>>
  <2>1. node' = node /\ spent' = spent /\ mishaps' = mishaps
    BY <1>3
  <2>2. t[2] \in Process!Slots
    BY DEF Process!Tasks
  <2>3. /\ result' = [g \in Process!Slots |-> result'[g]]
        /\ \A g \in Process!Slots : result'[g] = result[g] \/ (Process!Heard(t) /\ g = t[2])
    BY <1>1, <1>3, <2>2
  <2>4. Process!Heard(t) => Process!Outcome(t[2])'
    <3> SUFFICES ASSUME Process!Heard(t) PROVE Process!Outcome(t[2])'
      OBVIOUS
    <3>1. PICK p : p = Process!Processed(Process!Groups[t[2]],
                         Process!Deterministic(Process!Groups[t[2]]), node.attempt)
      OBVIOUS
    <3>2. result'[t[2]] = p
      BY <1>1, <1>3, <2>2, <3>1 DEF Process!Heard
    <3>3. p = Process!Processed(Process!Groups[t[2]],
                Process!Deterministic(Process!Groups[t[2]]), node.attempt)'
      BY <2>1, <3>1 DEF Process!Processed, Process!Groups
    <3> QED
      BY <1>3, <2>1, <3>2, <3>3 DEF Process!Outcome
  <2>5. PICK s \in {"llm", "done", "dead"} : s = "done"
    OBVIOUS
  <2> QED
    BY <1>1, <1>2, <1>3, <2>1, <2>3, <2>4, <2>5, TaskMoves
<1>4. CASE Process!Fault /\ Process!GroupRaises(t) /\ UNCHANGED <<result, spent>>
  <2>1. result' = result /\ spent' = spent
    BY <1>4
  <2>2. mishaps' \in 0..CallFaults
    BY <1>1, <1>4 DEF Process!Fault, ProcessorConstants
  <2> QED
    BY <1>1, <1>2, <1>4, <2>1, <2>2, GroupDies
<1>5. CASE /\ node.kind # "simple_rules" /\ spent' = spent + 1
           /\ IF spent' > Budget THEN Process!GroupRaises(t)
              ELSE task' = [task EXCEPT ![t] = "llm"] /\ UNCHANGED node
           /\ UNCHANGED <<result, mishaps>>
  <2>1. result' = result /\ mishaps' = mishaps /\ spent' \in Nat
    BY <1>1, <1>5
  <2>2. CASE Process!GroupRaises(t)
    BY <1>1, <1>2, <2>1, <2>2, GroupDies
  <2>3. CASE task' = [task EXCEPT ![t] = "llm"] /\ UNCHANGED node
    <3>1. node' = node
      BY <2>3
    <3>2. result' = [g \in Process!Slots |-> result'[g]]
      BY <1>1, <2>1
    <3>3. PICK s \in {"llm", "done", "dead"} : s = "llm"
      OBVIOUS
    <3>4. \A g \in Process!Slots : result'[g] = result[g] \/ (Process!Heard(t) /\ g = t[2])
      BY <2>1
    <3> QED
      BY <1>1, <1>2, <1>5, <2>1, <2>3, <3>1, <3>2, <3>3, <3>4, TaskMoves
  <2> QED
    BY <1>5, <2>2, <2>3
<1> QED
  BY <1>3, <1>4, <1>5 DEF Process!Enter

\* The model answers: the answer of a group that is heard goes to its own place.
LEMMA ReplyKeeps ==
  ASSUME ProcessorConstants, ProcessorInv, NEW t \in Process!Tasks, Process!Reply(t)
  PROVE  ProcessorInv'
<1>1. /\ node \in ProcessorNodes /\ result = [g \in Process!Slots |-> result[g]]
      /\ spent \in Nat /\ mishaps \in 0..CallFaults
      /\ node.kind = "simple_rules" => task[t] # "llm"
  BY DEF ProcessorInv
<1>2. task[t] = "llm"
  BY DEF Process!Reply
<1>3. PICK reply \in Process!Replies(Process!Groups[t[2]]) :
        /\ task' = [task EXCEPT ![t] = "done"]
        /\ result' = IF Process!Heard(t)
                     THEN [result EXCEPT ![t[2]] =
                             Process!Processed(Process!Groups[t[2]], reply, t[1])]
                     ELSE result
        /\ node' = IF Process!Heard(t)
                   THEN [node EXCEPT !.whole = @ /\ Process!Complete(Process!Groups[t[2]], reply)]
                   ELSE node
  BY DEF Process!Reply, Process!PlaceOf
<1>4. out' = out /\ spent' = spent /\ mishaps' = mishaps
  BY DEF Process!Reply
<1>5. t[2] \in Process!Slots
  BY DEF Process!Tasks
<1>6. PICK w \in BOOLEAN : w = (node.whole /\ Process!Complete(Process!Groups[t[2]], reply))
  OBVIOUS
<1>7. node' = IF Process!Heard(t) THEN [node EXCEPT !.whole = w] ELSE node
  BY <1>3, <1>6
<1>8. /\ node' \in ProcessorNodes /\ node'.kind = node.kind /\ node'.mode = node.mode
      /\ node'.input = node.input /\ node'.attempt = node.attempt /\ node'.pc = node.pc
      /\ node'.whole = IF Process!Heard(t) THEN w ELSE node.whole
  BY <1>1, <1>6, <1>7 DEF ProcessorNodes
<1>9. node'.whole => node.whole
  BY <1>6, <1>8
<1>10. /\ result' = [g \in Process!Slots |-> result'[g]]
       /\ \A g \in Process!Slots : result'[g] = result[g] \/ (Process!Heard(t) /\ g = t[2])
  BY <1>1, <1>3, <1>5
<1>11. Process!Heard(t) => Process!Outcome(t[2])'
  <2> SUFFICES ASSUME Process!Heard(t) PROVE Process!Outcome(t[2])'
    OBVIOUS
  <2>1. /\ Process!Groups' = Process!Groups
        /\ \A group, answer, try :
             Process!Processed(group, answer, try)' = Process!Processed(group, answer, try)
    BY <1>8, SameNode
  <2>2. PICK p : p = Process!Processed(Process!Groups[t[2]], reply, node.attempt)
    OBVIOUS
  <2>3. result'[t[2]] = p
    BY <1>1, <1>3, <1>5, <2>2 DEF Process!Heard
  <2>4. p = Process!Processed(Process!Groups[t[2]], reply, node.attempt)'
    BY <1>8, <2>1, <2>2
  <2>5. node.kind # "simple_rules"
    BY <1>1, <1>2
  <2>6. node'.whole => Process!Complete(Process!Groups[t[2]], reply)
    BY <1>6, <1>8
  <2>7. reply \in Process!Replies(Process!Groups'[t[2]])
    BY <2>1
  <2> QED
    BY <1>8, <2>1, <2>3, <2>4, <2>5, <2>6, <2>7 DEF Process!Outcome
<1>12. PICK s \in {"llm", "done", "dead"} : s = "done"
  OBVIOUS
<1> QED
  BY <1>1, <1>2, <1>3, <1>4, <1>8, <1>9, <1>10, <1>11, <1>12, TaskMoves

LEMMA CallFailsKeeps ==
  ASSUME ProcessorConstants, ProcessorInv, NEW t \in Process!Tasks, Process!CallFails(t)
  PROVE  ProcessorInv'
<1>1. mishaps' \in 0..CallFaults /\ spent' \in Nat
  BY DEF Process!CallFails, Process!Fault, ProcessorInv, ProcessorConstants
<1>2. /\ task[t] \in {"queued", "llm"} /\ Process!GroupRaises(t)
      /\ result' = result /\ out' = out
  BY DEF Process!CallFails
<1> QED
  BY <1>1, <1>2, GroupDies

\* The cap on the fan-out, or one task for every group.
LEMMA SpreadKeeps ==
  ASSUME ProcessorConstants, ProcessorInv, Process!Spread
  PROVE  ProcessorInv'
<1>1. /\ task \in [Process!Tasks -> TaskStates] /\ node \in ProcessorNodes
      /\ result = [g \in Process!Slots |-> result[g]]
      /\ spent \in Nat /\ mishaps \in 0..CallFaults
      /\ \A u \in Process!Tasks : Unborn(u) => task[u] = "none"
      /\ \A g \in Process!Slots :
           g \notin 1..Len(Process!Groups) => task[<<node.attempt, g>>] = "none"
      /\ node.kind = "simple_rules" => \A u \in Process!Tasks : task[u] # "llm"
  BY DEF ProcessorInv
<1>2. node.pc = "start" /\ out' = out /\ spent' = spent /\ mishaps' = mishaps
  BY DEF Process!Spread
<1>3. CASE Process!AttemptFails /\ UNCHANGED <<task, result>>
  <2>1. task' = task /\ result' = result
    BY <1>3
  <2> QED
    BY <1>1, <1>2, <1>3, <2>1, AttemptEnds
<1>4. CASE /\ node' = [node EXCEPT !.pc = "gather"]
           /\ task' = [t \in Process!Tasks |->
                IF t[1] = node.attempt /\ t[2] <= Len(Process!Groups) THEN "queued"
                ELSE task[t]]
           /\ result' = [g \in Process!Slots |-> <<>>]
  <2>1. /\ node' \in ProcessorNodes /\ node'.pc = "gather" /\ node'.attempt = node.attempt
        /\ node'.kind = node.kind /\ node'.mode = node.mode /\ node'.input = node.input
    BY <1>1, <1>4 DEF ProcessorNodes
  <2>2. task' \in [Process!Tasks -> TaskStates]
    BY <1>1, <1>4 DEF TaskStates
  <2>3. Process!Groups' = Process!Groups
    BY <2>1, SameNode
  <2>4. \A t \in Process!Tasks : Unborn(t)' => task'[t] = "none"
    <3> SUFFICES ASSUME NEW t \in Process!Tasks, Unborn(t)' PROVE task'[t] = "none"
      OBVIOUS
    <3>1. t[1] > node.attempt
      BY <2>1 DEF Unborn
    <3>2. t[1] # node.attempt /\ Unborn(t)
      BY <1>1, <3>1 DEF Unborn, ProcessorNodes, ProcessorConstants
    <3> QED
      BY <1>1, <1>4, <3>2
  <2>5. ASSUME NEW g \in Process!Slots
        PROVE  /\ <<node.attempt, g>> \in Process!Tasks
               /\ task'[<<node.attempt, g>>] \in {"none", "queued"}
               /\ g \notin 1..Len(Process!Groups) => task'[<<node.attempt, g>>] = "none"
    <3>1. PICK a : a = node.attempt
      OBVIOUS
    <3>2. <<a, g>> \in Process!Tasks /\ <<a, g>>[1] = a /\ <<a, g>>[2] = g
      BY <1>1, <3>1 DEF Process!Tasks, Process!Tries, ProcessorNodes
    <3>3. task[<<a, g>>] = "none"
      BY <1>1, <1>2, <3>1, <3>2 DEF Unborn
    <3>4. task'[<<a, g>>] = IF g <= Len(Process!Groups) THEN "queued" ELSE "none"
      BY <1>4, <3>1, <3>2, <3>3
    <3>5. Len(Process!Groups) \in Nat
      BY <1>1, GroupsCount
    <3>6. g \in Int /\ 1 <= g
      BY DEF Process!Slots, ProcessorConstants
    <3> QED
      BY <3>1, <3>2, <3>4, <3>5, <3>6
  <2>6. \A g \in Process!Slots : PlaceInv(g)'
    BY <2>1, <2>5 DEF PlaceInv
  <2>7. OutInv'
    BY <2>1 DEF OutInv
  <2>8. node'.kind = "simple_rules" => \A t \in Process!Tasks : task'[t] # "llm"
    BY <1>1, <1>4, <2>1
  <2>9. result' = [g \in Process!Slots |-> result'[g]]
    BY <1>4
  <2> QED
    BY <1>1, <1>2, <2>1, <2>2, <2>3, <2>4, <2>5, <2>6, <2>7, <2>8, <2>9 DEF ProcessorInv
<1> QED
  BY <1>3, <1>4 DEF Process!Spread

LEMMA ComputeKeeps ==
  ASSUME ProcessorConstants, ProcessorInv, Process!Compute
  PROVE  ProcessorInv'
<1>1. node \in ProcessorNodes /\ node.pc = "start" /\ node.kind \in Process!Plain
  BY DEF Process!Compute, ProcessorInv
<1>2. /\ node' = [node EXCEPT !.pc = "completed"]
      /\ task' = task /\ result' = result /\ spent' = spent /\ mishaps' = mishaps
  BY DEF Process!Compute
<1>3. /\ node' \in ProcessorNodes /\ node'.pc = "completed" /\ node'.attempt = node.attempt
      /\ node'.kind = node.kind /\ node'.mode = node.mode /\ node'.input = node.input
  BY <1>1, <1>2 DEF ProcessorNodes
<1>4. Process!Groups' = Process!Groups
  BY <1>3, SameNode
<1>5. \A t \in Process!Tasks : Unborn(t)' => task'[t] = "none"
  BY <1>2, <1>3 DEF Unborn, ProcessorInv
<1>6. (\A g \in Process!Slots : PlaceInv(g)') /\ OutInv'
  BY <1>1, <1>3 DEF PlaceInv, OutInv, Process!Plain
<1> QED
  BY <1>2, <1>3, <1>4, <1>5, <1>6 DEF ProcessorInv

\* Every group is done: the output is made of what gather holds.
LEMMA GatherKeeps ==
  ASSUME ProcessorConstants, ProcessorInv, Process!Gather
  PROVE  ProcessorInv'
<1>1. /\ node \in ProcessorNodes /\ node.pc = "gather"
      /\ task \in [Process!Tasks -> TaskStates]
      /\ result = [g \in Process!Slots |-> result[g]]
      /\ spent \in Nat /\ mishaps \in 0..CallFaults
      /\ \A u \in Process!Tasks : Unborn(u) => task[u] = "none"
      /\ \A g \in Process!Slots :
           g \notin 1..Len(Process!Groups) => task[<<node.attempt, g>>] = "none"
      /\ node.kind = "simple_rules" => \A u \in Process!Tasks : task[u] # "llm"
      /\ \A g \in Process!Slots : PlaceInv(g)
  BY DEF Process!Gather, ProcessorInv
<1>2. /\ node' = [node EXCEPT !.pc = "completed"]
      /\ task' = task /\ result' = result /\ spent' = spent /\ mishaps' = mishaps
      /\ \A g \in 1..Len(Process!Groups) : task[<<node.attempt, g>>] = "done"
      /\ out' = Process!Finished(Process!FlattenSeq(SubSeq(result, 1, Len(Process!Groups))))
  BY DEF Process!Gather
<1>3. /\ node' \in ProcessorNodes /\ node'.pc = "completed" /\ node'.attempt = node.attempt
      /\ node'.kind = node.kind /\ node'.mode = node.mode /\ node'.input = node.input
      /\ node'.whole = node.whole
  BY <1>1, <1>2 DEF ProcessorNodes
<1>4. Process!Groups' = Process!Groups
  BY <1>3, SameNode
<1>5. \A t \in Process!Tasks : Unborn(t)' => task'[t] = "none"
  BY <1>1, <1>2, <1>3 DEF Unborn
<1>6. ASSUME NEW g \in Process!Slots PROVE PlaceInv(g)'
  <2> SUFFICES ASSUME node.kind \notin Process!Plain, task[<<node.attempt, g>>] = "done"
               PROVE  Process!Outcome(g)'
    BY <1>2, <1>3 DEF PlaceInv, Process!Plain
  <2>1. Process!Outcome(g)
    BY <1>1 DEF PlaceInv
  <2> QED
    BY <1>2, <1>3, <2>1, OutcomeStays
<1>7. OutInv'
  <2>1. PICK q : q = Process!FlattenSeq(SubSeq(result, 1, Len(Process!Groups)))
    OBVIOUS
  <2>2. q = Process!FlattenSeq(SubSeq(result, 1, Len(Process!Groups)))'
    BY <1>2, <1>4, <2>1
  <2>3. out' = Process!Finished(q)'
    BY <1>2, <1>3, <2>1 DEF Process!Finished
  <2>4. out' = Process!Finished(Process!FlattenSeq(SubSeq(result, 1, Len(Process!Groups))))'
    BY <2>2, <2>3 DEF Process!Finished
  <2>5. \A g \in Process!Slots : task[<<node.attempt, g>>] \in {"none", "done"}
    BY <1>1, <1>2
  <2> QED
    BY <1>2, <1>3, <1>4, <2>4, <2>5 DEF OutInv
<1> QED
  BY <1>1, <1>2, <1>3, <1>4, <1>5, <1>6, <1>7 DEF ProcessorInv

\* The node's timeout: its own tasks are gone, those of the attempts before go on.
LEMMA NodeTimeoutKeeps ==
  ASSUME ProcessorConstants, ProcessorInv, Process!NodeTimeout
  PROVE  ProcessorInv'
<1>1. /\ node \in ProcessorNodes /\ task \in [Process!Tasks -> TaskStates]
      /\ result = [g \in Process!Slots |-> result[g]]
      /\ spent \in Nat /\ mishaps \in 0..CallFaults
      /\ \A u \in Process!Tasks : Unborn(u) => task[u] = "none"
      /\ \A g \in Process!Slots :
           g \notin 1..Len(Process!Groups) => task[<<node.attempt, g>>] = "none"
      /\ node.kind = "simple_rules" => \A u \in Process!Tasks : task[u] # "llm"
  BY DEF ProcessorInv
<1>2. /\ node' = [node EXCEPT !.pc = "failed"]
      /\ task' = [t \in Process!Tasks |->
           IF t[1] = node.attempt /\ task[t] # "none" THEN "dead" ELSE task[t]]
      /\ result' = result /\ spent' = spent
  BY DEF Process!NodeTimeout
<1>3. mishaps' \in 0..CallFaults
  BY <1>1 DEF Process!NodeTimeout, Process!Fault, ProcessorConstants
<1>4. /\ node' \in ProcessorNodes /\ node'.pc = "failed" /\ node'.attempt = node.attempt
      /\ node'.kind = node.kind /\ node'.mode = node.mode /\ node'.input = node.input
  BY <1>1, <1>2 DEF ProcessorNodes
<1>5. Process!Groups' = Process!Groups
  BY <1>4, SameNode
<1>6. /\ task' \in [Process!Tasks -> TaskStates]
      /\ \A t \in Process!Tasks : task[t] = "none" => task'[t] = "none"
      /\ \A t \in Process!Tasks : task'[t] = "llm" => task[t] = "llm"
  BY <1>1, <1>2 DEF TaskStates
<1>7. \A t \in Process!Tasks : Unborn(t)' => task'[t] = "none"
  BY <1>1, <1>4, <1>6 DEF Unborn
<1>8. \A g \in Process!Slots : <<node.attempt, g>> \in Process!Tasks
  BY <1>1 DEF ProcessorNodes, Process!Tasks, Process!Tries
<1>9. \A g \in Process!Slots :
        g \notin 1..Len(Process!Groups') => task'[<<node'.attempt, g>>] = "none"
  BY <1>1, <1>4, <1>5, <1>6, <1>8
<1>10. (\A g \in Process!Slots : PlaceInv(g)') /\ OutInv'
  BY <1>4 DEF PlaceInv, OutInv
<1> QED
  BY <1>1, <1>2, <1>3, <1>4, <1>6, <1>7, <1>9, <1>10 DEF ProcessorInv

LEMMA ProcessorStutter ==
  ASSUME ProcessorInv, UNCHANGED Process!procVars
  PROVE  ProcessorInv'
<1>1. /\ node' = node /\ task' = task /\ result' = result /\ out' = out
      /\ spent' = spent /\ mishaps' = mishaps
  BY DEF Process!procVars
<1>2. /\ Process!Groups' = Process!Groups
      /\ \A group, reply, try :
           Process!Processed(group, reply, try)' = Process!Processed(group, reply, try)
      /\ \A s : Process!Finished(s)' = Process!Finished(s)
  BY <1>1, SameNode
<1>3. \A g \in Process!Slots : PlaceInv(g)'
  <2> SUFFICES ASSUME NEW g \in Process!Slots, PlaceInv(g) PROVE PlaceInv(g)'
    BY DEF ProcessorInv
  <2>1. Process!Outcome(g) => Process!Outcome(g)'
    BY <1>1, OutcomeStays
  <2> QED
    BY <1>1, <2>1 DEF PlaceInv, Process!Plain
<1>4. OutInv'
  <2>1. PICK q : q = Process!FlattenSeq(SubSeq(result, 1, Len(Process!Groups)))
    OBVIOUS
  <2>2. q = Process!FlattenSeq(SubSeq(result, 1, Len(Process!Groups)))'
    BY <1>1, <1>2, <2>1
  <2>3. Process!Finished(Process!FlattenSeq(SubSeq(result, 1, Len(Process!Groups))))'
          = Process!Finished(q)'
    BY <2>2 DEF Process!Finished
  <2>4. Process!Finished(q)' = Process!Finished(q)
    BY <1>1 DEF Process!Finished
  <2> QED
    BY <1>1, <1>2, <2>1, <2>3, <2>4 DEF OutInv, ProcessorInv, Process!Plain
<1>5. \A t \in Process!Tasks : Unborn(t)' => task'[t] = "none"
  BY <1>1 DEF Unborn, ProcessorInv
<1> QED
  BY <1>1, <1>2, <1>3, <1>4, <1>5 DEF ProcessorInv

LEMMA ProcessorInit ==
  ASSUME ProcessorConstants, Process!Init
  PROVE  ProcessorInv
<1>1. /\ node \in ProcessorNodes /\ node.attempt = 0 /\ node.pc = "start"
      /\ task = [t \in Process!Tasks |-> "none"]
      /\ result = [g \in Process!Slots |-> <<>>] /\ spent = 0 /\ mishaps = 0
  <2>1. node \in [kind : Processing, mode : Modes, input : Inputs, attempt : {0}, pc : {"start"},
                  whole : {TRUE}]
    BY DEF Process!Init
  <2>2. 0 \in 0..NodeRetries
    BY DEF ProcessorConstants
  <2>3. node.attempt = 0 /\ node.pc = "start"
    BY <2>1
  <2>4. node \in ProcessorNodes
    BY <2>1, <2>2 DEF ProcessorNodes
  <2> QED
    BY <2>3, <2>4 DEF Process!Init
<1>2. \A g \in Process!Slots : <<node.attempt, g>> \in Process!Tasks
  BY <1>1 DEF Process!Tasks, Process!Tries, ProcessorConstants
<1>3. task \in [Process!Tasks -> TaskStates]
  BY <1>1 DEF TaskStates
<1>4. (\A g \in Process!Slots : PlaceInv(g)) /\ OutInv
  BY <1>1 DEF PlaceInv, OutInv
<1>5. /\ result = [g \in Process!Slots |-> result[g]]
      /\ spent \in Nat /\ mishaps \in 0..CallFaults
  BY <1>1 DEF ProcessorConstants
<1> QED
  BY <1>1, <1>2, <1>3, <1>4, <1>5 DEF ProcessorInv

LEMMA ProcessorNext ==
  ASSUME ProcessorConstants, ProcessorInv, [Process!Next]_(Process!procVars)
  PROVE  ProcessorInv'
<1>1. CASE Process!Compute
  BY <1>1, ComputeKeeps
<1>2. CASE Process!Spread
  BY <1>2, SpreadKeeps
<1>3. CASE Process!Gather
  BY <1>3, GatherKeeps
<1>4. CASE Process!NodeTimeout
  BY <1>4, NodeTimeoutKeeps
<1>5. ASSUME NEW t \in Process!Tasks, Process!Enter(t) \/ Process!Reply(t) \/ Process!CallFails(t)
      PROVE  ProcessorInv'
  BY <1>5, EnterKeeps, ReplyKeeps, CallFailsKeeps
<1>6. CASE UNCHANGED Process!procVars
  BY <1>6, ProcessorStutter
<1> QED
  BY <1>1, <1>2, <1>3, <1>4, <1>5, <1>6 DEF Process!Next

\* What the places of the groups say of the output.
LEMMA PlacesFacts ==
  ASSUME ProcessorInv
  PROVE  Process!TypeOK /\ Process!PlacesKept
<1>1. Process!TypeOK
  <2>1. Process!Tries = 0..NodeRetries
    BY DEF Process!Tries
  <2> QED
    BY <2>1 DEF ProcessorInv, ProcessorNodes, TaskStates, Process!TypeOK
<1>2. Process!PlacesKept
  BY DEF ProcessorInv, PlaceInv, OutInv, Process!PlacesKept, Process!Done
<1> QED
  BY <1>1, <1>2

\* Processors (_run_per_item and BaseNode.run): what gather holds of a group that
\* is done is what became of that group in this attempt, and the output of a
\* completed node is made of all its groups, in their places; a group that an
\* earlier attempt left running puts nothing there.
THEOREM ProcessorPlacesTheorem ==
  ASSUME ProcessorConstants
  PROVE  Process!Spec => [](Process!TypeOK /\ Process!PlacesKept)
<1>1. Process!Init => ProcessorInv
  BY ProcessorInit
<1>2. ProcessorInv /\ [Process!Next]_(Process!procVars) => ProcessorInv'
  BY ProcessorNext
<1>3. ProcessorInv => Process!TypeOK /\ Process!PlacesKept
  BY PlacesFacts
<1> QED
  BY <1>1, <1>2, <1>3, PTL DEF Process!Spec

-----------------------------------------------------------------------------
\* A nonempty set of naturals has a least element.
LEMMA Least ==
  ASSUME NEW S, S \subseteq Nat, S # {}
  PROVE \E n \in S : \A m \in S : n <= m
<1>1. PICK R : R = {ss \in Nat \X Nat : ss[1] < ss[2]}
  OBVIOUS
<1>2. IsWellFoundedOn({ss \in Nat \X Nat : ss[1] < ss[2]}, Nat)
  BY NatLessThanWellFounded DEF OpToRel
<1>3. IsWellFoundedOn(R, Nat)
  BY <1>1, <1>2
<1>4. \E x \in S : \A y \in S : ~(<<y, x>> \in R)
  BY <1>3, WFMin
<1>5. \A x, y \in S : <<y, x>> \in R <=> y < x
  BY <1>1
<1>6. \A x, y \in S : y < x \/ x <= y
  OBVIOUS
<1> QED
  BY <1>4, <1>5, <1>6

\* Induction up to n, for a set of numbers.
LEMMA Climb ==
  ASSUME NEW n \in Nat, NEW S, 0 \in S, \A k \in 0..n : k \in S /\ k < n => k + 1 \in S
  PROVE  \A k \in 0..n : k \in S
<1> SUFFICES ASSUME {k \in 0..n : k \notin S} # {} PROVE FALSE
  OBVIOUS
<1>1. PICK m \in {k \in 0..n : k \notin S} : \A k \in {k \in 0..n : k \notin S} : m <= k
  <2>1. {k \in 0..n : k \notin S} \subseteq Nat
    OBVIOUS
  <2> QED
    BY <2>1, Least
<1>2. m \in 0..n /\ m # 0 /\ m \notin S
  BY <1>1
<1>3. PICK j : j = m - 1
  OBVIOUS
<1>4. j \in 0..n /\ j < n /\ j + 1 = m /\ j < m
  BY <1>2, <1>3
<1>5. j \in S
  BY <1>1, <1>2, <1>4
<1> QED
  BY <1>2, <1>4, <1>5

\* rank puts every element at a place of its own, the ones below it first.
RankedBy(S, below, rank) ==
  /\ Cardinality(S) \in Nat
  /\ \A i \in S : rank[i] \in 0..Cardinality(S) - 1
  /\ \A i, j \in S : i \in below[j] => rank[i] < rank[j]
  /\ \A k \in 1..Cardinality(S) : \E i \in S : rank[i] = k - 1

\* The elements of a finite set in a strict order: how many are below tells them
\* apart, and every number of elements below occurs.
LEMMA Ranks ==
  ASSUME NEW S, IsFiniteSet(S), NEW below \in [S -> SUBSET S],
         \A i \in S : i \notin below[i],
         \A i, j \in S : i # j => i \in below[j] \/ j \in below[i],
         \A i, j, l \in S : i \in below[j] /\ j \in below[l] => i \in below[l],
         NEW rank, rank = [i \in S |-> Cardinality(below[i])]
  PROVE  RankedBy(S, below, rank)
<1>1. PICK n : n = Cardinality(S)
  OBVIOUS
<1>4. n \in Nat
  BY <1>1, FS_CardinalityType
<1>5. ASSUME NEW i \in S
      PROVE  IsFiniteSet(below[i]) /\ rank[i] \in Nat /\ rank[i] < n
  <2>1. IsFiniteSet(S \ {i}) /\ Cardinality(S \ {i}) = n - 1
    BY <1>1, FS_RemoveElement
  <2>2. below[i] \in SUBSET (S \ {i})
    OBVIOUS
  <2>3. IsFiniteSet(below[i]) /\ Cardinality(below[i]) <= n - 1
    BY <2>1, <2>2, FS_Subset
  <2>4. Cardinality(below[i]) \in Nat
    BY <2>3, FS_CardinalityType
  <2> QED
    BY <1>4, <2>3, <2>4
<1>6. ASSUME NEW i \in S, NEW j \in S, i \in below[j] PROVE rank[i] < rank[j]
  <2>1. IsFiniteSet(below[i] \cup {i}) /\ Cardinality(below[i] \cup {i}) = rank[i] + 1
    BY <1>5, FS_AddElement
  <2>2. below[i] \cup {i} \in SUBSET below[j]
    BY <1>6
  <2>3. Cardinality(below[i] \cup {i}) <= Cardinality(below[j])
    BY <1>5, <2>2, FS_Subset
  <2> QED
    BY <1>5, <2>1, <2>3
<1>7. ASSUME NEW k \in 1..n PROVE \E i \in S : rank[i] = k - 1
  <2> SUFFICES ASSUME \A i \in S : rank[i] # k - 1 PROVE FALSE
    OBVIOUS
  <2>1. PICK I, T : I = 0..(n - 1) /\ T = I \ {k - 1}
    OBVIOUS
  <2>2. IsFiniteSet(T) /\ Cardinality(T) = n - 1
    <3>1. 0 \in Int /\ n - 1 \in Int /\ ~(0 > n - 1) /\ (n - 1) - 0 + 1 = n
      BY <1>4
    <3>2. IsFiniteSet(I) /\ Cardinality(I) = n
      BY <2>1, <3>1, FS_Interval
    <3>3. PICK x : x = k - 1
      OBVIOUS
    <3>4. x \in I /\ T = I \ {x}
      BY <1>4, <2>1, <3>3
    <3>5. IsFiniteSet(I \ {x}) /\ Cardinality(I \ {x}) = Cardinality(I) - 1
      BY <3>2, <3>4, FS_RemoveElement
    <3> QED
      BY <3>2, <3>4, <3>5
  <2>3. rank \in [S -> T]
    <3>1. \A i \in S : rank[i] \in T
      BY <1>4, <1>5, <2>1
    <3> QED
      BY <3>1
  <2>4. Cardinality(T) < Cardinality(S)
    BY <1>1, <1>4, <2>2
  <2>5. PICK i \in S, j \in S : i # j /\ rank[i] = rank[j]
    BY <2>2, <2>3, <2>4, FS_PigeonHole
  <2>6. i \in below[j] \/ j \in below[i]
    BY <2>5
  <2>7. rank[i] < rank[j] \/ rank[j] < rank[i]
    BY <1>6, <2>6
  <2> QED
    BY <1>5, <2>5, <2>7
<1>8. \A i \in S : rank[i] \in 0..n - 1
  BY <1>4, <1>5
<1> QED
  BY <1>1, <1>4, <1>6, <1>7, <1>8 DEF RankedBy

\* The count in Processors is that of FiniteSets.
LEMMA ProcessCardinality ==
  \A S : Process!Cardinality(S) = Cardinality(S)
BY DEF Process!Cardinality, Cardinality

\* What the nodes put out.
IsRow(r) ==
  /\ r = [id |-> r.id, by |-> r.by, passed |-> r.passed, score |-> r.score,
          rank |-> r.rank, try |-> r.try]
  /\ r.passed \in BOOLEAN /\ r.score \in Int

\* A row comes before another one, or is level with it.
Ahead(p, q) ==
  \/ p.passed = TRUE /\ q.passed = FALSE
  \/ p.passed = q.passed /\ p.score >= q.score

\* r has the rows of s in the order o, the ones ahead first, numbered.
Sorts(o, s, n, r) ==
  /\ r = [k \in 1..n |-> [s[o[k]] EXCEPT !.rank = k]]
  /\ o \in [1..n -> 1..n]
  /\ \A i \in 1..n : \E k \in 1..n : o[k] = i
  /\ \A a, b \in 1..n : a < b => Ahead(s[o[a]], s[o[b]])

\* Ranking puts the same rows in another order, and numbers them.
LEMMA RankedRows ==
  ASSUME NEW n \in Nat, NEW s, s = [i \in 1..n |-> s[i]], \A i \in 1..n : IsRow(s[i])
  PROVE  \E o : Sorts(o, s, n, Process!Ranked(s))
<1>1. PICK S : S = 1..n
  OBVIOUS
<1>2. PICK R : R = {p \in S \X S :
                      IF s[p[1]].passed # s[p[2]].passed THEN s[p[1]].passed
                      ELSE IF s[p[1]].score # s[p[2]].score THEN s[p[1]].score > s[p[2]].score
                      ELSE p[1] < p[2]}
  OBVIOUS
<1>3. \A i, j \in S : <<i, j>> \in R <=>
        IF s[i].passed # s[j].passed THEN s[i].passed
        ELSE IF s[i].score # s[j].score THEN s[i].score > s[j].score
        ELSE i < j
  BY <1>2
<1>4. \A i \in S : s[i].passed \in BOOLEAN /\ s[i].score \in Int /\ i \in Int
  BY <1>1 DEF IsRow
<1>5. /\ \A i \in S : <<i, i>> \notin R
      /\ \A i, j \in S : i # j => <<i, j>> \in R \/ <<j, i>> \in R
      /\ \A i, j, l \in S : <<i, j>> \in R /\ <<j, l>> \in R => <<i, l>> \in R
  <2>1. PICK p, q : /\ p = [i \in S |-> IF s[i].passed THEN 1 ELSE 0]
                    /\ q = [i \in S |-> s[i].score]
    OBVIOUS
  <2>2. \A i \in S : p[i] \in Int /\ q[i] \in Int /\ i \in Int
    BY <1>4, <2>1
  <2>3. \A i \in S : \/ s[i].passed = TRUE /\ p[i] = 1
                     \/ s[i].passed = FALSE /\ p[i] = 0
    BY <1>4, <2>1, Zenon
  <2>4. \A i, j \in S : <<i, j>> \in R <=>
          p[i] > p[j] \/ (p[i] = p[j] /\ (q[i] > q[j] \/ (q[i] = q[j] /\ i < j)))
    <3> SUFFICES ASSUME NEW i \in S, NEW j \in S
        PROVE <<i, j>> \in R <=>
          p[i] > p[j] \/ (p[i] = p[j] /\ (q[i] > q[j] \/ (q[i] = q[j] /\ i < j)))
      OBVIOUS
    <3>1. <<i, j>> \in R <=>
            IF s[i].passed # s[j].passed THEN s[i].passed
            ELSE IF q[i] # q[j] THEN q[i] > q[j]
            ELSE i < j
      BY <1>3, <2>1
    <3>2. ASSUME s[i].passed = s[j].passed
          PROVE  <<i, j>> \in R <=> (IF q[i] # q[j] THEN q[i] > q[j] ELSE i < j)
      BY <3>1, <3>2, Zenon
    <3>3. ASSUME s[i].passed # s[j].passed
          PROVE  <<i, j>> \in R <=> s[i].passed
      BY <3>1, <3>3, Zenon
    <3>4. s[i].passed = s[j].passed => p[i] = p[j]
      BY <2>3
    <3> 0 # 1
      OBVIOUS
    <3>5. s[i].passed # s[j].passed => p[i] # p[j]
      BY <2>3, Zenon
    <3>6. s[i].passed <=> p[i] = 1
      BY <2>3, Zenon
    <3>7. p[i] \in {0, 1} /\ p[j] \in {0, 1}
      BY <2>3
    <3> QED
      BY <2>2, <3>2, <3>3, <3>4, <3>5, <3>6, <3>7
  <2>5. \A i \in S : <<i, i>> \notin R
    BY <2>2, <2>4
  <2>6. \A i, j \in S : i # j => <<i, j>> \in R \/ <<j, i>> \in R
    BY <2>2, <2>4
  <2>7. ASSUME NEW i \in S, NEW j \in S, NEW l \in S, <<i, j>> \in R, <<j, l>> \in R
        PROVE  <<i, l>> \in R
    <3>1. p[i] > p[j] \/ (p[i] = p[j] /\ (q[i] > q[j] \/ (q[i] = q[j] /\ i < j)))
      BY <2>4, <2>7
    <3>2. p[j] > p[l] \/ (p[j] = p[l] /\ (q[j] > q[l] \/ (q[j] = q[l] /\ j < l)))
      BY <2>4, <2>7
    <3>3. p[i] > p[l] \/ (p[i] = p[l] /\ (q[i] > q[l] \/ (q[i] = q[l] /\ i < l)))
      BY <2>2, <3>1, <3>2
    <3> QED
      BY <2>4, <3>3
  <2> QED
    BY <2>5, <2>6, <2>7
<1>6. IsFiniteSet(S) /\ Cardinality(S) = n
  <2>1. 1 \in Int /\ n \in Int
    OBVIOUS
  <2>2. IsFiniteSet(1..n) /\ Cardinality(1..n) = IF 1 > n THEN 0 ELSE n - 1 + 1
    BY <2>1, FS_Interval
  <2> QED
    BY <1>1, <2>2
<1>7. PICK below, rank : /\ below = [i \in S |-> {j \in S : <<j, i>> \in R}]
                         /\ rank = [i \in S |-> Cardinality(below[i])]
  OBVIOUS
<1>8. /\ \A i \in S : rank[i] \in 0..n - 1
      /\ \A i, j \in S : <<i, j>> \in R => rank[i] < rank[j]
      /\ \A k \in 1..n : \E i \in S : rank[i] = k - 1
  <2>1. below \in [S -> SUBSET S] /\ \A i, j \in S : i \in below[j] <=> <<i, j>> \in R
    BY <1>7
  <2>2. rank = [i \in S |-> Cardinality(below[i])]
    BY <1>7
  <2>3. /\ \A i \in S : i \notin below[i]
        /\ \A i, j \in S : i # j => i \in below[j] \/ j \in below[i]
        /\ \A i, j, l \in S : i \in below[j] /\ j \in below[l] => i \in below[l]
    BY <1>5, <2>1
  <2>4. /\ \A i \in S : rank[i] \in 0..n - 1
        /\ \A i, j \in S : i \in below[j] => rank[i] < rank[j]
        /\ \A k \in 1..n : \E i \in S : rank[i] = k - 1
    <3>1. RankedBy(S, below, rank)
      BY <1>6, <2>1, <2>2, <2>3, Ranks
    <3> QED
      BY <1>6, <2>2, <3>1 DEF RankedBy
  <2> QED
    BY <2>1, <2>4
<1>9. PICK o : o = [k \in 1..n |-> CHOOSE i \in S : rank[i] = k - 1]
  OBVIOUS
<1>10. \A k \in 1..n : o[k] \in S /\ rank[o[k]] = k - 1
  BY <1>8, <1>9
<1>11. \A i, j \in S : i # j => rank[i] # rank[j]
  <2> SUFFICES ASSUME NEW i \in S, NEW j \in S, i # j PROVE rank[i] # rank[j]
    OBVIOUS
  <2>1. rank[i] \in Int /\ rank[j] \in Int
    BY <1>8
  <2>2. <<i, j>> \in R \/ <<j, i>> \in R
    BY <1>5
  <2>3. rank[i] < rank[j] \/ rank[j] < rank[i]
    BY <1>8, <2>2
  <2> QED
    BY <2>1, <2>3
<1>12. \A i \in S : Process!Cardinality({j \in S :
           IF s[j].passed # s[i].passed THEN s[j].passed
           ELSE IF s[j].score # s[i].score THEN s[j].score > s[i].score
           ELSE j < i}) = rank[i]
  <2> SUFFICES ASSUME NEW i \in S
      PROVE Process!Cardinality({j \in S :
           IF s[j].passed # s[i].passed THEN s[j].passed
           ELSE IF s[j].score # s[i].score THEN s[j].score > s[i].score
           ELSE j < i}) = rank[i]
    OBVIOUS
  <2>1. {j \in S : IF s[j].passed # s[i].passed THEN s[j].passed
                   ELSE IF s[j].score # s[i].score THEN s[j].score > s[i].score
                   ELSE j < i} = {j \in S : <<j, i>> \in R}
    BY <1>3
  <2> QED
    BY <1>7, <2>1, ProcessCardinality
<1>13. Process!Cardinality(S) = n
  BY <1>6, ProcessCardinality
<1>14. DOMAIN s = S
  BY <1>1
<1>15. PICK u : u = [k \in 1..Process!Cardinality(DOMAIN s) |->
           CHOOSE i \in DOMAIN s : Process!Cardinality({j \in DOMAIN s :
             IF s[j].passed # s[i].passed THEN s[j].passed
             ELSE IF s[j].score # s[i].score THEN s[j].score > s[i].score
             ELSE j < i}) = k - 1]
  OBVIOUS
<1>16. Process!Ranked(s) = [k \in DOMAIN s |-> [s[u[k]] EXCEPT !.rank = k]]
  BY <1>15 DEF Process!Ranked, Process!InOrder
<1>17. ASSUME NEW k \in 1..n PROVE u[k] = o[k]
  <2>1. \A i \in S : rank[i] = k - 1 <=> i = o[k]
    BY <1>10, <1>11
  <2>2. u[k] = CHOOSE i \in S : Process!Cardinality({j \in S :
             IF s[j].passed # s[i].passed THEN s[j].passed
             ELSE IF s[j].score # s[i].score THEN s[j].score > s[i].score
             ELSE j < i}) = k - 1
    <3>1. k \in 1..Process!Cardinality(DOMAIN s)
      BY <1>13, <1>14
    <3> QED
      BY <1>14, <1>15, <3>1, Zenon
  <2>3. \A i \in S : Process!Cardinality({j \in S :
             IF s[j].passed # s[i].passed THEN s[j].passed
             ELSE IF s[j].score # s[i].score THEN s[j].score > s[i].score
             ELSE j < i}) = k - 1 <=> i = o[k]
    BY <1>12, <2>1, Zenon
  <2> QED
    BY <1>10, <2>2, <2>3, Zenon
<1>18. o \in [1..n -> 1..n]
  BY <1>1, <1>9, <1>10
<1>19. \A i \in 1..n : \E k \in 1..n : o[k] = i
  <2> SUFFICES ASSUME NEW i \in 1..n PROVE \E k \in 1..n : o[k] = i
    OBVIOUS
  <2>1. i \in S /\ rank[i] \in 0..n - 1
    BY <1>1, <1>8
  <2>2. PICK k : k = rank[i] + 1
    OBVIOUS
  <2>3. k \in 1..n /\ rank[i] = k - 1
    BY <2>1, <2>2
  <2>4. o[k] = i
    BY <1>10, <1>11, <2>1, <2>3
  <2> QED
    BY <2>3, <2>4
<1>20. \A a, b \in 1..n : a < b => Ahead(s[o[a]], s[o[b]])
  <2> SUFFICES ASSUME NEW a \in 1..n, NEW b \in 1..n, a < b PROVE Ahead(s[o[a]], s[o[b]])
    OBVIOUS
  <2>1. o[a] \in S /\ o[b] \in S /\ rank[o[a]] = a - 1 /\ rank[o[b]] = b - 1
    BY <1>10
  <2>2. o[a] # o[b] /\ ~(rank[o[b]] < rank[o[a]])
    BY <2>1
  <2>3. <<o[b], o[a]>> \notin R
    BY <1>8, <2>1, <2>2
  <2>4. <<o[a], o[b]>> \in R
    BY <1>5, <2>1, <2>2, <2>3
  <2> QED
    <3>1. PICK p, q : p = s[o[a]] /\ q = s[o[b]]
      OBVIOUS
    <3>2. IF p.passed # q.passed THEN p.passed
          ELSE IF p.score # q.score THEN p.score > q.score ELSE o[a] < o[b]
      BY <1>3, <2>1, <2>4, <3>1
    <3>3. p.passed \in BOOLEAN /\ q.passed \in BOOLEAN /\ p.score \in Int /\ q.score \in Int
      BY <1>4, <2>1, <3>1
    <3>4. p.passed # q.passed => p.passed = TRUE /\ q.passed = FALSE
      BY <3>2, <3>3, Zenon
    <3>5. p.passed = q.passed => p.score >= q.score
      BY <3>2, <3>3
    <3> QED
      BY <3>1, <3>4, <3>5 DEF Ahead
<1>21. Process!Ranked(s) = [k \in 1..n |-> [s[o[k]] EXCEPT !.rank = k]]
  BY <1>1, <1>14, <1>16, <1>17
<1> QED
  BY <1>18, <1>19, <1>20, <1>21 DEF Sorts

\* Numbers in increasing order, and how many of them are below another one.
Rise(S) == Process!InOrder(S, <)
Below(S, i) == Cardinality({j \in S : j < i})

\* InOrder gives every number of a finite set one place, in increasing order.
LEMMA Increasing ==
  ASSUME NEW S, S \subseteq Nat, IsFiniteSet(S)
  PROVE  /\ Cardinality(S) \in Nat /\ Rise(S) \in [1..Cardinality(S) -> S]
         /\ \A i \in S : \E k \in 1..Cardinality(S) : Rise(S)[k] = i
         /\ \A a, b \in 1..Cardinality(S) : a < b => Rise(S)[a] < Rise(S)[b]
         /\ \A k \in 1..Cardinality(S), i \in S : Rise(S)[k] = i <=> Below(S, i) = k - 1
<1>1. PICK below, rank, n, o : /\ below = [i \in S |-> {j \in S : j < i}]
                               /\ rank = [i \in S |-> Cardinality(below[i])]
                               /\ n = Cardinality(S) /\ o = Rise(S)
  OBVIOUS
<1>2. /\ n \in Nat
      /\ \A i \in S : rank[i] \in 0..n - 1
      /\ \A i, j \in S : i < j => rank[i] < rank[j]
      /\ \A k \in 1..n : \E i \in S : rank[i] = k - 1
  <2>1. below \in [S -> SUBSET S] /\ \A i, j \in S : i \in below[j] <=> i < j
    BY <1>1
  <2>2. rank = [i \in S |-> Cardinality(below[i])] /\ n = Cardinality(S)
    BY <1>1
  <2>3. /\ \A i \in S : i \notin below[i]
        /\ \A i, j \in S : i # j => i \in below[j] \/ j \in below[i]
        /\ \A i, j, l \in S : i \in below[j] /\ j \in below[l] => i \in below[l]
    <3>1. \A i \in S : i \in Int
      OBVIOUS
    <3>2. \A i, j \in S : i # j => i < j \/ j < i
      BY <3>1
    <3>3. \A i, j, l \in S : i < j /\ j < l => i < l
      BY <3>1
    <3>4. \A i \in S : ~(i < i)
      BY <3>1
    <3>5. \A i \in S : i \notin below[i]
      BY <2>1, <3>4
    <3>6. \A i, j \in S : i # j => i \in below[j] \/ j \in below[i]
      BY <2>1, <3>2
    <3>7. \A i, j, l \in S : i \in below[j] /\ j \in below[l] => i \in below[l]
      BY <2>1, <3>3
    <3> QED
      BY <3>5, <3>6, <3>7
  <2>5. n \in Nat
    BY <1>1, FS_CardinalityType
  <2>4. /\ \A i \in S : rank[i] \in 0..n - 1
        /\ \A i, j \in S : i \in below[j] => rank[i] < rank[j]
        /\ \A k \in 1..n : \E i \in S : rank[i] = k - 1
    <3>1. RankedBy(S, below, rank)
      BY <2>1, <2>2, <2>3, Ranks
    <3> QED
      BY <2>2, <3>1 DEF RankedBy
  <2> QED
    BY <2>1, <2>4, <2>5
<1>3. \A i \in S : Process!Cardinality({j \in S : j < i}) = rank[i] /\ Below(S, i) = rank[i]
  BY <1>1, ProcessCardinality DEF Below
<1>4. Process!Cardinality(S) = n
  BY <1>1, ProcessCardinality
<1>5. Rise(S) = [k \in 1..Process!Cardinality(S) |->
             CHOOSE i \in S : Process!Cardinality({j \in S : j < i}) = k - 1]
  BY DEF Process!InOrder, Rise
<1>6. ASSUME NEW i \in S, NEW j \in S, i # j PROVE rank[i] # rank[j]
  <2>1. i < j \/ j < i
    BY <1>6
  <2>2. rank[i] < rank[j] \/ rank[j] < rank[i]
    BY <1>2, <2>1
  <2> QED
    BY <1>2, <2>2
<1>7. ASSUME NEW k \in 1..n PROVE o[k] \in S /\ rank[o[k]] = k - 1
  <2>1. o[k] = CHOOSE i \in S : Process!Cardinality({j \in S : j < i}) = k - 1
    BY <1>1, <1>4, <1>5
  <2>2. \E i \in S : Process!Cardinality({j \in S : j < i}) = k - 1
    BY <1>2, <1>3, Zenon
  <2>3. o[k] \in S /\ Process!Cardinality({j \in S : j < o[k]}) = k - 1
    BY <2>1, <2>2, Zenon
  <2> QED
    BY <1>3, <2>3, Zenon
<1>8. o = [k \in 1..n |-> o[k]]
  BY <1>1, <1>4, <1>5
<1>9. o \in [1..n -> S]
  BY <1>7, <1>8
<1>10. ASSUME NEW i \in S PROVE \E k \in 1..n : o[k] = i
  <2>1. PICK k : k = rank[i] + 1
    OBVIOUS
  <2>2. k \in 1..n /\ rank[i] = k - 1
    BY <1>2, <2>1
  <2>3. o[k] = i
    BY <1>6, <1>7, <2>2
  <2> QED
    BY <2>2, <2>3
<1>11. \A a, b \in 1..n : a < b => o[a] < o[b]
  <2> SUFFICES ASSUME NEW a \in 1..n, NEW b \in 1..n, a < b PROVE o[a] < o[b]
    OBVIOUS
  <2>1. o[a] \in S /\ o[b] \in S /\ rank[o[a]] = a - 1 /\ rank[o[b]] = b - 1
    BY <1>7
  <2>2. o[a] # o[b] /\ ~(rank[o[b]] < rank[o[a]])
    BY <2>1
  <2>3. ~(o[b] < o[a])
    BY <1>2, <2>1, <2>2
  <2>4. o[a] \in Int /\ o[b] \in Int
    <3>1. \A i \in S : i \in Int
      OBVIOUS
    <3> QED
      BY <2>1, <3>1
  <2> QED
    BY <2>2, <2>3, <2>4
<1>12. \A k \in 1..n, i \in S : o[k] = i <=> rank[i] = k - 1
  BY <1>6, <1>7
<1>13. \A k \in 1..n, i \in S : o[k] = i <=> Below(S, i) = k - 1
  BY <1>3, <1>12, Zenon
<1> QED
  BY <1>1, <1>2, <1>9, <1>10, <1>11, <1>13

\* All the numbers up to n are in their own places.
LEMMA IncreasingAll ==
  ASSUME NEW n \in Nat
  PROVE  Rise(1..n) = [k \in 1..n |-> k]
<1>1. PICK S : S = 1..n
  OBVIOUS
<1>2. IsFiniteSet(S) /\ Cardinality(S) = n
  <2>1. 1 \in Int /\ n \in Int
    OBVIOUS
  <2>2. IsFiniteSet(1..n) /\ Cardinality(1..n) = IF 1 > n THEN 0 ELSE n - 1 + 1
    BY <2>1, FS_Interval
  <2> QED
    BY <1>1, <2>2
<1>3. /\ Rise(S) \in [1..n -> S]
      /\ \A k \in 1..n, i \in S : Rise(S)[k] = i <=> Below(S, i) = k - 1
  <2>1. S \subseteq Nat
    BY <1>1
  <2> QED
    BY <1>2, <2>1, Increasing
<1>4. ASSUME NEW k \in 1..n PROVE Rise(S)[k] = k
  <2>1. {j \in S : j < k} = 1..(k - 1)
    BY <1>1
  <2>2. 1 \in Int /\ k - 1 \in Int
    OBVIOUS
  <2>3. Cardinality(1..(k - 1)) = IF 1 > k - 1 THEN 0 ELSE (k - 1) - 1 + 1
    BY <2>2, FS_Interval
  <2>4. Cardinality(1..(k - 1)) = k - 1
    BY <2>3
  <2>5. Below(S, k) = k - 1
    BY <2>1, <2>4 DEF Below
  <2> QED
    BY <1>1, <1>3, <2>5
<1> QED
  BY <1>1, <1>3, <1>4

\* A number that goes to the end leaves the other places alone.
RiseEnds(S, m) ==
  /\ Cardinality(S \cup {m}) = Cardinality(S) + 1
  /\ Rise(S \cup {m})[Cardinality(S) + 1] = m
  /\ \A k \in 1..Cardinality(S) : Rise(S \cup {m})[k] = Rise(S)[k]

\* A number above all the others goes to the end.
LEMMA IncreasingOne ==
  ASSUME NEW S, S \subseteq Nat, IsFiniteSet(S), NEW m \in Nat, \A i \in S : i < m
  PROVE  RiseEnds(S, m)
<1>1. PICK T, n : T = S \cup {m} /\ n = Cardinality(S)
  OBVIOUS
<1>2. m \notin S /\ T \subseteq Nat
  BY <1>1
<1>3. IsFiniteSet(T) /\ Cardinality(T) = n + 1
  BY <1>1, <1>2, FS_AddElement
<1>4. /\ n \in Nat /\ Rise(S) \in [1..n -> S]
      /\ \A k \in 1..n, i \in S : Rise(S)[k] = i <=> Below(S, i) = k - 1
  BY <1>1, Increasing
<1>5. \A k \in 1..n + 1, i \in T : Rise(T)[k] = i <=> Below(T, i) = k - 1
  BY <1>2, <1>3, Increasing
<1>6. Below(T, m) = n
  <2>1. {j \in T : j < m} = S
    <3>1. ~(m < m)
      OBVIOUS
    <3>2. \A j \in T : j < m <=> j \in S
      BY <1>1, <3>1
    <3> QED
      BY <1>1, <3>2
  <2> QED
    BY <1>1, <2>1 DEF Below
<1>7. Rise(T)[n + 1] = m
  <2>1. n + 1 \in 1..n + 1 /\ n = (n + 1) - 1 /\ m \in T
    BY <1>1, <1>4
  <2> QED
    BY <1>5, <1>6, <2>1
<1>8. ASSUME NEW k \in 1..n PROVE Rise(T)[k] = Rise(S)[k]
  <2>1. PICK i : i = Rise(S)[k]
    OBVIOUS
  <2>2. i \in S /\ i \in T /\ k \in 1..n + 1
    BY <1>1, <1>4, <2>1
  <2>3. {j \in T : j < i} = {j \in S : j < i}
    BY <1>1, <2>2
  <2>4. Below(S, i) = k - 1
    BY <1>4, <2>1, <2>2
  <2>5. Below(T, i) = k - 1
    BY <2>3, <2>4 DEF Below
  <2> QED
    BY <1>5, <2>1, <2>2, <2>5
<1> QED
  BY <1>1, <1>3, <1>7, <1>8 DEF RiseEnds

\* The same induction, from one on.
LEMMA ClimbOne ==
  ASSUME NEW n \in Nat, n > 0, NEW S, 1 \in S, \A k \in 1..n : k \in S /\ k < n => k + 1 \in S
  PROVE  \A k \in 1..n : k \in S
<1>1. PICK T : T = {k \in 0..n : k = 0 \/ k \in S}
  OBVIOUS
<1>2. 0 \in T
  BY <1>1
<1>3. ASSUME NEW k \in 0..n, k \in T, k < n PROVE k + 1 \in T
  <2>1. k + 1 \in 0..n
    BY <1>3
  <2>2. k # 0 => k \in 1..n /\ k \in S
    BY <1>1, <1>3
  <2>3. k + 1 \in S
    BY <1>3, <2>2
  <2> QED
    BY <1>1, <2>1, <2>3
<1>4. \A k \in 0..n : k \in T
  BY <1>2, <1>3, Climb
<1> QED
  BY <1>1, <1>4

\* FlattenSeq joins the pieces one after the other: h[i] is what the first i make.
Piles(h, s, n) == h[1] = s[1] /\ \A i \in 2..n : h[i] = h[i - 1] \o s[i]

\* FlattenSeq over the groups of a node, one piece at a time.
LEMMA Joined ==
  ASSUME NEW n \in Nat, n > 0, NEW s, Len(s) = n
  PROVE  \E h : Process!FlattenSeq(s) = h[n] /\ Piles(h, s, n)
<1>1. PICK K : K = {k \in 1..n : \E h : h = [i \in 1..k |-> IF i = 1 THEN s[i]
                                                           ELSE h[i - 1] \o s[i]]}
  OBVIOUS
<1>2. 1 \in K
  <2>1. PICK h : h = [i \in 1..1 |-> s[i]]
    OBVIOUS
  <2>2. h = [i \in 1..1 |-> IF i = 1 THEN s[i] ELSE h[i - 1] \o s[i]]
    BY <2>1
  <2>3. 1 \in 1..n
    OBVIOUS
  <2>4. \E g : g = [i \in 1..1 |-> IF i = 1 THEN s[i] ELSE g[i - 1] \o s[i]]
    BY <2>2, Zenon
  <2> QED
    BY <1>1, <2>3, <2>4, Zenon
<1>3. ASSUME NEW k \in 1..n, k \in K, k < n PROVE k + 1 \in K
  <2>1. PICK h : h = [i \in 1..k |-> IF i = 1 THEN s[i] ELSE h[i - 1] \o s[i]]
    BY <1>1, <1>3
  <2>2. PICK g : g = [i \in 1..k + 1 |-> IF i = k + 1 THEN h[k] \o s[k + 1] ELSE h[i]]
    OBVIOUS
  <2>3. ASSUME NEW i \in 1..k + 1
        PROVE  g[i] = IF i = 1 THEN s[i] ELSE g[i - 1] \o s[i]
    <3>1. CASE i = k + 1
      <4>1. i # 1 /\ i - 1 = k /\ k \in 1..k + 1 /\ k # k + 1
        BY <3>1
      <4>2. g[k] = h[k]
        BY <2>2, <4>1
      <4>3. g[i] = h[k] \o s[i]
        BY <2>2, <3>1
      <4> QED
        BY <4>1, <4>2, <4>3
    <3>2. CASE i # k + 1
      <4>1. i \in 1..k
        BY <3>2
      <4>2. g[i] = IF i = 1 THEN s[i] ELSE h[i - 1] \o s[i]
        BY <2>1, <2>2, <3>2, <4>1
      <4>3. i # 1 => i - 1 \in 1..k + 1 /\ i - 1 # k + 1
        BY <4>1
      <4>4. i # 1 => g[i - 1] = h[i - 1]
        BY <2>2, <4>3
      <4> QED
        BY <4>2, <4>4
    <3> QED
      BY <3>1, <3>2
  <2>4. g = [i \in 1..k + 1 |-> IF i = 1 THEN s[i] ELSE g[i - 1] \o s[i]]
    BY <2>2, <2>3
  <2>5. k + 1 \in 1..n
    BY <1>3
  <2> QED
    BY <1>1, <2>4, <2>5
<1>4. n \in K
  <2>1. \A k \in 1..n : k \in K
    BY <1>2, <1>3, ClimbOne
  <2> QED
    BY <2>1
<1>5. PICK f : f = CHOOSE h : h = [i \in 1..Len(s) |-> IF i = 1 THEN s[i] ELSE h[i - 1] \o s[i]]
  OBVIOUS
<1>6. f = [i \in 1..n |-> IF i = 1 THEN s[i] ELSE f[i - 1] \o s[i]]
  <2>1. \E h : h = [i \in 1..n |-> IF i = 1 THEN s[i] ELSE h[i - 1] \o s[i]]
    BY <1>1, <1>4
  <2> QED
    BY <1>5, <2>1, Zenon
<1>7. Process!FlattenSeq(s) = f[n]
  BY <1>5 DEF Process!FlattenSeq
<1>8. Piles(f, s, n)
  <2>1. 1 \in 1..n /\ \A i \in 2..n : i \in 1..n /\ i # 1
    OBVIOUS
  <2>2. \A i \in 1..n : f[i] = IF i = 1 THEN s[i] ELSE f[i - 1] \o s[i]
    BY <1>6, Zenon
  <2> QED
    BY <2>1, <2>2, Zenon DEF Piles
<1> QED
  BY <1>7, <1>8

\* Two sequences joined of pieces of the same lengths: p has a piece's element
\* where q has the element of the other piece at the same place.
Matched(A, B, n, p, q) ==
  /\ Len(p) = Len(q)
  /\ \A k \in 1..Len(p) : \E g \in 1..n : \E i \in 1..Len(A[g]) : p[k] = A[g][i] /\ q[k] = B[g][i]
  /\ \A g \in 1..n : \A i \in 1..Len(A[g]) : \E k \in 1..Len(p) : p[k] = A[g][i] /\ q[k] = B[g][i]

\* One piece more on each side.
LEMMA MatchedMore ==
  ASSUME NEW U, NEW V, NEW n \in Nat, NEW A, NEW B, NEW p \in Seq(U), NEW q \in Seq(V),
         A[n + 1] \in Seq(U), B[n + 1] \in Seq(V), Len(A[n + 1]) = Len(B[n + 1]),
         Matched(A, B, n, p, q)
  PROVE  Matched(A, B, n + 1, p \o A[n + 1], q \o B[n + 1])
<1>1. PICK c, d : c = A[n + 1] /\ d = B[n + 1]
  OBVIOUS
<1>2. /\ Len(p) \in Nat /\ Len(c) \in Nat /\ Len(p) = Len(q) /\ Len(c) = Len(d)
      /\ p \o c \in Seq(U) /\ q \o d \in Seq(V)
      /\ Len(p \o c) = Len(p) + Len(c) /\ Len(q \o d) = Len(p) + Len(c)
  <2>1. c \in Seq(U) /\ d \in Seq(V) /\ Len(c) = Len(d) /\ Len(p) = Len(q)
    BY <1>1 DEF Matched
  <2>2. Len(p) \in Nat /\ Len(c) \in Nat /\ p \o c \in Seq(U) /\ q \o d \in Seq(V)
    BY <2>1
  <2>3. Len(p \o c) = Len(p) + Len(c) /\ Len(q \o d) = Len(q) + Len(d)
    BY <2>1, ConcatProperties
  <2> QED
    BY <2>1, <2>2, <2>3
<1>3. /\ \A k \in 1..Len(p) : (p \o c)[k] = p[k] /\ (q \o d)[k] = q[k]
      /\ \A i \in 1..Len(c) : (p \o c)[Len(p) + i] = c[i] /\ (q \o d)[Len(p) + i] = d[i]
  BY <1>1, <1>2
<1>4. ASSUME NEW k \in 1..Len(p \o c)
      PROVE  \E g \in 1..n + 1 : \E i \in 1..Len(A[g]) : (p \o c)[k] = A[g][i] /\ (q \o d)[k] = B[g][i]
  <2>1. CASE k <= Len(p)
    <3>1. k \in 1..Len(p)
      BY <1>2, <2>1
    <3>2. PICK g \in 1..n : \E i \in 1..Len(A[g]) : p[k] = A[g][i] /\ q[k] = B[g][i]
      BY <3>1 DEF Matched
    <3>3. g \in 1..n + 1
      OBVIOUS
    <3> QED
      BY <1>3, <3>1, <3>2, <3>3
  <2>2. CASE ~(k <= Len(p))
    <3>1. PICK i : i = k - Len(p)
      OBVIOUS
    <3>2. i \in 1..Len(c) /\ k = Len(p) + i
      BY <1>2, <2>2, <3>1
    <3>3. n + 1 \in 1..n + 1
      OBVIOUS
    <3>4. (p \o c)[k] = A[n + 1][i] /\ (q \o d)[k] = B[n + 1][i] /\ i \in 1..Len(A[n + 1])
      BY <1>1, <1>3, <3>2
    <3> QED
      BY <3>3, <3>4
  <2> QED
    BY <2>1, <2>2
<1>5. ASSUME NEW g \in 1..n + 1, NEW i \in 1..Len(A[g])
      PROVE  \E k \in 1..Len(p \o c) : (p \o c)[k] = A[g][i] /\ (q \o d)[k] = B[g][i]
  <2>1. CASE g = n + 1
    <3>1. PICK k : k = Len(p) + i
      OBVIOUS
    <3>2. i \in 1..Len(c)
      BY <1>1, <2>1
    <3>3. k \in 1..Len(p \o c)
      BY <1>2, <3>1, <3>2
    <3>4. (p \o c)[k] = A[g][i] /\ (q \o d)[k] = B[g][i]
      BY <1>1, <1>3, <2>1, <3>1, <3>2
    <3> QED
      BY <3>3, <3>4
  <2>2. CASE g # n + 1
    <3>1. g \in 1..n
      BY <2>2
    <3>2. PICK k \in 1..Len(p) : p[k] = A[g][i] /\ q[k] = B[g][i]
      BY <3>1 DEF Matched
    <3>3. k \in 1..Len(p \o c)
      BY <1>2
    <3> QED
      BY <1>3, <3>2, <3>3
  <2> QED
    BY <2>1, <2>2
<1> QED
  BY <1>1, <1>2, <1>4, <1>5 DEF Matched

\* Pieces of the same lengths joined.
LEMMA JoinedMatch ==
  ASSUME NEW U, NEW V, NEW n \in Nat, n > 0, NEW A \in [1..n -> Seq(U)], NEW B \in [1..n -> Seq(V)],
         \A g \in 1..n : Len(A[g]) = Len(B[g])
  PROVE  /\ Process!FlattenSeq(A) \in Seq(U) /\ Process!FlattenSeq(B) \in Seq(V)
         /\ Matched(A, B, n, Process!FlattenSeq(A), Process!FlattenSeq(B))
<1>1. Len(A) = n /\ Len(B) = n
  OBVIOUS
<1>2. PICK a : Process!FlattenSeq(A) = a[n] /\ Piles(a, A, n)
  BY <1>1, Joined
<1>3. PICK b : Process!FlattenSeq(B) = b[n] /\ Piles(b, B, n)
  BY <1>1, Joined
<1>4. PICK S : S = {j \in 1..n : a[j] \in Seq(U) /\ b[j] \in Seq(V) /\ Matched(A, B, j, a[j], b[j])}
  OBVIOUS
<1>5. 1 \in S
  <2>1. 1 \in 1..n
    OBVIOUS
  <2>2. A[1] \in Seq(U) /\ B[1] \in Seq(V) /\ Len(A[1]) = Len(B[1])
    BY <2>1
  <2>3. Matched(A, B, 1, A[1], B[1])
    <3>1. \A g \in 1..1 : g = 1
      OBVIOUS
    <3>2. 1 \in 1..1
      OBVIOUS
    <3> QED
      BY <2>2, <3>1, <3>2, Zenon DEF Matched
  <2> QED
    BY <1>2, <1>3, <1>4, <2>1, <2>2, <2>3 DEF Piles
<1>6. ASSUME NEW j \in 1..n, j \in S, j < n PROVE j + 1 \in S
  <2>1. j \in Nat /\ j + 1 \in 2..n /\ (j + 1) - 1 = j /\ j + 1 \in 1..n
    BY <1>6
  <2>2. a[j + 1] = a[j] \o A[j + 1] /\ b[j + 1] = b[j] \o B[j + 1]
    <3>1. a[j + 1] = a[(j + 1) - 1] \o A[j + 1]
      BY <1>2, <2>1, Zenon DEF Piles
    <3>2. b[j + 1] = b[(j + 1) - 1] \o B[j + 1]
      BY <1>3, <2>1, Zenon DEF Piles
    <3> QED
      BY <2>1, <3>1, <3>2
  <2>3. a[j] \in Seq(U) /\ b[j] \in Seq(V) /\ Matched(A, B, j, a[j], b[j])
    BY <1>4, <1>6
  <2>4. A[j + 1] \in Seq(U) /\ B[j + 1] \in Seq(V) /\ Len(A[j + 1]) = Len(B[j + 1])
    BY <2>1
  <2>5. Matched(A, B, j + 1, a[j + 1], b[j + 1])
    BY <2>1, <2>2, <2>3, <2>4, MatchedMore
  <2>6. a[j + 1] \in Seq(U) /\ b[j + 1] \in Seq(V)
    BY <2>2, <2>3, <2>4
  <2> QED
    BY <1>4, <2>1, <2>5, <2>6
<1>7. n \in S
  <2>1. \A j \in 1..n : j \in S
    BY <1>5, <1>6, ClimbOne
  <2> QED
    BY <2>1
<1> QED
  BY <1>2, <1>3, <1>4, <1>7

\* Inputs are sequences of records with ids of their own; a score is a number or
\* missing.
RecordConstants ==
  /\ Threshold \in Int /\ Fanout \in Nat \ {0}
  /\ \A s \in Inputs :
       /\ s \in Seq(Process!ToSet(s))
       /\ \A i \in 1..Len(s) : s[i].good \in BOOLEAN /\ (s[i].score \in Int \/ s[i].score = Missing)
       /\ \A i, j \in 1..Len(s) : s[i].id = s[j].id => i = j

Fits == node.mode = "all" \/ Len(node.input) <= Fanout

\* The groups cover the input, in order, and there is a slot for each.
LEMMA GroupsJoined ==
  ASSUME ProcessorConstants, RecordConstants, node \in ProcessorNodes, Fits,
         NEW N, N = Len(Process!Groups), NEW U, U = Process!ToSet(node.input)
  PROVE  /\ N \in Nat /\ N > 0 /\ N <= Fanout
         /\ Process!Groups \in [1..N -> Seq(U)]
         /\ Process!FlattenSeq(Process!Groups) = node.input
<1>1. PICK s, n, size : /\ s = node.input /\ n = Len(node.input)
                        /\ size = CASE node.mode = "each" -> 1
                                    [] node.mode = "batch" -> BatchSize
                                    [] OTHER -> n
  OBVIOUS
<1>2. /\ n \in Nat /\ s \in Seq(U) /\ Fanout \in Nat \ {0}
  BY <1>1 DEF ProcessorConstants, ProcessorNodes, RecordConstants
<1>3. CASE n <= 1
  <2>1. PICK gs : gs = <<s>>
    OBVIOUS
  <2>2. Process!Groups = gs
    BY <1>1, <1>3, <2>1 DEF Process!Groups
  <2>3. Len(gs) = 1 /\ gs \in [1..1 -> Seq(U)] /\ gs[1] = s
    BY <1>2, <2>1
  <2>4. Process!FlattenSeq(gs) = s
    <3>1. 1 \in Nat /\ 1 > 0
      OBVIOUS
    <3>2. PICK h : Process!FlattenSeq(gs) = h[1] /\ Piles(h, gs, 1)
      BY <2>3, <3>1, Joined
    <3> QED
      BY <2>3, <3>2 DEF Piles
  <2> QED
    BY <1>1, <1>2, <2>2, <2>3, <2>4
<1>4. CASE ~(n <= 1)
  <2>1. size \in Nat \ {0} /\ n > 1
    BY <1>1, <1>2, <1>4 DEF ProcessorConstants
  <2>2. PICK K : K = (n + size - 1) \div size
    OBVIOUS
  <2>3. K \in Nat /\ K > 0 /\ K * size >= n /\ \A j \in 1..K : (j - 1) * size < n
    <3>1. PICK x : x = n + size - 1
      OBVIOUS
    <3>2. x \in Nat /\ K = x \div size /\ x >= size
      BY <1>2, <2>1, <2>2, <3>1
    <3>3. PICK r : r = x % size
      OBVIOUS
    <3>4. x = size * K + r /\ r >= 0 /\ r < size /\ K \in Int /\ r \in Int
      BY <2>1, <3>2, <3>3
    <3>5. K > 0
      BY <2>1, <3>2, <3>4
    <3>6. size * K \in Int /\ size * K >= n /\ size * K < n + size
      BY <1>2, <2>1, <3>1, <3>4
    <3>7. K * size >= n
      BY <2>1, <3>4, <3>6
    <3>8. ASSUME NEW j \in 1..K PROVE (j - 1) * size < n
      <4>1. j \in Int /\ j <= K
        BY <3>4
      <4>2. j * size <= K * size
        BY <2>1, <3>4, <4>1
      <4>3. (j - 1) * size = j * size - size
        BY <2>1, <4>1
      <4>4. K * size = size * K /\ j * size \in Int
        BY <2>1, <3>4, <4>1
      <4> QED
        BY <1>2, <2>1, <3>6, <4>2, <4>3, <4>4
    <3> QED
      BY <3>4, <3>5, <3>7, <3>8
  <2>4. PICK c : c = [j \in 0..K |-> IF j * size < n THEN j * size ELSE n]
    OBVIOUS
  <2>5. PICK gs : gs = [g \in 1..K |-> SubSeq(s, (g - 1) * size + 1, c[g])]
    OBVIOUS
  <2>6. Process!Groups = gs
    <3>1. gs = [g \in 1..K |-> SubSeq(s, (g - 1) * size + 1, IF g * size < n THEN g * size ELSE n)]
      <4>1. \A g \in 1..K : c[g] = IF g * size < n THEN g * size ELSE n
        BY <2>3, <2>4
      <4> QED
        BY <2>5, <4>1, Zenon
    <3> QED
      BY <1>1, <1>4, <2>2, <3>1 DEF Process!Groups
  <2>7. ASSUME NEW j \in 1..K
        PROVE  /\ (j - 1) * size \in Nat /\ j - 1 \in 0..K /\ c[j - 1] = (j - 1) * size
               /\ c[j] \in Nat /\ c[j] >= c[j - 1] + 1 /\ c[j] <= n
    <3>1. PICK a, b : a = (j - 1) * size /\ b = j * size
      OBVIOUS
    <3>2. j \in 0..K /\ j - 1 \in 0..K /\ j - 1 \in Nat
      BY <2>3
    <3>3. a \in Nat /\ b = a + size /\ a < n
      BY <2>1, <2>3, <3>1, <3>2
    <3>4. c[j - 1] = a /\ c[j] = IF b < n THEN b ELSE n
      BY <2>4, <3>1, <3>2, <3>3
    <3> QED
      BY <1>2, <2>1, <3>1, <3>2, <3>3, <3>4
  <2>8. c[K] = n
    <3>1. K \in 0..K /\ K * size \in Int /\ ~(K * size < n)
      BY <1>2, <2>1, <2>3
    <3> QED
      BY <2>4, <3>1
  <2>9. gs \in [1..K -> Seq(U)]
    <3> SUFFICES ASSUME NEW g \in 1..K PROVE gs[g] \in Seq(U)
      BY <2>5
    <3>1. PICK a, b : a = c[g - 1] + 1 /\ b = c[g]
      OBVIOUS
    <3>2. a \in Int /\ b \in Int /\ a >= 1 /\ b <= n
      BY <1>2, <2>7, <3>1
    <3>3. \A i \in a..b : s[i] \in U
      BY <1>1, <1>2, <3>2
    <3>4. SubSeq(s, a, b) \in Seq(U)
      BY <3>2, <3>3, SubSeqProperties
    <3> QED
      BY <2>5, <2>7, <3>1, <3>4
  <2>10. Len(gs) = K
    BY <2>3, <2>9
  <2>11. PICK h : Process!FlattenSeq(gs) = h[K] /\ Piles(h, gs, K)
    BY <2>3, <2>10, Joined
  <2>12. PICK S : S = {j \in 1..K : h[j] = SubSeq(s, 1, c[j])}
    OBVIOUS
  <2>13. 1 \in S
    <3>1. 1 \in 1..K /\ 1 - 1 = 0 /\ 0 * size = 0
      BY <2>1, <2>3
    <3>2. gs[1] = SubSeq(s, 1, c[1])
      <4>1. gs[1] = SubSeq(s, (1 - 1) * size + 1, c[1])
        BY <2>5, <3>1
      <4>2. (1 - 1) * size + 1 = 1
        BY <2>1
      <4> QED
        BY <4>1, <4>2
    <3> QED
      BY <2>11, <2>12, <3>1, <3>2 DEF Piles
  <2>14. ASSUME NEW j \in 1..K, j \in S, j < K PROVE j + 1 \in S
    <3>1. PICK m : m = j + 1
      OBVIOUS
    <3>2. m \in 1..K /\ m \in 2..K /\ m - 1 = j
      BY <2>3, <2>14, <3>1
    <3>3. h[m] = h[j] \o gs[m]
      BY <2>11, <3>2 DEF Piles
    <3>4. h[j] = SubSeq(s, 1, c[j]) /\ gs[m] = SubSeq(s, c[j] + 1, c[m])
      BY <2>5, <2>7, <2>12, <2>14, <3>2
    <3>5. c[j] \in Nat /\ c[m] \in Nat /\ c[m] >= c[j] /\ c[m] <= n
      BY <2>7, <3>2
    <3>6. 1 \in 1..Len(s) + 1 /\ c[j] \in 1 - 1..Len(s) /\ c[m] \in c[j]..Len(s)
      BY <1>1, <1>2, <3>5
    <3>7. SubSeq(s, 1, c[j]) \o SubSeq(s, c[j] + 1, c[m]) = SubSeq(s, 1, c[m])
      BY <1>2, <3>6, ConcatAdjacentSubSeq
    <3> QED
      BY <2>12, <3>1, <3>2, <3>3, <3>4, <3>7
  <2>15. K \in S
    <3>1. \A j \in 1..K : j \in S
      BY <2>3, <2>13, <2>14, ClimbOne
    <3> QED
      BY <2>3, <3>1
  <2>16. h[K] = s
    BY <1>1, <1>2, <2>8, <2>12, <2>15, SubSeqFull
  <2>17. K <= Fanout
    <3>1. CASE node.mode = "all"
      <4>1. size = n
        BY <1>1, <3>1
      <4>2. K <= 1
        <5>1. CASE K >= 2
          <6>1. 2 \in 1..K /\ (2 - 1) * size = size
            BY <2>1, <2>3, <5>1
          <6>2. size < n
            BY <2>3, <6>1
          <6> QED
            BY <1>2, <4>1, <6>2
        <5> QED
          BY <2>3, <5>1
      <4> QED
        BY <1>2, <2>3, <4>2
    <3>2. CASE node.mode # "all"
      <4>1. n <= Fanout
        BY <1>1, <3>2 DEF Fits
      <4>2. K <= n
        <5>1. K \in 1..K
          BY <2>3
        <5>2. (K - 1) * size < n /\ K - 1 \in Nat
          BY <2>3, <5>1
        <5>3. (K - 1) * size >= K - 1 /\ (K - 1) * size \in Int
          BY <2>1, <5>2
        <5> QED
          BY <1>2, <2>3, <5>2, <5>3
      <4> QED
        BY <1>2, <2>3, <4>1, <4>2
    <3> QED
      BY <3>1, <3>2
  <2> QED
    BY <1>1, <2>3, <2>6, <2>9, <2>10, <2>11, <2>16, <2>17
<1> QED
  BY <1>2, <1>3, <1>4

\* Without a model the output is computed at once; with one, the groups were
\* spread, so there were slots for them.
SideInv ==
  /\ node.kind \in Process!Plain =>
       /\ node.pc # "gather"
       /\ node.pc = "completed" => out = Process!Computed(node.input)
  /\ node.kind \notin Process!Plain /\ node.pc \in {"gather", "completed"} => Fits

\* A step that ends the attempt, or changes nothing that is said here.
LEMMA SideStays ==
  ASSUME node \in ProcessorNodes, SideInv,
         \/ /\ node'.kind = node.kind /\ node'.mode = node.mode /\ node'.input = node.input
            /\ node'.attempt = node.attempt /\ node'.pc = node.pc /\ out' = out
         \/ node'.kind = node.kind /\ node'.pc \in {"start", "failed"}
  PROVE  SideInv'
<1>1. CASE /\ node'.kind = node.kind /\ node'.mode = node.mode /\ node'.input = node.input
           /\ node'.attempt = node.attempt /\ node'.pc = node.pc /\ out' = out
  <2>1. Process!Computed(node.input)' = Process!Computed(node.input)
    BY <1>1 DEF Process!Computed
  <2>2. Fits' <=> Fits
    BY <1>1 DEF Fits
  <2>3. (node.kind \in Process!Plain)' <=> node.kind \in Process!Plain
    BY <1>1 DEF Process!Plain
  <2> QED
    BY <1>1, <2>1, <2>2, <2>3 DEF SideInv
<1>2. CASE node'.kind = node.kind /\ node'.pc \in {"start", "failed"}
  BY <1>2 DEF SideInv
<1> QED
  BY <1>1, <1>2

\* A failed attempt starts over or gives up: nothing is claimed of its output.
LEMMA SideFails ==
  ASSUME ProcessorConstants, ProcessorInv, SideInv, Process!AttemptFails
  PROVE  SideInv'
<1>1. node \in ProcessorNodes
  BY DEF ProcessorInv
<1>2. node'.kind = node.kind /\ node'.pc \in {"start", "failed"}
  <2>1. CASE node' = [node EXCEPT !.attempt = @ + 1, !.pc = "start", !.whole = TRUE]
    BY <1>1, <2>1 DEF ProcessorNodes
  <2>2. CASE node' = [node EXCEPT !.pc = "failed"]
    BY <1>1, <2>2 DEF ProcessorNodes
  <2> QED
    BY <2>1, <2>2 DEF Process!AttemptFails
<1> QED
  BY <1>1, <1>2, SideStays

\* BaseNode.run: every step of a node keeps what is said of its output.
LEMMA SideNext ==
  ASSUME ProcessorConstants, RecordConstants, ProcessorInv, SideInv,
         [Process!Next]_(Process!procVars)
  PROVE  SideInv'
<1>1. node \in ProcessorNodes
  BY DEF ProcessorInv
<1>2. CASE UNCHANGED <<node, out>>
  BY <1>1, <1>2, SideStays
<1>3. CASE Process!Compute
  <2>1. /\ node.kind \in Process!Plain /\ out' = Process!Computed(node.input)
        /\ node' = [node EXCEPT !.pc = "completed"]
    BY <1>3 DEF Process!Compute
  <2>2. /\ node'.kind = node.kind /\ node'.input = node.input
        /\ node'.attempt = node.attempt /\ node'.pc = "completed"
    BY <1>1, <2>1 DEF ProcessorNodes
  <2>3. Process!Computed(node.input)' = Process!Computed(node.input)
    BY <2>2 DEF Process!Computed
  <2> QED
    BY <2>1, <2>2, <2>3 DEF SideInv, Process!Plain
<1>4. CASE Process!Spread
  <2>1. node.kind \notin Process!Plain
    BY <1>4 DEF Process!Spread
  <2>2. CASE Process!AttemptFails
    BY <2>2, SideFails
  <2>3. CASE /\ ~(node.mode # "all" /\ Len(node.input) > Fanout)
             /\ node' = [node EXCEPT !.pc = "gather"]
    <3>1. Fits
      <4>1. Len(node.input) \in Nat /\ Fanout \in Int
        BY <1>1 DEF ProcessorNodes, ProcessorConstants, RecordConstants
      <4> QED
        BY <2>3, <4>1 DEF Fits
    <3>2. node'.kind = node.kind /\ node'.mode = node.mode /\ node'.input = node.input
      BY <1>1, <2>3 DEF ProcessorNodes
    <3>3. Fits'
      BY <3>1, <3>2 DEF Fits
    <3> QED
      BY <2>1, <3>2, <3>3 DEF SideInv, Process!Plain
  <2> QED
    BY <1>4, <2>2, <2>3 DEF Process!Spread
<1>5. CASE Process!Gather
  <2>1. node.pc = "gather" /\ node' = [node EXCEPT !.pc = "completed"]
    BY <1>5 DEF Process!Gather
  <2>2. /\ node'.kind = node.kind /\ node'.mode = node.mode /\ node'.input = node.input
        /\ node'.pc = "completed"
    BY <1>1, <2>1 DEF ProcessorNodes
  <2>3. node.kind \notin Process!Plain /\ Fits
    BY <2>1 DEF SideInv
  <2>4. Fits'
    BY <2>2, <2>3 DEF Fits
  <2> QED
    BY <2>2, <2>3, <2>4 DEF SideInv, Process!Plain
<1>6. CASE Process!NodeTimeout
  <2>1. node' = [node EXCEPT !.pc = "failed"]
    BY <1>6 DEF Process!NodeTimeout
  <2>2. node'.kind = node.kind /\ node'.pc = "failed"
    BY <1>1, <2>1 DEF ProcessorNodes
  <2> QED
    BY <1>1, <2>2, SideStays
<1>7. ASSUME NEW t \in Process!Tasks, Process!GroupRaises(t), out' = out PROVE SideInv'
  BY <1>2, <1>7, SideFails DEF Process!GroupRaises
<1>8. ASSUME NEW t \in Process!Tasks, Process!Enter(t) PROVE SideInv'
  <2>1. out' = out
    BY <1>8 DEF Process!Enter
  <2>2. UNCHANGED node \/ Process!GroupRaises(t)
    BY <1>8 DEF Process!Enter
  <2> QED
    BY <1>2, <1>7, <2>1, <2>2
<1>9. ASSUME NEW t \in Process!Tasks, Process!Reply(t) PROVE SideInv'
  <2>1. out' = out
    BY <1>9 DEF Process!Reply
  <2>2. \/ node' = node
        \/ \E w : node' = [node EXCEPT !.whole = w]
    BY <1>9 DEF Process!Reply
  <2>3. CASE node' = node
    BY <1>2, <2>1, <2>3
  <2>4. ASSUME NEW w, node' = [node EXCEPT !.whole = w] PROVE SideInv'
    <3>1. /\ node'.kind = node.kind /\ node'.mode = node.mode /\ node'.input = node.input
          /\ node'.attempt = node.attempt /\ node'.pc = node.pc
      BY <1>1, <2>4 DEF ProcessorNodes
    <3> QED
      BY <1>1, <2>1, <3>1, SideStays
  <2> QED
    BY <2>2, <2>3, <2>4
<1>10. ASSUME NEW t \in Process!Tasks, Process!CallFails(t) PROVE SideInv'
  <2>1. out' = out /\ Process!GroupRaises(t)
    BY <1>10 DEF Process!CallFails
  <2> QED
    BY <1>7, <2>1
<1> QED
  BY <1>2, <1>3, <1>4, <1>5, <1>6, <1>8, <1>9, <1>10 DEF Process!Next, Process!procVars

\* A node that has not started has no output.
LEMMA SideInit ==
  ASSUME Process!Init
  PROVE  SideInv
<1>1. node.pc = "start"
  BY DEF Process!Init
<1> QED
  BY <1>1 DEF SideInv

\* Records as they come in.
IsRecord(r) == r.good \in BOOLEAN /\ (r.score \in Int \/ r.score = Missing)

\* An answer is a sequence of verdicts.
IsReply(reply) ==
  /\ Len(reply) \in Nat /\ DOMAIN reply = 1..Len(reply)
  /\ \A k \in 1..Len(reply) : reply[k].passed \in BOOLEAN

\* What the verdict on a record has to be.
Good(r) ==
  IF node.kind = "simple_rules" THEN r.score # Missing /\ r.score >= Threshold ELSE r.good

\* An answer that has the verdict on every record of the group, at its place.
Full(reply, group) ==
  /\ Len(reply) = Len(group)
  /\ \A k \in 1..Len(reply) : /\ reply[k].idx \in {0, k} /\ reply[k].about = group[k].id
                              /\ reply[k].passed = Good(group[k])

\* A record the answer skips, or answers twice, still has a verdict.
LEMMA VerdictPasses ==
  ASSUME NEW reply, IsReply(reply), NEW i \in Nat \ {0}
  PROVE  Process!Verdict(i, reply).passed \in BOOLEAN
<1>1. PICK S : S = {k \in DOMAIN reply : reply[k].idx = i}
  OBVIOUS
<1>2. CASE S = {}
  <2>1. ~ \E k \in DOMAIN reply : reply[k].idx = i
    BY <1>1, <1>2
  <2>2. Process!Verdict(i, reply) = IF i <= Len(reply) THEN reply[i] ELSE Process!NoAnswer
    BY <2>1 DEF Process!Verdict
  <2>3. i <= Len(reply) => i \in 1..Len(reply)
    BY DEF IsReply
  <2>4. Process!NoAnswer.passed \in BOOLEAN
    BY DEF Process!NoAnswer
  <2> QED
    BY <2>2, <2>3, <2>4 DEF IsReply
<1>3. CASE S # {}
  <2>1. S \subseteq Nat
    BY <1>1 DEF IsReply
  <2>2. PICK k \in S : \A j \in S : k <= j
    BY <1>3, <2>1, Least
  <2>3. /\ k \in DOMAIN reply /\ reply[k].idx = i
        /\ \A j \in 1..k - 1 : reply[j].idx # i
    <3>1. k \in 1..Len(reply) /\ Len(reply) \in Nat
      BY <1>1, <2>2 DEF IsReply
    <3>2. ASSUME NEW j \in 1..k - 1, reply[j].idx = i PROVE FALSE
      <4>1. j \in 1..Len(reply) /\ j < k
        BY <3>1
      <4>2. j \in S
        BY <1>1, <3>2, <4>1 DEF IsReply
      <4>3. k <= j
        BY <2>2, <4>2
      <4> QED
        BY <3>1, <4>1, <4>3
    <3> QED
      BY <1>1, <2>2, <3>2
  <2>4. PICK c : c = CHOOSE m \in DOMAIN reply :
                       reply[m].idx = i /\ \A j \in 1..m - 1 : reply[j].idx # i
    OBVIOUS
  <2>5. c \in DOMAIN reply
    BY <2>3, <2>4, Zenon
  <2>6. Process!Verdict(i, reply) = reply[c]
    BY <2>3, <2>4 DEF Process!Verdict
  <2> QED
    BY <2>5, <2>6 DEF IsReply
<1> QED
  BY <1>2, <1>3

\* With a full answer every record gets its own verdict.
LEMMA VerdictOwn ==
  ASSUME NEW reply, NEW group, IsReply(reply), Full(reply, group), NEW i \in 1..Len(reply)
  PROVE  Process!Verdict(i, reply) = reply[i]
<1>1. \A k \in DOMAIN reply : reply[k].idx = i => k = i
  BY DEF Full, IsReply
<1>2. i \in DOMAIN reply /\ i <= Len(reply)
  BY DEF IsReply
<1>3. CASE reply[i].idx = i
  <2>1. \A j \in 1..i - 1 : reply[j].idx # i
    BY <1>1, <1>2 DEF IsReply
  <2>2. PICK c : c = CHOOSE m \in DOMAIN reply :
                       reply[m].idx = i /\ \A j \in 1..m - 1 : reply[j].idx # i
    OBVIOUS
  <2>3. c \in DOMAIN reply /\ reply[c].idx = i
    BY <1>2, <1>3, <2>1, <2>2, Zenon
  <2>4. Process!Verdict(i, reply) = reply[c]
    BY <1>2, <1>3, <2>2 DEF Process!Verdict
  <2> QED
    BY <1>1, <2>3, <2>4
<1>4. CASE reply[i].idx # i
  <2>1. ~ \E k \in DOMAIN reply : reply[k].idx = i
    BY <1>1, <1>4
  <2> QED
    BY <1>2, <2>1 DEF Process!Verdict
<1> QED
  BY <1>3, <1>4

\* What the model may answer; with nothing missing it is full.
LEMMA ReplyFacts ==
  ASSUME NEW U, NEW group \in Seq(U), \A i \in 1..Len(group) : IsRecord(group[i]),
         NEW reply \in Process!Replies(group)
  PROVE  /\ IsReply(reply)
         /\ node.kind # "simple_rules" /\ Process!Complete(group, reply) => Full(reply, group)
<1>1. CASE reply = Process!Garbled
  <2>1. Len(reply) = 1 /\ DOMAIN reply = 1..1 /\ reply[1].passed = FALSE
    BY <1>1 DEF Process!Garbled, Process!NoAnswer
  <2>2. 1 \in Nat /\ \A k \in 1..1 : k = 1
    OBVIOUS
  <2>3. IsReply(reply)
    BY <2>1, <2>2, Zenon DEF IsReply
  <2> QED
    BY <1>1, <2>3 DEF Process!Complete
<1>2. CASE \E S \in SUBSET DOMAIN group, base \in Process!Bases :
             reply = Process!Answer(group, S, base)
  <2>1. PICK S \in SUBSET DOMAIN group, base \in Process!Bases :
               reply = Process!Answer(group, S, base)
    BY <1>2
  <2>2. Process!Answer(group, S, base) =
          [k \in DOMAIN Rise(S) |->
             [idx |-> IF base = "none" THEN 0
                      ELSE IF base = "one" THEN Rise(S)[k] + 1 ELSE Rise(S)[k],
              about |-> group[Rise(S)[k]].id, passed |-> group[Rise(S)[k]].good]]
    BY DEF Process!Answer, Rise, Process!InOrder
  <2>3. DOMAIN group = 1..Len(group) /\ Len(group) \in Nat
    OBVIOUS
  <2>4. /\ IsFiniteSet(1..Len(group)) /\ Cardinality(1..Len(group)) = Len(group)
    <3>1. PICK n : n = Len(group)
      OBVIOUS
    <3>2. 1 \in Int /\ n \in Int /\ n \in Nat
      BY <2>3, <3>1
    <3>3. IsFiniteSet(1..n) /\ Cardinality(1..n) = IF 1 > n THEN 0 ELSE n - 1 + 1
      BY <3>2, FS_Interval
    <3> QED
      BY <3>1, <3>2, <3>3
  <2>5. IsFiniteSet(S) /\ S \subseteq Nat /\ S \subseteq 1..Len(group)
    BY <2>3, <2>4, FS_Subset
  <2>6. /\ Cardinality(S) \in Nat /\ Rise(S) \in [1..Cardinality(S) -> S]
    BY <2>5, Increasing
  <2>7. /\ DOMAIN reply = 1..Cardinality(S) /\ Len(reply) = Cardinality(S)
        /\ reply = [k \in 1..Cardinality(S) |->
             [idx |-> IF base = "none" THEN 0
                      ELSE IF base = "one" THEN Rise(S)[k] + 1 ELSE Rise(S)[k],
              about |-> group[Rise(S)[k]].id, passed |-> group[Rise(S)[k]].good]]
    BY <2>1, <2>2, <2>6
  <2>8. IsReply(reply)
    <3>1. \A k \in 1..Cardinality(S) : Rise(S)[k] \in 1..Len(group)
      BY <2>5, <2>6
    <3>2. \A k \in 1..Cardinality(S) : group[Rise(S)[k]].good \in BOOLEAN
      BY <3>1 DEF IsRecord
    <3>3. \A k \in 1..Cardinality(S) : reply[k].passed = group[Rise(S)[k]].good
      BY <2>7
    <3> QED
      BY <2>6, <2>7, <3>2, <3>3, Zenon DEF IsReply
  <2>9. ASSUME node.kind # "simple_rules", Process!Complete(group, reply) PROVE Full(reply, group)
    <3>5. Len(reply) = Len(group) /\ \A k \in DOMAIN reply : reply[k].idx \in {0, k}
      BY <2>9 DEF Process!Complete
    <3>1. S = 1..Len(group)
      BY <2>4, <2>5, <2>7, <3>5, FS_Subset
    <3>2. Rise(S) = [k \in 1..Len(group) |-> k]
      BY <2>3, <3>1, IncreasingAll
    <3>3. ASSUME NEW k \in 1..Len(reply)
          PROVE  /\ reply[k].idx \in {0, k} /\ reply[k].about = group[k].id
                 /\ reply[k].passed = group[k].good
      <4>1. k \in 1..Cardinality(S) /\ Rise(S)[k] = k
        BY <2>7, <3>2, <3>5
      <4>2. reply[k].about = group[k].id /\ reply[k].passed = group[k].good
        BY <2>7, <4>1
      <4>3. reply[k].idx \in {0, k}
        BY <3>5
      <4> QED
        BY <4>2, <4>3
    <3>4. \A k \in 1..Len(reply) : Good(group[k]) = group[k].good
      BY <2>9 DEF Good
    <3> QED
      BY <2>9, <3>3, <3>4, <3>5, Zenon DEF Full
  <2> QED
    BY <2>8, <2>9
<1> QED
  BY <1>1, <1>2 DEF Process!Replies

\* _evaluate_deterministic answers for every record, at its place.
LEMMA DeterministicFacts ==
  ASSUME RecordConstants, NEW U, NEW group \in Seq(U), \A i \in 1..Len(group) : IsRecord(group[i]),
         node.kind = "simple_rules", NEW reply, reply = Process!Deterministic(group)
  PROVE  IsReply(reply) /\ Full(reply, group)
<1>1. PICK n : n = Len(group)
  OBVIOUS
<1>2. n \in Nat /\ DOMAIN group = 1..n
  BY <1>1
<1>3. reply = [i \in 1..n |->
        [idx |-> i, about |-> group[i].id,
         passed |-> group[i].score # Missing /\ group[i].score >= Threshold]]
  BY <1>2 DEF Process!Deterministic
<1>4. Len(reply) = n /\ DOMAIN reply = 1..n
  BY <1>2, <1>3
<1>5. \A k \in 1..n : /\ reply[k].idx = k /\ reply[k].about = group[k].id
                      /\ reply[k].passed = (group[k].score # Missing /\ group[k].score >= Threshold)
  BY <1>3
<1>6. \A k \in 1..n : (group[k].score # Missing /\ group[k].score >= Threshold) \in BOOLEAN
  OBVIOUS
<1>7. IsReply(reply)
  BY <1>2, <1>4, <1>5, <1>6, Zenon DEF IsReply
<1>8. Full(reply, group)
  <2>1. \A k \in 1..n : reply[k].idx \in {0, k}
    BY <1>5
  <2> QED
    BY <1>1, <1>4, <1>5, <2>1, Zenon DEF Full, Good
<1> QED
  BY <1>7, <1>8

\* A row about a record, by this attempt, with its own verdict if own.
OfRecord(r, rec, own) ==
  /\ IsRow(r) /\ r.id = rec.id /\ r.try = node.attempt
  /\ own => r.by = rec.id /\ r.passed = Good(rec)

\* Every record has a row and every row a record.
Covers(p, group, own) ==
  /\ DOMAIN p = 1..Len(group) /\ p = [k \in 1..Len(group) |-> p[k]]
  /\ \A k \in 1..Len(group) : \E j \in 1..Len(group) : OfRecord(p[k], group[j], own)
  /\ \A j \in 1..Len(group) : \E k \in 1..Len(group) : OfRecord(p[k], group[j], own)
  /\ node.kind = "classifier" => \A k \in 1..Len(group) : OfRecord(p[k], group[k], own)

\* One ranking: numbered in order, the rows ahead first.
Numbered(r, n) ==
  /\ \A k \in 1..n : r[k].rank = k
  /\ \A a, b \in 1..n : a < b => Ahead(r[a], r[b])

\* Each row about the record at its place.
InPlace(p, group, own) ==
  /\ DOMAIN p = 1..Len(group) /\ p = [k \in 1..Len(group) |-> p[k]]
  /\ \A k \in 1..Len(group) : OfRecord(p[k], group[k], own)

\* A row at every record's place loses none.
LEMMA InPlaceCovers ==
  ASSUME NEW p, NEW group, NEW own, InPlace(p, group, own)
  PROVE  Covers(p, group, own)
BY DEF InPlace, Covers

\* Ranking loses no row.
LEMMA RankedCovers ==
  ASSUME NEW U, NEW group \in Seq(U), NEW own, NEW q, Covers(q, group, own),
         node.kind # "classifier", NEW r, r = Process!Ranked(q)
  PROVE  Covers(r, group, own) /\ Numbered(r, Len(group))
<1>1. PICK n : n = Len(group)
  OBVIOUS
<1>2. n \in Nat
  BY <1>1
<1>3. q = [k \in 1..n |-> q[k]] /\ \A k \in 1..n : IsRow(q[k])
  BY <1>1 DEF Covers, OfRecord
<1>4. PICK o : Sorts(o, q, n, r)
  BY <1>2, <1>3, RankedRows
<1>5. /\ o \in [1..n -> 1..n]
      /\ r = [k \in 1..n |-> [q[o[k]] EXCEPT !.rank = k]]
      /\ \A i \in 1..n : \E k \in 1..n : o[k] = i
      /\ \A a, b \in 1..n : a < b => Ahead(q[o[a]], q[o[b]])
  BY <1>4 DEF Sorts
<1>6. ASSUME NEW k \in 1..n
      PROVE  /\ IsRow(r[k]) /\ r[k].rank = k
             /\ r[k].id = q[o[k]].id /\ r[k].by = q[o[k]].by /\ r[k].passed = q[o[k]].passed
             /\ r[k].score = q[o[k]].score /\ r[k].try = q[o[k]].try
  <2>1. PICK x : x = q[o[k]]
    OBVIOUS
  <2>2. IsRow(x)
    BY <1>3, <1>5, <2>1
  <2>3. r[k] = [x EXCEPT !.rank = k]
    BY <1>5, <2>1
  <2>4. x = [id |-> x.id, by |-> x.by, passed |-> x.passed, score |-> x.score,
             rank |-> x.rank, try |-> x.try]
    BY <2>2 DEF IsRow
  <2>5. r[k] = [id |-> x.id, by |-> x.by, passed |-> x.passed, score |-> x.score,
                rank |-> k, try |-> x.try]
    BY <2>3, <2>4
  <2>6. /\ r[k].id = x.id /\ r[k].by = x.by /\ r[k].passed = x.passed
        /\ r[k].score = x.score /\ r[k].rank = k /\ r[k].try = x.try
    BY <2>5
  <2>7. IsRow(r[k])
    BY <2>2, <2>5, <2>6 DEF IsRow
  <2> QED
    BY <2>1, <2>6, <2>7
<1>7. ASSUME NEW k \in 1..n, NEW rec, OfRecord(q[o[k]], rec, own) PROVE OfRecord(r[k], rec, own)
  <2>1. /\ IsRow(r[k])
        /\ r[k].id = q[o[k]].id /\ r[k].by = q[o[k]].by /\ r[k].passed = q[o[k]].passed
        /\ r[k].try = q[o[k]].try
    BY <1>6
  <2> QED
    BY <1>7, <2>1, Zenon DEF OfRecord
<1>8. ASSUME NEW k \in 1..n PROVE \E j \in 1..n : OfRecord(r[k], group[j], own)
  <2>1. PICK j \in 1..n : OfRecord(q[o[k]], group[j], own)
    BY <1>1, <1>5 DEF Covers
  <2> QED
    BY <1>7, <2>1
<1>9. ASSUME NEW j \in 1..n PROVE \E k \in 1..n : OfRecord(r[k], group[j], own)
  <2>1. PICK i \in 1..n : OfRecord(q[i], group[j], own)
    BY <1>1 DEF Covers
  <2>2. PICK k \in 1..n : o[k] = i
    BY <1>5
  <2> QED
    BY <1>7, <2>1, <2>2
<1>10. Covers(r, group, own)
  <2>1. DOMAIN r = 1..n /\ r = [k \in 1..n |-> r[k]]
    BY <1>5
  <2> QED
    BY <1>1, <1>8, <1>9, <2>1, Zenon DEF Covers
<1>11. ASSUME NEW a \in 1..n, NEW b \in 1..n, a < b PROVE Ahead(r[a], r[b])
  <2>1. Ahead(q[o[a]], q[o[b]])
    BY <1>5, <1>11
  <2>2. /\ r[a].passed = q[o[a]].passed /\ r[a].score = q[o[a]].score
        /\ r[b].passed = q[o[b]].passed /\ r[b].score = q[o[b]].score
    BY <1>6
  <2> QED
    BY <2>1, <2>2 DEF Ahead
<1>12. Numbered(r, n)
  BY <1>6, <1>11, Zenon DEF Numbered
<1> QED
  BY <1>1, <1>10, <1>12

\* What becomes of a group.
LEMMA ProcessedRows ==
  ASSUME RecordConstants, NEW U, NEW group \in Seq(U),
         \A i \in 1..Len(group) : IsRecord(group[i]),
         NEW reply, IsReply(reply), NEW own, own => Full(reply, group),
         \/ node.kind \in Process!Matching
         \/ node.kind = "merging" /\ own,
         NEW p, p = Process!Processed(group, reply, node.attempt)
  PROVE  Covers(p, group, own)
<1>1. PICK n : n = Len(group)
  OBVIOUS
<1>2. n \in Nat /\ DOMAIN group = 1..n
  BY <1>1
<1>3. ASSUME NEW q, NEW score, NEW i \in 1..n, score \in Int,
             q = Process!Output(group[i].id, Process!Verdict(i, reply), score, node.attempt)
      PROVE  OfRecord(q, group[i], own)
  <2>1. PICK v : v = Process!Verdict(i, reply)
    OBVIOUS
  <2>2. v.passed \in BOOLEAN
    <3>1. i \in Nat \ {0}
      BY <1>2
    <3> QED
      BY <2>1, <3>1, VerdictPasses
  <2>3. own => v.about = group[i].id /\ v.passed = Good(group[i])
    <3> SUFFICES ASSUME own PROVE v.about = group[i].id /\ v.passed = Good(group[i])
      OBVIOUS
    <3>1. Full(reply, group) /\ i \in 1..Len(reply)
      BY <1>1 DEF Full
    <3>2. v = reply[i]
      BY <2>1, <3>1, VerdictOwn
    <3> QED
      BY <3>1, <3>2 DEF Full
  <2>4. q = [id |-> group[i].id, by |-> v.about, passed |-> v.passed, score |-> score,
             rank |-> 0, try |-> node.attempt]
    BY <1>3, <2>1 DEF Process!Output
  <2>5. /\ q.id = group[i].id /\ q.by = v.about /\ q.passed = v.passed /\ q.score = score
        /\ q.rank = 0 /\ q.try = node.attempt
    BY <2>4
  <2>6. IsRow(q)
    BY <1>3, <2>2, <2>4, <2>5 DEF IsRow
  <2> QED
    BY <2>3, <2>5, <2>6, Zenon DEF OfRecord
<1>4. CASE node.kind \in {"rules", "simple_rules"}
  <2>1. PICK q : q = [i \in DOMAIN group |->
          Process!Output(group[i].id, Process!Verdict(i, reply), Process!Score(group[i]), node.attempt)]
    OBVIOUS
  <2>2. p = Process!Ranked(q)
    BY <1>4, <2>1 DEF Process!Processed, Process!RulesOut
  <2>3. \A i \in 1..n : OfRecord(q[i], group[i], own)
    <3> SUFFICES ASSUME NEW i \in 1..n PROVE OfRecord(q[i], group[i], own)
      OBVIOUS
    <3>1. Process!Score(group[i]) \in Int
      BY <1>1 DEF Process!Score, IsRecord
    <3>2. q[i] = Process!Output(group[i].id, Process!Verdict(i, reply), Process!Score(group[i]),
                                node.attempt)
      BY <1>2, <2>1
    <3> QED
      BY <1>3, <3>1, <3>2
  <2>4. InPlace(q, group, own)
    BY <1>1, <1>2, <2>1, <2>3 DEF InPlace
  <2>5. Covers(q, group, own) /\ node.kind # "classifier"
    BY <1>4, <2>4, InPlaceCovers
  <2> QED
    BY <2>2, <2>5, RankedCovers
<1>5. CASE node.kind = "classifier"
  <2>1. p = [i \in DOMAIN group |->
          Process!Output(group[i].id, Process!Verdict(i, reply), 0, node.attempt)]
    BY <1>5 DEF Process!Processed, Process!ClassifierOut
  <2>2. \A i \in 1..n : OfRecord(p[i], group[i], own)
    <3> SUFFICES ASSUME NEW i \in 1..n PROVE OfRecord(p[i], group[i], own)
      OBVIOUS
    <3>1. p[i] = Process!Output(group[i].id, Process!Verdict(i, reply), 0, node.attempt) /\ 0 \in Int
      BY <1>2, <2>1
    <3> QED
      BY <1>3, <3>1
  <2>3. InPlace(p, group, own)
    BY <1>1, <1>2, <2>1, <2>2 DEF InPlace
  <2> QED
    BY <2>3, InPlaceCovers
<1>6. CASE node.kind = "merging" /\ own
  <2>1. Full(reply, group) /\ Len(reply) = n /\ DOMAIN reply = 1..n
    BY <1>1, <1>6 DEF Full, IsReply
  <2>2. p = [k \in DOMAIN reply |->
          Process!Output(IF TRUE /\ Len(reply) = Len(group) THEN group[k].id ELSE "new",
                         reply[k], 0, node.attempt)]
    BY <1>6 DEF Process!Processed, Process!LlmOut
  <2>3. ASSUME NEW i \in 1..n PROVE OfRecord(p[i], group[i], own)
    <3>1. i \in DOMAIN reply /\ i \in 1..Len(reply) /\ Len(reply) = Len(group)
      BY <1>1, <2>1
    <3>2. p[i] = Process!Output(group[i].id, reply[i], 0, node.attempt) /\ 0 \in Int
      BY <2>2, <3>1
    <3>3. Process!Verdict(i, reply) = reply[i]
      BY <2>1, <3>1, VerdictOwn
    <3>4. p[i] = Process!Output(group[i].id, Process!Verdict(i, reply), 0, node.attempt)
      BY <3>2, <3>3
    <3> QED
      BY <1>3, <3>2, <3>4
  <2>4. InPlace(p, group, own)
    BY <1>1, <2>1, <2>2, <2>3 DEF InPlace
  <2> QED
    BY <2>4, InPlaceCovers
<1> QED
  BY <1>4, <1>5, <1>6 DEF Process!Matching

\* A function on the first m numbers is a sequence.
LEMMA FunctionIsSeq ==
  ASSUME NEW m \in Nat, NEW V, NEW p \in [1..m -> V]
  PROVE  p \in Seq(V)
OBVIOUS

\* Pieces that cover their groups cover all of them when they are joined.
LEMMA JoinedCovers ==
  ASSUME NEW U, NEW n \in Nat, n > 0, NEW A, NEW B \in [1..n -> Seq(U)], NEW own,
         DOMAIN A = 1..n, A = [g \in 1..n |-> A[g]],
         \A g \in 1..n : Covers(A[g], B[g], own)
  PROVE  Covers(Process!FlattenSeq(A), Process!FlattenSeq(B), own)
<1>1. PICK V : V = UNION {{A[g][k] : k \in 1..Len(B[g])} : g \in 1..n}
  OBVIOUS
<1>2. ASSUME NEW g \in 1..n PROVE A[g] \in Seq(V) /\ Len(A[g]) = Len(B[g])
  <2>1. PICK m, p : m = Len(B[g]) /\ p = A[g]
    OBVIOUS
  <2>2. m \in Nat /\ p = [k \in 1..m |-> p[k]]
    BY <2>1 DEF Covers
  <2>7. m \in Nat
    BY <2>2
  <2>3. \A k \in 1..m : p[k] \in V
    BY <1>1, <2>1
  <2>4. p \in [1..m -> V]
    BY <2>2, <2>3
  <2>5. p \in Seq(V)
    BY <2>4, <2>7, FunctionIsSeq
  <2>6. Len(p) = m
    BY <2>2, <2>4
  <2> QED
    BY <2>1, <2>5, <2>6
<1>3. A \in [1..n -> Seq(V)]
  BY <1>2
<1>4. PICK p, q : p = Process!FlattenSeq(A) /\ q = Process!FlattenSeq(B)
  OBVIOUS
<1>5. p \in Seq(V) /\ q \in Seq(U) /\ Matched(A, B, n, p, q)
  BY <1>2, <1>3, <1>4, JoinedMatch
<1>6. /\ Len(p) = Len(q)
      /\ \A k \in 1..Len(p) : \E g \in 1..n : \E i \in 1..Len(A[g]) : p[k] = A[g][i] /\ q[k] = B[g][i]
      /\ \A g \in 1..n : \A i \in 1..Len(A[g]) : \E k \in 1..Len(p) : p[k] = A[g][i] /\ q[k] = B[g][i]
  BY <1>5 DEF Matched
<1>7. DOMAIN p = 1..Len(q) /\ p = [k \in 1..Len(q) |-> p[k]]
  <2>1. Len(p) = Len(q) /\ p \in Seq(V)
    BY <1>5, <1>6
  <2> QED
    BY <2>1
<1>8. ASSUME NEW k \in 1..Len(q) PROVE \E j \in 1..Len(q) : OfRecord(p[k], q[j], own)
  <2>1. PICK g \in 1..n : \E i \in 1..Len(A[g]) : p[k] = A[g][i] /\ q[k] = B[g][i]
    BY <1>6
  <2>2. PICK i \in 1..Len(A[g]) : p[k] = A[g][i] /\ q[k] = B[g][i]
    BY <2>1
  <2>3. PICK m \in 1..Len(A[g]) : OfRecord(A[g][i], B[g][m], own)
    BY <1>2, <2>2 DEF Covers
  <2>4. PICK j \in 1..Len(p) : p[j] = A[g][m] /\ q[j] = B[g][m]
    BY <1>6, <2>3
  <2> QED
    BY <1>6, <2>2, <2>3, <2>4
<1>9. ASSUME NEW j \in 1..Len(q) PROVE \E k \in 1..Len(q) : OfRecord(p[k], q[j], own)
  <2>1. PICK g \in 1..n : \E i \in 1..Len(A[g]) : p[j] = A[g][i] /\ q[j] = B[g][i]
    BY <1>6
  <2>2. PICK i \in 1..Len(A[g]) : p[j] = A[g][i] /\ q[j] = B[g][i]
    BY <2>1
  <2>3. PICK m \in 1..Len(A[g]) : OfRecord(A[g][m], B[g][i], own)
    BY <1>2, <2>2 DEF Covers
  <2>4. PICK k \in 1..Len(p) : p[k] = A[g][m] /\ q[k] = B[g][m]
    BY <1>6, <2>3
  <2> QED
    BY <1>6, <2>2, <2>3, <2>4
<1>10. ASSUME node.kind = "classifier", NEW k \in 1..Len(q) PROVE OfRecord(p[k], q[k], own)
  <2>1. PICK g \in 1..n : \E i \in 1..Len(A[g]) : p[k] = A[g][i] /\ q[k] = B[g][i]
    BY <1>6
  <2>2. PICK i \in 1..Len(A[g]) : p[k] = A[g][i] /\ q[k] = B[g][i]
    BY <2>1
  <2>3. OfRecord(A[g][i], B[g][i], own)
    BY <1>2, <1>10, <2>2 DEF Covers
  <2> QED
    BY <2>2, <2>3
<1>11. Covers(p, q, own)
  BY <1>7, <1>8, <1>9, <1>10, Zenon DEF Covers
<1> QED
  BY <1>4, <1>11

\* What an input is made of.
LEMMA InputFacts ==
  ASSUME ProcessorConstants, RecordConstants, node \in ProcessorNodes,
         NEW U, U = Process!ToSet(node.input)
  PROVE  /\ Len(node.input) \in Nat /\ node.input \in Seq(U)
         /\ U = {node.input[i] : i \in 1..Len(node.input)}
         /\ \A r \in U : IsRecord(r)
         /\ \A i, j \in 1..Len(node.input) : node.input[i].id = node.input[j].id => i = j
<1>1. node.input \in Inputs
  BY DEF ProcessorNodes
<1>2. /\ Len(node.input) \in Nat /\ node.input \in Seq(U)
      /\ \A i \in 1..Len(node.input) : IsRecord(node.input[i])
      /\ \A i, j \in 1..Len(node.input) : node.input[i].id = node.input[j].id => i = j
  BY <1>1 DEF ProcessorConstants, RecordConstants, IsRecord
<1>3. U = {node.input[i] : i \in 1..Len(node.input)}
  BY <1>2 DEF Process!ToSet
<1> QED
  BY <1>2, <1>3

\* The output of a completed node covers its input.
LEMMA OutCovers ==
  ASSUME ProcessorConstants, RecordConstants, ProcessorInv, SideInv, node.pc = "completed",
         node.kind \in Process!Matching \/ (node.kind = "merging" /\ node.whole)
  PROVE  /\ Covers(out, node.input, node.whole)
         /\ node.kind \in {"rules", "simple_rules"} => Numbered(out, Len(node.input))
<1>1. node \in ProcessorNodes /\ node.kind \notin Process!Plain
  BY DEF ProcessorInv, Process!Plain, Process!Matching
<1>2. PICK U : U = Process!ToSet(node.input)
  OBVIOUS
<1>3. PICK N, gs : N = Len(Process!Groups) /\ gs = Process!Groups
  OBVIOUS
<1>4. /\ N \in Nat /\ N > 0 /\ N <= Fanout /\ gs \in [1..N -> Seq(U)]
      /\ Process!FlattenSeq(gs) = node.input
  <2>1. Fits
    BY <1>1 DEF SideInv
  <2> QED
    BY <1>1, <1>2, <1>3, <2>1, GroupsJoined
<1>5. node.input \in Seq(U) /\ \A r \in U : IsRecord(r)
  BY <1>1, <1>2, InputFacts
<1>6. PICK R : R = SubSeq(result, 1, N)
  OBVIOUS
<1>7. DOMAIN R = 1..N /\ R = [g \in 1..N |-> R[g]] /\ \A g \in 1..N : R[g] = result[g]
  <2>1. PICK S : S = {result[g] : g \in 1..N}
    OBVIOUS
  <2>2. 1 \in Int /\ N \in Int /\ \A g \in 1..N : result[g] \in S
    BY <1>4, <2>1
  <2>3. /\ R \in Seq(S) /\ Len(R) = IF 1 <= N THEN N - 1 + 1 ELSE 0
        /\ \A i \in 1..N - 1 + 1 : R[i] = result[1 + i - 1]
    BY <1>6, <2>2, SubSeqProperties
  <2>4. Len(R) = N /\ N - 1 + 1 = N
    BY <1>4, <2>3
  <2>5. \A i \in 1..N : R[i] = result[i]
    BY <1>4, <2>3, <2>4
  <2>6. DOMAIN R = 1..N /\ R = [g \in 1..N |-> R[g]]
    BY <2>3, <2>4
  <2> QED
    BY <2>5, <2>6
<1>8. ASSUME NEW g \in 1..N PROVE Covers(R[g], gs[g], node.whole)
  <2>1. g \in Process!Slots /\ task[<<node.attempt, g>>] = "done"
    BY <1>1, <1>3, <1>4 DEF Process!Slots, ProcessorInv, OutInv, RecordConstants
  <2>2. Process!Outcome(g)
    BY <1>1, <2>1 DEF ProcessorInv, PlaceInv
  <2>3. gs[g] \in Seq(U) /\ \A i \in 1..Len(gs[g]) : IsRecord(gs[g][i])
    BY <1>4, <1>5
  <2>4. PICK p : p = result[g]
    OBVIOUS
  <2>5. CASE node.kind = "simple_rules"
    <3>1. PICK reply : reply = Process!Deterministic(gs[g])
      OBVIOUS
    <3>2. p = Process!Processed(gs[g], reply, node.attempt)
      BY <1>3, <2>2, <2>4, <2>5, <3>1 DEF Process!Outcome
    <3>3. IsReply(reply) /\ Full(reply, gs[g])
      BY <2>3, <2>5, <3>1, DeterministicFacts
    <3>4. Covers(p, gs[g], node.whole)
      BY <2>3, <3>2, <3>3, ProcessedRows
    <3> QED
      BY <1>7, <2>4, <3>4
  <2>6. CASE node.kind # "simple_rules"
    <3>1. PICK reply \in Process!Replies(gs[g]) :
             /\ p = Process!Processed(gs[g], reply, node.attempt)
             /\ node.whole => Process!Complete(gs[g], reply)
      BY <1>3, <2>2, <2>4, <2>6 DEF Process!Outcome
    <3>2. IsReply(reply) /\ (node.whole => Full(reply, gs[g]))
      BY <2>3, <2>6, <3>1, ReplyFacts
    <3>3. Covers(p, gs[g], node.whole)
      BY <2>3, <3>1, <3>2, ProcessedRows
    <3> QED
      BY <1>7, <2>4, <3>3
  <2> QED
    BY <2>5, <2>6
<1>9. PICK E : E = Process!FlattenSeq(R)
  OBVIOUS
<1>10. Covers(E, node.input, node.whole)
  <2>1. Covers(Process!FlattenSeq(R), Process!FlattenSeq(gs), node.whole)
    BY <1>4, <1>7, <1>8, JoinedCovers
  <2> QED
    BY <1>4, <1>9, <2>1
<1>11. out = Process!Finished(E)
  BY <1>1, <1>3, <1>6, <1>9 DEF ProcessorInv, OutInv
<1>12. CASE node.kind \in {"rules", "simple_rules"}
  <2>1. out = Process!Ranked(E) /\ node.kind # "classifier"
    BY <1>11, <1>12 DEF Process!Finished
  <2> QED
    BY <1>5, <1>10, <2>1, RankedCovers
<1>13. CASE node.kind \notin {"rules", "simple_rules"}
  BY <1>10, <1>11, <1>13 DEF Process!Finished
<1> QED
  BY <1>12, <1>13

\* Every record comes out once, and in order from the Classifier.
LEMMA OnceFromCovers ==
  ASSUME ProcessorConstants, RecordConstants, node \in ProcessorNodes,
         Covers(out, node.input, node.whole)
  PROVE  Process!EveryRecordOnce
<1>1. PICK n, s : n = Len(node.input) /\ s = node.input
  OBVIOUS
<1>2. /\ n \in Nat /\ DOMAIN s = 1..n /\ DOMAIN out = 1..n /\ out = [k \in 1..n |-> out[k]]
      /\ \A k \in 1..n : \E j \in 1..n : OfRecord(out[k], s[j], node.whole)
      /\ \A j \in 1..n : \E k \in 1..n : OfRecord(out[k], s[j], node.whole)
      /\ node.kind = "classifier" => \A k \in 1..n : OfRecord(out[k], s[k], node.whole)
  <2>1. n \in Nat /\ s \in Seq(Process!ToSet(s))
    BY <1>1, InputFacts
  <2>2. DOMAIN s = 1..n
    BY <1>1, <2>1
  <2> QED
    BY <1>1, <2>1, <2>2 DEF Covers
<1>3. Len(out) = n
  BY <1>2
<1>4. PICK p, q : p = [k \in 1..n |-> out[k].id] /\ q = [k \in 1..n |-> s[k].id]
  OBVIOUS
<1>5. Process!Ids(out) = p /\ Process!Ids(s) = q
  BY <1>2, <1>4 DEF Process!Ids
<1>6. ASSUME NEW k \in 1..n
      PROVE  out[k].try = node.attempt /\ \E j \in 1..n : p[k] = q[j]
  <2>1. PICK j \in 1..n : OfRecord(out[k], s[j], node.whole)
    BY <1>2
  <2> QED
    BY <1>4, <2>1 DEF OfRecord
<1>7. ASSUME NEW j \in 1..n PROVE \E k \in 1..n : p[k] = q[j]
  <2>1. PICK k \in 1..n : OfRecord(out[k], s[j], node.whole)
    BY <1>2
  <2> QED
    BY <1>4, <2>1 DEF OfRecord
<1>8. Process!ToSet(p) = Process!ToSet(q)
  <2>1. Process!ToSet(p) = {p[k] : k \in 1..n} /\ Process!ToSet(q) = {q[k] : k \in 1..n}
    BY <1>4 DEF Process!ToSet
  <2> QED
    BY <1>6, <1>7, <2>1
<1>9. ASSUME node.kind = "classifier" PROVE p = q
  <2>1. \A k \in 1..n : OfRecord(out[k], s[k], node.whole)
    BY <1>2, <1>9
  <2>2. \A k \in 1..n : p[k] = q[k]
    BY <1>4, <2>1 DEF OfRecord
  <2> QED
    BY <1>4, <2>2
<1> QED
  BY <1>1, <1>2, <1>3, <1>5, <1>6, <1>8, <1>9 DEF Process!EveryRecordOnce

\* With nothing missing in the answers every row has its own verdict.
LEMMA OwnFromCovers ==
  ASSUME ProcessorConstants, RecordConstants, node \in ProcessorNodes,
         Covers(out, node.input, TRUE)
  PROVE  Process!OwnAnswer
<1>1. PICK n, s, U : n = Len(node.input) /\ s = node.input /\ U = Process!ToSet(node.input)
  OBVIOUS
<1>2. /\ DOMAIN out = 1..n
      /\ \A k \in 1..n : \E j \in 1..n : OfRecord(out[k], s[j], TRUE)
  BY <1>1 DEF Covers
<1>3. /\ U = {s[i] : i \in 1..n} /\ \A i, j \in 1..n : s[i].id = s[j].id => i = j
  <2>1. /\ U = {node.input[i] : i \in 1..Len(node.input)}
        /\ \A i, j \in 1..Len(node.input) : node.input[i].id = node.input[j].id => i = j
    BY <1>1, InputFacts
  <2> QED
    BY <1>1, <2>1
<1>4. ASSUME NEW k \in DOMAIN out
      PROVE  /\ out[k].by = out[k].id
             /\ out[k].passed = IF node.kind = "simple_rules"
                                THEN Process!Record(out[k].id).score # Missing
                                       /\ Process!Record(out[k].id).score >= Threshold
                                ELSE Process!Record(out[k].id).good
  <2>1. PICK j \in 1..n : OfRecord(out[k], s[j], TRUE)
    BY <1>2
  <2>2. out[k].id = s[j].id /\ out[k].by = s[j].id /\ out[k].passed = Good(s[j])
    BY <2>1, Zenon DEF OfRecord
  <2>3. s[j] \in U /\ \A r \in U : r.id = out[k].id => r = s[j]
    BY <1>3, <2>2
  <2>4. Process!Record(out[k].id) = CHOOSE r \in U : r.id = out[k].id
    BY <1>1 DEF Process!Record
  <2>5. Process!Record(out[k].id) = s[j]
    BY <2>2, <2>3, <2>4
  <2>6. out[k].passed = Good(Process!Record(out[k].id))
    BY <2>2, <2>5
  <2>7. out[k].by = out[k].id
    BY <2>2
  <2> QED
    BY <2>6, <2>7, Zenon DEF Good
<1> QED
  BY <1>4, Zenon DEF Process!OwnAnswer

\* RulesEngineNode.execute ranks again after the groups are joined.
LEMMA RankingFromCovers ==
  ASSUME ProcessorConstants, RecordConstants, node \in ProcessorNodes,
         Covers(out, node.input, node.whole), Numbered(out, Len(node.input))
  PROVE  Process!OneRanking
<1>1. PICK n : n = Len(node.input)
  OBVIOUS
<1>2. /\ n \in Nat /\ DOMAIN out = 1..n
      /\ \A k \in 1..n : \E j \in 1..n : OfRecord(out[k], node.input[j], node.whole)
      /\ \A k \in 1..n : out[k].rank = k
      /\ \A a, b \in 1..n : a < b => Ahead(out[a], out[b])
  BY <1>1, InputFacts DEF Covers, Numbered
<1>3. ASSUME NEW k \in 1..n, k > 1
      PROVE  \/ out[k - 1].passed /\ ~out[k].passed
             \/ out[k - 1].passed = out[k].passed /\ out[k - 1].score >= out[k].score
  <2>1. PICK j : j = k - 1
    OBVIOUS
  <2>2. j \in 1..n /\ j < k
    BY <1>2, <1>3, <2>1
  <2>3. Ahead(out[j], out[k])
    BY <1>2, <2>2
  <2>4. \/ out[j].passed /\ ~out[k].passed
        \/ out[j].passed = out[k].passed /\ out[j].score >= out[k].score
    BY <2>3, Zenon DEF Ahead
  <2> QED
    BY <2>1, <2>4
<1> QED
  BY <1>2, <1>3 DEF Process!OneRanking

\* One record more: its key is new, or taken.
AddOne(order, r, keep) ==
  LET same == {k \in DOMAIN order : /\ Process!KeyFor(r) # <<>>
                                    /\ Process!KeyFor(order[k]) = Process!KeyFor(r)} IN
  IF same = {} THEN Append(order, r)
  ELSE IF keep = "last" THEN [k \in DOMAIN order |-> IF k \in same THEN r ELSE order[k]]
  ELSE order

\* The fold of the records up to each of them, as a function of the set of places.
Top(S) == Process!Max(S)
Fold(f, ss, s, keep) ==
  IF ss = {} THEN <<>> ELSE AddOne(f[ss \ {Top(ss)}], s[Top(ss)], keep)
Folds(f, n, s, keep) == f = [ss \in SUBSET (1..n) |-> Fold(f, ss, s, keep)]

\* Places have a last one.
LEMMA TopFacts ==
  ASSUME NEW n \in Nat, NEW S, S \subseteq 1..n, S # {}
  PROVE  Top(S) \in S /\ \A i \in S : i <= Top(S)
<1>1. PICK T : T = {n - i : i \in S}
  OBVIOUS
<1>2. T \subseteq Nat /\ T # {}
  <2>1. \A i \in S : n - i \in Nat
    OBVIOUS
  <2> QED
    BY <1>1, <2>1
<1>3. PICK t \in T : \A u \in T : t <= u
  BY <1>2, Least
<1>4. PICK m \in S : t = n - m
  BY <1>1, <1>3
<1>5. ASSUME NEW i \in S PROVE m >= i
  <2>1. n - m <= n - i
    BY <1>1, <1>3, <1>4
  <2>2. m \in Int /\ i \in Int
    OBVIOUS
  <2> QED
    BY <2>1, <2>2
<1>6. \E x \in S : \A y \in S : x >= y
  BY <1>5
<1>7. Top(S) = CHOOSE x \in S : \A y \in S : x >= y
  BY DEF Top, Process!Max
<1>8. Top(S) \in S /\ \A y \in S : Top(S) >= y
  BY <1>6, <1>7
<1> QED
  BY <1>8

\* There is such a function: by the number of the places.
LEMMA FoldExists ==
  ASSUME NEW n \in Nat, NEW s, NEW keep
  PROVE  \E f : Folds(f, n, s, keep)
<1>1. PICK D : D = [c \in 0..n |-> {ss \in SUBSET (1..n) : Cardinality(ss) <= c}]
  OBVIOUS
<1>2. PICK K : K = {c \in 0..n : \E f : f = [ss \in D[c] |-> Fold(f, ss, s, keep)]}
  OBVIOUS
<1>3. ASSUME NEW ss \in SUBSET (1..n)
      PROVE  /\ IsFiniteSet(ss) /\ Cardinality(ss) \in 0..n
             /\ ss # {} => Top(ss) \in ss /\ Cardinality(ss \ {Top(ss)}) = Cardinality(ss) - 1
  <2>1. IsFiniteSet(1..n) /\ Cardinality(1..n) = n
    <3>1. 1 \in Int /\ n \in Int
      OBVIOUS
    <3>2. IsFiniteSet(1..n) /\ Cardinality(1..n) = IF 1 > n THEN 0 ELSE n - 1 + 1
      BY <3>1, FS_Interval
    <3> QED
      BY <3>2
  <2>2. IsFiniteSet(ss) /\ Cardinality(ss) <= n
    BY <2>1, FS_Subset
  <2>3. Cardinality(ss) \in Nat
    BY <2>2, FS_CardinalityType
  <2>4. ss # {} => Top(ss) \in ss
    BY TopFacts
  <2>5. ss # {} => Cardinality(ss \ {Top(ss)}) = Cardinality(ss) - 1
    BY <2>2, <2>4, FS_RemoveElement
  <2> QED
    BY <2>2, <2>3, <2>4, <2>5
<1>4. 0 \in K
  <2>1. PICK f : f = [ss \in D[0] |-> <<>>]
    OBVIOUS
  <2>2. ASSUME NEW ss \in D[0] PROVE ss = {}
    <3>1. ss \in SUBSET (1..n) /\ Cardinality(ss) <= 0
      BY <1>1
    <3>2. IsFiniteSet(ss) /\ Cardinality(ss) \in 0..n
      BY <1>3, <3>1
    <3>3. Cardinality(ss) = 0
      BY <3>1, <3>2
    <3> QED
      BY <3>2, <3>3, FS_EmptySet
  <2>3. \A ss \in D[0] : Fold(f, ss, s, keep) = <<>>
    BY <2>2 DEF Fold
  <2>4. f = [ss \in D[0] |-> Fold(f, ss, s, keep)]
    BY <2>1, <2>3
  <2>5. \E g : g = [ss \in D[0] |-> Fold(g, ss, s, keep)]
    BY <2>4, Zenon
  <2>6. 0 \in 0..n
    OBVIOUS
  <2> QED
    BY <1>2, <2>5, <2>6, Zenon
<1>5. ASSUME NEW c \in 0..n, c \in K, c < n PROVE c + 1 \in K
  <2>1. PICK f : f = [ss \in D[c] |-> Fold(f, ss, s, keep)]
    BY <1>2, <1>5, Zenon
  <2>2. PICK d : d = c + 1
    OBVIOUS
  <2>3. d \in 0..n
    BY <1>5, <2>2
  <2>4. PICK g : g = [ss \in D[d] |-> Fold(f, ss, s, keep)]
    OBVIOUS
  <2>5. ASSUME NEW ss \in D[d] PROVE Fold(g, ss, s, keep) = Fold(f, ss, s, keep)
    <3>1. CASE ss = {}
      BY <3>1 DEF Fold
    <3>2. CASE ss # {}
      <4>1. PICK tt : tt = ss \ {Top(ss)}
        OBVIOUS
      <4>2. ss \in SUBSET (1..n) /\ Cardinality(ss) <= d
        BY <1>1, <2>3
      <4>3. tt \in SUBSET (1..n) /\ Cardinality(tt) = Cardinality(ss) - 1 /\ Cardinality(ss) \in 0..n
        BY <1>3, <3>2, <4>1, <4>2
      <4>4. Cardinality(tt) <= c /\ Cardinality(tt) <= d
        BY <2>2, <4>2, <4>3
      <4>5. tt \in D[c] /\ tt \in D[d]
        BY <1>1, <2>3, <4>3, <4>4
      <4>6. g[tt] = Fold(f, tt, s, keep) /\ f[tt] = Fold(f, tt, s, keep)
        BY <2>1, <2>4, <4>5
      <4>7. g[tt] = f[tt]
        BY <4>6
      <4> QED
        BY <3>2, <4>1, <4>7 DEF Fold
    <3> QED
      BY <3>1, <3>2
  <2>6. g = [ss \in D[d] |-> Fold(g, ss, s, keep)]
    BY <2>4, <2>5
  <2>7. \E h : h = [ss \in D[d] |-> Fold(h, ss, s, keep)]
    BY <2>6, Zenon
  <2>8. d \in K
    BY <1>2, <2>3, <2>7, Zenon
  <2> QED
    BY <2>2, <2>8
<1>6. n \in K
  <2>1. \A c \in 0..n : c \in K
    BY <1>4, <1>5, Climb
  <2> QED
    BY <2>1
<1>7. PICK f : f = [ss \in D[n] |-> Fold(f, ss, s, keep)]
  BY <1>2, <1>6, Zenon
<1>8. D[n] = SUBSET (1..n)
  <2>1. \A ss \in SUBSET (1..n) : Cardinality(ss) <= n
    <3> SUFFICES ASSUME NEW ss \in SUBSET (1..n) PROVE Cardinality(ss) <= n
      OBVIOUS
    <3>1. Cardinality(ss) \in 0..n
      BY <1>3
    <3> QED
      BY <3>1
  <2>2. n \in 0..n
    OBVIOUS
  <2> QED
    BY <1>1, <2>1, <2>2
<1> QED
  BY <1>7, <1>8, Zenon DEF Folds

\* Deduplication takes the records one after the other: h[i] is what the first i make.
Takes(h, s, n, keep) == h[0] = <<>> /\ \A i \in 1..n : h[i] = AddOne(h[i - 1], s[i], keep)

\* So Deduplicated, a fold, takes the records one after the other.
LEMMA DedupSteps ==
  ASSUME NEW n \in Nat, NEW s, DOMAIN s = 1..n, NEW keep
  PROVE  \E h : Process!Deduplicated(s, keep) = h[n] /\ Takes(h, s, n, keep)
<1>1. PICK f : f = CHOOSE g : g = [ss \in SUBSET (DOMAIN s) |-> Fold(g, ss, s, keep)]
  OBVIOUS
<1>2. f = [ss \in SUBSET (1..n) |-> Fold(f, ss, s, keep)]
  <2>1. \E g : Folds(g, n, s, keep)
    BY FoldExists
  <2> QED
    BY <1>1, <2>1, Zenon DEF Folds
<1>3. Process!Deduplicated(s, keep) = f[DOMAIN s]
  BY <1>1 DEF Process!Deduplicated, Process!FoldLeft, Process!MapThenFoldSet, Fold, AddOne, Top
<1>4. PICK h : h = [i \in 0..n |-> f[1..i]]
  OBVIOUS
<1>5. h[0] = <<>>
  <2>1. 1..0 = {} /\ {} \in SUBSET (1..n) /\ 0 \in 0..n
    OBVIOUS
  <2>2. f[{}] = Fold(f, {}, s, keep)
    BY <1>2, <2>1
  <2> QED
    BY <1>4, <2>1, <2>2 DEF Fold
<1>6. ASSUME NEW i \in 1..n PROVE h[i] = AddOne(h[i - 1], s[i], keep)
  <2>1. PICK ss, j : ss = 1..i /\ j = i - 1
    OBVIOUS
  <2>2. ss \in SUBSET (1..n) /\ ss # {} /\ i \in ss /\ \A k \in ss : k <= i
    BY <2>1
  <2>3. Top(ss) = i
    <3>1. Top(ss) \in ss /\ \A k \in ss : k <= Top(ss)
      BY <2>2, TopFacts
    <3>2. PICK m : m = Top(ss)
      OBVIOUS
    <3>3. m \in ss /\ i <= m /\ m <= i
      BY <2>2, <3>1, <3>2
    <3>4. m \in Int
      BY <2>2, <3>3
    <3> QED
      BY <3>2, <3>3, <3>4
  <2>4. ss \ {i} = 1..j
    BY <2>1
  <2>5. f[ss] = Fold(f, ss, s, keep)
    BY <1>2, <2>2
  <2>6. f[ss] = AddOne(f[1..j], s[i], keep)
    BY <2>2, <2>3, <2>4, <2>5 DEF Fold
  <2>7. i \in 0..n /\ j \in 0..n
    BY <2>1
  <2>8. h[i] = f[ss] /\ h[j] = f[1..j]
    BY <1>4, <2>1, <2>7
  <2> QED
    BY <2>1, <2>6, <2>8
<1>7. h[n] = f[DOMAIN s]
  BY <1>4
<1> QED
  BY <1>3, <1>5, <1>6, <1>7 DEF Takes

\* The records with the key of the i-th one, and the first ones of every key.
Like(s, i) ==
  {j \in DOMAIN s : \/ j = i
                    \/ /\ Process!KeyFor(s[i]) # <<>>
                       /\ Process!KeyFor(s[j]) = Process!KeyFor(s[i])}
Heads(s) == {i \in DOMAIN s : \A j \in Like(s, i) : i <= j}
HeadsTo(s, k) == {i \in Heads(s) : i <= k}

\* Which record stands for the key that came up with i, after k records.
StandsFor(j, i, s, k, keep) ==
  /\ j \in 1..k /\ j \in Like(s, i)
  /\ IF keep = "last" THEN \A l \in Like(s, i) : l <= k => l <= j ELSE j = i

\* What is kept after k records: one record for every head so far, in their order.
Stage(p, s, k, keep) ==
  /\ p = [x \in 1..Cardinality(HeadsTo(s, k)) |-> p[x]]
  /\ \A x \in 1..Cardinality(HeadsTo(s, k)) :
       \E j : p[x] = s[j] /\ StandsFor(j, Rise(HeadsTo(s, k))[x], s, k, keep)

\* Having the same key is an equivalence.
LEMMA LikeFacts ==
  ASSUME NEW n \in Nat, NEW s, DOMAIN s = 1..n, NEW i \in 1..n
  PROVE  /\ i \in Like(s, i) /\ Like(s, i) \subseteq 1..n
         /\ \A j \in 1..n : j \in Like(s, i) <=> i \in Like(s, j)
         /\ \A j, l \in 1..n : j \in Like(s, i) /\ l \in Like(s, j) => l \in Like(s, i)
         /\ \A j \in Like(s, i) : Process!KeyFor(s[j]) = Process!KeyFor(s[i])
BY DEF Like

\* The heads so far can be put in order.
LEMMA HeadsFacts ==
  ASSUME NEW n \in Nat, NEW s, DOMAIN s = 1..n, NEW k \in 0..n
  PROVE  /\ HeadsTo(s, k) \subseteq Nat /\ HeadsTo(s, k) \subseteq 1..k
         /\ IsFiniteSet(HeadsTo(s, k)) /\ Cardinality(HeadsTo(s, k)) \in Nat
<1>1. HeadsTo(s, k) \subseteq 1..k
  BY DEF HeadsTo, Heads
<1>2. 1 \in Int /\ k \in Int
  OBVIOUS
<1>3. IsFiniteSet(1..k)
  BY <1>2, FS_Interval
<1>4. IsFiniteSet(HeadsTo(s, k))
  BY <1>1, <1>3, FS_Subset
<1> QED
  BY <1>1, <1>4, FS_CardinalityType

\* The taken key of a record that is no head came up with a head before it.
LEMMA HeadBefore ==
  ASSUME NEW n \in Nat, NEW s, DOMAIN s = 1..n, NEW i \in 1..n, i \notin Heads(s)
  PROVE  \E j \in Heads(s) : j < i /\ j \in Like(s, i)
<1>1. i \in Like(s, i) /\ Like(s, i) \subseteq 1..n
  BY LikeFacts
<1>2. Like(s, i) \subseteq Nat /\ Like(s, i) # {}
  BY <1>1
<1>3. PICK j \in Like(s, i) : \A l \in Like(s, i) : j <= l
  BY <1>2, Least
<1>4. j \in 1..n /\ i \in 1..n
  BY <1>1, <1>3
<1>5. j \in Heads(s)
  <2>1. \A l \in Like(s, j) : l \in 1..n /\ l \in Like(s, i)
    BY <1>3, <1>4, LikeFacts
  <2> QED
    BY <1>3, <1>4, <2>1 DEF Heads
<1>6. j # i
  BY <1>5
<1>7. j <= i
  BY <1>1, <1>3
<1> QED
  BY <1>3, <1>4, <1>5, <1>6, <1>7

\* The places whose key is that of the next record.
LEMMA SameKey ==
  ASSUME NEW n \in Nat, NEW s, DOMAIN s = 1..n, NEW k \in 0..n, k < n, NEW keep,
         NEW p, Stage(p, s, k, keep), NEW H, H = HeadsTo(s, k),
         NEW x \in 1..Cardinality(H), NEW i, i = k + 1
  PROVE  /\ Rise(H)[x] \in H
         /\ i \in Like(s, Rise(H)[x]) <=>
              /\ Process!KeyFor(s[i]) # <<>>
              /\ Process!KeyFor(p[x]) = Process!KeyFor(s[i])
<1>1. PICK a : a = Rise(H)[x]
  OBVIOUS
<1>2. a \in H /\ a \in 1..k /\ a \in 1..n /\ i \in 1..n /\ i # a
  <2>1. H \subseteq Nat /\ H \subseteq 1..k /\ IsFiniteSet(H)
    BY HeadsFacts
  <2>2. Rise(H) \in [1..Cardinality(H) -> H]
    BY <2>1, Increasing
  <2>3. a \in H
    BY <1>1, <2>2
  <2> QED
    BY <2>1, <2>3
<1>3. PICK j : p[x] = s[j] /\ StandsFor(j, a, s, k, keep)
  BY <1>1 DEF Stage
<1>4. j \in Like(s, a)
  BY <1>3 DEF StandsFor
<1>5. Process!KeyFor(p[x]) = Process!KeyFor(s[a])
  BY <1>2, <1>3, <1>4, LikeFacts
<1>6. i \in Like(s, a) <=> /\ Process!KeyFor(s[a]) # <<>>
                           /\ Process!KeyFor(s[i]) = Process!KeyFor(s[a])
  BY <1>2 DEF Like
<1> QED
  BY <1>1, <1>2, <1>5, <1>6

\* The first record of a key goes to the end.
LEMMA StageNew ==
  ASSUME NEW n \in Nat, NEW s, DOMAIN s = 1..n, NEW k \in 0..n, k < n, NEW keep,
         NEW p, Stage(p, s, k, keep), NEW i, i = k + 1, i \in Heads(s),
         NEW q, q = AddOne(p, s[i], keep)
  PROVE  Stage(q, s, i, keep)
<1>1. PICK H, G, m : H = HeadsTo(s, k) /\ G = HeadsTo(s, i) /\ m = Cardinality(H)
  OBVIOUS
<1>2. H \subseteq Nat /\ H \subseteq 1..k /\ IsFiniteSet(H) /\ m \in Nat /\ i \in 1..n
  BY <1>1, HeadsFacts
<1>3. G = H \cup {i} /\ \A a \in H : a < i
  <2>1. \A a \in 1..n : a <= i <=> a <= k \/ a = i
    BY <1>2
  <2>2. Heads(s) \subseteq 1..n
    BY DEF Heads
  <2>3. \A a \in H : a < i
    BY <1>2
  <2> QED
    BY <1>1, <1>2, <2>1, <2>2, <2>3 DEF HeadsTo
<1>4. /\ Cardinality(G) = m + 1 /\ Rise(G)[m + 1] = i
      /\ \A x \in 1..m : Rise(G)[x] = Rise(H)[x]
  <2>1. i \in Nat
    BY <1>2
  <2>2. /\ Cardinality(H \cup {i}) = m + 1 /\ Rise(H \cup {i})[m + 1] = i
        /\ \A x \in 1..m : Rise(H \cup {i})[x] = Rise(H)[x]
    <3>1. H \subseteq Nat /\ IsFiniteSet(H) /\ m = Cardinality(H) /\ \A a \in H : a < i
      BY <1>1, <1>2, <1>3
    <3>2. RiseEnds(H, i)
      BY <2>1, <3>1, IncreasingOne
    <3> QED
      BY <3>1, <3>2 DEF RiseEnds
  <2> QED
    BY <1>3, <2>2
<1>5. p = [x \in 1..m |-> p[x]] /\ DOMAIN p = 1..m
  BY <1>1 DEF Stage
<1>6. ASSUME NEW x \in 1..m PROVE Rise(H)[x] \in H /\ i \notin Like(s, Rise(H)[x])
  <2>1. PICK a : a = Rise(H)[x]
    OBVIOUS
  <2>2. a \in H
    BY <1>1, <2>1, SameKey
  <2>3. a \in 1..n /\ a < i /\ a \in Int /\ i \in Int
    BY <1>2, <1>3, <2>2
  <2>4. i \in Like(s, a) => a \in Like(s, i)
    BY <1>2, <2>3, LikeFacts
  <2>5. a \notin Like(s, i)
    BY <2>3 DEF Heads
  <2> QED
    BY <2>1, <2>2, <2>4, <2>5
<1>7. {x \in DOMAIN p : /\ Process!KeyFor(s[i]) # <<>>
                        /\ Process!KeyFor(p[x]) = Process!KeyFor(s[i])} = {}
  <2>1. ASSUME NEW x \in 1..m
        PROVE  ~(/\ Process!KeyFor(s[i]) # <<>>
                 /\ Process!KeyFor(p[x]) = Process!KeyFor(s[i]))
    BY <1>1, <1>6, SameKey
  <2> QED
    BY <1>5, <2>1
<1>8. q = Append(p, s[i])
  BY <1>7 DEF AddOne
<1>9. /\ q = [x \in 1..m + 1 |-> q[x]] /\ q[m + 1] = s[i]
      /\ \A x \in 1..m : q[x] = p[x]
  <2>1. PICK V : V = {p[x] : x \in 1..m} \cup {s[i]}
    OBVIOUS
  <2>2. p \in [1..m -> V]
    <3>1. \A x \in 1..m : p[x] \in V
      BY <2>1
    <3> QED
      BY <1>5, <3>1
  <2>3. p \in Seq(V) /\ s[i] \in V
    BY <1>2, <2>1, <2>2, FunctionIsSeq
  <2>4. Len(p) = m
    BY <1>2, <2>2
  <2>5. /\ Append(p, s[i]) \in Seq(V) /\ Len(Append(p, s[i])) = m + 1
        /\ Append(p, s[i])[m + 1] = s[i] /\ \A x \in 1..m : Append(p, s[i])[x] = p[x]
    BY <2>3, <2>4, AppendProperties
  <2>6. q \in Seq(V) /\ Len(q) = m + 1
    BY <1>8, <2>5
  <2>7. q = [x \in 1..m + 1 |-> q[x]]
    BY <2>6
  <2>8. q[m + 1] = s[i]
    BY <1>8, <2>5
  <2>9. \A x \in 1..m : q[x] = p[x]
    BY <1>8, <2>5
  <2> QED
    BY <2>7, <2>8, <2>9
<1>10. ASSUME NEW x \in 1..m + 1
       PROVE  \E j : q[x] = s[j] /\ StandsFor(j, Rise(G)[x], s, i, keep)
  <2>1. CASE x = m + 1
    <3>1. q[x] = s[i] /\ Rise(G)[x] = i
      BY <1>4, <1>9, <2>1
    <3>2. StandsFor(i, i, s, i, keep)
      <4>1. i \in Like(s, i) /\ i \in 1..i
        BY <1>2, LikeFacts
      <4> QED
        BY <4>1 DEF StandsFor
    <3> QED
      BY <3>1, <3>2
  <2>2. CASE x # m + 1
    <3>1. x \in 1..m
      BY <1>2, <2>2
    <3>2. PICK a : a = Rise(H)[x]
      OBVIOUS
    <3>3. PICK j : p[x] = s[j] /\ StandsFor(j, a, s, k, keep)
      BY <1>1, <3>1, <3>2 DEF Stage
    <3>4. q[x] = s[j] /\ Rise(G)[x] = a /\ i \notin Like(s, a) /\ a \in 1..n
      <4>1. q[x] = s[j]
        BY <1>9, <3>1, <3>3
      <4>2. Rise(G)[x] = a
        BY <1>4, <3>1, <3>2
      <4>3. a \in H /\ i \notin Like(s, a)
        BY <1>6, <3>1, <3>2
      <4>4. a \in 1..k
        BY <1>2, <4>3
      <4>5. a \in 1..n
        BY <4>4
      <4> QED
        BY <4>1, <4>2, <4>3, <4>5
    <3>5. StandsFor(j, a, s, i, keep)
      <4>1. j \in 1..k /\ j \in Like(s, a)
        BY <3>3 DEF StandsFor
      <4>2. j \in 1..i
        BY <1>2, <4>1
      <4>3. ASSUME NEW l \in Like(s, a), l <= i PROVE l <= k
        <5>1. l \in 1..n /\ l # i
          BY <3>4, LikeFacts
        <5> QED
          BY <1>2, <4>3, <5>1
      <4> QED
        BY <3>3, <4>1, <4>2, <4>3 DEF StandsFor
    <3> QED
      BY <3>4, <3>5
  <2> QED
    BY <2>1, <2>2
<1> QED
  BY <1>1, <1>4, <1>9, <1>10 DEF Stage

\* A record whose key is taken takes its place with "last", else it is dropped.
LEMMA StageTaken ==
  ASSUME NEW n \in Nat, NEW s, DOMAIN s = 1..n, NEW k \in 0..n, k < n, NEW keep,
         NEW p, Stage(p, s, k, keep), NEW i, i = k + 1, i \notin Heads(s),
         NEW q, q = AddOne(p, s[i], keep)
  PROVE  Stage(q, s, i, keep)
<1>1. PICK H, m : H = HeadsTo(s, k) /\ m = Cardinality(H)
  OBVIOUS
<1>2. H \subseteq Nat /\ H \subseteq 1..k /\ IsFiniteSet(H) /\ m \in Nat /\ i \in 1..n
  BY <1>1, HeadsFacts
<1>3. HeadsTo(s, i) = H
  <2>1. \A a \in 1..n : a # i => (a <= i <=> a <= k)
    BY <1>2
  <2>2. Heads(s) \subseteq 1..n
    BY DEF Heads
  <2> QED
    BY <1>1, <2>1, <2>2 DEF HeadsTo
<1>4. p = [x \in 1..m |-> p[x]] /\ DOMAIN p = 1..m
  BY <1>1 DEF Stage
<1>5. PICK same : same = {x \in DOMAIN p : /\ Process!KeyFor(s[i]) # <<>>
                                           /\ Process!KeyFor(p[x]) = Process!KeyFor(s[i])}
  OBVIOUS
<1>6. ASSUME NEW x \in 1..m
      PROVE  Rise(H)[x] \in H /\ (x \in same <=> i \in Like(s, Rise(H)[x]))
  <2>1. Rise(H)[x] \in H
    BY <1>1, SameKey
  <2>2. i \in Like(s, Rise(H)[x]) <=> /\ Process!KeyFor(s[i]) # <<>>
                                      /\ Process!KeyFor(p[x]) = Process!KeyFor(s[i])
    BY <1>1, SameKey
  <2> QED
    BY <1>4, <1>5, <2>1, <2>2
<1>7. same # {}
  <2>1. PICK a \in Heads(s) : a < i /\ a \in Like(s, i)
    BY <1>2, HeadBefore
  <2>2. a \in 1..n
    BY DEF Heads
  <2>3. a \in H
    <3>1. a <= k
      BY <1>2, <2>1, <2>2
    <3> QED
      BY <1>1, <3>1 DEF HeadsTo
  <2>4. PICK x \in 1..m : Rise(H)[x] = a
    BY <1>1, <1>2, <2>3, Increasing
  <2>5. i \in Like(s, a)
    BY <1>2, <2>1, <2>2, LikeFacts
  <2> QED
    BY <1>6, <2>4, <2>5
<1>8. q = IF keep = "last" THEN [x \in DOMAIN p |-> IF x \in same THEN s[i] ELSE p[x]] ELSE p
  BY <1>5, <1>7 DEF AddOne
<1>9. q = [x \in 1..m |-> q[x]]
  BY <1>4, <1>8
<1>10. ASSUME NEW x \in 1..m
       PROVE  \E j : q[x] = s[j] /\ StandsFor(j, Rise(H)[x], s, i, keep)
  <2>1. PICK a : a = Rise(H)[x]
    OBVIOUS
  <2>2. a \in H /\ a \in 1..n /\ (x \in same <=> i \in Like(s, a))
    <3>1. a \in H /\ (x \in same <=> i \in Like(s, a))
      BY <1>6, <2>1
    <3>2. a \in 1..k
      BY <1>2, <3>1
    <3> QED
      BY <3>1, <3>2
  <2>3. PICK j : p[x] = s[j] /\ StandsFor(j, a, s, k, keep)
    BY <1>1, <2>1 DEF Stage
  <2>4. j \in 1..k /\ j \in 1..i /\ j \in Like(s, a)
    BY <1>2, <2>3 DEF StandsFor
  <2>5. CASE keep = "last" /\ x \in same
    <3>1. q[x] = s[i]
      BY <1>4, <1>8, <2>5
    <3>2. StandsFor(i, a, s, i, keep)
      <4>1. i \in 1..i /\ i \in Like(s, a)
        BY <1>2, <2>2, <2>5
      <4> QED
        BY <2>5, <4>1 DEF StandsFor
    <3> QED
      BY <2>1, <3>1, <3>2
  <2>6. CASE keep = "last" /\ x \notin same
    <3>1. q[x] = s[j]
      BY <1>4, <1>8, <2>3, <2>6
    <3>2. ASSUME NEW l \in Like(s, a), l <= i PROVE l <= j
      <4>1. l \in 1..n /\ l # i
        BY <2>2, <2>6, LikeFacts
      <4>2. l <= k
        BY <1>2, <3>2, <4>1
      <4> QED
        BY <2>3, <2>6, <4>2 DEF StandsFor
    <3> QED
      BY <2>1, <2>4, <2>6, <3>1, <3>2 DEF StandsFor
  <2>7. CASE keep # "last"
    <3>1. q[x] = s[j]
      BY <1>8, <2>3, <2>7
    <3>2. StandsFor(j, a, s, i, keep)
      BY <2>3, <2>4, <2>7 DEF StandsFor
    <3> QED
      BY <2>1, <3>1, <3>2
  <2> QED
    BY <2>5, <2>6, <2>7
<1> QED
  BY <1>1, <1>3, <1>9, <1>10 DEF Stage

\* What the Deduplicator has kept of the records is one record for every head.
LEMMA DedupStage ==
  ASSUME NEW n \in Nat, NEW s, DOMAIN s = 1..n, NEW keep
  PROVE  Stage(Process!Deduplicated(s, keep), s, n, keep)
<1>1. PICK h : Process!Deduplicated(s, keep) = h[n] /\ Takes(h, s, n, keep)
  BY DedupSteps
<1>2. PICK K : K = {k \in 0..n : Stage(h[k], s, k, keep)}
  OBVIOUS
<1>3. 0 \in K
  <2>1. HeadsTo(s, 0) = {}
    <3>1. 0 \in 0..n
      OBVIOUS
    <3>2. HeadsTo(s, 0) \subseteq 1..0
      BY <3>1, HeadsFacts
    <3> QED
      BY <3>2
  <2>2. Cardinality(HeadsTo(s, 0)) = 0
    BY <2>1, FS_EmptySet
  <2>3. h[0] = <<>>
    BY <1>1 DEF Takes
  <2>4. h[0] = [x \in 1..0 |-> h[0][x]]
    BY <2>3
  <2>5. Stage(h[0], s, 0, keep)
    BY <2>2, <2>4 DEF Stage
  <2> QED
    BY <1>2, <2>5
<1>4. ASSUME NEW k \in 0..n, k \in K, k < n PROVE k + 1 \in K
  <2>1. PICK i : i = k + 1
    OBVIOUS
  <2>2. i \in 1..n /\ i \in 0..n /\ i - 1 = k
    BY <1>4, <2>1
  <2>3. h[i] = AddOne(h[k], s[i], keep)
    BY <1>1, <2>2 DEF Takes
  <2>4. Stage(h[k], s, k, keep)
    BY <1>2, <1>4
  <2>5. CASE i \in Heads(s)
    <3>1. Stage(h[i], s, i, keep)
      BY <1>4, <2>1, <2>3, <2>4, <2>5, StageNew
    <3> QED
      BY <1>2, <2>1, <2>2, <3>1
  <2>6. CASE i \notin Heads(s)
    <3>1. Stage(h[i], s, i, keep)
      BY <1>4, <2>1, <2>3, <2>4, <2>6, StageTaken
    <3> QED
      BY <1>2, <2>1, <2>2, <3>1
  <2> QED
    BY <2>5, <2>6
<1>5. n \in K
  <2>1. \A k \in 0..n : k \in K
    BY <1>3, <1>4, Climb
  <2> QED
    BY <2>1
<1> QED
  BY <1>1, <1>2, <1>5

\* The record that is kept for a key.
Keeper(s, i, type) ==
  IF type = "dedup_first" THEN i ELSE CHOOSE j \in Like(s, i) : \A l \in Like(s, i) : l <= j

\* At the end that record is the first or the last one of its key.
LEMMA DedupKeeps ==
  ASSUME NEW n \in Nat, NEW s, DOMAIN s = 1..n, NEW type \in {"dedup_first", "dedup_last"},
         NEW keep, keep = (IF type = "dedup_first" THEN "first" ELSE "last"),
         NEW p, p = Process!Deduplicated(s, keep), NEW o, o = Rise(Heads(s))
  PROVE  DOMAIN p = DOMAIN o /\ \A k \in DOMAIN o : p[k] = s[Keeper(s, o[k], type)]
<1>1. Stage(p, s, n, keep)
  BY DedupStage
<1>2. HeadsTo(s, n) = Heads(s)
  <2>1. Heads(s) \subseteq 1..n
    BY DEF Heads
  <2> QED
    BY <2>1 DEF HeadsTo
<1>3. PICK m : m = Cardinality(Heads(s))
  OBVIOUS
<1>4. /\ p = [x \in 1..m |-> p[x]]
      /\ \A x \in 1..m : \E j : p[x] = s[j] /\ StandsFor(j, o[x], s, n, keep)
  BY <1>1, <1>2, <1>3 DEF Stage
<1>5. o \in [1..m -> Heads(s)] /\ Heads(s) \subseteq 1..n
  <2>1. n \in 0..n
    OBVIOUS
  <2>2. Heads(s) \subseteq Nat /\ IsFiniteSet(Heads(s)) /\ Heads(s) \subseteq 1..n
    BY <1>2, <2>1, HeadsFacts
  <2>3. Rise(Heads(s)) \in [1..Cardinality(Heads(s)) -> Heads(s)]
    BY <2>2, Increasing
  <2> QED
    BY <1>3, <2>2, <2>3
<1>6. ASSUME NEW k \in 1..m PROVE p[k] = s[Keeper(s, o[k], type)]
  <2>1. PICK i : i = o[k]
    OBVIOUS
  <2>2. i \in 1..n
    BY <1>5, <2>1
  <2>3. PICK j : p[k] = s[j] /\ StandsFor(j, i, s, n, keep)
    BY <1>4, <2>1
  <2>4. j = Keeper(s, i, type)
    <3>1. CASE type = "dedup_first"
      BY <2>3, <3>1 DEF StandsFor, Keeper
    <3>2. CASE type = "dedup_last"
      <4>1. Like(s, i) \subseteq 1..n
        BY <2>2, LikeFacts
      <4>2. j \in Like(s, i) /\ \A l \in Like(s, i) : l <= n => l <= j
        BY <2>3, <3>2 DEF StandsFor
      <4>3. \A l \in Like(s, i) : l <= j
        BY <4>1, <4>2
      <4>4. PICK c : c = CHOOSE d \in Like(s, i) : \A l \in Like(s, i) : l <= d
        OBVIOUS
      <4>5. c \in Like(s, i) /\ \A l \in Like(s, i) : l <= c
        BY <4>2, <4>3, <4>4
      <4>6. c <= j /\ j <= c /\ c \in Int /\ j \in Int
        BY <4>1, <4>2, <4>3, <4>5
      <4>7. c = j
        BY <4>6
      <4>8. type # "dedup_first"
        BY <3>2
      <4> QED
        BY <3>2, <4>4, <4>7, <4>8 DEF Keeper
    <3> QED
      BY <3>1, <3>2
  <2> QED
    BY <2>1, <2>3, <2>4
<1> QED
  BY <1>4, <1>5, <1>6

\* The property, with the operators of the lemmas.
LEMMA DedupSays ==
  ASSUME Process!Done /\ node.kind \in {"dedup_first", "dedup_last"} =>
           Process!Ids(out) = [k \in DOMAIN Rise(Heads(node.input)) |->
             node.input[Keeper(node.input, Rise(Heads(node.input))[k], node.kind)].id]
  PROVE  Process!DedupSound
BY Zenon DEF Process!DedupSound, Heads, Like, Rise, Keeper

\* DeduplicatorNode.execute: the output of a completed deduplication.
LEMMA DedupHolds ==
  ASSUME ProcessorConstants, RecordConstants, ProcessorInv, SideInv
  PROVE  Process!DedupSound
<1>1. PICK n, s : n = Len(node.input) /\ s = node.input
  OBVIOUS
<1>2. PICK o, keep : /\ o = Rise(Heads(s))
                     /\ keep = IF node.kind = "dedup_first" THEN "first" ELSE "last"
  OBVIOUS
<1>3. n \in Nat /\ DOMAIN s = 1..n
  <2>1. node \in ProcessorNodes
    BY DEF ProcessorInv
  <2>2. n \in Nat /\ s \in Seq(Process!ToSet(s))
    BY <1>1, <2>1, InputFacts
  <2> QED
    BY <1>1, <2>2
<1>4. ASSUME Process!Done, node.kind \in {"dedup_first", "dedup_last"}
      PROVE  Process!Ids(out) = [k \in DOMAIN o |-> s[Keeper(s, o[k], node.kind)].id]
  <2>1. PICK p : p = Process!Deduplicated(s, keep)
    OBVIOUS
  <2>2. node.kind \in {"dedup_first", "dedup_last"}
    BY <1>4
  <2>3. DOMAIN p = DOMAIN o /\ \A k \in DOMAIN o : p[k] = s[Keeper(s, o[k], node.kind)]
    BY <1>2, <1>3, <2>1, <2>2, DedupKeeps
  <2>4. out = Process!Computed(s)
    BY <1>1, <1>4 DEF SideInv, Process!Done, Process!Plain
  <2>5. Process!Computed(s) =
          [k \in DOMAIN p |-> Process!Output(p[k].id, Process!NoAnswer, 0, node.attempt)]
    <3>1. CASE node.kind = "dedup_first"
      <4>1. keep = "first"
        BY <1>2, <3>1
      <4> QED
        BY <2>1, <3>1, <4>1 DEF Process!Computed
    <3>2. CASE node.kind = "dedup_last"
      <4>1. keep = "last" /\ node.kind # "dedup_first"
        BY <1>2, <3>2
      <4> QED
        BY <2>1, <3>2, <4>1 DEF Process!Computed
    <3> QED
      BY <1>4, <3>1, <3>2
  <2>6. out = [k \in DOMAIN o |-> Process!Output(p[k].id, Process!NoAnswer, 0, node.attempt)]
    BY <2>3, <2>4, <2>5
  <2>7. \A k \in DOMAIN o : out[k].id = p[k].id
    BY <2>6 DEF Process!Output
  <2>8. Process!Ids(out) = [k \in DOMAIN o |-> p[k].id]
    BY <2>6, <2>7 DEF Process!Ids
  <2> QED
    BY <2>3, <2>8
<1> QED
  BY <1>1, <1>2, <1>4, DedupSays

\* Processors (_run_per_item, RulesEngineNode, MergingNode, DeduplicatorNode and
\* BaseNode.run): whatever the mode, the groups and the order the answers come in,
\* every record comes out once, with its own verdict when no answer is missing,
\* in one ranking over all the groups; a group of an attempt that failed adds
\* nothing; and of the records with one key the first or the last is kept.
THEOREM ProcessorsTheorem ==
  ASSUME ProcessorConstants, RecordConstants
  PROVE  Process!Spec => []ProcessorsSound
<1>1. Process!Init => ProcessorInv /\ SideInv
  BY ProcessorInit, SideInit
<1>2. ProcessorInv /\ SideInv /\ [Process!Next]_(Process!procVars) => (ProcessorInv /\ SideInv)'
  BY ProcessorNext, SideNext
<1>3. ASSUME ProcessorInv, SideInv PROVE ProcessorsSound
  <2>1. node \in ProcessorNodes
    BY <1>3 DEF ProcessorInv
  <2>2. Process!TypeOK /\ Process!PlacesKept
    BY <1>3, PlacesFacts
  <2>3. ASSUME Process!Done, node.kind \in Process!Matching \/ (node.kind = "merging" /\ node.whole)
        PROVE  /\ Covers(out, node.input, node.whole)
               /\ node.kind \in {"rules", "simple_rules"} => Numbered(out, Len(node.input))
    BY <1>3, <2>3, OutCovers DEF Process!Done
  <2>4. Process!EveryRecordOnce
    <3>1. CASE Process!Done /\ (node.kind \in Process!Matching \/ (node.kind = "merging" /\ node.whole))
      BY <1>3, <2>1, <2>3, <3>1, OnceFromCovers
    <3>2. CASE ~(Process!Done /\ (node.kind \in Process!Matching \/ (node.kind = "merging" /\ node.whole)))
      BY <3>2 DEF Process!EveryRecordOnce
    <3> QED
      BY <3>1, <3>2
  <2>5. Process!OwnAnswer
    <3>1. CASE Process!Done /\ node.whole /\ node.kind \in Process!Matching \cup {"merging"}
      <4>1. node.whole = TRUE
        BY <2>1, <3>1, Zenon DEF ProcessorNodes
      <4>2. Covers(out, node.input, TRUE)
        <5>1. Covers(out, node.input, node.whole)
          BY <2>3, <3>1
        <5> QED
          BY <4>1, <5>1, Zenon
      <4> QED
        BY <2>1, <4>2, OwnFromCovers
    <3>2. CASE ~(Process!Done /\ node.whole /\ node.kind \in Process!Matching \cup {"merging"})
      BY <3>2 DEF Process!OwnAnswer
    <3> QED
      BY <3>1, <3>2
  <2>6. Process!OneRanking
    <3>1. CASE Process!Done /\ node.kind \in {"rules", "simple_rules"}
      <4>1. node.kind \in Process!Matching
        BY <3>1 DEF Process!Matching
      <4>2. Covers(out, node.input, node.whole) /\ Numbered(out, Len(node.input))
        BY <2>3, <3>1, <4>1
      <4> QED
        BY <2>1, <4>2, RankingFromCovers
    <3>2. CASE ~(Process!Done /\ node.kind \in {"rules", "simple_rules"})
      BY <3>2 DEF Process!OneRanking
    <3> QED
      BY <3>1, <3>2
  <2>7. Process!DedupSound
    BY <1>3, DedupHolds
  <2> QED
    BY <2>2, <2>4, <2>5, <2>6, <2>7 DEF ProcessorsSound, Process!ProcessorsSound
<1>4. ProcessorInv /\ SideInv => ProcessorsSound
  BY <1>3
<1> QED
  BY <1>1, <1>2, <1>4, PTL DEF Process!Spec
=============================================================================
