--------------------------- MODULE JobQueueProofs ---------------------------
(***************************************************************************)
(* Proofs about the job queue for any number of jobs, processes, retries,  *)
(* entries, crashes and raised commands.                                   *)
(***************************************************************************)
EXTENDS JobQueue, FiniteSetTheorems, SequenceTheorems, TLAPS

\* What every step leaves of the stream: entries are only added, and an entry
\* keeps its job.
StreamKeeps ==
  /\ stream' \in Seq(Entry)
  /\ Len(stream) <= Len(stream')
  /\ \A i \in 1..Len(stream) : stream'[i].job = stream[i].job

\* A step that acks nothing leaves every entry deliverable that was.
NothingAcked ==
  \A i \in 1..Len(stream) : stream[i].st # "gone" => stream'[i].st # "gone"

\* A step that at most updates the PEL records of entries.
Undisturbed == StreamKeeps /\ NothingAcked /\ Len(stream') = Len(stream)

-----------------------------------------------------------------------------
(***************************************************************************)
(* Sequences: a function on 1..n is a sequence of length n.                *)
(***************************************************************************)

\* A function from 1..n to S is a sequence over S of length n.
LEMMA FunctionIsSeq ==
  ASSUME NEW S, NEW n \in Nat, NEW f \in [1..n -> S]
  PROVE  f \in Seq(S) /\ Len(f) = n
<1>1. f \in Seq(S)
  BY SeqDef
<1>2. DOMAIN f = 1..Len(f) /\ Len(f) \in Nat
  BY <1>1, LenProperties
<1> QED
  BY <1>1, <1>2

\* Marking an entry idle (GoesIdle) keeps the stream's entries.
LEMMA IdleKeeps ==
  ASSUME TypeOK, NEW i \in Ids, GoesIdle(i)
  PROVE  Undisturbed
<1> DEFINE n == Len(stream)
<1>1. n \in Nat /\ stream \in [1..n -> Entry]
  BY LenProperties DEF TypeOK
<1>2. stream' = [stream EXCEPT ![i] = [stream[i] EXCEPT !.idle = TRUE]]
  BY DEF GoesIdle
<1>3. [stream[i] EXCEPT !.idle = TRUE] \in Entry
  BY <1>1 DEF Ids, Entry
<1>4. stream' \in [1..n -> Entry]
  BY <1>1, <1>2, <1>3
<1>5. stream' \in Seq(Entry) /\ Len(stream') = n
  BY <1>1, <1>4, FunctionIsSeq
<1> QED
  BY <1>1, <1>2, <1>5 DEF Undisturbed, StreamKeeps, NothingAcked, Ids, Entry

\* XREADGROUP (Deliver) keeps the stream's entries.
LEMMA DeliverKeeps ==
  ASSUME TypeOK, NEW i \in Ids, Deliver(i)
  PROVE  Undisturbed
<1> DEFINE n == Len(stream)
           e == [stream[i] EXCEPT !.st = "pending", !.times = 1]
<1>1. n \in Nat /\ stream \in [1..n -> Entry]
  BY LenProperties DEF TypeOK
<1>2. stream' = [stream EXCEPT ![i] = e]
  BY <1>1 DEF Deliver, Ids
<1>3. e \in Entry /\ e.job = stream[i].job /\ e.st = "pending"
  BY <1>1 DEF Ids, Entry
<1> HIDE DEF e
<1>4. stream' \in [1..n -> Entry]
  BY <1>1, <1>2, <1>3
<1>5. stream' \in Seq(Entry) /\ Len(stream') = n
  BY <1>1, <1>4, FunctionIsSeq
<1> QED
  BY <1>1, <1>2, <1>3, <1>5 DEF Undisturbed, StreamKeeps, NothingAcked, Ids

\* XAUTOCLAIM (Claim) keeps the stream's entries.
LEMMA ClaimKeeps ==
  ASSUME TypeOK, Claim
  PROVE  Undisturbed
<1> DEFINE n == Len(stream)
           e(i) == [stream[i] EXCEPT !.times = @ + 1, !.idle = FALSE]
<1>1. n \in Nat /\ stream \in [1..n -> Entry]
  BY LenProperties DEF TypeOK
<1>2. stream' = [i \in 1..n |-> IF i \in Stale THEN e(i) ELSE stream[i]]
  BY DEF Claim, Ids
<1>3. ASSUME NEW i \in 1..n
      PROVE  e(i) \in Entry /\ e(i).job = stream[i].job /\ e(i).st = stream[i].st
  <2>1. stream[i] \in Entry /\ stream[i].times + 1 \in Nat
    BY <1>1 DEF Entry
  <2> QED
    BY <2>1 DEF Entry
<1> HIDE DEF e
<1>4. stream' \in [1..n -> Entry]
  BY <1>1, <1>2, <1>3
<1>5. stream' \in Seq(Entry) /\ Len(stream') = n
  BY <1>1, <1>4, FunctionIsSeq
<1> QED
  BY <1>1, <1>2, <1>3, <1>5 DEF Undisturbed, StreamKeeps, NothingAcked

\* _ack (AckEntry) adds nothing to the stream and keeps every entry's job; only
\* the entry the task holds may become undeliverable.
LEMMA AckKeeps ==
  ASSUME TypeOK, NEW t \in Tasks, AckEntry(t)
  PROVE  /\ StreamKeeps /\ Len(stream') = Len(stream)
         /\ \A i \in 1..Len(stream) : i # cur[t].sid => stream'[i] = stream[i]
<1> DEFINE n == Len(stream)
           s == cur[t].sid
           e == [stream[s] EXCEPT !.st = "gone", !.times = 0, !.idle = FALSE]
<1>1. n \in Nat /\ stream \in [1..n -> Entry]
  BY LenProperties DEF TypeOK
<1>2. stream' = [stream EXCEPT ![s] = e]
  BY DEF AckEntry
<1>3. s \in 1..n => e \in Entry /\ e.job = stream[s].job
  BY <1>1 DEF Entry
<1> HIDE DEF e, s
<1>4. stream' \in [1..n -> Entry]
  BY <1>1, <1>2, <1>3
<1>5. stream' \in Seq(Entry) /\ Len(stream') = n
  BY <1>1, <1>4, FunctionIsSeq
<1>6. StreamKeeps
  BY <1>1, <1>2, <1>3, <1>5 DEF StreamKeeps
<1>7. \A i \in 1..n : i # s => stream'[i] = stream[i]
  BY <1>1, <1>2
<1> QED
  BY <1>5, <1>6, <1>7 DEF s

\* enqueue() adds an entry of job j that can be delivered.
LEMMA EnqueueKeeps ==
  ASSUME TypeOK, NEW j \in Jobs, Enqueue(j)
  PROVE  /\ StreamKeeps /\ NothingAcked
         /\ \E i \in 1..Len(stream') : stream'[i].job = j /\ stream'[i].st # "gone"
         /\ \A i \in 1..Len(stream') : i \in 1..Len(stream) \/ stream'[i].job = j
<1> DEFINE e == NewEntry([job |-> j, retries |-> 0])
<1>1. stream \in Seq(Entry) /\ Len(stream) \in Nat
  BY LenProperties DEF TypeOK
<1>2. e \in Entry /\ e.job = j /\ e.st = "unread"
  BY DEF NewEntry, Entry
<1>3. stream' = Append(stream, e)
  BY DEF Enqueue
<1> HIDE DEF e
<1>4. /\ stream' \in Seq(Entry)
      /\ Len(stream') = Len(stream) + 1
      /\ \A i \in 1..Len(stream) : stream'[i] = stream[i]
      /\ stream'[Len(stream) + 1] = e
  BY <1>1, <1>2, <1>3, AppendProperties
<1> QED
  BY <1>1, <1>2, <1>4 DEF StreamKeeps, NothingAcked

\* _PROMOTE_LUA moves copies: what leaves the retry ZSET is on the stream.
LEMMA PromoteKeeps ==
  ASSUME TypeOK, PromoteDue
  PROVE  /\ StreamKeeps /\ NothingAcked
         /\ retry' \subseteq retry /\ due' \subseteq retry'
         /\ \A i \in 1..Len(stream') : \/ i \in 1..Len(stream)
                                       \/ \E c \in retry : stream'[i].job = c.job
         /\ \A c \in retry \ retry' :
              \E i \in 1..Len(stream') : stream'[i].job = c.job /\ stream'[i].st # "gone"
<1> DEFINE n == Len(stream)
<1>1. n \in Nat /\ stream \in [1..n -> Entry]
  BY LenProperties DEF TypeOK
<1>m. PICK m \in 0..PromoteLimit : \E f \in [1..m -> due] :
        /\ stream' = [i \in 1..(n + m) |->
                        IF i <= n THEN stream[i] ELSE NewEntry(f[i - n])]
        /\ retry' = retry \ {f[k] : k \in 1..m}
        /\ due' = due \ {f[k] : k \in 1..m}
  BY DEF PromoteDue
<1>2. PICK f \in [1..m -> due] :
        /\ stream' = [i \in 1..(n + m) |->
                        IF i <= n THEN stream[i] ELSE NewEntry(f[i - n])]
        /\ retry' = retry \ {f[k] : k \in 1..m}
        /\ due' = due \ {f[k] : k \in 1..m}
  BY <1>m
<1>3. m \in Nat
  BY ConstantsAssumption
<1>4. \A k \in 1..m : /\ NewEntry(f[k]) \in Entry
                      /\ NewEntry(f[k]).job = f[k].job
                      /\ NewEntry(f[k]).st = "unread"
  BY DEF TypeOK, NewEntry, Entry, Copy
<1>5. stream' \in [1..(n + m) -> Entry]
  <2>1. \A i \in 1..(n + m) : i <= n => stream[i] \in Entry
    BY <1>1
  <2>2. \A i \in 1..(n + m) : ~(i <= n) => i - n \in 1..m
    BY <1>1, <1>3
  <2>3. \A i \in 1..(n + m) : ~(i <= n) => NewEntry(f[i - n]) \in Entry
    BY <2>2, <1>4
  <2> QED
    BY <1>2, <2>1, <2>3
<1>6. stream' \in Seq(Entry) /\ Len(stream') = n + m
  BY <1>1, <1>3, <1>5, FunctionIsSeq
<1>7. \A i \in 1..n : stream'[i] = stream[i]
  BY <1>1, <1>2, <1>3
<1>8. StreamKeeps /\ NothingAcked
  BY <1>1, <1>3, <1>6, <1>7 DEF StreamKeeps, NothingAcked
<1>9. ASSUME NEW c \in retry \ retry'
      PROVE  \E i \in 1..Len(stream') : stream'[i].job = c.job /\ stream'[i].st # "gone"
  <2>1. PICK k \in 1..m : c = f[k]
    BY <1>2
  <2>2. n + k \in 1..(n + m) /\ ~(n + k <= n) /\ (n + k) - n = k
    BY <1>1, <1>3
  <2>3. stream'[n + k] = NewEntry(f[k])
    BY <1>2, <2>2
  <2> QED
    BY <1>4, <1>6, <2>1, <2>2, <2>3
<1>10. retry' \subseteq retry /\ due' \subseteq retry'
  BY <1>2 DEF TypeOK
<1>11. ASSUME NEW i \in 1..Len(stream'), i \notin 1..n
       PROVE  \E c \in retry : stream'[i].job = c.job
  <2>1. i \in 1..(n + m) /\ ~(i <= n) /\ i - n \in 1..m
    BY <1>1, <1>3, <1>6, <1>11
  <2>2. stream'[i] = NewEntry(f[i - n]) /\ f[i - n] \in retry
    BY <1>2, <2>1 DEF TypeOK
  <2> QED
    BY <1>4, <2>1, <2>2
<1> QED
  BY <1>8, <1>9, <1>10, <1>11

-----------------------------------------------------------------------------
(***************************************************************************)
(* What every step preserves.                                              *)
(***************************************************************************)

\* A copy in memory stays backed by its entry.
LEMMA BackedStays ==
  ASSUME TypeOK, StreamKeeps, NEW h, Backed(h)
  PROVE  Backed(h)'
<1>1. Len(stream) \in Nat /\ Len(stream') \in Nat
  BY LenProperties DEF TypeOK, StreamKeeps
<1> QED
  BY <1>1 DEF Backed, StreamKeeps, Ids

\* A step that leaves every task's memory alone keeps Hands.
LEMMA HandsStay ==
  ASSUME TypeOK, Hands, StreamKeeps, completed \subseteq completed', dlq \subseteq dlq',
         UNCHANGED <<pc, cur, batch, doomed>>
  PROVE  Hands'
<1> SUFFICES ASSUME NEW t \in Tasks
             PROVE  /\ pc'[t] \in HoldPcs => cur'[t] \in Held /\ Backed(cur[t])'
                    /\ \A h \in (batch[t] \cup doomed[t])' : Backed(h)'
                    /\ pc'[t] = "ackDone" => cur'[t].job \in completed'
                    /\ pc'[t] \in {"dlqAck", "dlqHset", "dlqSignal"} => cur'[t].job \in dlq'
  BY DEF Hands
<1>1. pc[t] \in HoldPcs => cur[t] \in Held /\ Backed(cur[t])'
  BY BackedStays DEF Hands
<1>2. \A h \in batch[t] \cup doomed[t] : Backed(h)'
  BY BackedStays DEF Hands
<1> QED
  BY <1>1, <1>2 DEF Hands

\* A step of one task u keeps Hands when u's own memory is in order after it.
LEMMA HandsMove ==
  ASSUME TypeOK, Hands, StreamKeeps, completed \subseteq completed', dlq \subseteq dlq',
         NEW u \in Tasks,
         \A t \in Tasks \ {u} : /\ pc'[t] = pc[t] /\ cur'[t] = cur[t]
                                /\ batch'[t] = batch[t] /\ doomed'[t] = doomed[t],
         pc'[u] \in HoldPcs => cur'[u] \in Held /\ Backed(cur'[u]),
         \A h \in batch'[u] \cup doomed'[u] : Backed(h),
         pc'[u] = "ackDone" => cur'[u].job \in completed',
         pc'[u] \in {"dlqAck", "dlqHset", "dlqSignal"} => cur'[u].job \in dlq'
  PROVE  Hands'
<1> SUFFICES ASSUME NEW t \in Tasks
             PROVE  /\ pc'[t] \in HoldPcs => cur'[t] \in Held /\ Backed(cur[t])'
                    /\ \A h \in (batch[t] \cup doomed[t])' : Backed(h)'
                    /\ pc'[t] = "ackDone" => cur'[t].job \in completed'
                    /\ pc'[t] \in {"dlqAck", "dlqHset", "dlqSignal"} => cur'[t].job \in dlq'
  BY DEF Hands
<1> DEFINE B(h) == h.sid \in 1..Len(stream') /\ stream'[h.sid].job = h.job
<1>0. \A h : Backed(h) => B(h)
  BY BackedStays DEF Backed, Ids
<1>1. CASE t = u
  BY <1>1, <1>0 DEF Backed, Ids
<1>2. CASE t # u
  BY <1>2, <1>0 DEF Hands, Backed, Ids
<1> QED
  BY <1>1, <1>2

\* A step that acks nothing and parks what it takes out of a task's hands
\* loses no job.
LEMMA KeptStays ==
  ASSUME TypeOK, LostOnlyInAckWindow, StreamKeeps, NothingAcked,
         retry \subseteq retry', dlq \subseteq dlq',
         completed \subseteq completed', dropped \subseteq dropped',
         \A j \in Jobs : status'[j] # "none" => status[j] # "none",
         \A j \in Jobs : InHand(j) => \/ InHand(j)' \/ j \in dlq' \/ j \in dropped'
                                      \/ \E c \in retry' : c.job = j
  PROVE  LostOnlyInAckWindow'
<1> SUFFICES ASSUME NEW j \in Jobs, status'[j] # "none"
             PROVE  Kept(j)' \/ j \in dropped'
  BY DEF LostOnlyInAckWindow
<1>1. Len(stream) \in Nat /\ Len(stream') \in Nat
  BY LenProperties DEF TypeOK, StreamKeeps
<1>2. Kept(j) \/ j \in dropped
  BY DEF LostOnlyInAckWindow
<1>3. Recoverable(j) => Recoverable(j)'
  BY <1>1 DEF Recoverable, StreamKeeps, NothingAcked, Ids
<1> QED
  BY <1>2, <1>3 DEF Kept, Recoverable


\* A step that adds no copy, and takes no job's status back to none, keeps Known.
LEMMA KnownStays ==
  ASSUME TypeOK, Known, StreamKeeps, Len(stream') = Len(stream), retry' \subseteq retry,
         \A j \in Jobs : status[j] # "none" => status'[j] # "none"
  PROVE  Known'
<1>1. stream \in [1..Len(stream) -> Entry]
  BY LenProperties DEF TypeOK
<1> QED
  BY <1>1 DEF TypeOK, Known, StreamKeeps, Ids, Entry, Copy


\* A step of one task u of a live process keeps Alive.
LEMMA AliveMove ==
  ASSUME Alive, NEW u \in Tasks, UNCHANGED proc,
         \A t \in Tasks \ {u} : pc'[t] = pc[t],
         proc[u[1]] # "down" \/ pc'[u] = pc[u] \/ pc'[u] = "off"
  PROVE  Alive'
BY DEF Alive

-----------------------------------------------------------------------------
(***************************************************************************)
(* One lemma per action.                                                   *)
(***************************************************************************)

\* A step that changes no variable of the queue preserves the invariant.
LEMMA StutterInv ==
  ASSUME Inv, UNCHANGED vars
  PROVE  Inv'
BY DEF Inv, TypeOK, Hands, Known, Alive, LostOnlyInAckWindow, Kept, Recoverable, InHand, Backed, Ids,
       vars, redisVars, taskVars, history

\* enqueue() preserves the invariant.
LEMMA EnqueueInv ==
  ASSUME Inv, NEW j \in Jobs, Enqueue(j)
  PROVE  Inv'
<1> USE DEF Inv
<1>1. /\ StreamKeeps /\ NothingAcked
      /\ \E i \in 1..Len(stream') : stream'[i].job = j /\ stream'[i].st # "gone"
      /\ \A i \in 1..Len(stream') : i \in 1..Len(stream) \/ stream'[i].job = j
  BY EnqueueKeeps
<1>2. TypeOK'
  BY <1>1 DEF TypeOK, Enqueue, StreamKeeps, taskVars, history
<1>3. Hands'
  BY <1>1, HandsStay DEF Enqueue, taskVars, history
<1>4. ASSUME NEW k \in Jobs, status'[k] # "none"
      PROVE  Kept(k)' \/ k \in dropped'
  <2>1. CASE k = j
    BY <1>1, <2>1 DEF Kept, Recoverable, Ids
  <2>2. CASE k # j
    <3>1. status[k] # "none"
      BY <1>4, <2>2 DEF Enqueue, TypeOK
    <3>2. Len(stream) \in Nat /\ Len(stream') \in Nat
      BY <1>1, LenProperties DEF TypeOK, StreamKeeps
    <3>3. Recoverable(k) => Recoverable(k)'
      BY <1>1, <3>2 DEF Recoverable, StreamKeeps, NothingAcked, Ids, Enqueue
    <3> QED
      BY <3>1, <3>3 DEF LostOnlyInAckWindow, Kept, InHand, Enqueue, taskVars, history
  <2> QED
    BY <2>1, <2>2
<1>5. LostOnlyInAckWindow'
  BY <1>4 DEF LostOnlyInAckWindow
<1>6. Known'
  <2>1. stream \in [1..Len(stream) -> Entry]
    BY LenProperties DEF TypeOK
  <2>2. \A k \in Jobs : status[k] # "none" => status'[k] # "none"
    BY DEF TypeOK, Enqueue
  <2>3. status'[j] # "none"
    BY DEF TypeOK, Enqueue
  <2>4. \A i \in 1..Len(stream) : stream[i].job \in Jobs
    BY <2>1 DEF Entry
  <2>5. \A i \in 1..Len(stream') : status'[stream'[i].job] # "none"
    BY <1>1, <2>2, <2>3, <2>4 DEF Known, StreamKeeps, Ids
  <2>6. \A c \in retry' : status'[c.job] # "none"
    BY <2>2 DEF TypeOK, Known, Enqueue, Copy
  <2> QED
    BY <2>5, <2>6 DEF Known, Ids
<1>8. Alive'
  BY DEF Alive, Enqueue, taskVars
<1> QED
  BY <1>2, <1>3, <1>5, <1>6, <1>8

\* The passing of a backoff delay preserves the invariant.
LEMMA BackoffInv ==
  ASSUME Inv, NEW c \in retry, BackoffElapses(c)
  PROVE  Inv'
<1>1. TypeOK'
  BY DEF Inv, TypeOK, BackoffElapses, taskVars, history
<1> QED
  BY <1>1 DEF Inv, Hands, Known, Alive, LostOnlyInAckWindow, Kept, Recoverable, InHand, Backed, Ids,
              BackoffElapses, taskVars, history

\* The passing of the visibility timeout preserves the invariant.
LEMMA IdleInv ==
  ASSUME Inv, NEW i \in Ids, GoesIdle(i)
  PROVE  Inv'
<1> USE DEF Inv
<1>1. Undisturbed
  BY IdleKeeps
<1>2. TypeOK'
  BY <1>1 DEF TypeOK, GoesIdle, Undisturbed, StreamKeeps, taskVars, history
<1>3. Hands'
  BY <1>1, HandsStay DEF Undisturbed, GoesIdle, taskVars, history
<1>4. \A j \in Jobs : InHand(j) => InHand(j)'
  BY DEF InHand, GoesIdle, taskVars
<1>5. LostOnlyInAckWindow'
  BY <1>1, <1>4, KeptStays DEF Undisturbed, GoesIdle, taskVars, history
<1>6. Known'
  BY <1>1, KnownStays DEF Undisturbed, GoesIdle
<1>8. Alive'
  BY DEF Alive, GoesIdle, taskVars
<1> QED
  BY <1>2, <1>3, <1>5, <1>6, <1>8

\* _promote_due_retries preserves the invariant.
LEMMA PromoteInv ==
  ASSUME Inv, NEW t \in Tasks, Promote(t)
  PROVE  Inv'
<1> USE DEF Inv
<1>1. /\ StreamKeeps /\ NothingAcked
      /\ retry' \subseteq retry /\ due' \subseteq retry'
      /\ \A c \in retry \ retry' :
           \E i \in 1..Len(stream') : stream'[i].job = c.job /\ stream'[i].st # "gone"
      /\ \A i \in 1..Len(stream') : \/ i \in 1..Len(stream)
                                    \/ \E c \in retry : stream'[i].job = c.job
  BY PromoteKeeps DEF Promote
<1>2. TypeOK'
  BY <1>1 DEF TypeOK, Promote, StreamKeeps, taskVars, history
<1>3. Hands'
  BY <1>1, HandsStay DEF Promote, taskVars, history
<1>4. Len(stream) \in Nat /\ Len(stream') \in Nat
  BY <1>1, LenProperties DEF TypeOK, StreamKeeps
<1>5. \A j \in Jobs : Recoverable(j) => Recoverable(j)'
  BY <1>1, <1>4 DEF Recoverable, StreamKeeps, NothingAcked, Ids
<1>6. LostOnlyInAckWindow'
  BY <1>5 DEF LostOnlyInAckWindow, Kept, InHand, Promote, taskVars, history
<1>7. Known'
  BY <1>1 DEF Known, StreamKeeps, Promote, Ids
<1>8. Alive'
  BY DEF Alive, Promote, taskVars
<1> QED
  BY <1>2, <1>3, <1>6, <1>7, <1>8

\* A step that leaves the stream alone keeps its entries.
LEMMA StreamSame ==
  ASSUME TypeOK, UNCHANGED stream
  PROVE  Undisturbed
<1>1. Len(stream) \in Nat
  BY LenProperties DEF TypeOK
<1> QED
  BY <1>1 DEF TypeOK, Undisturbed, StreamKeeps, NothingAcked

\* What from_json makes of an entry is backed by that entry.
LEMMA HeldOfBacked ==
  ASSUME TypeOK, NEW i \in Ids
  PROVE  HeldOf(i) \in Held /\ Backed(HeldOf(i))
<1>1. Len(stream) \in Nat /\ stream \in [1..Len(stream) -> Entry]
  BY LenProperties DEF TypeOK
<1> QED
  BY <1>1 DEF HeldOf, Held, Backed, Ids, Entry

\* The job a task holds has been enqueued.
LEMMA HeldKnown ==
  ASSUME Inv, NEW t \in Tasks, pc[t] \in HoldPcs
  PROVE  /\ cur[t] \in Held /\ cur[t].job \in Jobs /\ Backed(cur[t])
         /\ status[cur[t].job] # "none"
BY DEF Inv, Hands, Known, Backed, Held, Ids

\* consume_one preserves the invariant.
LEMMA ReadInv ==
  ASSUME Inv, NEW t \in Tasks, Read(t)
  PROVE  Inv'
<1> USE DEF Inv
<1>1. Undisturbed
  BY DeliverKeeps DEF Read
<1>h. \A i \in Ids : HeldOf(i) \in Held /\ Backed(HeldOf(i))
  BY HeldOfBacked
<1>2. TypeOK'
  BY <1>1, <1>h DEF TypeOK, Read, Undisturbed, StreamKeeps,
                 Go, Release, redisVars, taskVars, history, Pcs, HoldPcs, ProcessPcs
<1>3. Hands'
  BY <1>1, <1>h, HandsMove DEF TypeOK, Undisturbed, Hands, Read,
                            Go, Release, redisVars, taskVars, history, Pcs, HoldPcs, ProcessPcs
<1>4. \A j \in Jobs : InHand(j) => InHand(j)'
  BY DEF TypeOK, InHand, Read, Go, Release, redisVars, taskVars, history
<1>5. LostOnlyInAckWindow'
  BY <1>1, <1>4, <1>h, KeptStays DEF TypeOK, Undisturbed, Read, redisVars, taskVars, history
<1>6. Known'
  BY <1>1, <1>h, KnownStays DEF TypeOK, Undisturbed, Read, redisVars, history
<1>7. Alive'
  BY AliveMove DEF TypeOK, Read, Go, Running, taskVars
<1> QED
  BY <1>2, <1>3, <1>5, <1>6, <1>7

\* XAUTOCLAIM in claim_stale preserves the invariant.
LEMMA AutoClaimInv ==
  ASSUME Inv, NEW t \in Tasks, AutoClaim(t)
  PROVE  Inv'
<1> USE DEF Inv
<1>1. Undisturbed
  BY ClaimKeeps DEF AutoClaim
<1>h. \A i \in Stale : HeldOf(i) \in Held /\ Backed(HeldOf(i))
  BY HeldOfBacked DEF Stale, Lowest
<1>b. \A h \in batch'[t] \cup doomed'[t] : Backed(h)
  BY <1>h DEF AutoClaim, TypeOK, Hands
<1>2. TypeOK'
  BY <1>1, <1>h, <1>b DEF TypeOK, AutoClaim, Undisturbed, StreamKeeps,
                 Go, Release, redisVars, taskVars, history, Pcs, HoldPcs, ProcessPcs
<1>3. Hands'
  BY <1>1, <1>h, <1>b, HandsMove DEF TypeOK, Undisturbed, Hands, AutoClaim,
                            Go, Release, redisVars, taskVars, history, Pcs, HoldPcs, ProcessPcs
<1>4. \A j \in Jobs : InHand(j) => InHand(j)'
  BY DEF TypeOK, InHand, AutoClaim, Go, Release, redisVars, taskVars, history
<1>5. LostOnlyInAckWindow'
  BY <1>1, <1>4, <1>h, <1>b, KeptStays DEF TypeOK, Undisturbed, AutoClaim, redisVars, taskVars, history
<1>6. Known'
  BY <1>1, <1>h, <1>b, KnownStays DEF TypeOK, Undisturbed, AutoClaim, redisVars, history
<1>7. Alive'
  BY AliveMove DEF TypeOK, AutoClaim, Go, Running, taskVars
<1> QED
  BY <1>2, <1>3, <1>5, <1>6, <1>7

\* XPENDING in claim_stale preserves the invariant.
LEMMA ProbeInv ==
  ASSUME Inv, NEW t \in Tasks, Probe(t)
  PROVE  Inv'
<1> USE DEF Inv
<1>1. Undisturbed
  BY StreamSame DEF Probe, redisVars
<1>2. TypeOK'
  BY <1>1 DEF TypeOK, Probe, Undisturbed, StreamKeeps,
                 Go, Release, redisVars, taskVars, history, Pcs, HoldPcs, ProcessPcs
<1>3. Hands'
  BY <1>1, HandsMove DEF TypeOK, Undisturbed, Hands, Probe,
                            Go, Release, redisVars, taskVars, history, Pcs, HoldPcs, ProcessPcs
<1>4. \A j \in Jobs : InHand(j) => InHand(j)'
  BY DEF TypeOK, InHand, Probe, Go, Release, redisVars, taskVars, history
<1>5. LostOnlyInAckWindow'
  BY <1>1, <1>4, KeptStays DEF TypeOK, Undisturbed, Probe, redisVars, taskVars, history
<1>6. Known'
  BY <1>1, KnownStays DEF TypeOK, Undisturbed, Probe, redisVars, history
<1>7. Alive'
  BY AliveMove DEF TypeOK, Probe, Go, Running, taskVars
<1> QED
  BY <1>2, <1>3, <1>5, <1>6, <1>7

\* Dead-lettering a crash-looping job preserves the invariant.
LEMMA DlqAddInv ==
  ASSUME Inv, NEW t \in Tasks, DlqAdd(t)
  PROVE  Inv'
<1> USE DEF Inv
<1>1. Undisturbed
  BY StreamSame DEF DlqAdd, redisVars
<1>h. \A h \in doomed[t] : h \in Held /\ h.job \in Jobs /\ Backed(h)
  BY DEF TypeOK, Hands, Held
<1>2. TypeOK'
  BY <1>1, <1>h DEF TypeOK, DlqAdd, Undisturbed, StreamKeeps,
                 Go, Release, redisVars, taskVars, history, Pcs, HoldPcs, ProcessPcs
<1>3. Hands'
  BY <1>1, <1>h, HandsMove DEF TypeOK, Undisturbed, Hands, DlqAdd,
                            Go, Release, redisVars, taskVars, history, Pcs, HoldPcs, ProcessPcs
<1>4. \A j \in Jobs : InHand(j) => InHand(j)'
  BY DEF TypeOK, InHand, DlqAdd, Go, Release, redisVars, taskVars, history
<1>5. LostOnlyInAckWindow'
  BY <1>1, <1>4, <1>h, KeptStays DEF TypeOK, Undisturbed, DlqAdd, redisVars, taskVars, history
<1>6. Known'
  BY <1>1, <1>h, KnownStays DEF TypeOK, Undisturbed, DlqAdd, redisVars, history
<1>7. Alive'
  BY AliveMove DEF TypeOK, DlqAdd, Go, Running, taskVars
<1> QED
  BY <1>2, <1>3, <1>5, <1>6, <1>7

\* HSET failed for a crash-looping job preserves the invariant.
LEMMA DlqHsetInv ==
  ASSUME Inv, NEW t \in Tasks, DlqHset(t)
  PROVE  Inv'
<1> USE DEF Inv
<1>1. Undisturbed
  BY StreamSame DEF DlqHset, redisVars
<1>h. /\ cur[t] \in Held /\ cur[t].job \in Jobs /\ Backed(cur[t])
      /\ status[cur[t].job] # "none"
  BY HeldKnown DEF DlqHset, HoldPcs, ProcessPcs
<1>2. TypeOK'
  BY <1>1, <1>h DEF TypeOK, DlqHset, Undisturbed, StreamKeeps,
                 Go, Release, redisVars, taskVars, history, Pcs, HoldPcs, ProcessPcs
<1>3. Hands'
  BY <1>1, <1>h, HandsMove DEF TypeOK, Undisturbed, Hands, DlqHset,
                            Go, Release, redisVars, taskVars, history, Pcs, HoldPcs, ProcessPcs
<1>4. \A j \in Jobs : InHand(j) => InHand(j)'
  BY DEF TypeOK, InHand, DlqHset, Go, Release, redisVars, taskVars, history
<1>5. LostOnlyInAckWindow'
  BY <1>1, <1>4, <1>h, KeptStays DEF TypeOK, Undisturbed, DlqHset, redisVars, taskVars, history
<1>6. Known'
  BY <1>1, <1>h, KnownStays DEF TypeOK, Undisturbed, DlqHset, redisVars, history
<1>7. Alive'
  BY AliveMove DEF TypeOK, DlqHset, Go, Running, taskVars
<1> QED
  BY <1>2, <1>3, <1>5, <1>6, <1>7

\* The end of dead-lettering preserves the invariant.
LEMMA DlqSignalInv ==
  ASSUME Inv, NEW t \in Tasks, DlqSignal(t)
  PROVE  Inv'
<1> USE DEF Inv
<1>1. Undisturbed
  BY StreamSame DEF DlqSignal, redisVars
<1>2. TypeOK'
  BY <1>1 DEF TypeOK, DlqSignal, Undisturbed, StreamKeeps,
                 Go, Release, redisVars, taskVars, history, Pcs, HoldPcs, ProcessPcs
<1>3. Hands'
  BY <1>1, HandsMove DEF TypeOK, Undisturbed, Hands, DlqSignal,
                            Go, Release, redisVars, taskVars, history, Pcs, HoldPcs, ProcessPcs
<1>4. \A j \in Jobs : InHand(j) => InHand(j)'
  BY DEF TypeOK, InHand, DlqSignal, Go, Release, redisVars, taskVars, history
<1>5. LostOnlyInAckWindow'
  BY <1>1, <1>4, KeptStays DEF TypeOK, Undisturbed, DlqSignal, redisVars, taskVars, history
<1>6. Known'
  BY <1>1, KnownStays DEF TypeOK, Undisturbed, DlqSignal, redisVars, history
<1>7. Alive'
  BY AliveMove DEF TypeOK, DlqSignal, Go, Running, taskVars
<1> QED
  BY <1>2, <1>3, <1>5, <1>6, <1>7

\* Taking the next reclaimed job preserves the invariant.
LEMMA BatchNextInv ==
  ASSUME Inv, NEW t \in Tasks, BatchNext(t)
  PROVE  Inv'
<1> USE DEF Inv
<1>1. Undisturbed
  BY StreamSame DEF BatchNext, redisVars
<1>2. TypeOK'
  BY <1>1 DEF TypeOK, BatchNext, Undisturbed, StreamKeeps,
                 Go, Release, redisVars, taskVars, history, Pcs, HoldPcs, ProcessPcs
<1>3. Hands'
  BY <1>1, HandsMove DEF TypeOK, Undisturbed, Hands, BatchNext,
                            Go, Release, redisVars, taskVars, history, Pcs, HoldPcs, ProcessPcs
<1>4. \A j \in Jobs : InHand(j) => InHand(j)'
  BY DEF TypeOK, InHand, BatchNext, Go, Release, redisVars, taskVars, history
<1>5. LostOnlyInAckWindow'
  BY <1>1, <1>4, KeptStays DEF TypeOK, Undisturbed, BatchNext, redisVars, taskVars, history
<1>6. Known'
  BY <1>1, KnownStays DEF TypeOK, Undisturbed, BatchNext, redisVars, history
<1>7. Alive'
  BY AliveMove DEF TypeOK, BatchNext, Go, Running, taskVars
<1> QED
  BY <1>2, <1>3, <1>5, <1>6, <1>7

\* Ending a batch of reclaimed jobs preserves the invariant.
LEMMA BatchEndsInv ==
  ASSUME Inv, NEW t \in Tasks, BatchEnds(t)
  PROVE  Inv'
<1> USE DEF Inv
<1>1. Undisturbed
  BY StreamSame DEF BatchEnds, redisVars
<1>2. TypeOK'
  BY <1>1 DEF TypeOK, BatchEnds, Undisturbed, StreamKeeps,
                 Go, Release, redisVars, taskVars, history, Pcs, HoldPcs, ProcessPcs
<1>3. Hands'
  BY <1>1, HandsMove DEF TypeOK, Undisturbed, Hands, BatchEnds,
                            Go, Release, redisVars, taskVars, history, Pcs, HoldPcs, ProcessPcs
<1>4. \A j \in Jobs : InHand(j) => InHand(j)'
  BY DEF TypeOK, InHand, BatchEnds, Go, Release, redisVars, taskVars, history
<1>5. LostOnlyInAckWindow'
  BY <1>1, <1>4, KeptStays DEF TypeOK, Undisturbed, BatchEnds, redisVars, taskVars, history
<1>6. Known'
  BY <1>1, KnownStays DEF TypeOK, Undisturbed, BatchEnds, redisVars, history
<1>7. Alive'
  BY AliveMove DEF TypeOK, BatchEnds, Go, Running, taskVars
<1> QED
  BY <1>2, <1>3, <1>5, <1>6, <1>7

\* mark_running preserves the invariant.
LEMMA MarkRunningInv ==
  ASSUME Inv, NEW t \in Tasks, MarkRunning(t)
  PROVE  Inv'
<1> USE DEF Inv
<1>1. Undisturbed
  BY StreamSame DEF MarkRunning, redisVars
<1>h. /\ cur[t] \in Held /\ cur[t].job \in Jobs /\ Backed(cur[t])
      /\ status[cur[t].job] # "none"
  BY HeldKnown DEF MarkRunning, HoldPcs, ProcessPcs
<1>2. TypeOK'
  BY <1>1, <1>h DEF TypeOK, MarkRunning, Undisturbed, StreamKeeps,
                 Go, Release, redisVars, taskVars, history, Pcs, HoldPcs, ProcessPcs
<1>3. Hands'
  BY <1>1, <1>h, HandsMove DEF TypeOK, Undisturbed, Hands, MarkRunning,
                            Go, Release, redisVars, taskVars, history, Pcs, HoldPcs, ProcessPcs
<1>4. \A j \in Jobs : InHand(j) => InHand(j)'
  BY DEF TypeOK, InHand, MarkRunning, Go, Release, redisVars, taskVars, history
<1>5. LostOnlyInAckWindow'
  BY <1>1, <1>4, <1>h, KeptStays DEF TypeOK, Undisturbed, MarkRunning, redisVars, taskVars, history
<1>6. Known'
  BY <1>1, <1>h, KnownStays DEF TypeOK, Undisturbed, MarkRunning, redisVars, history
<1>7. Alive'
  BY AliveMove DEF TypeOK, MarkRunning, Go, Running, taskVars
<1> QED
  BY <1>2, <1>3, <1>5, <1>6, <1>7

\* The HSET of mark_done preserves the invariant.
LEMMA MarkDoneInv ==
  ASSUME Inv, NEW t \in Tasks, MarkDone(t)
  PROVE  Inv'
<1> USE DEF Inv
<1>1. Undisturbed
  BY StreamSame DEF MarkDone, redisVars
<1>h. /\ cur[t] \in Held /\ cur[t].job \in Jobs /\ Backed(cur[t])
      /\ status[cur[t].job] # "none"
  BY HeldKnown DEF MarkDone, HoldPcs, ProcessPcs
<1>2. TypeOK'
  BY <1>1, <1>h DEF TypeOK, MarkDone, Undisturbed, StreamKeeps,
                 Go, Release, redisVars, taskVars, history, Pcs, HoldPcs, ProcessPcs
<1>3. Hands'
  BY <1>1, <1>h, HandsMove DEF TypeOK, Undisturbed, Hands, MarkDone,
                            Go, Release, redisVars, taskVars, history, Pcs, HoldPcs, ProcessPcs
<1>4. \A j \in Jobs : InHand(j) => InHand(j)'
  BY DEF TypeOK, InHand, MarkDone, Go, Release, redisVars, taskVars, history
<1>5. LostOnlyInAckWindow'
  BY <1>1, <1>4, <1>h, KeptStays DEF TypeOK, Undisturbed, MarkDone, redisVars, taskVars, history
<1>6. Known'
  BY <1>1, <1>h, KnownStays DEF TypeOK, Undisturbed, MarkDone, redisVars, history
<1>7. Alive'
  BY AliveMove DEF TypeOK, MarkDone, Go, Running, taskVars
<1> QED
  BY <1>2, <1>3, <1>5, <1>6, <1>7

\* mark_failed up to its HSET preserves the invariant.
LEMMA MarkFailedInv ==
  ASSUME Inv, NEW t \in Tasks, NEW perm \in BOOLEAN, MarkFailed(t, perm)
  PROVE  Inv'
<1> USE DEF Inv
<1>1. Undisturbed
  BY StreamSame DEF MarkFailed
<1>h. /\ cur[t] \in Held /\ cur[t].job \in Jobs /\ Backed(cur[t])
      /\ status[cur[t].job] # "none"
  BY HeldKnown DEF MarkFailed, HoldPcs, ProcessPcs
<1> DEFINE c == [cur[t] EXCEPT !.retries = cur[t].retries + 1]
<1>c. c \in Held /\ c.job = cur[t].job /\ c.sid = cur[t].sid
  <2>1. cur[t].retries + 1 \in Nat
    BY <1>h DEF Held
  <2> QED
    BY <1>h, <2>1 DEF Held
<1>d. cur' = [cur EXCEPT ![t] = c]
  BY DEF MarkFailed
<1> HIDE DEF c
<1>p. \/ pc' = [pc EXCEPT ![t] = "ackRetry"] /\ status' = [status EXCEPT ![cur[t].job] = "queued"]
      \/ pc' = [pc EXCEPT ![t] = "ackDead"] /\ status' = [status EXCEPT ![cur[t].job] = "failed"]
  BY DEF MarkFailed, Go
<1>u. /\ pc[t] \notin {"parkRetry", "parkDead"}
      /\ UNCHANGED <<stream, retry, due, dlq, proc, batch, doomed, ends, faults, history>>
  BY DEF MarkFailed
<1>2. TypeOK'
  BY <1>1, <1>h, <1>c, <1>d, <1>p, <1>u
     DEF TypeOK, Undisturbed, StreamKeeps, history, Pcs, HoldPcs, ProcessPcs
<1>3. Hands'
  <2>1. Backed(c)
    BY <1>h, <1>c DEF Backed
  <2> QED
    BY <1>1, <1>c, <1>d, <1>p, <1>u, <2>1, HandsMove
       DEF TypeOK, Undisturbed, Hands, history, HoldPcs, ProcessPcs
<1>4. \A j \in Jobs : InHand(j) => InHand(j)'
  BY <1>d, <1>p, <1>u DEF TypeOK, InHand
<1>5. LostOnlyInAckWindow'
  BY <1>1, <1>4, <1>h, <1>p, <1>u, KeptStays DEF TypeOK, Undisturbed, history
<1>6. Known'
  BY <1>1, <1>h, <1>p, <1>u, KnownStays DEF TypeOK, Undisturbed
<1>7. Alive'
  BY <1>p, <1>u, AliveMove DEF TypeOK, MarkFailed, Running
<1> QED
  BY <1>2, <1>3, <1>5, <1>6, <1>7

\* The ZADD of mark_failed preserves the invariant.
LEMMA ParkRetryInv ==
  ASSUME Inv, NEW t \in Tasks, ParkRetry(t)
  PROVE  Inv'
<1> USE DEF Inv
<1>1. Undisturbed
  BY StreamSame DEF ParkRetry, redisVars
<1>h. /\ cur[t] \in Held /\ cur[t].job \in Jobs /\ Backed(cur[t])
      /\ status[cur[t].job] # "none"
  BY HeldKnown DEF ParkRetry, HoldPcs, ProcessPcs
<1>c. /\ CopyOf(cur[t]) \in Copy /\ CopyOf(cur[t]).job = cur[t].job
  BY <1>h DEF CopyOf, Copy, Held
<1>l. LoopPc(t) \in {"batch", "idle"}
  BY DEF LoopPc
<1>2. TypeOK'
  BY <1>1, <1>h, <1>c, <1>l DEF TypeOK, ParkRetry, Undisturbed, StreamKeeps,
                 Go, Release, redisVars, taskVars, history, Pcs, HoldPcs, ProcessPcs
<1>3. Hands'
  BY <1>1, <1>h, <1>c, <1>l, HandsMove DEF TypeOK, Undisturbed, Hands, ParkRetry,
                            Go, Release, redisVars, taskVars, history, Pcs, HoldPcs, ProcessPcs
<1>4. \A j \in Jobs : InHand(j) => InHand(j)' \/ \E c \in retry' : c.job = j
  BY <1>c DEF TypeOK, InHand, ParkRetry, Go, Release, redisVars, taskVars, history
<1>5. LostOnlyInAckWindow'
  BY <1>1, <1>4, <1>h, <1>c, <1>l, KeptStays DEF TypeOK, Undisturbed, ParkRetry, redisVars, taskVars, history
<1>6. Known'
  BY <1>1, <1>h, <1>c DEF TypeOK, Known, Undisturbed, StreamKeeps, ParkRetry, Ids
<1>7. Alive'
  BY AliveMove DEF TypeOK, ParkRetry, Go, Running, taskVars
<1> QED
  BY <1>2, <1>3, <1>5, <1>6, <1>7

\* The XADD of mark_failed preserves the invariant.
LEMMA ParkDeadInv ==
  ASSUME Inv, NEW t \in Tasks, ParkDead(t)
  PROVE  Inv'
<1> USE DEF Inv
<1>1. Undisturbed
  BY StreamSame DEF ParkDead, redisVars
<1>h. /\ cur[t] \in Held /\ cur[t].job \in Jobs /\ Backed(cur[t])
      /\ status[cur[t].job] # "none"
  BY HeldKnown DEF ParkDead, HoldPcs, ProcessPcs
<1>2. TypeOK'
  BY <1>1, <1>h DEF TypeOK, ParkDead, Undisturbed, StreamKeeps,
                 Go, Release, redisVars, taskVars, history, Pcs, HoldPcs, ProcessPcs
<1>3. Hands'
  BY <1>1, <1>h, HandsMove DEF TypeOK, Undisturbed, Hands, ParkDead,
                            Go, Release, redisVars, taskVars, history, Pcs, HoldPcs, ProcessPcs
<1>4. \A j \in Jobs : InHand(j) => InHand(j)' \/ j \in dlq'
  BY DEF TypeOK, InHand, ParkDead, Go, Release, redisVars, taskVars, history
<1>5. LostOnlyInAckWindow'
  BY <1>1, <1>4, <1>h, KeptStays DEF TypeOK, Undisturbed, ParkDead, redisVars, taskVars, history
<1>6. Known'
  BY <1>1, <1>h, KnownStays DEF TypeOK, Undisturbed, ParkDead, redisVars, history
<1>7. Alive'
  BY AliveMove DEF TypeOK, ParkDead, Go, Running, taskVars
<1> QED
  BY <1>2, <1>3, <1>5, <1>6, <1>7

\* The result signal preserves the invariant.
LEMMA SignalInv ==
  ASSUME Inv, NEW t \in Tasks, Signal(t)
  PROVE  Inv'
<1> USE DEF Inv
<1>1. Undisturbed
  BY StreamSame DEF Signal, redisVars
<1>l. LoopPc(t) \in {"batch", "idle"}
  BY DEF LoopPc
<1>2. TypeOK'
  BY <1>1, <1>l DEF TypeOK, Signal, Undisturbed, StreamKeeps,
                 Go, Release, redisVars, taskVars, history, Pcs, HoldPcs, ProcessPcs
<1>3. Hands'
  BY <1>1, <1>l, HandsMove DEF TypeOK, Undisturbed, Hands, Signal,
                            Go, Release, redisVars, taskVars, history, Pcs, HoldPcs, ProcessPcs
<1>4. \A j \in Jobs : InHand(j) => InHand(j)'
  BY DEF TypeOK, InHand, Signal, Go, Release, redisVars, taskVars, history
<1>5. LostOnlyInAckWindow'
  BY <1>1, <1>4, <1>l, KeptStays DEF TypeOK, Undisturbed, Signal, redisVars, taskVars, history
<1>6. Known'
  BY <1>1, <1>l, KnownStays DEF TypeOK, Undisturbed, Signal, redisVars, history
<1>7. Alive'
  BY AliveMove DEF TypeOK, Signal, Go, Running, taskVars
<1> QED
  BY <1>2, <1>3, <1>5, <1>6, <1>7

\* A loop that stops preserves the invariant.
LEMMA LoopExitsInv ==
  ASSUME Inv, NEW t \in Tasks, LoopExits(t)
  PROVE  Inv'
<1> USE DEF Inv
<1>1. Undisturbed
  BY StreamSame DEF LoopExits, redisVars
<1>2. TypeOK'
  BY <1>1 DEF TypeOK, LoopExits, Undisturbed, StreamKeeps,
                 Go, Release, redisVars, taskVars, history, Pcs, HoldPcs, ProcessPcs
<1>3. Hands'
  BY <1>1, HandsMove DEF TypeOK, Undisturbed, Hands, LoopExits,
                            Go, Release, redisVars, taskVars, history, Pcs, HoldPcs, ProcessPcs
<1>4. \A j \in Jobs : InHand(j) => InHand(j)'
  BY DEF TypeOK, InHand, LoopExits, Go, Release, redisVars, taskVars, history
<1>5. LostOnlyInAckWindow'
  BY <1>1, <1>4, KeptStays DEF TypeOK, Undisturbed, LoopExits, redisVars, taskVars, history
<1>6. Known'
  BY <1>1, KnownStays DEF TypeOK, Undisturbed, LoopExits, redisVars, history
<1>7. Alive'
  BY AliveMove DEF TypeOK, LoopExits, Go, Running, taskVars
<1> QED
  BY <1>2, <1>3, <1>5, <1>6, <1>7

\* A lost reply preserves the invariant.
LEMMA ReplyLostInv ==
  ASSUME Inv, NEW t \in Tasks, ReplyLost(t)
  PROVE  Inv'
<1> USE DEF Inv
<1>1. Undisturbed
  BY DeliverKeeps, ClaimKeeps DEF ReplyLost
<1>2. TypeOK'
  BY <1>1 DEF TypeOK, ReplyLost, Undisturbed, StreamKeeps,
                 Go, Release, redisVars, taskVars, history, Pcs, HoldPcs, ProcessPcs, Fault
<1>3. Hands'
  BY <1>1, HandsMove DEF TypeOK, Undisturbed, Hands, ReplyLost,
                            Go, Release, redisVars, taskVars, history, Pcs, HoldPcs, ProcessPcs, Fault
<1>4. \A j \in Jobs : InHand(j) => InHand(j)'
  BY DEF TypeOK, InHand, ReplyLost, Go, Release, redisVars, taskVars, history
<1>5. LostOnlyInAckWindow'
  BY <1>1, <1>4, KeptStays DEF TypeOK, Undisturbed, ReplyLost, redisVars, taskVars, history
<1>6. Known'
  BY <1>1, KnownStays DEF TypeOK, Undisturbed, ReplyLost, redisVars, history
<1>7. Alive'
  BY AliveMove DEF TypeOK, ReplyLost, Go, Running, taskVars
<1> QED
  BY <1>2, <1>3, <1>5, <1>6, <1>7

\* A raised XPENDING preserves the invariant.
LEMMA ProbeFaultInv ==
  ASSUME Inv, NEW t \in Tasks, ProbeFault(t)
  PROVE  Inv'
<1> USE DEF Inv
<1>1. Undisturbed
  BY StreamSame DEF ProbeFault, redisVars
<1>2. TypeOK'
  BY <1>1 DEF TypeOK, ProbeFault, Undisturbed, StreamKeeps,
                 Go, Release, redisVars, taskVars, history, Pcs, HoldPcs, ProcessPcs, Fault
<1>3. Hands'
  BY <1>1, HandsMove DEF TypeOK, Undisturbed, Hands, ProbeFault,
                            Go, Release, redisVars, taskVars, history, Pcs, HoldPcs, ProcessPcs, Fault
<1>4. \A j \in Jobs : InHand(j) => InHand(j)'
  BY DEF TypeOK, InHand, ProbeFault, Go, Release, redisVars, taskVars, history
<1>5. LostOnlyInAckWindow'
  BY <1>1, <1>4, KeptStays DEF TypeOK, Undisturbed, ProbeFault, redisVars, taskVars, history
<1>6. Known'
  BY <1>1, KnownStays DEF TypeOK, Undisturbed, ProbeFault, redisVars, history
<1>7. Alive'
  BY AliveMove DEF TypeOK, ProbeFault, Go, Running, taskVars
<1> QED
  BY <1>2, <1>3, <1>5, <1>6, <1>7

\* Dead-lettering that raises part way preserves the invariant.
LEMMA DlqFaultInv ==
  ASSUME Inv, NEW t \in Tasks, DlqFault(t)
  PROVE  Inv'
<1> USE DEF Inv
<1>1. Undisturbed
  BY StreamSame DEF DlqFault, redisVars
<1>h. pc[t] # "batch" => cur[t] \in Held /\ Backed(cur[t])
  BY HeldKnown DEF DlqFault, HoldPcs
<1>b. batch' \in [Tasks -> SUBSET Held] /\ doomed' \in [Tasks -> SUBSET Held]
  BY <1>h DEF TypeOK, DlqFault
<1>r. cur' \in [Tasks -> Held \cup {NoJob}]
  BY DEF TypeOK, DlqFault, Release
<1>2. TypeOK'
  BY <1>1, <1>h, <1>b, <1>r DEF TypeOK, DlqFault, Undisturbed, StreamKeeps,
                 Go, Release, redisVars, taskVars, history, Pcs, HoldPcs, ProcessPcs, Fault
<1>3. Hands'
  BY <1>1, <1>h, <1>b, <1>r, HandsMove DEF TypeOK, Undisturbed, Hands, DlqFault,
                            Go, Release, redisVars, taskVars, history, Pcs, HoldPcs, ProcessPcs, Fault
<1>4. \A j \in Jobs : InHand(j) => InHand(j)'
  BY DEF TypeOK, InHand, DlqFault, Go, Release, redisVars, taskVars, history
<1>5. LostOnlyInAckWindow'
  BY <1>1, <1>4, <1>h, <1>b, <1>r, KeptStays DEF TypeOK, Undisturbed, DlqFault, redisVars, taskVars, history
<1>6. Known'
  BY <1>1, <1>h, <1>b, <1>r, KnownStays DEF TypeOK, Undisturbed, DlqFault, redisVars, history
<1>7. Alive'
  BY AliveMove DEF TypeOK, DlqFault, Go, Running, taskVars
<1> QED
  BY <1>2, <1>3, <1>5, <1>6, <1>7

\* An ack that raises preserves the invariant.
LEMMA AckFaultInv ==
  ASSUME Inv, NEW t \in Tasks, AckFault(t)
  PROVE  Inv'
<1> USE DEF Inv
<1>1. Undisturbed
  BY StreamSame DEF AckFault, redisVars
<1>h. /\ cur[t] \in Held /\ cur[t].job \in Jobs /\ Backed(cur[t])
      /\ status[cur[t].job] # "none"
  BY HeldKnown DEF AckFault, HoldPcs, ProcessPcs
<1>a. AfterAck(t) \in {"signal", "parkRetry", "parkDead"}
  BY DEF AfterAck, AckFault
<1>2. TypeOK'
  BY <1>1, <1>h, <1>a DEF TypeOK, AckFault, Undisturbed, StreamKeeps,
                 Go, Release, redisVars, taskVars, history, Pcs, HoldPcs, ProcessPcs, Fault
<1>3. Hands'
  BY <1>1, <1>h, <1>a, HandsMove DEF TypeOK, Undisturbed, Hands, AckFault,
                            Go, Release, redisVars, taskVars, history, Pcs, HoldPcs, ProcessPcs, Fault
<1>4. \A j \in Jobs : InHand(j) => InHand(j)'
  BY DEF TypeOK, InHand, AckFault, Go, Release, redisVars, taskVars, history
<1>5. LostOnlyInAckWindow'
  BY <1>1, <1>4, <1>h, <1>a, KeptStays DEF TypeOK, Undisturbed, AckFault, redisVars, taskVars, history
<1>6. Known'
  BY <1>1, <1>h, <1>a, KnownStays DEF TypeOK, Undisturbed, AckFault, redisVars, history
<1>7. Alive'
  BY AliveMove DEF TypeOK, AckFault, Go, Running, taskVars
<1> QED
  BY <1>2, <1>3, <1>5, <1>6, <1>7

\* A loop that ends in an exception preserves the invariant.
LEMMA TaskDiesInv ==
  ASSUME Inv, NEW t \in Tasks, TaskDies(t)
  PROVE  Inv'
<1> USE DEF Inv
<1>1. Undisturbed
  BY StreamSame DEF TaskDies, redisVars
<1>u. Unparked({t}) \subseteq Jobs
  BY HeldKnown DEF Unparked, HoldPcs, ProcessPcs
<1>d. dropped \subseteq dropped' /\ dropped' \subseteq Jobs
  BY <1>u DEF TypeOK, TaskDies
<1>b. batch' \in [Tasks -> SUBSET Held] /\ cur' \in [Tasks -> Held \cup {NoJob}]
  BY DEF TypeOK, TaskDies, Release
<1>2. TypeOK'
  <2>1. pc' \in [Tasks -> Pcs] /\ faults' \in Nat
    BY DEF TypeOK, TaskDies, Go, Fault, Pcs
  <2>2. UNCHANGED <<redisVars, proc, doomed, ends, completed>>
    BY DEF TaskDies
  <2> QED
    BY <1>d, <1>b, <2>1, <2>2 DEF TypeOK, redisVars
<1>3. Hands'
  BY <1>1, <1>d, <1>b, HandsMove DEF TypeOK, Undisturbed, Hands, TaskDies,
                            Go, Release, redisVars, taskVars, history, Pcs, HoldPcs, ProcessPcs, Fault
<1>4. \A j \in Jobs : InHand(j) => InHand(j)' \/ j \in dropped'
  BY DEF TypeOK, InHand, TaskDies, Go, Release, redisVars, taskVars, history, Unparked
<1>5. LostOnlyInAckWindow'
  BY <1>1, <1>4, <1>d, <1>b, KeptStays DEF TypeOK, Undisturbed, TaskDies, redisVars, taskVars, history
<1>6. Known'
  BY <1>1, <1>d, <1>b, KnownStays DEF TypeOK, Undisturbed, TaskDies, redisVars, history
<1>7. Alive'
  BY AliveMove DEF TypeOK, TaskDies, Go, Running, taskVars
<1> QED
  BY <1>2, <1>3, <1>5, <1>6, <1>7

\* Acking the entry a task holds loses no job when the task has recorded the
\* job as completed or dead-lettered, or goes on to park it.
LEMMA AckedKept ==
  ASSUME Inv, NEW t \in Tasks, pc[t] \in HoldPcs, AckEntry(t),
         UNCHANGED <<status, retry, dlq, completed, dropped, cur>>,
         \A u \in Tasks \ {t} : pc'[u] = pc[u],
         pc[t] \notin {"parkRetry", "parkDead"},
         \/ cur[t].job \in completed \cup dlq
         \/ pc'[t] \in {"parkRetry", "parkDead"}
  PROVE  LostOnlyInAckWindow'
<1> USE DEF Inv
<1>1. /\ StreamKeeps /\ Len(stream') = Len(stream)
      /\ \A i \in 1..Len(stream) : i # cur[t].sid => stream'[i] = stream[i]
  BY AckKeeps
<1>2. stream[cur[t].sid].job = cur[t].job
  BY HeldKnown DEF Backed
<1> SUFFICES ASSUME NEW j \in Jobs, status'[j] # "none"
             PROVE  Kept(j)' \/ j \in dropped'
  BY DEF LostOnlyInAckWindow
<1>3. Kept(j) \/ j \in dropped
  BY DEF LostOnlyInAckWindow
<1>4. InHand(j) => InHand(j)'
  BY DEF InHand
<1>5. CASE j = cur[t].job
  BY <1>3, <1>5 DEF Kept, InHand
<1>6. CASE j # cur[t].job
  <2>1. Recoverable(j) => Recoverable(j)'
    BY <1>1, <1>2, <1>6 DEF Recoverable, Ids
  <2> QED
    BY <1>3, <1>4, <2>1 DEF Kept
<1> QED
  BY <1>5, <1>6

\* _ack of mark_done and mark_failed preserves the invariant.
LEMMA AckInv ==
  ASSUME Inv, NEW t \in Tasks, Ack(t)
  PROVE  Inv'
<1> USE DEF Inv
<1>1. StreamKeeps /\ Len(stream') = Len(stream)
  BY AckKeeps DEF Ack
<1>h. pc[t] \in HoldPcs /\ cur[t] \in Held /\ Backed(cur[t])
  BY HeldKnown DEF Ack, HoldPcs, ProcessPcs
<1>a. /\ AfterAck(t) \in {"signal", "parkRetry", "parkDead"}
      /\ pc[t] # "ackDone" => AfterAck(t) \in {"parkRetry", "parkDead"}
  BY DEF AfterAck, Ack
<1>2. TypeOK'
  BY <1>1, <1>a DEF TypeOK, Ack, StreamKeeps, Go, history, Pcs, HoldPcs, ProcessPcs
<1>3. Hands'
  BY <1>1, <1>h, <1>a, HandsMove DEF TypeOK, Hands, Ack, Go, history, HoldPcs, ProcessPcs
<1>4. cur[t].job \in completed \/ AfterAck(t) \in {"parkRetry", "parkDead"}
  BY <1>a DEF Hands
<1>5. LostOnlyInAckWindow'
  BY <1>h, <1>4, AckedKept DEF TypeOK, Ack, Go, history
<1>6. Known'
  BY <1>1, KnownStays DEF TypeOK, Ack
<1>7. Alive'
  BY AliveMove DEF TypeOK, Ack, Go, Running
<1> QED
  BY <1>2, <1>3, <1>5, <1>6, <1>7

\* The ack of a dead-lettered crash-looping entry preserves the invariant.
LEMMA DlqAckInv ==
  ASSUME Inv, NEW t \in Tasks, DlqAck(t)
  PROVE  Inv'
<1> USE DEF Inv
<1>1. StreamKeeps /\ Len(stream') = Len(stream)
  BY AckKeeps DEF DlqAck
<1>h. pc[t] \in HoldPcs /\ cur[t] \in Held /\ Backed(cur[t])
  BY HeldKnown DEF DlqAck, HoldPcs
<1>2. TypeOK'
  BY <1>1 DEF TypeOK, DlqAck, StreamKeeps, Go, history, Pcs, HoldPcs
<1>3. Hands'
  BY <1>1, <1>h, HandsMove DEF TypeOK, Hands, DlqAck, Go, history, HoldPcs, ProcessPcs
<1>4. cur[t].job \in dlq
  BY DEF Hands, DlqAck
<1>5. LostOnlyInAckWindow'
  BY <1>h, <1>4, AckedKept DEF TypeOK, DlqAck, Go, history
<1>6. Known'
  BY <1>1, KnownStays DEF TypeOK, DlqAck
<1>7. Alive'
  BY AliveMove DEF TypeOK, DlqAck, Go, Running
<1> QED
  BY <1>2, <1>3, <1>5, <1>6, <1>7

\* Setting _stopped, and the end of a drained process, preserve the invariant.
LEMMA ShutdownInv ==
  ASSUME Inv, NEW p \in Procs, Stop(p) \/ ProcExits(p)
  PROVE  Inv'
<1> USE DEF Inv
<1>1. Undisturbed
  BY StreamSame DEF Stop, ProcExits, redisVars
<1>2. TypeOK'
  BY DEF TypeOK, Stop, ProcExits, redisVars, history
<1>3. Hands'
  BY <1>1, HandsStay DEF Undisturbed, Stop, ProcExits, redisVars, history
<1>4. \A j \in Jobs : InHand(j) => InHand(j)'
  BY DEF InHand, Stop, ProcExits
<1>5. LostOnlyInAckWindow'
  BY <1>1, <1>4, KeptStays DEF Undisturbed, Stop, ProcExits, redisVars, history
<1>6. Known'
  BY <1>1, KnownStays DEF Undisturbed, Stop, ProcExits, redisVars
<1>7. Alive'
  BY DEF TypeOK, Alive, Stop, ProcExits, TasksOf, Tasks
<1> QED
  BY <1>2, <1>3, <1>5, <1>6, <1>7

\* A process crash preserves the invariant: what its tasks had acked and not
\* parked is accounted for in dropped.
LEMMA CrashInv ==
  ASSUME Inv, NEW p \in Procs, Crash(p)
  PROVE  Inv'
<1> USE DEF Inv
<1>1. Undisturbed
  BY StreamSame DEF Crash, redisVars
<1>u. Unparked(TasksOf(p)) \subseteq Jobs
  BY HeldKnown DEF Unparked, TasksOf, HoldPcs, ProcessPcs
<1>d. dropped \subseteq dropped' /\ dropped' \subseteq Jobs
  BY <1>u DEF TypeOK, Crash
<1>e. UNCHANGED <<redisVars, faults, completed>> /\ ends' \in Nat
  BY DEF TypeOK, Crash
<1>t. /\ pc' \in [Tasks -> Pcs] /\ cur' \in [Tasks -> Held \cup {NoJob}]
      /\ batch' \in [Tasks -> SUBSET Held] /\ doomed' \in [Tasks -> SUBSET Held]
      /\ proc' \in [Procs -> {"up", "stopping", "down"}]
  BY DEF TypeOK, Crash, Pcs
<1>2. TypeOK'
  BY <1>d, <1>e, <1>t DEF TypeOK, redisVars
<1>3. Hands'
  <2> SUFFICES ASSUME NEW t \in Tasks
               PROVE  /\ pc'[t] \in HoldPcs => cur'[t] \in Held /\ Backed(cur[t])'
                      /\ \A h \in (batch[t] \cup doomed[t])' : Backed(h)'
                      /\ pc'[t] = "ackDone" => cur'[t].job \in completed'
                      /\ pc'[t] \in {"dlqAck", "dlqHset", "dlqSignal"} => cur'[t].job \in dlq'
    BY DEF Hands
  <2>1. CASE t[1] = p
    <3>1. pc'[t] = "off" /\ batch'[t] = {} /\ doomed'[t] = {}
      BY <2>1 DEF Crash
    <3> QED
      BY <3>1 DEF HoldPcs, ProcessPcs
  <2>2. CASE t[1] # p
    <3>1. pc'[t] = pc[t] /\ cur'[t] = cur[t] /\ batch'[t] = batch[t] /\ doomed'[t] = doomed[t]
      BY <2>2 DEF Crash
    <3> QED
      BY <3>1, <1>e DEF Hands, Backed, Ids, redisVars
  <2> QED
    BY <2>1, <2>2
<1>4. ASSUME NEW j \in Jobs, InHand(j)
      PROVE  InHand(j)' \/ j \in dropped'
  <2>1. PICK t \in Tasks : pc[t] \in {"parkRetry", "parkDead"} /\ cur[t].job = j
    BY <1>4 DEF InHand
  <2>2. CASE t[1] = p
    BY <2>1, <2>2 DEF Crash, Unparked, TasksOf
  <2>3. CASE t[1] # p
    BY <2>1, <2>3 DEF Crash, InHand
  <2> QED
    BY <2>2, <2>3
<1>5. LostOnlyInAckWindow'
  BY <1>1, <1>4, <1>d, <1>e, KeptStays DEF Undisturbed, redisVars
<1>6. Known'
  BY <1>1, <1>e, KnownStays DEF Undisturbed, redisVars
<1>7. Alive'
  BY DEF TypeOK, Alive, Crash, Tasks
<1> QED
  BY <1>2, <1>3, <1>5, <1>6, <1>7

\* A restarted process preserves the invariant: it had no task left.
LEMMA RestartInv ==
  ASSUME Inv, NEW p \in Procs, Restart(p)
  PROVE  Inv'
<1> USE DEF Inv
<1>1. Undisturbed
  BY StreamSame DEF Restart, redisVars
<1>p. \A t \in Tasks : pc'[t] = pc[t] \/ (pc[t] = "off" /\ pc'[t] = "idle")
  BY DEF Restart, Alive
<1>e. UNCHANGED <<redisVars, cur, batch, doomed, ends, faults, history>>
  BY DEF Restart
<1>2. TypeOK'
  BY DEF TypeOK, Restart, redisVars, history, Pcs
<1>3. Hands'
  <2> SUFFICES ASSUME NEW t \in Tasks
               PROVE  /\ pc'[t] \in HoldPcs => cur'[t] \in Held /\ Backed(cur[t])'
                      /\ \A h \in (batch[t] \cup doomed[t])' : Backed(h)'
                      /\ pc'[t] = "ackDone" => cur'[t].job \in completed'
                      /\ pc'[t] \in {"dlqAck", "dlqHset", "dlqSignal"} => cur'[t].job \in dlq'
    BY DEF Hands
  <2> QED
    BY <1>p, <1>e DEF Hands, Backed, Ids, redisVars, history, HoldPcs, ProcessPcs
<1>4. \A j \in Jobs : InHand(j) => InHand(j)'
  BY <1>p, <1>e DEF InHand
<1>5. LostOnlyInAckWindow'
  BY <1>1, <1>4, <1>e, KeptStays DEF Undisturbed, redisVars, history
<1>6. Known'
  BY <1>1, <1>e, KnownStays DEF Undisturbed, redisVars
<1>7. Alive'
  BY DEF TypeOK, Alive, Restart, Tasks
<1> QED
  BY <1>2, <1>3, <1>5, <1>6, <1>7

-----------------------------------------------------------------------------
(***************************************************************************)
(* The theorems.                                                           *)
(***************************************************************************)

\* The invariant holds initially.
LEMMA InitInv == Init => Inv
<1> SUFFICES ASSUME Init
             PROVE  Inv
  OBVIOUS
<1>1. TypeOK
  BY EmptySeq DEF Init, TypeOK, Pcs, Tasks
<1>2. Ids = {}
  BY EmptySeq DEF Init, Ids
<1> QED
  BY <1>1, <1>2 DEF Init, Inv, Hands, Known, Alive, LostOnlyInAckWindow, HoldPcs, ProcessPcs, Tasks

\* Every step of the queue and of its workers preserves the invariant.
LEMMA NextInv == Inv /\ [Next]_vars => Inv'
<1> SUFFICES ASSUME Inv, [Next]_vars
             PROVE  Inv'
  OBVIOUS
<1>1. ASSUME NEW j \in Jobs, Enqueue(j)
      PROVE  Inv'
  BY <1>1, EnqueueInv
<1>2. ASSUME NEW c \in retry, BackoffElapses(c)
      PROVE  Inv'
  BY <1>2, BackoffInv
<1>3. ASSUME NEW i \in Ids, GoesIdle(i)
      PROVE  Inv'
  BY <1>3, IdleInv
<1>4. ASSUME NEW t \in Tasks, Step(t)
      PROVE  Inv'
  BY <1>4, PromoteInv, ReadInv, AutoClaimInv, ProbeInv, DlqAddInv, DlqAckInv, DlqHsetInv,
     DlqSignalInv, BatchNextInv, BatchEndsInv, MarkRunningInv, MarkDoneInv, MarkFailedInv,
     AckInv, ParkRetryInv, ParkDeadInv, SignalInv, LoopExitsInv DEF Step
<1>5. ASSUME NEW t \in Tasks, Raise(t)
      PROVE  Inv'
  BY <1>5, ReplyLostInv, ProbeFaultInv, DlqFaultInv, AckFaultInv, TaskDiesInv DEF Raise
<1>6. ASSUME NEW p \in Procs, Stop(p) \/ ProcExits(p) \/ Crash(p) \/ Restart(p)
      PROVE  Inv'
  BY <1>6, ShutdownInv, CrashInv, RestartInv
<1>7. CASE UNCHANGED vars
  BY <1>7, StutterInv
<1> QED
  BY <1>1, <1>2, <1>3, <1>4, <1>5, <1>6, <1>7 DEF Next

\* The keys of the queue and the memory of the worker tasks keep their shape.
THEOREM TypeCorrect == Spec => []TypeOK
<1>1. Inv => TypeOK
  BY DEF Inv
<1> QED
  BY InitInv, NextInv, <1>1, PTL DEF Spec

\* However many jobs, processes, retries, crashes and raised commands there are,
\* a job leaves the queue unfinished only when its task ends between the _ack
\* of mark_failed and the ZADD or XADD that keeps the copy.
THEOREM AckWindowTheorem == Spec => []LostOnlyInAckWindow
<1>1. Inv => LostOnlyInAckWindow
  BY DEF Inv
<1> QED
  BY InitInv, NextInv, <1>1, PTL DEF Spec

\* Both: what queue.py keeps in Redis and worker.py in its tasks has its shape,
\* and no job is lost outside the ack window of mark_failed.
THEOREM QueueTheorem == Spec => []QueueSound
BY TypeCorrect, AckWindowTheorem, PTL DEF QueueSound
-----------------------------------------------------------------------------
(***************************************************************************)
(* Retries and status.  Two more facts, inductive together with Inv.       *)
(***************************************************************************)

\* Retries a copy may have that can still be delivered: none, or some left.
Fits(n) == n = 0 \/ n < MaxRetries

\* The state of a task: what it took from the stream had been delivered, and
\* fits; what it is about to put back has retries left; only a reclaimer has
\* claimed jobs, and has dealt with them when it is idle.
TaskFine(t) ==
  /\ pc[t] \in {"got", "running", "dlqAck", "dlqHset", "dlqSignal"}
       => Fits(cur[t].retries)
  /\ pc[t] \in {"ackRetry", "parkRetry"} => cur[t].retries < MaxRetries
  /\ pc[t] \in HoldPcs => stream[cur[t].sid].st # "unread"
  /\ \A h \in batch[t] \cup doomed[t] :
       Fits(h.retries) /\ stream[h.sid].st # "unread"
  /\ pc[t] \in {"idle", "off"} => batch[t] = {}
  /\ pc[t] \notin {"batch", "dlqAck", "dlqHset", "dlqSignal"} => doomed[t] = {}
  /\ ~Reclaimer(t) =>
       batch[t] = {} /\ pc[t] \notin {"probe", "batch", "dlqAck", "dlqHset", "dlqSignal"}

Fine == /\ \A i \in Ids : Fits(stream[i].retries)
        /\ \A c \in retry : c.retries < MaxRetries
        /\ \A t \in Tasks : TaskFine(t)

\* Copies of j that will still be handed to a task.
InRedis(j) == \/ \E c \in retry : c.job = j
              \/ \E i \in Ids : stream[i].job = j /\ Unread(i)

\* Task t will still write the status of j, or put a copy back.
Awaiting(t, j) ==
  \/ pc[t] \in {"got", "ackRetry", "parkRetry", "dlqAck", "dlqHset"}
       /\ cur[t].job = j
  \/ \E h \in batch[t] \cup doomed[t] : h.job = j

RunsIt(t, j) == pc[t] = "running" /\ cur[t].job = j
Buries(t, j) == pc[t] \in {"ackDead", "parkDead"} /\ cur[t].job = j

\* Behind every status stands what it says: a queued job has a copy whose
\* taker has not written yet, a running one a task that runs it, and a final
\* one the record of where the job is, or the task about to make it.
Stands(j) ==
  /\ status[j] = "queued" => InRedis(j) \/ \E t \in Tasks : Awaiting(t, j)
  /\ status[j] = "running" => \E t \in Tasks : RunsIt(t, j)
  /\ status[j] = "failed" => j \in dlq \/ \E t \in Tasks : Buries(t, j)
  /\ status[j] = "done" => j \in completed

LastWord ==
  /\ ends = 0 => \A p \in Procs : proc[p] = "up"
  /\ ends = 0 /\ faults = 0 => \A j \in Jobs : Stands(j)

\* What a step leaves of an entry's retries and of its being unread.
Seasoned ==
  \A i \in 1..Len(stream) :
    /\ stream'[i].retries = stream[i].retries
    /\ stream'[i].st = "unread" => stream[i].st = "unread"

\* A step that hands out nothing.
NothingRead ==
  \A i \in 1..Len(stream) : stream[i].st = "unread" => stream'[i].st = "unread"

LEMMA StreamType ==
  ASSUME TypeOK
  PROVE  Len(stream) \in Nat /\ stream \in [1..Len(stream) -> Entry]
BY LenProperties DEF TypeOK

\* The visibility timeout, XAUTOCLAIM and a stream left alone hand out nothing.
LEMMA SameSeasoned ==
  ASSUME TypeOK, UNCHANGED stream
  PROVE  Seasoned /\ NothingRead
BY DEF Seasoned, NothingRead

LEMMA IdleSeasoned ==
  ASSUME TypeOK, NEW i \in Ids, GoesIdle(i)
  PROVE  Seasoned /\ NothingRead
<1>1. stream' = [stream EXCEPT ![i] = [stream[i] EXCEPT !.idle = TRUE]]
  BY DEF GoesIdle
<1> QED
  BY <1>1, StreamType DEF Seasoned, NothingRead, Entry, Ids

LEMMA ClaimSeasoned ==
  ASSUME TypeOK, Claim
  PROVE  Seasoned /\ NothingRead
<1> SUFFICES ASSUME NEW i \in 1..Len(stream)
             PROVE  /\ stream'[i].retries = stream[i].retries
                    /\ stream'[i].st = stream[i].st
  BY DEF Seasoned, NothingRead
<1>1. stream[i] \in Entry
  BY StreamType
<1>2. stream'[i] = IF i \in Stale
                   THEN [stream[i] EXCEPT !.times = @ + 1, !.idle = FALSE]
                   ELSE stream[i]
  BY DEF Claim, Ids
<1> QED
  BY <1>1, <1>2 DEF Entry

\* XREADGROUP hands out one entry and leaves the others alone.
LEMMA DeliverSeasoned ==
  ASSUME TypeOK, NEW i \in Ids, Deliver(i)
  PROVE  /\ Seasoned /\ stream'[i].st = "pending"
         /\ \A k \in 1..Len(stream) : k # i => stream'[k] = stream[k]
<1> DEFINE e == [stream[i] EXCEPT !.st = "pending", !.times = 1]
<1>1. stream[i] \in Entry /\ i \in 1..Len(stream)
  BY StreamType DEF Ids
<1>2. stream' = [stream EXCEPT ![i] = e]
  BY StreamType DEF Deliver, Ids
<1>3. e.retries = stream[i].retries /\ e.st = "pending"
  BY <1>1 DEF Entry
<1> HIDE DEF e
<1> QED
  BY <1>1, <1>2, <1>3, StreamType DEF Seasoned

\* An ack takes out an entry that had been handed out.
LEMMA AckSeasoned ==
  ASSUME TypeOK, NEW t \in Tasks, AckEntry(t), stream[cur[t].sid].st # "unread"
  PROVE  Seasoned /\ NothingRead
<1> DEFINE s == cur[t].sid
           e == [stream[s] EXCEPT !.st = "gone", !.times = 0, !.idle = FALSE]
<1>1. stream' = [stream EXCEPT ![s] = e] /\ stream[s].st # "unread"
  BY DEF AckEntry
<1>2. s \in 1..Len(stream) => e.retries = stream[s].retries /\ e.st = "gone"
  BY StreamType DEF Entry
<1> HIDE DEF e, s
<1> QED
  BY <1>1, <1>2, StreamType DEF Seasoned, NothingRead

\* enqueue() adds an unread entry without retries.
LEMMA EnqueueSeasoned ==
  ASSUME TypeOK, NEW j \in Jobs, Enqueue(j)
  PROVE  /\ Seasoned /\ NothingRead
         /\ \A i \in 1..Len(stream') : i \notin 1..Len(stream) => stream'[i].retries = 0
         /\ \E i \in 1..Len(stream') : stream'[i].job = j /\ stream'[i].st = "unread"
<1> DEFINE e == NewEntry([job |-> j, retries |-> 0])
<1>1. stream \in Seq(Entry) /\ Len(stream) \in Nat
  BY StreamType DEF TypeOK
<1>2. e \in Entry /\ e.job = j /\ e.st = "unread" /\ e.retries = 0
  BY DEF NewEntry, Entry
<1>3. stream' = Append(stream, e)
  BY DEF Enqueue
<1> HIDE DEF e
<1>4. /\ stream' \in Seq(Entry)
      /\ Len(stream') = Len(stream) + 1
      /\ \A i \in 1..Len(stream) : stream'[i] = stream[i]
      /\ stream'[Len(stream) + 1] = e
  BY <1>1, <1>2, <1>3, AppendProperties
<1> QED
  BY <1>1, <1>2, <1>4 DEF Seasoned, NothingRead

\* _PROMOTE_LUA adds unread entries with the retries of the copies it moves.
LEMMA PromoteSeasoned ==
  ASSUME TypeOK, PromoteDue
  PROVE  /\ Seasoned /\ NothingRead
         /\ \A i \in 1..Len(stream') : i \notin 1..Len(stream) =>
              \E c \in retry : stream'[i].retries = c.retries
         /\ \A c \in retry \ retry' :
              \E i \in 1..Len(stream') : stream'[i].job = c.job /\ stream'[i].st = "unread"
<1> DEFINE n == Len(stream)
<1>1. n \in Nat /\ stream \in [1..n -> Entry]
  BY StreamType
<1>m. PICK m \in 0..PromoteLimit : \E f \in [1..m -> due] :
        /\ stream' = [i \in 1..(n + m) |->
                        IF i <= n THEN stream[i] ELSE NewEntry(f[i - n])]
        /\ retry' = retry \ {f[k] : k \in 1..m}
  BY DEF PromoteDue
<1>2. PICK f \in [1..m -> due] :
        /\ stream' = [i \in 1..(n + m) |->
                        IF i <= n THEN stream[i] ELSE NewEntry(f[i - n])]
        /\ retry' = retry \ {f[k] : k \in 1..m}
  BY <1>m
<1>3. m \in Nat
  BY ConstantsAssumption
<1>4. \A k \in 1..m : /\ NewEntry(f[k]) \in Entry /\ f[k] \in retry
                      /\ NewEntry(f[k]).job = f[k].job
                      /\ NewEntry(f[k]).retries = f[k].retries
                      /\ NewEntry(f[k]).st = "unread"
  BY DEF TypeOK, NewEntry, Entry, Copy
<1>5. DOMAIN stream' = 1..(n + m) /\ Len(stream') = n + m
  <2>1. stream' \in [1..(n + m) -> Entry]
    <3>1. \A i \in 1..(n + m) : i <= n => stream[i] \in Entry
      BY <1>1
    <3>2. \A i \in 1..(n + m) : ~(i <= n) => i - n \in 1..m
      BY <1>1, <1>3
    <3>3. \A i \in 1..(n + m) : ~(i <= n) => NewEntry(f[i - n]) \in Entry
      BY <3>2, <1>4
    <3> QED
      BY <1>2, <3>1, <3>3
  <2> QED
    BY <1>1, <1>3, <2>1, FunctionIsSeq
<1>6. \A i \in 1..n : stream'[i] = stream[i]
  BY <1>1, <1>2, <1>3
<1>7. Seasoned /\ NothingRead
  BY <1>6 DEF Seasoned, NothingRead
<1>8. ASSUME NEW c \in retry \ retry'
      PROVE  \E i \in 1..Len(stream') : stream'[i].job = c.job /\ stream'[i].st = "unread"
  <2>1. PICK k \in 1..m : c = f[k]
    BY <1>2
  <2>2. n + k \in 1..(n + m) /\ ~(n + k <= n) /\ (n + k) - n = k
    BY <1>1, <1>3
  <2>3. stream'[n + k] = NewEntry(f[k])
    BY <1>2, <2>2
  <2> QED
    BY <1>4, <1>5, <2>1, <2>2, <2>3
<1>9. ASSUME NEW i \in 1..Len(stream'), i \notin 1..n
      PROVE  \E c \in retry : stream'[i].retries = c.retries
  <2>1. i \in 1..(n + m) /\ ~(i <= n) /\ i - n \in 1..m
    BY <1>1, <1>3, <1>5, <1>9
  <2>2. stream'[i] = NewEntry(f[i - n])
    BY <1>2, <2>1
  <2> QED
    BY <1>4, <2>1, <2>2
<1> QED
  BY <1>7, <1>8, <1>9
-----------------------------------------------------------------------------
\* A step of one task u keeps Fine when u's own memory is fine after it.
LEMMA FineMove ==
  ASSUME Inv, Fine, StreamKeeps, Seasoned, NEW u \in Tasks,
         \A i \in 1..Len(stream') : i \notin 1..Len(stream) => Fits(stream'[i].retries),
         \A c \in retry' : c.retries < MaxRetries,
         \A t \in Tasks \ {u} : /\ pc'[t] = pc[t] /\ cur'[t] = cur[t]
                                /\ batch'[t] \subseteq batch[t]
                                /\ doomed'[t] \subseteq doomed[t],
         TaskFine(u)'
  PROVE  Fine'
<1>0. Len(stream) \in Nat /\ Len(stream') \in Nat
  BY LenProperties DEF Inv, TypeOK, StreamKeeps
<1>1. ASSUME NEW t \in Tasks, t # u PROVE TaskFine(t)'
  <2>1. TaskFine(t) /\ pc'[t] = pc[t] /\ cur'[t] = cur[t]
        /\ batch'[t] \subseteq batch[t] /\ doomed'[t] \subseteq doomed[t]
    BY <1>1 DEF Fine
  <2>2. \A h : Backed(h) /\ stream[h.sid].st # "unread" => stream'[h.sid].st # "unread"
    BY DEF Backed, Ids, Seasoned
  <2>3. /\ pc[t] \in HoldPcs => Backed(cur[t])
        /\ \A h \in batch[t] \cup doomed[t] : Backed(h)
    BY DEF Inv, Hands
  <2> QED
    BY <2>1, <2>2, <2>3 DEF TaskFine, Fits
<1>2. \A i \in 1..Len(stream') : Fits(stream'[i].retries)
  BY <1>0 DEF Fine, Seasoned, Ids, Fits
<1> QED
  BY <1>1, <1>2 DEF Fine, Ids

\* A step that leaves the tasks alone keeps Fine.
LEMMA FineStays ==
  ASSUME Inv, Fine, StreamKeeps, Seasoned,
         \A i \in 1..Len(stream') : i \notin 1..Len(stream) => Fits(stream'[i].retries),
         \A c \in retry' : c.retries < MaxRetries,
         \A t \in Tasks : /\ \/ pc'[t] = pc[t] /\ cur'[t] = cur[t]
                             \/ /\ pc'[t] \in {"idle", "off"}
                                /\ batch'[t] = {} /\ doomed'[t] = {}
                          /\ batch'[t] \subseteq batch[t]
                          /\ doomed'[t] \subseteq doomed[t]
  PROVE  Fine'
<1>0. Len(stream) \in Nat /\ Len(stream') \in Nat
  BY LenProperties DEF Inv, TypeOK, StreamKeeps
<1>1. ASSUME NEW t \in Tasks PROVE TaskFine(t)'
  <2>1. TaskFine(t)
    BY DEF Fine
  <2>2. \A h : Backed(h) /\ stream[h.sid].st # "unread" => stream'[h.sid].st # "unread"
    BY DEF Backed, Ids, Seasoned
  <2>3. /\ pc[t] \in HoldPcs => Backed(cur[t])
        /\ \A h \in batch[t] \cup doomed[t] : Backed(h)
    BY DEF Inv, Hands
  <2>4. "idle" \notin HoldPcs /\ "off" \notin HoldPcs
    BY DEF HoldPcs, ProcessPcs
  <2>5. CASE pc'[t] = pc[t] /\ cur'[t] = cur[t]
    BY <2>1, <2>2, <2>3, <2>5 DEF TaskFine, Fits
  <2>6. CASE pc'[t] \in {"idle", "off"}
    BY <2>1, <2>2, <2>3, <2>4, <2>6 DEF TaskFine, Fits
  <2> QED
    BY <2>5, <2>6
<1>2. \A i \in 1..Len(stream') : Fits(stream'[i].retries)
  BY <1>0 DEF Fine, Seasoned, Ids, Fits
<1> QED
  BY <1>1, <1>2 DEF Fine, Ids

\* Nobody has ended and nothing has raised.
Calm == ends = 0 /\ faults = 0

\* A job whose status task u leaves alone, together with what stands behind
\* it, or hands it on.
Respects(u, j) ==
  /\ status'[j] = status[j]
  /\ InRedis(j) => InRedis(j)' \/ Awaiting(u, j)'
  /\ Awaiting(u, j) => Awaiting(u, j)' \/ InRedis(j)'
  /\ RunsIt(u, j) => RunsIt(u, j)'
  /\ Buries(u, j) => Buries(u, j)' \/ j \in dlq'

\* A job whose status task u writes, with what it says.
Vouches(u, j) ==
  \/ status'[j] = "queued" /\ Awaiting(u, j)'
  \/ status'[j] = "running" /\ RunsIt(u, j)'
  \/ status'[j] = "failed" /\ (j \in dlq' \/ Buries(u, j)')
  \/ status'[j] = "done" /\ j \in completed'

LEMMA WordMove ==
  ASSUME LastWord, NEW u \in Tasks, UNCHANGED <<proc, ends, faults>>,
         dlq \subseteq dlq', completed \subseteq completed',
         \A t \in Tasks \ {u} : /\ pc'[t] = pc[t] /\ cur'[t] = cur[t]
                                /\ batch'[t] = batch[t] /\ doomed'[t] = doomed[t],
         Calm => \A j \in Jobs : Respects(u, j) \/ Vouches(u, j)
  PROVE  LastWord'
<1> SUFFICES ASSUME Calm, NEW j \in Jobs PROVE Stands(j)'
  BY DEF LastWord, Calm
<1>1. Stands(j)
  BY DEF LastWord, Calm
<1>2. CASE Vouches(u, j)
  BY <1>2 DEF Vouches, Stands
<1>3. CASE Respects(u, j)
  <2>1. ASSUME NEW t \in Tasks, t # u
        PROVE  /\ Awaiting(t, j) => Awaiting(t, j)'
               /\ RunsIt(t, j) => RunsIt(t, j)'
               /\ Buries(t, j) => Buries(t, j)'
    BY <2>1 DEF Awaiting, RunsIt, Buries
  <2>2. status[j] = "queued" => InRedis(j)' \/ \E t \in Tasks : Awaiting(t, j)'
    BY <1>1, <1>3, <2>1 DEF Stands, Respects
  <2>3. status[j] = "running" => \E t \in Tasks : RunsIt(t, j)'
    BY <1>1, <1>3, <2>1 DEF Stands, Respects
  <2>4. status[j] = "failed" => j \in dlq' \/ \E t \in Tasks : Buries(t, j)'
    BY <1>1, <1>3, <2>1 DEF Stands, Respects
  <2> QED
    BY <1>1, <1>3, <2>2, <2>3, <2>4 DEF Stands, Respects
<1> QED
  BY <1>2, <1>3
\* What a step of task u leaves of the other tasks.
OthersRest(u) ==
  \A t \in Tasks \ {u} : /\ pc'[t] = pc[t] /\ cur'[t] = cur[t]
                         /\ batch'[t] = batch[t] /\ doomed'[t] = doomed[t]

LEMMA RedisStays ==
  ASSUME TypeOK, StreamKeeps, NothingRead, retry \subseteq retry', NEW j, InRedis(j)
  PROVE  InRedis(j)'
<1>1. Len(stream) \in Nat /\ Len(stream') \in Nat
  BY LenProperties DEF TypeOK, StreamKeeps
<1> QED
  BY <1>1 DEF InRedis, StreamKeeps, NothingRead, Ids, Unread

\* A step of task u that touches neither the stream nor the retry ZSET.
LEMMA LocalMove ==
  ASSUME Inv, Fine, LastWord, NEW u \in Tasks, OthersRest(u), TaskFine(u)',
         UNCHANGED <<stream, retry, proc, ends, faults>>,
         dlq \subseteq dlq', completed \subseteq completed',
         Calm => \A j \in Jobs :
           \/ Vouches(u, j)
           \/ /\ status'[j] = status[j]
              /\ Awaiting(u, j) => Awaiting(u, j)'
              /\ RunsIt(u, j) => RunsIt(u, j)'
              /\ Buries(u, j) => Buries(u, j)' \/ j \in dlq'
  PROVE  Fine' /\ LastWord'
<1>1. StreamKeeps /\ Seasoned /\ NothingRead
  BY StreamSame, SameSeasoned DEF Inv, Undisturbed
<1>2. Fine'
  BY <1>1, FineMove DEF OthersRest, Fine
<1>3. \A j : InRedis(j) => InRedis(j)'
  BY DEF InRedis, Ids, Unread
<1>4. Calm => \A j \in Jobs : Respects(u, j) \/ Vouches(u, j)
  BY <1>3 DEF Respects
<1>5. LastWord'
  BY <1>4, WordMove DEF OthersRest
<1> QED
  BY <1>2, <1>5

\* claim_stale: XPENDING and the split of the batch.
LEMMA ProbeFine ==
  ASSUME Inv, Fine, LastWord, NEW t \in Tasks, Probe(t) PROVE Fine' /\ LastWord'
<1>1. OthersRest(t) /\ pc'[t] = "batch" /\ cur'[t] = cur[t]
  BY DEF Inv, TypeOK, Probe, Go, OthersRest
<1>2. batch'[t] \cup doomed'[t] = batch[t] /\ doomed[t] = {} /\ Reclaimer(t)
  BY DEF Inv, TypeOK, Probe, Fine, TaskFine
<1>3. TaskFine(t)'
  BY <1>1, <1>2 DEF Fine, TaskFine, Probe, redisVars, HoldPcs, ProcessPcs, Fits
<1>4. ASSUME NEW j PROVE /\ Awaiting(t, j) => Awaiting(t, j)'
                         /\ ~RunsIt(t, j) /\ ~Buries(t, j)
  BY <1>2 DEF Awaiting, RunsIt, Buries, Probe
<1> QED
  BY <1>1, <1>2, <1>3, <1>4, LocalMove DEF Probe, redisVars, history, Awaiting
\* claim_stale dead-letters a crash-looping job.
LEMMA DlqAddFine ==
  ASSUME Inv, Fine, LastWord, NEW t \in Tasks, DlqAdd(t) PROVE Fine' /\ LastWord'
<1>0. PICK h \in doomed[t] : /\ dlq' = dlq \cup {h.job}
                             /\ doomed' = [doomed EXCEPT ![t] = @ \ {h}]
                             /\ cur' = [cur EXCEPT ![t] = h]
  BY DEF DlqAdd
<1>1. /\ OthersRest(t) /\ pc'[t] = "dlqAck" /\ cur'[t] = h
      /\ batch'[t] = batch[t] /\ doomed'[t] = doomed[t] \ {h}
  BY <1>0 DEF Inv, TypeOK, DlqAdd, Go, OthersRest
<1>2. TaskFine(t)'
  BY <1>1 DEF Fine, TaskFine, DlqAdd, Fits
<1>3. ASSUME NEW j PROVE /\ Awaiting(t, j) => Awaiting(t, j)'
                         /\ ~RunsIt(t, j) /\ ~Buries(t, j)
  BY <1>1 DEF Awaiting, RunsIt, Buries, DlqAdd
<1> QED
  BY <1>0, <1>1, <1>2, <1>3, LocalMove DEF DlqAdd, history

\* claim_stale writes "failed" for a job that is on the dead-letter stream.
LEMMA DlqHsetFine ==
  ASSUME Inv, Fine, LastWord, NEW t \in Tasks, DlqHset(t) PROVE Fine' /\ LastWord'
<1>0. cur[t] \in Held /\ cur[t].job \in Jobs /\ cur[t].job \in dlq
  BY HeldKnown DEF DlqHset, HoldPcs, Inv, Hands
<1>1. /\ OthersRest(t) /\ pc'[t] = "dlqSignal" /\ cur'[t] = cur[t]
      /\ batch'[t] = batch[t] /\ doomed'[t] = doomed[t]
  BY DEF Inv, TypeOK, DlqHset, Go, OthersRest
<1>2. TaskFine(t)'
  BY <1>1 DEF Fine, TaskFine, DlqHset, HoldPcs, Fits
<1>3. ASSUME NEW j \in Jobs
      PROVE  \/ Vouches(t, j)
             \/ /\ status'[j] = status[j]
                /\ Awaiting(t, j) => Awaiting(t, j)'
                /\ ~RunsIt(t, j) /\ ~Buries(t, j)
  <2>1. CASE j = cur[t].job
    BY <1>0, <2>1 DEF Inv, TypeOK, DlqHset, Vouches
  <2>2. CASE j # cur[t].job
    BY <1>1, <2>2 DEF Inv, TypeOK, DlqHset, Awaiting, RunsIt, Buries
  <2> QED
    BY <2>1, <2>2
<1> QED
  BY <1>1, <1>2, <1>3, LocalMove DEF DlqHset, history

\* The task has put the result signal and is back in its loop.
LEMMA SignalFine ==
  ASSUME Inv, Fine, LastWord, NEW t \in Tasks, DlqSignal(t) \/ Signal(t)
  PROVE  Fine' /\ LastWord'
<1>1. /\ OthersRest(t) /\ batch'[t] = batch[t] /\ doomed'[t] = doomed[t]
      /\ pc'[t] \in {"batch", "idle"}
      /\ pc'[t] = "idle" => ~Reclaimer(t)
      /\ pc'[t] = "batch" => Reclaimer(t)
  BY DEF Inv, TypeOK, DlqSignal, Signal, Go, Release, LoopPc, OthersRest,
         Fine, TaskFine
<1>2. TaskFine(t)'
  <2>1. TaskFine(t) /\ stream' = stream
    BY DEF Fine, DlqSignal, Signal, redisVars
  <2>2. pc'[t] = "idle" => doomed[t] = {} /\ batch[t] = {}
    BY <1>1, <2>1 DEF TaskFine, DlqSignal, Signal, Go, Inv, TypeOK
  <2>3. pc'[t] \notin HoldPcs
    BY <1>1 DEF HoldPcs, ProcessPcs
  <2> QED
    BY <1>1, <2>1, <2>2, <2>3 DEF TaskFine, Fits
<1>3. ASSUME NEW j PROVE /\ Awaiting(t, j) => Awaiting(t, j)'
                         /\ ~RunsIt(t, j) /\ ~Buries(t, j)
  BY <1>1 DEF Awaiting, RunsIt, Buries, DlqSignal, Signal
<1> QED
  BY <1>1, <1>2, <1>3, LocalMove DEF DlqSignal, Signal, redisVars, history

\* _reclaim_loop takes the next job of its batch.
LEMMA BatchNextFine ==
  ASSUME Inv, Fine, LastWord, NEW t \in Tasks, BatchNext(t) PROVE Fine' /\ LastWord'
<1>0. PICK h \in batch[t] : /\ cur' = [cur EXCEPT ![t] = h]
                            /\ batch' = [batch EXCEPT ![t] = @ \ {h}]
  BY DEF BatchNext
<1>1. /\ OthersRest(t) /\ pc'[t] = "got" /\ cur'[t] = h
      /\ batch'[t] = batch[t] \ {h} /\ doomed'[t] = {}
  BY <1>0 DEF Inv, TypeOK, BatchNext, Go, OthersRest
<1>2. TaskFine(t)'
  BY <1>1 DEF Fine, TaskFine, BatchNext, redisVars, Fits
<1>3. ASSUME NEW j PROVE /\ Awaiting(t, j) => Awaiting(t, j)'
                         /\ ~RunsIt(t, j) /\ ~Buries(t, j)
  BY <1>1 DEF Awaiting, RunsIt, Buries, BatchNext
<1> QED
  BY <1>0, <1>1, <1>2, <1>3, LocalMove DEF BatchNext, redisVars, history

\* _reclaim_loop is done with its batch; only a stopping process leaves jobs.
LEMMA BatchEndsFine ==
  ASSUME Inv, Fine, LastWord, NEW t \in Tasks, BatchEnds(t) PROVE Fine' /\ LastWord'
<1>1. /\ OthersRest(t) /\ pc'[t] = "idle" /\ cur'[t] = cur[t]
      /\ batch'[t] = {} /\ doomed'[t] = {}
  BY DEF Inv, TypeOK, BatchEnds, Go, OthersRest
<1>2. TaskFine(t)'
  BY <1>1 DEF TaskFine, BatchEnds, HoldPcs, ProcessPcs, Fits
<1>3. ASSUME Calm, NEW j PROVE ~Awaiting(t, j) /\ ~RunsIt(t, j) /\ ~Buries(t, j)
  <2>1. proc[t[1]] = "up"
    BY <1>3 DEF LastWord, Calm, Tasks
  <2> QED
    BY <2>1 DEF Awaiting, RunsIt, Buries, BatchEnds
<1> QED
  BY <1>1, <1>2, <1>3, LocalMove DEF BatchEnds, redisVars, history

\* mark_running, mark_done and mark_failed write what the task goes on with.
LEMMA MarkFine ==
  ASSUME Inv, Fine, LastWord, NEW t \in Tasks,
         MarkRunning(t) \/ MarkDone(t) \/ \E perm \in BOOLEAN : MarkFailed(t, perm)
  PROVE  Fine' /\ LastWord'
<1>0. /\ cur[t] \in Held /\ cur[t].job \in Jobs /\ cur[t].retries \in Nat
      /\ pc[t] \in HoldPcs
  BY HeldKnown DEF MarkRunning, MarkDone, MarkFailed, HoldPcs, ProcessPcs, Held
<1>1. /\ OthersRest(t) /\ batch'[t] = batch[t] /\ doomed'[t] = doomed[t]
      /\ cur'[t].job = cur[t].job /\ cur'[t].sid = cur[t].sid
      /\ doomed[t] = {}
  BY <1>0 DEF Inv, TypeOK, MarkRunning, MarkDone, MarkFailed, Go, OthersRest, Held,
              Fine, TaskFine
<1>2. \/ /\ pc'[t] = "running" /\ status'[cur[t].job] = "running"
         /\ cur'[t] = cur[t] /\ pc[t] = "got"
      \/ /\ pc'[t] = "ackDone" /\ status'[cur[t].job] = "done"
         /\ cur[t].job \in completed'
      \/ /\ pc'[t] = "ackRetry" /\ status'[cur[t].job] = "queued"
         /\ cur'[t].retries < MaxRetries
      \/ /\ pc'[t] = "ackDead" /\ status'[cur[t].job] = "failed"
  <2>1. CASE MarkRunning(t)
    BY <1>0, <2>1 DEF Inv, TypeOK, MarkRunning, Go
  <2>2. CASE MarkDone(t)
    BY <1>0, <2>2 DEF Inv, TypeOK, MarkDone, Go
  <2>3. ASSUME NEW perm \in BOOLEAN, MarkFailed(t, perm)
        PROVE  \/ /\ pc'[t] = "ackRetry" /\ status'[cur[t].job] = "queued"
                  /\ cur'[t].retries < MaxRetries
               \/ /\ pc'[t] = "ackDead" /\ status'[cur[t].job] = "failed"
    <3> DEFINE r == cur[t].retries + 1
    <3>1. cur' = [cur EXCEPT ![t] = [cur[t] EXCEPT !.retries = r]]
      BY <2>3 DEF MarkFailed
    <3>2. cur'[t].retries = r
      BY <1>0, <3>1 DEF Inv, TypeOK, Held
    <3> QED
      BY <1>0, <2>3, <3>2 DEF Inv, TypeOK, MarkFailed, Go
  <2> QED
    BY <2>1, <2>2, <2>3
<1>3. TaskFine(t)'
  <2>1. stream' = stream /\ TaskFine(t)
    BY DEF MarkRunning, MarkDone, MarkFailed, Fine
  <2> QED
    BY <1>0, <1>1, <1>2, <2>1 DEF TaskFine, HoldPcs, ProcessPcs, Fits
<1>4. ASSUME NEW j \in Jobs
      PROVE  \/ Vouches(t, j)
             \/ /\ status'[j] = status[j]
                /\ Awaiting(t, j) => Awaiting(t, j)'
                /\ RunsIt(t, j) => RunsIt(t, j)'
                /\ Buries(t, j) => Buries(t, j)' \/ j \in dlq'
  <2>1. CASE j = cur[t].job
    BY <1>1, <1>2, <2>1 DEF Vouches, Awaiting, RunsIt, Buries
  <2>2. CASE j # cur[t].job
    <3>1. status'[j] = status[j]
      BY <2>2 DEF Inv, TypeOK, MarkRunning, MarkDone, MarkFailed
    <3> QED
      BY <1>1, <2>2, <3>1 DEF Awaiting, RunsIt, Buries
  <2> QED
    BY <2>1, <2>2
<1>5. /\ UNCHANGED <<stream, retry, proc, ends, faults>>
      /\ dlq \subseteq dlq' /\ completed \subseteq completed'
  BY DEF MarkRunning, MarkDone, MarkFailed, history
<1> QED
  BY <1>1, <1>3, <1>4, <1>5, LocalMove
\* _promote_due_retries moves copies from the ZSET to the stream.
LEMMA PromoteFine ==
  ASSUME Inv, Fine, LastWord, NEW t \in Tasks, Promote(t) PROVE Fine' /\ LastWord'
<1>1. /\ StreamKeeps /\ Seasoned /\ NothingRead /\ retry' \subseteq retry
      /\ \A i \in 1..Len(stream') : i \notin 1..Len(stream) =>
           \E c \in retry : stream'[i].retries = c.retries
      /\ \A c \in retry \ retry' :
           \E i \in 1..Len(stream') : stream'[i].job = c.job /\ stream'[i].st = "unread"
  BY PromoteKeeps, PromoteSeasoned DEF Inv, Promote
<1>2. Fine'
  BY <1>1, FineStays DEF Fine, Fits, Promote, taskVars
<1>3. ASSUME NEW j, InRedis(j) PROVE InRedis(j)'
  <2>1. Len(stream) \in Nat /\ Len(stream') \in Nat
    BY <1>1, LenProperties DEF Inv, TypeOK, StreamKeeps
  <2>2. CASE \E c \in retry : c.job = j
    BY <1>1, <2>2 DEF InRedis, Ids, Unread
  <2>3. CASE \E i \in Ids : stream[i].job = j /\ Unread(i)
    BY <1>1, <2>1, <2>3 DEF InRedis, Ids, Unread, StreamKeeps, NothingRead
  <2> QED
    BY <1>3, <2>2, <2>3 DEF InRedis
<1>4. UNCHANGED <<status, dlq, proc, pc, cur, batch, doomed, ends, faults, completed>>
  BY DEF Promote, taskVars, history
<1>5. \A j \in Jobs : Respects(t, j)
  BY <1>3, <1>4 DEF Respects, Awaiting, RunsIt, Buries
<1> QED
  BY <1>2, <1>4, <1>5, WordMove

\* consume_one takes over a copy that fits.
LEMMA ReadFine ==
  ASSUME Inv, Fine, LastWord, NEW t \in Tasks, Read(t) PROVE Fine' /\ LastWord'
<1>0. PICK i \in Ids : Deliver(i) /\ cur' = [cur EXCEPT ![t] = HeldOf(i)]
  BY DEF Read
<1>1. /\ StreamKeeps /\ Seasoned /\ Len(stream') = Len(stream)
      /\ stream'[i].st = "pending"
      /\ \A k \in 1..Len(stream) : k # i => stream'[k] = stream[k]
  BY <1>0, DeliverKeeps, DeliverSeasoned DEF Inv, Undisturbed
<1>2. /\ OthersRest(t) /\ pc'[t] = "got" /\ cur'[t] = HeldOf(i)
      /\ batch'[t] = batch[t] /\ doomed'[t] = doomed[t] /\ ~Reclaimer(t)
      /\ batch[t] = {} /\ doomed[t] = {}
  BY <1>0 DEF Inv, TypeOK, Read, Go, OthersRest, Fine, TaskFine
<1>3. TaskFine(t)'
  <2>1. Fits(stream[i].retries)
    BY DEF Fine
  <2>2. HeldOf(i).sid = i /\ HeldOf(i).retries = stream[i].retries
    BY DEF HeldOf
  <2> HIDE DEF HeldOf
  <2> QED
    BY <1>1, <1>2, <2>1, <2>2 DEF TaskFine, Fits
<1>4. Fine'
  BY <1>1, <1>2, <1>3, FineMove DEF OthersRest, Read, Fine
<1>5. ASSUME NEW j \in Jobs PROVE Respects(t, j)
  <2>1. CASE stream[i].job = j
    BY <1>2, <2>1 DEF Respects, Awaiting, RunsIt, Buries, Read, HeldOf
  <2>2. CASE stream[i].job # j
    <3>1. InRedis(j) => InRedis(j)'
      BY <1>1, <2>2 DEF InRedis, Ids, Unread, Read
    <3> QED
      BY <1>2, <3>1 DEF Respects, Awaiting, RunsIt, Buries, Read
  <2> QED
    BY <2>1, <2>2
<1> QED
  BY <1>2, <1>4, <1>5, WordMove DEF OthersRest, Read, history

\* claim_stale takes over copies that fit.
LEMMA AutoClaimFine ==
  ASSUME Inv, Fine, LastWord, NEW t \in Tasks, AutoClaim(t) PROVE Fine' /\ LastWord'
<1>1. StreamKeeps /\ Len(stream') = Len(stream) /\ Seasoned /\ NothingRead
  BY ClaimKeeps, ClaimSeasoned DEF Inv, AutoClaim, Undisturbed
<1>2. /\ OthersRest(t) /\ pc'[t] = "probe" /\ cur'[t] = cur[t]
      /\ batch'[t] = {HeldOf(i) : i \in Stale} /\ doomed'[t] = {}
      /\ batch[t] = {} /\ Reclaimer(t)
  BY DEF Inv, TypeOK, AutoClaim, Go, OthersRest, Fine, TaskFine
<1>3. TaskFine(t)'
  <2>1. ASSUME NEW h \in batch'[t] PROVE Fits(h.retries) /\ stream'[h.sid].st # "unread"
    <3>1. PICK i \in Stale : h = HeldOf(i)
      BY <1>2
    <3>2. i \in Ids /\ Pending(i)
      BY DEF Stale, Lowest
    <3> QED
      BY <1>1, <3>1, <3>2 DEF HeldOf, Fine, Fits, Seasoned, Pending, Ids
  <2>2. pc'[t] \notin HoldPcs
    BY <1>2 DEF HoldPcs, ProcessPcs
  <2> QED
    BY <1>2, <2>1, <2>2 DEF TaskFine, Fits
<1>4. Fine'
  BY <1>1, <1>2, <1>3, FineMove DEF OthersRest, AutoClaim, Fine
<1>5. \A j : InRedis(j) => InRedis(j)'
  BY <1>1, RedisStays DEF Inv, AutoClaim
<1>6. \A j \in Jobs : Respects(t, j)
  BY <1>2, <1>5 DEF Respects, Awaiting, RunsIt, Buries, AutoClaim
<1> QED
  BY <1>2, <1>4, <1>6, WordMove DEF OthersRest, AutoClaim, history

\* The acks: the entry goes, the task keeps its copy.
LEMMA AckFine ==
  ASSUME Inv, Fine, LastWord, NEW t \in Tasks, Ack(t) \/ DlqAck(t)
  PROVE  Fine' /\ LastWord'
<1>0. /\ pc[t] \in HoldPcs /\ AckEntry(t) /\ stream[cur[t].sid].st # "unread"
      /\ TaskFine(t) /\ UNCHANGED <<retry, status, dlq, proc, cur, batch, doomed,
                                    ends, faults, completed>>
  BY DEF Ack, DlqAck, HoldPcs, ProcessPcs, Fine, TaskFine, history
<1>1. StreamKeeps /\ Len(stream') = Len(stream) /\ Seasoned /\ NothingRead
  BY <1>0, AckKeeps, AckSeasoned DEF Inv
<1>2. /\ OthersRest(t) /\ cur'[t] = cur[t]
      /\ \/ pc[t] = "ackDone" /\ pc'[t] = "signal"
         \/ pc[t] = "ackRetry" /\ pc'[t] = "parkRetry"
         \/ pc[t] = "ackDead" /\ pc'[t] = "parkDead"
         \/ pc[t] = "dlqAck" /\ pc'[t] = "dlqHset"
  BY <1>0 DEF Inv, TypeOK, Ack, DlqAck, AfterAck, Go, OthersRest
<1>3. TaskFine(t)'
  <2>1. \A h : Backed(h) /\ stream[h.sid].st # "unread" => stream'[h.sid].st # "unread"
    BY <1>1 DEF Backed, Ids, Seasoned
  <2>2. Backed(cur[t]) /\ \A h \in batch[t] \cup doomed[t] : Backed(h)
    BY <1>0 DEF Inv, Hands
  <2> QED
    BY <1>0, <1>2, <2>1, <2>2 DEF TaskFine, Fits
<1>4. Fine'
  BY <1>0, <1>1, <1>2, <1>3, FineMove DEF OthersRest, Fine
<1>5. \A j : InRedis(j) => InRedis(j)'
  BY <1>0, <1>1, RedisStays DEF Inv
<1>6. \A j \in Jobs : Respects(t, j)
  BY <1>0, <1>2, <1>5 DEF Respects, Awaiting, RunsIt, Buries
<1> QED
  BY <1>0, <1>2, <1>4, <1>6, WordMove DEF OthersRest

\* mark_failed parks a copy with retries left, or dead-letters the job.
LEMMA ParkFine ==
  ASSUME Inv, Fine, LastWord, NEW t \in Tasks, ParkRetry(t) \/ ParkDead(t)
  PROVE  Fine' /\ LastWord'
<1>0. /\ pc[t] \in HoldPcs /\ cur[t] \in Held /\ TaskFine(t)
      /\ UNCHANGED <<stream, status, proc, batch, doomed, ends, faults, completed>>
      /\ dlq \subseteq dlq'
  BY DEF ParkRetry, ParkDead, HoldPcs, ProcessPcs, Fine, Inv, Hands, history
<1>1. StreamKeeps /\ Len(stream') = Len(stream) /\ Seasoned /\ NothingRead
  BY <1>0, StreamSame, SameSeasoned DEF Inv, Undisturbed
<1>2. CASE ParkRetry(t)
  <2>1. /\ OthersRest(t) /\ pc'[t] \in {"batch", "idle"}
        /\ pc'[t] = "batch" <=> Reclaimer(t)
    BY <1>2 DEF Inv, TypeOK, ParkRetry, Go, Release, LoopPc, OthersRest
  <2>2. TaskFine(t)'
    <3>1. doomed[t] = {} /\ pc'[t] \notin HoldPcs
      BY <1>0, <1>2, <2>1 DEF TaskFine, ParkRetry, HoldPcs, ProcessPcs
    <3> QED
      BY <1>0, <2>1, <3>1 DEF TaskFine, Fits
  <2>3. /\ retry' = retry \cup {CopyOf(cur[t])}
        /\ CopyOf(cur[t]).retries < MaxRetries
        /\ CopyOf(cur[t]).job = cur[t].job
    BY <1>0, <1>2 DEF ParkRetry, CopyOf, TaskFine
  <2>4. Fine'
    BY <1>1, <2>1, <2>2, <2>3, FineMove DEF OthersRest, Fine
  <2>5. ASSUME NEW j \in Jobs PROVE Respects(t, j)
    BY <1>0, <1>2, <2>1, <2>3
       DEF Respects, Awaiting, RunsIt, Buries, InRedis, Ids, Unread, ParkRetry
  <2> QED
    BY <1>0, <2>1, <2>4, <2>5, WordMove DEF OthersRest
<1>3. CASE ParkDead(t)
  <2>1. OthersRest(t) /\ pc'[t] = "signal" /\ cur'[t] = cur[t]
    BY <1>0, <1>3 DEF Inv, TypeOK, ParkDead, Go, OthersRest
  <2>2. TaskFine(t)'
    BY <1>0, <1>3, <2>1 DEF TaskFine, ParkDead, Fits
  <2>3. ASSUME NEW j \in Jobs
        PROVE  /\ Awaiting(t, j) => Awaiting(t, j)'
               /\ ~RunsIt(t, j)
               /\ Buries(t, j) => j \in dlq'
    BY <1>0, <1>3, <2>1 DEF Awaiting, RunsIt, Buries, ParkDead
  <2> QED
    BY <1>0, <1>3, <2>1, <2>2, <2>3, LocalMove DEF ParkDead
<1> QED
  BY <1>2, <1>3

LEMMA LoopExitsFine ==
  ASSUME Inv, Fine, LastWord, NEW t \in Tasks, LoopExits(t) PROVE Fine' /\ LastWord'
<1>1. /\ OthersRest(t) /\ pc'[t] = "off" /\ batch'[t] = {} /\ doomed'[t] = {}
  BY DEF Inv, TypeOK, LoopExits, Go, OthersRest, Fine, TaskFine
<1>2. TaskFine(t)'
  BY <1>1 DEF TaskFine, HoldPcs, ProcessPcs, Fits
<1>3. ~Calm
  BY DEF LoopExits, LastWord, Calm, Tasks
<1> QED
  BY <1>1, <1>2, <1>3, LocalMove DEF LoopExits, redisVars, history
\* A command that raises ends the calm, and puts back only copies that fit.
LEMMA RaiseFine ==
  ASSUME Inv, Fine, LastWord, NEW t \in Tasks, Raise(t) PROVE Fine' /\ LastWord'
<1>0. /\ faults' = faults + 1 /\ faults \in Nat /\ proc' = proc /\ ends' = ends
      /\ retry' = retry /\ TaskFine(t)
  BY DEF Raise, ReplyLost, ProbeFault, DlqFault, AckFault, TaskDies, Fault, Inv, TypeOK,
         redisVars, taskVars, Fine
<1>1. LastWord'
  BY <1>0 DEF LastWord
<1>2. CASE ReplyLost(t)
  <2>1. StreamKeeps /\ Len(stream') = Len(stream) /\ Seasoned
    <3>1. CASE Reclaimer(t)
      BY <1>2, <3>1, ClaimKeeps, ClaimSeasoned DEF Inv, ReplyLost, Undisturbed
    <3>2. CASE ~Reclaimer(t)
      BY <1>2, <3>2, DeliverKeeps, DeliverSeasoned DEF Inv, ReplyLost, Undisturbed
    <3> QED
      BY <3>1, <3>2
  <2>2. Fine'
    BY <1>0, <1>2, <2>1, FineStays DEF Fine, ReplyLost, taskVars
  <2> QED
    BY <1>1, <2>2
<1>3. CASE ~ReplyLost(t)
  <2>1. StreamKeeps /\ Len(stream') = Len(stream) /\ Seasoned /\ stream' = stream
    BY <1>3, StreamSame, SameSeasoned
       DEF Inv, Raise, ProbeFault, DlqFault, AckFault, TaskDies, redisVars, Undisturbed
  <2>2. OthersRest(t)
    BY <1>3 DEF Inv, TypeOK, Raise, ProbeFault, DlqFault, AckFault, TaskDies, Go, Release,
                OthersRest
  <2>3. TaskFine(t)'
    <3>1. CASE ProbeFault(t)
      <4>1. /\ pc'[t] = "batch" /\ pc[t] = "probe" /\ batch'[t] = batch[t]
            /\ doomed'[t] = doomed[t]
        BY <3>1 DEF Inv, TypeOK, ProbeFault, Go
      <4>2. pc'[t] \notin HoldPcs
        BY <4>1 DEF HoldPcs, ProcessPcs
      <4> QED
        BY <1>0, <2>1, <4>1, <4>2 DEF TaskFine, Fits
    <3>2. CASE DlqFault(t)
      <4>1. /\ pc'[t] = "batch" /\ pc[t] \in {"batch", "dlqAck", "dlqHset", "dlqSignal"}
            /\ doomed'[t] \subseteq doomed[t]
            /\ \A h \in batch'[t] :
                 \/ h \in batch[t] \cup doomed[t]
                 \/ h = cur[t] /\ pc[t] \in {"dlqAck", "dlqHset", "dlqSignal"}
        BY <3>2 DEF Inv, TypeOK, DlqFault, Go
      <4>2. pc'[t] \notin HoldPcs
        BY <4>1 DEF HoldPcs, ProcessPcs
      <4>3. \A h \in batch'[t] \cup doomed'[t] :
              Fits(h.retries) /\ stream[h.sid].st # "unread"
        BY <1>0, <4>1 DEF TaskFine, HoldPcs
      <4>4. Reclaimer(t)
        BY <1>0, <4>1 DEF TaskFine
      <4> QED
        BY <2>1, <4>1, <4>2, <4>3, <4>4 DEF TaskFine, Fits
    <3>3. CASE AckFault(t)
      <4>1. /\ pc'[t] \in {"signal", "parkRetry", "parkDead"}
            /\ pc'[t] = "parkRetry" => pc[t] = "ackRetry"
            /\ pc[t] \in {"ackDone", "ackRetry", "ackDead"}
            /\ cur'[t] = cur[t] /\ batch'[t] = batch[t] /\ doomed'[t] = doomed[t]
        BY <3>3 DEF Inv, TypeOK, AckFault, AfterAck, Go
      <4> QED
        BY <1>0, <2>1, <4>1 DEF TaskFine, HoldPcs, ProcessPcs, Fits
    <3>4. CASE TaskDies(t)
      <4>1. /\ pc'[t] = "off" /\ batch'[t] = {} /\ doomed'[t] = doomed[t]
            /\ pc[t] \in ProcessPcs
        BY <3>4 DEF Inv, TypeOK, TaskDies, Go
      <4>2. doomed'[t] = {} /\ pc'[t] \notin HoldPcs
        BY <1>0, <4>1 DEF TaskFine, HoldPcs, ProcessPcs
      <4> QED
        BY <4>1, <4>2 DEF TaskFine, Fits
    <3> QED
      BY <1>3, <3>1, <3>2, <3>3, <3>4 DEF Raise
  <2>4. Fine'
    BY <1>0, <2>1, <2>2, <2>3, FineMove DEF OthersRest, Fine
  <2> QED
    BY <1>1, <2>4
<1> QED
  BY <1>2, <1>3

\* Signals and crashes end the calm; without them no process ends or starts.
LEMMA ProcFine ==
  ASSUME Inv, Fine, LastWord, NEW p \in Procs,
         Stop(p) \/ ProcExits(p) \/ Crash(p) \/ Restart(p)
  PROVE  Fine' /\ LastWord'
<1>0. UNCHANGED <<stream, retry>> /\ ends \in Nat
  BY DEF Stop, ProcExits, Crash, Restart, redisVars, Inv, TypeOK
<1>1. StreamKeeps /\ Len(stream') = Len(stream) /\ Seasoned
  BY <1>0, StreamSame, SameSeasoned DEF Inv, Undisturbed
<1>2. \A t \in Tasks : /\ \/ pc'[t] = pc[t] /\ cur'[t] = cur[t]
                          \/ /\ pc'[t] \in {"idle", "off"}
                             /\ batch'[t] = {} /\ doomed'[t] = {}
                       /\ batch'[t] \subseteq batch[t] /\ doomed'[t] \subseteq doomed[t]
  <2>1. CASE Stop(p) \/ ProcExits(p)
    BY <2>1 DEF Stop, ProcExits
  <2>2. CASE Crash(p)
    BY <2>2 DEF Crash, Inv, TypeOK
  <2>3. CASE Restart(p)
    <3>1. \A t \in Tasks : pc'[t] = pc[t] \/ (pc[t] = "off" /\ pc'[t] = "idle")
      BY <2>3 DEF Restart, Inv, Alive
    <3> QED
      BY <2>3, <3>1 DEF Restart, Fine, TaskFine
  <2> QED
    BY <2>1, <2>2, <2>3
<1>3. Fine'
  BY <1>0, <1>1, <1>2, FineStays DEF Fine
<1>4. LastWord'
  <2>1. CASE Stop(p) \/ Crash(p)
    BY <1>0, <2>1 DEF Stop, Crash, LastWord
  <2>2. CASE ProcExits(p) \/ Restart(p)
    BY <2>2 DEF ProcExits, Restart, LastWord
  <2> QED
    BY <2>1, <2>2
<1> QED
  BY <1>3, <1>4

\* enqueue(), and time.
LEMMA OutsideFine ==
  ASSUME Inv, Fine, LastWord,
         \/ \E j \in Jobs : Enqueue(j)
         \/ \E c \in retry : BackoffElapses(c)
         \/ \E i \in Ids : GoesIdle(i)
  PROVE  Fine' /\ LastWord'
<1>0. UNCHANGED <<retry, dlq, proc, pc, cur, batch, doomed, ends, faults, completed>>
  BY DEF Enqueue, BackoffElapses, GoesIdle, taskVars, history
<1>t. \A t \in Tasks, j \in Jobs : /\ Awaiting(t, j)' = Awaiting(t, j)
                                   /\ RunsIt(t, j)' = RunsIt(t, j)
                                   /\ Buries(t, j)' = Buries(t, j)
  BY <1>0 DEF Awaiting, RunsIt, Buries
<1>1. ASSUME NEW j \in Jobs, Enqueue(j) PROVE Fine' /\ LastWord'
  <2>1. /\ StreamKeeps /\ Seasoned /\ NothingRead
        /\ \A i \in 1..Len(stream') : i \notin 1..Len(stream) => stream'[i].retries = 0
        /\ \E i \in 1..Len(stream') : stream'[i].job = j /\ stream'[i].st = "unread"
    BY <1>1, EnqueueKeeps, EnqueueSeasoned DEF Inv
  <2>2. Fine'
    BY <1>0, <2>1, FineStays DEF Fine, Fits
  <2>3. ASSUME Calm, NEW k \in Jobs PROVE Stands(k)'
    <3>1. CASE k = j
      BY <1>1, <2>1, <3>1 DEF Stands, InRedis, Ids, Unread, Enqueue, Inv, TypeOK
    <3>2. CASE k # j
      <4>1. status'[k] = status[k] /\ Stands(k)
        BY <1>1, <2>3, <3>2 DEF Enqueue, Inv, TypeOK, LastWord, Calm
      <4>2. InRedis(k) => InRedis(k)'
        BY <1>0, <2>1, RedisStays DEF Inv
      <4> QED
        BY <1>0, <1>t, <4>1, <4>2 DEF Stands
    <3> QED
      BY <3>1, <3>2
  <2> QED
    BY <1>0, <2>2, <2>3 DEF LastWord, Calm
<1>2. ASSUME UNCHANGED status, StreamKeeps, Len(stream') = Len(stream), Seasoned,
             NothingRead
      PROVE  Fine' /\ LastWord'
  <2>1. Fine'
    BY <1>0, <1>2, FineStays DEF Fine
  <2>2. \A k : InRedis(k) => InRedis(k)'
    BY <1>0, <1>2, RedisStays DEF Inv
  <2>3. ASSUME Calm, NEW k \in Jobs PROVE Stands(k)'
    <3>1. Stands(k)
      BY <2>3 DEF LastWord, Calm
    <3> QED
      BY <1>0, <1>t, <1>2, <2>2, <3>1 DEF Stands
  <2> QED
    BY <1>0, <2>1, <2>3 DEF LastWord, Calm
<1>3. ASSUME NEW c \in retry, BackoffElapses(c) PROVE Fine' /\ LastWord'
  BY <1>2, <1>3, StreamSame, SameSeasoned DEF Inv, BackoffElapses, Undisturbed
<1>4. ASSUME NEW i \in Ids, GoesIdle(i) PROVE Fine' /\ LastWord'
  BY <1>2, <1>4, IdleKeeps, IdleSeasoned DEF Inv, GoesIdle, Undisturbed
<1> QED
  BY <1>1, <1>3, <1>4

LEMMA FineNext == Inv /\ Fine /\ LastWord /\ [Next]_vars => Fine' /\ LastWord'
<1> SUFFICES ASSUME Inv, Fine, LastWord, [Next]_vars PROVE Fine' /\ LastWord'
  OBVIOUS
<1>1. CASE \/ \E j \in Jobs : Enqueue(j)
           \/ \E c \in retry : BackoffElapses(c)
           \/ \E i \in Ids : GoesIdle(i)
  BY <1>1, OutsideFine
<1>2. ASSUME NEW t \in Tasks, Step(t) PROVE Fine' /\ LastWord'
  BY <1>2, PromoteFine, ReadFine, AutoClaimFine, ProbeFine, DlqAddFine, AckFine,
     DlqHsetFine, SignalFine, BatchNextFine, BatchEndsFine, MarkFine, ParkFine,
     LoopExitsFine DEF Step
<1>3. ASSUME NEW t \in Tasks, Raise(t) PROVE Fine' /\ LastWord'
  BY <1>3, RaiseFine
<1>4. ASSUME NEW p \in Procs, Stop(p) \/ ProcExits(p) \/ Crash(p) \/ Restart(p)
      PROVE  Fine' /\ LastWord'
  BY <1>4, ProcFine
<1>5. CASE UNCHANGED vars
  BY <1>5 DEF vars, redisVars, taskVars, history, Fine, TaskFine, Fits, LastWord, Stands,
              InRedis, Awaiting, RunsIt, Buries, Ids, Unread
<1> QED
  BY <1>1, <1>2, <1>3, <1>4, <1>5 DEF Next

LEMMA FineInit == Init => Fine /\ LastWord
<1> SUFFICES ASSUME Init PROVE Fine /\ LastWord
  OBVIOUS
<1>1. Ids = {}
  BY EmptySeq DEF Init, Ids
<1>2. \A t \in Tasks : pc[t] = "idle" /\ batch[t] = {} /\ doomed[t] = {}
  BY DEF Init
<1>3. \A t \in Tasks : TaskFine(t)
  BY <1>2 DEF TaskFine, HoldPcs, ProcessPcs
<1> QED
  BY <1>1, <1>3 DEF Init, Fine, LastWord, Stands

LEMMA FineHolds == Spec => [](Inv /\ Fine /\ LastWord)
BY InitInv, NextInv, FineInit, FineNext, PTL DEF Spec

\* However runs of a job overlap, are reclaimed, crash or raise, a copy that a
\* consumer can still get has retries left: mark_failed and the promotion of
\* parked copies never exceed CITRA_WORKER_MAX_RETRIES.
THEOREM RetriesTheorem == Spec => []RetriesBounded
<1>1. Fine => RetriesBounded
  BY DEF Fine, Fits, RetriesBounded
<1> QED
  BY <1>1, FineHolds, PTL

\* While no process ends and no command raises, however many runs of one job
\* overlap because it outlasts the visibility timeout: once no copy of it is
\* left, its status hash is final and says where the job is.
THEOREM FinalStatusTheorem == Spec => []FinalStatusAtRest
<1>1. Inv /\ LastWord => FinalStatusAtRest
  <2> SUFFICES ASSUME Inv, LastWord, NEW j \in Jobs, status[j] # "none",
                      ~Recoverable(j), ~Carried(j), Calm
               PROVE  \/ status[j] = "done" /\ j \in completed
                      \/ status[j] = "failed" /\ j \in dlq
    BY DEF FinalStatusAtRest, Calm
  <2>1. Stands(j)
    BY DEF LastWord, Calm
  <2>2. ~InRedis(j)
    BY DEF InRedis, Recoverable, Unread
  <2>3. \A t \in Tasks : ~Awaiting(t, j) /\ ~RunsIt(t, j) /\ ~Buries(t, j)
    BY DEF Awaiting, RunsIt, Buries, Carried, HoldPcs, ProcessPcs
  <2>4. status[j] \in {"queued", "running", "done", "failed"}
    BY DEF Inv, TypeOK
  <2> QED
    BY <2>1, <2>2, <2>3, <2>4 DEF Stands
<1> QED
  BY <1>1, FineHolds, PTL

-----------------------------------------------------------------------------
(***************************************************************************)
(* The ledger.                                                             *)
(***************************************************************************)

Opened == {j \in Jobs : Recoverable(j) \/ Carried(j)}
InMemory(t, j) == \/ pc[t] \in HoldPcs /\ cur[t].job = j
                  \/ \E h \in batch[t] \cup doomed[t] : h.job = j

\* What the next entries are copies of is in Redis now, or in memory.
OldEntries == \A i \in Ids' : stream'[i].st # "gone" => stream'[i].job \in Opened
OldParked == \A c \in retry' : c.job \in Opened

\* A copy is of a job that was enqueued (Job.from_json of what enqueue wrote).
LEMMA OpenKnown ==
  ASSUME Inv
  PROVE  \A j \in Opened : status[j] # "none"
<1> SUFFICES ASSUME NEW j \in Opened PROVE status[j] # "none"
  OBVIOUS
<1>1. CASE Recoverable(j)
  BY <1>1 DEF Recoverable, Known, Inv
<1>2. CASE Carried(j)
  <2>1. PICK t \in Tasks : \/ pc[t] \in HoldPcs /\ cur[t].job = j
                           \/ \E h \in batch[t] \cup doomed[t] : h.job = j
    BY <1>2 DEF Carried
  <2>2. PICK h : Backed(h) /\ h.job = j
    <3>1. CASE pc[t] \in HoldPcs /\ cur[t].job = j
      BY <3>1 DEF Hands, Inv
    <3>2. CASE \E h \in batch[t] \cup doomed[t] : h.job = j
      BY <3>2 DEF Hands, Inv
    <3> QED
      BY <2>1, <3>1, <3>2
  <2> QED
    BY <2>2 DEF Backed, Known, Inv
<1> QED
  BY <1>1, <1>2 DEF Opened

\* The entries after a step that reads, claims, ages or acks some.
LEMMA EntriesOld ==
  ASSUME Inv, Len(stream') = Len(stream),
         \A i \in Ids : stream'[i].job = stream[i].job,
         \A i \in Ids : stream'[i].st # "gone" => stream[i].st # "gone"
  PROVE  OldEntries
<1>1. stream \in [1..Len(stream) -> Entry]
  BY LenProperties DEF Inv, TypeOK
<1> QED
  BY <1>1 DEF OldEntries, Opened, Recoverable, Ids, Entry

\* A step that leaves the stream or the delayed set alone makes no copy.
LEMMA SameOld ==
  ASSUME Inv
  PROVE  /\ UNCHANGED stream => OldEntries
         /\ UNCHANGED retry => OldParked
<1>1. ASSUME UNCHANGED stream PROVE OldEntries
  BY <1>1, EntriesOld DEF Ids
<1>2. ASSUME UNCHANGED retry PROVE OldParked
  BY <1>2 DEF OldParked, Opened, Recoverable, Inv, TypeOK, Copy
<1> QED
  BY <1>1, <1>2

\* Time passes over an entry (claim_stale's min_idle_time): no copy is made.
LEMMA IdleOld ==
  ASSUME Inv, NEW i \in Ids, GoesIdle(i)
  PROVE  OldEntries
<1>1. stream \in [1..Len(stream) -> Entry]
  BY LenProperties DEF Inv, TypeOK
<1>2. Undisturbed
  BY IdleKeeps DEF Inv
<1>3. \A k \in Ids : stream'[k].st = stream[k].st
  BY <1>1 DEF GoesIdle, Ids, Entry
<1> QED
  BY <1>2, <1>3, EntriesOld DEF Undisturbed, StreamKeeps, Ids

\* XREADGROUP in consume_one hands out an entry there is.
LEMMA DeliverOld ==
  ASSUME Inv, NEW i \in Ids, Deliver(i)
  PROVE  OldEntries
<1>1. stream \in [1..Len(stream) -> Entry]
  BY LenProperties DEF Inv, TypeOK
<1>2. Undisturbed
  BY DeliverKeeps DEF Inv
<1>3. \A k \in Ids : stream[k].st = "gone" => stream'[k].st = "gone"
  BY <1>1 DEF Deliver, Unread, Ids, Entry
<1> QED
  BY <1>2, <1>3, EntriesOld DEF Undisturbed, StreamKeeps, Ids

\* XAUTOCLAIM in claim_stale hands over entries that were pending.
LEMMA ClaimOld ==
  ASSUME Inv, Claim
  PROVE  OldEntries
<1>1. stream \in [1..Len(stream) -> Entry]
  BY LenProperties DEF Inv, TypeOK
<1>2. Undisturbed
  BY ClaimKeeps DEF Inv
<1>3. \A k \in Ids : stream'[k].st = stream[k].st
  BY <1>1 DEF Claim, Ids, Entry
<1> QED
  BY <1>2, <1>3, EntriesOld DEF Undisturbed, StreamKeeps, Ids

\* XACK only takes an entry out of the pending list.
LEMMA AckOld ==
  ASSUME Inv, NEW t \in Tasks, AckEntry(t)
  PROVE  OldEntries
<1>1. stream \in [1..Len(stream) -> Entry]
  BY LenProperties DEF Inv, TypeOK
<1>2. /\ StreamKeeps /\ Len(stream') = Len(stream)
      /\ \A i \in 1..Len(stream) : i # cur[t].sid => stream'[i] = stream[i]
  BY AckKeeps DEF Inv
<1>3. \A k \in Ids : stream'[k].st # "gone" => stream[k].st # "gone"
  BY <1>1, <1>2 DEF AckEntry, Ids, Entry
<1> QED
  BY <1>2, <1>3, EntriesOld DEF StreamKeeps, Ids

\* _promote_due moves parked copies to the stream: the new entries are their copies.
LEMMA PromoteOld ==
  ASSUME Inv, PromoteDue
  PROVE  OldEntries /\ OldParked
<1>1. stream \in [1..Len(stream) -> Entry] /\ Len(stream) \in Nat
  BY LenProperties DEF Inv, TypeOK
<1>2. /\ StreamKeeps /\ NothingAcked
      /\ retry' \subseteq retry
      /\ \A i \in 1..Len(stream') : \/ i \in 1..Len(stream)
                                    \/ \E c \in retry : stream'[i].job = c.job
  BY PromoteKeeps DEF Inv
<1>3. \A c \in retry : c.job \in Opened
  BY DEF Opened, Recoverable, Inv, TypeOK, Copy
<1>4. ASSUME NEW i \in Ids', stream'[i].st # "gone" PROVE stream'[i].job \in Opened
  <2>1. CASE i \in 1..Len(stream)
    <3>1. stream'[i] = stream[i]
      BY <1>1, <2>1 DEF PromoteDue
    <3> QED
      BY <1>1, <1>4, <2>1, <3>1 DEF Opened, Recoverable, Ids, Entry
  <2>2. CASE i \notin 1..Len(stream)
    BY <1>2, <1>3, <1>4, <2>2 DEF Ids
  <2> QED
    BY <2>1, <2>2
<1> QED
  BY <1>2, <1>3, <1>4 DEF OldEntries, OldParked

\* Copies come from copies: no job is opened again.
LEMMA Shrinks ==
  ASSUME OldEntries, OldParked,
         \A t \in Tasks : \A j \in Jobs : InMemory(t, j)' => j \in Opened
  PROVE  Opened' \subseteq Opened
<1> SUFFICES ASSUME NEW j \in Jobs, Recoverable(j)' \/ Carried(j)' PROVE j \in Opened
  BY DEF Opened
<1>1. CASE Recoverable(j)'
  BY <1>1 DEF Recoverable, OldEntries, OldParked
<1>2. CASE Carried(j)'
  BY <1>2 DEF Carried, InMemory
<1> QED
  BY <1>1, <1>2

\* Where Redis and what tasks carry are as before, the same jobs are open.
LEMMA SameOpen ==
  ASSUME UNCHANGED <<stream, retry>>,
         \A j \in Jobs : Carried(j)' <=> Carried(j)
  PROVE  Opened' = Opened
BY DEF Opened, Recoverable, Ids

\* A worker lets go of jobs: those of which no copy is left are accounted for.
LEMMA CloseStep ==
  ASSUME Inv, Inv', UNCHANGED <<status, completed, dlq>>, Opened' \subseteq Opened,
         NEW left, left \subseteq Opened, dropped' = dropped \cup left
  PROVE  Ledger!Next
<1>1. ASSUME NEW j \in Opened, j \notin Opened'
      PROVE  j \in completed \/ j \in dlq \/ j \in dropped'
  <2>1. j \in Jobs /\ status'[j] # "none"
    BY OpenKnown DEF Opened
  <2>2. ~Recoverable(j)' /\ ~Carried(j)'
    BY <1>1, <2>1 DEF Opened
  <2>3. ~InHand(j)'
    BY <2>2 DEF InHand, Carried, HoldPcs, ProcessPcs
  <2> QED
    BY <2>1, <2>2, <2>3 DEF Inv, LostOnlyInAckWindow, Kept
<1>2. PICK gone : gone = Opened \ Opened'
  OBVIOUS
<1>3. gone \in SUBSET Opened /\ left \in SUBSET Opened
  BY <1>2
<1>4. Opened' = Opened \ gone /\ gone \subseteq completed \cup dlq \cup dropped'
  BY <1>1, <1>2
<1>5. Ledger!Close(gone, left)
  BY <1>4 DEF Ledger!Close, Opened
<1> QED
  BY <1>3, <1>5 DEF Ledger!Next, Opened

\* mark_running, mark_done and mark_failed write the status of an open job.
LEMMA ReportStep ==
  ASSUME Opened' = Opened, NEW j \in Opened, UNCHANGED <<dlq, dropped>>,
         \/ status' = [status EXCEPT ![j] = "done"] /\ completed' = completed \cup {j}
         \/ /\ \E s \in {"queued", "running", "failed"} : status' = [status EXCEPT ![j] = s]
            /\ UNCHANGED completed
  PROVE  Ledger!Next
<1>1. j \in Jobs
  BY DEF Opened
<1>2. Ledger!Report(j)
  BY DEF Ledger!Report, Opened
<1> QED
  BY <1>1, <1>2 DEF Ledger!Next

\* The XADD to the dead-letter stream, in claim_stale and mark_failed, buries an open job.
LEMMA BuryStep ==
  ASSUME Opened' = Opened, NEW j \in Opened, dlq' = dlq \cup {j},
         UNCHANGED <<status, completed, dropped>>
  PROVE  Ledger!Next
<1>1. j \in Jobs
  BY DEF Opened
<1>2. Ledger!Bury(j)
  BY DEF Ledger!Bury, Opened
<1> QED
  BY <1>1, <1>2 DEF Ledger!Next

\* The job a task has in hand, and those of its claimed batch, are open.
LEMMA HeldOpen ==
  ASSUME Inv, NEW t \in Tasks
  PROVE  /\ pc[t] \in HoldPcs => cur[t].job \in Opened
         /\ \A h \in batch[t] \cup doomed[t] : h.job \in Opened
<1>1. \A h \in batch[t] \cup doomed[t] : h \in Held
  BY DEF Inv, TypeOK
<1>2. pc[t] \in HoldPcs => cur[t] \in Held
  BY DEF Inv, Hands
<1> QED
  BY <1>1, <1>2 DEF Opened, Carried, Held

\* A task changes what it holds, for copies there were.
LEMMA TaskHolds ==
  ASSUME Inv, OldEntries, OldParked, NEW u \in Tasks,
         \A t \in Tasks \ {u} : /\ pc'[t] = pc[t] /\ cur'[t] = cur[t]
                                /\ batch'[t] = batch[t] /\ doomed'[t] = doomed[t],
         pc'[u] \in HoldPcs => cur'[u].job \in Opened,
         \A h \in batch'[u] \cup doomed'[u] : h.job \in Opened
  PROVE  Opened' \subseteq Opened
<1>1. ASSUME NEW t \in Tasks, NEW j \in Jobs, InMemory(t, j)' PROVE j \in Opened
  <2>1. CASE t = u
    BY <1>1, <2>1 DEF InMemory
  <2>2. CASE t # u
    BY <1>1, <2>2, HeldOpen DEF InMemory
  <2> QED
    BY <2>1, <2>2
<1> QED
  BY <1>1, Shrinks

\* A step that reports nothing and loses nothing at most lets go of jobs.
LEMMA QuietStep ==
  ASSUME Inv, Inv', UNCHANGED <<status, completed, dlq, dropped>>, Opened' \subseteq Opened
  PROVE  Ledger!Next
<1>1. PICK left : left = {}
  OBVIOUS
<1>2. left \subseteq Opened /\ dropped' = dropped \cup left
  BY <1>1
<1> QED
  BY <1>2, CloseStep

\* A step of one task that reports nothing: it holds only copies there were.
LEMMA TaskQuiet ==
  ASSUME Inv, Inv', OldEntries, OldParked, NEW u \in Tasks,
         UNCHANGED <<status, completed, dlq, dropped>>,
         \A t \in Tasks \ {u} : /\ pc'[t] = pc[t] /\ cur'[t] = cur[t]
                                /\ batch'[t] = batch[t] /\ doomed'[t] = doomed[t],
         pc'[u] \in HoldPcs => cur'[u].job \in Opened,
         \A h \in batch'[u] \cup doomed'[u] : h.job \in Opened
  PROVE  Ledger!Next
BY TaskHolds, QuietStep

\* enqueue: a job nobody enqueued is accepted, as queued.
LEMMA EnqueueStep ==
  ASSUME Inv, NEW j \in Jobs, Enqueue(j)
  PROVE  Ledger!Next
<1>1. stream \in Seq(Entry) /\ stream \in [1..Len(stream) -> Entry] /\ Len(stream) \in Nat
  BY LenProperties DEF Inv, TypeOK
<1>2. PICK e : e = NewEntry([job |-> j, retries |-> 0])
  OBVIOUS
<1>3. e \in Entry /\ e.job = j /\ e.st = "unread"
  BY <1>2 DEF NewEntry, Entry
<1>4. /\ Len(stream') = Len(stream) + 1 /\ stream'[Len(stream) + 1] = e
      /\ \A i \in 1..Len(stream) : stream'[i] = stream[i]
  BY <1>1, <1>2, <1>3, AppendProperties DEF Enqueue
<1>5. \A k \in Jobs : Recoverable(k)' <=> Recoverable(k) \/ k = j
  BY <1>1, <1>3, <1>4 DEF Recoverable, Ids, Enqueue
<1>6. \A k \in Jobs : Carried(k)' <=> Carried(k)
  BY DEF Carried, Enqueue, taskVars
<1>7. Opened' = Opened \cup {j}
  BY <1>5, <1>6 DEF Opened
<1>8. Ledger!Accept(j)
  BY <1>7 DEF Ledger!Accept, Opened, Enqueue, history
<1> QED
  BY <1>8 DEF Ledger!Next

\* _promote_due in the loop of consume_one: no status changes, no job is closed unseen.
LEMMA PromoteStep ==
  ASSUME Inv, Inv', NEW t \in Tasks, Promote(t)
  PROVE  Ledger!Next
<1>1. OldEntries /\ OldParked
  BY PromoteOld DEF Promote
<1> QED
  BY <1>1, HeldOpen, TaskQuiet DEF Promote, taskVars, history

\* consume_one: the entry read is a copy there was.
LEMMA ReadStep ==
  ASSUME Inv, Inv', NEW t \in Tasks, Read(t)
  PROVE  Ledger!Next
<1>1. PICK i \in Ids : Deliver(i) /\ cur' = [cur EXCEPT ![t] = HeldOf(i)]
  BY DEF Read
<1>2. OldEntries /\ OldParked
  BY <1>1, DeliverOld, SameOld DEF Read
<1>3. stream \in [1..Len(stream) -> Entry]
  BY LenProperties DEF Inv, TypeOK
<1>4. cur'[t].job \in Opened
  BY <1>1, <1>3 DEF Inv, TypeOK, HeldOf, Deliver, Unread, Opened, Recoverable, Ids, Entry
<1>5. \A u \in Tasks \ {t} : cur'[u] = cur[u] /\ pc'[u] = pc[u]
  BY <1>1 DEF Inv, TypeOK, Read, Go
<1> QED
  BY <1>2, <1>4, <1>5, HeldOpen, TaskQuiet DEF Read, history

\* claim_stale: the entries claimed are copies there were.
LEMMA AutoClaimStep ==
  ASSUME Inv, Inv', NEW t \in Tasks, AutoClaim(t)
  PROVE  Ledger!Next
<1>1. OldEntries /\ OldParked
  BY ClaimOld, SameOld DEF AutoClaim
<1>2. stream \in [1..Len(stream) -> Entry]
  BY LenProperties DEF Inv, TypeOK
<1>3. \A h \in batch'[t] : h.job \in Opened
  <2>1. batch'[t] = {HeldOf(i) : i \in Stale}
    BY DEF Inv, TypeOK, AutoClaim
  <2>2. Stale \subseteq {i \in Ids : Pending(i)}
    BY DEF Stale, Lowest
  <2>3. \A i \in Ids : Pending(i) => HeldOf(i).job \in Opened
    BY <1>2 DEF HeldOf, Pending, Opened, Recoverable, Ids, Entry
  <2> QED
    BY <2>1, <2>2, <2>3
<1>4. /\ \A u \in Tasks \ {t} : batch'[u] = batch[u] /\ pc'[u] = pc[u]
      /\ pc'[t] \notin HoldPcs
  BY DEF Inv, TypeOK, AutoClaim, Go, HoldPcs, ProcessPcs
<1> QED
  BY <1>1, <1>3, <1>4, HeldOpen, TaskQuiet DEF AutoClaim, history

\* claim_stale: XPENDING divides the batch in those to run and those to bury.
LEMMA ProbeStep ==
  ASSUME Inv, Inv', NEW t \in Tasks, Probe(t)
  PROVE  Ledger!Next
<1>1. OldEntries /\ OldParked
  BY SameOld DEF Probe, redisVars
<1>2. batch'[t] \subseteq batch[t] /\ doomed'[t] \subseteq batch[t]
  BY DEF Inv, TypeOK, Probe
<1>3. /\ \A u \in Tasks \ {t} : batch'[u] = batch[u] /\ doomed'[u] = doomed[u] /\ pc'[u] = pc[u]
      /\ pc'[t] \notin HoldPcs
  BY DEF Inv, TypeOK, Probe, Go, HoldPcs, ProcessPcs
<1> QED
  BY <1>1, <1>2, <1>3, HeldOpen, TaskQuiet DEF Probe, redisVars, history

\* claim_stale: an entry delivered too often goes to the dead-letter stream.
LEMMA DlqAddStep ==
  ASSUME Inv, NEW t \in Tasks, DlqAdd(t)
  PROVE  Ledger!Next
<1>1. PICK h \in doomed[t] : /\ dlq' = dlq \cup {h.job}
                             /\ doomed' = [doomed EXCEPT ![t] = @ \ {h}]
                             /\ cur' = [cur EXCEPT ![t] = h]
  BY DEF DlqAdd
<1>2. h.job \in Opened
  BY HeldOpen
<1>3. ASSUME NEW j \in Jobs PROVE InMemory(t, j)' <=> InMemory(t, j)
  <2>1. pc[t] \notin HoldPcs /\ pc'[t] \in HoldPcs
    BY DEF Inv, TypeOK, DlqAdd, Go, HoldPcs, ProcessPcs
  <2>2. cur'[t] = h /\ doomed'[t] = doomed[t] \ {h} /\ batch'[t] = batch[t]
    BY <1>1 DEF Inv, TypeOK, DlqAdd
  <2> QED
    BY <1>1, <2>1, <2>2 DEF InMemory
<1>4. ASSUME NEW j \in Jobs, NEW u \in Tasks \ {t} PROVE InMemory(u, j)' <=> InMemory(u, j)
  BY <1>1 DEF InMemory, Inv, TypeOK, DlqAdd, Go
<1>5. Opened' = Opened
  <2>1. \A j \in Jobs : Carried(j)' <=> Carried(j)
    BY <1>3, <1>4 DEF Carried, InMemory
  <2> QED
    BY <2>1, SameOpen DEF DlqAdd
<1> QED
  BY <1>1, <1>2, <1>5, BuryStep DEF DlqAdd, history

\* XACK, in claim_stale and by the task that ends a job: an acked copy may be the last one.
LEMMA AckStep ==
  ASSUME Inv, Inv', NEW t \in Tasks, DlqAck(t) \/ Ack(t)
  PROVE  Ledger!Next
<1>1. OldEntries /\ OldParked
  BY AckOld, SameOld DEF DlqAck, Ack
<1>2. pc[t] \in HoldPcs
  BY DEF DlqAck, Ack, HoldPcs, ProcessPcs
<1>3. \A u \in Tasks \ {t} : pc'[u] = pc[u]
  BY DEF Inv, TypeOK, DlqAck, Ack, Go
<1>4. UNCHANGED <<status, completed, dlq, dropped, cur, batch, doomed>>
  BY DEF DlqAck, Ack, history
<1> QED
  BY <1>1, <1>2, <1>3, <1>4, HeldOpen, TaskQuiet

\* A task writes the status of the job it holds.
LEMMA TaskReports ==
  ASSUME Inv, NEW t \in Tasks, pc[t] \in HoldPcs, pc'[t] \in HoldPcs,
         cur'[t].job = cur[t].job,
         \A u \in Tasks \ {t} : pc'[u] = pc[u] /\ cur'[u] = cur[u],
         UNCHANGED <<stream, retry, batch, doomed>>
  PROVE  cur[t].job \in Opened /\ Opened' = Opened
<1>1. \A j \in Jobs : Carried(j)' <=> Carried(j)
  BY DEF Carried
<1> QED
  BY <1>1, HeldOpen, SameOpen

\* claim_stale writes failed for the job it buried.
LEMMA DlqHsetStep ==
  ASSUME Inv, NEW t \in Tasks, DlqHset(t)
  PROVE  Ledger!Next
<1>1. pc[t] \in HoldPcs /\ pc'[t] \in HoldPcs /\ \A u \in Tasks \ {t} : pc'[u] = pc[u]
  BY DEF Inv, TypeOK, DlqHset, Go, HoldPcs, ProcessPcs
<1>2. cur[t].job \in Opened /\ Opened' = Opened
  BY <1>1, TaskReports DEF DlqHset
<1> QED
  BY <1>2, ReportStep DEF DlqHset, history

\* mark_running, for a job the task holds.
LEMMA MarkRunningStep ==
  ASSUME Inv, NEW t \in Tasks, MarkRunning(t)
  PROVE  Ledger!Next
<1>1. pc[t] \in HoldPcs /\ pc'[t] \in HoldPcs /\ \A u \in Tasks \ {t} : pc'[u] = pc[u]
  BY DEF Inv, TypeOK, MarkRunning, Go, HoldPcs, ProcessPcs
<1>2. cur[t].job \in Opened /\ Opened' = Opened
  BY <1>1, TaskReports DEF MarkRunning
<1> QED
  BY <1>2, ReportStep DEF MarkRunning, history

\* mark_done: done is written with the work done.
LEMMA MarkDoneStep ==
  ASSUME Inv, NEW t \in Tasks, MarkDone(t)
  PROVE  Ledger!Next
<1>1. pc[t] \in HoldPcs /\ pc'[t] \in HoldPcs /\ \A u \in Tasks \ {t} : pc'[u] = pc[u]
  BY DEF Inv, TypeOK, MarkDone, Go, HoldPcs, ProcessPcs
<1>2. cur[t].job \in Opened /\ Opened' = Opened
  BY <1>1, TaskReports DEF MarkDone
<1> QED
  BY <1>2, ReportStep DEF MarkDone

\* mark_failed: queued for a retry, failed when it is the last one.
LEMMA MarkFailedStep ==
  ASSUME Inv, NEW t \in Tasks, NEW permanent \in BOOLEAN, MarkFailed(t, permanent)
  PROVE  Ledger!Next
<1>1. pc[t] \in HoldPcs /\ pc'[t] \in HoldPcs /\ \A u \in Tasks \ {t} : pc'[u] = pc[u]
  BY DEF Inv, TypeOK, MarkFailed, Go, HoldPcs, ProcessPcs
<1>2. cur[t] \in Held
  BY <1>1 DEF Inv, Hands
<1>3. cur'[t].job = cur[t].job /\ \A u \in Tasks \ {t} : cur'[u] = cur[u]
  BY <1>2 DEF Inv, TypeOK, MarkFailed, Held
<1>4. cur[t].job \in Opened /\ Opened' = Opened
  BY <1>1, <1>3, TaskReports DEF MarkFailed
<1>5. \E s \in {"queued", "running", "failed"} : status' = [status EXCEPT ![cur[t].job] = s]
  BY DEF MarkFailed
<1> QED
  BY <1>4, <1>5, ReportStep DEF MarkFailed, history

\* mark_failed: the job that fails for good goes to the dead-letter stream.
LEMMA ParkDeadStep ==
  ASSUME Inv, NEW t \in Tasks, ParkDead(t)
  PROVE  Ledger!Next
<1>1. pc[t] \in HoldPcs /\ pc'[t] \in HoldPcs /\ \A u \in Tasks \ {t} : pc'[u] = pc[u]
  BY DEF Inv, TypeOK, ParkDead, Go, HoldPcs, ProcessPcs
<1>2. cur[t].job \in Opened /\ Opened' = Opened
  BY <1>1, TaskReports DEF ParkDead
<1> QED
  BY <1>2, BuryStep DEF ParkDead, history

\* The signal of the end, and the loop that exits: the task holds nothing more.
LEMMA ReleaseStep ==
  ASSUME Inv, Inv', NEW t \in Tasks, DlqSignal(t) \/ Signal(t) \/ LoopExits(t)
  PROVE  Ledger!Next
<1>1. OldEntries /\ OldParked
  BY SameOld DEF DlqSignal, Signal, LoopExits, redisVars
<1>2. pc'[t] \notin HoldPcs /\ \A u \in Tasks \ {t} : pc'[u] = pc[u] /\ cur'[u] = cur[u]
  BY DEF Inv, TypeOK, DlqSignal, Signal, LoopExits, Go, Release, LoopPc, HoldPcs, ProcessPcs
<1>3. UNCHANGED <<status, completed, dlq, dropped, batch, doomed>>
  BY DEF DlqSignal, Signal, LoopExits, redisVars, history
<1> QED
  BY <1>1, <1>2, <1>3, HeldOpen, TaskQuiet

\* mark_failed: the retry parked in the delayed set is a copy of what the task held.
LEMMA ParkRetryStep ==
  ASSUME Inv, Inv', NEW t \in Tasks, ParkRetry(t)
  PROVE  Ledger!Next
<1>1. pc[t] \in HoldPcs
  BY DEF ParkRetry, HoldPcs, ProcessPcs
<1>2. OldParked
  <2>1. CopyOf(cur[t]).job \in Opened
    BY <1>1, HeldOpen DEF CopyOf
  <2>2. \A c \in retry : c.job \in Opened
    BY DEF Opened, Recoverable, Inv, TypeOK, Copy
  <2> QED
    BY <2>1, <2>2 DEF ParkRetry, OldParked
<1>3. OldEntries
  BY SameOld DEF ParkRetry
<1>4. pc'[t] \notin HoldPcs /\ \A u \in Tasks \ {t} : pc'[u] = pc[u] /\ cur'[u] = cur[u]
  BY DEF Inv, TypeOK, ParkRetry, Go, Release, LoopPc, HoldPcs, ProcessPcs
<1> QED
  BY <1>2, <1>3, <1>4, HeldOpen, TaskQuiet DEF ParkRetry, history

\* The reclaimer takes the next of the entries it claimed.
LEMMA BatchNextStep ==
  ASSUME Inv, Inv', NEW t \in Tasks, BatchNext(t)
  PROVE  Ledger!Next
<1>1. OldEntries /\ OldParked
  BY SameOld DEF BatchNext, redisVars
<1>2. PICK h \in batch[t] : /\ cur' = [cur EXCEPT ![t] = h]
                            /\ batch' = [batch EXCEPT ![t] = @ \ {h}]
  BY DEF BatchNext
<1>3. cur'[t].job \in Opened /\ batch'[t] \subseteq batch[t]
  BY <1>2, HeldOpen DEF Inv, TypeOK
<1>4. \A u \in Tasks \ {t} : pc'[u] = pc[u] /\ cur'[u] = cur[u] /\ batch'[u] = batch[u]
  BY <1>2 DEF Inv, TypeOK, BatchNext, Go
<1> QED
  BY <1>1, <1>3, <1>4, HeldOpen, TaskQuiet DEF BatchNext, redisVars, history

\* The reclaimer ends with its batch.
LEMMA BatchEndsStep ==
  ASSUME Inv, Inv', NEW t \in Tasks, BatchEnds(t)
  PROVE  Ledger!Next
<1>1. OldEntries /\ OldParked
  BY SameOld DEF BatchEnds, redisVars
<1>2. pc'[t] \notin HoldPcs /\ batch'[t] = {}
  BY DEF Inv, TypeOK, BatchEnds, Go, HoldPcs, ProcessPcs
<1>3. \A u \in Tasks \ {t} : pc'[u] = pc[u] /\ batch'[u] = batch[u]
  BY DEF Inv, TypeOK, BatchEnds, Go
<1> QED
  BY <1>1, <1>2, <1>3, HeldOpen, TaskQuiet DEF BatchEnds, redisVars, history

\* Every step of a task is one of the ledger.
LEMMA StepLedger ==
  ASSUME Inv, Inv', NEW t \in Tasks, Step(t)
  PROVE  Ledger!Next
BY PromoteStep, ReadStep, AutoClaimStep, ProbeStep, DlqAddStep, AckStep, DlqHsetStep, ReleaseStep,
   BatchNextStep, BatchEndsStep, MarkRunningStep, MarkDoneStep, MarkFailedStep, ParkRetryStep,
   ParkDeadStep, Zenon DEF Step

\* The reply of XREADGROUP or XAUTOCLAIM is lost: the entries stay pending.
LEMMA ReplyLostStep ==
  ASSUME Inv, Inv', NEW t \in Tasks, ReplyLost(t)
  PROVE  Ledger!Next
<1>1. OldEntries
  <2>1. CASE Reclaimer(t)
    BY <2>1, ClaimOld DEF ReplyLost
  <2>2. CASE ~Reclaimer(t)
    BY <2>2, DeliverOld DEF ReplyLost
  <2> QED
    BY <2>1, <2>2
<1>2. OldParked
  BY SameOld DEF ReplyLost
<1> QED
  BY <1>1, <1>2, HeldOpen, TaskQuiet DEF ReplyLost, taskVars, history

\* XPENDING raises, and claim_stale goes on.
LEMMA ProbeFaultStep ==
  ASSUME Inv, Inv', NEW t \in Tasks, ProbeFault(t)
  PROVE  Ledger!Next
<1>1. OldEntries /\ OldParked
  BY SameOld DEF ProbeFault, redisVars
<1>2. pc'[t] \notin HoldPcs /\ \A u \in Tasks \ {t} : pc'[u] = pc[u]
  BY DEF Inv, TypeOK, ProbeFault, Go, HoldPcs, ProcessPcs
<1> QED
  BY <1>1, <1>2, HeldOpen, TaskQuiet DEF ProbeFault, redisVars, history

\* A command of the burial raises: the entry is returned with the batch to be run.
LEMMA DlqFaultStep ==
  ASSUME Inv, Inv', NEW t \in Tasks, DlqFault(t)
  PROVE  Ledger!Next
<1>1. OldEntries /\ OldParked
  BY SameOld DEF DlqFault, redisVars
<1>2. pc'[t] \notin HoldPcs /\ \A u \in Tasks \ {t} : pc'[u] = pc[u]
  BY DEF Inv, TypeOK, DlqFault, Go, HoldPcs, ProcessPcs
<1>3. /\ \A h \in batch'[t] \cup doomed'[t] : h.job \in Opened
      /\ \A u \in Tasks \ {t} : cur'[u] = cur[u] /\ batch'[u] = batch[u] /\ doomed'[u] = doomed[u]
  <2>1. CASE pc[t] = "batch"
    <3>1. PICK h \in doomed[t] : /\ doomed' = [doomed EXCEPT ![t] = @ \ {h}]
                                 /\ batch' = [batch EXCEPT ![t] = @ \cup {h}]
      BY <2>1 DEF DlqFault
    <3>2. cur' = cur
      BY <2>1 DEF DlqFault
    <3>3. batch'[t] \cup doomed'[t] \subseteq batch[t] \cup doomed[t]
      BY <3>1 DEF Inv, TypeOK
    <3> QED
      BY <3>1, <3>2, <3>3, HeldOpen DEF Inv, TypeOK
  <2>2. CASE pc[t] # "batch"
    <3>1. /\ pc[t] \in {"dlqAck", "dlqHset", "dlqSignal"}
          /\ batch' = [batch EXCEPT ![t] = @ \cup {cur[t]}]
          /\ cur' = [cur EXCEPT ![t] = NoJob] /\ doomed' = doomed
      BY <2>2 DEF DlqFault, Release
    <3>2. pc[t] \in HoldPcs
      BY <3>1 DEF HoldPcs
    <3>3. batch'[t] = batch[t] \cup {cur[t]}
      BY <3>1 DEF Inv, TypeOK
    <3> QED
      BY <3>1, <3>2, <3>3, HeldOpen DEF Inv, TypeOK
  <2> QED
    BY <2>1, <2>2
<1> QED
  BY <1>1, <1>2, <1>3, TaskQuiet DEF DlqFault, redisVars, history

\* XACK raises: the entry stays pending.
LEMMA AckFaultStep ==
  ASSUME Inv, Inv', NEW t \in Tasks, AckFault(t)
  PROVE  Ledger!Next
<1>1. OldEntries /\ OldParked
  BY SameOld DEF AckFault, redisVars
<1>2. pc[t] \in HoldPcs /\ \A u \in Tasks \ {t} : pc'[u] = pc[u]
  BY DEF Inv, TypeOK, AckFault, Go, HoldPcs, ProcessPcs
<1> QED
  BY <1>1, <1>2, HeldOpen, TaskQuiet DEF AckFault, redisVars, history

\* What tasks that end had in hand was open.
LEMMA UnparkedOpen ==
  ASSUME Inv, NEW T, T \subseteq Tasks
  PROVE  Unparked(T) \subseteq Opened
BY HeldOpen DEF Unparked, HoldPcs, ProcessPcs

\* A command raises out of the loop: what the task acked and did not park is lost.
LEMMA TaskDiesStep ==
  ASSUME Inv, Inv', NEW t \in Tasks, TaskDies(t)
  PROVE  Ledger!Next
<1>1. OldEntries /\ OldParked
  BY SameOld DEF TaskDies, redisVars
<1>2. pc'[t] \notin HoldPcs /\ batch'[t] = {}
  BY DEF Inv, TypeOK, TaskDies, Go, HoldPcs, ProcessPcs
<1>3. \A u \in Tasks \ {t} : pc'[u] = pc[u] /\ cur'[u] = cur[u] /\ batch'[u] = batch[u]
  BY DEF Inv, TypeOK, TaskDies, Go, Release
<1>4. Opened' \subseteq Opened
  BY <1>1, <1>2, <1>3, HeldOpen, TaskHolds DEF TaskDies
<1>5. PICK left : left = Unparked({t})
  OBVIOUS
<1>6. left \subseteq Opened /\ dropped' = dropped \cup left
  BY <1>5, UnparkedOpen DEF TaskDies
<1>7. UNCHANGED <<status, completed, dlq>>
  BY DEF TaskDies, redisVars
<1> QED
  BY <1>4, <1>6, <1>7, CloseStep

\* A backoff elapses, an entry grows stale.
LEMMA TimeStep ==
  ASSUME Inv, Inv',
         (\E c \in retry : BackoffElapses(c)) \/ (\E i \in Ids : GoesIdle(i))
  PROVE  Ledger!Next
<1>1. OldEntries /\ OldParked
  BY IdleOld, SameOld DEF BackoffElapses, GoesIdle
<1>2. UNCHANGED <<status, completed, dlq, dropped, pc, cur, batch, doomed>>
  BY DEF BackoffElapses, GoesIdle, taskVars, history
<1>3. Opened' \subseteq Opened
  <2>1. \A t \in Tasks : \A j \in Jobs : InMemory(t, j)' => j \in Opened
    BY <1>2, HeldOpen DEF InMemory
  <2> QED
    BY <1>1, <2>1, Shrinks
<1> QED
  BY <1>2, <1>3, QuietStep

\* A process is stopped, exits, crashes or starts again: a crash loses what the
\* process acked and did not park.
LEMMA ProcStep ==
  ASSUME Inv, Inv', NEW p \in Procs, Stop(p) \/ ProcExits(p) \/ Crash(p) \/ Restart(p)
  PROVE  Ledger!Next
<1>1. OldEntries /\ OldParked
  BY SameOld DEF Stop, ProcExits, Crash, Restart, redisVars
<1>2. ASSUME NEW t \in Tasks, NEW j \in Jobs, InMemory(t, j)' PROVE InMemory(t, j)
  <2>1. CASE Stop(p) \/ ProcExits(p)
    BY <1>2, <2>1 DEF InMemory, Stop, ProcExits
  <2>2. CASE Crash(p)
    BY <1>2, <2>2 DEF InMemory, Crash, HoldPcs, ProcessPcs
  <2>3. CASE Restart(p)
    BY <1>2, <2>3 DEF InMemory, Restart, HoldPcs, ProcessPcs
  <2> QED
    BY <2>1, <2>2, <2>3
<1>3. Opened' \subseteq Opened
  <2>1. \A t \in Tasks : \A j \in Jobs : InMemory(t, j)' => j \in Opened
    BY <1>2, HeldOpen DEF InMemory
  <2> QED
    BY <1>1, <2>1, Shrinks
<1>4. PICK left : left = IF Crash(p) THEN Unparked(TasksOf(p)) ELSE {}
  OBVIOUS
<1>5. left \subseteq Opened
  BY <1>4, UnparkedOpen DEF TasksOf
<1>6. dropped' = dropped \cup left
  BY <1>4 DEF Crash, Stop, ProcExits, Restart, history
<1>7. UNCHANGED <<status, completed, dlq>>
  BY DEF Crash, Stop, ProcExits, Restart, redisVars, history
<1> QED
  BY <1>3, <1>5, <1>6, <1>7, CloseStep

\* queue.py and worker.py: the queue keeps the ledger, for any number of jobs,
\* processes, retries, crashes and raised commands.  A job is closed only when it
\* was done, dead-lettered or lost in the ack window of mark_failed; only an open
\* job is reported on; and no late task opens a closed job again.
THEOREM LedgerTheorem == Spec => ImplementsLedger
<1>1. Init => Ledger!Init
  <2> SUFFICES ASSUME Init PROVE Ledger!Init
    OBVIOUS
  <2>1. \A j \in Jobs : ~Recoverable(j) /\ ~Carried(j)
    BY DEF Init, Recoverable, Carried, Ids, HoldPcs, ProcessPcs
  <2> QED
    BY <2>1 DEF Init, Ledger!Init
<1>2. Inv /\ Inv' /\ [Next]_vars => [Ledger!Next]_(Ledger!ledger)
  <2> SUFFICES ASSUME Inv, Inv', [Next]_vars PROVE Ledger!Next \/ UNCHANGED Ledger!ledger
    OBVIOUS
  <2>1. CASE UNCHANGED vars
    <3>1. UNCHANGED <<status, completed, dlq, dropped, stream, retry, pc, cur, batch, doomed>>
      BY <2>1 DEF vars, redisVars, taskVars, history
    <3>2. Opened' = Opened
      BY <3>1 DEF Opened, Recoverable, Carried, Ids
    <3> QED
      BY <3>1, <3>2 DEF Ledger!ledger, Opened
  <2>2. CASE \E j \in Jobs : Enqueue(j)
    BY <2>2, EnqueueStep
  <2>3. CASE (\E c \in retry : BackoffElapses(c)) \/ (\E i \in Ids : GoesIdle(i))
    BY <2>3, TimeStep
  <2>4. CASE \E t \in Tasks : Step(t) \/ Raise(t)
    BY <2>4, StepLedger, ReplyLostStep, ProbeFaultStep, DlqFaultStep, AckFaultStep, TaskDiesStep
       DEF Raise
  <2>5. CASE \E p \in Procs : Stop(p) \/ ProcExits(p) \/ Crash(p) \/ Restart(p)
    BY <2>5, ProcStep
  <2> QED
    BY <2>1, <2>2, <2>3, <2>4, <2>5 DEF Next
<1> QED
  BY InitInv, NextInv, <1>1, <1>2, PTL DEF Spec, ImplementsLedger, Ledger!Spec
=============================================================================
