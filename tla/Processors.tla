----------------------------- MODULE Processors -----------------------------
(***************************************************************************)
(* The processor nodes (nodes/processors.py): a node hands its items to    *)
(* the model all at once, one by one or in batches (_run_per_item), with a *)
(* semaphore over the groups, and puts the answers back together.  Rules   *)
(* Engine and Classifier match answers to records, and the Rules Engine    *)
(* ranks them.  Deduplicator and Validator work without a model.           *)
(*                                                                         *)
(* The groups run under asyncio.gather: the first error is raised at once, *)
(* and the other groups of that attempt go on, unheard, while BaseNode.run *)
(* starts the next one.  A record has key fields email and name (Absent    *)
(* when missing), a score (Missing when there is none) and whether it      *)
(* meets the rules; an answer names the record it is about and its index   *)
(* in the group, 0 when the model gave none.                               *)
(***************************************************************************)
EXTENDS Integers, Sequences, FiniteSets, SequencesExt

CONSTANTS
  Kinds, Modes, Inputs,
  BatchSize, Concurrency, Fanout,    \* batch_size, PER_ITEM_CONCURRENCY, MAX_PER_ITEM_FANOUT
  Limit,                             \* the run's LLM budget
  Threshold,                         \* of the rule "score >= Threshold"
  Retries, MaxFaults,
  Absent, Missing

VARIABLES
  node,      \* the node and its attempt
  task,      \* the groups of every attempt
  result,    \* what gather holds for the current attempt
  charged,   \* the run's LLM counter
  out,       \* the node's output
  mishaps    \* errors so far

procVars == <<node, task, result, charged, out, mishaps>>

Matching == {"rules", "simple_rules", "classifier"}
Plain    == {"dedup_first", "dedup_last", "validator"}
NoAnswer == [idx |-> 0, about |-> "none", passed |-> FALSE]

-----------------------------------------------------------------------------
\* list.sort: the elements of S by Before, a strict order; the k-th has k - 1
\* before it.  (SetToSortSeq of the library sorts with an overridden operator
\* that proofs cannot expand.)
InOrder(S, Before(_, _)) ==
  [k \in 1..Cardinality(S) |-> CHOOSE i \in S : Cardinality({j \in S : Before(j, i)}) = k - 1]

\* Answers put back on records.

\* The answer with the record's index, else the one at its place.
Verdict(i, reply) ==
  IF \E k \in DOMAIN reply : reply[k].idx = i
  THEN reply[CHOOSE k \in DOMAIN reply :
               /\ reply[k].idx = i
               /\ \A j \in 1..k - 1 : reply[j].idx # i]
  ELSE IF i <= Len(reply) THEN reply[i] ELSE NoAnswer

Output(id, verdict, score, try) ==
  [id |-> id, by |-> verdict.about, passed |-> verdict.passed, score |-> score, rank |-> 0,
   try |-> try]

Score(r) == IF r.score = Missing THEN 0 ELSE r.score       \* _extract_score

\* Passed first, then the higher score; the records agree on the salary, which
\* comes third, so the stable sort keeps the earlier one first.  Ranks are
\* numbered anew.
Ranked(s) ==
  LET Before(i, j) ==
        IF s[i].passed # s[j].passed THEN s[i].passed
        ELSE IF s[i].score # s[j].score THEN s[i].score > s[j].score
        ELSE i < j
      order == InOrder(DOMAIN s, Before)
  IN [k \in DOMAIN s |-> [s[order[k]] EXCEPT !.rank = k]]

\* RulesEngineNode._process and ClassifierNode._process.
RulesOut(group, reply, try) ==
  Ranked([i \in DOMAIN group |-> Output(group[i].id, Verdict(i, reply), Score(group[i]), try)])
ClassifierOut(group, reply, try) ==
  [i \in DOMAIN group |-> Output(group[i].id, Verdict(i, reply), 0, try)]

\* _try_deterministic_eval: a value that is missing does not pass.
Deterministic(group) ==
  [i \in DOMAIN group |->
     [idx |-> i, about |-> group[i].id,
      passed |-> group[i].score # Missing /\ group[i].score >= Threshold]]

\* LLM Processor: the answer's items, merged with the input's when asked to and
\* when there are as many of them.
LlmOut(group, reply, merge, try) ==
  [k \in DOMAIN reply |->
     Output(IF merge /\ Len(reply) = Len(group) THEN group[k].id ELSE "new", reply[k], 0, try)]

\* Extractor and Summarizer: the items of the answer, one if it is plain text.
ExtractorOut(reply, try)  == [k \in DOMAIN reply |-> Output("new", reply[k], 0, try)]
SummarizerOut(reply, try) == [k \in DOMAIN reply |-> Output("new", reply[k], 0, try)]

Processed(group, reply, try) ==
  CASE node.kind \in {"rules", "simple_rules"} -> RulesOut(group, reply, try)
    [] node.kind = "classifier" -> ClassifierOut(group, reply, try)
    [] node.kind = "llm"        -> LlmOut(group, reply, FALSE, try)
    [] node.kind = "merging"    -> LlmOut(group, reply, TRUE, try)
    [] node.kind = "extractor"  -> ExtractorOut(reply, try)
    [] node.kind = "summarizer" -> SummarizerOut(reply, try)

\* What the model may answer to a group: a verdict on some of the records, in
\* order, without indexes or counted from zero, as the code reads them, or from one
\* (the prompts leave it open), or something that is not JSON.
Bases == {"none", "zero", "one"}
Answer(group, S, base) ==
  LET order == InOrder(S, <) IN
  [k \in DOMAIN order |->
     [idx |-> IF base = "none" THEN 0 ELSE IF base = "one" THEN order[k] + 1 ELSE order[k],
      about |-> group[order[k]].id, passed |-> group[order[k]].good]]
Garbled == <<NoAnswer>>
Replies(group) == {Garbled} \cup
  {Answer(group, S, base) : S \in SUBSET DOMAIN group, base \in Bases}

\* A verdict on every record, with indexes that mean what the code takes them for.
Complete(group, reply) ==
  /\ Len(reply) = Len(group) /\ reply # Garbled
  /\ \A k \in DOMAIN reply : reply[k].idx \in {0, k}

-----------------------------------------------------------------------------
\* Nodes without a model.

\* DeduplicatorNode: the values of the key fields a record has.
KeyFor(r) == SelectSeq(<<r.email, r.name>>, LAMBDA v : v # Absent)
Deduplicated(s, keep) ==
  LET Add(order, r) ==
        LET same == {k \in DOMAIN order : KeyFor(r) # <<>> /\ KeyFor(order[k]) = KeyFor(r)} IN
        IF same = {} THEN Append(order, r)
        ELSE IF keep = "last" THEN [k \in DOMAIN order |-> IF k \in same THEN r ELSE order[k]]
        ELSE order
  IN FoldLeft(Add, <<>>, s)

\* ValidatorNode with email required and a minimum for the score: a missing
\* value has no minimum.
Valid(r) == r.email # Absent /\ (r.score # Missing => r.score >= Threshold)

Computed(s) ==
  LET kept == CASE node.kind = "dedup_first" -> Deduplicated(s, "first")
                [] node.kind = "dedup_last"  -> Deduplicated(s, "last")
                [] node.kind = "validator"   -> SelectSeq(s, Valid)
  IN [k \in DOMAIN kept |-> Output(kept[k].id, NoAnswer, 0, node.attempt)]

-----------------------------------------------------------------------------
\* The groups of the node's items: all, each, batch.
Groups ==
  LET n == Len(node.input)
      size == CASE node.mode = "each" -> 1 [] node.mode = "batch" -> BatchSize
                [] OTHER -> n
  IN IF n <= 1 THEN <<node.input>>
     ELSE [g \in 1..(n + size - 1) \div size |->
             SubSeq(node.input, (g - 1) * size + 1, IF g * size < n THEN g * size ELSE n)]

Tries == 0..Retries
Slots == 1..Fanout
Tasks == Tries \X Slots

Init ==
  /\ node \in [kind : Kinds, mode : Modes, input : Inputs, attempt : {0}, pc : {"start"},
               whole : {TRUE}]
  /\ task = [t \in Tasks |-> "none"]
  /\ result = [g \in Slots |-> <<>>] /\ out = <<>> /\ charged = 0 /\ mishaps = 0

Fault == mishaps < MaxFaults /\ mishaps' = mishaps + 1

\* BaseNode.run: the next attempt, or FAILED.
AttemptFails ==
  node' = IF node.attempt < Retries
          THEN [node EXCEPT !.attempt = @ + 1, !.pc = "start", !.whole = TRUE]
          ELSE [node EXCEPT !.pc = "failed"]

Compute ==
  /\ node.pc = "start" /\ node.kind \in Plain
  /\ out' = Computed(node.input) /\ node' = [node EXCEPT !.pc = "completed"]
  /\ UNCHANGED <<task, result, charged, mishaps>>

\* _run_per_item up to gather: the cap on the fan-out, then one task per group.
Spread ==
  /\ node.pc = "start" /\ node.kind \notin Plain
  /\ IF node.mode # "all" /\ Len(node.input) > Fanout
     THEN AttemptFails /\ UNCHANGED <<task, result>>
     ELSE /\ node' = [node EXCEPT !.pc = "gather"]
          /\ task' = [t \in Tasks |->
               IF t[1] = node.attempt /\ t[2] <= Len(Groups) THEN "queued" ELSE task[t]]
          /\ result' = [g \in Slots |-> <<>>]
  /\ UNCHANGED <<charged, out, mishaps>>

Heard(t) == t[1] = node.attempt /\ node.pc = "gather"
Busy(try) == Cardinality({g \in Slots : task[<<try, g>>] = "llm"})

\* A group raised: gather passes the first error on, later ones are unheard.
GroupRaises(t) ==
  /\ task' = [task EXCEPT ![t] = "dead"]
  /\ IF Heard(t) THEN AttemptFails ELSE UNCHANGED node

\* Past the semaphore: simple rules need no model, a prompt over the size limit
\* raises; _charged_offload charges the run and makes the call.
Enter(t) ==
  /\ task[t] = "queued" /\ Busy(t[1]) < Concurrency
  /\ \/ /\ node.kind = "simple_rules"
        /\ task' = [task EXCEPT ![t] = "done"]
        /\ result' = IF Heard(t)
             THEN [result EXCEPT ![t[2]] =
                     Processed(Groups[t[2]], Deterministic(Groups[t[2]]), t[1])]
             ELSE result
        /\ UNCHANGED <<node, charged, mishaps>>
     \/ Fault /\ GroupRaises(t) /\ UNCHANGED <<result, charged>>
     \/ /\ node.kind # "simple_rules" /\ charged' = charged + 1
        /\ IF charged' > Limit THEN GroupRaises(t)
           ELSE task' = [task EXCEPT ![t] = "llm"] /\ UNCHANGED node
        /\ UNCHANGED <<result, mishaps>>
  /\ UNCHANGED out

\* Mutant: an answer goes to the first free place.
FirstFree(t) ==
  CHOOSE g \in Slots : /\ result[g] = <<>>
                       /\ \A h \in 1..g - 1 : result[h] # <<>>

\* gather keeps the place of each group.
PlaceOf(t) == t[2]

\* The model answers.
Reply(t) ==
  /\ task[t] = "llm"
  /\ LET group == Groups[t[2]] IN
     \E reply \in Replies(group) :
       /\ task' = [task EXCEPT ![t] = "done"]
       /\ result' = IF Heard(t)
                    THEN [result EXCEPT ![PlaceOf(t)] = Processed(group, reply, t[1])] ELSE result
       /\ node' = IF Heard(t)
                  THEN [node EXCEPT !.whole = @ /\ Complete(group, reply)]
                  ELSE node
  /\ UNCHANGED <<charged, out, mishaps>>

\* The call fails, or the answer is JSON of a shape the node cannot read.
CallFails(t) ==
  /\ task[t] = "llm" /\ Fault
  /\ GroupRaises(t)
  /\ UNCHANGED <<result, charged, out>>

\* RulesEngineNode ranks once more over all the groups.
Finished(s) == IF node.kind \in {"rules", "simple_rules"} THEN Ranked(s) ELSE s

Gather ==
  /\ node.pc = "gather"
  /\ \A g \in 1..Len(Groups) : task[<<node.attempt, g>>] = "done"
  /\ out' = Finished(FlattenSeq(SubSeq(result, 1, Len(Groups))))
  /\ node' = [node EXCEPT !.pc = "completed"]
  /\ UNCHANGED <<task, result, charged, mishaps>>

\* The node's timeout cancels gather and its tasks, not those of the attempts
\* before; a call in a thread goes on without a listener.
NodeTimeout ==
  /\ node.pc = "gather" /\ Fault
  /\ node' = [node EXCEPT !.pc = "failed"]
  /\ task' = [t \in Tasks |-> IF t[1] = node.attempt /\ task[t] # "none" THEN "dead" ELSE task[t]]
  /\ UNCHANGED <<result, charged, out>>

Next ==
  \/ Compute \/ Spread \/ Gather \/ NodeTimeout
  \/ \E t \in Tasks : Enter(t) \/ Reply(t) \/ CallFails(t)

Spec == Init /\ [][Next]_procVars

-----------------------------------------------------------------------------
TypeOK ==
  /\ node.kind \in Kinds /\ node.mode \in Modes /\ node.input \in Inputs
  /\ node.attempt \in Tries /\ node.pc \in {"start", "gather", "completed", "failed"}
  /\ task \in [Tasks -> {"none", "queued", "llm", "done", "dead"}]
  /\ charged \in Nat /\ mishaps \in 0..MaxFaults

Done == node.pc = "completed"
Ids(s) == [k \in DOMAIN s |-> s[k].id]
Record(id) == CHOOSE r \in ToSet(node.input) : r.id = id

\* Whatever the mode, the order the answers came in and the attempts before,
\* every record comes out once, with answers of this attempt only; in input
\* order from the Classifier (_run_per_item: "gather preserves order").
EveryRecordOnce ==
  Done /\ node.kind \in Matching =>
    /\ Len(out) = Len(node.input) /\ ToSet(Ids(out)) = ToSet(Ids(node.input))
    /\ \A k \in DOMAIN out : out[k].try = node.attempt
    /\ node.kind = "classifier" => Ids(out) = Ids(node.input)

\* What gather holds of a group that is done is what became of that group, in
\* this attempt, and the output is made of all of them: a group of an attempt
\* that failed puts nothing there.  With whole, no answer was missing or miscounted.
Outcome(g) ==
  LET group == Groups[g]
      Is(reply) == result[g] = Processed(group, reply, node.attempt) IN
  IF node.kind = "simple_rules" THEN Is(Deterministic(group))
  ELSE \E reply \in Replies(group) :
         Is(reply) /\ (node.whole => Complete(group, reply))

PlacesKept ==
  node.kind \notin Plain =>
    /\ node.pc \in {"gather", "completed"} =>
         \A g \in Slots : task[<<node.attempt, g>>] = "done" => Outcome(g)
    /\ Done =>
         /\ \A g \in 1..Len(Groups) : task[<<node.attempt, g>>] = "done"
         /\ out = Finished(FlattenSeq(SubSeq(result, 1, Len(Groups))))

\* If the model answered for every record, and numbered them from zero or not at
\* all, every record has its own answer however it was grouped; simple rules
\* always do.
OwnAnswer ==
  Done /\ node.whole /\ node.kind \in Matching \cup {"merging"} =>
    \A k \in DOMAIN out :
      /\ out[k].by = out[k].id
      /\ out[k].passed = IF node.kind = "simple_rules"
                         THEN Record(out[k].id).score # Missing
                                /\ Record(out[k].id).score >= Threshold
                         ELSE Record(out[k].id).good

\* One ranking over all the groups: selected before rejected, then by score,
\* numbered without gaps (RulesEngineNode.execute: "Re-rank globally here").
OneRanking ==
  Done /\ node.kind \in {"rules", "simple_rules"} =>
    \A k \in DOMAIN out :
      /\ out[k].rank = k
      /\ k > 1 => \/ out[k - 1].passed /\ ~out[k].passed
                  \/ out[k - 1].passed = out[k].passed /\ out[k - 1].score >= out[k].score

\* Deduplication keeps one record of every key, the first or the last one, and
\* every record without a key, in the order in which the keys came up.
DedupSound ==
  Done /\ node.kind \in {"dedup_first", "dedup_last"} =>
    LET s == node.input
        Same(i) == {j \in DOMAIN s : j = i \/ (KeyFor(s[i]) # <<>> /\ KeyFor(s[j]) = KeyFor(s[i]))}
        heads == {i \in DOMAIN s : \A j \in Same(i) : i <= j}
        order == InOrder(heads, <)
        Kept(i) == IF node.kind = "dedup_first" THEN i
                   ELSE CHOOSE j \in Same(i) : \A l \in Same(i) : l <= j
    IN Ids(out) = [k \in DOMAIN order |-> s[Kept(order[k])].id]

ProcessorsSound ==
  TypeOK /\ PlacesKept /\ EveryRecordOnce /\ OwnAnswer /\ OneRanking /\ DedupSound

-----------------------------------------------------------------------------
\* Statements of comments that the code does not keep.

\* "No matching classification found — assign first if only one": it is taken by
\* position, so a record gets the answer about another one; so it does when the model
\* counts the records from one.
NoBorrowedAnswer == Done /\ node.kind \in Matching => \A k \in DOMAIN out : out[k].by \in {out[k].id, "none"}

\* "Run process_fn over each group with BOUNDED CONCURRENCY": an attempt that
\* failed leaves its groups running beside the next one's.
ConcurrencyHolds == Cardinality({t \in Tasks : task[t] = "llm"}) <= Concurrency

\* A failed node makes no more calls.
QuietAfterEnd == node.pc = "failed" => \A t \in Tasks : task[t] # "queued"

\* Records that are merged agree on every key field: the key drops the names of
\* the fields, so an email may equal a name.
DuplicatesAgree ==
  Done /\ node.kind = "dedup_first" =>
    \A r \in ToSet(node.input) : r.id \in ToSet(Ids(out)) \/
      \E q \in ToSet(node.input) : q.id \in ToSet(Ids(out)) /\ q.email = r.email /\ q.name = r.name
=============================================================================
