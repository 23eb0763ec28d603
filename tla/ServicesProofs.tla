--------------------------- MODULE ServicesProofs ---------------------------
(***************************************************************************)
(* Proofs about services that runs and endpoints lean on: the cache of     *)
(* sandbox files, the circuit breaker, the LLM call, the slots of runs,    *)
(* the rate limits of the AI endpoints and the sandbox pool.  They share   *)
(* no state; each is proved on its own, for every value of its constants   *)
(* that the hypotheses of its theorem admit.                               *)
(***************************************************************************)
EXTENDS Services, FiniteSetTheorems, TLAPS

-----------------------------------------------------------------------------
(***************************************************************************)
(* The file cache.  An ETag in a reader's hands is not newer than the      *)
(* object, and what the reader downloads after it is not older than the    *)
(* ETag: the object only moves on.                                         *)
(***************************************************************************)

FilesConstants == MaxVersion \in Nat \ {0} /\ MaxFaults \in Nat

FilesInv ==
  /\ Files!TypeOK /\ Files!TagNotNewer
  /\ \A r \in Readers :
       /\ reader[r].etag <= object
       /\ reader[r].pc = "got" => reader[r].etag <= reader[r].got

\* One reader moves: only its own record can break the picture.
LEMMA OneReader ==
  ASSUME FilesConstants, FilesInv, NEW r \in Readers,
         Files!ReadMeta(r) \/ Files!Head(r) \/ Files!CacheHit(r)
           \/ Files!Download(r) \/ Files!Store(r) \/ Files!Link(r)
  PROVE  FilesInv'
<1> USE DEF FilesConstants, FilesInv, Files!Held, Files!Contents, Files!Nothing
<1>1. /\ reader[r] \in [pc : {"new", "head", "get", "got", "link", "copy",
                             "done", "failed"},
                       cached : Files!Held, etag : Files!Held, got : Files!Held]
      /\ object \in Nat /\ bin \in Nat /\ meta \in Nat /\ faulty \in Nat
  BY DEF Files!TypeOK
<1>2. CASE Files!ReadMeta(r)
  BY <1>1, <1>2 DEF Files!ReadMeta, Files!TypeOK, Files!TagNotNewer
<1>3. CASE Files!Head(r)
  BY <1>1, <1>3 DEF Files!Head, Files!Fault, Files!TypeOK, Files!TagNotNewer
<1>4. CASE Files!CacheHit(r)
  BY <1>1, <1>4 DEF Files!CacheHit, Files!TypeOK, Files!TagNotNewer
<1>5. CASE Files!Download(r)
  BY <1>1, <1>5 DEF Files!Download, Files!Fault, Files!TypeOK, Files!TagNotNewer
<1>6. CASE Files!Store(r)
  BY <1>1, <1>6 DEF Files!Store, Files!Fault, Files!TypeOK, Files!TagNotNewer
<1>7. CASE Files!Link(r)
  BY <1>1, <1>7 DEF Files!Link, Files!TypeOK, Files!TagNotNewer
<1> QED
  BY <1>2, <1>3, <1>4, <1>5, <1>6, <1>7

LEMMA FilesNext ==
  ASSUME FilesConstants, FilesInv, [Files!Next]_Files!vars
  PROVE  FilesInv'
<1> USE DEF FilesConstants, FilesInv, Files!Held, Files!Contents, Files!Nothing
<1>1. CASE Files!EvictBin
  BY <1>1 DEF Files!EvictBin, Files!TypeOK, Files!TagNotNewer
<1>2. CASE Files!EvictMeta
  BY <1>2 DEF Files!EvictMeta, Files!TypeOK, Files!TagNotNewer
<1>3. CASE Files!Overwrite
  BY <1>3 DEF Files!Overwrite, Files!TypeOK, Files!TagNotNewer
<1>4. CASE UNCHANGED Files!vars
  BY <1>4 DEF Files!vars, Files!TypeOK, Files!TagNotNewer
<1> QED
  BY <1>1, <1>2, <1>3, <1>4, OneReader DEF Files!Next

\* In any number of overlapping runs, overwrites, evictions and failed calls:
\* the cached file is never tagged with an ETag newer than its content.
THEOREM FilesTheorem ==
  ASSUME FilesConstants
  PROVE  Files!Spec => []FilesTagNotNewer
<1>1. Files!Init => FilesInv
  BY DEF FilesConstants, FilesInv, Files!Init, Files!TypeOK, Files!TagNotNewer,
         Files!Held, Files!Contents, Files!Nothing
<1>2. FilesInv /\ [Files!Next]_Files!vars => FilesInv'
  BY FilesNext
<1>3. FilesInv => FilesTagNotNewer
  BY DEF FilesInv, FilesTagNotNewer, Files!FilesTagNotNewer
<1> QED
  BY <1>1, <1>2, <1>3, PTL DEF Files!Spec
-----------------------------------------------------------------------------
(***************************************************************************)
(* The circuit breaker.  From the threshold on the breaker is open since   *)
(* the last failure, or half open with the recovery behind it.             *)
(***************************************************************************)

BreakerConstants ==
  /\ IsFiniteSet(Calls)
  /\ Threshold \in Nat \ {0} /\ Recovery \in Nat /\ MaxClock \in Nat

LEMMA BreakerCardinality == \A S : Breaker!Cardinality(S) = Cardinality(S)
BY DEF Breaker!Cardinality, Cardinality

Ended == {c \in Calls : call[c].pc = "done"}

BreakerInv ==
  /\ Breaker!TypeOK
  /\ failures = streak /\ streak <= Cardinality(Ended)
  /\ streak >= Threshold =>
       /\ openedAt = lastFail
       /\ \/ state = "open"
          \/ state = "half_open" /\ clock >= lastFail + Recovery

\* What a call that is done adds to the count of those that are.
LEMMA DoneGrows ==
  ASSUME BreakerConstants, BreakerInv, NEW c \in Calls, call[c].pc = "awaiting",
         call' = [call EXCEPT ![c].pc = "done"]
  PROVE  /\ Cardinality(Ended') = Cardinality(Ended) + 1
         /\ Cardinality(Ended') \in 0..Cardinality(Calls)
         /\ Cardinality(Ended) \in Nat
<1>1. Ended' = Ended \cup {c} /\ c \notin Ended /\ Ended \subseteq Calls
  BY DEF Ended, BreakerInv, Breaker!TypeOK
<1>2. IsFiniteSet(Ended)
  BY <1>1, FS_Subset DEF BreakerConstants
<1>3. Cardinality(Ended') <= Cardinality(Calls)
  BY <1>1, FS_Subset DEF BreakerConstants
<1>4. Cardinality(Ended') = Cardinality(Ended) + 1
  BY <1>1, <1>2, FS_AddElement
<1> QED
  BY <1>2, <1>3, <1>4, FS_CardinalityType DEF BreakerConstants

\* A call that enters or is rejected is not done.
LEMMA DoneStays ==
  ASSUME BreakerInv, NEW c \in Calls, call[c].pc = "idle",
         call'[c].pc # "done", \A d \in Calls \ {c} : call'[d] = call[d]
  PROVE  Ended' = Ended
BY DEF Ended

LEMMA OneCall ==
  ASSUME BreakerConstants, BreakerInv, NEW c \in Calls,
         Breaker!Enter(c) \/ Breaker!Reject(c) \/ Breaker!Succeed(c)
           \/ Breaker!Fail(c) \/ Breaker!Escape(c)
  PROVE  BreakerInv'
<1> USE BreakerCardinality DEF BreakerConstants, BreakerInv
<1>1. /\ call[c] \in [pc : {"idle", "awaiting", "rejected", "done"},
                      began : 0..MaxClock]
      /\ clock \in 0..MaxClock /\ openedAt \in 0..MaxClock /\ lastFail \in 0..MaxClock
      /\ failures \in Nat /\ streak \in Nat
      /\ call \in [Calls -> [pc : {"idle", "awaiting", "rejected", "done"},
                             began : 0..MaxClock]]
      /\ Cardinality(Calls) \in Nat
  BY FS_CardinalityType DEF Breaker!TypeOK
<1>2. CASE Breaker!Enter(c)
  <2>1. Ended' = Ended
    BY <1>1, <1>2, DoneStays DEF Breaker!Enter
  <2>2. Breaker!TypeOK'
    BY <1>1, <1>2 DEF Breaker!Enter, Breaker!TypeOK
  <2> QED
    BY <1>1, <1>2, <2>1, <2>2 DEF Breaker!Enter, Breaker!Recovered
<1>3. CASE Breaker!Reject(c)
  <2>1. Ended' = Ended
    BY <1>1, <1>3, DoneStays DEF Breaker!Reject
  <2>2. Breaker!TypeOK'
    BY <1>1, <1>3 DEF Breaker!Reject, Breaker!TypeOK
  <2> QED
    BY <1>3, <2>1, <2>2 DEF Breaker!Reject
<1>4. CASE Breaker!Succeed(c)
  <2>1. /\ Cardinality(Ended') = Cardinality(Ended) + 1
        /\ Cardinality(Ended) \in Nat
    BY <1>4, DoneGrows DEF Breaker!Succeed
  <2>2. Breaker!TypeOK'
    BY <1>1, <1>4 DEF Breaker!Succeed, Breaker!TypeOK
  <2> QED
    BY <1>4, <2>1, <2>2 DEF Breaker!Succeed
<1>5. CASE Breaker!Fail(c)
  <2>1. /\ Cardinality(Ended') = Cardinality(Ended) + 1
        /\ Cardinality(Ended') \in 0..Cardinality(Calls)
        /\ Cardinality(Ended) \in Nat
    BY <1>5, DoneGrows DEF Breaker!Fail
  <2>2. streak' \in 0..Cardinality(Calls) /\ failures' = streak'
        /\ streak' <= Cardinality(Ended')
    BY <1>1, <1>5, <2>1 DEF Breaker!Fail
  <2>3. Breaker!TypeOK'
    BY <1>1, <1>5, <2>2 DEF Breaker!Fail, Breaker!TypeOK
  <2> QED
    BY <1>1, <1>5, <2>2, <2>3 DEF Breaker!Fail
<1>6. CASE Breaker!Escape(c)
  <2>1. /\ Cardinality(Ended') = Cardinality(Ended) + 1
        /\ Cardinality(Ended) \in Nat
    BY <1>6, DoneGrows DEF Breaker!Escape
  <2>2. Breaker!TypeOK'
    BY <1>1, <1>6 DEF Breaker!Escape, Breaker!TypeOK
  <2> QED
    BY <1>1, <1>6, <2>1, <2>2 DEF Breaker!Escape
<1> QED
  BY <1>2, <1>3, <1>4, <1>5, <1>6

LEMMA BreakerNext ==
  ASSUME BreakerConstants, BreakerInv, [Breaker!Next]_Breaker!vars
  PROVE  BreakerInv'
<1> USE DEF BreakerConstants, BreakerInv
<1>1. CASE Breaker!Tick
  <2>1. Ended' = Ended
    BY <1>1 DEF Breaker!Tick, Ended
  <2> QED
    BY <1>1, <2>1 DEF Breaker!Tick, Breaker!TypeOK
<1>2. CASE UNCHANGED Breaker!vars
  <2>1. Ended' = Ended
    BY <1>2 DEF Breaker!vars, Ended
  <2> QED
    BY <1>2, <2>1 DEF Breaker!vars, Breaker!TypeOK
<1> QED
  BY <1>1, <1>2, OneCall DEF Breaker!Next

\* Only Enter takes a call from idle to awaiting.
LEMMA EntersInTimeHolds ==
  ASSUME BreakerConstants, BreakerInv, [Breaker!Next]_Breaker!vars
  PROVE  Breaker!EntersInTime
<1> SUFFICES ASSUME NEW d \in Calls, call[d].pc = "idle",
                    call'[d].pc = "awaiting", streak >= Threshold
             PROVE  clock >= lastFail + Recovery
  BY DEF Breaker!EntersInTime
<1>1. call \in [Calls -> [pc : {"idle", "awaiting", "rejected", "done"},
                          began : 0..MaxClock]]
  BY DEF BreakerInv, Breaker!TypeOK
<1>2. ASSUME NEW c \in Calls,
             Breaker!Reject(c) \/ Breaker!Succeed(c) \/ Breaker!Fail(c)
               \/ Breaker!Escape(c)
      PROVE  FALSE
  BY <1>1, <1>2
     DEF Breaker!Reject, Breaker!Succeed, Breaker!Fail, Breaker!Escape
<1>3. ~Breaker!Tick /\ ~UNCHANGED Breaker!vars
  BY DEF Breaker!Tick, Breaker!vars
<1>4. PICK c \in Calls : Breaker!Enter(c)
  BY <1>2, <1>3 DEF Breaker!Next
<1> QED
  BY <1>4 DEF Breaker!Enter, Breaker!Recovered, BreakerInv

\* However many calls overlap, and in whichever order they report: once
\* Threshold failures were recorded with no success since, no call is let
\* through before Recovery has passed since the latest failure.
THEOREM BreakerTheorem ==
  ASSUME BreakerConstants
  PROVE  Breaker!Spec => BreakerLeftAlone
<1>1. Breaker!Init => BreakerInv
  <2>1. Cardinality(Calls) \in Nat /\ Cardinality({}) = 0
    BY FS_CardinalityType, FS_EmptySet DEF BreakerConstants
  <2>2. Breaker!Init => Ended = {}
    BY DEF Breaker!Init, Ended
  <2> QED
    BY <2>1, <2>2, BreakerCardinality
       DEF BreakerConstants, BreakerInv, Breaker!Init, Breaker!TypeOK
<1>2. BreakerInv /\ [Breaker!Next]_Breaker!vars => BreakerInv'
  BY BreakerNext
<1>3. BreakerInv /\ [Breaker!Next]_Breaker!vars =>
        [Breaker!TypeOK /\ Breaker!EntersInTime]_Breaker!vars
  BY EntersInTimeHolds DEF BreakerInv
<1> QED
  BY <1>1, <1>2, <1>3, PTL DEF Breaker!Spec, BreakerLeftAlone, Breaker!BreakerLeftAlone

-----------------------------------------------------------------------------
(***************************************************************************)
(* The LLM call.  While a request is out the totals hold every answer      *)
(* received so far; when an answer has come it is the one still missing.   *)
(***************************************************************************)

LlmConstants ==
  /\ Context \in Nat /\ Buffer \in Nat /\ Ceiling \in Nat /\ InputCap \in Nat
  /\ OutputCaps \subseteq Nat /\ Systems \subseteq Nat /\ Prompts \subseteq Nat /\ Wanted \subseteq Nat
  /\ Attempts \in Nat \ {0} /\ ToolRounds \in Nat

LlmInv ==
  /\ Llm!TypeOK /\ Llm!RequestFits
  /\ pc = "request" => answers = usage
  /\ pc = "answered" => answers = usage + 1
  /\ pc = "returned" => tracked = answers

\* The first max_tokens is a number, and fits where the prompt leaves room.
LEMMA FirstBudgetFits ==
  ASSUME LlmConstants, NEW w \in Nat, NEW cap \in Nat, NEW input \in Nat
  PROVE  /\ Llm!FirstBudget(w, cap, input) \in Nat
         /\ Llm!MaxAllowedOutput(input) > 0 =>
              input + Llm!FirstBudget(w, cap, input) + Buffer <= Context
BY DEF LlmConstants, Llm!FirstBudget, Llm!MaxAllowedOutput, Llm!LiftToCeiling,
       Llm!Smaller, Llm!Larger

\* So does the doubled one of a retry.
LEMMA RetryBudgetFits ==
  ASSUME LlmConstants, NEW m \in Nat, NEW input \in Nat
  PROVE  /\ Llm!Smaller(m * 2, Llm!RetryCeiling(input)) \in Nat
         /\ Llm!MaxAllowedOutput(input) > 0 =>
              input + Llm!Smaller(m * 2, Llm!RetryCeiling(input)) + Buffer
                <= Context
BY DEF LlmConstants, Llm!RetryCeiling, Llm!MaxAllowedOutput, Llm!Smaller

LEMMA LlmInit == ASSUME LlmConstants, Llm!Init PROVE LlmInv
<1>1. PICK s \in Systems, p \in Prompts :
        args \in [tools : BOOLEAN, cap : OutputCaps,
                  input : Llm!InputTokens(s, p), wanted : Wanted]
  BY DEF Llm!Init
<1>2. Llm!InputTokens(s, p) \subseteq Nat
  BY DEF LlmConstants, Llm!InputTokens, Llm!Smaller, Llm!Larger
<1>3. /\ args \in [tools : BOOLEAN, cap : OutputCaps, input : Nat, wanted : Wanted]
      /\ args.wanted \in Nat /\ args.cap \in Nat /\ args.input \in Nat
  BY <1>1, <1>2 DEF LlmConstants
<1>4. /\ budget \in Nat
      /\ Llm!MaxAllowedOutput(args.input) > 0 =>
           args.input + budget + Buffer <= Context
  BY <1>3, FirstBudgetFits DEF Llm!Init, Llm!MaxTokens
<1> QED
  BY <1>3, <1>4
     DEF Llm!Init, LlmConstants, LlmInv, Llm!TypeOK, Llm!RequestFits

LEMMA LlmNext ==
  ASSUME LlmConstants, LlmInv, [Llm!Next]_Llm!vars
  PROVE  LlmInv'
<1>1. /\ budget \in Nat /\ grown \in Nat /\ usage \in Nat /\ answers \in Nat
      /\ args.wanted \in Nat /\ args.cap \in Nat /\ args.input \in Nat
  BY DEF LlmConstants, LlmInv, Llm!TypeOK
<1>2. CASE UNCHANGED <<args, budget>>
  <2>1. Llm!RequestFits'
    BY <1>2 DEF LlmInv, Llm!RequestFits, Llm!MaxAllowedOutput
  <2>2. CASE Llm!Answered
    BY <1>1, <2>1, <2>2 DEF LlmInv, Llm!TypeOK, Llm!Answered
  <2>3. CASE Llm!Retry
    BY <1>1, <2>1, <2>3 DEF LlmConstants, LlmInv, Llm!TypeOK, Llm!Retry
  <2>4. CASE Llm!GiveUp
    BY <1>1, <2>1, <2>4 DEF LlmInv, Llm!TypeOK, Llm!GiveUp
  <2>5. CASE Llm!ToolRound
    BY <1>1, <2>1, <2>5 DEF LlmConstants, LlmInv, Llm!TypeOK, Llm!ToolRound
  <2>6. CASE Llm!Return
    BY <1>1, <2>1, <2>6 DEF LlmInv, Llm!TypeOK, Llm!Return
  <2>7. CASE UNCHANGED Llm!vars
    BY <1>1, <2>1, <2>7 DEF LlmInv, Llm!TypeOK, Llm!vars
  <2>8. CASE Llm!Truncated /\ UNCHANGED budget
    BY <1>1, <2>1, <2>8 DEF LlmConstants, LlmInv, Llm!TypeOK, Llm!Truncated
  <2> QED
    BY <1>2, <2>2, <2>3, <2>4, <2>5, <2>6, <2>7, <2>8 DEF Llm!Next
<1>3. CASE Llm!Truncated
  <2>1. Llm!MaxTokens \in Nat
    BY <1>1, FirstBudgetFits DEF Llm!MaxTokens
  <2>2. /\ budget' \in Nat /\ args' = args
        /\ Llm!MaxAllowedOutput(args.input) > 0 =>
             args.input + budget' + Buffer <= Context
    BY <1>1, <1>3, <2>1, RetryBudgetFits DEF Llm!Truncated
  <2>3. Llm!RequestFits'
    BY <2>2 DEF Llm!RequestFits, Llm!MaxAllowedOutput
  <2> QED
    BY <1>1, <1>3, <2>2, <2>3
       DEF LlmConstants, LlmInv, Llm!TypeOK, Llm!Truncated
<1> QED
  BY <1>2, <1>3 DEF Llm!Next, Llm!Answered, Llm!Retry, Llm!GiveUp,
                    Llm!ToolRound, Llm!Return, Llm!vars

\* For every window, cap, ceiling, prompt and number of attempts and rounds of
\* tools: a call that returns has tracked every answer it received, and where
\* the prompt leaves room each request of a call without tools fits the context.
THEOREM LlmTheorem ==
  ASSUME LlmConstants
  PROVE  Llm!Spec => []LlmSound
<1>1. Llm!Init => LlmInv
  BY LlmInit
<1>2. LlmInv /\ [Llm!Next]_Llm!vars => LlmInv'
  BY LlmNext
<1>3. LlmInv => LlmSound
  BY DEF LlmInv, LlmSound, Llm!LlmSound, Llm!TrackedInFull
<1> QED
  BY <1>1, <1>2, <1>3, PTL DEF Llm!Spec
-----------------------------------------------------------------------------
(***************************************************************************)
(* The slots.  The counter is at most the number of slots granted, and not *)
(* given back, since its key got its expiry; a key that still lives got it *)
(* less than SlotTTL ago.  A run has one slot at most, so that giving it   *)
(* back takes one grant away.                                              *)
(***************************************************************************)

SlotsConstants ==
  /\ MaxConcurrent \in Nat /\ Timeout \in Nat /\ SlotTTL \in Nat /\ Limit \in Nat
  /\ MaxTime \in Nat /\ MaxFaults \in Nat /\ MaxDeaths \in Nat /\ MaxPauses \in Nat
  /\ Runs \cap Int = {}    \* a run is not the number of a death

LEMMA SlotsCardinality == \A S : Slots!Cardinality(S) = Cardinality(S)
BY DEF Slots!Cardinality, Cardinality

\* The grants since the key got its expiry.
Since(G, until) == {g \in G : g[2] >= until - SlotTTL}

Granted ==
  /\ IsFiniteSet(grants)
  /\ \A g, h \in grants : g[1] = h[1] => g = h
  /\ \A g \in grants : g[1] \in Runs => run[g[1]].pc # "queued"
  /\ \A g \in grants : g[1] \notin Runs => g[1] <= deaths

Counted ==
  /\ key.until <= now + SlotTTL
  /\ key.n <= Cardinality(Since(grants, key.until))

SlotsInv == Slots!TypeOK /\ Slots!BudgetHolds /\ Granted /\ Counted

LEMMA SinceFinite ==
  ASSUME NEW G, IsFiniteSet(G), NEW u
  PROVE  IsFiniteSet(Since(G, u)) /\ Cardinality(Since(G, u)) \in Nat
<1>1. Since(G, u) \subseteq G
  BY DEF Since
<1> QED
  BY <1>1, FS_Subset, FS_CardinalityType

\* What the scripts leave in the key.
LEMMA LiveKey ==
  ASSUME SlotsConstants, SlotsInv
  PROVE  /\ Slots!Live \in [n : 0..MaxConcurrent, until : 0..Slots!NoTTL]
         /\ Slots!Live.n > 0 => Slots!Live = key /\ now < key.until
         /\ key.n \in 0..MaxConcurrent /\ key.until \in Nat /\ now \in 0..MaxTime
         /\ now + SlotTTL \in 0..Slots!NoTTL
BY DEF SlotsConstants, SlotsInv, Slots!TypeOK, Slots!Live, Slots!NoTTL

\* A key without holders promises nothing.
LEMMA EmptyKeyCounted ==
  ASSUME SlotsConstants, SlotsInv, IsFiniteSet(grants'), now' = now,
         key'.n = 0, key'.until <= now + SlotTTL
  PROVE  Counted'
<1>1. Cardinality(Since(grants', key'.until)) \in Nat
  BY SinceFinite
<1> QED
  BY <1>1 DEF Counted

\* Acquire adds a grant.
LEMMA AcquireCounted ==
  ASSUME SlotsConstants, SlotsInv, NEW e \in Runs, Slots!Acquire(e)
  PROVE  Granted' /\ Counted'
<1> DEFINE g0 == <<e, now>>
<1>1. /\ grants' = grants \cup {g0} /\ g0 \notin grants /\ now' = now
      /\ deaths' = deaths /\ key' = Slots!Incremented
      /\ g0[1] = e /\ g0[2] = now
  BY DEF Slots!Acquire, SlotsInv, Granted
<1> HIDE DEF g0
<1>2. IsFiniteSet(grants')
  BY <1>1, FS_AddElement DEF SlotsInv, Granted
<1>3. Granted'
  <2>1. \A g \in grants : g[1] # e
    BY DEF SlotsInv, Granted, Slots!Acquire
  <2>2. \A d \in Runs : run'[d].pc = IF d = e THEN "running" ELSE run[d].pc
    BY DEF Slots!Acquire, Slots!Begin, SlotsInv, Slots!TypeOK
  <2>3. \A g, h \in grants' : g[1] = h[1] => g = h
    BY <1>1, <2>1 DEF SlotsInv, Granted
  <2>4. \A g \in grants' : g[1] \in Runs => run'[g[1]].pc # "queued"
    BY <1>1, <2>2 DEF SlotsInv, Granted
  <2>5. \A g \in grants' : g[1] \notin Runs => g[1] <= deaths'
    BY <1>1 DEF SlotsInv, Granted
  <2> QED
    BY <1>2, <2>3, <2>4, <2>5 DEF Granted
<1>4. Counted'
  <2> DEFINE S == Since(grants, key.until)
             T == Since(grants', key'.until)
  <2>1. IsFiniteSet(S) /\ IsFiniteSet(T) /\ Cardinality(S) \in Nat
        /\ Cardinality(T) \in Nat
    BY <1>2, SinceFinite DEF SlotsInv, Granted
  <2>2. CASE Slots!Live.n = 0
    <3>1. key'.n = 1 /\ key'.until = now + SlotTTL
      BY <1>1, <2>2 DEF Slots!Incremented
    <3>2. g0 \in T
      BY <1>1, <3>1, LiveKey DEF Since, SlotsConstants
    <3>3. {g0} \subseteq T /\ Cardinality({g0}) = 1
      BY <3>2, FS_Singleton
    <3>4. 1 <= Cardinality(T)
      BY <2>1, <3>3, FS_Subset
    <3> QED
      BY <1>1, <3>1, <3>4, LiveKey DEF Counted, SlotsConstants
  <2>3. CASE Slots!Live.n # 0
    <3>1. Slots!Live = key /\ now < key.until /\ key.n \in Nat /\ now \in Nat
      BY <2>3, LiveKey
    <3>2. key'.n = key.n + 1 /\ key'.until = key.until
      BY <1>1, <2>3, <3>1 DEF Slots!Incremented
    <3>3. T = S \cup {g0} /\ g0 \notin S
      BY <1>1, <3>1, <3>2, LiveKey DEF Since, SlotsInv, Counted, SlotsConstants
    <3>4. Cardinality(T) = Cardinality(S) + 1
      BY <2>1, <3>3, FS_AddElement
    <3> HIDE DEF S, T
    <3>5. key.n <= Cardinality(S)
      BY DEF SlotsInv, Counted, S
    <3>6. key'.n <= Cardinality(T)
      BY <2>1, <3>1, <3>2, <3>4, <3>5
    <3> QED
      BY <1>1, <3>2, <3>6 DEF Counted, SlotsInv, T
  <2> QED
    BY <2>2, <2>3
<1> QED
  BY <1>3, <1>4

\* A slot is given back: one grant at most goes, and the counter by one.
LEMMA GiveBackCounted ==
  ASSUME SlotsConstants, SlotsInv, NEW e \in Runs, NEW next \in {"done", "paused"},
         Slots!GiveBack(e, next), UNCHANGED <<now, deaths>>
  PROVE  Granted' /\ Counted'
<1>1. \A d \in Runs : run'[d].pc = IF d = e THEN next ELSE run[d].pc
  BY DEF Slots!GiveBack, SlotsInv, Slots!TypeOK
<1>2. grants' \subseteq grants
  BY DEF Slots!GiveBack
<1>3. IsFiniteSet(grants')
  BY <1>2, FS_Subset DEF SlotsInv, Granted
<1>4. Granted'
  BY <1>1, <1>2, <1>3 DEF SlotsInv, Granted
<1>5. CASE UNCHANGED <<key, grants>>
  BY <1>4, <1>5 DEF SlotsInv, Counted
<1>6. CASE key' = Slots!Decremented /\ grants' = {g \in grants : g[1] # e}
  <2>1. CASE Slots!Live.n = 0
    <3>1. key'.n = 0 /\ key'.until = now + SlotTTL
      BY <1>6, <2>1 DEF Slots!Decremented
    <3> QED
      BY <1>3, <1>4, <3>1, EmptyKeyCounted, LiveKey DEF SlotsConstants
  <2>2. CASE Slots!Live.n # 0
    <3> DEFINE S == Since(grants, key.until)
               T == Since(grants', key'.until)
    <3>1. IsFiniteSet(S) /\ IsFiniteSet(T) /\ Cardinality(S) \in Nat
          /\ Cardinality(T) \in Nat
      BY <1>3, SinceFinite DEF SlotsInv, Granted
    <3>2. Slots!Live = key /\ key.n \in Nat /\ key.n # 0
      BY <2>2, LiveKey
    <3>3. key'.n = key.n - 1 /\ key'.until = key.until
      BY <1>6, <2>2, <3>2 DEF Slots!Decremented, SlotsInv, Slots!TypeOK
    <3>4. Cardinality(S) <= Cardinality(T) + 1
      <4>1. CASE \E g \in grants : g[1] = e
        <5>1. PICK g \in grants : g[1] = e
          BY <4>1
        <5>2. T = S \ {g}
          BY <1>6, <3>3, <5>1 DEF Since, SlotsInv, Granted
        <5> QED
          BY <3>1, <5>2, FS_RemoveElement
      <4>2. CASE ~ \E g \in grants : g[1] = e
        <5>1. T = S
          BY <1>6, <3>3, <4>2 DEF Since
        <5> QED
          BY <3>1, <5>1
      <4> QED
        BY <4>1, <4>2
    <3> HIDE DEF S, T
    <3>5. key.n <= Cardinality(S)
      BY DEF SlotsInv, Counted, S
    <3>6. key'.n <= Cardinality(T)
      BY <3>1, <3>2, <3>3, <3>4, <3>5
    <3> QED
      BY <1>4, <3>3, <3>6 DEF Counted, SlotsInv, T
  <2> QED
    BY <2>1, <2>2
<1> QED
  BY <1>5, <1>6 DEF Slots!GiveBack

\* A death takes the grant over; the number of grants stays.
LEMMA DieCounted ==
  ASSUME SlotsConstants, SlotsInv, NEW e \in Runs, Slots!Die(e)
  PROVE  Granted' /\ Counted'
<1>1. /\ deaths \in Nat /\ deaths' = deaths + 1 /\ UNCHANGED <<now, key>>
      /\ grants' = {IF g[1] = e THEN <<deaths', g[2]>> ELSE g : g \in grants}
      /\ deaths' \notin Runs
  BY DEF Slots!Die, SlotsConstants, SlotsInv, Slots!TypeOK
<1>2. \A d \in Runs : d # e => run'[d].pc = run[d].pc
  BY DEF Slots!Die, SlotsInv, Slots!TypeOK
<1>3. \A g \in grants : g[1] # deaths'
  <2> SUFFICES ASSUME NEW g \in grants, g[1] = deaths' PROVE FALSE
    OBVIOUS
  <2>1. deaths' <= deaths
    BY <1>1 DEF SlotsInv, Granted
  <2> QED
    BY <1>1, <2>1
<1>4. CASE \A g \in grants : g[1] # e
  <2>1. grants' = grants
    BY <1>1, <1>4
  <2>2. Counted'
    BY <1>1, <2>1 DEF SlotsInv, Counted
  <2>3. \A g \in grants : g[1] \in Runs => run'[g[1]].pc # "queued"
    BY <1>2, <1>4 DEF SlotsInv, Granted
  <2>4. \A g \in grants : g[1] \notin Runs => g[1] <= deaths'
    <3> SUFFICES ASSUME NEW g \in grants, g[1] \notin Runs PROVE g[1] <= deaths'
      OBVIOUS
    <3>1. g[1] \in Int /\ g[1] <= deaths
      BY DEF SlotsInv, Granted, Slots!TypeOK
    <3> QED
      BY <1>1, <3>1
  <2> QED
    BY <2>1, <2>2, <2>3, <2>4 DEF SlotsInv, Granted
<1>5. CASE \E g \in grants : g[1] = e
  <2>1. PICK g0 \in grants : g0[1] = e
    BY <1>5
  <2> DEFINE h0 == <<deaths', g0[2]>>
  <2>2. h0[1] = deaths' /\ h0[2] = g0[2] /\ h0 \notin grants
    BY <1>3
  <2>3. \A g \in grants : g[1] = e => g = g0
    BY <2>1 DEF SlotsInv, Granted
  <2>4. grants' = (grants \ {g0}) \cup {h0}
    BY <1>1, <2>1, <2>3
  <2> HIDE DEF h0
  <2>5. IsFiniteSet(grants \ {g0})
    BY FS_RemoveElement DEF SlotsInv, Granted
  <2>6. IsFiniteSet(grants')
    BY <2>4, <2>5, FS_AddElement
  <2>7. \A g, h \in grants' : g[1] = h[1] => g = h
    BY <1>3, <2>2, <2>4 DEF SlotsInv, Granted
  <2>8. \A g \in grants' : g[1] \in Runs => run'[g[1]].pc # "queued"
    BY <1>1, <1>2, <2>2, <2>3, <2>4 DEF SlotsInv, Granted
  <2>9. \A g \in grants' : g[1] \notin Runs => g[1] <= deaths'
    <3> SUFFICES ASSUME NEW g \in grants \ {g0}, g[1] \notin Runs
                 PROVE  g[1] <= deaths'
      BY <1>1, <2>2, <2>4
    <3>1. g[1] \in Int /\ g[1] <= deaths
      BY DEF SlotsInv, Granted, Slots!TypeOK
    <3> QED
      BY <1>1, <3>1
  <2>10. Counted'
    <3> DEFINE S == Since(grants, key.until)
               T == Since(grants', key.until)
    <3>1. IsFiniteSet(S) /\ Cardinality(S) \in Nat
      BY SinceFinite DEF SlotsInv, Granted
    <3>2. CASE g0 \in S
      <4>1. T = (S \ {g0}) \cup {h0} /\ h0 \notin S \ {g0}
        BY <2>2, <2>4, <3>2 DEF Since
      <4>2. IsFiniteSet(S \ {g0}) /\ Cardinality(S \ {g0}) = Cardinality(S) - 1
        BY <3>1, <3>2, FS_RemoveElement
      <4>3. Cardinality(T) = Cardinality(S \ {g0}) + 1
        BY <4>1, <4>2, FS_AddElement
      <4>4. Cardinality(T) = Cardinality(S)
        BY <3>1, <4>2, <4>3
      <4> QED
        BY <1>1, <4>4 DEF Counted, SlotsInv
    <3>3. CASE g0 \notin S
      <4>1. T = S
        BY <2>2, <2>4, <3>3 DEF Since
      <4> QED
        BY <1>1, <4>1 DEF Counted, SlotsInv
    <3> QED
      BY <3>2, <3>3
  <2> QED
    BY <2>6, <2>7, <2>8, <2>9, <2>10 DEF Granted
<1> QED
  BY <1>4, <1>5
\* The other steps of a run leave the grants alone, and no run waits for a
\* slot that has one.
LEMMA OthersCounted ==
  ASSUME SlotsInv, UNCHANGED <<now, key, grants, deaths>>,
         \A d \in Runs : run'[d].pc = "queued" => run[d].pc = "queued"
  PROVE  Granted' /\ Counted'
<1>1. Counted'
  BY DEF SlotsInv, Counted
<1> QED
  BY <1>1 DEF SlotsInv, Granted

RunRecord ==
  [pc : {"queued", "running", "releasing", "paused", "done"},
   began : 0..MaxTime, calls : 0..(Limit + 1), slot : BOOLEAN]

\* One run moves on: types and budget need only its new record.
LEMMA OneRun ==
  ASSUME SlotsConstants, SlotsInv, NEW e \in Runs, NEW v \in RunRecord,
         run' = [run EXCEPT ![e] = v], v.pc = "running" => v.calls <= Limit
  PROVE  /\ run' \in [Runs -> RunRecord] /\ Slots!BudgetHolds'
         /\ run'[e] = v /\ \A d \in Runs \ {e} : run'[d] = run[d]
<1>1. run \in [Runs -> RunRecord]
  BY DEF SlotsInv, Slots!TypeOK, RunRecord
<1>2. run' \in [Runs -> RunRecord]
  BY <1>1
<1>3. \A d \in Runs : run'[d] = IF d = e THEN v ELSE run[d]
  BY <1>1
<1>4. Slots!BudgetHolds'
  BY <1>3 DEF SlotsInv, Slots!BudgetHolds, Slots!Running
<1> QED
  BY <1>2, <1>3, <1>4

\* The four ways in which the record of a run changes.
LEMMA RunRecords ==
  ASSUME SlotsConstants, SlotsInv, NEW e \in Runs
  PROVE  /\ run[e] \in RunRecord
         /\ \A p \in {"releasing", "paused", "done"} :
              /\ [run[e] EXCEPT !.pc = p] \in RunRecord
              /\ [run[e] EXCEPT !.pc = p].pc = p
              /\ [run EXCEPT ![e].pc = p] =
                   [run EXCEPT ![e] = [run[e] EXCEPT !.pc = p]]
         /\ Slots!Idle \in RunRecord /\ Slots!Idle.pc = "queued"
<1>1. run \in [Runs -> RunRecord] /\ now \in 0..MaxTime
  BY DEF SlotsInv, Slots!TypeOK, RunRecord
<1>2. run[e] \in RunRecord
  BY <1>1
<1> QED
  BY <1>1, <1>2 DEF RunRecord, Slots!Idle, SlotsConstants

Begun(s) == [pc |-> "running", began |-> now, calls |-> 0, slot |-> s]

LEMMA BegunRecord ==
  ASSUME SlotsConstants, SlotsInv, NEW s \in BOOLEAN
  PROVE  Begun(s) \in RunRecord /\ Begun(s).pc = "running" /\ Begun(s).calls <= Limit
BY DEF SlotsConstants, SlotsInv, Slots!TypeOK, RunRecord, Begun

LEMMA SlotsTypes ==
  ASSUME run' \in [Runs -> RunRecord], now' \in 0..MaxTime,
         key' \in [n : 0..MaxConcurrent, until : 0..Slots!NoTTL],
         grants' \subseteq (Runs \cup 1..MaxDeaths) \X (0..MaxTime),
         faults' \in 0..MaxFaults, deaths' \in 0..MaxDeaths,
         pauses' \in 0..MaxPauses
  PROVE  Slots!TypeOK'
BY DEF Slots!TypeOK, RunRecord, Slots!NoTTL

\* The parts of TypeOK, and what the scripts leave in the key.
LEMMA SlotsUntyped ==
  ASSUME SlotsConstants, SlotsInv
  PROVE  /\ now \in 0..MaxTime /\ faults \in 0..MaxFaults
         /\ deaths \in 0..MaxDeaths /\ pauses \in 0..MaxPauses
         /\ key \in [n : 0..MaxConcurrent, until : 0..Slots!NoTTL]
         /\ grants \subseteq (Runs \cup 1..MaxDeaths) \X (0..MaxTime)
         /\ Slots!Decremented \in [n : 0..MaxConcurrent, until : 0..Slots!NoTTL]
         /\ Slots!Incremented.n <= MaxConcurrent =>
              Slots!Incremented \in [n : 0..MaxConcurrent, until : 0..Slots!NoTTL]
<1>1. /\ now \in 0..MaxTime /\ faults \in 0..MaxFaults
      /\ deaths \in 0..MaxDeaths /\ pauses \in 0..MaxPauses
      /\ key \in [n : 0..MaxConcurrent, until : 0..Slots!NoTTL]
      /\ grants \subseteq (Runs \cup 1..MaxDeaths) \X (0..MaxTime)
  BY DEF SlotsInv, Slots!TypeOK
<1>2. PICK n \in 0..MaxConcurrent, u \in 0..Slots!NoTTL :
        Slots!Live = [n |-> n, until |-> u]
  BY LiveKey
<1>3. now + SlotTTL \in 0..Slots!NoTTL
  BY LiveKey
<1>4. Slots!Decremented \in [n : 0..MaxConcurrent, until : 0..Slots!NoTTL]
  BY <1>2, <1>3 DEF Slots!Decremented, SlotsConstants
<1>5. Slots!Incremented.n <= MaxConcurrent =>
        Slots!Incremented \in [n : 0..MaxConcurrent, until : 0..Slots!NoTTL]
  BY <1>2, <1>3 DEF Slots!Incremented, SlotsConstants
<1> QED
  BY <1>1, <1>4, <1>5

LEMMA GiveBackInv ==
  ASSUME SlotsConstants, SlotsInv, NEW e \in Runs, NEW next \in {"done", "paused"},
         Slots!GiveBack(e, next), UNCHANGED <<now, deaths>>,
         pauses' \in 0..MaxPauses
  PROVE  SlotsInv'
<1>1. run' = [run EXCEPT ![e] = [run[e] EXCEPT !.pc = next]]
  BY RunRecords DEF Slots!GiveBack
<1>2. run' \in [Runs -> RunRecord] /\ Slots!BudgetHolds'
  BY <1>1, OneRun, RunRecords
<1>3. /\ key' \in [n : 0..MaxConcurrent, until : 0..Slots!NoTTL]
      /\ grants' \subseteq (Runs \cup 1..MaxDeaths) \X (0..MaxTime)
      /\ faults' \in 0..MaxFaults
  BY SlotsUntyped DEF Slots!GiveBack, Slots!Fault, SlotsConstants
<1>4. Slots!TypeOK'
  BY <1>2, <1>3, SlotsTypes, SlotsUntyped
<1> QED
  BY <1>2, <1>4, GiveBackCounted DEF SlotsInv

LEMMA AcquireInv ==
  ASSUME SlotsConstants, SlotsInv, NEW e \in Runs, Slots!Acquire(e)
  PROVE  SlotsInv'
<1>1. run' \in [Runs -> RunRecord] /\ Slots!BudgetHolds'
  <2>1. run' = [run EXCEPT ![e] = Begun(TRUE)]
    BY DEF Slots!Acquire, Slots!Begin, Begun
  <2> QED
    BY <2>1, OneRun, BegunRecord
<1>2. grants' \subseteq (Runs \cup 1..MaxDeaths) \X (0..MaxTime)
  BY SlotsUntyped DEF Slots!Acquire
<1>3. Slots!TypeOK'
  BY <1>1, <1>2, SlotsTypes, SlotsUntyped DEF Slots!Acquire
<1> QED
  BY <1>1, <1>3, AcquireCounted DEF SlotsInv

LEMMA DieInv ==
  ASSUME SlotsConstants, SlotsInv, NEW e \in Runs, Slots!Die(e)
  PROVE  SlotsInv'
<1>1. run' \in [Runs -> RunRecord] /\ Slots!BudgetHolds'
  BY OneRun, RunRecords DEF Slots!Die
<1>2. deaths' \in 1..MaxDeaths
  BY SlotsUntyped DEF Slots!Die, SlotsConstants
<1>3. grants' \subseteq (Runs \cup 1..MaxDeaths) \X (0..MaxTime)
  <2> SUFFICES ASSUME NEW g \in grants
               PROVE  (IF g[1] = e THEN <<deaths', g[2]>> ELSE g)
                        \in (Runs \cup 1..MaxDeaths) \X (0..MaxTime)
    BY DEF Slots!Die
  <2>1. g \in (Runs \cup 1..MaxDeaths) \X (0..MaxTime)
    BY SlotsUntyped
  <2> QED
    BY <1>2, <2>1
<1>4. Slots!TypeOK'
  BY <1>1, <1>2, <1>3, SlotsTypes, SlotsUntyped DEF Slots!Die, SlotsConstants
<1> QED
  BY <1>1, <1>4, DieCounted DEF SlotsInv

\* A refusal leaves the counter as it found it.
LEMMA RefusedInv ==
  ASSUME SlotsConstants, SlotsInv, NEW e \in Runs, Slots!Refused(e)
  PROVE  SlotsInv'
<1>1. UNCHANGED <<now, run, grants, faults, deaths, pauses>>
  BY DEF Slots!Refused
<1>2. PICK n \in 0..MaxConcurrent, u \in 0..Slots!NoTTL :
        Slots!Live = [n |-> n, until |-> u]
  BY LiveKey
<1>3. key' = [n |-> n, until |-> IF n = 0 THEN now + SlotTTL ELSE u]
  BY <1>2 DEF Slots!Refused, Slots!Incremented, SlotsConstants
<1>4. now + SlotTTL \in 0..Slots!NoTTL /\ now \in Nat
  BY LiveKey
<1>5. key' \in [n : 0..MaxConcurrent, until : 0..Slots!NoTTL]
  BY <1>3, <1>4
<1>6. Slots!TypeOK' /\ Slots!BudgetHolds' /\ Granted'
  BY <1>1, <1>5 DEF SlotsInv, Slots!TypeOK, Slots!BudgetHolds, Slots!Running,
                    Slots!NoTTL, Granted
<1>7. Counted'
  <2>1. CASE n = 0
    BY <1>1, <1>3, <1>4, <2>1, EmptyKeyCounted DEF SlotsInv, Granted, SlotsConstants
  <2>2. CASE n # 0
    <3>1. Slots!Live.n > 0
      BY <1>2, <2>2 DEF SlotsConstants
    <3>2. key' = key
      BY <1>2, <1>3, <2>2, <3>1, LiveKey
    <3> QED
      BY <1>1, <3>2 DEF SlotsInv, Counted
  <2> QED
    BY <2>1, <2>2
<1> QED
  BY <1>6, <1>7 DEF SlotsInv

\* The steps that leave key and grants alone.
LEMMA LocalInv ==
  ASSUME SlotsConstants, SlotsInv, NEW e \in Runs,
         NEW v \in RunRecord, run' = [run EXCEPT ![e] = v],
         v.pc = "running" => v.calls <= Limit, v.pc # "queued",
         UNCHANGED <<now, key, grants, deaths, pauses>>, faults' \in 0..MaxFaults
  PROVE  SlotsInv'
<1>1. /\ run' \in [Runs -> RunRecord] /\ Slots!BudgetHolds'
      /\ run'[e] = v /\ \A d \in Runs \ {e} : run'[d] = run[d]
  BY OneRun
<1>2. Slots!TypeOK'
  BY <1>1, SlotsTypes, SlotsUntyped
<1>3. Granted' /\ Counted'
  BY <1>1, OthersCounted
<1> QED
  BY <1>1, <1>2, <1>3 DEF SlotsInv

LEMMA ChargeInv ==
  ASSUME SlotsConstants, SlotsInv, NEW e \in Runs, Slots!ChargeLlmCall(e)
  PROVE  SlotsInv'
<1>1. run \in [Runs -> RunRecord] /\ run[e].pc = "running"
  BY DEF SlotsInv, Slots!TypeOK, RunRecord, Slots!ChargeLlmCall
<1>2. CASE run[e].calls < Limit
  <2> DEFINE v == [run[e] EXCEPT !.calls = run[e].calls + 1]
  <2>1. run' = [run EXCEPT ![e] = v]
    BY <1>2 DEF Slots!ChargeLlmCall
  <2>2. v \in RunRecord /\ v.pc = "running" /\ v.calls <= Limit
    BY <1>1, <1>2 DEF RunRecord, SlotsConstants
  <2> HIDE DEF v
  <2> QED
    BY <2>1, <2>2, LocalInv, SlotsUntyped DEF Slots!ChargeLlmCall
<1>3. CASE ~(run[e].calls < Limit)
  BY <1>3, LocalInv, RunRecords, SlotsUntyped DEF Slots!ChargeLlmCall
<1> QED
  BY <1>2, <1>3

LEMMA SlotsNext ==
  ASSUME SlotsConstants, SlotsInv, [Slots!Next]_Slots!vars
  PROVE  SlotsInv'
<1>1. CASE Slots!Tick
  <2>1. now' \in 0..MaxTime /\ now' = now + 1 /\ now \in Nat
    BY <1>1, SlotsUntyped DEF Slots!Tick, SlotsConstants
  <2>2. UNCHANGED <<key, run, grants, faults, deaths, pauses>>
    BY <1>1 DEF Slots!Tick
  <2>3. Counted'
    BY <2>1, <2>2, LiveKey DEF SlotsInv, Counted, SlotsConstants
  <2> QED
    BY <2>1, <2>2, <2>3
       DEF SlotsInv, Slots!TypeOK, Slots!NoTTL, Slots!BudgetHolds,
           Slots!Running, Granted
<1>2. ASSUME NEW e \in Runs, Slots!AcquireBlind(e) \/ Slots!Resume(e)
      PROVE  SlotsInv'
  <2>1. PICK s \in BOOLEAN : Slots!Begin(e, s)
    BY <1>2 DEF Slots!AcquireBlind, Slots!Resume
  <2>2. faults' \in 0..MaxFaults
    <3>1. faults' = faults \/ (faults' = faults + 1 /\ faults < MaxFaults)
      BY <1>2 DEF Slots!AcquireBlind, Slots!Resume, Slots!Fault
    <3>2. faults \in 0..MaxFaults
      BY SlotsUntyped
    <3> QED
      BY <3>1, <3>2 DEF SlotsConstants
  <2>3. UNCHANGED <<now, key, grants, deaths, pauses>>
    BY <1>2 DEF Slots!AcquireBlind, Slots!Resume
  <2>4. run' = [run EXCEPT ![e] = Begun(s)]
    BY <2>1 DEF Slots!Begin, Begun
  <2> QED
    BY <2>2, <2>3, <2>4, BegunRecord, LocalInv
<1>3. ASSUME NEW e \in Runs, Slots!Finish(e) PROVE SlotsInv'
  <2>1. PICK p \in {"releasing", "done"} : run' = [run EXCEPT ![e].pc = p]
    BY <1>3 DEF Slots!Finish
  <2>2. UNCHANGED <<now, key, grants, faults, deaths, pauses>>
    BY <1>3 DEF Slots!Finish
  <2> QED
    BY <2>1, <2>2, LocalInv, RunRecords, SlotsUntyped
<1>4. ASSUME NEW e \in Runs, Slots!Release(e) PROVE SlotsInv'
  <2>1. CASE run[e].slot
    BY <1>4, <2>1, GiveBackInv, SlotsUntyped DEF Slots!Release
  <2>2. CASE ~run[e].slot
    BY <1>4, <2>2, LocalInv, RunRecords, SlotsUntyped DEF Slots!Release
  <2> QED
    BY <2>1, <2>2
<1>5. ASSUME NEW e \in Runs, Slots!Pause(e) PROVE SlotsInv'
  <2>1. pauses' \in 0..MaxPauses
    BY <1>5, SlotsUntyped DEF Slots!Pause, SlotsConstants
  <2> QED
    BY <1>5, <2>1, GiveBackInv DEF Slots!Pause
<1>6. CASE UNCHANGED Slots!vars
  BY <1>6 DEF Slots!vars, SlotsInv, Slots!TypeOK, Slots!NoTTL,
              Slots!BudgetHolds, Slots!Running, Granted, Counted
<1> QED
  BY <1>1, <1>2, <1>3, <1>4, <1>5, <1>6, AcquireInv, RefusedInv, ChargeInv,
     DieInv DEF Slots!Next

\* A full counter is a live one, and what it counts is recent.
LEMMA SlotsJustified ==
  ASSUME SlotsConstants, SlotsInv
  PROVE  Slots!RefusalJustified
<1> SUFFICES ASSUME Slots!Live.n >= MaxConcurrent
             PROVE  Cardinality({g \in grants : now - g[2] < SlotTTL})
                      >= MaxConcurrent
  BY SlotsCardinality DEF Slots!RefusalJustified
<1> DEFINE S == Since(grants, key.until)
           R == {g \in grants : now - g[2] < SlotTTL}
<1>1. IsFiniteSet(R) /\ Cardinality(R) \in Nat
  <2>1. R \subseteq grants
    OBVIOUS
  <2> QED
    BY <2>1, FS_Subset, FS_CardinalityType DEF SlotsInv, Granted
<1>2. CASE MaxConcurrent = 0
  BY <1>1, <1>2
<1>3. CASE MaxConcurrent # 0
  <2>1. Slots!Live.n > 0
    BY <1>3, LiveKey DEF SlotsConstants
  <2>2. Slots!Live = key /\ now < key.until /\ now \in Nat /\ key.until \in Nat
        /\ key.n \in Nat
    BY <2>1, LiveKey
  <2>3. \A g \in grants : g[2] \in Nat
    BY SlotsUntyped
  <2>4. S \subseteq R
    BY <2>2, <2>3 DEF Since, SlotsConstants
  <2>5. Cardinality(S) <= Cardinality(R)
    BY <1>1, <2>4, FS_Subset
  <2>6. key.n <= Cardinality(S) /\ Cardinality(S) \in Nat
    BY SinceFinite DEF SlotsInv, Counted, Granted
  <2> HIDE DEF S, R
  <2>7. key.n >= MaxConcurrent
    BY <2>2
  <2> QED
    BY <1>1, <2>2, <2>5, <2>6, <2>7 DEF SlotsConstants, R
<1> QED
  BY <1>2, <1>3

\* For any number of runs, slots, deaths, faults and pauses: a run is refused
\* only because of slots granted in the last SlotTTL, and no segment of a run
\* makes more LLM calls than its budget.
THEOREM SlotsTheorem ==
  ASSUME SlotsConstants
  PROVE  Slots!Spec => []SlotsSound
<1>1. Slots!Init => SlotsInv
  <2> SUFFICES ASSUME Slots!Init PROVE SlotsInv
    OBVIOUS
  <2>1. Slots!TypeOK /\ Slots!BudgetHolds
    BY DEF Slots!Init, Slots!TypeOK, Slots!BudgetHolds, Slots!Running,
           Slots!Idle, Slots!NoTTL, SlotsConstants
  <2>2. IsFiniteSet({}) /\ Cardinality({}) = 0
    BY FS_EmptySet
  <2>3. Since({}, 0) = {}
    BY DEF Since
  <2> QED
    BY <2>1, <2>2, <2>3
       DEF Slots!Init, SlotsInv, Granted, Counted, SlotsConstants
<1>2. SlotsInv /\ [Slots!Next]_Slots!vars => SlotsInv'
  BY SlotsNext
<1>3. SlotsInv => SlotsSound
  BY SlotsJustified DEF SlotsInv, SlotsSound, Slots!SlotsSound
<1> QED
  BY <1>1, <1>2, <1>3, PTL DEF Slots!Spec
-----------------------------------------------------------------------------
(***************************************************************************)
(* The rate limits.  All that matters of a key's past is the window it     *)
(* counts in, [until - Window, until), and the Window before that: in each *)
(* of the two at most the limit passed, and what passed in the last Window *)
(* lies in them.                                                           *)
(***************************************************************************)

LimiterConstants ==
  /\ "org" \notin Users /\ Window \in Nat \ {0}
  /\ UserLimit \in Nat /\ OrgLimit \in Nat /\ MaxTime \in Nat /\ MaxCalls \in Nat

LEMMA LimiterCardinality == \A S : Limiter!Cardinality(S) = Cardinality(S)
BY DEF Limiter!Cardinality, Cardinality

LimitOf(k) == IF k = "org" THEN OrgLimit ELSE UserLimit

Counts(c, k) == k = "org" \/ c[1] = k

\* The calls of P that a key counts, from lo on and before hi.
Part(P, k, lo, hi) == {c \in P : Counts(c, k) /\ lo <= c[2] /\ c[2] < hi}

\* A history of calls up to tm: a finite set, with natural times.
History(P, tm) == IsFiniteSet(P) /\ \A c \in P : c[2] \in Nat /\ c[2] <= tm

WindowInv(P, k, r, tm) ==
  /\ r.until <= tm + Window
  /\ \A c \in P : Counts(c, k) => c[2] < r.until
  /\ Cardinality(Part(P, k, r.until - Window, r.until)) <= LimitOf(k)
  /\ Cardinality(Part(P, k, r.until - Window, r.until)) <= r.n
  /\ Cardinality(Part(P, k, r.until - 2 * Window, r.until - Window)) <= LimitOf(k)

PastInv(P, k, tm) ==
  \A t \in 0..tm : Cardinality(Part(P, k, t - Window + 1, t + 1)) <= 2 * LimitOf(k)

\* The organisation's counter, up to its limit, is the number that passed.
OrgInv(P, r) ==
  \/ r.n <= Cardinality(Part(P, "org", r.until - Window, r.until))
  \/ OrgLimit <= Cardinality(Part(P, "org", r.until - Window, r.until))

\* _RATE_LIMIT_LUA on one key.
Bumped(r, tm) == IF tm >= r.until THEN [n |-> 1, until |-> tm + Window]
                 ELSE [n |-> r.n + 1, until |-> r.until]

LimiterInv ==
  /\ Limiter!TypeOK
  /\ History(passed, time) /\ \A c \in passed : c[3] <= made
  /\ \A k \in Limiter!Keys :
       /\ counter[k].n <= made
       /\ WindowInv(passed, k, counter[k], time) /\ PastInv(passed, k, time)
  /\ OrgInv(passed, counter["org"])

-----------------------------------------------------------------------------

LEMMA PartFinite ==
  ASSUME NEW P, IsFiniteSet(P), NEW k, NEW lo, NEW hi
  PROVE  /\ IsFiniteSet(Part(P, k, lo, hi))
         /\ Cardinality(Part(P, k, lo, hi)) \in Nat
<1>1. Part(P, k, lo, hi) \subseteq P
  BY DEF Part
<1> QED
  BY <1>1, FS_Subset, FS_CardinalityType

LEMMA LimitType == ASSUME LimiterConstants, NEW k PROVE LimitOf(k) \in Nat
BY DEF LimiterConstants, LimitOf

\* What passed in the last Window passed in the key's two windows.
LEMMA TwoWindows ==
  ASSUME LimiterConstants, NEW tm \in Nat, NEW P, History(P, tm), NEW k,
         NEW r, r.until \in Nat, WindowInv(P, k, r, tm)
  PROVE  Cardinality(Part(P, k, tm - Window + 1, tm + 1)) <= 2 * LimitOf(k)
<1> DEFINE A == Part(P, k, r.until - 2 * Window, r.until - Window)
           B == Part(P, k, r.until - Window, r.until)
           C == Part(P, k, tm - Window + 1, tm + 1)
<1>1. /\ IsFiniteSet(A) /\ IsFiniteSet(B) /\ IsFiniteSet(C)
      /\ Cardinality(A) \in Nat /\ Cardinality(B) \in Nat /\ Cardinality(C) \in Nat
  BY PartFinite DEF History
<1>2. C \subseteq A \cup B
  <2> SUFFICES ASSUME NEW c \in C PROVE c \in A \cup B
    OBVIOUS
  <2>1. c \in P /\ Counts(c, k) /\ c[2] \in Nat /\ tm - Window + 1 <= c[2]
        /\ c[2] < r.until /\ r.until <= tm + Window
    BY DEF Part, History, WindowInv
  <2>2. r.until - 2 * Window <= c[2]
    BY <2>1 DEF LimiterConstants
  <2> QED
    BY <2>1, <2>2 DEF Part, LimiterConstants
<1>3. IsFiniteSet(A \cup B)
      /\ Cardinality(A \cup B) <= Cardinality(A) + Cardinality(B)
  <2>1. A \cap B = {}
    BY DEF Part, History, LimiterConstants
  <2>2. Cardinality(A \cap B) = 0
    BY <2>1, FS_EmptySet
  <2> HIDE DEF A, B
  <2>3. /\ IsFiniteSet(A \cup B)
        /\ Cardinality(A \cup B)
             = Cardinality(A) + Cardinality(B) - Cardinality(A \cap B)
    BY <1>1, FS_Union
  <2> QED
    BY <1>1, <2>2, <2>3
<1>4. Cardinality(C) <= Cardinality(A \cup B)
  BY <1>2, <1>3, FS_Subset
<1>5. Cardinality(A) <= LimitOf(k) /\ Cardinality(B) <= LimitOf(k)
  BY DEF WindowInv
<1>6. Cardinality(A \cup B) \in Nat /\ LimitOf(k) \in Nat
  BY <1>3, FS_CardinalityType, LimitType
<1> HIDE DEF A, B, C
<1> QED
  BY <1>1, <1>3, <1>4, <1>5, <1>6 DEF C

\* The clock moves on.
LEMMA TickWindow ==
  ASSUME LimiterConstants, NEW tm \in Nat, NEW P, History(P, tm), NEW k,
         NEW r, r.until \in Nat, WindowInv(P, k, r, tm), PastInv(P, k, tm)
  PROVE  History(P, tm + 1) /\ WindowInv(P, k, r, tm + 1) /\ PastInv(P, k, tm + 1)
<1>1. History(P, tm + 1)
  BY DEF History
<1>2. WindowInv(P, k, r, tm + 1)
  BY DEF WindowInv, LimiterConstants
<1>3. Cardinality(Part(P, k, (tm + 1) - Window + 1, (tm + 1) + 1)) <= 2 * LimitOf(k)
  BY <1>1, <1>2, TwoWindows
<1>4. \A t \in 0..(tm + 1) : t \in 0..tm \/ t = tm + 1
  OBVIOUS
<1> QED
  BY <1>1, <1>2, <1>3, <1>4 DEF PastInv

\* A call is counted and does not pass, at this key or at the next.
LEMMA BumpWindow ==
  ASSUME LimiterConstants, NEW tm \in Nat, NEW P, History(P, tm), NEW k,
         NEW r, r.until \in Nat, r.n \in Nat, WindowInv(P, k, r, tm)
  PROVE  /\ WindowInv(P, k, Bumped(r, tm), tm)
         /\ tm >= r.until =>
              /\ Part(P, k, tm, tm + Window) = {}
              /\ Cardinality(Part(P, k, tm - Window, tm)) <= LimitOf(k)
<1>1. CASE tm >= r.until
  <2>1. Bumped(r, tm).n = 1 /\ Bumped(r, tm).until = tm + Window
    BY <1>1 DEF Bumped
  <2>2. Part(P, k, tm, tm + Window) = {}
    <3> SUFFICES ASSUME NEW c \in P, Counts(c, k), tm <= c[2] PROVE FALSE
      BY DEF Part
    <3>1. c[2] \in Nat /\ c[2] < r.until
      BY DEF WindowInv, History
    <3> QED
      BY <1>1, <3>1
  <2>3. Part(P, k, tm - Window, tm) \subseteq Part(P, k, r.until - Window, r.until)
    BY <1>1 DEF Part, WindowInv, History, LimiterConstants
  <2>4. Cardinality(Part(P, k, tm - Window, tm)) <= LimitOf(k)
    <3>1. Cardinality(Part(P, k, tm - Window, tm))
            <= Cardinality(Part(P, k, r.until - Window, r.until))
      BY <2>3, PartFinite, FS_Subset DEF History
    <3>2. Cardinality(Part(P, k, r.until - Window, r.until)) <= LimitOf(k)
      BY DEF WindowInv
    <3>3. /\ Cardinality(Part(P, k, tm - Window, tm)) \in Nat
          /\ Cardinality(Part(P, k, r.until - Window, r.until)) \in Nat
          /\ LimitOf(k) \in Nat
      BY PartFinite, LimitType DEF History
    <3> QED
      BY <3>1, <3>2, <3>3
  <2>5. Cardinality(Part(P, k, tm, tm + Window)) = 0
    BY <2>2, FS_EmptySet
  <2>6. (tm + Window) - Window = tm /\ (tm + Window) - 2 * Window = tm - Window
    BY DEF LimiterConstants
  <2>7. \A c \in P : Counts(c, k) => c[2] < tm + Window
    BY DEF History, LimiterConstants
  <2>8. LimitOf(k) \in Nat
    BY LimitType
  <2>9. tm + Window <= tm + Window
    BY DEF LimiterConstants
  <2> QED
    BY <2>1, <2>2, <2>4, <2>5, <2>6, <2>7, <2>8, <2>9 DEF WindowInv
<1>2. CASE ~(tm >= r.until)
  <2>1. Bumped(r, tm).n = r.n + 1 /\ Bumped(r, tm).until = r.until
    BY <1>2 DEF Bumped
  <2>2. Cardinality(Part(P, k, r.until - Window, r.until)) \in Nat
    BY PartFinite DEF History
  <2> QED
    BY <1>2, <2>1, <2>2 DEF WindowInv
<1> QED
  BY <1>1, <1>2

\* A call is counted and passes.
LEMMA PassWindow ==
  ASSUME LimiterConstants, NEW tm \in Nat, NEW P, History(P, tm), NEW k,
         NEW r, r.until \in Nat, r.n \in Nat, WindowInv(P, k, r, tm),
         NEW c, c \notin P, c[2] = tm, Counts(c, k),
         Bumped(r, tm).n <= LimitOf(k)
  PROVE  /\ WindowInv(P \cup {c}, k, Bumped(r, tm), tm)
         /\ Cardinality(Part(P \cup {c}, k, Bumped(r, tm).until - Window,
                             Bumped(r, tm).until))
              = Cardinality(Part(P, k, Bumped(r, tm).until - Window,
                                 Bumped(r, tm).until)) + 1
<1> DEFINE q == Bumped(r, tm)
           A == Part(P, k, q.until - Window, q.until)
<1>1. /\ q.until <= tm + Window /\ q.until \in Nat /\ q.n \in Nat
      /\ q.until - Window <= tm /\ tm < q.until
      /\ q.n = Bumped(r, tm).n
  BY DEF Bumped, WindowInv, LimiterConstants
<1>2. WindowInv(P, k, q, tm)
  BY BumpWindow
<1>3. IsFiniteSet(A) /\ Cardinality(A) \in Nat
  BY PartFinite DEF History
<1>4. Cardinality(A) + 1 <= q.n
  <2>1. CASE tm >= r.until
    <3>1. q.n = 1 /\ q.until = tm + Window /\ q.until - Window = tm
      BY <2>1 DEF Bumped, LimiterConstants
    <3>2. A = {}
      BY <2>1, <3>1, BumpWindow
    <3> QED
      BY <3>1, <3>2, FS_EmptySet
  <2>2. CASE ~(tm >= r.until)
    <3>1. q.n = r.n + 1 /\ q.until = r.until
      BY <2>2 DEF Bumped
    <3>2. Cardinality(A) <= r.n
      BY <3>1 DEF WindowInv
    <3> QED
      BY <1>3, <3>1, <3>2
  <2> QED
    BY <2>1, <2>2
<1> HIDE DEF q
<1>5. Part(P \cup {c}, k, q.until - Window, q.until) = A \cup {c} /\ c \notin A
  BY <1>1 DEF Part
<1>6. Cardinality(Part(P \cup {c}, k, q.until - Window, q.until)) = Cardinality(A) + 1
  BY <1>3, <1>5, FS_AddElement
<1>7. Part(P \cup {c}, k, q.until - 2 * Window, q.until - Window)
        = Part(P, k, q.until - 2 * Window, q.until - Window)
  BY <1>1 DEF Part, LimiterConstants
<1>8. \A d \in P \cup {c} : Counts(d, k) => d[2] < q.until
  BY <1>1, <1>2 DEF WindowInv
<1>9. q.n <= LimitOf(k) /\ LimitOf(k) \in Nat
  BY <1>1, LimitType
<1>10. Cardinality(A) + 1 <= LimitOf(k)
  BY <1>1, <1>3, <1>4, <1>9
<1>11. WindowInv(P \cup {c}, k, q, tm)
  BY <1>1, <1>2, <1>4, <1>6, <1>7, <1>8, <1>10 DEF WindowInv
<1> QED
  BY <1>6, <1>11 DEF q

\* What passes now changes no Window of the past.
LEMMA PassPast ==
  ASSUME LimiterConstants, NEW tm \in Nat, NEW P, History(P, tm), NEW k,
         PastInv(P, k, tm), NEW c, c[2] = tm,
         NEW r, r.until \in Nat, WindowInv(P \cup {c}, k, r, tm)
  PROVE  History(P \cup {c}, tm) /\ PastInv(P \cup {c}, k, tm)
<1>1. History(P \cup {c}, tm)
  BY FS_AddElement DEF History
<1>2. Cardinality(Part(P \cup {c}, k, tm - Window + 1, tm + 1)) <= 2 * LimitOf(k)
  BY <1>1, TwoWindows
<1>3. ASSUME NEW t \in 0..tm, t # tm
      PROVE  Part(P \cup {c}, k, t - Window + 1, t + 1) = Part(P, k, t - Window + 1, t + 1)
  BY <1>3 DEF Part
<1> QED
  BY <1>1, <1>2, <1>3 DEF PastInv

\* A call that a key does not count is nothing to it.
LEMMA NotCounted ==
  ASSUME NEW P, NEW k, NEW r, NEW tm, NEW c, ~Counts(c, k),
         WindowInv(P, k, r, tm), PastInv(P, k, tm)
  PROVE  WindowInv(P \cup {c}, k, r, tm) /\ PastInv(P \cup {c}, k, tm)
<1>1. \A lo, hi : Part(P \cup {c}, k, lo, hi) = Part(P, k, lo, hi)
  BY DEF Part
<1> QED
  BY <1>1 DEF WindowInv, PastInv
-----------------------------------------------------------------------------

\* The types of a key, and what the script makes of it.
LEMMA KeyTypes ==
  ASSUME LimiterConstants, LimiterInv, NEW k \in Limiter!Keys
  PROVE  /\ counter[k] \in [n : 0..MaxCalls, until : 0..(MaxTime + Window)]
         /\ counter[k].n \in Nat /\ counter[k].until \in Nat
         /\ Limiter!Incr(k) = Bumped(counter[k], time)
         /\ made < MaxCalls =>
              Bumped(counter[k], time) \in [n : 0..MaxCalls, until : 0..(MaxTime + Window)]
         /\ Bumped(counter[k], time).n <= made + 1
         /\ time \in 0..MaxTime /\ made \in 0..MaxCalls
<1>1. /\ counter[k] \in [n : 0..MaxCalls, until : 0..(MaxTime + Window)]
      /\ time \in 0..MaxTime /\ made \in 0..MaxCalls /\ counter[k].n <= made
  BY DEF LimiterInv, Limiter!TypeOK
<1> QED
  BY <1>1 DEF Limiter!Incr, Bumped, LimiterConstants

\* The keys of the others stay; a user's and the organisation's are counted.
LEMMA RequestKeys ==
  ASSUME LimiterConstants, LimiterInv, NEW u \in Users, Limiter!AiRequest(u)
  PROVE  /\ time' = time /\ made' = made + 1 /\ made < MaxCalls
         /\ u \in Limiter!Keys /\ "org" \in Limiter!Keys /\ u # "org"
         /\ counter'[u] = Bumped(counter[u], time)
         /\ counter'["org"] = IF Bumped(counter[u], time).n <= UserLimit
                              THEN Bumped(counter["org"], time) ELSE counter["org"]
         /\ \A k \in Limiter!Keys \ {u, "org"} : counter'[k] = counter[k]
         /\ passed' = IF /\ Bumped(counter[u], time).n <= UserLimit
                         /\ Bumped(counter["org"], time).n <= OrgLimit
                      THEN passed \cup {<<u, time, made + 1>>} ELSE passed
         /\ counter' \in [Limiter!Keys ->
                            [n : 0..MaxCalls, until : 0..(MaxTime + Window)]]
<1>1. u \in Limiter!Keys /\ "org" \in Limiter!Keys /\ u # "org"
  BY DEF Limiter!Keys, LimiterConstants
<1>2. /\ Limiter!Incr(u) = Bumped(counter[u], time)
      /\ Limiter!Incr("org") = Bumped(counter["org"], time)
  BY <1>1, KeyTypes
<1>3. counter \in [Limiter!Keys -> [n : 0..MaxCalls, until : 0..(MaxTime + Window)]]
  BY DEF LimiterInv, Limiter!TypeOK
<1>4. made < MaxCalls /\ made' = made + 1 /\ time' = time
  BY DEF Limiter!AiRequest, Limiter!Call
<1>5. counter' = [counter EXCEPT ![u] = Bumped(counter[u], time),
                    !["org"] = IF Bumped(counter[u], time).n <= UserLimit
                               THEN Bumped(counter["org"], time)
                               ELSE counter["org"]]
  BY <1>1, <1>2, <1>3 DEF Limiter!AiRequest
<1>6. counter' \in [Limiter!Keys ->
                      [n : 0..MaxCalls, until : 0..(MaxTime + Window)]]
  BY <1>1, <1>3, <1>4, <1>5, KeyTypes
<1> QED
  BY <1>1, <1>2, <1>3, <1>4, <1>5, <1>6 DEF Limiter!AiRequest

\* A request that is let through.
LEMMA PassesInv ==
  ASSUME LimiterConstants, LimiterInv, NEW u \in Users, Limiter!AiRequest(u),
         Bumped(counter[u], time).n <= UserLimit,
         Bumped(counter["org"], time).n <= OrgLimit
  PROVE  LimiterInv'
<1> DEFINE c == <<u, time, made + 1>>
<1>1. /\ time' = time /\ made' = made + 1 /\ made < MaxCalls
      /\ passed' = passed \cup {c}
      /\ u \in Limiter!Keys /\ "org" \in Limiter!Keys /\ u # "org"
      /\ counter'[u] = Bumped(counter[u], time)
      /\ counter'["org"] = Bumped(counter["org"], time)
      /\ \A k \in Limiter!Keys \ {u, "org"} : counter'[k] = counter[k]
      /\ counter' \in [Limiter!Keys ->
                         [n : 0..MaxCalls, until : 0..(MaxTime + Window)]]
  BY RequestKeys
<1>2. time \in 0..MaxTime /\ made \in 0..MaxCalls /\ time \in Nat
  BY DEF LimiterInv, Limiter!TypeOK
<1>3. /\ c[1] = u /\ c[2] = time /\ c[3] = made + 1 /\ c \notin passed
      /\ c \in Users \X (0..MaxTime) \X (1..MaxCalls)
  <2>1. c[1] = u /\ c[2] = time /\ c[3] = made + 1
    OBVIOUS
  <2>2. c \notin passed
    BY <1>2, <2>1 DEF LimiterInv
  <2>3. made + 1 \in 1..MaxCalls
    BY <1>1, <1>2 DEF LimiterConstants
  <2> QED
    BY <1>2, <2>1, <2>2, <2>3
<1> HIDE DEF c
<1>4. Limiter!TypeOK'
  <2>1. passed' \subseteq Users \X (0..MaxTime) \X (1..MaxCalls)
    BY <1>1, <1>3 DEF LimiterInv, Limiter!TypeOK
  <2>2. made' \in 0..MaxCalls
    BY <1>1, <1>2 DEF LimiterConstants
  <2> QED
    BY <1>1, <1>2, <2>1, <2>2 DEF Limiter!TypeOK, Limiter!Keys
<1>5. \A d \in passed' : d[3] <= made'
  <2> SUFFICES ASSUME NEW d \in passed PROVE d[3] <= made + 1
    BY <1>1, <1>2, <1>3
  <2>1. d[3] \in Nat /\ d[3] <= made
    BY DEF LimiterInv, Limiter!TypeOK
  <2> QED
    BY <1>2, <2>1
<1>6. ASSUME NEW k \in Limiter!Keys
      PROVE  /\ counter'[k].n <= made' /\ History(passed', time')
             /\ WindowInv(passed', k, counter'[k], time') /\ PastInv(passed', k, time')
  <2>1. /\ History(passed, time) /\ WindowInv(passed, k, counter[k], time)
        /\ PastInv(passed, k, time) /\ counter[k].n <= made
    BY DEF LimiterInv
  <2>2. counter[k].until \in Nat /\ counter[k].n \in Nat
    BY KeyTypes
  <2>3. counter'[k].until \in Nat
    BY <1>1 DEF LimiterConstants
  <2>4. CASE k \in {u, "org"}
    <3>1. Counts(c, k) /\ Bumped(counter[k], time).n <= LimitOf(k)
          /\ counter'[k] = Bumped(counter[k], time)
      BY <1>1, <1>3, <2>4 DEF Counts, LimitOf
    <3>2. WindowInv(passed', k, counter'[k], time)
      BY <1>1, <1>2, <1>3, <2>1, <2>2, <3>1, PassWindow
    <3>3. History(passed', time) /\ PastInv(passed', k, time)
      BY <1>1, <1>2, <1>3, <2>1, <2>3, <3>2, PassPast
    <3>4. counter'[k].n <= made'
      BY <1>1, <3>1, KeyTypes
    <3> QED
      BY <1>1, <3>2, <3>3, <3>4
  <2>5. CASE k \notin {u, "org"}
    <3>1. ~Counts(c, k) /\ counter'[k] = counter[k]
      BY <1>1, <1>3, <2>5 DEF Counts
    <3>2. WindowInv(passed', k, counter'[k], time) /\ PastInv(passed', k, time)
      BY <1>1, <2>1, <3>1, NotCounted
    <3>3. History(passed', time)
      BY <1>1, <1>2, <1>3, <2>1, FS_AddElement DEF History
    <3>4. counter'[k].n <= made'
      BY <1>1, <1>2, <2>1, <2>2, <3>1
    <3> QED
      BY <1>1, <3>2, <3>3, <3>4
  <2> QED
    BY <2>4, <2>5
<1>7. OrgInv(passed', counter'["org"])
  <2> DEFINE r == counter["org"]
             q == counter'["org"]
             A == Part(passed, "org", q.until - Window, q.until)
             B == Part(passed', "org", q.until - Window, q.until)
  <2>1. /\ History(passed, time) /\ WindowInv(passed, "org", r, time)
        /\ OrgInv(passed, r) /\ r.until \in Nat /\ r.n \in Nat
        /\ IsFiniteSet(passed)
    BY <1>1, KeyTypes DEF LimiterInv, History
  <2>2. q = Bumped(r, time) /\ Counts(c, "org") /\ Bumped(r, time).n <= LimitOf("org")
    BY <1>1 DEF Counts, LimitOf
  <2>3. Cardinality(B) = Cardinality(A) + 1
    <3> DEFINE s == Bumped(r, time)
    <3>1. Cardinality(Part(passed \cup {c}, "org", s.until - Window, s.until))
            = Cardinality(Part(passed, "org", s.until - Window, s.until)) + 1
      <4> HIDE DEF r
      <4> QED
        BY <1>2, <1>3, <2>1, <2>2, PassWindow
    <3>2. passed' = passed \cup {c} /\ q = s
      BY <1>1, <2>2
    <3> HIDE DEF s, q
    <3> QED
      BY <3>1, <3>2
  <2>4. Cardinality(A) \in Nat
    BY <2>1, PartFinite
  <2>5. CASE time >= r.until
    <3>1. q.n = 1
      BY <2>2, <2>5 DEF Bumped
    <3>2. q.n <= Cardinality(B)
      BY <2>3, <2>4, <3>1
    <3> QED
      BY <3>2 DEF OrgInv
  <2>6. CASE ~(time >= r.until)
    <3>1. q.n = r.n + 1 /\ q.until = r.until
      BY <2>2, <2>6 DEF Bumped
    <3>2. r.n <= Cardinality(A) \/ OrgLimit <= Cardinality(A)
      BY <2>1, <3>1 DEF OrgInv
    <3>3. q.n <= Cardinality(B) \/ OrgLimit <= Cardinality(B)
      BY <2>1, <2>3, <2>4, <3>1, <3>2 DEF LimiterConstants
    <3> QED
      BY <3>3 DEF OrgInv
  <2> QED
    BY <2>5, <2>6
<1> QED
  BY <1>1, <1>4, <1>5, <1>6, <1>7 DEF LimiterInv, Limiter!Keys

\* A request that one of the two counters stops.
LEMMA StoppedInv ==
  ASSUME LimiterConstants, LimiterInv, NEW u \in Users, Limiter!AiRequest(u),
         ~ (/\ Bumped(counter[u], time).n <= UserLimit
            /\ Bumped(counter["org"], time).n <= OrgLimit)
  PROVE  LimiterInv'
<1>1. /\ time' = time /\ made' = made + 1 /\ made < MaxCalls /\ passed' = passed
      /\ u \in Limiter!Keys /\ "org" \in Limiter!Keys /\ u # "org"
      /\ counter'[u] = Bumped(counter[u], time)
      /\ counter'["org"] = IF Bumped(counter[u], time).n <= UserLimit
                           THEN Bumped(counter["org"], time) ELSE counter["org"]
      /\ \A k \in Limiter!Keys \ {u, "org"} : counter'[k] = counter[k]
      /\ counter' \in [Limiter!Keys ->
                         [n : 0..MaxCalls, until : 0..(MaxTime + Window)]]
  BY RequestKeys
<1>2. time \in 0..MaxTime /\ made \in 0..MaxCalls /\ time \in Nat
  BY DEF LimiterInv, Limiter!TypeOK
<1>3. Limiter!TypeOK'
  <2>1. made' \in 0..MaxCalls
    BY <1>1, <1>2 DEF LimiterConstants
  <2> QED
    BY <1>1, <1>2, <2>1 DEF LimiterInv, Limiter!TypeOK, Limiter!Keys
<1>4. \A d \in passed' : d[3] <= made'
  <2> SUFFICES ASSUME NEW d \in passed PROVE d[3] <= made + 1
    BY <1>1
  <2>1. d[3] \in Nat /\ d[3] <= made
    BY DEF LimiterInv, Limiter!TypeOK
  <2> QED
    BY <1>2, <2>1
<1>5. ASSUME NEW k \in Limiter!Keys
      PROVE  /\ counter'[k].n <= made'
             /\ WindowInv(passed', k, counter'[k], time') /\ PastInv(passed', k, time')
  <2>1. /\ History(passed, time) /\ WindowInv(passed, k, counter[k], time)
        /\ PastInv(passed, k, time) /\ counter[k].n <= made
    BY DEF LimiterInv
  <2>2. counter[k].until \in Nat /\ counter[k].n \in Nat
        /\ Bumped(counter[k], time).n <= made + 1
    BY KeyTypes
  <2>3. WindowInv(passed, k, Bumped(counter[k], time), time)
    BY <1>2, <2>1, <2>2, BumpWindow
  <2>4. counter'[k] = Bumped(counter[k], time) \/ counter'[k] = counter[k]
    BY <1>1
  <2>5. counter'[k].n <= made'
    BY <1>1, <1>2, <2>1, <2>2, <2>4
  <2> QED
    BY <1>1, <2>1, <2>3, <2>4, <2>5
<1>6. OrgInv(passed, counter'["org"])
  <2>1. OrgInv(passed, counter["org"])
    BY DEF LimiterInv
  <2>2. CASE counter'["org"] = counter["org"]
    BY <2>1, <2>2
  <2>3. CASE counter'["org"] # counter["org"]
    <3> DEFINE r == counter["org"]
               q == counter'["org"]
               A == Part(passed, "org", q.until - Window, q.until)
    <3>1. q = Bumped(r, time) /\ ~(q.n <= OrgLimit)
      BY <1>1, <2>3
    <3>2. r.until \in Nat /\ r.n \in Nat /\ IsFiniteSet(passed)
      BY <1>1, KeyTypes DEF LimiterInv, History
    <3>3. Cardinality(A) \in Nat
      BY <3>2, PartFinite
    <3>4. CASE time >= r.until
      \* A limit of zero: the first call of a window is already over it.
      <4>1. q.n = 1
        BY <3>1, <3>4 DEF Bumped
      <4>2. OrgLimit <= Cardinality(A)
        BY <3>1, <3>3, <4>1 DEF LimiterConstants
      <4> QED
        BY <4>2 DEF OrgInv
    <3>5. CASE ~(time >= r.until)
      <4>1. q.n = r.n + 1 /\ q.until = r.until
        BY <3>1, <3>5 DEF Bumped
      <4>2. r.n <= Cardinality(A) \/ OrgLimit <= Cardinality(A)
        BY <2>1, <4>1 DEF OrgInv
      <4>3. OrgLimit <= Cardinality(A)
        BY <3>1, <3>2, <3>3, <4>1, <4>2 DEF LimiterConstants
      <4> QED
        BY <4>3 DEF OrgInv
    <3> QED
      BY <3>4, <3>5
  <2> QED
    BY <2>2, <2>3
<1> QED
  BY <1>1, <1>3, <1>4, <1>5, <1>6 DEF LimiterInv, Limiter!Keys

LEMMA LimiterNext ==
  ASSUME LimiterConstants, LimiterInv, [Limiter!Next]_Limiter!vars
  PROVE  LimiterInv'
<1>1. /\ time \in 0..MaxTime /\ made \in 0..MaxCalls /\ time \in Nat
  BY DEF LimiterInv, Limiter!TypeOK
<1>2. CASE Limiter!Tick
  <2>1. time' = time + 1 /\ time' \in 0..MaxTime /\ UNCHANGED <<counter, passed, made>>
    BY <1>1, <1>2 DEF Limiter!Tick, LimiterConstants
  <2>2. Limiter!TypeOK'
    BY <2>1 DEF LimiterInv, Limiter!TypeOK, Limiter!Keys
  <2>3. ASSUME NEW k \in Limiter!Keys
        PROVE  /\ History(passed, time + 1)
               /\ WindowInv(passed, k, counter[k], time + 1)
               /\ PastInv(passed, k, time + 1)
    <3>1. counter[k].until \in Nat
      BY KeyTypes
    <3> QED
      BY <1>1, <3>1, TickWindow DEF LimiterInv
  <2>4. "org" \in Limiter!Keys
    BY DEF Limiter!Keys
  <2> QED
    BY <2>1, <2>2, <2>3, <2>4 DEF LimiterInv, Limiter!Keys
<1>3. CASE Limiter!AiRequestUncounted
  <2>1. made' = made + 1 /\ made' \in 0..MaxCalls /\ UNCHANGED <<time, counter, passed>>
    BY <1>1, <1>3 DEF Limiter!AiRequestUncounted, Limiter!Call, LimiterConstants
  <2>2. Limiter!TypeOK'
    BY <2>1 DEF LimiterInv, Limiter!TypeOK, Limiter!Keys
  <2>3. \A c \in passed : c[3] <= made'
    <3> SUFFICES ASSUME NEW c \in passed PROVE c[3] <= made + 1
      BY <2>1
    <3>1. c[3] \in Nat /\ c[3] <= made
      BY DEF LimiterInv, Limiter!TypeOK
    <3> QED
      BY <1>1, <3>1
  <2>4. \A k \in Limiter!Keys : counter[k].n <= made'
    <3> SUFFICES ASSUME NEW k \in Limiter!Keys PROVE counter[k].n <= made + 1
      BY <2>1
    <3>1. counter[k].n \in Nat /\ counter[k].n <= made
      BY KeyTypes DEF LimiterInv
    <3> QED
      BY <1>1, <3>1
  <2> QED
    BY <2>1, <2>2, <2>3, <2>4 DEF LimiterInv, Limiter!Keys
<1>4. CASE UNCHANGED Limiter!vars
  BY <1>4 DEF LimiterInv, Limiter!vars, Limiter!TypeOK, Limiter!Keys
<1> QED
  BY <1>2, <1>3, <1>4, PassesInv, StoppedInv DEF Limiter!Next

\* The invariant speaks of the properties' sets.
LEMMA LimiterImplies == ASSUME LimiterConstants, LimiterInv PROVE Limiter!LimiterSound
<1> USE LimiterCardinality
<1>1. passed \subseteq Users \X (0..MaxTime) \X (1..MaxCalls) /\ time \in Nat
  BY DEF LimiterInv, Limiter!TypeOK
<1>2. \A c \in passed : c[1] \in Users /\ c[2] \in Nat
  BY <1>1
<1>3. ASSUME NEW t \in 0..time PROVE Limiter!In(Users, t) <= 2 * OrgLimit
  <2>1. {c \in passed : c[1] \in Users /\ t - c[2] \in 0..(Window - 1)}
          = Part(passed, "org", t - Window + 1, t + 1)
    BY <1>1, <1>2 DEF Part, Counts, LimiterConstants
  <2>2. Cardinality(Part(passed, "org", t - Window + 1, t + 1)) <= 2 * LimitOf("org")
    BY DEF LimiterInv, PastInv, Limiter!Keys
  <2> QED
    BY <2>1, <2>2 DEF Limiter!In, LimitOf
<1>4. ASSUME NEW t \in 0..time, NEW u \in Users
      PROVE  Limiter!In({u}, t) <= 2 * UserLimit
  <2>1. u # "org" /\ u \in Limiter!Keys
    BY DEF LimiterConstants, Limiter!Keys
  <2>2. {c \in passed : c[1] \in {u} /\ t - c[2] \in 0..(Window - 1)}
          = Part(passed, u, t - Window + 1, t + 1)
    BY <1>1, <1>2, <2>1 DEF Part, Counts, LimiterConstants
  <2>3. Cardinality(Part(passed, u, t - Window + 1, t + 1)) <= 2 * LimitOf(u)
    BY <2>1 DEF LimiterInv, PastInv
  <2> QED
    BY <2>1, <2>2, <2>3 DEF Limiter!In, LimitOf
<1>5. Limiter!NoLockout
  <2> DEFINE r == counter["org"]
             A == Part(passed, "org", r.until - Window, r.until)
  <2> SUFFICES ASSUME r.n > OrgLimit
               PROVE  Cardinality({c \in passed : c[2] >= r.until - Window}) >= OrgLimit
    BY DEF Limiter!NoLockout
  <2>1. "org" \in Limiter!Keys
    BY DEF Limiter!Keys
  <2>2. {c \in passed : c[2] >= r.until - Window} = A
    BY <1>2, <2>1, KeyTypes DEF LimiterInv, WindowInv, Part, Counts, LimiterConstants
  <2>3. r.n \in Nat /\ Cardinality(A) \in Nat
    BY <2>1, KeyTypes, PartFinite DEF LimiterInv, History
  <2>4. r.n <= Cardinality(A) \/ OrgLimit <= Cardinality(A)
    BY DEF LimiterInv, OrgInv
  <2>5. Cardinality(A) >= OrgLimit
    <3> HIDE DEF A, r
    <3> QED
      BY <2>3, <2>4 DEF LimiterConstants
  <2> QED
    BY <2>2, <2>5
<1> QED
  BY <1>3, <1>4, <1>5 DEF Limiter!LimiterSound, Limiter!BurstBounded, LimiterInv

\* For any number of users and calls and all limits and windows: in no Window
\* more than twice a limit passes a user's or the organisation's counter, and
\* the organisation's counter is full only when its limit really passed.
THEOREM LimiterTheorem ==
  ASSUME LimiterConstants
  PROVE  Limiter!Spec => []LimiterSound
<1>1. Limiter!Init => LimiterInv
  <2> SUFFICES ASSUME Limiter!Init PROVE LimiterInv
    OBVIOUS
  <2>1. Limiter!TypeOK
    BY DEF Limiter!Init, Limiter!TypeOK, LimiterConstants
  <2>2. History(passed, time) /\ \A lo, hi, k : Part(passed, k, lo, hi) = {}
    BY FS_EmptySet DEF Limiter!Init, History, Part
  <2>3. Cardinality({}) = 0
    BY FS_EmptySet
  <2>4. \A k : LimitOf(k) \in Nat
    BY LimitType
  <2>5. \A k \in Limiter!Keys : counter[k].n = 0 /\ counter[k].until = 0
    BY DEF Limiter!Init
  <2>6. "org" \in Limiter!Keys
    BY DEF Limiter!Keys
  <2>7. time = 0 /\ passed = {} /\ made = 0
    BY DEF Limiter!Init
  <2>8. ASSUME NEW k \in Limiter!Keys
        PROVE  WindowInv(passed, k, counter[k], time) /\ PastInv(passed, k, time)
    <3>1. \A lo, hi : Cardinality(Part(passed, k, lo, hi)) = 0
      BY <2>2, <2>3
    <3>2. 0 <= LimitOf(k) /\ 0 <= 2 * LimitOf(k)
      BY <2>4
    <3> QED
      BY <2>5, <2>7, <3>1, <3>2 DEF WindowInv, PastInv, LimiterConstants
  <2>9. OrgInv(passed, counter["org"])
    BY <2>2, <2>3, <2>5, <2>6 DEF OrgInv
  <2> QED
    BY <2>1, <2>2, <2>5, <2>7, <2>8, <2>9 DEF LimiterInv
<1>2. LimiterInv /\ [Limiter!Next]_Limiter!vars => LimiterInv'
  BY LimiterNext
<1>3. LimiterInv => LimiterSound
  BY LimiterImplies DEF LimiterSound
<1> QED
  BY <1>1, <1>2, <1>3, PTL DEF Limiter!Spec

-----------------------------------------------------------------------------
(***************************************************************************)
(* The sandbox pool, for pools of any size, any number of runs and         *)
(* whatever dies, fails or is reaped: the count is exact, Docker never     *)
(* keeps more containers of the pool than its maximum beside the ones it   *)
(* could not remove or start, and a script finds its own files only.       *)
(***************************************************************************)

\* Runs are neither of the two other values of the lock.
PoolConstants ==
  /\ IsFiniteSet(Jobs) /\ "warmup" \notin Jobs /\ "free" \notin Jobs
  /\ MinSize \in Nat /\ MaxSize \in Nat /\ MaxContainers \in Nat
  /\ MaxDeaths \in Nat /\ MaxFaults \in Nat /\ MaxReaps \in Nat

\* A run that waits for a container, or looks at one, under the lock.
Locked(j) ==
  \/ script[j].pc \in {"asklocked", "creating", "made"}
  \/ script[j].pc = "check" /\ script[j].from = "asklocked"

Using == {"hold", "run", "release"}
Holding == {"check", "hold", "run", "release", "reset", "return", "replace"}

\* The container a run speaks of, until it is done: the one it holds, or the
\* dead one it last looked at.
Claims(j, c) == script[j].pc # "done" /\ script[j].c = c /\ c # None

\* The container that the warmup has made and not put into the pool.
WarmMade == IF warm.pc = "made" THEN warm.ids ELSE {}

\* The containers that one run or the warmup has made.
Made == {c \in Containers : \E j \in Jobs : script[j].pc = "made" /\ script[j].c = c}
          \cup WarmMade

\* What the pool counts.
Tracked == ToSet(idle) \cup UNION {Held(j) : j \in Jobs}

-----------------------------------------------------------------------------

\* Ids are handed out in their order.
Numbered == \E k \in 0..MaxContainers : \A c \in Containers : docker[c] # "none" <=> c <= k

\* The ids a reap is about to destroy are of containers that were there.
ReapsKnown ==
  /\ warm.pc = "destroy" => \A c \in warm.ids : docker[c] # "none"
  /\ reaper.pc = "destroy" => \A c \in reaper.ids : docker[c] # "none"

\* No container has two masters: each is idle, or made by the warmup, or the
\* business of one run.
OneMaster ==
  /\ idle \in Seq(Containers)
  /\ \A c \in ToSet(idle) \cup WarmMade : docker[c] # "none" /\ left[c] = {}
  /\ ToSet(idle) \cap WarmMade = {}
  /\ warm.pc = "made" => \E c \in Containers : warm.ids = {c}
  /\ \A j \in Jobs, c \in Containers :
       Claims(j, c) =>
         /\ docker[c] # "none" /\ c \notin ToSet(idle) /\ c \notin WarmMade
         /\ \A k \in Jobs \ {j} : ~Claims(k, c)

\* _in_use holds the containers of the runs between acquire and release, and
\* the one that a run lost when it failed before its try.
UseKnown ==
  /\ \A c \in inUse : \E j \in Jobs : Claims(j, c) /\ script[j].pc \in Using \cup {"failed"}
  /\ \A j \in Jobs : script[j].pc \in Using => script[j].c \in inUse
  /\ \A j \in Jobs : script[j].pc \in Holding \cup {"made"} => script[j].c \in Containers

\* The growth lock has one holder, and who is about to add a container holds
\* it and found room.
Serial ==
  /\ \A j \in Jobs : Locked(j) <=> growLock = j
  /\ warm.pc \in {"grow", "made"} <=> growLock = "warmup"
  /\ \A j \in Jobs : script[j].pc \in {"creating", "made"} => created < MaxSize
  /\ warm.pc = "made" => created < MaxSize /\ warm.made < MinSize

\* What the workspaces hold.
Clean ==
  /\ \A c \in Containers : docker[c] = "none" => left[c] = {}
  /\ \A j \in Jobs :
       /\ script[j].pc \in {"check", "made", "hold", "return"} => left[script[j].c] = {}
       /\ script[j].pc = "run" => left[script[j].c] = {j}

\* Docker keeps no container of the pool but those it counts and the one that
\* is being added, beside the leaked ones; warmups are wanted by runs that are done.
Accounted ==
  /\ \A c \in Containers : Kept(c) => c \in Tracked \cup Made
  /\ wanted <= Cardinality({j \in Jobs : script[j].pc = "done"})

Inv ==
  /\ TypeOK /\ Numbered /\ ReapsKnown /\ OneMaster /\ UseKnown /\ Serial /\ Clean
  /\ Accounted /\ CountIsExact

-----------------------------------------------------------------------------
(***************************************************************************)
(* The queue of idle containers, and the next id.                          *)
(***************************************************************************)

LEMMA TailFacts ==
  ASSUME idle \in Seq(Containers), IsInjective(idle), idle # <<>>
  PROVE  /\ Tail(idle) \in Seq(Containers) /\ IsInjective(Tail(idle))
         /\ Head(idle) \in ToSet(idle) /\ Head(idle) \in Containers
         /\ ToSet(Tail(idle)) = ToSet(idle) \ {Head(idle)}
<1>1. Len(idle) \in Nat \ {0} /\ DOMAIN idle = 1..Len(idle)
  OBVIOUS
<1>2. /\ Tail(idle) \in Seq(Containers) /\ DOMAIN Tail(idle) = 1..(Len(idle) - 1)
      /\ \A i \in 1..(Len(idle) - 1) : Tail(idle)[i] = idle[i + 1]
  BY <1>1
<1>3. Head(idle) = idle[1] /\ 1 \in DOMAIN idle /\ idle[1] \in Containers
  BY <1>1
<1>4. \A i \in DOMAIN Tail(idle) : i + 1 \in DOMAIN idle /\ i + 1 # 1
  BY <1>1, <1>2
<1>5. IsInjective(Tail(idle))
  BY <1>1, <1>2, <1>4 DEF IsInjective
<1>6. ToSet(Tail(idle)) \subseteq ToSet(idle) \ {Head(idle)}
  BY <1>2, <1>3, <1>4 DEF ToSet, IsInjective
<1>7. ASSUME NEW i \in DOMAIN idle, idle[i] # Head(idle)
      PROVE  idle[i] \in ToSet(Tail(idle))
  <2>1. i - 1 \in DOMAIN Tail(idle) /\ Tail(idle)[i - 1] = idle[i]
    BY <1>1, <1>2, <1>3, <1>7
  <2> QED
    BY <2>1 DEF ToSet
<1>8. ToSet(idle) \ {Head(idle)} \subseteq ToSet(Tail(idle))
  BY <1>7 DEF ToSet
<1> QED
  BY <1>2, <1>3, <1>5, <1>6, <1>8 DEF ToSet

LEMMA AppendFacts ==
  ASSUME idle \in Seq(Containers), IsInjective(idle), NEW c \in Containers,
         c \notin ToSet(idle)
  PROVE  /\ Append(idle, c) \in Seq(Containers) /\ IsInjective(Append(idle, c))
         /\ ToSet(Append(idle, c)) = ToSet(idle) \cup {c}
<1> DEFINE s == Append(idle, c)
           n == Len(idle) + 1
<1>1. Len(idle) \in Nat /\ DOMAIN idle = 1..Len(idle)
  OBVIOUS
<1>2. /\ s \in Seq(Containers) /\ DOMAIN s = 1..n /\ s[n] = c
      /\ \A i \in DOMAIN idle : i \in DOMAIN s /\ s[i] = idle[i]
      /\ \A i \in DOMAIN s : i \in DOMAIN idle \/ i = n
  BY <1>1
<1>3. n \in DOMAIN s
  BY <1>1, <1>2
<1> HIDE DEF s, n
<1>4. \A i \in DOMAIN idle : idle[i] # c
  BY DEF ToSet
<1>5. IsInjective(s)
  BY <1>2, <1>4 DEF IsInjective
<1>6. ToSet(s) = ToSet(idle) \cup {c}
  BY <1>2, <1>3 DEF ToSet
<1> QED
  BY <1>2, <1>5, <1>6 DEF s

\* The next id is the first that Docker does not know.
LEMMA FreshIsNext ==
  ASSUME PoolConstants, Inv
  PROVE  /\ \E k \in 0..MaxContainers :
              /\ \A c \in Containers : docker[c] # "none" <=> c <= k
              /\ FreshId = k + 1
         /\ FreshId \in Containers => docker[FreshId] = "none"
<1>1. PICK k \in 0..MaxContainers : \A c \in Containers : docker[c] # "none" <=> c <= k
  BY DEF Inv, Numbered
<1>2. {c \in Containers : docker[c] # "none"} = 1..k
  BY <1>1 DEF Containers, PoolConstants
<1>3. Cardinality(1..k) = k
  BY FS_Interval DEF PoolConstants
<1>4. FreshId = k + 1
  BY <1>2, <1>3 DEF FreshId
<1> QED
  BY <1>1, <1>4 DEF Containers, PoolConstants

LEMMA NumberedStays ==
  ASSUME Numbered, \A c \in Containers : docker'[c] = "none" <=> docker[c] = "none"
  PROVE  Numbered'
BY DEF Numbered, Containers

\* Only a creation makes Docker know a container it did not, also one that
\* fails and leaves the container behind.
Creating == WarmCreate \/ \E j \in Jobs : Create(j)
Leaking == FreshId \in Containers /\ docker' = [docker EXCEPT ![FreshId] = "leaked"]
Creation == Creating \/ Leaking

LEMMA NumberedGrows ==
  ASSUME PoolConstants, Inv, Creation
  PROVE  Numbered'
<1>0. PICK v \in {"running", "leaked"} :
        FreshId \in Containers /\ docker' = [docker EXCEPT ![FreshId] = v]
  BY DEF Creation, Creating, Leaking, WarmCreate, Create
<1>1. PICK k \in 0..MaxContainers :
        /\ \A c \in Containers : docker[c] # "none" <=> c <= k
        /\ FreshId = k + 1
  BY FreshIsNext
<1>2. k + 1 \in 0..MaxContainers
  BY <1>0, <1>1 DEF Containers, PoolConstants
<1>3. \A c \in Containers : docker'[c] # "none" <=> c <= k + 1
  BY <1>0, <1>1 DEF Inv, TypeOK, Containers, PoolConstants
<1> QED
  BY <1>2, <1>3 DEF Numbered, Containers

-----------------------------------------------------------------------------
(***************************************************************************)
(* What the steps do to runs and to Docker.                                *)
(***************************************************************************)

\* A run moves on, and keeps its container.
LEMMA Moved ==
  ASSUME Inv, NEW j \in Jobs, NEW p, To(j, p)
  PROVE  \A k \in Jobs : /\ script'[k].pc = IF k = j THEN p ELSE script[k].pc
                         /\ script'[k].c = script[k].c
                         /\ script'[k].from = script[k].from
BY DEF Inv, TypeOK, To

\* A run that holds a container holds one that Docker knew, and nobody else
\* has to do with it.
LEMMA HoldsItsOwn ==
  ASSUME Inv, NEW j \in Jobs, script[j].pc \in Holding \cup {"made"}
  PROVE  /\ script[j].c \in Containers /\ docker[script[j].c] # "none"
         /\ script[j].c \notin ToSet(idle) /\ script[j].c \notin WarmMade
         /\ \A k \in Jobs \ {j} : script[k].c = script[j].c => script[k].pc = "done"
<1>1. script[j].c \in Containers /\ script[j].c # None
  BY DEF Inv, UseKnown, Containers, None
<1>2. Claims(j, script[j].c)
  BY <1>1 DEF Claims, Holding
<1> QED
  BY <1>1, <1>2 DEF Inv, OneMaster, Claims

\* Who takes part in _in_use is between acquire and release, or has failed.
LEMMA NotInUse ==
  ASSUME Inv, NEW j \in Jobs, script[j].c \in Containers,
         script[j].pc \notin Using \cup {"failed", "done"}
  PROVE  script[j].c \notin inUse
BY DEF Inv, UseKnown, OneMaster, Claims, Using, Containers, None

LEMMA Marked ==
  ASSUME Inv, NEW c \in Containers, docker[c] # "none",
         NEW v \in {"exited", "gone", "leaked"}, docker' = [docker EXCEPT ![c] = v]
  PROVE  /\ \A d \in Containers : docker'[d] = "none" <=> docker[d] = "none"
         /\ \A d \in Containers \ {c} : docker'[d] = docker[d]
         /\ docker'[c] = v
         /\ docker' \in [Containers -> {"none", "running", "exited", "gone", "leaked"}]
BY DEF Inv, TypeOK

\* A container that its run has destroyed is gone, or leaked.
LEMMA Removed ==
  ASSUME NEW j \in Jobs, Discard(j) \/ Replace(j)
  PROVE  /\ \E v \in {"gone", "leaked"} : docker' = [docker EXCEPT ![script[j].c] = v]
         /\ bad' = bad \/ Fault
BY DEF Discard, Replace, Destroyed

\* A reaped one is gone, or as it was, or stopped.
LEMMA ReapedIs ==
  ASSUME NEW c, Reaped(c)
  PROVE  /\ \/ docker' = docker
            \/ docker' = [docker EXCEPT ![c] = "gone"]
            \/ docker[c] = "running" /\ docker' = [docker EXCEPT ![c] = "exited"]
         /\ bad' = bad \/ Fault
BY DEF Reaped

LEMMA KnownStays ==
  ASSUME PoolConstants, Inv, [Next]_vars, ~Creation
  PROVE  /\ \A c \in Containers : docker'[c] = "none" <=> docker[c] = "none"
         /\ \A c \in Containers : Kept(c)' => Kept(c)
         /\ docker' \in [Containers -> {"none", "running", "exited", "gone", "leaked"}]
<1> DEFINE Goal ==
      /\ \A c \in Containers : docker'[c] = "none" <=> docker[c] = "none"
      /\ \A c \in Containers : Kept(c)' => Kept(c)
      /\ docker' \in [Containers -> {"none", "running", "exited", "gone", "leaked"}]
<1>1. ASSUME docker' = docker PROVE Goal
  BY <1>1 DEF Inv, TypeOK, Kept
<1>2. ASSUME NEW c \in Containers, docker[c] # "none",
             NEW v \in {"gone", "leaked"}, docker' = [docker EXCEPT ![c] = v]
      PROVE  Goal
  BY <1>2, Marked DEF Kept
<1>3. ASSUME NEW c \in Containers, docker[c] = "running",
             docker' = [docker EXCEPT ![c] = "exited"]
      PROVE  Goal
  BY <1>3, Marked DEF Kept
<1> HIDE DEF Goal
<1>4. ASSUME NEW j \in Jobs, Discard(j) \/ Replace(j) PROVE Goal
  <2>1. script[j].c \in Containers /\ docker[script[j].c] # "none"
    BY <1>4, HoldsItsOwn DEF Discard, Replace, Holding
  <2>2. PICK v \in {"gone", "leaked"} : docker' = [docker EXCEPT ![script[j].c] = v]
    BY <1>4, Removed
  <2> QED
    BY <1>2, <2>1, <2>2
<1>5. ASSUME NEW j \in Jobs, Exec(j) PROVE Goal
  BY <1>1, <1>3, <1>5, HoldsItsOwn DEF Exec, Holding
<1>6. ASSUME WarmEnd \/ \E j \in Jobs : CreateFails(j) PROVE Goal
  <2>1. docker' = docker
    BY <1>6 DEF CreateFails, WarmEnd, NotCreated, Creation, Leaking
  <2> QED
    BY <1>1, <2>1
<1>7. ASSUME NEW j \in Jobs,
             TakeIdle(j) \/ Validate(j) \/ NothingIdle(j) \/ TakeGrowLock(j) \/ Grow(j)
               \/ Grown(j) \/ TimesOut(j) \/ ArchiveFails(j)
               \/ PutArchive(j) \/ Release(j) \/ ResetWorkspace(j) \/ Return(j)
      PROVE  Goal
  <2>1. docker' = docker
    BY <1>7 DEF TakeIdle, Validate, NothingIdle, TakeGrowLock, Grow, Grown,
                TimesOut, ArchiveFails, PutArchive, Release, ResetWorkspace, Return
  <2> QED
    BY <1>1, <2>1
<1>8. ASSUME WarmBegin \/ WarmLock \/ WarmPut \/ WarmList \/ Snapshot
               \/ ReaperList \/ ReaperSleeps \/ UNCHANGED vars
      PROVE  Goal
  <2>1. docker' = docker
    BY <1>8 DEF WarmBegin, WarmLock, WarmPut, WarmList, Snapshot,
                ReaperList, ReaperSleeps, vars
  <2> QED
    BY <1>1, <2>1
<1>9. ASSUME NEW c \in Containers, docker[c] # "none", Reaped(c) PROVE Goal
  BY <1>1, <1>2, <1>3, <1>9, ReapedIs
<1>13. ASSUME WarmDestroy PROVE Goal
  BY <1>1, <1>9, <1>13 DEF WarmDestroy, Inv, ReapsKnown, TypeOK
<1>10. ASSUME ReaperDestroy PROVE Goal
  BY <1>9, <1>10 DEF ReaperDestroy, Inv, ReapsKnown, TypeOK
<1>11. ASSUME ContainerDies PROVE Goal
  BY <1>3, <1>11 DEF ContainerDies
<1>12. Goal
  BY <1>4, <1>5, <1>6, <1>7, <1>8, <1>10, <1>11, <1>13 DEF Next, Creation, Creating
<1> QED
  BY <1>12 DEF Goal

\* A creation: Docker gets the next container, which had no files.
LEMMA Created ==
  ASSUME PoolConstants, Inv, Creation
  PROVE  /\ FreshId \in Containers /\ docker[FreshId] = "none" /\ left[FreshId] = {}
         /\ docker'[FreshId] \in {"running", "leaked"}
         /\ docker'[FreshId] = "running" => Creating
         /\ \A c \in Containers \ {FreshId} : docker'[c] = docker[c]
         /\ FreshId \notin ToSet(idle) /\ FreshId \notin WarmMade
         /\ \A j \in Jobs : ~Claims(j, FreshId)
         /\ docker' \in [Containers -> {"none", "running", "exited", "gone", "leaked"}]
<1>1. PICK v \in {"running", "leaked"} :
        /\ FreshId \in Containers /\ docker' = [docker EXCEPT ![FreshId] = v]
        /\ v = "running" => Creating
  BY DEF Creation, Creating, Leaking, WarmCreate, Create
<1>2. docker[FreshId] = "none"
  BY <1>1, FreshIsNext
<1>3. /\ docker'[FreshId] = v /\ \A c \in Containers \ {FreshId} : docker'[c] = docker[c]
      /\ docker' \in [Containers -> {"none", "running", "exited", "gone", "leaked"}]
  BY <1>1 DEF Inv, TypeOK
<1>4. docker'[FreshId] \in {"running", "leaked"} /\ (docker'[FreshId] = "running" => Creating)
  BY <1>1, <1>3
<1>5. /\ left[FreshId] = {} /\ FreshId \notin ToSet(idle) /\ FreshId \notin WarmMade
      /\ \A j \in Jobs : ~Claims(j, FreshId)
  BY <1>1, <1>2 DEF Inv, Clean, OneMaster
<1> QED
  BY <1>1, <1>2, <1>3, <1>4, <1>5

LEMMA NumberedStep ==
  ASSUME PoolConstants, Inv, [Next]_vars
  PROVE  Numbered'
<1>1. CASE Creation
  BY <1>1, NumberedGrows
<1>2. CASE ~Creation
  BY <1>2, KnownStays, NumberedStays DEF Inv
<1> QED
  BY <1>1, <1>2

\* What Docker knew it goes on to know.
LEMMA KnownForever ==
  ASSUME PoolConstants, Inv, [Next]_vars, NEW c \in Containers, docker[c] # "none"
  PROVE  docker'[c] # "none"
<1>1. CASE Creation
  BY <1>1, Created
<1>2. CASE ~Creation
  BY <1>2, KnownStays
<1> QED
  BY <1>1, <1>2

LEMMA ReapsStep ==
  ASSUME PoolConstants, Inv, [Next]_vars
  PROVE  ReapsKnown'
<1>1. \A c \in Containers : docker[c] # "none" => docker'[c] # "none"
  BY KnownForever
<1>2. warm.ids \subseteq Containers /\ reaper.ids \subseteq Containers
  BY DEF Inv, TypeOK
<1>3. Orphans({}) \subseteq Containers /\ Orphans(reaper.ids) \subseteq Containers
  BY DEF Orphans
<1>4. /\ \A c \in Orphans({}) : docker[c] # "none"
      /\ \A c \in Orphans(reaper.ids) : docker[c] # "none"
  BY DEF Orphans, Exists, Kept
<1>5. warm'.pc = "destroy" =>
        (warm.pc = "destroy" /\ warm'.ids \subseteq warm.ids) \/ warm'.ids = Orphans({})
  <2>1. CASE WarmList
    BY <2>1 DEF WarmList, Inv, TypeOK
  <2>2. CASE WarmDestroy
    BY <2>2 DEF WarmDestroy, Inv, TypeOK
  <2>3. CASE WarmBegin \/ WarmLock \/ WarmCreate \/ WarmPut \/ WarmEnd
    <3>1. warm'.pc # "destroy"
      <4>1. CASE WarmBegin
        BY <4>1 DEF WarmBegin
      <4>2. CASE WarmLock \/ WarmCreate \/ WarmPut \/ WarmEnd
        BY <4>2 DEF WarmLock, WarmCreate, WarmPut, WarmEnd, Inv, TypeOK
      <4> QED
        BY <2>3, <4>1, <4>2
    <3> QED
      BY <3>1
  <2>4. CASE UNCHANGED warm
    BY <2>4
  <2> QED
    BY <2>1, <2>2, <2>3, <2>4 DEF Next, vars, TakeIdle, Validate, Discard, NothingIdle,
       TakeGrowLock, Grow, Create, CreateFails, Grown, TimesOut, ArchiveFails,
       PutArchive, Exec, Release, ResetWorkspace, Return, Replace, Snapshot,
       ReaperList, ReaperDestroy, ReaperSleeps, ContainerDies
<1>6. reaper'.pc = "destroy" =>
        (reaper.pc = "destroy" /\ reaper'.ids \subseteq reaper.ids)
          \/ reaper'.ids = Orphans(reaper.ids)
  <2>1. CASE Snapshot \/ ReaperList \/ ReaperSleeps \/ WarmEnd
    BY <2>1 DEF Snapshot, ReaperList, ReaperSleeps, WarmEnd, Inv, TypeOK
  <2>2. CASE ReaperDestroy
    BY <2>2 DEF ReaperDestroy, Inv, TypeOK
  <2>3. CASE UNCHANGED reaper
    BY <2>3
  <2> QED
    BY <2>1, <2>2, <2>3 DEF Next, vars, TakeIdle, Validate, Discard, NothingIdle,
       TakeGrowLock, Grow, Create, CreateFails, Grown, TimesOut, ArchiveFails,
       PutArchive, Exec, Release, ResetWorkspace, Return, Replace, WarmBegin,
       WarmLock, WarmCreate, WarmPut, WarmList, WarmDestroy, ContainerDies
<1>7. warm'.pc = "destroy" => \A c \in warm'.ids : docker[c] # "none" /\ c \in Containers
  BY <1>2, <1>3, <1>4, <1>5 DEF Inv, ReapsKnown
<1>8. reaper'.pc = "destroy" => \A c \in reaper'.ids : docker[c] # "none" /\ c \in Containers
  BY <1>2, <1>3, <1>4, <1>6 DEF Inv, ReapsKnown
<1> QED
  BY <1>1, <1>7, <1>8 DEF ReapsKnown

-----------------------------------------------------------------------------
(***************************************************************************)
(* No container has two masters.                                           *)
(***************************************************************************)

\* It is enough to look at the container that changes hands.
LEMMA ChangesHands ==
  ASSUME PoolConstants, Inv, [Next]_vars, NEW x \in Containers \cup {None},
         idle' \in Seq(Containers), ToSet(idle)' \subseteq Containers,
         warm'.pc = "made" => \E c \in Containers : warm'.ids = {c},
         \A c \in Containers \ {x} :
           /\ c \in ToSet(idle)' => c \in ToSet(idle)
           /\ c \in WarmMade' => c \in WarmMade
           /\ \A k \in Jobs : Claims(k, c)' => Claims(k, c)
           /\ c \in ToSet(idle) \cup WarmMade => left'[c] = {},
         x \in Containers =>
           /\ docker'[x] # "none"
           /\ x \in ToSet(idle)' \cup WarmMade' => left'[x] = {}
           /\ x \notin ToSet(idle)' \/ x \notin WarmMade'
           /\ \A k \in Jobs : Claims(k, x)' =>
                /\ x \notin ToSet(idle)' /\ x \notin WarmMade'
                /\ \A m \in Jobs \ {k} : ~Claims(m, x)'
  PROVE  OneMaster'
<1>1. \A c \in Containers : docker[c] # "none" => docker'[c] # "none"
  BY KnownForever
<1>2. WarmMade' \subseteq Containers
  BY DEF WarmMade
<1>3. ASSUME NEW c \in Containers, c \in ToSet(idle)' \cup WarmMade'
      PROVE  docker'[c] # "none" /\ left'[c] = {}
  BY <1>1, <1>3 DEF Inv, OneMaster
<1>4. ToSet(idle)' \cap WarmMade' = {}
  BY <1>2 DEF Inv, OneMaster
<1>5. ASSUME NEW j \in Jobs, NEW c \in Containers, Claims(j, c)'
      PROVE  /\ docker'[c] # "none" /\ c \notin ToSet(idle)' /\ c \notin WarmMade'
             /\ \A k \in Jobs \ {j} : ~Claims(k, c)'
  BY <1>1, <1>5 DEF Inv, OneMaster
<1> QED
  BY <1>2, <1>3, <1>4, <1>5 DEF OneMaster

\* A run that is not done claims nothing new when it moves on.
LEMMA ClaimsNoMore ==
  ASSUME Inv, NEW j \in Jobs, NEW p, To(j, p), script[j].pc # "done"
  PROVE  \A k \in Jobs, c \in Containers : Claims(k, c)' => Claims(k, c)
BY Moved DEF Claims

LEMMA MasterTo ==
  ASSUME PoolConstants, Inv, [Next]_vars, NEW j \in Jobs, NEW p, To(j, p),
         script[j].pc # "done", UNCHANGED <<idle, warm>>,
         \A c \in ToSet(idle) \cup WarmMade : left'[c] = {}
  PROVE  OneMaster'
<1>1. \A k \in Jobs, c \in Containers : Claims(k, c)' => Claims(k, c)
  BY ClaimsNoMore
<1>2. WarmMade' = WarmMade /\ ToSet(idle)' = ToSet(idle)
  BY DEF WarmMade
<1>3. None \in Containers \cup {None} /\ None \notin Containers
  BY DEF None, Containers
<1>4. ToSet(idle)' \subseteq Containers
  BY DEF Inv, TypeOK
<1> QED
  BY <1>1, <1>2, <1>3, <1>4, ChangesHands, SMTT(60) DEF Inv, OneMaster

LEMMA MasterStill ==
  ASSUME PoolConstants, Inv, [Next]_vars, UNCHANGED <<script, idle, left>>,
         warm' = warm \/ warm'.pc # "made"
  PROVE  OneMaster'
<1>1. \A k \in Jobs, c \in Containers : Claims(k, c)' => Claims(k, c)
  BY DEF Claims
<1>2. WarmMade' \subseteq WarmMade /\ ToSet(idle)' = ToSet(idle)
  BY DEF WarmMade
<1>3. None \in Containers \cup {None} /\ None \notin Containers
  BY DEF None, Containers
<1> QED
  BY <1>1, <1>2, <1>3, ChangesHands DEF Inv, OneMaster, TypeOK

LEMMA MasterStep ==
  ASSUME PoolConstants, Inv, [Next]_vars
  PROVE  OneMaster'
<1>1. ASSUME NEW j \in Jobs, TakeIdle(j) PROVE OneMaster'
  <2>0. PICK x : x = Head(idle)
    OBVIOUS
  <2>1. /\ idle' \in Seq(Containers) /\ x \in ToSet(idle) /\ x \in Containers
        /\ ToSet(idle)' = ToSet(idle) \ {x}
    BY <2>0, <1>1, TailFacts DEF TakeIdle, Inv, TypeOK, OneMaster
  <2>2. /\ script'[j].c = x /\ script'[j].pc = "check"
        /\ \A k \in Jobs \ {j} : script'[k] = script[k]
    BY <2>0, <1>1 DEF TakeIdle, Inv, TypeOK
  <2>3. WarmMade' = WarmMade /\ left' = left /\ docker' = docker /\ warm' = warm
    BY <1>1 DEF TakeIdle, WarmMade
  <2>4. /\ docker[x] # "none" /\ left[x] = {} /\ x \notin WarmMade
        /\ \A k \in Jobs : ~Claims(k, x)
    BY <2>1 DEF Inv, OneMaster
  <2>5. \A c \in Containers \ {x}, k \in Jobs : Claims(k, c)' => Claims(k, c)
    BY <2>2 DEF Claims
  <2>6. \A k \in Jobs \ {j} : ~Claims(k, x)'
    BY <2>2, <2>4 DEF Claims
  <2>7. ToSet(idle) \subseteq Containers
    BY DEF Inv, TypeOK
  <2> QED
    BY <2>1, <2>3, <2>4, <2>5, <2>6, <2>7, ChangesHands DEF Inv, OneMaster
<1>2. ASSUME NEW j \in Jobs, Create(j) PROVE OneMaster'
  <2>0. PICK x : x = FreshId
    OBVIOUS
  <2>1. /\ x \in Containers /\ docker'[x] # "none" /\ left[x] = {}
        /\ x \notin ToSet(idle) /\ x \notin WarmMade
        /\ \A k \in Jobs : ~Claims(k, x)
    BY <2>0, <1>2, Created DEF Creation, Creating
  <2>2. /\ script'[j].c = x /\ \A k \in Jobs \ {j} : script'[k] = script[k]
    BY <2>0, <1>2 DEF Create, Inv, TypeOK
  <2>3. WarmMade' = WarmMade /\ left' = left /\ warm' = warm /\ idle' = idle
    BY <1>2 DEF Create, WarmMade
  <2>4. \A c \in Containers \ {x}, k \in Jobs : Claims(k, c)' => Claims(k, c)
    BY <2>2 DEF Claims
  <2>5. \A k \in Jobs \ {j} : ~Claims(k, x)'
    BY <2>1, <2>2 DEF Claims
  <2> QED
    BY <2>1, <2>3, <2>4, <2>5, ChangesHands DEF Inv, OneMaster, TypeOK
<1>3. ASSUME NEW j \in Jobs, Return(j) PROVE OneMaster'
  <2>0. PICK x : x = script[j].c
    OBVIOUS
  <2>1. /\ x \in Containers /\ docker[x] # "none" /\ left[x] = {}
        /\ x \notin ToSet(idle) /\ x \notin WarmMade
        /\ \A k \in Jobs \ {j} : script[k].c = x => script[k].pc = "done"
    BY <2>0, <1>3, HoldsItsOwn DEF Return, Holding, Inv, Clean
  <2>2. /\ idle' \in Seq(Containers) /\ ToSet(idle)' = ToSet(idle) \cup {x}
        /\ ToSet(idle) \subseteq Containers
    BY <2>0, <1>3, <2>1, AppendFacts DEF Return, Inv, TypeOK, OneMaster
  <2>3. /\ script'[j].pc = "done" /\ \A k \in Jobs \ {j} : script'[k] = script[k]
    BY <1>3 DEF Return, To, Inv, TypeOK
  <2>4. WarmMade' = WarmMade /\ left' = left /\ docker' = docker /\ warm' = warm
    BY <1>3 DEF Return, WarmMade
  <2>5. \A c \in Containers, k \in Jobs : Claims(k, c)' => Claims(k, c) /\ c # x
    BY <2>0, <2>1, <2>3 DEF Claims
  <2> QED
    BY <2>1, <2>2, <2>4, <2>5, ChangesHands DEF Inv, OneMaster
<1>4. CASE WarmCreate
  <2>0. PICK x : x = FreshId
    OBVIOUS
  <2>1. /\ x \in Containers /\ docker'[x] # "none" /\ left[x] = {}
        /\ x \notin ToSet(idle) /\ \A k \in Jobs : ~Claims(k, x)
    BY <2>0, <1>4, Created DEF Creation, Creating
  <2>2. warm'.ids = {x} /\ WarmMade' = {x}
    BY <2>0, <1>4 DEF WarmCreate, WarmMade, Inv, TypeOK
  <2>3. left' = left /\ idle' = idle /\ script' = script
    BY <1>4 DEF WarmCreate
  <2>4. \A c \in Containers, k \in Jobs : Claims(k, c)' => Claims(k, c)
    BY <2>3 DEF Claims
  <2> QED
    BY <2>1, <2>2, <2>3, <2>4, ChangesHands DEF Inv, OneMaster, TypeOK
<1>5. CASE WarmPut
  <2>1. PICK x \in Containers : warm.ids = {x}
    BY <1>5 DEF WarmPut, Inv, OneMaster
  <2>2. (CHOOSE c \in warm.ids : TRUE) = x
    BY <2>1
  <2>3. WarmMade = {x} /\ WarmMade' = {}
    BY <1>5, <2>1 DEF WarmPut, WarmMade, Inv, TypeOK
  <2>4. /\ docker[x] # "none" /\ left[x] = {} /\ x \notin ToSet(idle)
        /\ \A k \in Jobs : ~Claims(k, x)
    BY <2>3 DEF Inv, OneMaster
  <2>5. /\ idle' \in Seq(Containers) /\ ToSet(idle)' = ToSet(idle) \cup {x}
        /\ ToSet(idle) \subseteq Containers
    BY <1>5, <2>2, <2>4, AppendFacts DEF WarmPut, Inv, TypeOK, OneMaster
  <2>6. left' = left /\ docker' = docker /\ script' = script /\ warm'.pc # "made"
    BY <1>5 DEF WarmPut, Inv, TypeOK
  <2>7. \A c \in Containers, k \in Jobs : Claims(k, c)' => Claims(k, c)
    BY <2>6 DEF Claims
  <2> QED
    BY <2>3, <2>4, <2>5, <2>6, <2>7, ChangesHands DEF Inv, OneMaster
<1>6. ASSUME NEW j \in Jobs, PutArchive(j) \/ ResetWorkspace(j) PROVE OneMaster'
  <2>1. /\ script[j].c \notin ToSet(idle) \cup WarmMade /\ script[j].c \in Containers
    BY <1>6, HoldsItsOwn DEF PutArchive, ResetWorkspace, Holding
  <2>2. \A c \in Containers \ {script[j].c} : left'[c] = left[c]
    BY <1>6 DEF PutArchive, ResetWorkspace, Inv, TypeOK
  <2>3. WarmMade \subseteq Containers /\ ToSet(idle) \subseteq Containers
    BY DEF Inv, OneMaster, TypeOK, WarmMade
  <2>4. \A c \in ToSet(idle) \cup WarmMade : left'[c] = {}
    BY <2>1, <2>2, <2>3 DEF Inv, OneMaster
  <2>5. script[j].pc # "done" /\ UNCHANGED <<idle, warm>>
    BY <1>6 DEF PutArchive, ResetWorkspace
  <2>6. \E p : To(j, p)
    BY <1>6 DEF PutArchive, ResetWorkspace
  <2> QED
    BY <2>4, <2>5, <2>6, MasterTo
<1>7. ASSUME NEW j \in Jobs,
             Validate(j) \/ Discard(j) \/ NothingIdle(j) \/ TakeGrowLock(j) \/ Grow(j)
               \/ CreateFails(j) \/ Grown(j) \/ TimesOut(j) \/ ArchiveFails(j) \/ Exec(j) \/ Release(j)
               \/ Replace(j)
      PROVE  OneMaster'
  <2>1. script[j].pc # "done" /\ UNCHANGED <<idle, warm, left>>
    BY <1>7 DEF Validate, Discard, NothingIdle, TakeGrowLock, Grow, CreateFails, Grown,
                TimesOut, ArchiveFails, Exec, Release, Replace
  <2>2. \E p : To(j, p)
    BY <1>7 DEF Validate, Discard, NothingIdle, TakeGrowLock, Grow, CreateFails, Grown,
                TimesOut, ArchiveFails, Exec, Release, Replace
  <2> QED
    BY <2>1, <2>2, MasterTo DEF Inv, OneMaster
<1>8. CASE WarmBegin \/ WarmLock \/ WarmEnd \/ WarmList \/ WarmDestroy \/ Snapshot
             \/ ReaperList \/ ReaperDestroy \/ ReaperSleeps \/ ContainerDies
             \/ UNCHANGED vars
  <2>1. UNCHANGED <<script, idle, left>>
    BY <1>8 DEF WarmBegin, WarmLock, WarmEnd, WarmList, WarmDestroy, Snapshot,
                ReaperList, ReaperDestroy, ReaperSleeps, ContainerDies, vars
  <2>2. warm' = warm \/ warm'.pc # "made"
    <3>1. CASE WarmBegin
      BY <3>1 DEF WarmBegin
    <3>2. CASE WarmLock \/ WarmEnd \/ WarmList
      BY <3>2 DEF WarmLock, WarmEnd, WarmList, Inv, TypeOK
    <3>3. CASE WarmDestroy
      BY <3>3 DEF WarmDestroy, Inv, TypeOK
    <3> QED
      BY <1>8, <3>1, <3>2, <3>3 DEF Snapshot, ReaperList, ReaperDestroy,
                ReaperSleeps, ContainerDies, vars
  <2> QED
    BY <2>1, <2>2, MasterStill
<1> QED
  BY <1>1, <1>2, <1>3, <1>4, <1>5, <1>6, <1>7, <1>8 DEF Next

-----------------------------------------------------------------------------
(***************************************************************************)
(* Who uses what.                                                          *)
(***************************************************************************)

LEMMA UseTo ==
  ASSUME Inv, NEW j \in Jobs, NEW p, To(j, p), script[j].pc # "done",
         inUse' \subseteq Containers,
         \A c \in Containers \ {script[j].c} : c \in inUse' <=> c \in inUse,
         script[j].c \in inUse' => p \in Using \cup {"failed"},
         p \in Using => script[j].c \in inUse',
         p \in Holding \cup {"made"} => script[j].c \in Containers
  PROVE  UseKnown'
<1>1. \A k \in Jobs : /\ script'[k].pc = IF k = j THEN p ELSE script[k].pc
                      /\ script'[k].c = script[k].c
  BY Moved
<1>2. None \notin Containers
  BY DEF None, Containers
<1>3. ASSUME NEW c \in inUse'
      PROVE  \E k \in Jobs : Claims(k, c)' /\ script'[k].pc \in Using \cup {"failed"}
  <2>1. CASE c = script[j].c
    BY <1>1, <1>2, <2>1 DEF Claims, Using
  <2>2. CASE c # script[j].c
    <3>1. PICK k \in Jobs : Claims(k, c) /\ script[k].pc \in Using \cup {"failed"}
      BY <2>2 DEF Inv, UseKnown
    <3> QED
      BY <1>1, <2>2, <3>1 DEF Claims
  <2> QED
    BY <2>1, <2>2
<1>4. ASSUME NEW k \in Jobs \ {j}, script[k].pc \in Using
      PROVE  script[k].c \in inUse' /\ script[k].c \in Containers
  <2>1. script[k].c \in inUse /\ script[k].c \in Containers /\ script[j].c # script[k].c
    BY <1>4, HoldsItsOwn DEF Inv, UseKnown, Using, Holding
  <2> QED
    BY <2>1
<1> QED
  BY <1>1, <1>3, <1>4 DEF Inv, UseKnown

LEMMA UseStep ==
  ASSUME PoolConstants, Inv, [Next]_vars
  PROVE  UseKnown'
<1>0. inUse \subseteq Containers
  BY DEF Inv, TypeOK
<1>1. ASSUME NEW j \in Jobs, NEW x \in Containers, ~(\E k \in Jobs : Claims(k, x)),
             script[j].pc \notin Using \cup {"failed", "done"}, inUse' = inUse,
             script'[j].c = x, script'[j].pc \in {"check", "made"},
             \A k \in Jobs \ {j} : script'[k] = script[k]
      PROVE  UseKnown'
  <2>1. ASSUME NEW c \in inUse'
        PROVE  \E k \in Jobs : Claims(k, c)' /\ script'[k].pc \in Using \cup {"failed"}
    <3>1. PICK k \in Jobs : Claims(k, c) /\ script[k].pc \in Using \cup {"failed"}
      BY <1>1 DEF Inv, UseKnown
    <3> QED
      BY <1>1, <3>1 DEF Claims
  <2> QED
    BY <1>1, <2>1 DEF Inv, UseKnown, Using, Holding
<1>2. ASSUME NEW j \in Jobs, TakeIdle(j) PROVE UseKnown'
  <2>1. PICK x : x = Head(idle)
    OBVIOUS
  <2>2. x \in Containers /\ ~(\E k \in Jobs : Claims(k, x))
    BY <1>2, <2>1, TailFacts DEF TakeIdle, Inv, TypeOK, OneMaster
  <2>3. /\ script'[j].c = x /\ script'[j].pc = "check" /\ inUse' = inUse
        /\ \A k \in Jobs \ {j} : script'[k] = script[k]
        /\ script[j].pc \notin Using \cup {"failed", "done"}
    BY <1>2, <2>1 DEF TakeIdle, Inv, TypeOK, Using
  <2> QED
    BY <1>1, <2>2, <2>3
<1>3. ASSUME NEW j \in Jobs, Create(j) PROVE UseKnown'
  <2>1. PICK x : x = FreshId
    OBVIOUS
  <2>2. x \in Containers /\ ~(\E k \in Jobs : Claims(k, x))
    BY <1>3, <2>1, Created DEF Creation, Creating
  <2>3. /\ script'[j].c = x /\ script'[j].pc = "made" /\ inUse' = inUse
        /\ \A k \in Jobs \ {j} : script'[k] = script[k]
        /\ script[j].pc \notin Using \cup {"failed", "done"}
    BY <1>3, <2>1 DEF Create, Inv, TypeOK, Using
  <2> QED
    BY <1>1, <2>2, <2>3
<1>4. ASSUME NEW j \in Jobs,
             NothingIdle(j) \/ TakeGrowLock(j) \/ Grow(j) \/ CreateFails(j) \/ TimesOut(j)
               \/ ResetWorkspace(j) \/ Return(j) \/ Replace(j)
      PROVE  UseKnown'
  <2>1. /\ script[j].pc \notin Using \cup {"failed", "done"} /\ inUse' = inUse
        /\ \E p \in {"wantlock", "asklocked", "creating", "wait", "failed", "return",
                     "replace", "done"} :
             To(j, p) /\ (p \in {"return", "replace"} => script[j].pc = "reset")
    BY <1>4 DEF NothingIdle, TakeGrowLock, Grow, CreateFails, TimesOut,
                ResetWorkspace, Return, Replace, Using
  <2>2. script[j].c \notin inUse
    BY <1>0, <2>1, NotInUse
  <2>3. script[j].pc = "reset" => script[j].c \in Containers
    BY DEF Inv, UseKnown, Holding
  <2> QED
    BY <1>0, <2>1, <2>2, <2>3, UseTo DEF Using, Holding
<1>5. ASSUME NEW j \in Jobs, Validate(j) \/ Discard(j) PROVE UseKnown'
  <2>1. script[j].c \in Containers
    BY <1>5 DEF Validate, Discard, Inv, UseKnown, Holding
  <2>2. script[j].from \in {"ask", "asklocked", "wait"}
    BY DEF Inv, TypeOK
  <2>3. CASE Validate(j)
    <3>1. To(j, "hold") /\ inUse' = inUse \cup {script[j].c} /\ script[j].pc = "check"
      BY <2>3 DEF Validate
    <3> QED
      BY <1>0, <2>1, <3>1, UseTo DEF Using
  <2>4. CASE Discard(j)
    <3>1. To(j, script[j].from) /\ inUse' = inUse \ {script[j].c} /\ script[j].pc = "check"
      BY <2>4 DEF Discard
    <3> QED
      BY <1>0, <2>1, <2>2, <3>1, UseTo DEF Using, Holding
  <2> QED
    BY <1>5, <2>3, <2>4
<1>6. ASSUME NEW j \in Jobs,
             Grown(j) \/ ArchiveFails(j) \/ PutArchive(j) \/ Exec(j) \/ Release(j)
      PROVE  UseKnown'
  <2>1. script[j].pc \in Using \cup {"made"} /\ script[j].c \in Containers
    BY <1>6 DEF Grown, ArchiveFails, PutArchive, Exec, Release, Using, Inv, UseKnown,
                Holding
  <2>2. CASE Grown(j)
    BY <1>0, <2>1, <2>2, UseTo DEF Grown, Using
  <2>3. CASE Release(j)
    BY <1>0, <2>1, <2>3, UseTo DEF Release, Using
  <2>4. CASE ArchiveFails(j) \/ PutArchive(j) \/ Exec(j)
    <3>1. /\ inUse' = inUse /\ script[j].pc \in Using
          /\ \E p \in {"failed", "run", "release"} : To(j, p)
      BY <2>4 DEF ArchiveFails, PutArchive, Exec, Using
    <3>2. script[j].c \in inUse
      BY <3>1 DEF Inv, UseKnown
    <3> QED
      BY <1>0, <2>1, <3>1, <3>2, UseTo DEF Using
  <2> QED
    BY <1>6, <2>2, <2>3, <2>4
<1>7. CASE UNCHANGED <<script, inUse>>
  BY <1>7 DEF Inv, UseKnown, Claims
<1> QED
  BY <1>2, <1>3, <1>4, <1>5, <1>6, <1>7 DEF Next, vars, WarmBegin, WarmLock, WarmCreate,
     WarmPut, WarmEnd, WarmList, WarmDestroy, Snapshot, ReaperList, ReaperDestroy,
     ReaperSleeps, ContainerDies

-----------------------------------------------------------------------------
(***************************************************************************)
(* The growth lock.                                                        *)
(***************************************************************************)

LEMMA SerialStep ==
  ASSUME PoolConstants, Inv, [Next]_vars
  PROVE  Serial'
<1> USE DEF Inv, TypeOK, Serial, Locked, PoolConstants
<1>1. ASSUME NEW j \in Jobs, TakeIdle(j) PROVE Serial'
  BY <1>1 DEF TakeIdle
<1>2. ASSUME NEW j \in Jobs, Validate(j) PROVE Serial'
  BY <1>2 DEF Validate, To, Unlock
<1>19. ASSUME NEW j \in Jobs, Discard(j) PROVE Serial'
  BY <1>19 DEF Discard, To, Uncounted
<1>3. ASSUME NEW j \in Jobs, NothingIdle(j) PROVE Serial'
  BY <1>3 DEF NothingIdle, To
<1>4. ASSUME NEW j \in Jobs, TakeGrowLock(j) PROVE Serial'
  BY <1>4 DEF TakeGrowLock, To
<1>5. ASSUME NEW j \in Jobs, Grow(j) PROVE Serial'
  BY <1>5 DEF Grow, To, Unlock
<1>6. ASSUME NEW j \in Jobs, Create(j) PROVE Serial'
  BY <1>6 DEF Create
<1>7. ASSUME NEW j \in Jobs, CreateFails(j) PROVE Serial'
  BY <1>7 DEF CreateFails, To, Unlock
<1>8. ASSUME NEW j \in Jobs, Grown(j) PROVE Serial'
  BY <1>8 DEF Grown, To, Unlock
<1>9. ASSUME NEW j \in Jobs, TimesOut(j) PROVE Serial'
  BY <1>9 DEF TimesOut, To
<1>10. ASSUME NEW j \in Jobs, ArchiveFails(j) \/ PutArchive(j) \/ Exec(j) \/ Release(j)
                                \/ ResetWorkspace(j) \/ Return(j)
       PROVE  Serial'
  <2>1. /\ ~Locked(j) /\ UNCHANGED <<warm, growLock, created>>
        /\ \E p \in {"failed", "run", "release", "reset", "return", "replace", "done"} :
             To(j, p)
    BY <1>10 DEF ArchiveFails, PutArchive, Exec, Release, ResetWorkspace, Return
  <2> QED
    BY <2>1 DEF To
<1>11. ASSUME NEW j \in Jobs, Replace(j) PROVE Serial'
  BY <1>11 DEF Replace, To, Uncounted
<1>12. CASE WarmBegin
  <2>1. warm'.pc \in {"list", "lock"} /\ warm.pc = "off"
    BY <1>12 DEF WarmBegin
  <2> QED
    BY <1>12, <2>1 DEF WarmBegin
<1>17. CASE WarmLock
  BY <1>17 DEF WarmLock
<1>13. CASE WarmCreate
  <2>1. warm'.pc = "made" /\ warm'.made = warm.made
    BY <1>13 DEF WarmCreate
  <2>2. Len(idle) \in Nat
    BY DEF OneMaster
  <2>3. warm.made < MinSize
    BY <1>13, <2>2 DEF WarmCreate
  <2> QED
    BY <1>13, <2>1, <2>3 DEF WarmCreate
<1>18. CASE WarmEnd
  BY <1>18 DEF WarmEnd
<1>14. CASE WarmPut
  BY <1>14 DEF WarmPut
<1>15. CASE WarmList \/ WarmDestroy
  BY <1>15 DEF WarmList, WarmDestroy
<1>16. CASE Snapshot \/ ReaperList \/ ReaperDestroy \/ ReaperSleeps \/ ContainerDies
               \/ UNCHANGED vars
  BY <1>16 DEF Snapshot, ReaperList, ReaperDestroy, ReaperSleeps, ContainerDies, vars
<1> QED
  BY <1>1, <1>2, <1>3, <1>4, <1>5, <1>6, <1>7, <1>8, <1>9, <1>10, <1>11, <1>12, <1>13,
     <1>14, <1>15, <1>16, <1>17, <1>18, <1>19 DEF Next

-----------------------------------------------------------------------------
(***************************************************************************)
(* The workspaces.                                                         *)
(***************************************************************************)

\* What a run must find in the workspace of its container, where it is.
Expects(p, j, fs) ==
  /\ p \in {"check", "made", "hold", "return"} => fs = {}
  /\ p = "run" => fs = {j}

\* A run moves on; no workspace changes but that of the container it holds.
LEMMA CleanTo ==
  ASSUME PoolConstants, Inv, [Next]_vars, NEW j \in Jobs, NEW p, To(j, p),
         script[j].pc # "done",
         left' = left \/ script[j].pc \in Holding,
         \A c \in Containers \ {script[j].c} : left'[c] = left[c],
         Expects(p, j, left'[script[j].c])
  PROVE  Clean'
<1>1. \A k \in Jobs : /\ script'[k].pc = IF k = j THEN p ELSE script[k].pc
                      /\ script'[k].c = script[k].c
  BY Moved
<1>2. \A c \in Containers : docker'[c] = "none" => docker[c] = "none"
  BY KnownForever
<1>3. ASSUME NEW c \in Containers, docker[c] = "none"
      PROVE  left'[c] = {}
  <2>1. script[j].pc \in Holding => docker[script[j].c] # "none"
    BY HoldsItsOwn
  <2> QED
    BY <1>3, <2>1 DEF Inv, Clean
<1>4. ASSUME NEW k \in Jobs \ {j}, script[k].pc \in Holding \cup {"made"}
      PROVE  left'[script[k].c] = left[script[k].c]
  <2>1. script[k].c \in Containers /\ script[k].c # script[j].c
    BY <1>4, HoldsItsOwn
  <2> QED
    BY <2>1
<1> QED
  BY <1>1, <1>2, <1>3, <1>4 DEF Inv, Clean, Expects, Holding

LEMMA CleanStep ==
  ASSUME PoolConstants, Inv, [Next]_vars
  PROVE  Clean'
<1>0. \A c \in Containers : docker'[c] = "none" => docker[c] = "none"
  BY KnownForever
<1>1. ASSUME NEW j \in Jobs, NEW x \in Containers, left[x] = {}, left' = left,
             script'[j].c = x, script'[j].pc \in {"check", "made"},
             \A k \in Jobs \ {j} : script'[k] = script[k]
      PROVE  Clean'
  BY <1>0, <1>1 DEF Inv, Clean
<1>2. ASSUME NEW j \in Jobs, TakeIdle(j) PROVE Clean'
  <2>1. PICK x : x = Head(idle)
    OBVIOUS
  <2>2. x \in Containers /\ left[x] = {}
    BY <1>2, <2>1, TailFacts DEF TakeIdle, Inv, TypeOK, OneMaster
  <2>3. /\ script'[j].c = x /\ script'[j].pc = "check" /\ left' = left
        /\ \A k \in Jobs \ {j} : script'[k] = script[k]
    BY <1>2, <2>1 DEF TakeIdle, Inv, TypeOK
  <2> QED
    BY <1>1, <2>2, <2>3
<1>3. ASSUME NEW j \in Jobs, Create(j) PROVE Clean'
  <2>1. PICK x : x = FreshId
    OBVIOUS
  <2>2. x \in Containers /\ left[x] = {}
    BY <1>3, <2>1, Created DEF Creation, Creating
  <2>3. /\ script'[j].c = x /\ script'[j].pc = "made" /\ left' = left
        /\ \A k \in Jobs \ {j} : script'[k] = script[k]
    BY <1>3, <2>1 DEF Create, Inv, TypeOK
  <2> QED
    BY <1>1, <2>2, <2>3
<1>4. ASSUME NEW j \in Jobs, Validate(j) \/ Discard(j) \/ Grown(j) PROVE Clean'
  <2>1. left[script[j].c] = {} /\ script[j].pc # "done" /\ left' = left
    BY <1>4 DEF Validate, Discard, Grown, Inv, Clean
  <2>2. \E p : To(j, p) /\ p # "run"
    BY <1>4 DEF Validate, Discard, Grown, Inv, TypeOK
  <2> QED
    BY <2>1, <2>2, CleanTo DEF Expects
<1>5. ASSUME NEW j \in Jobs,
             NothingIdle(j) \/ TakeGrowLock(j) \/ Grow(j) \/ CreateFails(j) \/ TimesOut(j)
               \/ ArchiveFails(j) \/ Exec(j) \/ Release(j) \/ Replace(j)
      PROVE  Clean'
  <2>1. /\ script[j].pc # "done" /\ left' = left
        /\ \E p \in {"wantlock", "asklocked", "creating", "wait", "failed", "release",
                     "reset", "done"} : To(j, p)
    BY <1>5 DEF NothingIdle, TakeGrowLock, Grow, CreateFails, TimesOut,
                ArchiveFails, Exec, Release, Replace
  <2> QED
    BY <2>1, CleanTo DEF Expects
<1>6. ASSUME NEW j \in Jobs, PutArchive(j) PROVE Clean'
  <2>1. /\ script[j].pc \in Holding /\ script[j].c \in Containers /\ left[script[j].c] = {}
        /\ script[j].pc # "done"
    BY <1>6 DEF PutArchive, Holding, Inv, UseKnown, Clean
  <2>2. CASE docker[script[j].c] = "running"
    <3>1. To(j, "run") /\ left' = [left EXCEPT ![script[j].c] = @ \cup {j}]
      BY <1>6, <2>2 DEF PutArchive
    <3>2. /\ \A c \in Containers \ {script[j].c} : left'[c] = left[c]
          /\ left'[script[j].c] = {j}
      BY <2>1, <3>1 DEF Inv, TypeOK
    <3> QED
      BY <2>1, <3>1, <3>2, CleanTo DEF Expects
  <2>3. CASE docker[script[j].c] # "running"
    <3>1. To(j, "release") /\ left' = left
      BY <1>6, <2>3 DEF PutArchive
    <3> QED
      BY <2>1, <3>1, CleanTo DEF Expects
  <2> QED
    BY <2>2, <2>3
<1>7. ASSUME NEW j \in Jobs, ResetWorkspace(j) PROVE Clean'
  <2>1. /\ script[j].pc \in Holding /\ script[j].c \in Containers
        /\ script[j].pc # "done"
    BY <1>7 DEF ResetWorkspace, Holding, Inv, UseKnown
  <2>2. CASE To(j, "replace") /\ left' = left
    BY <2>1, <2>2, CleanTo DEF Expects
  <2>3. CASE To(j, "return") /\ left' = [left EXCEPT ![script[j].c] = {}]
    <3>1. /\ \A c \in Containers \ {script[j].c} : left'[c] = left[c]
          /\ left'[script[j].c] = {}
      BY <2>1, <2>3 DEF Inv, TypeOK
    <3> QED
      BY <2>1, <2>3, <3>1, CleanTo DEF Expects
  <2> QED
    BY <1>7, <2>2, <2>3 DEF ResetWorkspace
<1>8. ASSUME NEW j \in Jobs, Return(j) PROVE Clean'
  <2>1. script[j].pc # "done" /\ left' = left /\ To(j, "done")
    BY <1>8 DEF Return
  <2> QED
    BY <2>1, CleanTo DEF Expects
<1>9. CASE UNCHANGED <<script, left>>
  BY <1>0, <1>9 DEF Inv, Clean
<1> QED
  BY <1>2, <1>3, <1>4, <1>5, <1>6, <1>7, <1>8, <1>9 DEF Next, vars, WarmBegin, WarmLock,
     WarmCreate, WarmPut, WarmEnd, WarmList, WarmDestroy, Snapshot, ReaperList,
     ReaperDestroy, ReaperSleeps, ContainerDies

-----------------------------------------------------------------------------
(***************************************************************************)
(* Types.                                                                  *)
(***************************************************************************)
Places ==
  {"ask", "wantlock", "asklocked", "check", "creating", "made", "wait", "hold", "run",
   "release", "reset", "return", "replace", "done", "failed"}

LEMMA TypeTo ==
  ASSUME Inv, NEW j \in Jobs, NEW p \in Places, To(j, p)
  PROVE  script' \in [Jobs -> [pc : Places, c : Containers \cup {None},
                               from : {"ask", "asklocked", "wait"}]]
BY DEF Inv, TypeOK, To, Places

LEMMA DockerType ==
  ASSUME PoolConstants, Inv, [Next]_vars
  PROVE  docker' \in [Containers -> {"none", "running", "exited", "gone", "leaked"}]
<1>1. CASE Creation
  BY <1>1, Created
<1>2. CASE ~Creation
  BY <1>2, KnownStays
<1> QED
  BY <1>1, <1>2

LEMMA IdleType ==
  ASSUME PoolConstants, Inv, [Next]_vars
  PROVE  IsInjective(idle)' /\ ToSet(idle)' \subseteq Containers
<1>1. ASSUME NEW j \in Jobs, TakeIdle(j) PROVE IsInjective(idle)' /\ ToSet(idle)' \subseteq Containers
  BY <1>1, TailFacts DEF TakeIdle, Inv, TypeOK, OneMaster
<1>2. ASSUME NEW j \in Jobs, Return(j) PROVE IsInjective(idle)' /\ ToSet(idle)' \subseteq Containers
  <2>1. script[j].c \in Containers /\ script[j].c \notin ToSet(idle)
    BY <1>2, HoldsItsOwn DEF Return, Holding
  <2> QED
    BY <1>2, <2>1, AppendFacts DEF Return, Inv, TypeOK, OneMaster
<1>3. CASE WarmPut
  <2>1. PICK x \in Containers : warm.ids = {x}
    BY <1>3 DEF WarmPut, Inv, OneMaster
  <2>2. (CHOOSE c \in warm.ids : TRUE) = x
    BY <2>1
  <2>3. x \notin ToSet(idle)
    BY <1>3, <2>1 DEF WarmPut, WarmMade, Inv, OneMaster
  <2> QED
    BY <1>3, <2>2, <2>3, AppendFacts DEF WarmPut, Inv, TypeOK, OneMaster
<1>4. CASE UNCHANGED idle
  BY <1>4 DEF Inv, TypeOK
<1> QED
  BY <1>1, <1>2, <1>3, <1>4 DEF Next, vars, Validate, Discard, NothingIdle, TakeGrowLock, Grow,
     Create, CreateFails, Grown, TimesOut, ArchiveFails, PutArchive, Exec, Release,
     ResetWorkspace, Replace, WarmBegin, WarmLock, WarmCreate, WarmEnd, WarmList,
     WarmDestroy, Snapshot, ReaperList, ReaperDestroy, ReaperSleeps, ContainerDies

LEMMA TypeStep ==
  ASSUME PoolConstants, Inv, [Next]_vars
  PROVE  TypeOK'
<1>1. docker' \in [Containers -> {"none", "running", "exited", "gone", "leaked"}]
  BY DockerType
<1>2. IsInjective(idle)' /\ ToSet(idle)' \subseteq Containers
  BY IdleType
<1>3. \A j \in Jobs : script[j].pc \in Holding \cup {"made"} => script[j].c \in Containers
  BY DEF Inv, UseKnown
<1>4. \A j \in Jobs : script[j].pc = "made" => created < MaxSize
  BY DEF Inv, Serial
<1>5. warm.pc = "made" => created < MaxSize /\ warm.made < MinSize
  BY DEF Inv, Serial
<1>6. Uncounted \in 0..MaxSize
  BY DEF Inv, TypeOK, Uncounted, PoolConstants
<1>7. Cardinality(Jobs) \in Nat
  BY FS_CardinalityType DEF PoolConstants
<1>8. ASSUME NEW j \in Jobs, script[j].pc # "done" PROVE wanted + 1 \in 0..Cardinality(Jobs)
  <2> DEFINE Done == {k \in Jobs : script[k].pc = "done"}
  <2>1. Done \subseteq Jobs /\ Done # Jobs
    BY <1>8
  <2>2. Cardinality(Done) < Cardinality(Jobs) /\ Cardinality(Done) \in Nat
    BY <2>1, FS_Subset, FS_CardinalityType DEF PoolConstants
  <2>3. wanted <= Cardinality(Done)
    BY DEF Inv, Accounted
  <2> HIDE DEF Done
  <2> QED
    BY <1>7, <2>2, <2>3 DEF Inv, TypeOK
<1> DEFINE Rest ==
      /\ left' \in [Containers -> SUBSET Jobs]
      /\ inUse' \subseteq Containers /\ created' \in 0..MaxSize
      /\ growLock' \in Jobs \cup {"warmup", "free"}
      /\ script' \in [Jobs -> [pc : Places, c : Containers \cup {None},
                               from : {"ask", "asklocked", "wait"}]]
      /\ warm' \in [pc : {"off", "list", "destroy", "lock", "grow", "made"},
                    made : 0..MinSize, ids : SUBSET Containers]
      /\ wanted' \in 0..Cardinality(Jobs)
      /\ reaper' \in [pc : {"off", "sleep", "list", "destroy"}, ids : SUBSET Containers]
      /\ bad' \in [deaths : 0..MaxDeaths, faults : 0..MaxFaults, reaps : 0..MaxReaps]
<1>9. Fault => bad' \in [deaths : 0..MaxDeaths, faults : 0..MaxFaults, reaps : 0..MaxReaps]
  BY DEF Fault, Inv, TypeOK, PoolConstants
<1>10. \A j \in Jobs, p \in Places : To(j, p) =>
         script' \in [Jobs -> [pc : Places, c : Containers \cup {None},
                               from : {"ask", "asklocked", "wait"}]]
  BY TypeTo
<1>11. \A j \in Jobs : Unlock(j) => growLock' \in Jobs \cup {"warmup", "free"}
  BY DEF Unlock, Inv, TypeOK
<1>12. ASSUME NEW j \in Jobs, TakeIdle(j) PROVE Rest
  BY <1>12, TailFacts DEF TakeIdle, Inv, TypeOK, OneMaster, Places
<1>13. ASSUME NEW j \in Jobs, Create(j) PROVE Rest
  <2>1. script' \in [Jobs -> [pc : Places, c : Containers \cup {None},
                             from : {"ask", "asklocked", "wait"}]]
    <3>1. PICK x \in Containers : x = FreshId
      BY <1>13 DEF Create
    <3>2. script' = [script EXCEPT ![j].pc = "made", ![j].c = x]
      BY <1>13, <3>1 DEF Create
    <3>3. /\ script' = [k \in Jobs |-> script'[k]]
          /\ \A k \in Jobs \ {j} : script'[k] = script[k]
      BY <3>2 DEF Inv, TypeOK
    <3>4. script'[j] = [script[j] EXCEPT !.pc = "made", !.c = x]
      BY <3>2 DEF Inv, TypeOK
    <3>5. script[j] \in [pc : Places, c : Containers \cup {None},
                        from : {"ask", "asklocked", "wait"}]
      BY DEF Inv, TypeOK, Places
    <3>6. script'[j] \in [pc : Places, c : Containers \cup {None},
                         from : {"ask", "asklocked", "wait"}]
      BY <3>4, <3>5 DEF Places
    <3>7. \A k \in Jobs : script'[k] \in [pc : Places, c : Containers \cup {None},
                                         from : {"ask", "asklocked", "wait"}]
      BY <3>3, <3>6 DEF Inv, TypeOK, Places
    <3> QED
      BY <3>3, <3>7
  <2> QED
    BY <1>13, <2>1 DEF Create, Inv, TypeOK
<1>14. ASSUME NEW j \in Jobs, Validate(j) PROVE Rest
  <2>1. To(j, "hold") /\ "hold" \in Places /\ script[j].c \in Containers
    BY <1>3, <1>14 DEF Validate, Holding, Places
  <2> QED
    BY <1>10, <1>11, <1>14, <2>1 DEF Validate, Inv, TypeOK
<1>29. ASSUME NEW j \in Jobs, Discard(j) PROVE Rest
  <2>1. To(j, script[j].from) /\ script[j].from \in Places
    BY <1>29 DEF Discard, Inv, TypeOK, Places
  <2>2. bad' \in [deaths : 0..MaxDeaths, faults : 0..MaxFaults, reaps : 0..MaxReaps]
    BY <1>9, <1>29, Removed DEF Inv, TypeOK
  <2> QED
    BY <1>6, <1>10, <1>29, <2>1, <2>2 DEF Discard, Inv, TypeOK
<1>15. ASSUME NEW j \in Jobs, Grown(j) PROVE Rest
  <2>1. created + 1 \in 0..MaxSize /\ script[j].c \in Containers
    BY <1>3, <1>4, <1>15 DEF Grown, Inv, TypeOK, PoolConstants
  <2>2. To(j, "hold") /\ "hold" \in Places
    BY <1>15 DEF Grown, Places
  <2> QED
    BY <1>10, <1>11, <1>15, <2>1, <2>2 DEF Grown, Inv, TypeOK
<1>16. ASSUME NEW j \in Jobs, PutArchive(j) \/ ResetWorkspace(j) PROVE Rest
  <2>1. \E p \in Places : To(j, p)
    BY <1>16 DEF PutArchive, ResetWorkspace, Places
  <2>2. left' \in [Containers -> SUBSET Jobs]
    BY <1>16 DEF PutArchive, ResetWorkspace, Inv, TypeOK
  <2>3. bad' \in [deaths : 0..MaxDeaths, faults : 0..MaxFaults, reaps : 0..MaxReaps]
    BY <1>9, <1>16 DEF PutArchive, ResetWorkspace, Inv, TypeOK
  <2> QED
    BY <1>10, <1>16, <2>1, <2>2, <2>3 DEF PutArchive, ResetWorkspace, Inv, TypeOK
<1>17. ASSUME NEW j \in Jobs, Replace(j) PROVE Rest
  <2>1. To(j, "done") /\ "done" \in Places /\ script[j].pc # "done"
    BY <1>17 DEF Replace, Places
  <2>2. wanted' \in 0..Cardinality(Jobs)
    BY <1>8, <1>17, <2>1 DEF Replace
  <2>3. bad' \in [deaths : 0..MaxDeaths, faults : 0..MaxFaults, reaps : 0..MaxReaps]
    BY <1>9, <1>17, Removed DEF Inv, TypeOK
  <2> QED
    BY <1>6, <1>10, <1>17, <2>1, <2>2, <2>3 DEF Replace, Inv, TypeOK
<1>18. ASSUME NEW j \in Jobs,
              NothingIdle(j) \/ TakeGrowLock(j) \/ Grow(j) \/ CreateFails(j) \/ TimesOut(j)
                \/ ArchiveFails(j) \/ Exec(j) \/ Release(j) \/ Return(j)
       PROVE  Rest
  <2>1. \E p \in Places : To(j, p)
    BY <1>18 DEF NothingIdle, TakeGrowLock, Grow, CreateFails, TimesOut, ArchiveFails,
                 Exec, Release, Return, Places
  <2>2. bad' \in [deaths : 0..MaxDeaths, faults : 0..MaxFaults, reaps : 0..MaxReaps]
    BY <1>9, <1>18 DEF NothingIdle, TakeGrowLock, Grow, CreateFails, TimesOut,
                 ArchiveFails, Exec, Release, Return, Inv, TypeOK
  <2>3. growLock' \in Jobs \cup {"warmup", "free"}
    BY <1>11, <1>18 DEF NothingIdle, TakeGrowLock, Grow, CreateFails, TimesOut,
                 ArchiveFails, Exec, Release, Return, Inv, TypeOK
  <2>4. inUse' \subseteq inUse /\ UNCHANGED <<left, created, warm, wanted, reaper>>
    BY <1>18 DEF NothingIdle, TakeGrowLock, Grow, CreateFails, TimesOut,
                 ArchiveFails, Exec, Release, Return
  <2> QED
    BY <1>10, <2>1, <2>2, <2>3, <2>4 DEF Inv, TypeOK
<1>19. ASSUME WarmBegin PROVE Rest
  BY <1>7, <1>19 DEF WarmBegin, Inv, TypeOK, PoolConstants, Places
<1>20. ASSUME WarmLock \/ WarmCreate PROVE Rest
  <2>1. warm' \in [pc : {"off", "list", "destroy", "lock", "grow", "made"},
                   made : 0..MinSize, ids : SUBSET Containers]
    <3>1. CASE WarmLock
      BY <3>1 DEF WarmLock, Inv, TypeOK
    <3>2. CASE WarmCreate
      <4>1. {FreshId} \in SUBSET Containers
        BY <3>2 DEF WarmCreate
      <4> QED
        BY <3>2, <4>1 DEF WarmCreate, Inv, TypeOK
    <3> QED
      BY <1>20, <3>1, <3>2
  <2>2. growLock' \in Jobs \cup {"warmup", "free"}
    BY <1>20 DEF WarmLock, WarmCreate, Inv, TypeOK
  <2>3. UNCHANGED <<left, inUse, created, script, wanted, reaper, bad>>
    BY <1>20 DEF WarmLock, WarmCreate
  <2> QED
    BY <2>1, <2>2, <2>3 DEF Inv, TypeOK, Places
<1>21. ASSUME WarmPut PROVE Rest
  <2>1. created + 1 \in 0..MaxSize /\ warm.made + 1 \in 0..MinSize
    BY <1>5, <1>21 DEF WarmPut, Inv, TypeOK, PoolConstants
  <2> QED
    BY <1>21, <2>1 DEF WarmPut, Inv, TypeOK, Places
<1>22. ASSUME WarmEnd PROVE Rest
  <2>1. bad' \in [deaths : 0..MaxDeaths, faults : 0..MaxFaults, reaps : 0..MaxReaps]
    BY <1>9, <1>22 DEF WarmEnd, Inv, TypeOK
  <2>2. reaper' \in [pc : {"off", "sleep", "list", "destroy"}, ids : SUBSET Containers]
    BY <1>22 DEF WarmEnd, Inv, TypeOK
  <2>3. warm' \in [pc : {"off", "list", "destroy", "lock", "grow", "made"},
                   made : 0..MinSize, ids : SUBSET Containers]
    BY <1>22 DEF WarmEnd, Inv, TypeOK
  <2> QED
    BY <1>22, <2>1, <2>2, <2>3 DEF WarmEnd, Inv, TypeOK, Places
<1>23. ASSUME WarmList \/ WarmDestroy PROVE Rest
  <2>1. warm' \in [pc : {"off", "list", "destroy", "lock", "grow", "made"},
                   made : 0..MinSize, ids : SUBSET Containers]
    <3>1. CASE WarmList
      <4>1. Orphans({}) \in SUBSET Containers
        BY DEF Orphans
      <4> QED
        BY <3>1, <4>1 DEF WarmList, Inv, TypeOK
    <3>2. CASE WarmDestroy
      BY <3>2 DEF WarmDestroy, Inv, TypeOK
    <3> QED
      BY <1>23, <3>1, <3>2
  <2>2. bad' \in [deaths : 0..MaxDeaths, faults : 0..MaxFaults, reaps : 0..MaxReaps]
    BY <1>9, <1>23, ReapedIs DEF WarmList, WarmDestroy, Inv, TypeOK
  <2> QED
    BY <1>23, <2>1, <2>2 DEF WarmList, WarmDestroy, Inv, TypeOK, Places
<1>24. ASSUME Snapshot PROVE Rest
  BY <1>24 DEF Snapshot, Inv, TypeOK, PoolConstants, Places
<1>25. ASSUME ReaperList \/ ReaperDestroy \/ ReaperSleeps PROVE Rest
  <2>1. bad' \in [deaths : 0..MaxDeaths, faults : 0..MaxFaults, reaps : 0..MaxReaps]
    BY <1>9, <1>25, ReapedIs DEF ReaperList, ReaperDestroy, ReaperSleeps, Inv, TypeOK
  <2>2. reaper' \in [pc : {"off", "sleep", "list", "destroy"}, ids : SUBSET Containers]
    BY <1>25 DEF ReaperList, ReaperDestroy, ReaperSleeps, Orphans, Inv, TypeOK
  <2> QED
    BY <1>25, <2>1, <2>2 DEF ReaperList, ReaperDestroy, ReaperSleeps, Inv, TypeOK, Places
<1>26. ASSUME ContainerDies PROVE Rest
  BY <1>26 DEF ContainerDies, Inv, TypeOK, PoolConstants, Places
<1>27. ASSUME UNCHANGED vars PROVE Rest
  BY <1>27 DEF vars, Inv, TypeOK, Places
<1> HIDE DEF Rest
<1>28. Rest
  BY <1>12, <1>13, <1>14, <1>15, <1>16, <1>17, <1>18, <1>19, <1>20, <1>21, <1>22, <1>23,
     <1>24, <1>25, <1>26, <1>27, <1>29 DEF Next
<1> QED
  BY <1>1, <1>2, <1>28 DEF Rest, TypeOK, Places

-----------------------------------------------------------------------------
(***************************************************************************)
(* The count.                                                              *)
(***************************************************************************)

\* The run is why the container is counted.
Tracks(j, c) ==
  /\ script[j].c = c
  /\ script[j].pc \in Holding \/ (script[j].pc = "failed" /\ c \in inUse)

LEMMA TrackedIs ==
  ASSUME NEW c
  PROVE  /\ c \in Tracked <=> c \in ToSet(idle) \/ \E j \in Jobs : Tracks(j, c)
         /\ c \in Tracked' <=> c \in ToSet(idle)' \/ \E j \in Jobs : Tracks(j, c)'
BY DEF Tracked, Held, Tracks, Holding

LEMMA TrackedType ==
  ASSUME PoolConstants, Inv
  PROVE  /\ Tracked \subseteq Containers /\ IsFiniteSet(Tracked)
         /\ IsFiniteSet(Containers) /\ Cardinality(Tracked) \in Nat
         /\ created = Cardinality(Tracked)
<1>1. Tracked \subseteq Containers
  BY TrackedIs DEF Tracks, Inv, TypeOK, UseKnown
<1>2. IsFiniteSet(Containers)
  BY FS_Interval DEF Containers, PoolConstants
<1> QED
  BY <1>1, <1>2, FS_Subset, FS_CardinalityType DEF Inv, CountIsExact, Tracked

\* A run that moves on changes nothing in what the others track.
LEMMA OthersTrack ==
  ASSUME Inv, NEW j \in Jobs, NEW p, To(j, p), script[j].pc # "done",
         \A c \in Containers \ {script[j].c} : c \in inUse' <=> c \in inUse
  PROVE  \A k \in Jobs \ {j}, c \in Containers : Tracks(k, c)' <=> Tracks(k, c)
<1> SUFFICES ASSUME NEW k \in Jobs \ {j}, NEW c \in Containers
             PROVE  Tracks(k, c)' <=> Tracks(k, c)
  OBVIOUS
<1>1. script'[k] = script[k]
  BY DEF To, Inv, TypeOK
<1>2. CASE script[k].c = c /\ script[j].c = c
  <2>1. script[k].pc = "done"
    BY <1>2 DEF Inv, OneMaster, Claims, Containers, None
  <2> QED
    BY <1>1, <2>1 DEF Tracks, Holding
<1>3. CASE ~(script[k].c = c /\ script[j].c = c)
  BY <1>1, <1>3 DEF Tracks
<1> QED
  BY <1>2, <1>3

\* Whether its own container is tracked before and after decides.
LEMMA TrackedTo ==
  ASSUME PoolConstants, Inv, [Next]_vars, NEW j \in Jobs, NEW p, To(j, p), NEW x,
         script[j].c = x, script[j].pc # "done", UNCHANGED idle,
         \A c \in Containers \ {x} : c \in inUse' <=> c \in inUse
  PROVE  /\ Tracked' \ {x} = Tracked \ {x}
         /\ x \in Tracked <=> x \in Containers /\ Tracks(j, x)
         /\ x \in Tracked' <=> x \in Containers /\ Tracks(j, x)'
<1>1. \A k \in Jobs \ {j}, c \in Containers : Tracks(k, c)' <=> Tracks(k, c)
  BY OthersTrack
<1>2. Tracked \subseteq Containers
  BY TrackedType
<1>3. Tracked' \subseteq Containers
  <2>1. TypeOK' /\ UseKnown'
    BY TypeStep, UseStep
  <2>2. ToSet(idle)' \subseteq Containers /\ inUse' \subseteq Containers
    BY <2>1 DEF TypeOK
  <2>3. \A k \in Jobs : script'[k].pc \in Holding => script'[k].c \in Containers
    BY <2>1 DEF UseKnown
  <2>4. \A k \in Jobs : \A c : Tracks(k, c)' => c \in Containers
    BY <2>2, <2>3 DEF Tracks
  <2> QED
    BY <2>2, <2>4, TrackedIs
<1>4. script'[j].c = x
  BY Moved
<1>5. \A c \in Containers \ {x} : ~Tracks(j, c) /\ ~Tracks(j, c)'
  BY <1>4 DEF Tracks
<1>6. ToSet(idle)' = ToSet(idle)
  OBVIOUS
<1>7. \A c \in Containers \ {x} : c \in Tracked' <=> c \in Tracked
  BY <1>1, <1>5, <1>6, TrackedIs
<1>8. ASSUME x \in Containers
      PROVE  x \notin ToSet(idle) /\ \A k \in Jobs \ {j} : ~Tracks(k, x)
  <2>1. Claims(j, x)
    BY <1>8 DEF Claims, Containers, None
  <2>2. x \notin ToSet(idle) /\ \A k \in Jobs \ {j} : ~Claims(k, x)
    BY <1>8, <2>1 DEF Inv, OneMaster
  <2> QED
    BY <1>8, <2>2 DEF Claims, Tracks, Holding, Containers, None
<1>9. x \in Containers => (x \in Tracked <=> Tracks(j, x)) /\ (x \in Tracked' <=> Tracks(j, x)')
  BY <1>1, <1>6, <1>8, TrackedIs
<1> QED
  BY <1>2, <1>3, <1>7, <1>9

TracksSame == Tracked' = Tracked /\ created' = created
TracksLess ==
  \E x \in Tracked : /\ Tracked' = Tracked \ {x} /\ created' = Uncounted
                     /\ ~Kept(x)'
TracksMore ==
  \E x \in Containers \ Tracked : Tracked' = Tracked \cup {x} /\ created' = created + 1

LEMMA TrackedMoves ==
  ASSUME PoolConstants, Inv, [Next]_vars
  PROVE  TracksSame \/ TracksLess \/ TracksMore
<1> DEFINE Goal == TracksSame \/ TracksLess \/ TracksMore
<1>1. ASSUME NEW j \in Jobs, NEW p, To(j, p), script[j].pc # "done", UNCHANGED idle,
             \A c \in Containers \ {script[j].c} : c \in inUse' <=> c \in inUse,
             created' = created,
             Tracks(j, script[j].c) <=>
               p \in Holding \/ (p = "failed" /\ script[j].c \in inUse')
      PROVE  Goal
  <2>1. PICK x : x = script[j].c
    OBVIOUS
  <2>2. Tracks(j, x)' <=> (p \in Holding \/ (p = "failed" /\ x \in inUse'))
    BY <1>1, <2>1, Moved DEF Tracks
  <2>3. /\ Tracked' \ {x} = Tracked \ {x}
        /\ x \in Tracked <=> x \in Containers /\ Tracks(j, x)
        /\ x \in Tracked' <=> x \in Containers /\ Tracks(j, x)'
    BY <1>1, <2>1, TrackedTo
  <2>4. Tracked' = Tracked
    BY <1>1, <2>1, <2>2, <2>3
  <2> QED
    BY <1>1, <2>4 DEF TracksSame
<1>2. ASSUME NEW j \in Jobs, NEW p, To(j, p), UNCHANGED idle,
             script[j].pc \in {"check", "replace"}, p \notin Holding \cup {"failed"},
             \A c \in Containers \ {script[j].c} : c \in inUse' <=> c \in inUse,
             Discard(j) \/ Replace(j), created' = Uncounted
      PROVE  Goal
  <2>1. PICK x : x = script[j].c
    OBVIOUS
  <2>2. x \in Containers /\ Tracks(j, x) /\ script[j].pc # "done"
    BY <1>2, <2>1 DEF Tracks, Inv, UseKnown, Holding
  <2>3. ~Tracks(j, x)'
    BY <1>2, <2>1, Moved DEF Tracks
  <2>4. /\ Tracked' \ {x} = Tracked \ {x}
        /\ x \in Tracked <=> x \in Containers /\ Tracks(j, x)
        /\ x \in Tracked' <=> x \in Containers /\ Tracks(j, x)'
    BY <1>2, <2>1, <2>2, TrackedTo
  <2>5. x \in Tracked /\ Tracked' = Tracked \ {x}
    BY <2>2, <2>3, <2>4
  <2>6. docker'[x] \in {"gone", "leaked"}
    BY <1>2, <2>1, <2>2, Removed DEF Inv, TypeOK
  <2> QED
    BY <1>2, <2>5, <2>6 DEF TracksLess, Kept
<1> HIDE DEF Goal
<1>3. ASSUME NEW j \in Jobs, TakeIdle(j) PROVE Goal
  <2>1. PICK x : x = Head(idle)
    OBVIOUS
  <2>2. /\ x \in Containers /\ x \in ToSet(idle) /\ ToSet(idle)' = ToSet(idle) \ {x}
    BY <1>3, <2>1, TailFacts DEF TakeIdle, Inv, TypeOK, OneMaster
  <2>3. /\ script'[j].c = x /\ script'[j].pc = "check" /\ inUse' = inUse
        /\ created' = created /\ \A k \in Jobs \ {j} : script'[k] = script[k]
        /\ script[j].pc \notin Holding \cup {"failed"}
    BY <1>3, <2>1 DEF TakeIdle, Inv, TypeOK, Holding
  <2>4. Tracks(j, x)' /\ \A c : ~Tracks(j, c) /\ (c # x => ~Tracks(j, c)')
    BY <2>3 DEF Tracks, Holding
  <2>5. \A k \in Jobs \ {j} : \A c : Tracks(k, c)' <=> Tracks(k, c)
    BY <2>3 DEF Tracks
  <2>6. \A c : c \in Tracked' <=> c \in Tracked
    BY <2>2, <2>4, <2>5, TrackedIs
  <2> QED
    BY <2>3, <2>6 DEF TracksSame, Goal
<1>4. ASSUME NEW j \in Jobs, Create(j) PROVE Goal
  <2>1. /\ script'[j].pc = "made" /\ inUse' = inUse /\ idle' = idle
        /\ created' = created /\ \A k \in Jobs \ {j} : script'[k] = script[k]
        /\ script[j].pc = "creating"
    BY <1>4 DEF Create, Inv, TypeOK, Holding
  <2>2. \A k \in Jobs : \A c : Tracks(k, c)' <=> Tracks(k, c)
    BY <2>1 DEF Tracks, Holding
  <2>3. \A c : c \in Tracked' <=> c \in Tracked
    BY <2>1, <2>2, TrackedIs
  <2> QED
    BY <2>1, <2>3 DEF TracksSame, Goal
<1>5. ASSUME NEW j \in Jobs, Return(j) PROVE Goal
  <2>1. PICK x : x = script[j].c
    OBVIOUS
  <2>2. x \in Containers /\ x \notin ToSet(idle)
    BY <1>5, <2>1, HoldsItsOwn DEF Return, Holding
  <2>3. ToSet(idle)' = ToSet(idle) \cup {x}
    BY <1>5, <2>1, <2>2, AppendFacts DEF Return, Inv, TypeOK, OneMaster
  <2>4. /\ script'[j].pc = "done" /\ script'[j].c = x /\ inUse' = inUse
        /\ created' = created /\ \A k \in Jobs \ {j} : script'[k] = script[k]
        /\ script[j].pc = "return"
    BY <1>5, <2>1, Moved DEF Return, Inv, TypeOK, To
  <2>5. Tracks(j, x) /\ \A c : ~Tracks(j, c)' /\ (c # x => ~Tracks(j, c))
    BY <2>1, <2>4 DEF Tracks, Holding
  <2>6. \A k \in Jobs \ {j} : \A c : Tracks(k, c)' <=> Tracks(k, c)
    BY <2>4 DEF Tracks
  <2>7. \A c : c \in Tracked' <=> c \in Tracked
    BY <2>3, <2>5, <2>6, TrackedIs
  <2> QED
    BY <2>4, <2>7 DEF TracksSame, Goal
<1>6. ASSUME WarmPut PROVE Goal
  <2>1. PICK x \in Containers : warm.ids = {x}
    BY <1>6 DEF WarmPut, Inv, OneMaster
  <2>2. (CHOOSE c \in warm.ids : TRUE) = x
    BY <2>1
  <2>3. x \notin ToSet(idle) /\ \A k \in Jobs : ~Claims(k, x)
    BY <1>6, <2>1 DEF WarmPut, WarmMade, Inv, OneMaster
  <2>4. ToSet(idle)' = ToSet(idle) \cup {x}
    BY <1>6, <2>2, <2>3, AppendFacts DEF WarmPut, Inv, TypeOK, OneMaster
  <2>5. script' = script /\ inUse' = inUse /\ created' = created + 1
    BY <1>6 DEF WarmPut
  <2>6. \A k \in Jobs : \A c : Tracks(k, c)' <=> Tracks(k, c)
    BY <2>5 DEF Tracks
  <2>7. \A k \in Jobs : ~Tracks(k, x)
    BY <2>3 DEF Tracks, Claims, Holding, Containers, None
  <2>8. x \notin Tracked /\ \A c : c \in Tracked' <=> c \in Tracked \cup {x}
    BY <2>3, <2>4, <2>6, <2>7, TrackedIs
  <2> QED
    BY <2>5, <2>8 DEF TracksMore, Goal
<1>7. ASSUME NEW j \in Jobs, Grown(j) PROVE Goal
  <2>1. PICK x : x = script[j].c
    OBVIOUS
  <2>2. /\ x \in Containers /\ ~Tracks(j, x) /\ To(j, "hold") /\ script[j].pc # "done"
        /\ inUse' = inUse \cup {x} /\ UNCHANGED idle /\ created' = created + 1
    BY <1>7, <2>1 DEF Grown, Tracks, Inv, UseKnown, Holding
  <2>3. Tracks(j, x)'
    BY <2>1, <2>2, Moved DEF Tracks, Holding
  <2>4. /\ Tracked' \ {x} = Tracked \ {x}
        /\ x \in Tracked <=> x \in Containers /\ Tracks(j, x)
        /\ x \in Tracked' <=> x \in Containers /\ Tracks(j, x)'
    BY <2>1, <2>2, TrackedTo
  <2>5. x \in Containers \ Tracked /\ Tracked' = Tracked \cup {x}
    BY <2>2, <2>3, <2>4
  <2> QED
    BY <2>2, <2>5 DEF TracksMore, Goal
<1>8. ASSUME NEW j \in Jobs, Validate(j) PROVE Goal
  <2>1. /\ To(j, "hold") /\ UNCHANGED <<idle, created>> /\ script[j].pc = "check"
        /\ inUse' = inUse \cup {script[j].c}
    BY <1>8 DEF Validate
  <2>2. Tracks(j, script[j].c)
    BY <2>1 DEF Tracks, Holding
  <2> QED
    BY <1>1, <2>1, <2>2 DEF Holding
<1>14. ASSUME NEW j \in Jobs, Discard(j) PROVE Goal
  <2>1. /\ To(j, script[j].from) /\ UNCHANGED idle /\ created' = Uncounted
        /\ script[j].pc = "check" /\ inUse' = inUse \ {script[j].c}
    BY <1>14 DEF Discard
  <2>2. script[j].from \notin Holding \cup {"failed"}
    BY DEF Inv, TypeOK, Holding
  <2> QED
    BY <1>2, <1>14, <2>1, <2>2
<1>9. ASSUME NEW j \in Jobs, Replace(j) PROVE Goal
  <2>1. /\ To(j, "done") /\ UNCHANGED <<idle, inUse>> /\ created' = Uncounted
        /\ script[j].pc = "replace"
    BY <1>9 DEF Replace
  <2> QED
    BY <1>2, <1>9, <2>1 DEF Holding
<1>10. ASSUME NEW j \in Jobs,
              NothingIdle(j) \/ TakeGrowLock(j) \/ Grow(j) \/ CreateFails(j) \/ TimesOut(j)
       PROVE  Goal
  <2>1. /\ script[j].pc \in {"ask", "wantlock", "asklocked", "creating", "wait"}
        /\ UNCHANGED <<idle, inUse, created>>
        /\ \E p \in {"wantlock", "asklocked", "creating", "wait", "failed"} : To(j, p)
    BY <1>10 DEF NothingIdle, TakeGrowLock, Grow, CreateFails, TimesOut
  <2>2. ~Tracks(j, script[j].c)
    BY <2>1 DEF Tracks, Holding
  <2>3. script[j].c \notin inUse
    BY <2>1, NotInUse DEF Inv, TypeOK, Using
  <2> QED
    BY <1>1, <2>1, <2>2, <2>3 DEF Holding
<1>11. ASSUME NEW j \in Jobs,
              ArchiveFails(j) \/ PutArchive(j) \/ Exec(j) \/ Release(j) \/ ResetWorkspace(j)
       PROVE  Goal
  <2>1. /\ script[j].pc \in Holding /\ script[j].pc # "done" /\ UNCHANGED <<idle, created>>
        /\ \A c \in Containers \ {script[j].c} : c \in inUse' <=> c \in inUse
    BY <1>11 DEF ArchiveFails, PutArchive, Exec, Release, ResetWorkspace, Holding
  <2>2. \E p \in Holding \cup {"failed"} :
          To(j, p) /\ (p = "failed" => script[j].pc = "hold" /\ inUse' = inUse)
    BY <1>11 DEF ArchiveFails, PutArchive, Exec, Release, ResetWorkspace, Holding
  <2>3. Tracks(j, script[j].c)
    BY <2>1 DEF Tracks
  <2>4. script[j].pc = "hold" => script[j].c \in inUse
    BY DEF Inv, UseKnown, Using
  <2> QED
    BY <1>1, <2>1, <2>2, <2>3, <2>4
<1>12. ASSUME UNCHANGED <<script, idle, inUse, created>> PROVE Goal
  <2>1. \A k \in Jobs : \A c : Tracks(k, c)' <=> Tracks(k, c)
    BY <1>12 DEF Tracks
  <2>2. \A c : c \in Tracked' <=> c \in Tracked
    BY <1>12, <2>1, TrackedIs
  <2> QED
    BY <1>12, <2>2 DEF TracksSame, Goal
<1>13. Goal
  BY <1>3, <1>4, <1>5, <1>6, <1>7, <1>8, <1>9, <1>10, <1>11, <1>12, <1>14 DEF Next, vars,
     WarmBegin, WarmLock, WarmCreate, WarmEnd, WarmList, WarmDestroy, Snapshot,
     ReaperList, ReaperDestroy, ReaperSleeps, ContainerDies
<1> QED
  BY <1>13 DEF Goal

LEMMA CountStep ==
  ASSUME PoolConstants, Inv, [Next]_vars
  PROVE  CountIsExact' /\ IsFiniteSet(Tracked')
<1> USE TrackedType
<1>1. CASE TracksSame
  BY <1>1 DEF TracksSame, CountIsExact, Tracked
<1>2. CASE TracksLess
  <2>1. PICK x \in Tracked : Tracked' = Tracked \ {x} /\ created' = Uncounted
    BY <1>2 DEF TracksLess
  <2>2. IsFiniteSet(Tracked') /\ Cardinality(Tracked') = Cardinality(Tracked) - 1
    BY <2>1, FS_RemoveElement
  <2>3. Cardinality(Tracked) # 0
    BY <2>1, FS_EmptySet
  <2>4. created' = Cardinality(Tracked')
    BY <2>1, <2>2, <2>3 DEF Uncounted
  <2> QED
    BY <2>2, <2>4 DEF CountIsExact, Tracked
<1>3. CASE TracksMore
  <2>1. PICK x \in Containers \ Tracked :
          Tracked' = Tracked \cup {x} /\ created' = created + 1
    BY <1>3 DEF TracksMore
  <2>2. IsFiniteSet(Tracked') /\ Cardinality(Tracked') = Cardinality(Tracked) + 1
    BY <2>1, FS_AddElement
  <2> QED
    BY <2>1, <2>2 DEF CountIsExact, Tracked
<1> QED
  BY <1>1, <1>2, <1>3, TrackedMoves

\* What was made and not counted stays so until it is counted.
LEMMA MadeMoves ==
  ASSUME PoolConstants, Inv, [Next]_vars, NEW c \in Made
  PROVE  c \in Made' \cup Tracked'
<1>0. c \in Containers
  BY DEF Made, WarmMade, Inv, TypeOK
<1>1. CASE WarmPut
  <2>1. CASE c \in WarmMade
    <3>1. PICK x \in Containers : warm.ids = {x}
      BY <1>1 DEF WarmPut, Inv, OneMaster
    <3>2. c = x /\ (CHOOSE d \in warm.ids : TRUE) = x
      BY <2>1, <3>1 DEF WarmMade
    <3>3. x \notin ToSet(idle)
      BY <2>1, <3>2 DEF Inv, OneMaster
    <3>4. ToSet(idle)' = ToSet(idle) \cup {x}
      BY <1>1, <3>2, <3>3, AppendFacts DEF WarmPut, Inv, TypeOK, OneMaster
    <3> QED
      BY <3>2, <3>4, TrackedIs
  <2>2. CASE c \notin WarmMade
    BY <1>0, <1>1, <2>2 DEF Made, WarmPut
  <2> QED
    BY <2>1, <2>2
<1>2. CASE ~WarmPut
  <2>1. warm.pc = "made" => warm' = warm
    BY <1>2 DEF Next, vars, TakeIdle, Validate, Discard, NothingIdle, TakeGrowLock, Grow, Create,
       CreateFails, Grown, TimesOut, ArchiveFails, PutArchive, Exec, Release,
       ResetWorkspace, Return, Replace, WarmBegin, WarmLock, WarmCreate, WarmEnd,
       WarmList, WarmDestroy, Snapshot, ReaperList, ReaperDestroy, ReaperSleeps,
       ContainerDies
  <2>2. CASE c \in WarmMade
    BY <1>0, <2>1, <2>2 DEF Made, WarmMade
  <2>3. CASE c \notin WarmMade
    <3>1. PICK j \in Jobs : script[j].pc = "made" /\ script[j].c = c
      BY <2>3 DEF Made
    <3>2. CASE Grown(j)
      <4>1. To(j, "hold")
        BY <3>2 DEF Grown
      <4>2. script'[j].pc = "hold" /\ script'[j].c = c
        BY <3>1, <4>1, Moved
      <4> QED
        BY <4>2, TrackedIs DEF Tracks, Holding
    <3>3. CASE ~Grown(j)
      <4>1. script'[j] = script[j]
        <5>1. ASSUME NEW k \in Jobs, NEW p, To(k, p), script[k].pc # "made"
              PROVE  script'[j] = script[j]
          BY <3>1, <5>1 DEF To, Inv, TypeOK
        <5>2. ASSUME NEW k \in Jobs, TakeIdle(k) \/ Create(k) PROVE script'[j] = script[j]
          BY <3>1, <5>2 DEF TakeIdle, Create, Inv, TypeOK
        <5>3. ASSUME NEW k \in Jobs, Grown(k) PROVE script'[j] = script[j]
          BY <3>3, <5>3 DEF Grown, To, Inv, TypeOK
        <5>4. ASSUME NEW k \in Jobs,
                     Validate(k) \/ Discard(k) \/ NothingIdle(k) \/ TakeGrowLock(k)
                       \/ Grow(k) \/ CreateFails(k) \/ TimesOut(k) \/ ArchiveFails(k)
                       \/ PutArchive(k) \/ Exec(k) \/ Release(k) \/ ResetWorkspace(k)
                       \/ Return(k) \/ Replace(k)
              PROVE  script'[j] = script[j]
          <6>1. script[k].pc # "made" /\ \E p : To(k, p)
            BY <5>4 DEF Validate, Discard, NothingIdle, TakeGrowLock, Grow, CreateFails,
               TimesOut, ArchiveFails, PutArchive, Exec, Release, ResetWorkspace, Return, Replace
          <6> QED
            BY <5>1, <6>1
        <5>5. CASE UNCHANGED script
          BY <5>5
        <5> QED
          BY <5>2, <5>3, <5>4, <5>5 DEF Next, vars, WarmBegin, WarmLock, WarmCreate,
             WarmPut, WarmEnd, WarmList, WarmDestroy, Snapshot, ReaperList,
             ReaperDestroy, ReaperSleeps, ContainerDies
      <4> QED
        BY <1>0, <3>1, <4>1 DEF Made
    <3> QED
      BY <3>2, <3>3
  <2> QED
    BY <2>2, <2>3
<1> QED
  BY <1>1, <1>2

LEMMA WantedStep ==
  ASSUME PoolConstants, Inv, [Next]_vars
  PROVE  wanted' <= Cardinality({j \in Jobs : script'[j].pc = "done"})
<1> DEFINE Done == {j \in Jobs : script[j].pc = "done"}
<1>1. IsFiniteSet(Done) /\ IsFiniteSet(Done')
  BY FS_Subset DEF PoolConstants
<1>2. Cardinality(Done) \in Nat /\ Cardinality(Done') \in Nat
  BY <1>1, FS_CardinalityType
<1>3. wanted <= Cardinality(Done) /\ wanted \in Nat
  BY DEF Inv, Accounted, TypeOK
<1>4. ASSUME NEW j \in Jobs, Replace(j)
      PROVE  wanted' <= Cardinality(Done')
  <2>1. Done' = Done \cup {j} /\ j \notin Done /\ wanted' = wanted + 1
    BY <1>4 DEF Replace, To, Inv, TypeOK
  <2>2. Cardinality(Done') = Cardinality(Done) + 1
    BY <1>1, <2>1, FS_AddElement
  <2> HIDE DEF Done
  <2> QED
    BY <1>2, <1>3, <2>1, <2>2
<1>5. ASSUME wanted' = wanted \/ (wanted > 0 /\ wanted' = wanted - 1), Done \subseteq Done'
      PROVE  wanted' <= Cardinality(Done')
  <2>1. Cardinality(Done) <= Cardinality(Done')
    BY <1>1, <1>5, FS_Subset
  <2> HIDE DEF Done
  <2> QED
    BY <1>2, <1>3, <1>5, <2>1
<1>6. ASSUME NEW j \in Jobs, TakeIdle(j) \/ Create(j)
      PROVE  wanted' = wanted /\ Done \subseteq Done'
  BY <1>6 DEF TakeIdle, Create, Inv, TypeOK
<1>7. ASSUME NEW j \in Jobs,
             Validate(j) \/ Discard(j) \/ NothingIdle(j) \/ TakeGrowLock(j) \/ Grow(j)
               \/ CreateFails(j) \/ Grown(j) \/ TimesOut(j) \/ ArchiveFails(j)
               \/ PutArchive(j) \/ Exec(j) \/ Release(j) \/ ResetWorkspace(j)
               \/ Return(j)
      PROVE  wanted' = wanted /\ Done \subseteq Done'
  <2>1. script[j].pc # "done" /\ wanted' = wanted /\ \E p : To(j, p)
    BY <1>7 DEF Validate, Discard, NothingIdle, TakeGrowLock, Grow, CreateFails, Grown, TimesOut,
       ArchiveFails, PutArchive, Exec, Release, ResetWorkspace, Return
  <2> QED
    BY <2>1, Moved
<1>8. ASSUME WarmBegin
      PROVE  wanted > 0 /\ wanted' = wanted - 1 /\ Done \subseteq Done'
  BY <1>8 DEF WarmBegin
<1>9. ASSUME UNCHANGED <<script, wanted>> PROVE wanted' = wanted /\ Done \subseteq Done'
  BY <1>9
<1> HIDE DEF Done
<1>10. wanted' <= Cardinality(Done')
  BY <1>4, <1>5, <1>6, <1>7, <1>8, <1>9 DEF Next, vars, WarmLock, WarmCreate, WarmPut,
     WarmEnd, WarmList, WarmDestroy, Snapshot, ReaperList, ReaperDestroy, ReaperSleeps,
     ContainerDies
<1> QED
  BY <1>10 DEF Done

LEMMA AccountedStep ==
  ASSUME PoolConstants, Inv, [Next]_vars
  PROVE  Accounted'
<1>1. ASSUME NEW c \in Containers, Kept(c)', Kept(c)
      PROVE  c \in Tracked' \cup Made'
  <2>1. CASE c \in Made
    BY <2>1, MadeMoves
  <2>2. CASE c \notin Made
    <3>1. c \in Tracked
      BY <1>1, <2>2 DEF Inv, Accounted
    <3> QED
      BY <1>1, <3>1, TrackedMoves DEF TracksSame, TracksLess, TracksMore
  <2> QED
    BY <2>1, <2>2
<1>2. ASSUME NEW c \in Containers, Kept(c)', ~Kept(c)
      PROVE  c \in Made'
  <2>1. Creation
    BY <1>2, KnownStays
  <2>2. c = FreshId
    BY <1>2, <2>1, Created DEF Kept
  <2>5. Creating
    BY <1>2, <2>1, <2>2, Created DEF Kept
  <2>3. ASSUME NEW j \in Jobs, Create(j) PROVE c \in Made'
    BY <1>2, <2>2, <2>3 DEF Create, Made, Inv, TypeOK
  <2>4. CASE WarmCreate
    BY <1>2, <2>2, <2>4 DEF WarmCreate, Made, WarmMade, Inv, TypeOK
  <2> QED
    BY <2>3, <2>4, <2>5 DEF Creating
<1> QED
  BY <1>1, <1>2, WantedStep DEF Accounted

-----------------------------------------------------------------------------
(***************************************************************************)
(* The invariant, and what it gives.                                       *)
(***************************************************************************)

LEMMA InitInv ==
  ASSUME PoolConstants, Init
  PROVE  Inv
<1>1. /\ idle = <<>> /\ idle \in Seq(Containers) /\ ToSet(idle) = {} /\ IsInjective(idle)
  BY DEF Init, ToSet, IsInjective
<1>2. WarmMade = {} /\ \A j \in Jobs, c \in Containers : ~Claims(j, c)
  BY DEF Init, WarmMade, Claims, Containers, None
<1>3. Cardinality(Jobs) \in Nat
  BY FS_CardinalityType DEF PoolConstants
<1>4. Tracked = {}
  <2>1. \A j \in Jobs : \A c : ~Tracks(j, c)
    BY DEF Init, Tracks, Holding
  <2> QED
    BY <1>1, <2>1, TrackedIs
<1>5. TypeOK
  BY <1>1, <1>3 DEF Init, TypeOK, PoolConstants
<1>6. Numbered
  <2>1. 0 \in 0..MaxContainers /\ \A c \in Containers : docker[c] # "none" <=> c <= 0
    BY DEF Init, Containers, PoolConstants
  <2> QED
    BY <2>1 DEF Numbered
<1>7. ReapsKnown /\ Serial
  BY DEF Init, ReapsKnown, Serial, Locked, PoolConstants
<1>8. OneMaster
  BY <1>1, <1>2 DEF OneMaster, Init
<1>9. UseKnown /\ Clean
  BY DEF Init, UseKnown, Clean, Using, Holding
<1>10. CountIsExact
  BY <1>4, FS_EmptySet DEF Init, CountIsExact, Tracked
<1>11. Accounted
  <2>1. {j \in Jobs : script[j].pc = "done"} = {}
    BY DEF Init
  <2>2. Cardinality({j \in Jobs : script[j].pc = "done"}) = 0 /\ wanted = 0
    BY <2>1, FS_EmptySet DEF Init
  <2>3. \A c \in Containers : ~Kept(c)
    BY DEF Init, Kept
  <2> QED
    BY <2>2, <2>3 DEF Accounted
<1> QED
  BY <1>5, <1>6, <1>7, <1>8, <1>9, <1>10, <1>11 DEF Inv

\* One container at a time is made.
LEMMA WithinMaxHolds ==
  ASSUME PoolConstants, Inv
  PROVE  WithinMax
<1> DEFINE All == {c \in Containers : Kept(c)}
<1>1. All \subseteq Tracked \cup Made
  BY DEF Inv, Accounted
<1>2. IsFiniteSet(Tracked) /\ created = Cardinality(Tracked) /\ created \in 0..MaxSize
  BY TrackedType DEF Inv, TypeOK
<1>3. CASE Made = {}
  BY <1>1, <1>2, <1>3, FS_Subset, FS_CardinalityType DEF WithinMax, PoolConstants
<1>4. CASE Made # {}
  <2>1. PICK x : x \in Made
    BY <1>4
  <2>2. \A y \in Made : y = x
    <3>1. ASSUME NEW j \in Jobs, NEW k \in Jobs, script[j].pc = "made",
                 script[k].pc = "made"
          PROVE  j = k
      BY <3>1 DEF Inv, Serial, Locked
    <3>2. ASSUME NEW j \in Jobs, script[j].pc = "made", warm.pc = "made" PROVE FALSE
      BY <3>2 DEF Inv, Serial, Locked, PoolConstants
    <3>3. ASSUME NEW y \in WarmMade, NEW z \in WarmMade PROVE y = z
      BY <3>3 DEF WarmMade, Inv, OneMaster
    <3> QED
      BY <2>1, <3>1, <3>2, <3>3 DEF Made, WarmMade
  <2>3. created < MaxSize
    BY <2>1 DEF Made, WarmMade, Inv, Serial
  <2>4. All \subseteq Tracked \cup {x}
    BY <1>1, <2>2
  <2>5. /\ IsFiniteSet(Tracked \cup {x})
        /\ Cardinality(Tracked \cup {x}) \in {created, created + 1}
    BY <1>2, FS_AddElement
  <2>6. Cardinality(All) <= Cardinality(Tracked \cup {x}) /\ IsFiniteSet(All)
    BY <2>4, <2>5, FS_Subset
  <2>7. Cardinality(All) \in Nat
    BY <2>6, FS_CardinalityType
  <2> HIDE DEF All
  <2>8. Cardinality(All) <= MaxSize
    BY <1>2, <2>3, <2>5, <2>6, <2>7 DEF PoolConstants
  <2> QED
    BY <2>8 DEF All, WithinMax
<1> QED
  BY <1>3, <1>4

\* However runs, the warmup, the reaper and failing containers interleave:
\* _created counts exactly the containers the pool tracks, Docker keeps no more
\* than POOL_MAX_SIZE beside those it could not remove, or made and could not
\* start, and a script finds its own files alone in its workspace (acquire,
\* release, warmup, _destroy, _reap_orphans).
THEOREM PoolTheorem ==
  ASSUME PoolConstants
  PROVE  Spec => []PoolSound
<1>1. Init => Inv
  BY InitInv
<1>2. Inv /\ [Next]_vars => Inv'
  <2> SUFFICES ASSUME Inv, [Next]_vars PROVE Inv'
    OBVIOUS
  <2>1. TypeOK' /\ Numbered' /\ ReapsKnown'
    BY TypeStep, NumberedStep, ReapsStep
  <2>2. OneMaster' /\ UseKnown' /\ Serial' /\ Clean'
    BY MasterStep, UseStep, SerialStep, CleanStep
  <2>3. Accounted' /\ CountIsExact'
    BY AccountedStep, CountStep
  <2> QED
    BY <2>1, <2>2, <2>3 DEF Inv
<1>3. Inv => PoolSound
  <2> SUFFICES ASSUME Inv PROVE PoolSound
    OBVIOUS
  <2> QED
    BY WithinMaxHolds DEF Inv, Clean, OwnWorkspace, PoolSound
<1> QED
  BY <1>1, <1>2, <1>3, PTL DEF Spec
=============================================================================
