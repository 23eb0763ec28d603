--------------------------- MODULE ControlProofs ----------------------------
(***************************************************************************)
(* Proofs about the two sides of the control plane.                        *)
(*                                                                         *)
(* Authoring, for any number of requests, graphs, versions kept and        *)
(* process deaths: equal edit versions mean equal content, the live        *)
(* version keeps its snapshot, and the endpoints together implement        *)
(* DeployLineage.                                                          *)
(*                                                                         *)
(* Admission (the instance Entry), for any number of replicas, calls,      *)
(* halts, rotations and failures of the store: a halt bites within the     *)
(* life of a cache entry, a replaced webhook credential opens nothing, the *)
(* window of a token holds, and no execution is left without its job.      *)
(***************************************************************************)
EXTENDS Control, FiniteSetTheorems, WellFoundedInduction, TLAPS

-----------------------------------------------------------------------------
(***************************************************************************)
(* Authoring.                                                              *)
(***************************************************************************)

Newer(m) == {n \in used : n > m}

\* What the local variables of a handler say about the document and the
\* lineage although other requests ran since it read them: its copy is not
\* newer than the document, the number it is about to make live was taken,
\* and what it is about to prune is out of the window for good.
Sound(h) ==
  /\ (h.op = "update" /\ h.pc \in {"editing", "write"}) =>
        /\ h.version <= doc.version
        /\ h.version = doc.version => h.loaded = Content(doc)
  /\ h.pc = "insert" => h.num > 0
  /\ h.pc \in {"prune", "drop"} => h.num \in used
  /\ (h.pc = "write" /\ (h.op = "deploy" \/ (h.op = "rollback" /\ h.isLive)))
        => h.num \in used
  /\ h.pc = "drop" => \A m \in h.drop : Cardinality(Newer(m)) >= Keep

HandlersSound == \A r \in Requests : Sound(req[r])

\* No request has begun before the document was created.
Created ==
  doc.version = 0 => doc = NoDoc /\ \A r \in Requests : req[r].pc = "idle"

\* Every number is positive, bounded and accounted for: the live one and the
\* kept ones were taken, and a taken number is still kept, was deleted by
\* hand, or has Keep newer ones.
NumbersTaken ==
  /\ 0 \notin used
  /\ \E b \in Nat : \A n \in used : n <= b
  /\ DOMAIN versions \subseteq used
  /\ doc.dv \in used \cup {0}

AllKept == \A n \in used : \/ n \in DOMAIN versions \cup erased
                           \/ Cardinality(Newer(n)) >= Keep

Inv == TypeOK /\ HandlersSound /\ Created /\ NumbersTaken /\ AllKept

-----------------------------------------------------------------------------
(***************************************************************************)
(* Numbers.                                                                *)
(***************************************************************************)

\* A non-empty set of naturals has a least element.
LEMMA LeastNatural ==
  ASSUME NEW B \in SUBSET Nat, B # {}
  PROVE  \E b \in B : \A c \in B : b <= c
<1> DEFINE R == OpToRel(<, Nat)
<1>1. IsWellFoundedOn(R, Nat)
  BY NatLessThanWellFounded
<1>2. R = {ss \in Nat \X Nat : ss[1] < ss[2]}
  BY DEF OpToRel
<1> HIDE DEF R
<1>3. \E x \in B : \A y \in B : ~ (<<y, x>> \in R)
  BY <1>1, WFMin
<1>4. \A x, y \in B : <<y, x>> \in R <=> y < x
  BY <1>2
<1>5. PICK x \in B : \A y \in B : ~ (y < x)
  BY <1>3, <1>4
<1>6. \A y \in B : x \in Nat /\ y \in Nat
  OBVIOUS
<1>7. \A y \in B : x <= y
  BY <1>5, <1>6
<1> QED
  BY <1>7

\* A bounded, non-empty set of naturals has a greatest element.
LEMMA GreatestNatural ==
  ASSUME NEW S \in SUBSET Nat, S # {}, NEW a \in Nat, \A n \in S : n <= a
  PROVE  \E n \in S : \A m \in S : m <= n
<1> DEFINE B == {b \in Nat : \A n \in S : n <= b}
<1>1. B \in SUBSET Nat /\ B # {}
  OBVIOUS
<1>2. PICK b \in B : \A c \in B : b <= c
  BY <1>1, LeastNatural
<1>3. b \in Nat /\ \A n \in S : n \in Nat /\ n <= b
  BY <1>2
<1>4. b \in S
  <2> SUFFICES ASSUME b \notin S PROVE FALSE
    OBVIOUS
  <2>1. \A n \in S : n <= b - 1
    BY <1>3
  <2>2. b - 1 \in Nat
    <3>1. PICK n \in S : n \in Nat /\ n <= b - 1
      BY <1>3, <2>1
    <3> QED
      BY <1>3, <3>1
  <2>3. b - 1 \in B
    BY <2>1, <2>2
  <2> QED
    BY <1>2, <1>3, <2>3
<1> QED
  BY <1>3, <1>4

\* The next number is a positive natural.
LEMMA NextNumberType ==
  ASSUME TypeOK, NumbersTaken
  PROVE  NextNumber \in Nat \ {0}
<1>1. CASE DOMAIN versions = {}
  BY <1>1 DEF NextNumber
<1>2. CASE DOMAIN versions # {}
  <2>1. DOMAIN versions \in SUBSET Nat
    BY DEF TypeOK
  <2>2. PICK a \in Nat : \A n \in DOMAIN versions : n <= a
    BY DEF NumbersTaken
  <2>3. \E n \in DOMAIN versions : \A m \in DOMAIN versions : m <= n
    BY <1>2, <2>1, <2>2, GreatestNatural
  <2> DEFINE top == CHOOSE n \in DOMAIN versions :
                      \A m \in DOMAIN versions : m <= n
  <2>4. top \in DOMAIN versions
    BY <2>3
  <2> HIDE DEF top
  <2>5. top \in Nat
    BY <2>1, <2>4
  <2>6. NextNumber = 1 + top
    BY <1>2 DEF NextNumber, top
  <2> QED
    BY <2>5, <2>6
<1> QED
  BY <1>1, <1>2

\* Only finitely many numbers were taken.
LEMMA UsedFinite ==
  ASSUME TypeOK, NumbersTaken
  PROVE  /\ IsFiniteSet(used)
         /\ \A S \in SUBSET used : IsFiniteSet(S) /\ Cardinality(S) \in Nat
<1>1. PICK b \in Nat : \A n \in used : n <= b
  BY DEF NumbersTaken
<1>2. IsFiniteSet(used)
  BY <1>1, FS_BoundedSetOfNaturals DEF TypeOK
<1> QED
  BY <1>2, FS_Subset, FS_CardinalityType

\* What has left the window stays out of it: numbers are only added.
LEMMA NewerGrows ==
  ASSUME TypeOK, NumbersTaken, TypeOK', NumbersTaken', used \subseteq used',
         NEW m, Cardinality(Newer(m)) >= Keep
  PROVE  Cardinality(Newer(m)') >= Keep
<1>1. Newer(m) \subseteq Newer(m)' /\ Newer(m) \subseteq used
      /\ Newer(m)' \subseteq used'
  BY DEF Newer
<1>2. IsFiniteSet(Newer(m)') /\ Cardinality(Newer(m)') \in Nat
  <2>1. IsFiniteSet(used')
    <3>1. PICK b \in Nat : \A n \in used' : n <= b
      BY DEF NumbersTaken
    <3> QED
      BY <3>1, FS_BoundedSetOfNaturals DEF TypeOK
  <2> QED
    BY <1>1, <2>1, FS_Subset, FS_CardinalityType
<1>3. Cardinality(Newer(m)) \in Nat
  BY <1>1, UsedFinite
<1>4. Cardinality(Newer(m)) <= Cardinality(Newer(m)')
  BY <1>1, <1>2, FS_Subset
<1> QED
  BY <1>2, <1>3, <1>4, ConstantsAssumption
-----------------------------------------------------------------------------
(***************************************************************************)
(* Types of the records the handlers build.                                *)
(***************************************************************************)
Points == {"idle", "editing", "write", "reload", "target", "number",
           "insert", "prune", "drop", "announce", "done"}

LEMMA ContentType ==
  /\ NoContent \in Snapshot
  /\ NoDoc \in Document
  /\ \A d \in Document : Content(d) \in Snapshot
  /\ \A g \in Graphs, s \in Schedules : Fresh(g, s) \in Document
<1>1. AnyGraph \in Graphs
  BY ConstantsAssumption DEF AnyGraph
<1> HIDE DEF AnyGraph
<1>2. \A g \in Graphs, s \in Schedules : Fresh(g, s) \in Document
  BY DEF Fresh, Document, Statuses, Tokens
<1>3. NoDoc \in Document
  <2>1. Fresh(AnyGraph, "off") \in Document
    BY <1>1, <1>2 DEF Schedules
  <2> QED
    BY <2>1 DEF NoDoc, Document, Statuses
<1> QED
  BY <1>1, <1>2, <1>3 DEF NoContent, Snapshot, Content, Document, Schedules

LEMMA AtType ==
  ASSUME NEW op \in Endpoints \cup {"none"}, NEW pc \in Points
  PROVE  /\ At(op, pc) \in Handler
         /\ At(op, pc).op = op /\ At(op, pc).pc = pc
         /\ At(op, pc).num = 0 /\ At(op, pc).drop = {}
BY ContentType DEF At, Handler, Points, Tokens

\* A handler that has only read, or has nothing left but its announcement,
\* says nothing that other requests could make false.
LEMMA RestingSound ==
  ASSUME NEW h, \/ h.pc \in {"idle", "reload", "target", "number", "announce",
                             "done"}
                \/ h.pc = "write" /\ h.op \notin {"update", "deploy", "rollback"}
                \/ h.pc = "write" /\ h.op = "rollback" /\ ~h.isLive
  PROVE  Sound(h) /\ Sound(h)'
BY DEF Sound

LEMMA InitInv == ASSUME Init PROVE Inv
<1>1. TypeOK
  <2>1. At("none", "idle") \in Handler
    BY AtType DEF Points
  <2>2. DOMAIN versions = {}
    BY DEF Init
  <2>3. deaths \in 0..MaxDeaths
    BY ConstantsAssumption DEF Init
  <2>4. req \in [Requests -> Handler]
    BY <2>1 DEF Init
  <2> QED
    BY <2>2, <2>3, <2>4, ContentType DEF Init, TypeOK
<1>2. HandlersSound /\ Created
  <2>1. \A r \in Requests : req[r].pc = "idle"
    BY AtType DEF Init, Points
  <2> QED
    BY <2>1, RestingSound DEF Init, HandlersSound, Created
<1>3. NumbersTaken
  <2>1. NoDoc.dv = 0
    BY DEF NoDoc, Fresh
  <2> QED
    BY <2>1 DEF Init, NumbersTaken
<1> QED
  BY <1>1, <1>2, <1>3 DEF Init, Inv, AllKept

-----------------------------------------------------------------------------
(***************************************************************************)
(* The inductive step.  Most steps leave the lineage alone and replace one *)
(* handler; those that write the document never let its version fall, and  *)
(* raise it when they change the content.                                  *)
(***************************************************************************)

\* The content changes only together with the version.
Bumps == /\ doc'.version >= doc.version
         /\ doc'.version = doc.version => Content(doc)' = Content(doc)

LEMMA DocStep ==
  ASSUME Inv, UNCHANGED lineage, doc' \in Document, clone' \in Document,
         announced' \in BOOLEAN, deaths' \in 0..MaxDeaths,
         doc # NoDoc, Bumps, doc'.dv \in used \cup {0},
         NEW r \in Requests, NEW h \in Handler, Sound(h)',
         req' = [req EXCEPT ![r] = h]
  PROVE  Inv'
<1> USE DEF Inv
<1>0. /\ used' = used /\ erased' = erased /\ versions' = versions
      /\ doc \in Document /\ req \in [Requests -> Handler]
  BY DEF lineage, TypeOK
<1>1. TypeOK'
  BY <1>0 DEF TypeOK
<1>2. HandlersSound'
  <2> SUFFICES ASSUME NEW q \in Requests PROVE Sound(req[q])'
    BY DEF HandlersSound
  <2>1. CASE q = r
    BY <1>0, <2>1 DEF Sound, Newer
  <2>2. CASE q # r
    <3>1. req'[q] = req[q] /\ req[q] \in Handler
      BY <1>0, <2>2
    <3>2. Sound(req[q])
      BY DEF HandlersSound
    <3>3. req[q].version \in Nat /\ doc.version \in Nat /\ doc'.version \in Nat
      BY <1>0, <3>1 DEF Handler, Document
    <3> QED
      BY <1>0, <3>1, <3>2, <3>3 DEF Sound, Newer, Bumps
  <2> QED
    BY <2>1, <2>2
<1>3. Created'
  <2>1. doc.version \in Nat /\ doc'.version \in Nat /\ doc.version # 0
    BY <1>0 DEF Created, Document
  <2> QED
    BY <2>1 DEF Created, Bumps
<1>4. NumbersTaken' /\ AllKept'
  BY <1>0 DEF NumbersTaken, AllKept, Newer
<1> QED
  BY <1>1, <1>2, <1>3, <1>4

\* A step that only moves one handler on.
LEMMA ReqStep ==
  ASSUME Inv, UNCHANGED <<doc, lineage, clone>>,
         announced' \in BOOLEAN, deaths' \in 0..MaxDeaths,
         doc # NoDoc, NEW r \in Requests, NEW h \in Handler, Sound(h),
         req' = [req EXCEPT ![r] = h]
  PROVE  Inv'
<1>1. doc \in Document /\ clone \in Document /\ doc.version \in Nat
  BY DEF Inv, TypeOK, Document
<1>2. Bumps
  BY <1>1 DEF Bumps, Content
<1>3. Sound(h)'
  BY DEF Sound, Newer, lineage, Content
<1>4. doc'.dv \in used \cup {0}
  BY DEF Inv, NumbersTaken
<1> QED
  BY <1>1, <1>2, <1>3, <1>4, DocStep

\* Once a request is under way there is a document.
LEMMA BusyCreated ==
  ASSUME Inv, NEW r \in Requests, req[r].pc # "idle"
  PROVE  doc # NoDoc
<1>1. NoDoc.version = 0
  BY DEF NoDoc, Fresh
<1> QED
  BY <1>1 DEF Inv, Created
\* The handler that a step leaves behind when its endpoint is over, or has
\* only its announcement left.
LEMMA ReturnHandler ==
  ASSUME NEW r \in Requests, Return(r)
  PROVE  \E h \in Handler : /\ Sound(h) /\ Sound(h)'
                            /\ req' = [req EXCEPT ![r] = h]
<1> DEFINE h == At("none", "done")
<1>1. h \in Handler /\ h.pc = "done"
  BY AtType DEF Points
<1>2. req' = [req EXCEPT ![r] = h]
  BY DEF Return
<1> HIDE DEF h
<1> QED
  BY <1>1, <1>2, RestingSound

LEMMA AnnouncesHandler ==
  ASSUME NEW r \in Requests, NEW yes, NEW want \in BOOLEAN,
         Announces(r, yes, want)
  PROVE  \E h \in Handler : /\ Sound(h) /\ Sound(h)'
                            /\ req' = [req EXCEPT ![r] = h]
<1> DEFINE h == IF yes THEN [At("none", "announce") EXCEPT !.want = want]
                       ELSE At("none", "done")
<1>1. At("none", "announce") \in Handler /\ At("none", "done") \in Handler
      /\ At("none", "announce").pc = "announce" /\ At("none", "done").pc = "done"
  BY AtType DEF Points
<1>2. [At("none", "announce") EXCEPT !.want = want] \in Handler
      /\ [At("none", "announce") EXCEPT !.want = want].pc = "announce"
  BY <1>1 DEF Handler
<1>3. h \in Handler /\ h.pc \in {"announce", "done"}
  BY <1>1, <1>2
<1>4. req' = [req EXCEPT ![r] = h]
  BY DEF Announces
<1> HIDE DEF h
<1> QED
  BY <1>3, <1>4, RestingSound

\* The edit version that a write stores is a natural number.
LEMMA VersionUp ==
  ASSUME Inv
  PROVE  \E v \in Nat : v = doc.version + 1
<1>1. doc.version \in Nat
  BY DEF Inv, TypeOK, Document
<1> QED
  BY <1>1

\* Saves and schedule changes.
LEMMA EditingInv ==
  ASSUME Inv, NEW r \in Requests, Editing(r)
  PROVE  Inv'
<1>0. /\ doc \in Document /\ clone \in Document /\ announced \in BOOLEAN
      /\ deaths \in 0..MaxDeaths /\ req[r] \in Handler
      /\ req \in [Requests -> Handler] /\ Sound(req[r])
      /\ Content(doc) \in Snapshot /\ doc.version \in Nat
      /\ doc.dv \in used \cup {0}
  BY ContentType DEF Inv, TypeOK, HandlersSound, NumbersTaken, Document
<1>s. req[r].snap.graph \in Graphs /\ req[r].snap.sched \in Schedules
  BY <1>0 DEF Handler, Snapshot
<1>1. CASE GetWorkflow(r)
  <2> DEFINE h == [At("update", "editing") EXCEPT
                     !.loaded = Content(doc), !.version = doc.version]
  <2>1. At("update", "editing") \in Handler
        /\ At("update", "editing").op = "update"
        /\ At("update", "editing").pc = "editing"
    BY AtType DEF Points, Endpoints
  <2>2. /\ h \in Handler /\ h.op = "update" /\ h.pc = "editing"
        /\ h.loaded = Content(doc) /\ h.version = doc.version
    BY <1>0, <2>1 DEF Handler
  <2>3. req' = [req EXCEPT ![r] = h]
    BY <1>1 DEF GetWorkflow
  <2> HIDE DEF h
  <2>4. Sound(h)
    BY <1>0, <2>2 DEF Sound
  <2> QED
    BY <1>0, <1>1, <2>2, <2>3, <2>4, ReqStep DEF GetWorkflow, Begins
<1>2. CASE UpdateCheck(r)
  <2>0. doc # NoDoc
    BY <1>2, BusyCreated DEF UpdateCheck, Busy
  <2>1. CASE Return(r)
    BY <1>0, <1>2, <2>0, <2>1, ReturnHandler, ReqStep DEF UpdateCheck
  <2>2. CASE ~Return(r)
    <3>1. PICK body \in Bodies, expected \in BOOLEAN :
            req' = [req EXCEPT ![r].pc = "write", ![r].checked = expected,
                               ![r].snap = body.content, ![r].want = body.sched]
      BY <1>2, <2>2 DEF UpdateCheck
    <3> DEFINE h == [req[r] EXCEPT !.pc = "write", !.checked = expected,
                                   !.snap = body.content, !.want = body.sched]
    <3>2. body.content \in Snapshot /\ body.sched \in BOOLEAN
      BY DEF Bodies
    <3>3. /\ h \in Handler /\ h.pc = "write" /\ h.op = "update"
          /\ h.version = req[r].version /\ h.loaded = req[r].loaded
      BY <1>0, <1>2, <3>2 DEF Handler, UpdateCheck, Busy
    <3>4. req' = [req EXCEPT ![r] = h]
      BY <1>0, <3>1
    <3> HIDE DEF h
    <3>5. Sound(h)
      BY <1>0, <1>2, <3>3 DEF Sound, UpdateCheck, Busy
    <3> QED
      BY <1>0, <1>2, <2>0, <3>3, <3>4, <3>5, ReqStep DEF UpdateCheck
  <2> QED
    BY <2>1, <2>2
<1>3. CASE UpdateWrite(r)
  <2>0. doc # NoDoc
    BY <1>3, BusyCreated DEF UpdateWrite, Busy
  <2>1. doc' \in Document /\ doc'.version = doc.version + 1
        /\ doc'.dv = doc.dv
    <3>1. PICK v \in Nat : v = doc.version + 1
      BY VersionUp
    <3>2. doc' = [doc EXCEPT !.graph = req[r].snap.graph, !.version = v,
                    !.sched = IF req[r].want THEN req[r].snap.sched ELSE @]
      BY <1>3, <3>1 DEF UpdateWrite
    <3>3. doc' \in Document /\ doc'.version = v /\ doc'.dv = doc.dv
      BY <1>0, <1>s, <3>2 DEF Document
    <3> QED
      BY <3>1, <3>3
  <2>2. Bumps
    BY <1>0, <2>1 DEF Bumps
  <2>3. \E h \in Handler : Sound(h)' /\ req' = [req EXCEPT ![r] = h]
    <3>1. CASE req[r].want
      <4> DEFINE h == [req[r] EXCEPT !.pc = "reload"]
      <4>1. h \in Handler /\ h.pc = "reload"
        BY <1>0 DEF Handler
      <4>2. req' = [req EXCEPT ![r] = h]
        BY <1>0, <1>3, <3>1 DEF UpdateWrite, Step
      <4> HIDE DEF h
      <4> QED
        BY <4>1, <4>2, RestingSound
    <3>2. CASE ~req[r].want
      BY <1>3, <3>2, ReturnHandler DEF UpdateWrite
    <3> QED
      BY <3>1, <3>2
  <2> QED
    BY <1>0, <1>3, <2>0, <2>1, <2>2, <2>3, DocStep DEF UpdateWrite
<1>4. CASE UpdateReload(r)
  <2>0. doc # NoDoc
    BY <1>4, BusyCreated DEF UpdateReload, Busy
  <2> QED
    BY <1>0, <1>4, <2>0, AnnouncesHandler, ReqStep DEF UpdateReload
<1>5. CASE PatchRead(r)
  <2>1. PICK s \in Schedules :
          req' = [req EXCEPT ![r] = [At("patch", "write") EXCEPT
                    !.isLive = (doc.status = "deployed"), !.snap.sched = s]]
    BY <1>5 DEF PatchRead
  <2> DEFINE h == [At("patch", "write") EXCEPT
                     !.isLive = (doc.status = "deployed"), !.snap.sched = s]
  <2>2. At("patch", "write") \in Handler /\ At("patch", "write").op = "patch"
        /\ At("patch", "write").pc = "write"
    BY AtType DEF Points, Endpoints
  <2>3. h \in Handler /\ h.op = "patch" /\ h.pc = "write"
    BY <2>2 DEF Handler, Snapshot
  <2> HIDE DEF h
  <2>4. Sound(h)
    BY <2>3, RestingSound
  <2> QED
    BY <1>0, <1>5, <2>1, <2>3, <2>4, ReqStep DEF PatchRead, Begins, h
<1>6. CASE PatchWrite(r)
  <2>0. doc # NoDoc
    BY <1>6, BusyCreated DEF PatchWrite, Busy
  <2>1. doc' \in Document /\ doc'.version = doc.version + 1
        /\ doc'.dv = doc.dv
    <3>1. PICK v \in Nat : v = doc.version + 1
      BY VersionUp
    <3>2. doc' = [doc EXCEPT !.sched = req[r].snap.sched, !.version = v]
      BY <1>6, <3>1 DEF PatchWrite
    <3>3. doc' \in Document /\ doc'.version = v /\ doc'.dv = doc.dv
      BY <1>0, <1>s, <3>2 DEF Document
    <3> QED
      BY <3>1, <3>3
  <2>2. Bumps
    BY <1>0, <2>1 DEF Bumps
  <2> QED
    BY <1>0, <1>6, <2>0, <2>1, <2>2, AnnouncesHandler, DocStep DEF PatchWrite
<1>7. CASE Announce(r)
  <2>0. doc # NoDoc
    BY <1>7, BusyCreated DEF Announce
  <2>1. announced' \in BOOLEAN
    BY <1>0, <1>7 DEF Announce, Handler
  <2> QED
    BY <1>0, <1>7, <2>0, <2>1, ReturnHandler, ReqStep DEF Announce
<1> QED
  BY <1>1, <1>2, <1>3, <1>4, <1>5, <1>6, <1>7 DEF Editing
-----------------------------------------------------------------------------
(***************************************************************************)
(* Steps that change the lineage.                                          *)
(***************************************************************************)

\* The insert of a snapshot: a new number, or the unique index raises.
LEMMA SnapshotInsertInv ==
  ASSUME Inv, NEW r \in Requests, SnapshotInsert(r)
  PROVE  Inv'
<1> DEFINE n == req[r].num
<1>0. /\ doc \in Document /\ clone \in Document /\ announced \in BOOLEAN
      /\ deaths \in 0..MaxDeaths /\ req[r] \in Handler
      /\ req \in [Requests -> Handler] /\ Sound(req[r])
      /\ used \in SUBSET Nat /\ erased \in SUBSET Nat
  BY DEF Inv, TypeOK, HandlersSound
<1>1. doc # NoDoc
  BY BusyCreated DEF SnapshotInsert
<1>2. CASE n \in DOMAIN versions
  <2>1. Return(r) /\ UNCHANGED <<doc, lineage, clone, announced, deaths>>
    BY <1>2 DEF SnapshotInsert, lineage
  <2> QED
    BY <1>0, <1>1, <2>1, ReturnHandler, ReqStep
<1>3. CASE n \notin DOMAIN versions
  <2> DEFINE h == [req[r] EXCEPT !.pc = "prune"]
  <2>1. /\ versions' = [m \in DOMAIN versions \cup {n} |->
                          IF m = n THEN req[r].snap ELSE versions[m]]
        /\ used' = used \cup {n} /\ Step(r, "prune")
        /\ UNCHANGED <<doc, erased, announced, clone, deaths>>
    BY <1>3 DEF SnapshotInsert, Inserted
  <2>2. n \in Nat /\ n > 0 /\ req[r].snap \in Snapshot
    BY <1>0 DEF SnapshotInsert, Sound, Handler
  <2>3. h \in Handler /\ h.pc = "prune" /\ h.num = n /\ h.op \in {"deploy", "rollback"}
    BY <1>0 DEF Handler, SnapshotInsert
  <2>4. req' = [req EXCEPT ![r] = h]
    BY <1>0, <2>1 DEF Step
  <2> HIDE DEF h, n
  <2>5. DOMAIN versions' = DOMAIN versions \cup {n}
        /\ \A m \in DOMAIN versions' :
             versions'[m] = IF m = n THEN req[r].snap ELSE versions[m]
    BY <2>1
  <2>6. TypeOK'
    BY <1>0, <2>1, <2>2, <2>3, <2>4, <2>5 DEF Inv, TypeOK
  <2>7. NumbersTaken'
    <3>1. PICK b \in Nat : \A m \in used : m <= b
      BY DEF Inv, NumbersTaken
    <3>2. \E c \in Nat : \A m \in used' : m <= c
      <4>1. CASE n <= b
        BY <2>1, <3>1, <4>1
      <4>2. CASE ~(n <= b)
        <5>1. \A m \in used : m \in Nat /\ m <= n
          BY <1>0, <2>2, <3>1, <4>2
        <5> QED
          BY <2>1, <2>2, <5>1
      <4> QED
        BY <4>1, <4>2
    <3> QED
      BY <2>1, <2>2, <2>5, <3>2 DEF Inv, NumbersTaken
  <2>8. used \subseteq used' /\ doc' = doc
    BY <2>1
  <2>9. HandlersSound'
    <3> SUFFICES ASSUME NEW q \in Requests PROVE Sound(req[q])'
      BY DEF HandlersSound
    <3>1. CASE q = r
      BY <1>0, <2>1, <2>3, <2>4, <3>1 DEF Sound
    <3>2. CASE q # r
      <4>1. Sound(req[q])
        BY DEF Inv, HandlersSound
      <4>2. Sound(req[q]) => (req'[q] = req[q] => Sound(req[q])')
        BY <2>6, <2>7, <2>8, NewerGrows DEF Sound, Content, Inv
      <4> QED
        BY <1>0, <2>4, <3>2, <4>1, <4>2
    <3> QED
      BY <3>1, <3>2
  <2>10. Created'
    BY <1>1, <2>8 DEF Inv, Created
  <2>11. AllKept'
    <3> SUFFICES ASSUME NEW m \in used', m \notin DOMAIN versions' \cup erased'
                 PROVE  Cardinality(Newer(m)') >= Keep
      BY DEF AllKept
    <3>1. m \in used /\ Cardinality(Newer(m)) >= Keep
      BY <2>1, <2>5 DEF Inv, AllKept
    <3> QED
      BY <2>6, <2>7, <2>8, <3>1, NewerGrows DEF Inv
  <2> QED
    BY <2>6, <2>7, <2>9, <2>10, <2>11 DEF Inv
<1> QED
  BY <1>2, <1>3

\* Snapshots go: nothing else looks at them, as long as every number that
\* goes was deleted by hand or has left the window.
LEMMA DropStep ==
  ASSUME Inv, NEW S, versions' = Without(S), used' = used,
         UNCHANGED <<doc, announced, clone, deaths>>,
         erased \subseteq erased', erased' \in SUBSET Nat, doc # NoDoc,
         \A m \in S \cap DOMAIN versions :
            m \in erased' \/ Cardinality(Newer(m)) >= Keep,
         NEW r \in Requests, NEW h \in Handler, Sound(h),
         req' = [req EXCEPT ![r] = h]
  PROVE  Inv'
<1>1. DOMAIN versions' = DOMAIN versions \ S
      /\ \A m \in DOMAIN versions' : versions'[m] = versions[m]
  BY DEF Without
<1>2. TypeOK'
  BY <1>1 DEF Inv, TypeOK
<1>3. NumbersTaken' /\ Created'
  BY <1>1 DEF Inv, NumbersTaken, Created
<1>4. \A m : Newer(m)' = Newer(m)
  BY DEF Newer
<1>5. HandlersSound'
  <2> SUFFICES ASSUME NEW q \in Requests PROVE Sound(req[q])'
    BY DEF HandlersSound
  <2>1. Sound(req[q]) /\ req \in [Requests -> Handler]
    BY DEF Inv, HandlersSound, TypeOK
  <2>2. CASE q = r
    BY <1>4, <2>1, <2>2 DEF Sound, Content
  <2>3. CASE q # r
    BY <1>4, <2>1, <2>3 DEF Sound, Content
  <2> QED
    BY <2>2, <2>3
<1>6. AllKept'
  <2> SUFFICES ASSUME NEW m \in used, m \notin DOMAIN versions' \cup erased'
               PROVE  Cardinality(Newer(m)) >= Keep
    BY <1>4 DEF AllKept
  <2> QED
    BY <1>1 DEF Inv, AllKept
<1> QED
  BY <1>2, <1>3, <1>5, <1>6 DEF Inv
\* Deploy, undeploy, rollback, and deletion of a version.
LEMMA DeployingInv ==
  ASSUME Inv, NEW r \in Requests, Deploying(r)
  PROVE  Inv'
<1>0. /\ doc \in Document /\ clone \in Document /\ announced \in BOOLEAN
      /\ deaths \in 0..MaxDeaths /\ req[r] \in Handler
      /\ req \in [Requests -> Handler] /\ Sound(req[r])
      /\ Content(doc) \in Snapshot /\ doc.version \in Nat
      /\ doc.dv \in used \cup {0}
      /\ used \in SUBSET Nat /\ erased \in SUBSET Nat
  BY ContentType DEF Inv, TypeOK, HandlersSound, NumbersTaken, Document
<1>s. /\ req[r].snap.graph \in Graphs /\ req[r].snap.sched \in Schedules
      /\ req[r].num \in Nat /\ req[r].hook \in Tokens /\ doc.hook \in Tokens
  BY <1>0 DEF Handler, Snapshot, Document
<1>b. req[r].pc # "idle" => doc # NoDoc
  BY BusyCreated
<1>1. CASE DeployRead(r)
  <2>1. CASE Deployable(Content(doc))
    <3> DEFINE h == [At("deploy", "number") EXCEPT
                       !.snap = Content(doc), !.hook = DeployHook(r)]
    <3>1. At("deploy", "number") \in Handler
          /\ At("deploy", "number").pc = "number"
      BY AtType DEF Points, Endpoints
    <3>2. DeployHook(r) \in Tokens
      BY <1>s DEF DeployHook, Tokens
    <3>3. h \in Handler /\ h.pc = "number"
      BY <1>0, <3>1, <3>2 DEF Handler
    <3>4. req' = [req EXCEPT ![r] = h]
      BY <1>1, <2>1 DEF DeployRead
    <3> HIDE DEF h
    <3>5. Sound(h)
      BY <3>3, RestingSound
    <3> QED
      BY <1>0, <1>1, <3>3, <3>4, <3>5, ReqStep DEF DeployRead, Begins
  <2>2. CASE ~Deployable(Content(doc))
    BY <1>0, <1>1, <2>2, ReturnHandler, ReqStep DEF DeployRead, Begins
  <2> QED
    BY <2>1, <2>2
<1>2. CASE SnapshotNumber(r)
  <2> DEFINE n == NextNumber
             h == [req[r] EXCEPT !.pc = "insert", !.num = n]
  <2>1. n \in Nat \ {0}
    BY NextNumberType DEF Inv
  <2>2. req' = [req EXCEPT ![r] = h]
    BY <1>0, <1>2 DEF SnapshotNumber
  <2> HIDE DEF n
  <2>3. h \in Handler /\ h.pc = "insert" /\ h.num = n
    BY <1>0, <2>1 DEF Handler
  <2> HIDE DEF h
  <2>4. Sound(h)
    BY <2>1, <2>3 DEF Sound
  <2> QED
    BY <1>0, <1>b, <1>2, <2>2, <2>3, <2>4, ReqStep DEF SnapshotNumber
<1>3. CASE SnapshotInsert(r)
  BY <1>3, SnapshotInsertInv
<1>4. CASE PruneRead(r)
  <2> DEFINE P == Pruned(req[r].num)
             h == [req[r] EXCEPT !.pc = "drop", !.drop = P]
  <2>1. P \in SUBSET Nat /\ \A m \in P : Cardinality(Newer(m)) >= Keep
    <3>1. DOMAIN versions \subseteq used
      BY DEF Inv, NumbersTaken
    <3>2. ASSUME NEW m \in P PROVE Cardinality(Newer(m)) >= Keep
      <4> DEFINE K == {k \in DOMAIN versions : k > m}
      <4>1. Cardinality(K) >= Keep
        BY DEF Pruned
      <4>2. K \subseteq Newer(m) /\ Newer(m) \subseteq used /\ K \subseteq used
        BY <3>1 DEF Newer
      <4>3. IsFiniteSet(Newer(m)) /\ Cardinality(Newer(m)) \in Nat
            /\ Cardinality(K) \in Nat
        BY <4>2, UsedFinite DEF Inv
      <4> HIDE DEF K
      <4>4. Cardinality(K) <= Cardinality(Newer(m))
        BY <4>2, <4>3, FS_Subset
      <4> QED
        BY <4>1, <4>3, <4>4, ConstantsAssumption
    <3> QED
      BY <1>0, <3>1, <3>2 DEF Pruned
  <2>2. req' = [req EXCEPT ![r] = h]
    BY <1>0, <1>4 DEF PruneRead
  <2> HIDE DEF P
  <2>3. /\ h \in Handler /\ h.pc = "drop" /\ h.num = req[r].num
        /\ h.drop = P /\ h.op \in {"deploy", "rollback"}
    BY <1>0, <1>4, <2>1 DEF Handler, PruneRead
  <2> HIDE DEF h
  <2>4. Sound(h)
    BY <1>0, <1>4, <2>1, <2>3 DEF Sound, PruneRead
  <2> QED
    BY <1>0, <1>b, <1>4, <2>2, <2>3, <2>4, ReqStep DEF PruneRead
<1>5. CASE PruneDelete(r)
  <2> DEFINE h == [req[r] EXCEPT !.pc = "write", !.drop = {}]
  <2>1. h \in Handler /\ h.pc = "write" /\ h.num = req[r].num /\ h.op = req[r].op
    BY <1>0 DEF Handler
  <2>2. req' = [req EXCEPT ![r] = h]
    BY <1>0, <1>5 DEF PruneDelete
  <2> HIDE DEF h
  <2>3. Sound(h)
    BY <1>0, <1>5, <2>1 DEF Sound, PruneDelete
  <2>4. \A m \in req[r].drop : Cardinality(Newer(m)) >= Keep
    BY <1>0, <1>5 DEF Sound, PruneDelete
  <2> DEFINE S == req[r].drop
  <2>5. versions' = Without(S) /\ used' = used /\ erased' = erased
    BY <1>5 DEF PruneDelete
  <2> HIDE DEF S
  <2>6. \A m \in S \cap DOMAIN versions :
          m \in erased' \/ Cardinality(Newer(m)) >= Keep
    BY <2>4 DEF S
  <2> QED
    BY <1>0, <1>b, <1>5, <2>1, <2>2, <2>3, <2>5, <2>6, DropStep DEF PruneDelete
<1>6. CASE DeployWrite(r)
  <2>1. req[r].num \in used
    BY <1>0, <1>6 DEF DeployWrite, Busy, Sound
  <2>2. /\ doc' \in Document /\ doc'.version = doc.version
        /\ Content(doc') = Content(doc) /\ doc'.dv = req[r].num
    BY <1>0, <1>s, <1>6 DEF DeployWrite, Document, Statuses, Content
  <2>3. Bumps
    BY <1>0, <2>2 DEF Bumps, Content
  <2> QED
    BY <1>0, <1>b, <1>6, <2>1, <2>2, <2>3, AnnouncesHandler, DocStep
       DEF DeployWrite, Busy
<1>7. CASE UndeployRead(r)
  <2>1. At("undeploy", "write") \in Handler
        /\ At("undeploy", "write").op = "undeploy"
        /\ At("undeploy", "write").pc = "write"
    BY AtType DEF Points, Endpoints
  <2>2. Sound(At("undeploy", "write"))
    BY <2>1, RestingSound
  <2> QED
    BY <1>0, <1>7, <2>1, <2>2, ReqStep DEF UndeployRead, Begins, Reads
<1>8. CASE UndeployWrite(r)
  <2>1. /\ doc' \in Document /\ doc'.version = doc.version
        /\ Content(doc') = Content(doc) /\ doc'.dv = doc.dv
    BY <1>0, <1>8 DEF UndeployWrite, Document, Statuses, Content
  <2>2. Bumps
    BY <1>0, <2>1 DEF Bumps, Content
  <2> QED
    BY <1>0, <1>b, <1>8, <2>1, <2>2, AnnouncesHandler, DocStep
       DEF UndeployWrite, Busy
<1>9. CASE RollbackRead(r)
  <2>1. PICK n \in used :
          req' = [req EXCEPT ![r] = [At("rollback", "target") EXCEPT
                    !.isLive = (doc.status = "deployed"), !.num = n]]
    BY <1>9 DEF RollbackRead
  <2> DEFINE h == [At("rollback", "target") EXCEPT
                     !.isLive = (doc.status = "deployed"), !.num = n]
  <2>2. At("rollback", "target") \in Handler
        /\ At("rollback", "target").pc = "target"
    BY AtType DEF Points, Endpoints
  <2>3. h \in Handler /\ h.pc = "target"
    BY <1>0, <2>2 DEF Handler
  <2> HIDE DEF h
  <2>4. Sound(h)
    BY <2>3, RestingSound
  <2> QED
    BY <1>0, <1>9, <2>1, <2>3, <2>4, ReqStep DEF RollbackRead, Begins, h
<1>10. CASE RollbackTarget(r)
  <2>1. CASE Return(r)
    BY <1>0, <1>b, <1>10, <2>1, ReturnHandler, ReqStep DEF RollbackTarget, Busy
  <2>2. CASE ~Return(r)
    <3> DEFINE s == versions[req[r].num]
               h == [req[r] EXCEPT !.snap = s, !.num = 0,
                       !.pc = IF req[r].isLive THEN "number" ELSE "write"]
    <3>1. /\ req[r].num \in DOMAIN versions
          /\ req' = [req EXCEPT ![r] = h]
      BY <1>0, <1>10, <2>2 DEF RollbackTarget
    <3>2. s \in Snapshot
      BY <3>1 DEF Inv, TypeOK
    <3> HIDE DEF s
    <3>3. /\ h \in Handler /\ h.op = "rollback" /\ h.isLive = req[r].isLive
          /\ h.pc = IF req[r].isLive THEN "number" ELSE "write"
      BY <1>0, <1>10, <3>2 DEF Handler, RollbackTarget, Busy
    <3> HIDE DEF h
    <3>4. Sound(h)
      BY <3>3, RestingSound
    <3> QED
      BY <1>0, <1>b, <1>10, <3>1, <3>3, <3>4, ReqStep DEF RollbackTarget, Busy
  <2> QED
    BY <2>1, <2>2
<1>11. CASE RollbackWrite(r)
  <2>1. PICK v \in Nat : v = doc.version + 1
    BY VersionUp
  <2> DEFINE n == IF req[r].isLive THEN req[r].num ELSE doc.dv
  <2>2. n \in used \cup {0}
    BY <1>0, <1>11 DEF RollbackWrite, Busy, Sound
  <2>3. doc' = [doc EXCEPT !.graph = req[r].snap.graph,
                           !.sched = req[r].snap.sched, !.version = v, !.dv = n]
    BY <1>11, <2>1 DEF RollbackWrite
  <2> HIDE DEF n
  <2>4. doc' \in Document /\ doc'.version = v /\ doc'.dv = n
    <3>1. n \in Nat
      BY <1>0, <2>2
    <3> QED
      BY <1>0, <1>s, <2>3, <3>1 DEF Document
  <2>5. Bumps
    BY <1>0, <2>1, <2>4 DEF Bumps
  <2> QED
    BY <1>0, <1>b, <1>11, <2>2, <2>4, <2>5, AnnouncesHandler, DocStep
       DEF RollbackWrite, Busy
<1>12. CASE EraseRead(r)
  <2>1. CASE Return(r)
    BY <1>0, <1>12, <2>1, ReturnHandler, ReqStep DEF EraseRead, Begins
  <2>2. CASE ~Return(r)
    <3>1. PICK n \in used :
            req' = [req EXCEPT ![r] = [At("erase", "write") EXCEPT !.num = n]]
      BY <1>12, <2>2 DEF EraseRead
    <3> DEFINE h == [At("erase", "write") EXCEPT !.num = n]
    <3>2. At("erase", "write") \in Handler /\ At("erase", "write").op = "erase"
          /\ At("erase", "write").pc = "write"
      BY AtType DEF Points, Endpoints
    <3>3. h \in Handler /\ h.op = "erase" /\ h.pc = "write"
      BY <1>0, <3>2 DEF Handler
    <3> HIDE DEF h
    <3>4. Sound(h)
      BY <3>3, RestingSound
    <3> QED
      BY <1>0, <1>12, <3>1, <3>3, <3>4, ReqStep DEF EraseRead, Begins, h
  <2> QED
    BY <2>1, <2>2
<1>13. CASE EraseWrite(r)
  <2> DEFINE S == {req[r].num}
  <2>1. versions' = Without(S) /\ used' = used
    BY <1>13 DEF EraseWrite
  <2>2. \A m \in S \cap DOMAIN versions :
          m \in erased' \/ Cardinality(Newer(m)) >= Keep
    BY <1>13 DEF EraseWrite
  <2> HIDE DEF S
  <2>3. erased \subseteq erased' /\ erased' \in SUBSET Nat
    BY <1>0, <1>s, <1>13 DEF EraseWrite
  <2> QED
    BY <1>b, <1>13, <2>1, <2>2, <2>3, ReturnHandler, DropStep
       DEF EraseWrite, Busy
<1> QED
  BY <1>1, <1>2, <1>3, <1>4, <1>5, <1>6, <1>7, <1>8, <1>9, <1>10, <1>11,
     <1>12, <1>13 DEF Deploying
\* Archive, restore, delete, token rotation, duplicate, and a death.
LEMMA ManagingInv ==
  ASSUME Inv, NEW r \in Requests, Managing(r)
  PROVE  Inv'
<1>0. /\ doc \in Document /\ clone \in Document /\ announced \in BOOLEAN
      /\ deaths \in 0..MaxDeaths /\ req[r] \in Handler
      /\ doc.version \in Nat /\ doc.dv \in used \cup {0}
  BY DEF Inv, TypeOK, NumbersTaken, Document
<1>s. req[r].hook \in Tokens /\ doc.hook \in Tokens
  BY <1>0 DEF Handler, Document
<1>b. req[r].pc # "idle" => doc # NoDoc
  BY BusyCreated
<1>1. ASSUME NEW op \in {"archive", "restore", "delete"}, Begins(r, op),
             Reads(r, op, "write") \/ Return(r),
             UNCHANGED <<doc, lineage, announced, clone, deaths>>
      PROVE  Inv'
  <2>1. CASE Return(r)
    BY <1>0, <1>1, <2>1, ReturnHandler, ReqStep DEF Begins
  <2>2. CASE Reads(r, op, "write")
    <3>1. At(op, "write") \in Handler /\ At(op, "write").op = op
          /\ At(op, "write").pc = "write"
      BY <1>1, AtType DEF Points, Endpoints
    <3>2. Sound(At(op, "write"))
      BY <1>1, <3>1, RestingSound
    <3> QED
      BY <1>0, <1>1, <2>2, <3>1, <3>2, ReqStep DEF Begins, Reads
  <2> QED
    BY <1>1, <2>1, <2>2
<1>2. ASSUME req[r].pc = "write", Return(r),
             UNCHANGED <<lineage, announced, clone, deaths>>,
             doc' \in Document, doc'.version = doc.version,
             Content(doc') = Content(doc), doc'.dv = doc.dv
      PROVE  Inv'
  <2>1. Bumps
    BY <1>0, <1>2 DEF Bumps, Content
  <2> QED
    BY <1>0, <1>b, <1>2, <2>1, ReturnHandler, DocStep
<1>3. CASE ArchiveRead(r) \/ RestoreRead(r) \/ DeleteRead(r)
  BY <1>1, <1>3 DEF ArchiveRead, RestoreRead, DeleteRead
<1>4. CASE ArchiveWrite(r)
  <2>1. /\ doc' \in Document /\ doc'.version = doc.version
        /\ Content(doc') = Content(doc) /\ doc'.dv = doc.dv
    BY <1>0, <1>4 DEF ArchiveWrite, Document, Statuses, Content
  <2> QED
    BY <1>2, <1>4, <2>1 DEF ArchiveWrite, Busy
<1>5. CASE RestoreWrite(r)
  <2>1. /\ doc' \in Document /\ doc'.version = doc.version
        /\ Content(doc') = Content(doc) /\ doc'.dv = doc.dv
    BY <1>0, <1>5 DEF RestoreWrite, Document, Statuses, Content
  <2> QED
    BY <1>2, <1>5, <2>1 DEF RestoreWrite, Busy
<1>6. CASE DeleteWrite(r)
  <2>1. /\ doc' \in Document /\ doc'.version = doc.version
        /\ Content(doc') = Content(doc) /\ doc'.dv = doc.dv
    BY <1>0, <1>6 DEF DeleteWrite, Document, Content
  <2> QED
    BY <1>2, <1>6, <2>1 DEF DeleteWrite, Busy
<1>7. CASE RotateRead(r)
  <2>1. CASE doc.hook = NoToken
    BY <1>0, <1>7, <2>1, ReturnHandler, ReqStep DEF RotateRead, Begins
  <2>2. CASE doc.hook # NoToken
    <3> DEFINE h == [At("rotate", "write") EXCEPT !.hook = doc.hook]
    <3>1. At("rotate", "write") \in Handler /\ At("rotate", "write").op = "rotate"
          /\ At("rotate", "write").pc = "write"
      BY AtType DEF Points, Endpoints
    <3>2. h \in Handler /\ h.op = "rotate" /\ h.pc = "write"
      BY <1>s, <3>1 DEF Handler
    <3>3. req' = [req EXCEPT ![r] = h]
      BY <1>7, <2>2 DEF RotateRead
    <3> HIDE DEF h
    <3>4. Sound(h)
      BY <3>2, RestingSound
    <3> QED
      BY <1>0, <1>7, <3>2, <3>3, <3>4, ReqStep DEF RotateRead, Begins
  <2> QED
    BY <2>1, <2>2
<1>8. CASE RotateWrite(r)
  <2>1. /\ doc' \in Document /\ doc'.version = doc.version
        /\ Content(doc') = Content(doc) /\ doc'.dv = doc.dv
    BY <1>0, <1>s, <1>8 DEF RotateWrite, Document, Content, Tokens
  <2> QED
    BY <1>2, <1>8, <2>1 DEF RotateWrite, Busy
<1>9. CASE Duplicate(r)
  <2>1. clone' \in Document
    BY <1>0, <1>9 DEF Duplicate, Document
  <2>2. Bumps
    BY <1>0, <1>9 DEF Duplicate, Bumps, Content
  <2> QED
    BY <1>0, <1>9, <2>1, <2>2, ReturnHandler, DocStep DEF Duplicate, Begins
<1>10. CASE RequestDies(r)
  <2>1. deaths' \in 0..MaxDeaths
    BY <1>0, <1>10, ConstantsAssumption DEF RequestDies
  <2> QED
    BY <1>0, <1>b, <1>10, <2>1, ReturnHandler, ReqStep DEF RequestDies
<1> QED
  BY <1>3, <1>4, <1>5, <1>6, <1>7, <1>8, <1>9, <1>10 DEF Managing

\* The document is created before any request begins.
LEMMA CreateInv ==
  ASSUME Inv, CreateWorkflow \/ CreateFromTemplate
  PROVE  Inv'
<1>1. PICK g \in Graphs, s \in Schedules : doc' = Fresh(g, s)
  BY DEF CreateWorkflow, CreateFromTemplate, Schedules
<1>2. doc' \in Document /\ doc'.version = 1 /\ doc'.dv = 0
  BY <1>1, ContentType DEF Fresh
<1>3. /\ UNCHANGED <<versions, used, erased, req, announced, clone, deaths>>
      /\ doc = NoDoc
  BY DEF CreateWorkflow, CreateFromTemplate, lineage
<1>4. \A r \in Requests : req[r].pc = "idle"
  <2>1. doc.version = 0
    BY <1>3 DEF NoDoc, Fresh
  <2> QED
    BY <2>1 DEF Inv, Created
<1>5. TypeOK'
  BY <1>2, <1>3 DEF Inv, TypeOK
<1>6. HandlersSound'
  BY <1>3, <1>4, RestingSound DEF HandlersSound
<1>7. Created' /\ NumbersTaken' /\ AllKept'
  BY <1>2, <1>3 DEF Inv, Created, NumbersTaken, AllKept, Newer
<1> QED
  BY <1>5, <1>6, <1>7 DEF Inv

LEMMA StepInv == Inv /\ [Next]_vars => Inv'
<1> SUFFICES ASSUME Inv, [Next]_vars PROVE Inv'
  OBVIOUS
<1>1. CASE CreateWorkflow \/ CreateFromTemplate
  BY <1>1, CreateInv
<1>2. ASSUME NEW r \in Requests, Editing(r) \/ Deploying(r) \/ Managing(r)
      PROVE  Inv'
  BY <1>2, EditingInv, DeployingInv, ManagingInv
<1>3. CASE UNCHANGED vars
  BY <1>3 DEF vars, lineage, Inv, TypeOK, HandlersSound, Sound, Newer, Content,
              Created, NumbersTaken, AllKept
<1> QED
  BY <1>1, <1>2, <1>3 DEF Next

LEMMA InvHolds == Spec => []Inv
BY InitInv, StepInv, PTL DEF Spec

-----------------------------------------------------------------------------
(***************************************************************************)
(* Results.                                                                *)
(***************************************************************************)

\* Every state of the document, its versions and the request handlers is well
\* typed; a client whose copy has the stored edit version has the stored
\* content, whatever update_workflow, the schedule patch and rollbacks wrote
\* in between; and the live version keeps its snapshot until Keep newer ones
\* were taken, however _append_version_snapshot and _prune_old_versions of
\* racing requests interleave or die.
THEOREM AuthoringTheorem == Spec => []AuthoringSound
<1>1. Inv => AuthoringSound
  <2> SUFFICES ASSUME Inv PROVE AuthoringSound
    OBVIOUS
  <2>1. VersionTellsCopies
    BY DEF Inv, HandlersSound, Sound, VersionTellsCopies
  <2>2. LiveSnapshotKept
    <3> SUFFICES ASSUME doc.dv # 0, doc.dv \notin erased,
                        Cardinality(Newer(doc.dv)) < Keep
                 PROVE  doc.dv \in DOMAIN versions
      BY DEF LiveSnapshotKept, Newer
    <3>1. doc.dv \in used /\ Newer(doc.dv) \subseteq used
      BY DEF Inv, NumbersTaken, Newer
    <3>2. Cardinality(Newer(doc.dv)) \in Nat
      BY <3>1, UsedFinite DEF Inv
    <3> QED
      BY <3>1, <3>2, ConstantsAssumption DEF Inv, AllKept
  <2> QED
    BY <2>1, <2>2 DEF Inv, AuthoringSound
<1> QED
  BY <1>1, InvHolds, PTL

\* Every step of a request, and the creation, is a step of the lineage or
\* leaves it alone.
LEMMA LineageStep ==
  Inv /\ [Next]_vars => [Lineage!Next]_<<used, versions, doc.dv>>
<1> SUFFICES ASSUME Inv, [Next]_vars
             PROVE  Lineage!Next \/ UNCHANGED <<used, versions, doc.dv>>
  OBVIOUS
<1>0. doc \in Document
  BY DEF Inv, TypeOK
<1>1. CASE CreateWorkflow \/ CreateFromTemplate
  <2>1. PICK g, s : doc' = Fresh(g, s)
    BY <1>1 DEF CreateWorkflow, CreateFromTemplate
  <2>2. doc = NoDoc /\ NoDoc.dv = 0 /\ Fresh(g, s).dv = 0
    BY <1>1 DEF CreateWorkflow, CreateFromTemplate, NoDoc, Fresh
  <2> QED
    BY <1>1, <2>1, <2>2 DEF CreateWorkflow, CreateFromTemplate, lineage
<1>2. ASSUME NEW r \in Requests, Editing(r) \/ Managing(r)
      PROVE  UNCHANGED <<used, versions, doc.dv>>
  <2>1. CASE Editing(r)
    BY <1>0, <2>1
       DEF Editing, GetWorkflow, UpdateCheck, UpdateWrite, UpdateReload,
           PatchRead, PatchWrite, Announce, lineage, Document
  <2>2. CASE Managing(r)
    BY <1>0, <2>2
       DEF Managing, ArchiveRead, ArchiveWrite, RestoreRead, RestoreWrite,
           DeleteRead, DeleteWrite, RotateRead, RotateWrite, Duplicate,
           RequestDies, lineage, Document
  <2> QED
    BY <1>2, <2>1, <2>2
<1>3. ASSUME NEW r \in Requests, Deploying(r)
      PROVE  Lineage!Next \/ UNCHANGED <<used, versions, doc.dv>>
  <2>0. Sound(req[r])
    BY DEF Inv, HandlersSound
  <2>1. CASE \/ DeployRead(r) \/ SnapshotNumber(r) \/ PruneRead(r)
             \/ UndeployRead(r) \/ UndeployWrite(r) \/ RollbackRead(r)
             \/ RollbackTarget(r) \/ EraseRead(r)
    BY <1>0, <2>1
       DEF DeployRead, SnapshotNumber, PruneRead, UndeployRead, UndeployWrite,
           RollbackRead, RollbackTarget, EraseRead, lineage, Document
  <2>2. CASE SnapshotInsert(r)
    <3> DEFINE n == req[r].num
    <3>1. CASE n \in DOMAIN versions
      BY <2>2, <3>1 DEF SnapshotInsert
    <3>2. CASE n \notin DOMAIN versions
      <4>1. /\ DOMAIN versions' = DOMAIN versions \cup {n}
            /\ \A m \in DOMAIN versions : m # n => versions'[m] = versions[m]
        BY <2>2, <3>2 DEF SnapshotInsert, Inserted
      <4>2. n > 0 /\ used' = used \cup {n} /\ doc' = doc
        BY <2>0, <2>2, <3>2 DEF Sound, SnapshotInsert
      <4> HIDE DEF n
      <4>3. Lineage!Unwritten
        BY <3>2, <4>1 DEF Lineage!Unwritten
      <4>4. Lineage!Take
        BY <3>2, <4>1, <4>2, <4>3 DEF Lineage!Take
      <4> QED
        BY <4>4 DEF Lineage!Next
    <3> QED
      BY <3>1, <3>2
  <2>3. CASE PruneDelete(r) \/ EraseWrite(r)
    <3>1. /\ used' = used /\ doc' = doc
          /\ \E S : versions' = Without(S)
      BY <2>3 DEF PruneDelete, EraseWrite
    <3>2. DOMAIN versions' \subseteq DOMAIN versions /\ Lineage!Unwritten
      BY <3>1 DEF Without, Lineage!Unwritten
    <3> QED
      BY <3>1, <3>2 DEF Lineage!Next, Lineage!Drop
  <2>4. CASE DeployWrite(r)
    <3>1. req[r].num \in used /\ doc'.dv = req[r].num
      BY <1>0, <2>0, <2>4 DEF DeployWrite, Busy, Sound, Document
    <3> QED
      BY <2>4, <3>1 DEF DeployWrite, lineage, Lineage!Next, Lineage!GoLive
  <2>5. CASE RollbackWrite(r)
    <3>1. IF req[r].isLive THEN req[r].num \in used /\ doc'.dv = req[r].num
                           ELSE doc'.dv = doc.dv
      BY <1>0, <2>0, <2>5 DEF RollbackWrite, Busy, Sound, Document
    <3> QED
      BY <2>5, <3>1 DEF RollbackWrite, lineage, Lineage!Next, Lineage!GoLive
  <2> QED
    BY <1>3, <2>1, <2>2, <2>3, <2>4, <2>5 DEF Deploying
<1>4. CASE UNCHANGED vars
  BY <1>4 DEF vars, lineage
<1> QED
  BY <1>1, <1>2, <1>3, <1>4 DEF Next

\* The endpoints implement the lineage that its readers rely on: a snapshot is
\* taken under a number that no kept snapshot has and is never rewritten, and
\* the live number is always one that was taken before, for any number of
\* deploys, rollbacks, prunes and deletions that race or die.
THEOREM LineageTheorem == Spec => ImplementsLineage
<1>1. Init => Lineage!Init
  BY DEF Init, Lineage!Init, NoDoc, Fresh
<1> QED
  BY <1>1, InvHolds, LineageStep, PTL DEF Spec, ImplementsLineage, Lineage!Spec

-----------------------------------------------------------------------------
(***************************************************************************)
(* Admission.                                                              *)
(***************************************************************************)

EntryConstants ==
  /\ IsFiniteSet(Calls)
  /\ CacheTTL \in Nat \ {0} /\ Window \in Nat /\ HookLimit \in Nat
  /\ Grace \in Nat /\ Replay \in Nat
  /\ MaxTime \in Nat /\ MaxHalts \in Nat /\ MaxRotations \in Nat /\ MaxFaults \in Nat

\* Who is on the way has a replica; a call that has not begun is blank.
OnTheWay(c) ==
  /\ c.pc = "idle" => c = Entry!NoCall
  /\ c.pc \notin {"idle", "done"} => c.proc \in Processes
  /\ c.pc \in {"lookup", "previous", "body"} => c.kind = "webhook"
  /\ c.pc = "done" => c.current = 0 /\ c.key = 0 /\ c.looked = 0
  /\ c.pc # "done" => c.out = "none"

\* The controls that a find did not return were enabled after its clock was
\* read.
SeenInTime(at, docs) == \A s \in controls : s \notin docs => at <= since[s]

ReadsOK(c) ==
  /\ c.pc \in {"reading", "read"} => c.began <= now
  /\ c.pc = "read" => SeenInTime(c.began, c.docs)

\* What a webhook call presented, against the credential of its arrival.
Presented(c) ==
  c.kind = "webhook" =>
    /\ c.current <= hook.gen /\ c.gen \in 1..hook.gen
    /\ c.proc \in Processes /\ c.arrived <= now
    /\ c.pc \in {"body", "check", "reading", "read", "blob", "insert", "enqueue", "undo"} =>
         /\ c.key >= c.current /\ c.gen >= c.key - 1 /\ c.looked <= now
         /\ c.gen < hook.gen => c.looked - hook.minted[c.gen + 1] <= Grace

\* What the caller is told of its document and its job.
Told(e, job, o) ==
  /\ o = "queued" => e = "queued" /\ job
  /\ e = "queued" /\ ~job => o = "500"

\* Where the handler is tells what is in the store.
Stored(r, c) ==
  /\ c.pc \notin {"enqueue", "undo", "done"} => exec[r] = "none"
  /\ c.pc = "enqueue" => exec[r] = "queued"
  /\ c.pc = "done" => Told(exec[r], r \in jobs, c.out)

RequestOK(r, c) == OnTheWay(c) /\ ReadsOK(c) /\ Presented(c) /\ Stored(r, c)

Caches ==
  /\ \A s \in Scopes : since[s] <= now
  /\ \A p \in Processes :
       cache[p].at <= now /\ SeenInTime(cache[p].at, cache[p].docs)

\* The bucket of a token holds every call that its window still counts, and
\* no window ever counted more than the limit.
Generations == 1..(MaxRotations + 1)
InWindow(p, g, t) ==
  {r \in Entry!CallsOf(p, g) : t - call[r].arrived \in 0..(Window - 1)}

Buckets ==
  \A p \in Processes, g \in Generations :
    /\ Cardinality(bucket[<<p, g>>]) <= HookLimit
    /\ \A r \in Entry!CallsOf(p, g) :
         now - call[r].arrived < Window => <<r, call[r].arrived>> \in bucket[<<p, g>>]
    /\ \A t \in 0..now : Cardinality(InWindow(p, g, t)) <= HookLimit

EntryInv ==
  /\ Entry!TypeOK /\ Caches /\ Buckets
  /\ \A r \in Calls : RequestOK(r, call[r])

-----------------------------------------------------------------------------
(***************************************************************************)
(* Types.                                                                  *)
(***************************************************************************)
Call ==
  [pc : {"idle", "lookup", "previous", "body", "check", "reading",
         "read", "blob", "insert", "enqueue", "undo", "done"},
   kind : Kinds \cup {"none"}, proc : Processes \cup {"none"},
   gen : 0..(MaxRotations + 1), key : 0..(MaxRotations + 1),
   current : 0..(MaxRotations + 1), arrived : 0..MaxTime, looked : 0..MaxTime,
   began : 0..MaxTime, docs : SUBSET Scopes, sure : BOOLEAN,
   out : Entry!Outcomes]

LEMMA SameCardinality == \A S : Entry!Cardinality(S) = Cardinality(S)
BY DEF Entry!Cardinality, Cardinality

LEMMA NoCallType == ASSUME EntryConstants PROVE Entry!NoCall \in Call
BY DEF Entry!NoCall, Call, EntryConstants, Entry!Outcomes

LEMMA OverType ==
  ASSUME EntryConstants, NEW c \in Call, NEW o \in Entry!Outcomes
  PROVE  Entry!Over(c, o) \in Call
<1>1. CASE c.kind = "webhook"
  BY <1>1, NoCallType DEF Entry!Over, Call, Entry!NoCall
<1>2. CASE c.kind # "webhook"
  BY <1>2, NoCallType DEF Entry!Over, Call, Entry!NoCall
<1> QED
  BY <1>1, <1>2

\* A handler's next step, as a record.
Moves(r, c) == c \in Call /\ call' = [call EXCEPT ![r] = c]

LEMMA MovesType ==
  ASSUME Entry!TypeOK, NEW r \in Calls, NEW c, Moves(r, c)
  PROVE  /\ call' \in [Calls -> Call] /\ call'[r] = c
         /\ \A q \in Calls \ {r} : call'[q] = call[q]
BY DEF Entry!TypeOK, Moves, Call

-----------------------------------------------------------------------------
(***************************************************************************)
(* The requests.                                                           *)
(***************************************************************************)

CallsOK == call \in [Calls -> Call] /\ \A r \in Calls : RequestOK(r, call[r])

\* One request moves on: the others keep what is true of them.
LEMMA RequestMoves ==
  ASSUME EntryConstants, EntryInv, NEW r \in Calls, NEW c, Moves(r, c),
         UNCHANGED <<now, controls, since, hook>>,
         \A q \in Calls \ {r} : exec'[q] = exec[q] /\ (q \in jobs => q \in jobs'),
         RequestOK(r, c)'
  PROVE  CallsOK'
<1>1. call'[r] = c /\ \A q \in Calls \ {r} : call'[q] = call[q]
  BY MovesType DEF EntryInv
<1>2. RequestOK(r, call[r])'
  BY <1>1 DEF RequestOK, OnTheWay, ReadsOK, Presented, Stored, Told, SeenInTime
<1>3. ASSUME NEW q \in Calls \ {r} PROVE RequestOK(q, call[q])'
  BY <1>1, <1>3 DEF EntryInv, RequestOK, OnTheWay, ReadsOK, Presented, Stored, Told, SeenInTime
<1>4. call' \in [Calls -> Call]
  BY MovesType DEF EntryInv
<1> QED
  BY <1>2, <1>3, <1>4 DEF CallsOK

\* A handler returns, and tells how document and job are.
LEMMA OverOK ==
  ASSUME EntryConstants, EntryInv, NEW r \in Calls, NEW o \in Entry!Outcomes,
         UNCHANGED <<now, hook>>, Told(exec'[r], r \in jobs', o)
  PROVE  \A c : c = Entry!Over(call[r], o) => RequestOK(r, c)' /\ c \in Call
<1>1. call[r] \in Call /\ Presented(call[r])
  BY DEF EntryInv, Entry!TypeOK, Call, RequestOK
<1>2. Entry!Over(call[r], o) \in Call
  BY <1>1, OverType
<1> SUFFICES ASSUME NEW c, c = Entry!Over(call[r], o) PROVE RequestOK(r, c)'
  BY <1>2
<1>3. /\ c.pc = "done" /\ c.current = 0 /\ c.key = 0 /\ c.looked = 0 /\ c.out = o
      /\ c.kind = "webhook" =>
           /\ call[r].kind = "webhook" /\ c.proc = call[r].proc /\ c.gen = call[r].gen
           /\ c.arrived = call[r].arrived
  BY <1>1 DEF Entry!Over, Entry!NoCall, Call
<1>4. hook.gen \in Nat
  BY DEF EntryInv, Entry!TypeOK, EntryConstants
<1> QED
  BY <1>1, <1>3, <1>4 DEF RequestOK, OnTheWay, ReadsOK, Presented, Stored, Told

LEMMA Answered ==
  ASSUME EntryConstants, EntryInv, NEW r \in Calls, NEW o \in Entry!Outcomes,
         call' = [call EXCEPT ![r] = Entry!Over(@, o)],
         UNCHANGED <<now, controls, since, hook>>,
         \A q \in Calls \ {r} : exec'[q] = exec[q] /\ (q \in jobs => q \in jobs'),
         Told(exec'[r], r \in jobs', o)
  PROVE  CallsOK'
<1>1. PICK c : c = Entry!Over(call[r], o)
  OBVIOUS
<1>2. call' = [call EXCEPT ![r] = c]
  BY <1>1
<1>3. RequestOK(r, c)' /\ c \in Call
  BY <1>1, OverOK
<1> QED
  BY <1>2, <1>3, RequestMoves DEF Moves

\* A handler that only goes on to the next command.
LEMMA GoesOn ==
  ASSUME EntryConstants, EntryInv, NEW r \in Calls, NEW c \in Call,
         call' = [call EXCEPT ![r] = c],
         UNCHANGED <<now, controls, since, hook, exec, jobs>>,
         RequestOK(r, c)'
  PROVE  CallsOK'
BY RequestMoves DEF Moves

LEMMA CheckOK ==
  ASSUME EntryConstants, EntryInv, NEW r \in Calls,
         Entry!CheckCached(r) \/ Entry!CheckStale(r) \/ Entry!ReadControls(r)
           \/ Entry!CheckRead(r)
  PROVE  CallsOK'
<1>0. /\ call[r] \in Call /\ RequestOK(r, call[r]) /\ now \in 0..MaxTime
      /\ controls \subseteq Scopes /\ since \in [Scopes -> 0..MaxTime]
      /\ "503" \in Entry!Outcomes /\ Entry!AfterSwitch(r) \in {"blob", "insert"}
  BY DEF EntryInv, Entry!TypeOK, Call, Entry!Outcomes, Entry!AfterSwitch
<1>1. ASSUME UNCHANGED <<now, controls, since, hook, exec, jobs>>,
             call[r].pc \in {"check", "read"},
             call' = [call EXCEPT ![r] = Entry!Over(@, "503")]
      PROVE  CallsOK'
  <2>1. Told(exec'[r], r \in jobs', "503")
    BY <1>0, <1>1 DEF RequestOK, Stored, Told
  <2> QED
    BY <1>0, <1>1, <2>1, Answered
<1>2. CASE Entry!CheckCached(r)
  <2>1. PICK c : c = [call[r] EXCEPT !.began = now, !.pc = Entry!AfterSwitch(r)]
    OBVIOUS
  <2>2. c \in Call
    BY <1>0, <2>1 DEF Call
  <2>3. UNCHANGED <<now, controls, since, hook, exec, jobs>> /\ call[r].pc = "check"
    BY <1>2 DEF Entry!CheckCached, Entry!switch, Entry!store
  <2>4. RequestOK(r, c)'
    BY <1>0, <2>1, <2>3 DEF RequestOK, OnTheWay, ReadsOK, Presented, Stored, Told, Call
  <2>5. \/ call' = [call EXCEPT ![r] = Entry!Over(@, "503")]
        \/ call' = [call EXCEPT ![r] = c]
    BY <1>2, <2>1 DEF Entry!CheckCached
  <2> QED
    BY <1>1, <2>2, <2>3, <2>4, <2>5, GoesOn
<1>3. CASE Entry!CheckStale(r)
  <2>1. PICK c : c = [call[r] EXCEPT !.began = now, !.pc = "reading"]
    OBVIOUS
  <2>2. c \in Call
    BY <1>0, <2>1 DEF Call
  <2>3. UNCHANGED <<now, controls, since, hook, exec, jobs>> /\ call[r].pc = "check"
    BY <1>3 DEF Entry!CheckStale, Entry!switch, Entry!store
  <2>4. RequestOK(r, c)'
    BY <1>0, <2>1, <2>3 DEF RequestOK, OnTheWay, ReadsOK, Presented, Stored, Told, Call
  <2>5. call' = [call EXCEPT ![r] = c]
    BY <1>0, <1>3, <2>1 DEF Entry!CheckStale, Call
  <2> QED
    BY <2>2, <2>3, <2>4, <2>5, GoesOn
<1>4. CASE Entry!ReadControls(r)
  <2>1. PICK c : c = [call[r] EXCEPT !.docs = controls, !.pc = "read"]
    OBVIOUS
  <2>2. PICK d : d = [call[r] EXCEPT !.sure = FALSE, !.pc = Entry!AfterSwitch(r)]
    OBVIOUS
  <2>3. c \in Call /\ d \in Call
    BY <1>0, <2>1, <2>2 DEF Call
  <2>4. UNCHANGED <<now, controls, since, hook, exec, jobs>> /\ call[r].pc = "reading"
    BY <1>4 DEF Entry!ReadControls, Entry!switch, Entry!store
  <2>5. RequestOK(r, c)'
    BY <1>0, <2>1, <2>4 DEF RequestOK, OnTheWay, ReadsOK, Presented, Stored, Told, Call, SeenInTime
  <2>6. RequestOK(r, d)'
    BY <1>0, <2>2, <2>4 DEF RequestOK, OnTheWay, ReadsOK, Presented, Stored, Told, Call
  <2>7. call' = [call EXCEPT ![r] = c] \/ call' = [call EXCEPT ![r] = d]
    BY <1>0, <1>4, <2>1, <2>2 DEF Entry!ReadControls, Call
  <2> QED
    BY <2>3, <2>4, <2>5, <2>6, <2>7, GoesOn
<1>5. CASE Entry!CheckRead(r)
  <2>1. PICK c : c = [call[r] EXCEPT !.docs = {}, !.pc = Entry!AfterSwitch(r)]
    OBVIOUS
  <2>2. c \in Call
    BY <1>0, <2>1 DEF Call
  <2>3. UNCHANGED <<now, controls, since, hook, exec, jobs>> /\ call[r].pc = "read"
    BY <1>5 DEF Entry!CheckRead, Entry!switch, Entry!store
  <2>4. RequestOK(r, c)'
    BY <1>0, <2>1, <2>3 DEF RequestOK, OnTheWay, ReadsOK, Presented, Stored, Told, Call
  <2>5. \/ call' = [call EXCEPT ![r] = Entry!Over(@, "503")]
        \/ call' = [call EXCEPT ![r] = c]
    BY <1>5, <2>1 DEF Entry!CheckRead
  <2> QED
    BY <1>1, <2>2, <2>3, <2>4, <2>5, GoesOn
<1> QED
  BY <1>2, <1>3, <1>4, <1>5

LEMMA SubmitOK ==
  ASSUME EntryConstants, EntryInv, NEW r \in Calls,
         Entry!Upload(r) \/ Entry!MintFails(r) \/ Entry!InsertExecution(r)
           \/ Entry!Enqueue(r) \/ Entry!UndoInsert(r)
  PROVE  CallsOK'
<1>0. /\ call[r] \in Call /\ RequestOK(r, call[r]) /\ now \in 0..MaxTime
      /\ {"400", "500", "503", "queued"} \subseteq Entry!Outcomes
      /\ exec \in [Calls -> {"none", "queued", "failed"}]
  BY DEF EntryInv, Entry!TypeOK, Call, Entry!Outcomes
<1>1. ASSUME NEW pc \in {"insert", "enqueue", "undo"}, Entry!Goto(r, pc),
             call[r].pc \in {"blob", "insert", "enqueue"},
             UNCHANGED <<now, controls, since, hook>>,
             pc = "insert" => exec'[r] = "none", pc = "enqueue" => exec'[r] = "queued",
             \A q \in Calls \ {r} : exec'[q] = exec[q] /\ (q \in jobs => q \in jobs')
      PROVE  CallsOK'
  <2>1. PICK c : c = [call[r] EXCEPT !.pc = pc]
    OBVIOUS
  <2>2. c \in Call /\ call' = [call EXCEPT ![r] = c]
    BY <1>0, <1>1, <2>1 DEF Call, Entry!Goto
  <2>3. RequestOK(r, c)'
    BY <1>0, <1>1, <2>1 DEF RequestOK, OnTheWay, ReadsOK, Presented, Stored, Told, Call
  <2> QED
    BY <1>1, <2>2, <2>3, RequestMoves DEF Moves
<1>2. CASE Entry!Upload(r)
  <2>1. UNCHANGED <<now, controls, since, hook, exec, jobs>> /\ call[r].pc = "blob"
    BY <1>2 DEF Entry!Upload, Entry!switch, Entry!store
  <2>2. exec[r] = "none" /\ \A o \in {"400", "500"} : Told(exec'[r], r \in jobs', o)
    BY <1>0, <2>1 DEF RequestOK, Stored, Told
  <2> QED
    BY <1>0, <1>1, <1>2, <2>1, <2>2, Answered DEF Entry!Upload, Entry!Answer
<1>3. CASE Entry!MintFails(r)
  <2>1. /\ UNCHANGED <<now, controls, since, hook, exec, jobs>>
        /\ call[r].pc \in {"check", "blob", "insert"}
    BY <1>3 DEF Entry!MintFails, Entry!switch, Entry!store
  <2>2. Told(exec'[r], r \in jobs', "500")
    BY <1>0, <2>1 DEF RequestOK, Stored, Told
  <2> QED
    BY <1>0, <1>3, <2>1, <2>2, Answered DEF Entry!MintFails, Entry!Answer
<1>4. CASE Entry!InsertExecution(r)
  <2>1. /\ UNCHANGED <<now, controls, since, hook, jobs>> /\ call[r].pc = "insert"
        /\ \A q \in Calls \ {r} : exec'[q] = exec[q]
    BY <1>0, <1>4 DEF Entry!InsertExecution, Entry!switch
  <2>2. CASE exec'[r] = "queued" /\ Entry!Goto(r, "enqueue")
    BY <1>0, <1>1, <2>1, <2>2
  <2>3. CASE Entry!Answer(r, "500")
    <3>1. Told(exec'[r], r \in jobs', "500")
      BY DEF Told
    <3> QED
      BY <1>0, <2>1, <2>3, <3>1, Answered DEF Entry!Answer
  <2> QED
    BY <1>0, <1>4, <2>2, <2>3 DEF Entry!InsertExecution
<1>5. CASE Entry!Enqueue(r)
  <2>1. /\ UNCHANGED <<now, controls, since, hook, exec>> /\ call[r].pc = "enqueue"
        /\ jobs \subseteq jobs'
    BY <1>5 DEF Entry!Enqueue, Entry!switch
  <2>2. CASE Entry!Goto(r, "undo")
    BY <1>0, <1>1, <2>1, <2>2
  <2>3. CASE r \in jobs' /\ Entry!Answer(r, "queued")
    <3>1. Told(exec'[r], r \in jobs', "queued")
      BY <1>0, <2>1, <2>3 DEF RequestOK, Stored, Told
    <3> QED
      BY <1>0, <2>1, <2>3, <3>1, Answered DEF Entry!Answer
  <2> QED
    BY <1>5, <2>2, <2>3 DEF Entry!Enqueue
<1>6. CASE Entry!UndoInsert(r)
  <2>1. /\ UNCHANGED <<now, controls, since, hook, jobs>>
        /\ \A q \in Calls \ {r} : exec'[q] = exec[q]
    BY <1>0, <1>6 DEF Entry!UndoInsert, Entry!switch
  <2>2. PICK o \in {"500", "503"} : Entry!Answer(r, o) /\ Told(exec'[r], r \in jobs', o)
    BY <1>0, <1>6 DEF Entry!UndoInsert, Told
  <2> QED
    BY <1>0, <2>1, <2>2, Answered DEF Entry!Answer
<1> QED
  BY <1>2, <1>3, <1>4, <1>5, <1>6

LEMMA HookOK ==
  ASSUME EntryConstants, EntryInv, NEW r \in Calls,
         \/ Entry!LookupToken(r) \/ Entry!LookupPrevious(r)
         \/ \E t \in 0..now, g \in 1..hook.gen, json \in BOOLEAN :
              Entry!VerifySignature(r, t, g, json)
         \/ \E p \in Processes :
              \/ \E k \in Kinds, c \in Callers : Entry!Execute(r, k, p, c)
              \/ \E g \in 1..hook.gen : Entry!WebhookArrives(r, p, g)
  PROVE  CallsOK'
<1>0. /\ call[r] \in Call /\ RequestOK(r, call[r]) /\ now \in 0..MaxTime
      /\ {"400", "401", "404", "429", "refused"} \subseteq Entry!Outcomes
      /\ hook \in [gen : 1..(MaxRotations + 1), minted : [1..(MaxRotations + 1) -> 0..MaxTime]]
      /\ Entry!NoCall \in Call /\ MaxRotations \in Nat
  BY NoCallType DEF EntryInv, Entry!TypeOK, Call, Entry!Outcomes, EntryConstants
<1>g. /\ hook.gen \in 1..(MaxRotations + 1) /\ hook.gen \in Nat
      /\ \A g \in 1..hook.gen : g \in 0..(MaxRotations + 1)
  BY <1>0
<1>k. /\ hook.gen \in 0..(MaxRotations + 1)
      /\ \A c \in Call : c.key \in Nat /\ c.gen \in Nat /\ c.current \in Nat
  <2>1. \A c \in Call : /\ c.key \in 0..(MaxRotations + 1) /\ c.gen \in 0..(MaxRotations + 1)
                        /\ c.current \in 0..(MaxRotations + 1)
    BY DEF Call
  <2> QED
    BY <1>0, <1>g, <2>1
\* The document is found by its token, or by the previous one within Grace.
<1>f. ASSUME call[r].pc \in {"lookup", "previous"},
             UNCHANGED <<now, controls, since, hook, exec, jobs>>,
             \/ call[r].gen = hook.gen
             \/ call[r].gen = hook.gen - 1 /\ now - hook.minted[call[r].gen + 1] <= Grace,
             NEW c, c = Entry!Found(call[r])
      PROVE  c \in Call /\ RequestOK(r, c)'
  <2>1. c = [call[r] EXCEPT !.pc = "body", !.key = hook.gen, !.looked = now]
    BY <1>f DEF Entry!Found
  <2>2. c \in Call
    BY <1>0, <1>k, <2>1 DEF Call
  <2>3. /\ c.pc = "body" /\ c.key = hook.gen /\ c.looked = now
        /\ c.gen = call[r].gen /\ c.current = call[r].current /\ c.kind = call[r].kind
        /\ c.proc = call[r].proc /\ c.arrived = call[r].arrived /\ c.out = call[r].out
    BY <1>0, <2>1 DEF Call
  <2>4. c.gen < hook.gen => c.looked - hook.minted[c.gen + 1] <= Grace
    BY <1>0, <1>f, <1>g, <1>k, <2>3
  <2>5. Presented(c)'
    BY <1>0, <1>f, <1>g, <1>k, <2>3, <2>4 DEF RequestOK, Presented
  <2>6. OnTheWay(c)
    BY <1>0, <1>f, <2>3 DEF RequestOK, OnTheWay
  <2>7. ReadsOK(c)'
    BY <2>3 DEF ReadsOK
  <2>8. Stored(r, c)'
    BY <1>0, <1>f, <2>3 DEF RequestOK, Stored
  <2>9. RequestOK(r, c)'
    BY <2>5, <2>6, <2>7, <2>8 DEF RequestOK, OnTheWay
  <2> QED
    BY <2>2, <2>9
<1>1. CASE Entry!LookupToken(r)
  <2>1. PICK d : d = [call[r] EXCEPT !.pc = "previous"]
    OBVIOUS
  <2>2. d \in Call
    BY <1>0, <2>1 DEF Call
  <2>3. UNCHANGED <<now, controls, since, hook, exec, jobs>> /\ call[r].pc = "lookup"
    BY <1>1 DEF Entry!LookupToken, Entry!switch, Entry!store
  <2>4. RequestOK(r, d)'
    BY <1>0, <2>1, <2>3 DEF RequestOK, OnTheWay, ReadsOK, Presented, Stored, Told, Call
  <2>5. CASE call[r].gen = hook.gen
    <3>1. PICK c : c = Entry!Found(call[r])
      OBVIOUS
    <3>2. call' = [call EXCEPT ![r] = c]
      BY <1>1, <2>5, <3>1 DEF Entry!LookupToken
    <3>3. c \in Call /\ RequestOK(r, c)'
      BY <1>f, <2>3, <2>5, <3>1
    <3> QED
      BY <2>3, <3>2, <3>3, GoesOn
  <2>6. CASE call[r].gen # hook.gen
    <3>1. call' = [call EXCEPT ![r] = d]
      BY <1>1, <2>1, <2>6 DEF Entry!LookupToken
    <3> QED
      BY <2>2, <2>3, <2>4, <3>1, GoesOn
  <2> QED
    BY <2>5, <2>6
<1>2. CASE Entry!LookupPrevious(r)
  <2>3. UNCHANGED <<now, controls, since, hook, exec, jobs>> /\ call[r].pc = "previous"
    BY <1>2 DEF Entry!LookupPrevious, Entry!switch, Entry!store
  <2>4. Told(exec'[r], r \in jobs', "404")
    BY <1>0, <2>3 DEF RequestOK, Stored, Told
  <2>5. CASE call' = [call EXCEPT ![r] = Entry!Over(@, "404")]
    BY <1>0, <2>3, <2>4, <2>5, Answered
  <2>6. CASE /\ call[r].gen = hook.gen - 1 /\ now - hook.minted[hook.gen] <= Grace
             /\ call' = [call EXCEPT ![r] = Entry!Found(@)]
    <3>1. PICK c : c = Entry!Found(call[r])
      OBVIOUS
    <3>2. hook.gen = call[r].gen + 1
      BY <1>0, <1>g, <1>k, <2>6
    <3>3. c \in Call /\ RequestOK(r, c)'
      BY <1>f, <2>3, <2>6, <3>1, <3>2
    <3> QED
      BY <2>3, <2>6, <3>1, <3>3, GoesOn
  <2> QED
    BY <1>2, <2>5, <2>6 DEF Entry!LookupPrevious
<1>3. ASSUME NEW t \in 0..now, NEW g \in 1..hook.gen, NEW json \in BOOLEAN,
             Entry!VerifySignature(r, t, g, json)
      PROVE  CallsOK'
  <2>1. PICK c : c = [call[r] EXCEPT !.pc = "check", !.key = g]
    OBVIOUS
  <2>2. c \in Call
    BY <1>0, <1>g, <1>k, <2>1 DEF Call
  <2>3. UNCHANGED <<now, controls, since, hook, exec, jobs>> /\ call[r].pc = "body"
    BY <1>3 DEF Entry!VerifySignature, Entry!switch, Entry!store
  <2>4. \A o \in {"400", "401"} : Told(exec'[r], r \in jobs', o)
    BY <1>0, <2>3 DEF RequestOK, Stored, Told
  <2>5. CASE call' = [call EXCEPT ![r] = Entry!Over(@, "401")]
    BY <1>0, <2>3, <2>4, <2>5, Answered
  <2>6. CASE call' = [call EXCEPT ![r] = Entry!Over(@, "400")]
    BY <1>0, <2>3, <2>4, <2>6, Answered
  <2>7. CASE g = call[r].key /\ call' = [call EXCEPT ![r] = c]
    <3>1. RequestOK(r, c)'
      BY <1>0, <1>k, <2>1, <2>3, <2>7 DEF RequestOK, OnTheWay, ReadsOK, Presented, Stored, Told, Call
    <3> QED
      BY <2>2, <2>3, <2>7, <3>1, GoesOn
  <2>n. now - t \in Int /\ Replay \in Int
    BY <1>0 DEF EntryConstants
  <2>e. PICK e : e = (CASE now - t > Replay \/ g # call[r].key -> Entry!Over(call[r], "401")
                        [] now - t <= Replay /\ g = call[r].key /\ ~json ->
                             Entry!Over(call[r], "400")
                        [] OTHER -> [call[r] EXCEPT !.pc = "check", !.key = g])
    OBVIOUS
  <2>f. call' = [call EXCEPT ![r] = e]
    BY <1>3, <2>e DEF Entry!VerifySignature
  <2>8. CASE now - t > Replay \/ g # call[r].key
    <3>1. e = Entry!Over(call[r], "401")
      BY <2>8, <2>e, <2>n
    <3> QED
      BY <2>5, <2>f, <3>1
  <2>9. CASE now - t <= Replay /\ g = call[r].key /\ ~json
    <3>1. e = Entry!Over(call[r], "400")
      BY <2>9, <2>e, <2>n
    <3> QED
      BY <2>6, <2>f, <3>1
  <2>10. CASE now - t <= Replay /\ g = call[r].key /\ json
    <3>1. e = c
      BY <2>1, <2>10, <2>e, <2>n
    <3> QED
      BY <2>7, <2>10, <2>f, <3>1
  <2> QED
    BY <2>8, <2>9, <2>10, <2>n
<1>4. ASSUME NEW p \in Processes, NEW k \in Kinds, NEW i \in Callers, Entry!Execute(r, k, p, i)
      PROVE  CallsOK'
  <2>1. PICK c : c = [Entry!NoCall EXCEPT !.kind = k, !.proc = p, !.pc = "check"]
    OBVIOUS
  <2>2. PICK d : d = Entry!Over(Entry!NoCall, "refused")
    OBVIOUS
  <2>3. UNCHANGED <<now, controls, since, hook, exec, jobs>> /\ call[r].pc = "idle"
    BY <1>4 DEF Entry!Execute, Entry!Free, Entry!switch, Entry!store
  <2>4. exec[r] = "none" /\ k \in {"manual", "file"} /\ call[r] = Entry!NoCall
    BY <1>0, <1>4, <2>3 DEF RequestOK, Stored, Told, OnTheWay, Entry!Execute
  <2>5. c \in Call /\ RequestOK(r, c)'
    BY <1>0, <2>1, <2>3, <2>4 DEF RequestOK, OnTheWay, ReadsOK, Presented, Stored, Told, Call,
                                  Entry!NoCall
  <2>6. d \in Call /\ RequestOK(r, d)'
    BY <1>0, <2>2, <2>3, <2>4, OverOK DEF Told
  <2>7. call' = [call EXCEPT ![r] = c] \/ call' = [call EXCEPT ![r] = d]
    BY <1>4, <2>1, <2>2 DEF Entry!Execute
  <2> QED
    BY <2>3, <2>5, <2>6, <2>7, GoesOn
<1>5. ASSUME NEW p \in Processes, NEW g \in 1..hook.gen, Entry!WebhookArrives(r, p, g)
      PROVE  CallsOK'
  <2>1. PICK c : c = [Entry!NoCall EXCEPT !.pc = "lookup", !.kind = "webhook", !.proc = p,
                             !.gen = g, !.arrived = now, !.current = hook.gen]
    OBVIOUS
  <2>2. PICK d : d = Entry!Over(c, "429")
    OBVIOUS
  <2>3. UNCHANGED <<now, controls, since, hook, exec, jobs>> /\ call[r].pc = "idle"
    BY <1>5 DEF Entry!WebhookArrives, Entry!Free, Entry!switch, Entry!store
  <2>4. exec[r] = "none" /\ "webhook" \in Kinds
    BY <1>0, <1>5, <2>3 DEF RequestOK, Stored, Told, Entry!WebhookArrives, Entry!Free
  <2>5a. c \in Call
    BY <1>0, <1>g, <1>k, <2>1, <2>4 DEF Call, Entry!NoCall
  <2>5. c \in Call /\ RequestOK(r, c)'
    BY <1>0, <1>g, <1>k, <2>1, <2>3, <2>4, <2>5a DEF RequestOK, OnTheWay, ReadsOK,
         Presented, Stored, Told, Call, Entry!NoCall
  <2>6. d \in Call
    BY <1>0, <2>2, <2>5, OverType
  <2>7. /\ d.pc = "done" /\ d.current = 0 /\ d.key = 0 /\ d.looked = 0 /\ d.out = "429"
        /\ d.proc = p /\ d.gen = g /\ d.arrived = now
    BY <1>0, <2>1, <2>2 DEF Entry!Over, Entry!NoCall
  <2>8. RequestOK(r, d)'
    BY <1>0, <2>3, <2>4, <2>7 DEF RequestOK, OnTheWay, ReadsOK, Presented, Stored, Told
  <2>9. call' = [call EXCEPT ![r] = c] \/ call' = [call EXCEPT ![r] = d]
    BY <1>5, <2>1, <2>2 DEF Entry!WebhookArrives
  <2> QED
    BY <2>3, <2>5, <2>6, <2>8, <2>9, GoesOn
<1> QED
  BY <1>1, <1>2, <1>3, <1>4, <1>5


-----------------------------------------------------------------------------
(***************************************************************************)
(* Time, rotation and the halts.                                           *)
(***************************************************************************)
SetsControl == \E s \in Scopes, on \in BOOLEAN : Entry!SetControl(s, on)

Environment ==
  \/ Entry!Tick \/ Entry!Rotate
  \/ \E p \in Processes : Entry!HaltFlush(p)
  \/ \E s \in Scopes, on \in BOOLEAN :
       Entry!HaltElsewhere(s, on) \/ \E p \in Processes : Entry!HaltWrite(p, s, on)

\* A control enabled later does not turn an earlier find stale before its time.
LEMMA StillSeen ==
  ASSUME EntryConstants, EntryInv, NEW at \in Int, NEW docs, at <= now, SeenInTime(at, docs),
         UNCHANGED <<controls, since>> \/ SetsControl
  PROVE  SeenInTime(at, docs)'
<1>0. since \in [Scopes -> 0..MaxTime] /\ controls \subseteq Scopes /\ now \in 0..MaxTime
  BY DEF EntryInv, Entry!TypeOK
<1>1. CASE UNCHANGED <<controls, since>>
  BY <1>1 DEF SeenInTime
<1>2. ASSUME NEW s \in Scopes, Entry!SetControl(s, TRUE) PROVE SeenInTime(at, docs)'
  BY <1>0, <1>2 DEF SeenInTime, Entry!SetControl
<1>3. ASSUME NEW s \in Scopes, Entry!SetControl(s, FALSE) PROVE SeenInTime(at, docs)'
  BY <1>0, <1>3 DEF SeenInTime, Entry!SetControl
<1> QED
  BY <1>1, <1>2, <1>3 DEF SetsControl

\* What a rotation does to the credentials.
Rotated == /\ now' = now /\ hook'.gen = hook.gen + 1
           /\ hook'.minted[hook'.gen] = now
           /\ \A g \in 1..hook.gen : hook'.minted[g] = hook.minted[g]

\* What such a step leaves alone.
LEMMA EnvironmentMoves ==
  ASSUME EntryConstants, EntryInv, Environment
  PROVE  /\ UNCHANGED <<call, exec, jobs, bucket>>
         /\ now \in Nat /\ now' \in Nat /\ now <= now'
         /\ hook.gen \in Nat /\ hook'.gen \in Nat /\ hook.gen <= hook'.gen
         /\ hook' = hook \/ Rotated
         /\ (UNCHANGED <<controls, since>>) \/ (SetsControl /\ now' = now)
<1>0. /\ hook \in [gen : 1..(MaxRotations + 1), minted : [1..(MaxRotations + 1) -> 0..MaxTime]] /\ now \in 0..MaxTime
      /\ MaxTime \in Nat /\ MaxRotations \in Nat
  BY DEF EntryInv, Entry!TypeOK, EntryConstants
<1>1. CASE Entry!Tick
  BY <1>0, <1>1 DEF Entry!Tick, Entry!switch, Entry!store
<1>2. CASE Entry!Rotate
  <2>1. /\ hook.gen <= MaxRotations /\ UNCHANGED <<call, exec, jobs, bucket, now, controls, since>>
        /\ hook' = [gen |-> hook.gen + 1,
                    minted |-> [hook.minted EXCEPT ![hook.gen + 1] = now]]
    BY <1>2 DEF Entry!Rotate, Entry!switch, Entry!store
  <2>2. hook.gen + 1 \in 1..(MaxRotations + 1) /\ hook.gen \in Nat
    BY <1>0, <2>1
  <2>3. hook'.minted[hook.gen + 1] = now
    BY <1>0, <2>1, <2>2
  <2>4. \A g \in 1..hook.gen : hook'.minted[g] = hook.minted[g]
    BY <1>0, <2>1, <2>2
  <2>5. hook'.gen = hook.gen + 1 /\ Rotated
    BY <2>1, <2>3, <2>4 DEF Rotated
  <2> QED
    BY <1>0, <2>1, <2>2, <2>5
<1>3. ASSUME NEW p \in Processes, Entry!HaltFlush(p)
      PROVE  UNCHANGED <<call, exec, jobs, bucket, now, hook, controls, since>>
  BY <1>3 DEF Entry!HaltFlush, Entry!store
<1>4. ASSUME NEW s \in Scopes, NEW on \in BOOLEAN, Entry!SetControl(s, on)
      PROVE  UNCHANGED <<call, exec, jobs, bucket, now, hook>> /\ SetsControl
  BY <1>4 DEF Entry!SetControl, Entry!store, SetsControl
<1>5. CASE \E p \in Processes : Entry!HaltFlush(p)
  BY <1>0, <1>3, <1>5
<1>6. CASE \E s \in Scopes, on \in BOOLEAN : Entry!SetControl(s, on)
  BY <1>0, <1>4, <1>6
<1> QED
  BY <1>1, <1>2, <1>5, <1>6 DEF Environment, Entry!HaltElsewhere, Entry!HaltWrite

LEMMA EnvironmentOK ==
  ASSUME EntryConstants, EntryInv, Environment
  PROVE  CallsOK'
<1>0. call' \in [Calls -> Call]
  BY EnvironmentMoves DEF EntryInv, Entry!TypeOK, Call
<1>1. SUFFICES ASSUME NEW q \in Calls PROVE RequestOK(q, call[q])'
  BY <1>0 DEF CallsOK
<1>2. call[q] \in Call /\ RequestOK(q, call[q])
  BY DEF EntryInv, Entry!TypeOK, Call
<1>3. /\ call[q].began \in Int /\ call[q].arrived \in Int /\ call[q].gen \in Int
      /\ call[q].current \in Int /\ call[q].key \in Int /\ call[q].looked \in Int
      /\ Grace \in Nat /\ hook.minted \in [1..(MaxRotations + 1) -> 0..MaxTime]
      /\ hook.gen \in 1..(MaxRotations + 1) /\ MaxRotations \in Nat
  BY <1>2 DEF Call, EntryConstants, EntryInv, Entry!TypeOK
<1>4. ReadsOK(call[q])'
  BY <1>2, <1>3, EnvironmentMoves, StillSeen DEF RequestOK, ReadsOK
<1>5. Presented(call[q])'
  <2> SUFFICES ASSUME call[q].kind = "webhook",
                      call[q].pc \in {"body", "check", "reading", "read", "blob", "insert",
                                      "enqueue", "undo"},
                      call[q].gen < hook'.gen
               PROVE  call[q].looked - hook'.minted[call[q].gen + 1] <= Grace
    <3>1. Presented(call[q]) /\ call' = call /\ now <= now' /\ hook.gen <= hook'.gen
          /\ now \in Nat /\ now' \in Nat /\ hook.gen \in Nat /\ hook'.gen \in Nat
      BY <1>2, EnvironmentMoves DEF RequestOK
    <3>2. call[q].kind = "webhook" =>
            /\ call[q].current <= hook'.gen /\ call[q].gen \in 1..hook'.gen
            /\ call[q].proc \in Processes /\ call[q].arrived <= now'
      BY <1>3, <3>1 DEF Presented
    <3>3. call[q].kind = "webhook" /\ call[q].looked <= now => call[q].looked <= now'
      BY <1>3, <3>1
    <3> QED
      BY <3>1, <3>2, <3>3 DEF Presented
  <2>1. /\ call[q].gen \in 1..hook.gen /\ call[q].looked <= now /\ now \in Nat
        /\ call[q].gen < hook.gen => call[q].looked - hook.minted[call[q].gen + 1] <= Grace
    BY <1>2, EnvironmentMoves DEF RequestOK, Presented
  <2>2. CASE call[q].gen < hook.gen
    <3>1. call[q].gen + 1 \in 1..hook.gen
      BY <1>3, <2>1, <2>2
    <3> QED
      BY <2>1, <2>2, <3>1, EnvironmentMoves DEF Rotated
  <2>3. CASE call[q].gen = hook.gen
    <3>1. hook'.minted[call[q].gen + 1] = now
      BY <1>3, <2>3, EnvironmentMoves DEF Rotated
    <3> QED
      BY <1>3, <2>1, <3>1
  <2> QED
    BY <1>3, <2>1, <2>2, <2>3
<1> QED
  BY <1>2, <1>4, <1>5, EnvironmentMoves DEF RequestOK, OnTheWay, Stored, Told

-----------------------------------------------------------------------------
(***************************************************************************)
(* The caches.                                                             *)
(***************************************************************************)
LEMMA CachesKept ==
  ASSUME EntryConstants, EntryInv, UNCHANGED cache,
         now' \in Nat, now <= now', (UNCHANGED <<controls, since>>) \/ (SetsControl /\ now' = now)
  PROVE  Caches'
<1>0. /\ since \in [Scopes -> 0..MaxTime] /\ now \in 0..MaxTime /\ CacheTTL \in Nat
      /\ cache \in [Processes -> [at : Entry!Never..MaxTime, docs : SUBSET Scopes]]
  BY DEF EntryInv, Entry!TypeOK, EntryConstants
<1>1. ASSUME NEW p \in Processes
      PROVE  cache'[p].at <= now' /\ SeenInTime(cache[p].at, cache[p].docs)'
  <2>1. cache[p].at \in Int /\ cache[p].at <= now /\ SeenInTime(cache[p].at, cache[p].docs)
    BY <1>0 DEF EntryInv, Caches, Entry!Never
  <2>2. cache'[p] = cache[p]
    OBVIOUS
  <2>3. cache'[p].at <= now'
    BY <1>0, <2>1, <2>2
  <2> QED
    BY <2>1, <2>2, <2>3, StillSeen
<1>2. ASSUME NEW s \in Scopes PROVE since'[s] <= now'
  <2>1. CASE UNCHANGED since
    BY <1>0, <2>1 DEF EntryInv, Caches
  <2>2. CASE SetsControl /\ now' = now
    <3>1. PICK z \in Scopes, on \in BOOLEAN : Entry!SetControl(z, on)
      BY <2>2 DEF SetsControl
    <3>2. since' = since \/ since' = [since EXCEPT ![z] = now]
      BY <3>1 DEF Entry!SetControl
    <3> QED
      BY <1>0, <2>2, <3>2 DEF EntryInv, Caches
  <2> QED
    BY <2>1, <2>2
<1> QED
  BY <1>1, <1>2 DEF Caches

LEMMA CacheFlushed ==
  ASSUME EntryConstants, EntryInv, NEW p \in Processes, Entry!HaltFlush(p)
  PROVE  Caches'
<1>0. /\ since \in [Scopes -> 0..MaxTime] /\ now \in 0..MaxTime /\ CacheTTL \in Nat \ {0}
      /\ cache \in [Processes -> [at : Entry!Never..MaxTime, docs : SUBSET Scopes]]
      /\ controls \subseteq Scopes /\ MaxTime \in Nat
  BY DEF EntryInv, Entry!TypeOK, EntryConstants
<1>1. cache' = [cache EXCEPT ![p].at = Entry!Never] /\ UNCHANGED <<now, controls, since>>
  BY DEF Entry!HaltFlush
<1>2. Entry!Never \in Int /\ Entry!Never < 0
  BY <1>0 DEF Entry!Never
<1> QED
  BY <1>0, <1>1, <1>2 DEF EntryInv, Caches, SeenInTime

LEMMA CacheFilled ==
  ASSUME EntryConstants, EntryInv, NEW r \in Calls, Entry!CheckRead(r)
  PROVE  Caches'
<1>0. /\ cache \in [Processes -> [at : Entry!Never..MaxTime, docs : SUBSET Scopes]]
      /\ call[r] \in Call /\ RequestOK(r, call[r])
  BY DEF EntryInv, Entry!TypeOK, Call
<1>1. /\ cache' = [cache EXCEPT ![call[r].proc] = [at |-> call[r].began, docs |-> call[r].docs]]
      /\ UNCHANGED <<now, controls, since>> /\ call[r].pc = "read"
  BY DEF Entry!CheckRead, Entry!switch
<1>2. call[r].began <= now /\ SeenInTime(call[r].began, call[r].docs)
  BY <1>0, <1>1 DEF RequestOK, ReadsOK
<1> QED
  BY <1>0, <1>1, <1>2 DEF EntryInv, Caches, SeenInTime

-----------------------------------------------------------------------------
(***************************************************************************)
(* The types of the rest.                                                  *)
(***************************************************************************)
Requested(r) ==
  \/ Entry!CheckCached(r) \/ Entry!CheckStale(r) \/ Entry!ReadControls(r)
       \/ Entry!CheckRead(r)
  \/ Entry!Upload(r) \/ Entry!MintFails(r) \/ Entry!InsertExecution(r)
       \/ Entry!Enqueue(r) \/ Entry!UndoInsert(r)
  \/ Entry!LookupToken(r) \/ Entry!LookupPrevious(r)
  \/ \E t \in 0..now, g \in 1..hook.gen, json \in BOOLEAN : Entry!VerifySignature(r, t, g, json)
  \/ \E p \in Processes, k \in Kinds, c \in Callers : Entry!Execute(r, k, p, c)

Arrives(r) == \E p \in Processes, g \in 1..hook.gen : Entry!WebhookArrives(r, p, g)

LEMMA Steps ==
  Entry!Next => Environment \/ \E r \in Calls : Requested(r) \/ Arrives(r)
BY DEF Entry!Next, Environment, Requested, Arrives

\* The switch, the credential and the store, apart from the calls and buckets.
StoreTypes ==
  /\ now \in 0..MaxTime
  /\ controls \subseteq Scopes /\ since \in [Scopes -> 0..MaxTime]
  /\ cache \in [Processes -> [at : Entry!Never..MaxTime, docs : SUBSET Scopes]]
  /\ unflushed \subseteq Processes
  /\ hook \in [gen : 1..(MaxRotations + 1), minted : [1..(MaxRotations + 1) -> 0..MaxTime]]
  /\ exec \in [Calls -> {"none", "queued", "failed"}]
  /\ jobs \subseteq Calls
  /\ halts \in 0..MaxHalts /\ faults \in 0..MaxFaults

LEMMA EnvironmentTypes ==
  ASSUME EntryConstants, EntryInv, Environment
  PROVE  StoreTypes'
<1>0. StoreTypes /\ MaxTime \in Nat /\ MaxHalts \in Nat /\ MaxRotations \in Nat /\ CacheTTL \in Nat
  BY DEF EntryInv, Entry!TypeOK, StoreTypes, EntryConstants
<1>1. CASE Entry!Tick
  BY <1>0, <1>1 DEF StoreTypes, Entry!Tick, Entry!switch, Entry!store
<1>2. CASE Entry!Rotate
  <2>1. /\ hook.gen <= MaxRotations /\ UNCHANGED <<exec, jobs, now, controls, since>>
        /\ UNCHANGED <<cache, unflushed, halts, faults>>
        /\ hook' = [gen |-> hook.gen + 1,
                    minted |-> [hook.minted EXCEPT ![hook.gen + 1] = now]]
    BY <1>2 DEF Entry!Rotate, Entry!switch, Entry!store
  <2>2. /\ hook.minted \in [1..(MaxRotations + 1) -> 0..MaxTime] /\ now \in 0..MaxTime
        /\ hook.gen + 1 \in 1..(MaxRotations + 1)
    BY <1>0, <2>1 DEF StoreTypes
  <2>3. [hook.minted EXCEPT ![hook.gen + 1] = now] \in [1..(MaxRotations + 1) -> 0..MaxTime]
    BY <2>2
  <2>4. hook' \in [gen : 1..(MaxRotations + 1), minted : [1..(MaxRotations + 1) -> 0..MaxTime]]
    BY <2>1, <2>2, <2>3
  <2> QED
    BY <1>0, <2>1, <2>4 DEF StoreTypes
<1>3. ASSUME NEW p \in Processes, Entry!HaltFlush(p) PROVE StoreTypes'
  <2>1. Entry!Never \in Entry!Never..MaxTime
    BY <1>0 DEF Entry!Never
  <2>2. cache' = [cache EXCEPT ![p].at = Entry!Never]
    BY <1>3 DEF Entry!HaltFlush
  <2>3. cache' \in [Processes -> [at : Entry!Never..MaxTime, docs : SUBSET Scopes]]
    BY <1>0, <2>1, <2>2 DEF StoreTypes
  <2> QED
    BY <1>0, <1>3, <2>3 DEF StoreTypes, Entry!HaltFlush, Entry!store
<1>4. ASSUME NEW s \in Scopes, NEW on \in BOOLEAN, Entry!SetControl(s, on),
             unflushed' \subseteq Processes
      PROVE  StoreTypes'
  <2>1. since' \in [Scopes -> 0..MaxTime] /\ controls' \subseteq Scopes
    BY <1>0, <1>4 DEF StoreTypes, Entry!SetControl
  <2> QED
    BY <1>0, <1>4, <2>1 DEF StoreTypes, Entry!SetControl, Entry!store
<1>5. ASSUME NEW s \in Scopes, NEW on \in BOOLEAN, Entry!HaltElsewhere(s, on)
      PROVE  StoreTypes'
  BY <1>0, <1>4, <1>5 DEF StoreTypes, Entry!HaltElsewhere
<1>6. ASSUME NEW s \in Scopes, NEW on \in BOOLEAN, NEW p \in Processes,
             Entry!HaltWrite(p, s, on)
      PROVE  StoreTypes'
  BY <1>0, <1>4, <1>6 DEF StoreTypes, Entry!HaltWrite
<1> QED
  BY <1>1, <1>2, <1>3, <1>5, <1>6 DEF Environment

LEMMA RequestTypes ==
  ASSUME EntryConstants, EntryInv, NEW r \in Calls, Requested(r) \/ Arrives(r)
  PROVE  StoreTypes'
<1>0. /\ StoreTypes /\ MaxFaults \in Nat /\ call[r] \in Call /\ OnTheWay(call[r])
      /\ MaxTime \in Nat /\ CacheTTL \in Nat
  BY DEF EntryInv, Entry!TypeOK, StoreTypes, EntryConstants, Call, RequestOK
<1>1. CASE Entry!CheckCached(r) \/ Entry!CheckStale(r)
  BY <1>0, <1>1 DEF StoreTypes, Entry!CheckCached, Entry!CheckStale, Entry!switch, Entry!store
<1>2. CASE Entry!ReadControls(r) \/ Entry!Upload(r) \/ Entry!MintFails(r)
  BY <1>0, <1>2 DEF StoreTypes, Entry!ReadControls, Entry!Upload, Entry!MintFails, Entry!Fault,
     Entry!NoFault, Entry!switch, Entry!store
<1>3. CASE Entry!CheckRead(r)
  <2>1. [at |-> call[r].began, docs |-> call[r].docs] \in [at : Entry!Never..MaxTime, docs : SUBSET Scopes]
    BY <1>0 DEF Call, Entry!Never
  <2>2. cache' = [cache EXCEPT ![call[r].proc] = [at |-> call[r].began, docs |-> call[r].docs]]
    BY <1>3 DEF Entry!CheckRead
  <2>3. cache' \in [Processes -> [at : Entry!Never..MaxTime, docs : SUBSET Scopes]]
    BY <1>0, <2>1, <2>2 DEF StoreTypes
  <2> QED
    BY <1>0, <1>3, <2>3 DEF StoreTypes, Entry!CheckRead, Entry!switch, Entry!store
<1>4. CASE Entry!InsertExecution(r) \/ Entry!UndoInsert(r)
  BY <1>0, <1>4 DEF StoreTypes, Entry!InsertExecution, Entry!UndoInsert, Entry!Fault,
     Entry!NoFault, Entry!switch
<1>5. CASE Entry!Enqueue(r)
  BY <1>0, <1>5 DEF StoreTypes, Entry!Enqueue, Entry!Fault, Entry!NoFault, Entry!switch
<1>6. CASE Entry!LookupToken(r) \/ Entry!LookupPrevious(r)
  BY <1>0, <1>6 DEF StoreTypes, Entry!LookupToken, Entry!LookupPrevious, Entry!switch, Entry!store
<1>7. ASSUME NEW t, NEW g, NEW json, Entry!VerifySignature(r, t, g, json) PROVE StoreTypes'
  BY <1>0, <1>7 DEF StoreTypes, Entry!VerifySignature, Entry!switch, Entry!store
<1>8. ASSUME NEW p, NEW k, NEW c, Entry!Execute(r, k, p, c) PROVE StoreTypes'
  BY <1>0, <1>8 DEF StoreTypes, Entry!Execute, Entry!switch, Entry!store
<1>9. ASSUME NEW p, NEW g, Entry!WebhookArrives(r, p, g) PROVE StoreTypes'
  BY <1>0, <1>9 DEF StoreTypes, Entry!WebhookArrives, Entry!switch, Entry!store
<1> QED
  BY <1>1, <1>2, <1>3, <1>4, <1>5, <1>6, <1>7, <1>8, <1>9 DEF Requested, Arrives

-----------------------------------------------------------------------------
(***************************************************************************)
(* The buckets.                                                            *)
(***************************************************************************)
LEMMA BucketFinite ==
  ASSUME EntryConstants, NEW b \in SUBSET (Calls \X (0..MaxTime))
  PROVE  IsFiniteSet(b) /\ Cardinality(b) \in Nat
<1>1. IsFiniteSet(0..MaxTime)
  BY FS_Interval DEF EntryConstants
<1>2. IsFiniteSet(Calls \X (0..MaxTime))
  BY <1>1, FS_Product DEF EntryConstants
<1> QED
  BY <1>2, FS_Subset, FS_CardinalityType

\* The calls that the window of this moment counts are in the bucket.
LEMMA WindowInBucket ==
  ASSUME NEW W, NEW b, IsFiniteSet(b), NEW at, \A r \in W : <<r, at[r]>> \in b
  PROVE  IsFiniteSet(W) /\ Cardinality(W) <= Cardinality(b)
<1>1. PICK f : f = [r \in W |-> <<r, at[r]>>]
  OBVIOUS
<1>2. f \in Injection(W, b)
  BY <1>1 DEF Injection, IsInjective
<1> QED
  BY <1>2, FS_Injection

\* From one step to the next: no call is counted that was not, unless it
\* arrived now; then the bucket has it.
LEMMA BucketsStep ==
  ASSUME EntryConstants, EntryInv,
         now' \in Nat, now <= now', now' <= now + 1,
         bucket' \in [Processes \X Generations -> SUBSET (Calls \X (0..MaxTime))],
         \A r \in Calls : call'[r].arrived \in Int,
         \A p \in Processes, g \in Generations :
           /\ Cardinality(bucket'[<<p, g>>]) <= HookLimit
           /\ \A r \in Entry!CallsOf(p, g)' :
                /\ now' - call'[r].arrived < Window =>
                     <<r, call'[r].arrived>> \in bucket'[<<p, g>>]
                /\ \/ r \in Entry!CallsOf(p, g) /\ call'[r].arrived = call[r].arrived
                   \/ call'[r].arrived = now'
  PROVE  Buckets'
<1>1. SUFFICES ASSUME NEW p \in Processes, NEW g \in Generations, NEW t \in 0..now'
               PROVE  Cardinality(InWindow(p, g, t)') <= HookLimit
  BY DEF Buckets
<1>2. /\ now \in Nat /\ Window \in Nat /\ HookLimit \in Nat
      /\ bucket'[<<p, g>>] \in SUBSET (Calls \X (0..MaxTime))
  BY DEF EntryInv, Entry!TypeOK, EntryConstants
<1>3. InWindow(p, g, t)' =
        {r \in Entry!CallsOf(p, g)' : t - call'[r].arrived \in 0..(Window - 1)}
  BY DEF InWindow
<1>4. Entry!CallsOf(p, g)' \subseteq Calls /\ Entry!CallsOf(p, g) \subseteq Calls
  BY DEF Entry!CallsOf
<1>5. CASE t = now'
  <2>1. \A r \in InWindow(p, g, t)' : <<r, call'[r].arrived>> \in bucket'[<<p, g>>]
    <3>1. SUFFICES ASSUME NEW r \in InWindow(p, g, t)'
                   PROVE  <<r, call'[r].arrived>> \in bucket'[<<p, g>>]
      OBVIOUS
    <3>2. r \in Entry!CallsOf(p, g)' /\ now' - call'[r].arrived \in 0..(Window - 1)
      BY <1>3, <1>5
    <3>3. now' - call'[r].arrived < Window
      BY <1>2, <3>2
    <3> QED
      BY <3>2, <3>3
  <2>2. PICK at : at = [r \in Calls |-> call'[r].arrived]
    OBVIOUS
  <2>3. \A r \in InWindow(p, g, t)' : <<r, at[r]>> \in bucket'[<<p, g>>]
    BY <1>3, <1>4, <2>1, <2>2
  <2>4. IsFiniteSet(bucket'[<<p, g>>]) /\ Cardinality(bucket'[<<p, g>>]) \in Nat
    BY <1>2, BucketFinite
  <2>5. /\ IsFiniteSet(InWindow(p, g, t)')
        /\ Cardinality(InWindow(p, g, t)') <= Cardinality(bucket'[<<p, g>>])
    BY <2>3, <2>4, WindowInBucket
  <2>6. Cardinality(InWindow(p, g, t)') \in Nat
    BY <2>5, FS_CardinalityType
  <2> QED
    BY <1>2, <2>4, <2>5, <2>6
<1>6. CASE t < now'
  <2>1. t \in 0..now
    BY <1>2, <1>6
  <2>2. InWindow(p, g, t)' \subseteq InWindow(p, g, t)
    <3>1. SUFFICES ASSUME NEW r \in InWindow(p, g, t)' PROVE r \in InWindow(p, g, t)
      OBVIOUS
    <3>2. r \in Entry!CallsOf(p, g)' /\ t - call'[r].arrived \in 0..(Window - 1)
      BY <1>3
    <3>3. call'[r].arrived # now'
      BY <1>2, <1>6, <3>2
    <3>4. r \in Entry!CallsOf(p, g) /\ call'[r].arrived = call[r].arrived
      BY <3>2, <3>3
    <3> QED
      BY <3>2, <3>4 DEF InWindow
  <2>3. InWindow(p, g, t) \subseteq Calls
    BY <1>4 DEF InWindow
  <2>4. IsFiniteSet(InWindow(p, g, t)) /\ IsFiniteSet(InWindow(p, g, t)')
    BY <2>2, <2>3, FS_Subset DEF EntryConstants
  <2>5. Cardinality(InWindow(p, g, t)') <= Cardinality(InWindow(p, g, t))
    BY <2>2, <2>4, FS_Subset
  <2>6. Cardinality(InWindow(p, g, t)') \in Nat /\ Cardinality(InWindow(p, g, t)) \in Nat
    BY <2>4, FS_CardinalityType
  <2>7. Cardinality(InWindow(p, g, t)) <= HookLimit
    BY <2>1 DEF EntryInv, Buckets
  <2> QED
    BY <1>2, <2>5, <2>6, <2>7
<1> QED
  BY <1>2, <1>5, <1>6

\* A call that stays what it was for the limit.
Carries(c, d) ==
  d.kind = "webhook" /\ d.out # "429" =>
    /\ c.kind = "webhook" /\ c.out # "429"
    /\ d.proc = c.proc /\ d.gen = c.gen /\ d.arrived = c.arrived

LEMMA BucketsKept ==
  ASSUME EntryConstants, EntryInv, now' \in Nat, now <= now', now' <= now + 1,
         UNCHANGED bucket, call' \in [Calls -> Call],
         \A r \in Calls : Carries(call[r], call'[r])
  PROVE  Buckets'
<1>1. /\ bucket \in [Processes \X Generations -> SUBSET (Calls \X (0..MaxTime))]
      /\ call \in [Calls -> Call] /\ now \in Nat /\ Window \in Nat
      /\ MaxTime \in Nat
  BY DEF EntryInv, Entry!TypeOK, Generations, Call, EntryConstants
<1>2. \A r \in Calls : call'[r].arrived \in Int /\ call[r].arrived \in Int
  BY <1>1 DEF Call
<1>3. ASSUME NEW p \in Processes, NEW g \in Generations
      PROVE  /\ Cardinality(bucket'[<<p, g>>]) <= HookLimit
             /\ \A r \in Entry!CallsOf(p, g)' :
                  /\ now' - call'[r].arrived < Window =>
                       <<r, call'[r].arrived>> \in bucket'[<<p, g>>]
                  /\ r \in Entry!CallsOf(p, g) /\ call'[r].arrived = call[r].arrived
  <2>1. \A r \in Entry!CallsOf(p, g)' :
           r \in Calls /\ r \in Entry!CallsOf(p, g) /\ call'[r].arrived = call[r].arrived
    BY DEF Entry!CallsOf, Carries
  <2>2. /\ Cardinality(bucket[<<p, g>>]) <= HookLimit
        /\ \A r \in Entry!CallsOf(p, g) :
             now - call[r].arrived < Window => <<r, call[r].arrived>> \in bucket[<<p, g>>]
    BY DEF EntryInv, Buckets
  <2> QED
    BY <1>1, <1>2, <2>1, <2>2
<1> QED
  BY <1>1, <1>2, <1>3, BucketsStep

\* Every step of a handler that has begun.
LEMMA RequestedCarries ==
  ASSUME EntryConstants, EntryInv, NEW r \in Calls, Requested(r)
  PROVE  UNCHANGED <<bucket, now>> /\ \A q \in Calls : Carries(call[q], call'[q])
<1>0. /\ call \in [Calls -> Call] /\ call[r] \in Call /\ OnTheWay(call[r])
  BY DEF EntryInv, Entry!TypeOK, Call, RequestOK
<1>1. ASSUME call[r].pc # "done", NEW c, call' = [call EXCEPT ![r] = c], Carries(call[r], c)
      PROVE  \A q \in Calls : Carries(call[q], call'[q])
  BY <1>0, <1>1 DEF Carries
<1>2. ASSUME call[r].pc # "done", NEW o, call' = [call EXCEPT ![r] = Entry!Over(@, o)]
      PROVE  \A q \in Calls : Carries(call[q], call'[q])
  <2>1. PICK c : c = Entry!Over(call[r], o)
    OBVIOUS
  <2>2. Carries(call[r], c)
    <3>1. CASE call[r].kind = "webhook"
      BY <1>0, <1>2, <2>1, <3>1 DEF Carries, OnTheWay, Entry!Over, Entry!NoCall
    <3>2. CASE call[r].kind # "webhook"
      <4>1. Entry!Over(call[r], o) = [Entry!NoCall EXCEPT !.pc = "done", !.out = o]
        BY <3>2 DEF Entry!Over
      <4> QED
        BY <2>1, <4>1 DEF Carries, Entry!NoCall
    <3> QED
      BY <3>1, <3>2
  <2> QED
    BY <1>1, <1>2, <2>1, <2>2
<1>3. ASSUME call[r].pc # "done", NEW pc, Entry!Goto(r, pc)
      PROVE  \A q \in Calls : Carries(call[q], call'[q])
  BY <1>0, <1>3 DEF Carries, OnTheWay, Entry!Goto, Call
<1>f. ASSUME call[r].pc # "done", call' = [call EXCEPT ![r] = Entry!Found(@)]
      PROVE  \A q \in Calls : Carries(call[q], call'[q])
  <2>1. PICK c : c = Entry!Found(call[r])
    OBVIOUS
  <2>2. Carries(call[r], c)
    BY <1>0, <1>f, <2>1 DEF Carries, OnTheWay, Entry!Found, Call
  <2> QED
    BY <1>1, <1>f, <2>1, <2>2
<1>4. CASE Entry!CheckCached(r)
  <2>1. \/ call' = [call EXCEPT ![r] = Entry!Over(@, "503")]
        \/ call' = [call EXCEPT ![r] = [@ EXCEPT !.began = now, !.pc = Entry!AfterSwitch(r)]]
    BY <1>4 DEF Entry!CheckCached
  <2>2. call[r].pc # "done" /\ UNCHANGED <<bucket, now>>
    BY <1>4 DEF Entry!CheckCached
  <2>3. PICK c : c = [call[r] EXCEPT !.began = now, !.pc = Entry!AfterSwitch(r)]
    OBVIOUS
  <2>4. Carries(call[r], c)
    BY <1>0, <2>2, <2>3 DEF Carries, OnTheWay, Call
  <2> QED
    BY <1>1, <1>2, <2>1, <2>2, <2>3, <2>4
<1>5. CASE Entry!CheckStale(r)
  BY <1>0, <1>5 DEF Carries, OnTheWay, Call, Entry!CheckStale
<1>6. CASE Entry!ReadControls(r)
  BY <1>0, <1>6 DEF Carries, OnTheWay, Call, Entry!ReadControls
<1>7. CASE Entry!CheckRead(r)
  <2>1. \/ call' = [call EXCEPT ![r] = Entry!Over(@, "503")]
        \/ call' = [call EXCEPT ![r] = [@ EXCEPT !.docs = {}, !.pc = Entry!AfterSwitch(r)]]
    BY <1>7 DEF Entry!CheckRead
  <2>2. call[r].pc # "done" /\ UNCHANGED <<bucket, now>>
    BY <1>7 DEF Entry!CheckRead
  <2>3. PICK c : c = [call[r] EXCEPT !.docs = {}, !.pc = Entry!AfterSwitch(r)]
    OBVIOUS
  <2>4. Carries(call[r], c)
    BY <1>0, <2>2, <2>3 DEF Carries, OnTheWay, Call
  <2> QED
    BY <1>1, <1>2, <2>1, <2>2, <2>3, <2>4
<1>8. CASE Entry!Upload(r) \/ Entry!MintFails(r) \/ Entry!UndoInsert(r)
  BY <1>2, <1>3, <1>8 DEF Entry!Upload, Entry!MintFails, Entry!UndoInsert, Entry!Answer
<1>9. CASE Entry!InsertExecution(r) \/ Entry!Enqueue(r)
  BY <1>2, <1>3, <1>9 DEF Entry!InsertExecution, Entry!Enqueue, Entry!Answer
<1>10. CASE Entry!LookupToken(r)
  <2>1. call[r].pc # "done" /\ UNCHANGED <<bucket, now>>
    BY <1>10 DEF Entry!LookupToken
  <2>2. PICK d : d = [call[r] EXCEPT !.pc = "previous"]
    OBVIOUS
  <2>3. call' = [call EXCEPT ![r] = Entry!Found(@)] \/ call' = [call EXCEPT ![r] = d]
    BY <1>10, <2>2 DEF Entry!LookupToken
  <2>4. Carries(call[r], d)
    BY <1>0, <2>1, <2>2 DEF Carries, OnTheWay, Call
  <2> QED
    BY <1>1, <1>f, <2>1, <2>3, <2>4
<1>11. CASE Entry!LookupPrevious(r)
  <2>1. \/ call' = [call EXCEPT ![r] = Entry!Over(@, "404")]
        \/ call' = [call EXCEPT ![r] = Entry!Found(@)]
    BY <1>11 DEF Entry!LookupPrevious
  <2>2. call[r].pc # "done" /\ UNCHANGED <<bucket, now>>
    BY <1>11 DEF Entry!LookupPrevious
  <2> QED
    BY <1>2, <1>f, <2>1, <2>2
<1>12. ASSUME NEW t, NEW g, NEW json, Entry!VerifySignature(r, t, g, json)
       PROVE  UNCHANGED <<bucket, now>> /\ \A q \in Calls : Carries(call[q], call'[q])
  <2>1. PICK e : e = (CASE now - t > Replay \/ g # call[r].key -> Entry!Over(call[r], "401")
                        [] now - t <= Replay /\ g = call[r].key /\ ~json ->
                             Entry!Over(call[r], "400")
                        [] OTHER -> [call[r] EXCEPT !.pc = "check", !.key = g])
    OBVIOUS
  <2>2. call' = [call EXCEPT ![r] = e] /\ UNCHANGED <<bucket, now>> /\ call[r].pc # "done"
    BY <1>12, <2>1 DEF Entry!VerifySignature
  <2>3. \/ e = Entry!Over(call[r], "401") \/ e = Entry!Over(call[r], "400")
        \/ e = [call[r] EXCEPT !.pc = "check", !.key = g]
    BY <2>1
  <2>4. CASE e = [call[r] EXCEPT !.pc = "check", !.key = g]
    BY <1>0, <2>2, <2>4 DEF Carries, OnTheWay, Call
  <2>5. ASSUME NEW o, e = Entry!Over(call[r], o)
        PROVE  \A q \in Calls : Carries(call[q], call'[q])
    BY <1>2, <2>2, <2>5
  <2> QED
    BY <2>2, <2>3, <2>4, <2>5
<1>13. ASSUME NEW p, NEW k, NEW i, Entry!Execute(r, k, p, i)
       PROVE  UNCHANGED <<bucket, now>> /\ \A q \in Calls : Carries(call[q], call'[q])
  <2>1. \/ call' = [call EXCEPT ![r] = [Entry!NoCall EXCEPT !.kind = k, !.proc = p, !.pc = "check"]]
        \/ call' = [call EXCEPT ![r] = Entry!Over(Entry!NoCall, "refused")]
    BY <1>13 DEF Entry!Execute
  <2>2. k # "webhook" /\ UNCHANGED <<bucket, now>>
    BY <1>13 DEF Entry!Execute
  <2>3. Carries(call[r], [Entry!NoCall EXCEPT !.kind = k, !.proc = p, !.pc = "check"])
    BY <2>2 DEF Carries, Entry!NoCall
  <2>4. Carries(call[r], Entry!Over(Entry!NoCall, "refused"))
    BY DEF Carries, Entry!NoCall, Entry!Over
  <2>5. call[r].pc # "done"
    BY <1>13 DEF Entry!Execute, Entry!Free
  <2> QED
    BY <1>1, <2>1, <2>2, <2>3, <2>4, <2>5
<1>14. CASE \E t \in 0..now, g \in 1..hook.gen, json \in BOOLEAN :
              Entry!VerifySignature(r, t, g, json)
  BY <1>12, <1>14
<1>15. CASE \E p \in Processes, k \in Kinds, c \in Callers : Entry!Execute(r, k, p, c)
  BY <1>13, <1>15
<1> QED
  BY <1>4, <1>5, <1>6, <1>7, <1>8, <1>9, <1>10, <1>11, <1>14, <1>15 DEF Requested

\* A call arrives: the bucket is pruned, and takes the call if there is room.
LEMMA ArrivesOK ==
  ASSUME EntryConstants, EntryInv, CallsOK', NEW r \in Calls, NEW p \in Processes,
         NEW g \in 1..hook.gen, Entry!WebhookArrives(r, p, g)
  PROVE  /\ Buckets'
         /\ bucket' \in [Processes \X Generations -> SUBSET (Calls \X (0..MaxTime))]
<1>0. /\ bucket \in [Processes \X Generations -> SUBSET (Calls \X (0..MaxTime))]
      /\ call \in [Calls -> Call] /\ now \in 0..MaxTime /\ Window \in Nat
      /\ MaxTime \in Nat /\ MaxRotations \in Nat /\ HookLimit \in Nat
      /\ hook.gen \in 1..(MaxRotations + 1)
      /\ \A q \in Calls : call[q].arrived \in Int /\ call'[q].arrived \in Int
  <2>1. /\ hook \in [gen : 1..(MaxRotations + 1), minted : [1..(MaxRotations + 1) -> 0..MaxTime]]
        /\ call \in [Calls -> Call] /\ call' \in [Calls -> Call]
        /\ bucket \in [Processes \X (1..(MaxRotations + 1)) -> SUBSET (Calls \X (0..MaxTime))]
        /\ now \in 0..MaxTime
    BY DEF EntryInv, Entry!TypeOK, Call, CallsOK
  <2>2. \A q \in Calls : call[q].arrived \in 0..MaxTime /\ call'[q].arrived \in 0..MaxTime
    BY <2>1 DEF Call
  <2>3. hook.gen \in 1..(MaxRotations + 1)
    BY <2>1
  <2> QED
    BY <2>1, <2>2, <2>3 DEF Generations, EntryConstants
<1>1. g \in Generations /\ now' = now
  BY <1>0 DEF Generations, Entry!WebhookArrives
<1>2. PICK kept : kept = Entry!Recent(bucket[<<p, g>>])
  OBVIOUS
<1>3. PICK c : c = [Entry!NoCall EXCEPT !.pc = "lookup", !.kind = "webhook", !.proc = p,
                             !.gen = g, !.arrived = now, !.current = hook.gen]
  OBVIOUS
<1>4. \/ /\ Cardinality(kept) >= HookLimit
         /\ bucket' = [bucket EXCEPT ![<<p, g>>] = kept]
         /\ call' = [call EXCEPT ![r] = Entry!Over(c, "429")]
      \/ /\ ~(Cardinality(kept) >= HookLimit)
         /\ bucket' = [bucket EXCEPT ![<<p, g>>] = kept \cup {<<r, now>>}]
         /\ call' = [call EXCEPT ![r] = c]
  BY <1>2, <1>3, SameCardinality DEF Entry!WebhookArrives
<1>5. /\ kept \subseteq bucket[<<p, g>>]
      /\ bucket[<<p, g>>] \subseteq Calls \X (0..MaxTime)
      /\ Cardinality(bucket[<<p, g>>]) <= HookLimit
  BY <1>0, <1>1, <1>2 DEF Entry!Recent, EntryInv, Buckets
<1>6. /\ IsFiniteSet(kept) /\ Cardinality(kept) \in Nat /\ Cardinality(kept) <= HookLimit
  <2>1. IsFiniteSet(bucket[<<p, g>>]) /\ Cardinality(bucket[<<p, g>>]) \in Nat
    BY <1>5, BucketFinite
  <2>2. IsFiniteSet(kept) /\ Cardinality(kept) <= Cardinality(bucket[<<p, g>>])
    BY <1>5, <2>1, FS_Subset
  <2> QED
    BY <1>0, <1>5, <2>1, <2>2, FS_CardinalityType
<1>7. \A q \in Calls \ {r} : call'[q] = call[q]
  BY <1>0, <1>4
<1>8. /\ c.kind = "webhook" /\ c.proc = p /\ c.gen = g /\ c.arrived = now
  BY <1>3 DEF Entry!NoCall
<1>9. /\ Entry!Over(c, "429").out = "429"
  BY <1>8 DEF Entry!Over, Entry!NoCall
<1>10. bucket' \in [Processes \X Generations -> SUBSET (Calls \X (0..MaxTime))]
  <2>1. kept \in SUBSET (Calls \X (0..MaxTime))
        /\ kept \cup {<<r, now>>} \in SUBSET (Calls \X (0..MaxTime))
    BY <1>0, <1>5
  <2> QED
    BY <1>0, <1>4, <2>1
<1>11. Cardinality(bucket'[<<p, g>>]) <= HookLimit
  <2>1. <<p, g>> \in Processes \X Generations
    BY <1>1
  <2>2. CASE bucket'[<<p, g>>] = kept
    BY <1>6, <2>2
  <2>3. CASE bucket'[<<p, g>>] = kept \cup {<<r, now>>} /\ ~(Cardinality(kept) >= HookLimit)
    <3>1. \/ Cardinality(kept \cup {<<r, now>>}) = Cardinality(kept)
          \/ Cardinality(kept \cup {<<r, now>>}) = Cardinality(kept) + 1
      BY <1>6, FS_AddElement
    <3>2. Cardinality(kept \cup {<<r, now>>}) <= HookLimit
      BY <1>0, <1>6, <2>3, <3>1
    <3> QED
      BY <2>3, <3>2
  <2> QED
    BY <1>0, <1>4, <2>1, <2>2, <2>3
<1>12. ASSUME NEW q \in Entry!CallsOf(p, g)'
       PROVE  /\ now' - call'[q].arrived < Window =>
                   <<q, call'[q].arrived>> \in bucket'[<<p, g>>]
              /\ \/ q \in Entry!CallsOf(p, g) /\ call'[q].arrived = call[q].arrived
                 \/ call'[q].arrived = now'
  <2>1. <<p, g>> \in Processes \X Generations /\ q \in Calls
    BY <1>1 DEF Entry!CallsOf
  <2>2. kept \subseteq bucket'[<<p, g>>]
    BY <1>0, <1>4, <2>1
  <2>3. CASE q # r
    <3>1. q \in Entry!CallsOf(p, g) /\ call'[q] = call[q]
      BY <1>7, <2>1, <2>3 DEF Entry!CallsOf
    <3>2. ASSUME now' - call'[q].arrived < Window
          PROVE  <<q, call'[q].arrived>> \in bucket'[<<p, g>>]
      <4>1. <<q, call[q].arrived>> \in bucket[<<p, g>>]
        BY <1>1, <3>1, <3>2 DEF EntryInv, Buckets
      <4>2. <<q, call[q].arrived>> \in kept
        BY <1>1, <1>2, <3>1, <3>2, <4>1 DEF Entry!Recent
      <4> QED
        BY <2>2, <3>1, <4>2
    <3> QED
      BY <3>1, <3>2
  <2>4. CASE q = r
    <3>1. call'[r].out # "429"
      BY <2>4 DEF Entry!CallsOf
    <3>2. call' = [call EXCEPT ![r] = c] /\ bucket'[<<p, g>>] = kept \cup {<<r, now>>}
      BY <1>0, <1>4, <1>9, <2>1, <3>1
    <3>3. call'[q].arrived = now
      BY <1>0, <1>8, <2>4, <3>2
    <3> QED
      BY <1>1, <2>4, <3>2, <3>3
  <2> QED
    BY <2>3, <2>4
<1>13. ASSUME NEW p2 \in Processes, NEW g2 \in Generations, <<p2, g2>> # <<p, g>>
       PROVE  /\ Cardinality(bucket'[<<p2, g2>>]) <= HookLimit
              /\ \A q \in Entry!CallsOf(p2, g2)' :
                   /\ now' - call'[q].arrived < Window =>
                        <<q, call'[q].arrived>> \in bucket'[<<p2, g2>>]
                   /\ q \in Entry!CallsOf(p2, g2) /\ call'[q].arrived = call[q].arrived
  <2>1. bucket'[<<p2, g2>>] = bucket[<<p2, g2>>]
    <3>1. <<p2, g2>> \in Processes \X Generations
      OBVIOUS
    <3>2. \E b : bucket' = [bucket EXCEPT ![<<p, g>>] = b]
      BY <1>4
    <3> QED
      BY <1>0, <1>13, <3>1, <3>2
  <2>2. ASSUME NEW q \in Entry!CallsOf(p2, g2)'
        PROVE  q \in Entry!CallsOf(p2, g2) /\ call'[q] = call[q]
    <3>1. q \in Calls /\ call'[q].proc = p2 /\ call'[q].gen = g2 /\ call'[q].out # "429"
      BY <2>2 DEF Entry!CallsOf
    <3>2. q # r
      <4>1. SUFFICES ASSUME q = r PROVE FALSE
        OBVIOUS
      <4>2. call' = [call EXCEPT ![r] = c]
        BY <1>0, <1>4, <1>9, <3>1, <4>1
      <4> QED
        BY <1>0, <1>8, <1>13, <3>1, <4>1, <4>2
    <3> QED
      BY <1>7, <2>2, <3>1, <3>2 DEF Entry!CallsOf
  <2> QED
    BY <1>1, <2>1, <2>2 DEF EntryInv, Buckets
<1>14. \A p2 \in Processes, g2 \in Generations :
         /\ Cardinality(bucket'[<<p2, g2>>]) <= HookLimit
         /\ \A q \in Entry!CallsOf(p2, g2)' :
              /\ now' - call'[q].arrived < Window =>
                   <<q, call'[q].arrived>> \in bucket'[<<p2, g2>>]
              /\ \/ q \in Entry!CallsOf(p2, g2) /\ call'[q].arrived = call[q].arrived
                 \/ call'[q].arrived = now'
  BY <1>11, <1>12, <1>13
<1>15. Buckets'
  BY <1>0, <1>1, <1>10, <1>14, BucketsStep
<1> QED
  BY <1>10, <1>15

-----------------------------------------------------------------------------
(***************************************************************************)
(* The invariant and what follows from it.                                 *)
(***************************************************************************)
LEMMA InvInit == ASSUME EntryConstants, Entry!Init PROVE EntryInv
<1>0. /\ MaxTime \in Nat /\ MaxHalts \in Nat /\ MaxRotations \in Nat /\ MaxFaults \in Nat
      /\ CacheTTL \in Nat \ {0} /\ HookLimit \in Nat
  BY DEF EntryConstants
<1>1. Entry!Never \in Int /\ Entry!Never < 0
  BY <1>0 DEF Entry!Never
<1>2. call = [r \in Calls |-> Entry!NoCall] /\ Entry!NoCall \in Call
  BY NoCallType DEF Entry!Init
<1>3. Entry!TypeOK
  <2>1. /\ now \in 0..MaxTime /\ halts \in 0..MaxHalts /\ faults \in 0..MaxFaults
        /\ since \in [Scopes -> 0..MaxTime] /\ hook \in [gen : 1..(MaxRotations + 1), minted : [1..(MaxRotations + 1) -> 0..MaxTime]]
        /\ cache \in [Processes -> [at : Entry!Never..MaxTime, docs : SUBSET Scopes]]
    BY <1>0, <1>1 DEF Entry!Init
  <2>2. /\ bucket \in [Processes \X (1..(MaxRotations + 1)) -> SUBSET (Calls \X (0..MaxTime))]
        /\ exec \in [Calls -> {"none", "queued", "failed"}]
        /\ controls \subseteq Scopes /\ unflushed \subseteq Processes /\ jobs \subseteq Calls
    BY DEF Entry!Init
  <2>3. call \in [Calls -> Call]
    BY <1>2
  <2> QED
    BY <2>1, <2>2, <2>3 DEF Entry!TypeOK, Call
<1>4. Caches
  BY <1>0, <1>1 DEF Caches, SeenInTime, Entry!Init
<1>5. \A r \in Calls : RequestOK(r, call[r])
  BY <1>2 DEF RequestOK, OnTheWay, ReadsOK, Presented, Stored, Told, Entry!Init, Entry!NoCall
<1>6. Buckets
  <2>1. SUFFICES ASSUME NEW p \in Processes, NEW g \in Generations
                 PROVE  /\ bucket[<<p, g>>] = {} /\ Entry!CallsOf(p, g) = {}
                        /\ \A t \in 0..now : InWindow(p, g, t) = {}
    <3>1. Cardinality({}) = 0 /\ 0 <= HookLimit
      BY <1>0, FS_EmptySet
    <3> QED
      BY <3>1 DEF Buckets
  <2>2. Entry!CallsOf(p, g) = {}
    BY <1>2 DEF Entry!CallsOf, Entry!NoCall
  <2> QED
    BY <2>2 DEF InWindow, Entry!Init, Generations
<1> QED
  BY <1>3, <1>4, <1>5, <1>6 DEF EntryInv

LEMMA InvStep ==
  ASSUME EntryConstants, EntryInv, [Entry!Next]_(Entry!vars)
  PROVE  EntryInv'
<1>0. /\ now \in 0..MaxTime /\ MaxTime \in Nat
      /\ bucket \in [Processes \X Generations -> SUBSET (Calls \X (0..MaxTime))]
      /\ call \in [Calls -> Call] /\ StoreTypes
  BY DEF EntryInv, Entry!TypeOK, EntryConstants, Generations, Call, StoreTypes
<1>1. ASSUME StoreTypes', Caches', Buckets', CallsOK',
             bucket' \in [Processes \X Generations -> SUBSET (Calls \X (0..MaxTime))]
      PROVE  EntryInv'
  BY <1>1 DEF StoreTypes, CallsOK, EntryInv, Entry!TypeOK, Generations, Call
<1>2. CASE Environment
  <2>1. /\ UNCHANGED <<call, exec, jobs, bucket>>
        /\ now \in Nat /\ now' \in Nat /\ now <= now'
        /\ (UNCHANGED <<controls, since>>) \/ (SetsControl /\ now' = now)
    BY <1>2, EnvironmentMoves
  <2>2. now' <= now + 1
    BY <1>0, <1>2 DEF Environment, Entry!Tick, Entry!Rotate, Entry!HaltFlush,
       Entry!HaltElsewhere, Entry!HaltWrite, Entry!SetControl
  <2>3. Caches'
    <3>1. CASE \E p \in Processes : Entry!HaltFlush(p)
      BY <3>1, CacheFlushed
    <3>2. CASE UNCHANGED cache
      BY <2>1, <3>2, CachesKept
    <3> QED
      BY <1>2, <3>1, <3>2 DEF Environment, Entry!Tick, Entry!Rotate,
         Entry!HaltElsewhere, Entry!HaltWrite, Entry!SetControl
  <2>4. Buckets'
    <3>1. \A r \in Calls : Carries(call[r], call'[r])
      BY <2>1 DEF Carries
    <3>2. call' \in [Calls -> Call]
      BY <1>0, <2>1
    <3> QED
      BY <2>1, <2>2, <3>1, <3>2, BucketsKept
  <2> QED
    BY <1>0, <1>1, <1>2, <2>1, <2>3, <2>4, EnvironmentTypes, EnvironmentOK
<1>3. ASSUME NEW r \in Calls, Requested(r) PROVE EntryInv'
  <2>1. CallsOK'
    BY <1>3, CheckOK, SubmitOK, HookOK DEF Requested
  <2>2. UNCHANGED <<bucket, now>> /\ \A q \in Calls : Carries(call[q], call'[q])
    BY <1>3, RequestedCarries
  <2>3. Buckets'
    <3>1. now' \in Nat /\ now <= now' /\ now' <= now + 1
      BY <1>0, <2>2
    <3> QED
      BY <2>1, <2>2, <3>1, BucketsKept DEF CallsOK
  <2>4. Caches'
    <3>1. CASE Entry!CheckRead(r)
      BY <3>1, CacheFilled
    <3>2. CASE UNCHANGED <<cache, controls, since>>
      BY <1>0, <2>2, <3>2, CachesKept
    <3> QED
      BY <1>3, <3>1, <3>2 DEF Requested, Entry!CheckCached, Entry!CheckStale,
         Entry!ReadControls, Entry!Upload, Entry!MintFails, Entry!InsertExecution,
         Entry!Enqueue, Entry!UndoInsert, Entry!LookupToken, Entry!LookupPrevious,
         Entry!VerifySignature, Entry!Execute, Entry!switch
  <2> QED
    BY <1>0, <1>1, <1>3, <2>1, <2>2, <2>3, <2>4, RequestTypes
<1>4. ASSUME NEW r \in Calls, NEW p \in Processes, NEW g \in 1..hook.gen,
             Entry!WebhookArrives(r, p, g)
      PROVE  EntryInv'
  <2>1. CallsOK'
    BY <1>4, HookOK
  <2>2. UNCHANGED <<cache, controls, since, now>>
    BY <1>4 DEF Entry!WebhookArrives, Entry!switch
  <2>3. Caches'
    BY <1>0, <2>2, CachesKept
  <2>4. StoreTypes'
    BY <1>4, RequestTypes DEF Arrives
  <2> QED
    BY <1>1, <1>4, <2>1, <2>3, <2>4, ArrivesOK
<1>5. CASE UNCHANGED Entry!vars
  <2>1. UNCHANGED <<now, controls, since, unflushed, halts, cache, hook, bucket, call,
                    exec, jobs, faults>>
    BY <1>5 DEF Entry!vars, Entry!switch, Entry!store
  <2>2. Entry!TypeOK' /\ Caches'
    BY <2>1 DEF EntryInv, Entry!TypeOK, Caches, SeenInTime
  <2>3. CallsOK'
    BY <1>0, <2>1 DEF EntryInv, CallsOK, RequestOK, OnTheWay, ReadsOK, SeenInTime, Presented, Stored, Told
  <2>4. Buckets'
    <3>1. now' \in Nat /\ now <= now' /\ now' <= now + 1
      BY <1>0, <2>1
    <3>2. call' \in [Calls -> Call] /\ \A r \in Calls : Carries(call[r], call'[r])
      BY <1>0, <2>1 DEF Carries
    <3> QED
      BY <2>1, <3>1, <3>2, BucketsKept
  <2> QED
    BY <2>2, <2>3, <2>4 DEF EntryInv, CallsOK
<1> QED
  BY <1>2, <1>3, <1>4, <1>5, Steps DEF Arrives

LEMMA InvSound == ASSUME EntryConstants, EntryInv PROVE AdmissionSound
<1>0. /\ call \in [Calls -> Call] /\ hook.gen \in 1..(MaxRotations + 1)
      /\ MaxRotations \in Nat
  <2>1. hook \in [gen : 1..(MaxRotations + 1), minted : [1..(MaxRotations + 1) -> 0..MaxTime]]
    BY DEF EntryInv, Entry!TypeOK
  <2> QED
    BY <2>1 DEF EntryInv, Entry!TypeOK, Call, EntryConstants
<1>1. Entry!RotationBites
  <2>1. SUFFICES ASSUME NEW r \in Calls, call[r].kind = "webhook",
                        \/ call[r].pc \in {"check", "reading", "read", "blob", "insert",
                                           "enqueue", "undo"}
                        \/ exec[r] # "none"
                 PROVE  /\ call[r].key >= call[r].current /\ call[r].gen >= call[r].key - 1
                        /\ call[r].gen < hook.gen =>
                             call[r].looked - hook.minted[call[r].gen + 1] <= Grace
    BY DEF Entry!RotationBites, Entry!Passed
  <2>2. /\ call[r] \in Call /\ RequestOK(r, call[r]) /\ Grace \in Nat
        /\ hook.minted \in [1..(MaxRotations + 1) -> 0..MaxTime]
    BY <1>0 DEF EntryInv, Entry!TypeOK, EntryConstants
  <2>3. CASE call[r].pc = "done"
    <3>1. /\ call[r].current = 0 /\ call[r].key = 0 /\ call[r].looked = 0
          /\ call[r].gen \in 0..(MaxRotations + 1)
      BY <2>2, <2>3 DEF RequestOK, OnTheWay, Call
    <3>2. call[r].gen < hook.gen => hook.minted[call[r].gen + 1] \in 0..MaxTime
      BY <1>0, <2>2, <3>1
    <3> QED
      BY <2>2, <3>1, <3>2
  <2>4. CASE call[r].pc # "done"
    BY <2>1, <2>2, <2>4 DEF RequestOK, Presented, Stored, Told, Call
  <2> QED
    BY <2>3, <2>4
<1>2. Entry!HookLimitHolds
  <2>1. SUFFICES ASSUME NEW p \in Processes, NEW g \in 1..hook.gen, NEW t \in 0..now
                 PROVE  Cardinality(InWindow(p, g, t)) <= HookLimit
    BY SameCardinality DEF Entry!HookLimitHolds, InWindow
  <2>2. g \in Generations
    BY <1>0 DEF Generations
  <2> QED
    BY <2>2 DEF EntryInv, Buckets
<1>3. Entry!AnswersTruly
  BY DEF Entry!AnswersTruly, EntryInv, RequestOK, Stored, Told
<1> QED
  BY <1>1, <1>2, <1>3 DEF AdmissionSound, Entry!AdmissionSound, EntryInv

\* AdmissionSound, for any number of replicas and calls: a replaced webhook
\* token opens nothing after its grace period and a replaced secret nothing at
\* all, no window of a token counts more calls than the limit, "queued" is
\* answered only with the job in the queue, and only a 500 can leave a "queued"
\* document without one, whatever rotates, fails or interleaves
\* (webhook_trigger, _check_rate_limit, rotate_webhook_token, execute_workflow).
THEOREM AdmissionTheorem ==
  ASSUME EntryConstants PROVE Entry!Spec => []AdmissionSound
<1>1. Entry!Init => EntryInv
  BY InvInit
<1>2. EntryInv /\ [Entry!Next]_(Entry!vars) => EntryInv'
  BY InvStep
<1>3. EntryInv => AdmissionSound
  BY InvSound
<1> QED
  BY <1>1, <1>2, <1>3, PTL DEF Entry!Spec

\* One step of a handler past the kill switch: its look at the controls began
\* within the life of a cache entry after the last covering halt.
LEMMA PassStep ==
  ASSUME EntryConstants, EntryInv, [Entry!Next]_(Entry!vars)
  PROVE  Entry!PassesInTime
<1>1. SUFFICES ASSUME NEW r \in Calls, ~Entry!Passed(r), Entry!Passed(r)', call'[r].sure,
                      NEW s \in controls, Entry!Halted({s})
               PROVE  since[s] + CacheTTL > call'[r].began
  BY DEF Entry!PassesInTime
<1>0. /\ call[r] \in Call /\ RequestOK(r, call[r]) /\ now \in 0..MaxTime
      /\ since \in [Scopes -> 0..MaxTime] /\ controls \subseteq Scopes
      /\ CacheTTL \in Nat \ {0} /\ call \in [Calls -> Call]
      /\ cache \in [Processes -> [at : Entry!Never..MaxTime, docs : SUBSET Scopes]]
  BY DEF EntryInv, Entry!TypeOK, Call, EntryConstants
<1>2. /\ since[s] \in Nat /\ s \in {"global", "org", "dept"}
      /\ call[r].began \in Nat
  BY <1>0, <1>1 DEF Entry!Halted, Call
<1>3. CASE Entry!CheckCached(r)
  <2>1. PICK e : e = cache[call[r].proc]
    OBVIOUS
  <2>2. call[r].proc \in Processes /\ call[r].pc = "check"
    BY <1>0, <1>3 DEF RequestOK, OnTheWay, Entry!CheckCached
  <2>3. e.at \in Int /\ SeenInTime(e.at, e.docs)
    BY <1>0, <2>1, <2>2 DEF EntryInv, Caches, Entry!Never
  <2>4. CASE Entry!Halted(e.docs)
    <3>1. call'[r].pc = "done" /\ exec'[r] = exec[r]
      BY <1>0, <1>3, <2>1, <2>4 DEF Entry!CheckCached, Entry!Over, Entry!store, Entry!NoCall
    <3> QED
      BY <1>1, <3>1 DEF Entry!Passed
  <2>5. CASE ~Entry!Halted(e.docs)
    <3>1. s \notin e.docs
      BY <1>2, <2>5 DEF Entry!Halted
    <3>2. e.at <= since[s]
      BY <1>1, <2>3, <3>1 DEF SeenInTime
    <3>3. call'[r].began = now /\ now - e.at < CacheTTL
      BY <1>0, <1>3, <2>1, <2>5 DEF Entry!CheckCached, Call
    <3> QED
      BY <1>0, <1>2, <2>3, <3>2, <3>3
  <2> QED
    BY <2>4, <2>5
<1>4. CASE Entry!CheckRead(r)
  <2>1. call[r].pc = "read" /\ SeenInTime(call[r].began, call[r].docs)
    BY <1>0, <1>4 DEF RequestOK, ReadsOK, Entry!CheckRead
  <2>2. CASE Entry!Halted(call[r].docs)
    <3>1. call'[r].pc = "done" /\ exec'[r] = exec[r]
      BY <1>0, <1>4, <2>2 DEF Entry!CheckRead, Entry!Over, Entry!store, Entry!NoCall
    <3> QED
      BY <1>1, <3>1 DEF Entry!Passed
  <2>3. CASE ~Entry!Halted(call[r].docs)
    <3>1. s \notin call[r].docs
      BY <1>2, <2>3 DEF Entry!Halted
    <3>2. call[r].began <= since[s]
      BY <1>1, <2>1, <3>1 DEF SeenInTime
    <3>3. call'[r].began = call[r].began
      BY <1>0, <1>4, <2>3 DEF Entry!CheckRead, Call
    <3> QED
      BY <1>0, <1>2, <3>2, <3>3
  <2> QED
    BY <2>2, <2>3
<1>5. CASE Entry!ReadControls(r)
  <2>1. call'[r].pc = "read" \/ call'[r].sure = FALSE
    BY <1>0, <1>5 DEF Entry!ReadControls, Call
  <2>2. exec'[r] = exec[r]
    BY <1>5 DEF Entry!ReadControls, Entry!store
  <2> QED
    BY <1>1, <2>1, <2>2 DEF Entry!Passed
<1>6. ASSUME call'[r].pc \notin {"blob", "insert", "enqueue", "undo"}, exec'[r] = exec[r]
      PROVE  FALSE
  BY <1>1, <1>6 DEF Entry!Passed
<1>7. ASSUME call'[r] = call[r], exec'[r] = exec[r] PROVE FALSE
  BY <1>1, <1>7 DEF Entry!Passed
<1>8. ASSUME NEW o, NEW c, call' = [call EXCEPT ![r] = Entry!Over(c, o)], exec'[r] = exec[r]
      PROVE  FALSE
  <2>1. call'[r].pc = "done"
    BY <1>0, <1>8 DEF Entry!Over, Entry!NoCall
  <2> QED
    BY <1>6, <1>8, <2>1
<1>9. ASSUME \/ Entry!Upload(r) \/ Entry!InsertExecution(r) \/ Entry!Enqueue(r)
             \/ Entry!UndoInsert(r)
      PROVE  FALSE
  BY <1>1, <1>9 DEF Entry!Upload, Entry!InsertExecution, Entry!Enqueue, Entry!UndoInsert,
     Entry!Passed
<1>f. ASSUME call' = [call EXCEPT ![r] = Entry!Found(@)], exec' = exec PROVE FALSE
  <2>1. PICK c : c = Entry!Found(call[r])
    OBVIOUS
  <2>2. call'[r].pc = "body"
    BY <1>0, <1>f, <2>1 DEF Entry!Found, Call
  <2> QED
    BY <1>6, <1>f, <2>2
<1>10. ASSUME Entry!CheckStale(r) PROVE FALSE
  BY <1>0, <1>6, <1>10 DEF Entry!CheckStale, Entry!store, Call
<1>11. ASSUME Entry!MintFails(r) PROVE FALSE
  BY <1>8, <1>11 DEF Entry!MintFails, Entry!Answer, Entry!store
<1>12. ASSUME Entry!LookupToken(r) PROVE FALSE
  <2>1. /\ \/ call' = [call EXCEPT ![r] = Entry!Found(@)]
           \/ call' = [call EXCEPT ![r] = [@ EXCEPT !.pc = "previous"]]
        /\ exec' = exec
    BY <1>12 DEF Entry!LookupToken, Entry!store
  <2>2. CASE call' = [call EXCEPT ![r] = [@ EXCEPT !.pc = "previous"]]
    <3>1. call'[r].pc = "previous"
      BY <1>0, <2>2 DEF Call
    <3> QED
      BY <1>6, <2>1, <3>1
  <2> QED
    BY <1>f, <2>1, <2>2
<1>13. ASSUME Entry!LookupPrevious(r) PROVE FALSE
  <2>1. /\ \/ call' = [call EXCEPT ![r] = Entry!Over(@, "404")]
           \/ call' = [call EXCEPT ![r] = Entry!Found(@)]
        /\ exec' = exec
    BY <1>13 DEF Entry!LookupPrevious, Entry!store
  <2> QED
    BY <1>8, <1>f, <2>1
<1>14. ASSUME NEW t, NEW g, NEW json, Entry!VerifySignature(r, t, g, json) PROVE FALSE
  <2>1. PICK e : e = (CASE now - t > Replay \/ g # call[r].key -> Entry!Over(call[r], "401")
                        [] now - t <= Replay /\ g = call[r].key /\ ~json ->
                             Entry!Over(call[r], "400")
                        [] OTHER -> [call[r] EXCEPT !.pc = "check", !.key = g])
    OBVIOUS
  <2>2. call' = [call EXCEPT ![r] = e] /\ exec' = exec
    BY <1>14, <2>1 DEF Entry!VerifySignature, Entry!store
  <2>3. \/ e = Entry!Over(call[r], "401") \/ e = Entry!Over(call[r], "400")
        \/ e = [call[r] EXCEPT !.pc = "check", !.key = g]
    BY <2>1
  <2>4. CASE e = [call[r] EXCEPT !.pc = "check", !.key = g]
    <3>1. call'[r].pc = "check"
      BY <1>0, <2>2, <2>4 DEF Call
    <3> QED
      BY <1>6, <2>2, <3>1
  <2> QED
    BY <1>8, <2>2, <2>3, <2>4
<1>15. ASSUME NEW p, NEW k, NEW i, Entry!Execute(r, k, p, i) PROVE FALSE
  <2>1. /\ \/ call' = [call EXCEPT ![r] = [Entry!NoCall EXCEPT !.kind = k, !.proc = p,
                                                               !.pc = "check"]]
           \/ call' = [call EXCEPT ![r] = Entry!Over(Entry!NoCall, "refused")]
        /\ exec' = exec
    BY <1>15 DEF Entry!Execute, Entry!store
  <2>2. CASE call' = [call EXCEPT ![r] = [Entry!NoCall EXCEPT !.kind = k, !.proc = p,
                                                              !.pc = "check"]]
    <3>1. call'[r].pc = "check"
      BY <1>0, <2>2 DEF Entry!NoCall
    <3> QED
      BY <1>6, <2>1, <3>1
  <2> QED
    BY <1>8, <2>1, <2>2
<1>16. ASSUME NEW p, NEW g, Entry!WebhookArrives(r, p, g) PROVE FALSE
  <2>1. PICK c : c = [Entry!NoCall EXCEPT !.pc = "lookup", !.kind = "webhook", !.proc = p,
                             !.gen = g, !.arrived = now, !.current = hook.gen]
    OBVIOUS
  <2>2. /\ \/ call' = [call EXCEPT ![r] = c]
           \/ call' = [call EXCEPT ![r] = Entry!Over(c, "429")]
        /\ exec' = exec
    BY <1>16, <2>1 DEF Entry!WebhookArrives, Entry!store
  <2>3. CASE call' = [call EXCEPT ![r] = c]
    <3>1. call'[r].pc = "lookup"
      BY <1>0, <2>1, <2>3 DEF Entry!NoCall
    <3> QED
      BY <1>6, <2>2, <3>1
  <2> QED
    BY <1>8, <2>2, <2>3
<1>17. ASSUME Requested(r) \/ Arrives(r) PROVE since[s] + CacheTTL > call'[r].began
  BY <1>3, <1>4, <1>5, <1>9, <1>10, <1>11, <1>12, <1>13, <1>14, <1>15, <1>16, <1>17
     DEF Requested, Arrives
<1>18. ASSUME NEW q \in Calls \ {r}, Requested(q) \/ Arrives(q) PROVE FALSE
  <2>1. exec'[r] = exec[r]
    <3>1. exec' = exec \/ \E x : exec' = [exec EXCEPT ![q] = x]
      BY <1>18 DEF Requested, Arrives, Entry!CheckCached, Entry!CheckStale,
         Entry!ReadControls, Entry!CheckRead, Entry!Upload, Entry!MintFails,
         Entry!InsertExecution, Entry!Enqueue, Entry!UndoInsert, Entry!LookupToken,
         Entry!LookupPrevious, Entry!VerifySignature, Entry!Execute,
         Entry!WebhookArrives, Entry!store
    <3>2. exec \in [Calls -> {"none", "queued", "failed"}]
      BY DEF EntryInv, Entry!TypeOK
    <3> QED
      BY <1>18, <3>1, <3>2
  <2>2. call'[r] = call[r]
    BY <1>0, <1>18 DEF Requested, Arrives, Entry!CheckCached, Entry!CheckStale,
       Entry!ReadControls, Entry!CheckRead, Entry!Upload, Entry!MintFails,
       Entry!InsertExecution, Entry!Enqueue, Entry!UndoInsert, Entry!LookupToken,
       Entry!LookupPrevious, Entry!VerifySignature, Entry!Execute,
       Entry!WebhookArrives, Entry!Goto, Entry!Answer
  <2> QED
    BY <1>7, <2>1, <2>2
<1>19. ASSUME Environment PROVE FALSE
  BY <1>7, <1>19, EnvironmentMoves
<1>20. ASSUME UNCHANGED Entry!vars PROVE FALSE
  BY <1>7, <1>20 DEF Entry!vars, Entry!store
<1> QED
  BY <1>17, <1>18, <1>19, <1>20, Steps

\* HaltBites, for any number of replicas and readers: no handler whose look at
\* the kill switch began CacheTTL or more after a covering halt gets past it,
\* unless the control store failed it (_active_controls, set_control).
THEOREM HaltTheorem ==
  ASSUME EntryConstants PROVE Entry!Spec => HaltBites
<1>1. Entry!Init => EntryInv
  BY InvInit
<1>2. EntryInv /\ [Entry!Next]_(Entry!vars) => EntryInv'
  BY InvStep
<1>3. EntryInv /\ [Entry!Next]_(Entry!vars) => [Entry!PassesInTime]_(Entry!vars)
  BY PassStep
<1> QED
  BY <1>1, <1>2, <1>3, PTL DEF Entry!Spec, HaltBites, Entry!HaltBites
=============================================================================
