---------------------------- MODULE NodesProofs ----------------------------
(***************************************************************************)
(* Proofs about the node library and what it leans on.  The components     *)
(* share no state; each is an instance of its own here, for every value of *)
(* its constants that the hypotheses of its theorem admit.                 *)
(***************************************************************************)
EXTENDS Nodes, FiniteSetTheorems, SequenceTheorems, TLAPS

-----------------------------------------------------------------------------
(***************************************************************************)
(* Saved connections.  What is stored as the scalar credential is blank or *)
(* was typed; what the generation of a connection tells (a write, an agent *)
(* that resolved it, a cached schema) is never ahead of the document.      *)
(***************************************************************************)

ConnectionsConstants ==
  /\ Mask # Blank /\ Mask \notin Connect!Typed
  /\ SchemaTTL \in Nat /\ ErrorTTL \in Nat
  /\ MaxTime \in Nat /\ RedisFaults \in Nat /\ MaxRotations \in Nat

Credential == Connect!Typed \cup {Blank}
EditPhases == {"idle", "form", "write", "invalidate", "done"}
Edits ==
  [pc : EditPhases, view : Connect!Configs(Connect!Values), kept : BOOLEAN,
   base : Nat, merged : Connect!Configs(Connect!Values), hasEnv : BOOLEAN]
LookPhases == {"idle", "discover", "introspect", "connect", "ready", "failed"}
Looks == [pc : LookPhases, gen : Nat, secret : Credential, place : BOOLEAN]

ConnectionsType ==
  /\ Connect!TypeOK
  /\ edit \in [Editors -> Edits]
  /\ user \in [Lookers -> Looks]

\* What the document and its cached schema are.
DocumentInv ==
  /\ conn.env.secret.val \in Credential
  /\ conn.exists => conn.gen >= 1
  /\ conn.exists /\ (conn.gen > 1 \/ conn.env.secret.key # "plain")
       => Connect!Enveloped(conn.env)
  /\ cache.gen = -1 \/ cache.gen \in 0..conn.gen
  /\ cache.gen > 0 /\ cache.gen # conn.gen =>
       cache.late \/ redis > 0 \/ \E r \in Editors : edit[r].pc = "invalidate"

\* What an edit holds.
EditInv(r) ==
  /\ edit[r].view.secret \in {Blank, Mask}
  /\ edit[r].merged.secret \in Credential
  /\ edit[r].base <= conn.gen
  /\ edit[r].pc = "write" /\ edit[r].kept /\ conn.exists /\ edit[r].base = conn.gen
       => edit[r].merged.secret = conn.env.secret.val

\* What an agent holds.
LookInv(a) ==
  /\ user[a].gen <= conn.gen
  /\ user[a].pc = "ready" =>
       user[a].gen >= 1 /\ (conn.type \in {"sql", "mongo"} => user[a].secret # Blank)

ConnectionsInv ==
  /\ ConnectionsType /\ DocumentInv
  /\ \A r \in Editors : EditInv(r)
  /\ \A a \in Lookers : LookInv(a)

\* Sealing a configuration leaves its values and puts every one that is not
\* blank under the key.
LEMMA SealedType ==
  ASSUME NEW k \in Connect!KeyIds, NEW c \in Connect!Configs(Connect!Values)
  PROVE  /\ Connect!Sealed(k, c) \in
              [secret : Connect!Stored, hdr : [Connect!Headers -> Connect!Stored],
               place : BOOLEAN]
         /\ Connect!Sealed(k, c).secret.val = c.secret
         /\ Connect!Enveloped(Connect!Sealed(k, c))
<1>1. \A v \in Connect!Values :
        /\ Connect!Encrypted(k, v) \in Connect!Stored
        /\ Connect!Encrypted(k, v).val = v
        /\ v # Blank => Connect!Encrypted(k, v).key = k
  BY DEF Connect!Encrypted, Connect!Stored, Connect!Values, Connect!Nothing, Connect!KeyIds
<1>2. /\ c.secret \in Connect!Values /\ c.place \in BOOLEAN
      /\ \A h \in Connect!Headers : c.hdr[h] \in Connect!Values
  BY DEF Connect!Configs
<1>3. Connect!Sealed(k, c) =
        [secret |-> Connect!Encrypted(k, c.secret),
         hdr |-> [h \in Connect!Headers |-> Connect!Encrypted(k, c.hdr[h])],
         place |-> c.place]
  BY DEF Connect!Sealed
<1>4. Connect!Enveloped(Connect!Sealed(k, c))
  BY <1>1, <1>2, <1>3 DEF Connect!Enveloped
<1>5. [h \in Connect!Headers |-> Connect!Encrypted(k, c.hdr[h])]
        \in [Connect!Headers -> Connect!Stored]
  BY <1>1, <1>2
<1>6. Connect!Encrypted(k, c.secret) \in Connect!Stored
      /\ Connect!Encrypted(k, c.secret).val = c.secret
  BY <1>1, <1>2
<1>7. Connect!Sealed(k, c) \in
        [secret : Connect!Stored, hdr : [Connect!Headers -> Connect!Stored], place : BOOLEAN]
  BY <1>2, <1>3, <1>5, <1>6
<1>8. Connect!Sealed(k, c).secret.val = c.secret
  BY <1>3, <1>6
<1> QED
  BY <1>4, <1>7, <1>8

\* What the endpoints show and what an update merges are configurations; the
\* scalar credential of a merge is a stored or a typed one, never the mask.
LEMMA ShownType ==
  ASSUME ConnectionsInv
  PROVE  /\ Connect!Masked(conn.env) \in Connect!Configs(Connect!Values)
         /\ Connect!Masked(conn.env).secret \in {Blank, Mask}
         /\ Connect!Plain(conn.env) \in Connect!Configs(Connect!Values)
         /\ Connect!Plain(conn.env).secret = conn.env.secret.val
<1>1. /\ conn.env \in [secret : Connect!Stored, hdr : [Connect!Headers -> Connect!Stored],
                       place : BOOLEAN]
  BY DEF ConnectionsInv, ConnectionsType, Connect!TypeOK
<1> QED
  BY <1>1 DEF Connect!Masked, Connect!Plain, Connect!Configs, Connect!Values, Connect!Stored

LEMMA MergedType ==
  ASSUME NEW b \in Connect!Configs(Connect!Values), NEW s \in Connect!Configs(Connect!Values),
         s.secret \in Credential, b.secret # Mask => b.secret \in Credential
  PROVE  /\ Connect!Merged(b, s) \in Connect!Configs(Connect!Values)
         /\ Connect!Merged(b, s).secret \in Credential
         /\ Connect!LooksMasked(b.secret) => Connect!Merged(b, s).secret = s.secret
BY DEF Connect!Merged, Connect!Configs, Connect!LooksMasked

LEMMA NoConfigType ==
  /\ Connect!NoConfig \in Connect!Configs(Connect!Values) /\ Connect!NoConfig.secret = Blank
  /\ Connect!Idle \in Edits
BY DEF Connect!NoConfig, Connect!Configs, Connect!Values, Connect!Idle, Edits, EditPhases
-----------------------------------------------------------------------------
\* One edit moves: an edit that holds nothing any more.
LEMMA EditEnds ==
  ASSUME ConnectionsConstants, ConnectionsInv, NEW r \in Editors, NEW p \in EditPhases,
         edit' = [edit EXCEPT ![r] = [Connect!Idle EXCEPT !.pc = p]], p # "write",
         conn' = conn \/ (conn'.gen \in Nat /\ conn'.gen > conn.gen)
  PROVE  /\ edit' \in [Editors -> Edits]
         /\ \A q \in Editors : EditInv(q)'
<1>1. PICK e : e = [Connect!Idle EXCEPT !.pc = p]
  OBVIOUS
<1>2. /\ e \in Edits /\ e.pc = p /\ e.view.secret = Blank /\ e.merged.secret = Blank
      /\ e.base = 0
  BY <1>1, NoConfigType DEF Connect!Idle, Edits
<1>3. edit' = [edit EXCEPT ![r] = e] /\ edit \in [Editors -> Edits]
  BY <1>1 DEF ConnectionsInv, ConnectionsType
<1>4. edit' \in [Editors -> Edits]
  BY <1>2, <1>3
<1>5. ASSUME NEW q \in Editors PROVE EditInv(q)'
  <2>1. CASE q = r
    <3>1. edit'[q] = e /\ conn'.gen \in Nat
      BY <1>3, <2>1 DEF ConnectionsInv, ConnectionsType, Connect!TypeOK
    <3>2. edit'[q].base <= conn'.gen
      <4>1. \A n \in Nat : 0 <= n
        OBVIOUS
      <4> QED
        BY <1>2, <3>1, <4>1
    <3>4. edit'[q].pc # "write"
      BY <1>2, <3>1
    <3>3. edit'[q].view.secret \in {Blank, Mask} /\ edit'[q].merged.secret \in Credential
      BY <1>2, <3>1 DEF Credential
    <3> QED
      BY <3>2, <3>3, <3>4 DEF EditInv
  <2>2. CASE q # r
    <3>1. edit'[q] = edit[q] /\ edit[q] \in Edits /\ EditInv(q) /\ conn.gen \in Nat
      BY <1>3, <2>2 DEF ConnectionsInv, ConnectionsType, Connect!TypeOK
    <3>2. edit'[q].base <= conn'.gen
      BY <3>1 DEF EditInv, Edits
    <3>3. edit'[q].base = conn'.gen => conn' = conn
      BY <3>1 DEF EditInv, Edits
    <3> QED
      BY <3>1, <3>2, <3>3 DEF EditInv
  <2> QED
    BY <2>1, <2>2
<1> QED
  BY <1>4, <1>5
\* A fact about configurations and records that each step starts from.
LEMMA ConnectionsFacts ==
  ASSUME ConnectionsConstants, ConnectionsInv
  PROVE  /\ conn \in [exists : BOOLEAN, type : Types, gen : Nat,
                      env : [secret : Connect!Stored,
                             hdr : [Connect!Headers -> Connect!Stored], place : BOOLEAN]]
         /\ keys \in [service : Connect!KeyIds, worker : Connect!KeyIds,
                      rotations : 0..MaxRotations]
         /\ cache \in [gen : Int, until : Nat, late : BOOLEAN]
         /\ now \in 0..MaxTime /\ redis \in 0..RedisFaults
         /\ edit \in [Editors -> Edits] /\ user \in [Lookers -> Looks]
BY DEF ConnectionsInv, ConnectionsType, Connect!TypeOK

\* The phases of the type invariant follow from the types of the records.
LEMMA PhasesFollow ==
  ASSUME NEW e \in [Editors -> Edits], NEW u \in [Lookers -> Looks]
  PROVE  /\ \A r \in Editors : e[r].pc \in {"idle", "form", "write", "invalidate", "done"}
         /\ \A a \in Lookers :
              u[a].pc \in {"idle", "discover", "introspect", "connect", "ready", "failed"}
BY DEF Edits, EditPhases, Looks, LookPhases

\* When the document stays or moves on, what agents hold stays behind it.
LEMMA LooksStay ==
  ASSUME ConnectionsConstants, ConnectionsInv, user' = user,
         conn'.type = conn.type, conn'.gen \in Nat, conn'.gen >= conn.gen
  PROVE  \A a \in Lookers : LookInv(a)'
<1>1. SUFFICES ASSUME NEW a \in Lookers PROVE LookInv(a)'
  OBVIOUS
<1>2. user[a] \in Looks /\ LookInv(a) /\ conn.gen \in Nat
  BY ConnectionsFacts DEF ConnectionsInv
<1>3. user[a].gen <= conn'.gen
  BY <1>2 DEF LookInv, Looks
<1> QED
  BY <1>2, <1>3 DEF LookInv

LEMMA CreateStep ==
  ASSUME ConnectionsConstants, ConnectionsInv, NEW r \in Editors,
         NEW c \in Connect!Configs({Blank, r}), NEW other \in BOOLEAN,
         Connect!CreateConnection(r, c, other)
  PROVE  ConnectionsInv'
<1> USE ConnectionsFacts DEF ConnectionsConstants
<1>1. c \in Connect!Configs(Connect!Values) /\ c.secret \in Credential
  BY DEF Connect!Configs, Connect!Values, Connect!Typed, Credential
<1>2. PICK s : s = Connect!Sealed(keys.service, c)
  OBVIOUS
<1>3. /\ s \in [secret : Connect!Stored, hdr : [Connect!Headers -> Connect!Stored],
                place : BOOLEAN]
      /\ s.secret.val \in Credential /\ Connect!Enveloped(s)
  BY <1>1, <1>2, SealedType
<1>4. /\ edit[r].pc = "idle" /\ ~conn.exists /\ conn.gen = 0
      /\ edit' = [edit EXCEPT ![r] = [Connect!Idle EXCEPT !.pc = "done"]]
      /\ UNCHANGED <<keys, cache, now, user, redis>>
      /\ conn' = conn \/ conn' = [conn EXCEPT !.exists = TRUE, !.gen = 1, !.env = s]
  BY <1>2 DEF Connect!CreateConnection, Connect!Ends
<1>5. conn' = conn \/ (conn'.gen \in Nat /\ conn'.gen > conn.gen)
  <2>1. CASE conn' = [conn EXCEPT !.exists = TRUE, !.gen = 1, !.env = s]
    <3>1. conn'.gen = 1
      BY <2>1
    <3> QED
      BY <1>4, <3>1
  <2> QED
    BY <1>4, <2>1
<1>6. edit' \in [Editors -> Edits] /\ \A q \in Editors : EditInv(q)'
  BY <1>4, <1>5, EditEnds DEF EditPhases
<1>7. /\ conn'.type = conn.type /\ conn'.gen \in Nat /\ conn'.gen >= conn.gen
      /\ conn' \in [exists : BOOLEAN, type : Types, gen : Nat,
                    env : [secret : Connect!Stored,
                           hdr : [Connect!Headers -> Connect!Stored], place : BOOLEAN]]
  <2>1. CASE conn' = conn
    BY <2>1
  <2>2. CASE conn' = [conn EXCEPT !.exists = TRUE, !.gen = 1, !.env = s]
    <3>1. conn' \in [exists : BOOLEAN, type : Types, gen : Nat,
                     env : [secret : Connect!Stored,
                            hdr : [Connect!Headers -> Connect!Stored], place : BOOLEAN]]
      BY <1>3, <2>2
    <3>2. conn'.type = conn.type /\ conn'.gen = 1
      BY <2>2
    <3> QED
      BY <1>4, <3>1, <3>2
  <2> QED
    BY <1>4, <2>1, <2>2
<1>8. ConnectionsType'
  BY <1>4, <1>6, <1>7, PhasesFollow DEF ConnectionsType, Connect!TypeOK, ConnectionsInv
<1>9. \A q \in Editors : edit[q].pc = "invalidate" => edit'[q].pc = "invalidate"
  BY <1>4
<1>10. DocumentInv'
  <2>1. CASE conn' = conn
    BY <1>4, <1>9, <2>1 DEF ConnectionsInv, DocumentInv
  <2>2. CASE conn' = [conn EXCEPT !.exists = TRUE, !.gen = 1, !.env = s]
    <3>1. conn'.env = s /\ conn'.gen = 1 /\ cache' = cache /\ cache.gen \in {-1, 0}
      BY <1>4, <2>2 DEF ConnectionsInv, DocumentInv
    <3> QED
      BY <1>3, <3>1 DEF DocumentInv, Connect!Enveloped
  <2> QED
    BY <1>4, <2>1, <2>2
<1> QED
  BY <1>4, <1>6, <1>7, <1>8, <1>10, LooksStay DEF ConnectionsInv

\* What a form sends is a configuration, with a mask, a blank or what is typed.
LEMMA BodiesType ==
  ASSUME ConnectionsConstants, NEW r \in Editors, NEW b \in Connect!Bodies(r)
  PROVE  /\ b \in Connect!Configs(Connect!Values)
         /\ b.secret # Mask => b.secret \in Credential
BY DEF Connect!Bodies, Connect!Configs, Connect!Values, Connect!Typed, Credential

\* A step of one editor that leaves the document, the schema and the agents.
LEMMA OneEdit ==
  ASSUME ConnectionsConstants, ConnectionsInv, NEW r \in Editors, NEW e \in Edits,
         edit' = [edit EXCEPT ![r] = e], edit[r].pc # "invalidate",
         UNCHANGED <<conn, keys, cache, now, user, redis>>,
         e.view.secret \in {Blank, Mask}, e.merged.secret \in Credential,
         e.base <= conn.gen,
         e.pc = "write" /\ e.kept => e.merged.secret = conn.env.secret.val
  PROVE  ConnectionsInv'
<1> USE ConnectionsFacts
<1>1. edit' \in [Editors -> Edits]
  OBVIOUS
<1>2. ConnectionsType'
  BY <1>1, PhasesFollow DEF ConnectionsType, Connect!TypeOK, ConnectionsInv
<1>3. \A q \in Editors : edit[q].pc = "invalidate" => edit'[q].pc = "invalidate"
  OBVIOUS
<1>4. DocumentInv'
  BY <1>3 DEF ConnectionsInv, DocumentInv
<1>5. \A a \in Lookers : LookInv(a)'
  BY LooksStay
<1>6. ASSUME NEW q \in Editors PROVE EditInv(q)'
  <2>1. CASE q = r
    <3>1. edit'[q] = e
      BY <2>1
    <3> QED
      BY <3>1 DEF EditInv
  <2>2. CASE q # r
    <3>1. edit'[q] = edit[q] /\ EditInv(q)
      BY <2>2 DEF ConnectionsInv
    <3> QED
      BY <3>1 DEF EditInv
  <2> QED
    BY <2>1, <2>2
<1> QED
  BY <1>2, <1>4, <1>5, <1>6 DEF ConnectionsInv
LEMMA FormStep ==
  ASSUME ConnectionsConstants, ConnectionsInv, NEW r \in Editors,
         Connect!GetConnection(r) \/ Connect!TestConnection(r) \/ Connect!UpdateRead(r)
  PROVE  ConnectionsInv'
<1> USE ConnectionsFacts
<1> DEFINE Ended == [Connect!Idle EXCEPT !.pc = "done"]
<1>1. PICK e : e = Ended
  OBVIOUS
<1>2. /\ e \in Edits /\ e.pc = "done" /\ e.view.secret = Blank /\ e.merged.secret = Blank
      /\ e.base = 0
  BY <1>1, NoConfigType DEF Connect!Idle, Edits, EditPhases
<1>3. 0 <= conn.gen
  OBVIOUS
<1>4. CASE edit' = [edit EXCEPT ![r] = Ended] /\ edit[r].pc # "invalidate"
           /\ UNCHANGED <<conn, keys, cache, now, user, redis>>
  BY <1>1, <1>2, <1>3, <1>4, OneEdit DEF Credential
<1>5. CASE Connect!TestConnection(r)
  BY <1>4, <1>5 DEF Connect!TestConnection, Connect!Ends
<1>6. CASE Connect!GetConnection(r)
  <2>1. PICK v : v = Connect!Masked(conn.env)
    OBVIOUS
  <2>2. v \in Connect!Configs(Connect!Values) /\ v.secret \in {Blank, Mask}
    BY <2>1, ShownType
  <2>3. PICK f : f = [edit[r] EXCEPT !.pc = "form", !.view = v]
    OBVIOUS
  <2>4. edit[r] \in Edits /\ EditInv(r)
    BY DEF ConnectionsInv
  <2>5. /\ f \in Edits /\ f.pc = "form" /\ f.view = v
        /\ f.merged = edit[r].merged /\ f.base = edit[r].base
    BY <2>2, <2>3, <2>4 DEF Edits, EditPhases
  <2>6. /\ edit' = [edit EXCEPT ![r] = f] /\ edit[r].pc # "invalidate"
        /\ UNCHANGED <<conn, keys, cache, now, user, redis>>
    BY <1>6, <2>1, <2>3 DEF Connect!GetConnection
  <2> QED
    BY <2>2, <2>4, <2>5, <2>6, OneEdit DEF EditInv
<1>7. CASE Connect!UpdateRead(r)
  <2>1. PICK b \in Connect!Bodies(r), hasEnv \in BOOLEAN :
          IF ~conn.exists \/ (hasEnv /\ ~Connect!AllReadable(keys.service, conn.env))
          THEN Connect!Ends(r)
          ELSE edit' = [edit EXCEPT ![r] =
                 [pc |-> "write", view |-> Connect!NoConfig, base |-> conn.gen,
                  hasEnv |-> hasEnv,
                  kept |-> hasEnv /\ Connect!LooksMasked(b.secret),
                  merged |-> IF hasEnv THEN Connect!Merged(b, Connect!Plain(conn.env))
                             ELSE Connect!NoConfig]]
    BY <1>7 DEF Connect!UpdateRead
  <2>2. edit[r].pc # "invalidate" /\ UNCHANGED <<conn, keys, cache, now, user, redis>>
    BY <1>7 DEF Connect!UpdateRead
  <2>3. PICK m : m = IF hasEnv THEN Connect!Merged(b, Connect!Plain(conn.env))
                     ELSE Connect!NoConfig
    OBVIOUS
  <2>4. PICK k : k = (hasEnv /\ Connect!LooksMasked(b.secret))
    OBVIOUS
  <2>5. conn.env.secret.val \in Credential
    BY DEF ConnectionsInv, DocumentInv
  <2>6. /\ m \in Connect!Configs(Connect!Values) /\ m.secret \in Credential
        /\ k => m.secret = conn.env.secret.val
    BY <2>3, <2>4, <2>5, ShownType, MergedType, BodiesType, NoConfigType DEF Credential
  <2>7. PICK f : f = [pc |-> "write", view |-> Connect!NoConfig, base |-> conn.gen,
                      hasEnv |-> hasEnv, kept |-> k, merged |-> m]
    OBVIOUS
  <2>8. f \in Edits
    BY <2>4, <2>6, <2>7, NoConfigType DEF Edits, EditPhases
  <2>9. CASE edit' = [edit EXCEPT ![r] = f]
    <3>1. f.view.secret \in {Blank, Mask} /\ f.merged.secret \in Credential
      BY <2>6, <2>7, NoConfigType
    <3>2. f.base <= conn.gen
      BY <2>7
    <3>3. f.kept => f.merged.secret = conn.env.secret.val
      BY <2>6, <2>7
    <3> QED
      BY <2>2, <2>8, <2>9, <3>1, <3>2, <3>3, OneEdit
  <2>10. f = [pc |-> "write", view |-> Connect!NoConfig, base |-> conn.gen,
              hasEnv |-> hasEnv,
              kept |-> hasEnv /\ Connect!LooksMasked(b.secret),
              merged |-> IF hasEnv THEN Connect!Merged(b, Connect!Plain(conn.env))
                         ELSE Connect!NoConfig]
    BY <2>3, <2>4, <2>7
  <2>11. edit' = [edit EXCEPT ![r] = f] \/ Connect!Ends(r)
    BY <2>1, <2>10
  <2> QED
    BY <1>4, <2>2, <2>9, <2>11 DEF Connect!Ends
<1> QED
  BY <1>5, <1>6, <1>7
\* A write of the endpoints: the document moves on by one and its editor still
\* has to invalidate the schema.
LEMMA WriteStep ==
  ASSUME ConnectionsConstants, ConnectionsInv, NEW r \in Editors,
         Connect!UpdateWrite(r) \/ Connect!DeleteWrite(r)
  PROVE  ConnectionsInv'
<1> USE ConnectionsFacts
<1> DEFINE Owing == edit' = [edit EXCEPT ![r] = [Connect!Idle EXCEPT !.pc = "invalidate"]]
           Rest == UNCHANGED <<keys, cache, now, user, redis>>
<1>1. ASSUME Owing, Rest, NEW x \in BOOLEAN, x => conn.exists,
             NEW s \in [secret : Connect!Stored, hdr : [Connect!Headers -> Connect!Stored],
                        place : BOOLEAN],
             conn' = [conn EXCEPT !.exists = x, !.gen = @ + 1, !.env = s],
             s.secret.val \in Credential, x => Connect!Enveloped(s)
      PROVE  ConnectionsInv'
  <2>1. /\ conn' \in [exists : BOOLEAN, type : Types, gen : Nat,
                      env : [secret : Connect!Stored,
                             hdr : [Connect!Headers -> Connect!Stored], place : BOOLEAN]]
        /\ conn'.type = conn.type
    <3>1. PICK g : g = conn.gen + 1
      OBVIOUS
    <3>2. g \in Nat
      BY <3>1
    <3>3. conn' = [conn EXCEPT !.exists = x, !.gen = g, !.env = s]
      BY <1>1, <3>1
    <3>4. conn' \in [exists : BOOLEAN, type : Types, gen : Nat,
                     env : [secret : Connect!Stored,
                            hdr : [Connect!Headers -> Connect!Stored], place : BOOLEAN]]
      BY <1>1, <3>2, <3>3
    <3> QED
      BY <3>3, <3>4
  <2>2. conn'.gen = conn.gen + 1 /\ conn.gen \in Nat
    BY <1>1
  <2>3. conn'.gen \in Nat /\ conn'.gen > conn.gen /\ conn'.gen >= 1
    BY <2>2
  <2>4. edit' \in [Editors -> Edits] /\ \A q \in Editors : EditInv(q)'
    BY <1>1, <2>3, EditEnds DEF EditPhases
  <2>5. edit'[r].pc = "invalidate"
    <3>1. PICK e : e = [Connect!Idle EXCEPT !.pc = "invalidate"]
      OBVIOUS
    <3> QED
      BY <1>1, <3>1 DEF Connect!Idle
  <2>6. \A a \in Lookers : LookInv(a)'
    BY <1>1, <2>1, <2>3, LooksStay
  <2>7. ConnectionsType'
    BY <1>1, <2>1, <2>4, PhasesFollow DEF ConnectionsType, Connect!TypeOK, ConnectionsInv
  <2>8. conn'.env = s /\ (conn'.exists <=> x)
    BY <1>1
  <2>9. DocumentInv'
    <3>1. conn'.env.secret.val \in Credential
      BY <1>1, <2>8
    <3>2. conn'.exists => Connect!Enveloped(conn'.env)
      BY <1>1, <2>8
    <3>3. cache'.gen = -1 \/ cache'.gen \in 0..conn'.gen
      BY <1>1, <2>2 DEF ConnectionsInv, DocumentInv
    <3> QED
      BY <2>3, <2>5, <3>1, <3>2, <3>3 DEF DocumentInv, Connect!Enveloped
  <2> QED
    BY <2>4, <2>6, <2>7, <2>9 DEF ConnectionsInv
<1>2. CASE Connect!UpdateWrite(r)
  <2>1. CASE conn.exists /\ edit[r].hasEnv
    <3>1. edit[r].merged \in Connect!Configs(Connect!Values) /\ edit[r].merged.secret \in Credential
      BY DEF ConnectionsInv, EditInv, Edits
    <3>2. PICK s : s = Connect!Sealed(keys.service, edit[r].merged)
      OBVIOUS
    <3>3. /\ s \in [secret : Connect!Stored, hdr : [Connect!Headers -> Connect!Stored],
                    place : BOOLEAN]
          /\ s.secret.val \in Credential /\ Connect!Enveloped(s)
      BY <3>1, <3>2, SealedType
    <3>4. conn' = [conn EXCEPT !.gen = @ + 1, !.env = s] /\ Owing /\ Rest
      BY <1>2, <2>1, <3>2 DEF Connect!UpdateWrite
    <3>5. conn' = [conn EXCEPT !.exists = TRUE, !.gen = @ + 1, !.env = s]
      BY <2>1, <3>4
    <3> HIDE DEF Owing, Rest
    <3> QED
      BY <1>1, <2>1, <3>3, <3>4, <3>5
  <2>2. CASE ~(conn.exists /\ edit[r].hasEnv)
    <3>1. PICK e : e = [Connect!Idle EXCEPT !.pc = "invalidate"]
      OBVIOUS
    <3>2. /\ e \in Edits /\ e.pc = "invalidate" /\ e.view.secret = Blank
          /\ e.merged.secret = Blank /\ e.base = 0
      BY <3>1, NoConfigType DEF Connect!Idle, Edits, EditPhases
    <3>3. /\ edit' = [edit EXCEPT ![r] = e] /\ edit[r].pc # "invalidate"
          /\ UNCHANGED <<conn, keys, cache, now, user, redis>>
      BY <1>2, <2>2, <3>1 DEF Connect!UpdateWrite
    <3>4. 0 <= conn.gen
      OBVIOUS
    <3> QED
      BY <3>2, <3>3, <3>4, OneEdit DEF Credential
  <2> QED
    BY <2>1, <2>2
<1>3. CASE Connect!DeleteWrite(r)
  <2>1. CASE conn.exists
    <3>1. conn' = [conn EXCEPT !.exists = FALSE, !.gen = @ + 1] /\ Owing /\ Rest
      BY <1>3, <2>1 DEF Connect!DeleteWrite
    <3>2. PICK s : s = conn.env
      OBVIOUS
    <3>3. conn' = [conn EXCEPT !.exists = FALSE, !.gen = @ + 1, !.env = s]
      BY <3>1, <3>2
    <3>4. /\ s \in [secret : Connect!Stored, hdr : [Connect!Headers -> Connect!Stored],
                    place : BOOLEAN]
          /\ s.secret.val \in Credential
      BY <3>2 DEF ConnectionsInv, DocumentInv
    <3> HIDE DEF Owing, Rest
    <3> QED
      BY <1>1, <3>1, <3>3, <3>4
  <2>2. CASE ~conn.exists
    <3>1. PICK e : e = [Connect!Idle EXCEPT !.pc = "done"]
      OBVIOUS
    <3>2. /\ e \in Edits /\ e.pc = "done" /\ e.view.secret = Blank
          /\ e.merged.secret = Blank /\ e.base = 0
      BY <3>1, NoConfigType DEF Connect!Idle, Edits, EditPhases
    <3>3. /\ edit' = [edit EXCEPT ![r] = e] /\ edit[r].pc # "invalidate"
          /\ UNCHANGED <<conn, keys, cache, now, user, redis>>
      BY <1>3, <2>2, <3>1 DEF Connect!DeleteWrite, Connect!Ends
    <3>4. 0 <= conn.gen
      OBVIOUS
    <3> QED
      BY <3>2, <3>3, <3>4, OneEdit DEF Credential
  <2> QED
    BY <2>1, <2>2
<1> QED
  BY <1>2, <1>3

\* The invalidation deletes the cached schema, or its failure is counted.
LEMMA InvalidateStep ==
  ASSUME ConnectionsConstants, ConnectionsInv, NEW r \in Editors, Connect!Invalidate(r)
  PROVE  ConnectionsInv'
<1> USE ConnectionsFacts DEF ConnectionsConstants
<1>1. /\ edit' = [edit EXCEPT ![r] = [Connect!Idle EXCEPT !.pc = "done"]]
      /\ UNCHANGED <<conn, keys, now, user>>
  BY DEF Connect!Invalidate, Connect!Ends
<1>2. edit' \in [Editors -> Edits] /\ \A q \in Editors : EditInv(q)'
  BY <1>1, EditEnds DEF EditPhases
<1>3. \A a \in Lookers : LookInv(a)'
  BY <1>1, LooksStay
<1>4. CASE cache' = [gen |-> 0, until |-> 0, late |-> FALSE] /\ UNCHANGED redis
  <2>1. ConnectionsType'
    BY <1>1, <1>2, <1>4, PhasesFollow DEF ConnectionsType, Connect!TypeOK, ConnectionsInv
  <2>2. DocumentInv'
    BY <1>1, <1>4 DEF DocumentInv, ConnectionsInv
  <2> QED
    BY <1>2, <1>3, <2>1, <2>2 DEF ConnectionsInv
<1>5. CASE Connect!Fault /\ UNCHANGED cache
  <2>1. redis < RedisFaults /\ redis' = redis + 1
    BY <1>5 DEF Connect!Fault
  <2>2. redis' \in 0..RedisFaults /\ redis' > 0
    BY <2>1
  <2>3. ConnectionsType'
    BY <1>1, <1>2, <1>5, <2>2, PhasesFollow DEF ConnectionsType, Connect!TypeOK, ConnectionsInv
  <2>4. DocumentInv'
    BY <1>1, <1>5, <2>2 DEF DocumentInv, ConnectionsInv
  <2> QED
    BY <1>2, <1>3, <2>3, <2>4 DEF ConnectionsInv
<1> QED
  BY <1>4, <1>5 DEF Connect!Invalidate
\* A step of one agent that leaves the document and the edits.
LEMMA OneLook ==
  ASSUME ConnectionsConstants, ConnectionsInv, NEW a \in Lookers, NEW u \in Looks,
         user' = [user EXCEPT ![a] = u], UNCHANGED <<conn, keys, now, edit>>,
         u.gen <= conn.gen,
         u.pc = "ready" =>
           u.gen >= 1 /\ (conn.type \in {"sql", "mongo"} => u.secret # Blank),
         cache' \in [gen : Int, until : Nat, late : BOOLEAN], redis' \in 0..RedisFaults,
         redis' >= redis,
         \/ cache' = cache
         \/ /\ cache'.gen = -1 \/ cache'.gen \in 0..conn.gen
            /\ cache'.late <=> cache'.gen # conn.gen
  PROVE  ConnectionsInv'
<1> USE ConnectionsFacts
<1>1. user' \in [Lookers -> Looks]
  OBVIOUS
<1>2. ConnectionsType'
  BY <1>1, PhasesFollow DEF ConnectionsType, Connect!TypeOK, ConnectionsInv
<1>3. \A q \in Editors : EditInv(q)'
  BY DEF ConnectionsInv, EditInv
<1>4. DocumentInv'
  <2>1. redis > 0 => redis' > 0
    BY DEF ConnectionsConstants
  <2>2. CASE cache' = cache
    BY <2>1, <2>2 DEF DocumentInv, ConnectionsInv
  <2>3. CASE (cache'.gen = -1 \/ cache'.gen \in 0..conn.gen)
               /\ (cache'.late <=> cache'.gen # conn.gen)
    BY <2>3 DEF DocumentInv, ConnectionsInv
  <2> QED
    BY <2>2, <2>3
<1>5. ASSUME NEW b \in Lookers PROVE LookInv(b)'
  <2>1. CASE b = a
    <3>1. user'[b] = u
      BY <2>1
    <3> QED
      BY <3>1 DEF LookInv
  <2>2. CASE b # a
    <3>1. user'[b] = user[b] /\ LookInv(b)
      BY <2>2 DEF ConnectionsInv
    <3> QED
      BY <3>1 DEF LookInv
  <2> QED
    BY <2>1, <2>2
<1> QED
  BY <1>2, <1>3, <1>4, <1>5 DEF ConnectionsInv

LEMMA FreeType ==
  ASSUME NEW p \in LookPhases
  PROVE  /\ [Connect!Free EXCEPT !.pc = p] \in Looks
         /\ [Connect!Free EXCEPT !.pc = p].gen = 0
         /\ [Connect!Free EXCEPT !.pc = p].pc = p
BY DEF Connect!Free, Looks, Credential

LEMMA AgentStep ==
  ASSUME ConnectionsConstants, ConnectionsInv, NEW a \in Lookers,
         Connect!LookUp(a) \/ Connect!DiscoverResolve(a) \/ Connect!Introspect(a)
           \/ Connect!Connect(a)
  PROVE  ConnectionsInv'
<1> USE ConnectionsFacts
<1> DEFINE Quiet == UNCHANGED <<conn, keys, cache, now, edit, redis>>
<1>1. user[a] \in Looks /\ user[a].gen <= conn.gen /\ conn.gen \in Nat /\ 0 <= conn.gen
  BY DEF ConnectionsInv, LookInv
<1>2. conn.env.secret.val \in Credential /\ conn.env.place \in BOOLEAN
  BY DEF ConnectionsInv, DocumentInv
<1>8. ASSUME Quiet
      PROVE  /\ UNCHANGED <<conn, keys, now, edit>> /\ cache' = cache
             /\ cache' \in [gen : Int, until : Nat, late : BOOLEAN]
             /\ redis' \in 0..RedisFaults /\ redis' >= redis
  BY <1>8
<1>3. ASSUME Quiet, NEW p \in LookPhases, p # "ready",
             user' = [user EXCEPT ![a] = [Connect!Free EXCEPT !.pc = p]]
      PROVE  ConnectionsInv'
  <2>1. PICK u : u = [Connect!Free EXCEPT !.pc = p]
    OBVIOUS
  <2>2. u \in Looks /\ u.gen <= conn.gen /\ u.pc # "ready"
    BY <1>1, <1>3, <2>1, FreeType
  <2>3. user' = [user EXCEPT ![a] = u] /\ redis' >= redis
    BY <1>3, <2>1
  <2> QED
    BY <1>3, <2>2, <2>3, OneLook
<1>4. CASE Connect!LookUp(a)
  <2>1. PICK context \in BOOLEAN :
          user' = [user EXCEPT ![a] = [Connect!Free EXCEPT !.pc =
                     IF context \/ Connect!Live THEN "connect" ELSE "discover"]]
    BY <1>4 DEF Connect!LookUp
  <2>2. PICK p : p = IF context \/ Connect!Live THEN "connect" ELSE "discover"
    OBVIOUS
  <2>3. p \in LookPhases /\ p # "ready" /\ Quiet
    BY <1>4, <2>2 DEF LookPhases, Connect!LookUp
  <2>4. user' = [user EXCEPT ![a] = [Connect!Free EXCEPT !.pc = p]]
    BY <2>1, <2>2
  <2> QED
    BY <1>3, <2>3, <2>4
<1>5. CASE Connect!DiscoverResolve(a)
  <2>1. PICK g, s, b : /\ g = IF Connect!Resolves THEN conn.gen ELSE 0
                       /\ s = IF Connect!Resolves THEN conn.env.secret.val ELSE Blank
                       /\ b = (Connect!Resolves /\ conn.env.place)
    OBVIOUS
  <2>2. g \in Nat /\ g <= conn.gen /\ s \in Credential /\ b \in BOOLEAN
    BY <1>1, <1>2, <2>1 DEF Credential
  <2>3. PICK u : u = [user[a] EXCEPT !.pc = "introspect", !.gen = g, !.secret = s, !.place = b]
    OBVIOUS
  <2>4. u \in Looks /\ u.pc = "introspect" /\ u.gen = g
    BY <1>1, <2>2, <2>3 DEF Looks, LookPhases
  <2>5. user' = [user EXCEPT ![a] = u] /\ Quiet
    BY <1>5, <2>1, <2>3 DEF Connect!DiscoverResolve
  <2> QED
    BY <1>8, <2>2, <2>4, <2>5, OneLook
<1>6. CASE Connect!Introspect(a)
  <2>1. PICK g \in {-1, user[a].gen} :
          g # 0 /\ ((Connect!Cached(g) /\ UNCHANGED redis) \/ (Connect!Fault /\ UNCHANGED cache))
    BY <1>6 DEF Connect!Introspect
  <2>2. /\ user' = [user EXCEPT ![a] = [Connect!Free EXCEPT !.pc = "connect"]]
        /\ UNCHANGED <<conn, keys, now, edit>>
    BY <1>6 DEF Connect!Introspect
  <2>3. PICK u : u = [Connect!Free EXCEPT !.pc = "connect"]
    OBVIOUS
  <2>4. /\ u \in Looks /\ u.gen <= conn.gen /\ u.pc # "ready"
        /\ user' = [user EXCEPT ![a] = u]
    BY <1>1, <2>2, <2>3, FreeType DEF LookPhases
  <2>5. g \in Int /\ (g = -1 \/ g \in 0..conn.gen)
    BY <1>1, <2>1 DEF Looks
  <2>6. CASE Connect!Cached(g) /\ UNCHANGED redis
    <3>1. PICK t, l : /\ t = now + (IF g = -1 THEN ErrorTTL ELSE SchemaTTL)
                      /\ l = (g # conn.gen)
      OBVIOUS
    <3>2. t \in Nat /\ l \in BOOLEAN
      BY <3>1 DEF ConnectionsConstants
    <3>3. cache' = [gen |-> g, until |-> t, late |-> l]
      BY <2>6, <3>1 DEF Connect!Cached
    <3>4. /\ cache' \in [gen : Int, until : Nat, late : BOOLEAN]
          /\ cache'.gen = g /\ cache'.late = l
      BY <2>5, <3>2, <3>3
    <3>5. redis' \in 0..RedisFaults /\ redis' >= redis
      BY <2>6
    <3>6. cache'.late <=> cache'.gen # conn.gen
      BY <3>1, <3>4
    <3> QED
      BY <2>2, <2>4, <2>5, <3>4, <3>5, <3>6, OneLook
  <2>7. CASE Connect!Fault /\ UNCHANGED cache
    <3>1. redis < RedisFaults /\ redis' = redis + 1
      BY <2>7 DEF Connect!Fault
    <3>2. redis' \in 0..RedisFaults /\ redis' >= redis
      BY <3>1 DEF ConnectionsConstants
    <3> QED
      BY <2>2, <2>4, <2>7, <3>2, OneLook
  <2> QED
    BY <2>1, <2>6, <2>7
<1>7. CASE Connect!Connect(a)
  <2>1. Quiet
    BY <1>7 DEF Connect!Connect
  <2>2. CASE Connect!Resolves /\ Connect!Discovers(Connect!Plain(conn.env))
    <3>1. PICK u : u = [pc |-> "ready", gen |-> conn.gen, secret |-> conn.env.secret.val,
                        place |-> conn.env.place]
      OBVIOUS
    <3>2. user' = [user EXCEPT ![a] = u]
      BY <1>7, <2>2, <3>1 DEF Connect!Connect
    <3>3. u \in Looks /\ u.gen = conn.gen /\ u.secret = conn.env.secret.val
      BY <1>1, <1>2, <3>1 DEF Looks, LookPhases
    <3>4. conn.gen >= 1
      BY <2>2 DEF Connect!Resolves, ConnectionsInv, DocumentInv
    <3>5. conn.type = "sql" => u.secret # Blank
      BY <2>2, <3>3, ShownType DEF Connect!Discovers, Connect!DiscoverSql
    <3>6. conn.type = "mongo" => u.secret # Blank
      BY <2>2, <3>3, ShownType DEF Connect!Discovers, Connect!DiscoverNosql
    <3> QED
      <4>1. u \in Looks /\ u.gen <= conn.gen /\ u.gen >= 1
        BY <1>1, <3>3, <3>4
      <4>2. conn.type \in {"sql", "mongo"} => u.secret # Blank
        BY <3>5, <3>6
      <4> HIDE DEF Quiet
      <4> QED
        BY <1>8, <2>1, <3>2, <4>1, <4>2, OneLook
  <2>3. CASE ~(Connect!Resolves /\ Connect!Discovers(Connect!Plain(conn.env)))
    <3>1. user' = [user EXCEPT ![a] = [Connect!Free EXCEPT !.pc = "failed"]]
      BY <1>7, <2>3 DEF Connect!Connect
    <3> QED
      BY <1>3, <2>1, <3>1 DEF LookPhases
  <2> QED
    BY <2>2, <2>3
<1> QED
  BY <1>4, <1>5, <1>6, <1>7
LEMMA ConnectionsNext ==
  ASSUME ConnectionsConstants, ConnectionsInv, [Connect!Next]_Connect!vars
  PROVE  ConnectionsInv'
<1> USE ConnectionsFacts
<1>1. ASSUME UNCHANGED <<conn, cache, edit, user, redis>>, now' \in 0..MaxTime,
             keys' \in [service : Connect!KeyIds, worker : Connect!KeyIds,
                        rotations : 0..MaxRotations]
      PROVE  ConnectionsInv'
  <2>1. ConnectionsType'
    BY <1>1, PhasesFollow DEF ConnectionsType, Connect!TypeOK, ConnectionsInv
  <2>2. DocumentInv'
    BY <1>1 DEF DocumentInv, ConnectionsInv
  <2>3. \A r \in Editors : EditInv(r)'
    BY <1>1 DEF EditInv, ConnectionsInv
  <2>4. \A a \in Lookers : LookInv(a)'
    BY <1>1 DEF LookInv, ConnectionsInv
  <2> QED
    BY <2>1, <2>2, <2>3, <2>4 DEF ConnectionsInv
<1>2. CASE Connect!Tick
  BY <1>1, <1>2 DEF Connect!Tick, ConnectionsConstants
<1>3. CASE \E who \in {"service", "worker"} : Connect!RotateKey(who)
  <2>1. PICK who \in {"service", "worker"} : Connect!RotateKey(who)
    BY <1>3
  <2>2. keys.rotations + 1 \in 0..MaxRotations
    <3>1. keys.rotations < MaxRotations /\ MaxRotations \in Nat
      BY <2>1 DEF Connect!RotateKey, ConnectionsConstants
    <3>2. keys.rotations \in 0..MaxRotations
      OBVIOUS
    <3> QED
      BY <3>1, <3>2
  <2>3. PICK n : n = keys.rotations + 1
    OBVIOUS
  <2>4. /\ keys' = [keys EXCEPT ![who] = "k2", !.rotations = n]
        /\ UNCHANGED <<conn, cache, now, edit, user, redis>>
    BY <2>1, <2>3 DEF Connect!RotateKey
  <2>5. keys' \in [service : Connect!KeyIds, worker : Connect!KeyIds,
                   rotations : 0..MaxRotations]
    <3>1. CASE who = "service"
      <4>1. keys' = [service |-> "k2", worker |-> keys.worker, rotations |-> n]
        BY <2>4, <3>1
      <4> QED
        BY <2>2, <2>3, <4>1 DEF Connect!KeyIds
    <3>2. CASE who = "worker"
      <4>1. keys' = [service |-> keys.service, worker |-> "k2", rotations |-> n]
        BY <2>4, <3>2
      <4> QED
        BY <2>2, <2>3, <4>1 DEF Connect!KeyIds
    <3> QED
      BY <2>1, <3>1, <3>2
  <2> QED
    BY <1>1, <2>4, <2>5
<1>4. CASE UNCHANGED Connect!vars
  BY <1>1, <1>4 DEF Connect!vars
<1>5. CASE \E r \in Editors :
             \/ \E c \in Connect!Configs({Blank, r}), other \in BOOLEAN :
                  Connect!CreateConnection(r, c, other)
             \/ Connect!GetConnection(r) \/ Connect!UpdateRead(r) \/ Connect!UpdateWrite(r)
             \/ Connect!DeleteWrite(r) \/ Connect!Invalidate(r) \/ Connect!TestConnection(r)
  BY <1>5, CreateStep, FormStep, WriteStep, InvalidateStep
<1>6. CASE \E a \in Lookers : Connect!LookUp(a) \/ Connect!DiscoverResolve(a)
                               \/ Connect!Introspect(a) \/ Connect!Connect(a)
  BY <1>6, AgentStep
<1> QED
  BY <1>2, <1>3, <1>4, <1>5, <1>6 DEF Connect!Next

LEMMA ConnectionsStart ==
  ASSUME ConnectionsConstants, Connect!Init
  PROVE  ConnectionsInv
<1> USE DEF Connect!Init, ConnectionsConstants
<1>1. Connect!NoConfig.secret = Blank /\ Connect!Nothing \in Connect!Stored
  BY DEF Connect!NoConfig, Connect!Nothing, Connect!Stored, Connect!Values
<1>2. PICK s : s = Connect!Sealed("k1", Connect!NoConfig)
  OBVIOUS
<1>3. /\ s \in [secret : Connect!Stored, hdr : [Connect!Headers -> Connect!Stored],
                place : BOOLEAN]
      /\ s.secret.val = Blank
  BY <1>2, NoConfigType, SealedType DEF Connect!KeyIds
<1>4. PICK p : p = [secret |-> [key |-> "plain", val |-> "old"],
                    hdr |-> [h \in Connect!Headers |-> Connect!Nothing], place |-> TRUE]
  OBVIOUS
<1>5. /\ p \in [secret : Connect!Stored, hdr : [Connect!Headers -> Connect!Stored],
                place : BOOLEAN]
      /\ p.secret.val = "old" /\ p.secret.key = "plain"
  <2>1. [key |-> "plain", val |-> "old"] \in Connect!Stored
    BY DEF Connect!Stored, Connect!Values, Connect!Typed
  <2> QED
    BY <1>1, <1>4, <2>1
<1>6. PICK t \in Types :
        \/ conn = [exists |-> FALSE, type |-> t, gen |-> 0, env |-> s]
        \/ conn = [exists |-> TRUE, type |-> t, gen |-> 1, env |-> p]
  BY <1>2, <1>4 DEF Connect!NoConn
<1>7. /\ edit \in [Editors -> Edits]
      /\ \A r \in Editors : edit[r] = Connect!Idle
  BY NoConfigType
<1>8. user \in [Lookers -> Looks] /\ \A a \in Lookers : user[a] = Connect!Free
  BY DEF Connect!Free, Looks, LookPhases, Credential
<1>9. /\ conn \in [exists : BOOLEAN, type : Types, gen : Nat,
                   env : [secret : Connect!Stored,
                          hdr : [Connect!Headers -> Connect!Stored], place : BOOLEAN]]
      /\ conn.gen \in Nat /\ (conn.exists => conn.gen = 1)
  <2>1. CASE conn = [exists |-> FALSE, type |-> t, gen |-> 0, env |-> s]
    BY <1>3, <2>1
  <2>2. CASE conn = [exists |-> TRUE, type |-> t, gen |-> 1, env |-> p]
    BY <1>5, <2>2
  <2> QED
    BY <1>6, <2>1, <2>2
<1>10. conn.env.secret.val \in Credential /\ (conn.exists => conn.env.secret.key = "plain")
  <2>1. CASE conn = [exists |-> FALSE, type |-> t, gen |-> 0, env |-> s]
    BY <1>3, <2>1 DEF Credential
  <2>2. CASE conn = [exists |-> TRUE, type |-> t, gen |-> 1, env |-> p]
    BY <1>5, <2>2 DEF Credential, Connect!Typed
  <2> QED
    BY <1>6, <2>1, <2>2
<1>11. ConnectionsType
  <2>1. keys \in [service : Connect!KeyIds, worker : Connect!KeyIds,
                  rotations : 0..MaxRotations]
    BY DEF Connect!KeyIds
  <2>2. cache \in [gen : Int, until : Nat, late : BOOLEAN]
    OBVIOUS
  <2> QED
    BY <1>7, <1>8, <1>9, <2>1, <2>2, PhasesFollow DEF ConnectionsType, Connect!TypeOK
<1>12. DocumentInv
  <2>1. cache.gen = 0
    OBVIOUS
  <2> QED
    BY <1>9, <1>10, <2>1 DEF DocumentInv
<1>13. ASSUME NEW r \in Editors PROVE EditInv(r)
  BY <1>7, <1>9, NoConfigType DEF EditInv, Connect!Idle, Credential
<1>14. ASSUME NEW a \in Lookers PROVE LookInv(a)
  BY <1>8, <1>9 DEF LookInv, Connect!Free
<1> QED
  BY <1>11, <1>12, <1>13, <1>14 DEF ConnectionsInv

\* Any number of overlapping edits and agents, rotations of the keys and lost
\* Redis calls: no edit stores the display mask as the credential or leaves it
\* in plaintext, a run has what somebody typed, and a cached schema of an older
\* configuration overlapped the edit or lost its invalidation.
THEOREM ConnectionsTheorem ==
  ASSUME ConnectionsConstants
  PROVE  Connect!Spec => []ConnectionsSound
<1>1. Connect!Init => ConnectionsInv
  BY ConnectionsStart
<1>2. ConnectionsInv /\ [Connect!Next]_Connect!vars => ConnectionsInv'
  BY ConnectionsNext
<1>3. ConnectionsInv => ConnectionsSound
  <2> SUFFICES ASSUME ConnectionsInv PROVE ConnectionsSound
    OBVIOUS
  <2> USE ConnectionsFacts
  <2>1. Connect!CredentialsSound
    BY DEF ConnectionsInv, DocumentInv, Connect!CredentialsSound, ConnectionsConstants,
           Credential
  <2>2. Connect!RunsWithTyped
    BY DEF ConnectionsInv, LookInv, Looks, Connect!RunsWithTyped, Credential
  <2>3. Connect!SchemaFollows
    BY DEF ConnectionsInv, DocumentInv, Connect!SchemaFollows, Connect!Live
  <2>4. Connect!SecretKept
    BY DEF ConnectionsInv, EditInv, Connect!SecretKept
  <2> QED
    BY <2>1, <2>2, <2>3, <2>4
       DEF ConnectionsInv, ConnectionsType, ConnectionsSound, Connect!ConnectionsSound
<1> QED
  BY <1>1, <1>2, <1>3, PTL DEF Connect!Spec
-----------------------------------------------------------------------------
(***************************************************************************)
(* The assistant.  What the model was told of a test stays true, because a *)
(* test only moves forward: a job that failed wrote no outcome and never   *)
(* will, an outcome changes only when a paused run is resumed, and a test  *)
(* that did not start has no job unless its enqueue lost the reply.        *)
(***************************************************************************)

Workflows ==
  [nodes : SUBSET Names, bad : SUBSET Names, unknown : SUBSET Names,
   renamed : SUBSET Names, edges : SUBSET (Names \X Names), gone : SUBSET Names]

AssistantConstants ==
  /\ Canvases \subseteq Workflows /\ Creations \subseteq Workflows
  /\ MaxRounds \in Nat /\ MaxTurnCalls \in Nat /\ MaxMishaps \in Nat

Asking   == {"think", "llm", "propose"}
Testing  == {"enqueue", "undo", "poll", "read"}
Calling  == {"tools"} \cup Testing
ChatPhases == Asking \cup Calling \cup Turn!Ended
Chats ==
  [pc : ChatPhases, round : 1..MaxRounds + 1, tries : Nat, calls : 0..MaxTurnCalls,
   edited : BOOLEAN, repaired : BOOLEAN, tokens : Nat, tracked : Nat,
   op : {"none", "clean", "broken"}]
TestRuns ==
  [job : {"none", "queued", "running", "done", "failed", "expired"},
   doc : {"queued", "running"} \cup Turn!Settled, end : {"none"} \cup Turn!Settled,
   unsaved : BOOLEAN, slipped : BOOLEAN, resuming : BOOLEAN]
Answers ==
  Turn!Settled \cup {"not started", "lost", "still running", "died", "not persisted"}

AssistantType ==
  /\ chat \in Chats /\ wc \in Workflows /\ mishap \in 0..MaxMishaps
  /\ tests \in Seq(TestRuns) /\ told \in Seq(Answers)

\* The turn: rounds, open calls, what is left to report, and the proposal.
ChatInv ==
  /\ chat.pc \in {"llm"} \cup Calling => chat.round <= MaxRounds
  /\ chat.pc \in Calling => chat.calls >= 1
  /\ chat.pc \in Asking => chat.calls = 0
  /\ chat.pc \in Turn!Ended => chat.tracked = chat.tokens
  /\ chat.op # "none" => chat.pc = "done"
  /\ chat.op # "none" /\ Turn!Fixable(wc) => chat.repaired \/ chat.round > MaxRounds
  /\ chat.pc = "propose" /\ chat.edited /\ Turn!Fixable(wc) =>
       chat.repaired \/ chat.round > MaxRounds

\* One test: what its job tells of its document and its outcome.
TestInv(t) ==
  /\ t.job \in {"none", "queued", "running", "failed"} => t.end = "none"
  /\ t.job = "done" => t.end # "none"
  /\ t.doc \in Turn!Settled =>
       t.doc = t.end \/ (t.doc = "failed" /\ (t.job = "none" \/ t.slipped))
  /\ t.resuming => t.end = "paused"

\* The test that the turn is waiting for.
WaitInv ==
  /\ Len(told) <= Len(tests)
  /\ chat.pc \in Asking \cup {"tools"} => Len(told) = Len(tests)
  /\ chat.pc \in Testing => Len(tests) = Len(told) + 1
  /\ chat.pc = "enqueue" =>
       tests[Len(tests)].job = "none" /\ tests[Len(tests)].doc = "queued"
  /\ chat.pc = "undo" => tests[Len(tests)].job = "none" \/ tests[Len(tests)].slipped
  /\ chat.pc \in {"enqueue", "poll", "read"} => ~tests[Len(tests)].slipped
  /\ chat.pc \in {"poll", "read"} => tests[Len(tests)].job # "none"
  /\ chat.pc = "read" =>
       tests[Len(tests)].job = "failed" \/ tests[Len(tests)].end # "none"

AssistantInv ==
  /\ AssistantType /\ ChatInv /\ WaitInv
  /\ \A k \in 1..Len(tests) : TestInv(tests[k])
  /\ Turn!TestsToldTruly /\ Turn!NoEdgeLeftBehind

\* What a test was told to be stays true when it moves forward.
Forward(s, t) ==
  /\ s.end # "none" => t.end # "none" /\ (s.end # "paused" => t.end = s.end)
  /\ s.job = "failed" => t.job = "failed" /\ t.end = s.end
  /\ s.job = "none" => t.job = "none" /\ t.doc = s.doc
  /\ s.job # "none" => t.job # "none"
  /\ s.unsaved => t.unsaved
  /\ s.slipped <=> t.slipped

\* What an answer says of its test.
TrueOf(what, t) ==
  /\ what \in Turn!Settled => t.end = what \/ (what = "paused" /\ t.end # "none")
  /\ what = "died" => t.job = "failed" /\ t.end = "none"
  /\ what = "not started" => (t.doc = "failed" /\ t.job = "none") \/ t.slipped
  /\ what = "not persisted" => t.unsaved \/ t.end # "none"

LEMMA TestReplaced ==
  ASSUME NEW S, NEW s \in Seq(S), NEW k \in 1..Len(s), NEW t \in S,
         NEW n, n = [s EXCEPT ![k] = t]
  PROVE  /\ n \in Seq(S) /\ Len(n) = Len(s)
         /\ \A j \in 1..Len(s) : n[j] = IF j = k THEN t ELSE s[j]
<1>1. n \in Seq(S) /\ Len(n) = Len(s)
  BY ExceptSeq
<1> QED
  BY <1>1
LEMMA AssistantFacts ==
  ASSUME AssistantConstants, AssistantInv
  PROVE  /\ chat \in Chats /\ wc \in Workflows /\ mishap \in 0..MaxMishaps
         /\ tests \in Seq(TestRuns) /\ told \in Seq(Answers)
         /\ DOMAIN tests = 1..Len(tests) /\ DOMAIN told = 1..Len(told)
         /\ Len(tests) \in Nat /\ Len(told) \in Nat /\ Len(told) <= Len(tests)
         /\ \A k \in 1..Len(tests) : tests[k] \in TestRuns /\ TestInv(tests[k])
         /\ MaxRounds \in Nat /\ MaxTurnCalls \in Nat /\ MaxMishaps \in Nat
BY DEF AssistantConstants, AssistantInv, AssistantType, WaitInv

\* The worker, or an approver, moves one test on.
LEMMA WorkerStep ==
  ASSUME AssistantConstants, AssistantInv, NEW k \in 1..Len(tests), NEW t \in TestRuns,
         TestInv(t), Forward(tests[k], t), Turn!Worker(k, t), mishap' \in 0..MaxMishaps
  PROVE  AssistantInv'
<1> USE AssistantFacts
<1>1. tests' = [tests EXCEPT ![k] = t] /\ UNCHANGED <<chat, canvas, wc, told, ui>>
  BY DEF Turn!Worker
<1>2. /\ tests' \in Seq(TestRuns) /\ Len(tests') = Len(tests)
      /\ \A j \in 1..Len(tests) : tests'[j] = IF j = k THEN t ELSE tests[j]
  BY <1>1, TestReplaced
<1>3. \A j \in 1..Len(tests) : Forward(tests[j], tests'[j])
  BY <1>2 DEF Forward
<1>4. AssistantType'
  BY <1>1, <1>2 DEF AssistantType
<1>5. ChatInv'
  BY <1>1 DEF AssistantInv, ChatInv
<1>6. WaitInv'
  <2>1. Len(tests) >= 1
    OBVIOUS
  <2>2. Forward(tests[Len(tests)], tests'[Len(tests)])
    BY <1>3, <2>1
  <2> QED
    BY <1>1, <1>2, <2>2 DEF AssistantInv, WaitInv, Forward
<1>7. \A j \in 1..Len(tests') : TestInv(tests'[j])
  BY <1>2
<1>8. Turn!TestsToldTruly'
  <2>1. SUFFICES ASSUME NEW j \in DOMAIN told PROVE TrueOf(told[j], tests'[j])
    BY <1>1 DEF Turn!TestsToldTruly, TrueOf
  <2>2. Forward(tests[j], tests'[j])
    BY <1>3
  <2> QED
    BY <2>2 DEF Forward, AssistantInv, Turn!TestsToldTruly, Turn!Settled, TrueOf
<1>9. Turn!NoEdgeLeftBehind'
  BY <1>1 DEF AssistantInv, Turn!NoEdgeLeftBehind, Turn!LeftBehind
<1> QED
  BY <1>4, <1>5, <1>6, <1>7, <1>8, <1>9 DEF AssistantInv

\* A mishap more stays within its bound.
LEMMA MishapCounted ==
  ASSUME AssistantConstants, AssistantInv, Turn!Mishap \/ UNCHANGED mishap
  PROVE  mishap' \in 0..MaxMishaps
BY AssistantFacts DEF Turn!Mishap

LEMMA TestMoves ==
  ASSUME AssistantConstants, AssistantInv, NEW k \in DOMAIN tests,
         \/ Turn!WorkerStarts(k) \/ Turn!WorkerDies(k) \/ Turn!JobExpires(k)
         \/ Turn!Approve(k)
         \/ \E s \in Turn!Settled : Turn!WorkerEnds(k, s)
         \/ \E s \in {"completed", "failed"} : Turn!ResumeEnds(k, s)
  PROVE  AssistantInv'
<1> USE AssistantFacts
<1>1. k \in 1..Len(tests) /\ tests[k] \in TestRuns /\ TestInv(tests[k])
  OBVIOUS
<1> USE DEF TestRuns, TestInv, Forward, Turn!Settled
<1>2. CASE Turn!WorkerStarts(k)
  <2>1. PICK t : t = [tests[k] EXCEPT !.job = "running", !.doc = "running"]
    OBVIOUS
  <2>2. tests[k].job = "queued" /\ Turn!Worker(k, t) /\ UNCHANGED mishap
    BY <1>2, <2>1 DEF Turn!WorkerStarts
  <2>3. t \in TestRuns /\ TestInv(t) /\ Forward(tests[k], t)
    BY <1>1, <2>1, <2>2
  <2> QED
    BY <1>1, <2>2, <2>3, WorkerStep, MishapCounted
<1>3. CASE Turn!WorkerDies(k)
  <2>1. PICK t : t = [tests[k] EXCEPT !.job = "failed"]
    OBVIOUS
  <2>2. tests[k].job \in {"queued", "running"} /\ Turn!Worker(k, t) /\ Turn!Mishap
    BY <1>3, <2>1 DEF Turn!WorkerDies
  <2>3. t \in TestRuns /\ TestInv(t) /\ Forward(tests[k], t)
    BY <1>1, <2>1, <2>2
  <2> QED
    BY <1>1, <2>2, <2>3, WorkerStep, MishapCounted
<1>4. CASE Turn!JobExpires(k)
  <2>1. PICK t : t = [tests[k] EXCEPT !.job = "expired"]
    OBVIOUS
  <2>2. tests[k].job \in {"queued", "running", "done"} /\ Turn!Worker(k, t) /\ Turn!Mishap
    BY <1>4, <2>1 DEF Turn!JobExpires
  <2>3. t \in TestRuns /\ TestInv(t) /\ Forward(tests[k], t)
    BY <1>1, <2>1, <2>2
  <2> QED
    BY <1>1, <2>2, <2>3, WorkerStep, MishapCounted
<1>5. CASE Turn!Approve(k)
  <2>1. PICK t : t = [tests[k] EXCEPT !.doc = "running", !.resuming = TRUE]
    OBVIOUS
  <2>2. tests[k].doc = "paused" /\ Turn!Worker(k, t) /\ UNCHANGED mishap
    BY <1>5, <2>1 DEF Turn!Approve
  <2>3. t \in TestRuns /\ TestInv(t) /\ Forward(tests[k], t)
    BY <1>1, <2>1, <2>2
  <2> QED
    BY <1>1, <2>2, <2>3, WorkerStep, MishapCounted
<1>6. ASSUME NEW s \in Turn!Settled, Turn!WorkerEnds(k, s)
      PROVE  AssistantInv'
  <2>1. PICK t : t = [tests[k] EXCEPT !.job = "done", !.doc = s, !.end = s]
    OBVIOUS
  <2>2. PICK u : u = [tests[k] EXCEPT !.job = "done", !.end = s, !.unsaved = TRUE]
    OBVIOUS
  <2>3. /\ tests[k].job = "running"
        /\ \/ Turn!Worker(k, t) /\ UNCHANGED mishap
           \/ Turn!Worker(k, u) /\ Turn!Mishap
    BY <1>6, <2>1, <2>2 DEF Turn!WorkerEnds
  <2>4. t \in TestRuns /\ TestInv(t) /\ Forward(tests[k], t)
    BY <1>1, <2>1, <2>3
  <2>5. u \in TestRuns /\ TestInv(u) /\ Forward(tests[k], u)
    BY <1>1, <2>2, <2>3
  <2> QED
    BY <1>1, <2>3, <2>4, <2>5, WorkerStep, MishapCounted
<1>7. ASSUME NEW s \in {"completed", "failed"}, Turn!ResumeEnds(k, s)
      PROVE  AssistantInv'
  <2>1. PICK t : t = [tests[k] EXCEPT !.doc = s, !.end = s, !.resuming = FALSE]
    OBVIOUS
  <2>2. tests[k].resuming /\ Turn!Worker(k, t) /\ UNCHANGED mishap
    BY <1>7, <2>1 DEF Turn!ResumeEnds
  <2>3. t \in TestRuns /\ TestInv(t) /\ Forward(tests[k], t)
    BY <1>1, <2>1, <2>2
  <2> QED
    BY <1>1, <2>2, <2>3, WorkerStep, MishapCounted
<1> QED
  BY <1>2, <1>3, <1>4, <1>5, <1>6, <1>7
\* A step of the turn that leaves the tests and the working copy.
LEMMA TurnStep ==
  ASSUME AssistantConstants, AssistantInv, chat' \in Chats, ChatInv', WaitInv',
         UNCHANGED <<wc, tests, told>>, Turn!Mishap \/ UNCHANGED mishap
  PROVE  AssistantInv'
<1> USE AssistantFacts
<1>1. AssistantType'
  BY MishapCounted DEF AssistantType
<1>2. \A k \in 1..Len(tests') : TestInv(tests'[k])
  OBVIOUS
<1>3. Turn!TestsToldTruly' /\ Turn!NoEdgeLeftBehind'
  BY DEF AssistantInv, Turn!TestsToldTruly, Turn!NoEdgeLeftBehind, Turn!LeftBehind
<1> QED
  BY <1>1, <1>2, <1>3 DEF AssistantInv

LEMMA FixableStays ==
  ASSUME wc' = wc
  PROVE  Turn!Fixable(wc)' = Turn!Fixable(wc)
OBVIOUS

LEMMA AskSteps ==
  ASSUME AssistantConstants, AssistantInv,
         \/ Turn!Ask \/ Turn!EmptyReply \/ Turn!FinalAnswer \/ Turn!OutOfRounds
         \/ \E n \in 1..MaxTurnCalls : Turn!CallsTools(n)
  PROVE  AssistantInv'
<1> USE AssistantFacts
<1> USE DEF Chats, ChatPhases, Asking, Calling, Testing, Turn!Ended, Turn!Go
<1>1. ChatInv /\ WaitInv
  BY DEF AssistantInv
<1>2. CASE Turn!Ask
  <2>1. chat' = [chat EXCEPT !.pc = "llm"] /\ chat.pc = "think" /\ chat.round <= MaxRounds
        /\ UNCHANGED <<wc, tests, told, mishap>>
    BY <1>2 DEF Turn!Ask
  <2>2. chat' \in Chats
    BY <2>1
  <2>3. ChatInv'
    BY <1>1, <2>1 DEF ChatInv
  <2>4. WaitInv'
    BY <1>1, <2>1 DEF WaitInv
  <2> QED
    BY <2>1, <2>2, <2>3, <2>4, TurnStep
<1>3. CASE Turn!EmptyReply
  <2>1. PICK e : e = Turn!End("error")
    OBVIOUS
  <2>2. e = [chat EXCEPT !.pc = "error", !.tracked = chat.tokens]
    BY <2>1 DEF Turn!End
  <2>3. /\ chat.pc = "llm" /\ UNCHANGED <<wc, tests, told, mishap>>
        /\ chat' = [chat EXCEPT !.pc = "think", !.tries = @ + 1] \/ chat' = e
    BY <1>3, <2>1 DEF Turn!EmptyReply
  <2>4. chat' \in Chats
    <3>1. PICK n : n = chat.tries + 1
      OBVIOUS
    <3>2. n \in Nat
      BY <3>1
    <3>3. chat' = [chat EXCEPT !.pc = "think", !.tries = n] \/ chat' = e
      BY <2>3, <3>1
    <3>4. CASE chat' = [chat EXCEPT !.pc = "think", !.tries = n]
      BY <3>2, <3>4
    <3>5. CASE chat' = e
      BY <2>2, <3>5
    <3> QED
      BY <3>3, <3>4, <3>5
  <2>5. ChatInv'
    BY <1>1, <2>2, <2>3 DEF ChatInv
  <2>6. WaitInv'
    BY <1>1, <2>2, <2>3 DEF WaitInv
  <2> QED
    BY <2>3, <2>4, <2>5, <2>6, TurnStep
<1>4. PICK h : h = Turn!Heard
  OBVIOUS
<1>5. h = [chat EXCEPT !.tokens = @ + 1, !.tries = 0] /\ h \in Chats
  <2>1. PICK n : n = chat.tokens + 1
    OBVIOUS
  <2>2. h = [chat EXCEPT !.tokens = n, !.tries = 0] /\ n \in Nat
    BY <1>4, <2>1 DEF Turn!Heard, Turn!Tokens
  <2> QED
    BY <2>1, <2>2
<1>6. ASSUME NEW n \in 1..MaxTurnCalls, Turn!CallsTools(n)
      PROVE  AssistantInv'
  <2>1. /\ chat.pc = "llm" /\ UNCHANGED <<wc, tests, told, mishap>>
        /\ chat' = [h EXCEPT !.pc = "tools", !.calls = n]
    BY <1>4, <1>6 DEF Turn!CallsTools
  <2>2. chat' \in Chats
    <3>1. n \in 0..MaxTurnCalls
      OBVIOUS
    <3> QED
      BY <1>5, <2>1, <3>1
  <2>3. ChatInv'
    BY <1>1, <1>5, <2>1 DEF ChatInv
  <2>4. WaitInv'
    BY <1>1, <1>5, <2>1 DEF WaitInv
  <2> QED
    BY <2>1, <2>2, <2>3, <2>4, TurnStep
<1>7. CASE Turn!FinalAnswer
  <2>1. PICK back : back = (chat.edited /\ ~chat.repaired /\ Turn!Fixable(wc))
    OBVIOUS
  <2>2. /\ chat.pc = "llm" /\ UNCHANGED <<wc, tests, told, mishap>>
        /\ chat' = IF back
                   THEN [h EXCEPT !.pc = "think", !.round = @ + 1, !.repaired = TRUE]
                   ELSE [h EXCEPT !.pc = "propose"]
    BY <1>4, <1>7, <2>1 DEF Turn!FinalAnswer
  <2>3. chat.round + 1 \in 1..MaxRounds + 1
    BY <1>1, <2>2 DEF ChatInv
  <2>4. CASE back
    <3>1. chat' = [h EXCEPT !.pc = "think", !.round = @ + 1, !.repaired = TRUE]
      BY <2>2, <2>4
    <3>2. chat' \in Chats
      BY <1>5, <2>3, <3>1
    <3>3. ChatInv'
      BY <1>1, <1>5, <2>2, <3>1 DEF ChatInv
    <3>4. WaitInv'
      BY <1>1, <1>5, <2>2, <3>1 DEF WaitInv
    <3> QED
      BY <2>2, <3>2, <3>3, <3>4, TurnStep
  <2>5. CASE ~back
    <3>1. chat' = [h EXCEPT !.pc = "propose"]
      BY <2>2, <2>5
    <3>2. chat' \in Chats
      BY <1>5, <3>1
    <3>3. chat.edited /\ Turn!Fixable(wc) => chat.repaired
      BY <2>1, <2>5
    <3>4. Turn!Fixable(wc)' = Turn!Fixable(wc)
      BY <2>2, FixableStays
    <3>5. ChatInv'
      BY <1>1, <1>5, <2>2, <3>1, <3>3, <3>4 DEF ChatInv
    <3>6. WaitInv'
      BY <1>1, <1>5, <2>2, <3>1 DEF WaitInv
    <3> QED
      BY <2>2, <3>2, <3>5, <3>6, TurnStep
  <2> QED
    BY <2>4, <2>5
<1>8. CASE Turn!OutOfRounds
  <2>1. /\ chat' = [chat EXCEPT !.pc = "propose"] /\ chat.pc = "think"
        /\ chat.round > MaxRounds /\ UNCHANGED <<wc, tests, told, mishap>>
    BY <1>8 DEF Turn!OutOfRounds
  <2>2. chat' \in Chats
    BY <2>1
  <2>3. ChatInv'
    BY <1>1, <2>1 DEF ChatInv
  <2>4. WaitInv'
    BY <1>1, <2>1 DEF WaitInv
  <2> QED
    BY <2>1, <2>2, <2>3, <2>4, TurnStep
<1> QED
  BY <1>2, <1>3, <1>6, <1>7, <1>8
\* Ending the turn, whichever way, tracks its usage.
LEMMA EndSteps ==
  ASSUME AssistantConstants, AssistantInv,
         Turn!Propose \/ Turn!TurnRaises \/ Turn!Disconnect \/ Turn!PollEnds
  PROVE  AssistantInv'
<1> USE AssistantFacts
<1> USE DEF Chats, ChatPhases, Asking, Calling, Testing, Turn!Ended, Turn!Go, Turn!End
<1>1. ChatInv /\ WaitInv
  BY DEF AssistantInv
<1>2. ASSUME NEW p \in {"error", "gone"}, chat' = [chat EXCEPT !.pc = p, !.tracked = chat.tokens],
             chat.pc \notin Turn!Ended, UNCHANGED <<wc, tests, told>>, Turn!Mishap
      PROVE  AssistantInv'
  <2>1. chat' \in Chats
    BY <1>2
  <2>2. ChatInv'
    BY <1>1, <1>2 DEF ChatInv
  <2>3. WaitInv'
    BY <1>1, <1>2 DEF WaitInv
  <2> QED
    BY <1>2, <2>1, <2>2, <2>3, TurnStep
<1>3. CASE Turn!TurnRaises
  BY <1>2, <1>3 DEF Turn!TurnRaises
<1>4. CASE Turn!Disconnect
  BY <1>2, <1>4 DEF Turn!Disconnect
<1>5. CASE Turn!PollEnds
  <2>1. /\ chat.pc = "poll" /\ tests[Len(tests)].job \in {"done", "failed"}
        /\ chat' = [chat EXCEPT !.pc = "read"]
        /\ UNCHANGED <<wc, tests, told, mishap>>
    BY <1>5 DEF Turn!PollEnds, Turn!Current
  <2>2. chat' \in Chats
    BY <2>1
  <2>3. ChatInv'
    BY <1>1, <2>1 DEF ChatInv
  <2>4. tests[Len(tests)].job = "failed" \/ tests[Len(tests)].end # "none"
    <3>1. Len(tests) \in 1..Len(tests)
      BY <1>1, <2>1 DEF WaitInv
    <3> QED
      BY <2>1, <3>1 DEF TestInv
  <2>5. WaitInv'
    BY <1>1, <2>1, <2>4 DEF WaitInv
  <2> QED
    BY <2>1, <2>2, <2>3, <2>5, TurnStep
<1>6. CASE Turn!Propose
  <2>1. PICK o : o = IF ~chat.edited THEN "none"
                     ELSE IF Turn!IsClean(wc) THEN "clean" ELSE "broken"
    OBVIOUS
  <2>2. /\ chat.pc = "propose" /\ UNCHANGED <<wc, tests, told, mishap>>
        /\ chat' = [chat EXCEPT !.pc = "done", !.tracked = chat.tokens, !.op = o]
    BY <1>6, <2>1 DEF Turn!Propose
  <2>3. chat' \in Chats
    BY <2>1, <2>2
  <2>4. o # "none" /\ Turn!Fixable(wc) => chat.repaired \/ chat.round > MaxRounds
    BY <1>1, <2>1, <2>2 DEF ChatInv
  <2>5. Turn!Fixable(wc)' = Turn!Fixable(wc)
    BY <2>2, FixableStays
  <2>7. ChatInv'
    BY <1>1, <2>2, <2>4, <2>5 DEF ChatInv
  <2>6. WaitInv'
    BY <1>1, <2>2 DEF WaitInv
  <2> QED
    BY <2>2, <2>3, <2>6, <2>7, TurnStep
<1> QED
  BY <1>3, <1>4, <1>5, <1>6

\* The answer to a tool call: the round ends with the last one.
LEMMA AnsweredType ==
  ASSUME AssistantConstants, AssistantInv, chat.pc \in Calling
  PROVE  /\ Turn!Answered(chat) \in Chats
         /\ Turn!Answered(chat).pc \in {"think", "tools"}
         /\ Turn!Answered(chat).pc = "think" <=> Turn!Answered(chat).calls = 0
         /\ Turn!Answered(chat).pc = "tools" => Turn!Answered(chat).round <= MaxRounds
         /\ Turn!Answered(chat).op = "none"
         /\ Turn!Answered(chat).edited = chat.edited
<1> USE AssistantFacts
<1>1. PICK n, p, r : /\ n = chat.calls - 1
                     /\ p = IF chat.calls = 1 THEN "think" ELSE "tools"
                     /\ r = IF chat.calls = 1 THEN chat.round + 1 ELSE chat.round
  OBVIOUS
<1>2. Turn!Answered(chat) = [chat EXCEPT !.calls = n, !.pc = p, !.round = r]
  BY <1>1 DEF Turn!Answered
<1>3. chat.round <= MaxRounds /\ chat.calls >= 1 /\ chat.op = "none"
  BY DEF AssistantInv, ChatInv, Calling, Testing
<1>4. /\ n \in 0..MaxTurnCalls /\ r \in 1..MaxRounds + 1 /\ p \in {"think", "tools"}
      /\ p = "think" <=> n = 0
      /\ p = "tools" => r <= MaxRounds
  <2>1. chat.calls \in 0..MaxTurnCalls /\ chat.round \in 1..MaxRounds + 1
    BY DEF Chats
  <2>2. n \in 0..MaxTurnCalls /\ (n = 0 <=> chat.calls = 1)
    BY <1>1, <1>3, <2>1
  <2>3. r \in 1..MaxRounds + 1
    BY <1>1, <1>3, <2>1
  <2> QED
    BY <1>1, <1>3, <2>2, <2>3
<1> QED
  BY <1>2, <1>3, <1>4 DEF Chats, ChatPhases, Asking, Calling

\* A turn that answered is thinking or has more calls to answer.
LEMMA AnsweredChat ==
  ASSUME AssistantConstants, chat' \in Chats, chat'.pc \in {"think", "tools"},
         chat'.pc = "think" <=> chat'.calls = 0,
         chat'.pc = "tools" => chat'.round <= MaxRounds, chat'.op = "none"
  PROVE  ChatInv'
BY DEF ChatInv, Chats, Asking, Calling, Testing, Turn!Ended

LEMMA ReadSteps ==
  ASSUME AssistantConstants, AssistantInv, Turn!ReadTool
  PROVE  AssistantInv'
<1>1. /\ chat.pc = "tools" /\ chat' = Turn!Answered(chat)
      /\ UNCHANGED <<wc, tests, told, mishap>>
  BY DEF Turn!ReadTool, Turn!Go
<1>2. PICK c : c = Turn!Answered(chat)
  OBVIOUS
<1>3. /\ chat' = c /\ c \in Chats /\ c.pc \in {"think", "tools"}
      /\ c.pc = "think" <=> c.calls = 0
      /\ c.pc = "tools" => c.round <= MaxRounds
      /\ c.op = "none"
  BY <1>1, <1>2, AnsweredType DEF Calling
<1>4. ChatInv'
  BY <1>3, AnsweredChat
<1>5. WaitInv'
  BY <1>1, <1>3 DEF AssistantInv, WaitInv, Asking, Calling, Testing
<1> QED
  BY <1>1, <1>3, <1>4, <1>5, TurnStep

\* A workflow that has the edges of another and every end of it.
LEMMA EndsKept ==
  ASSUME NEW g \in Workflows, NEW h \in Workflows, h.edges \subseteq g.edges,
         \A f \in h.edges : {f[1], f[2]} \cap (g.nodes \cup g.gone) \subseteq h.nodes \cup h.gone
  PROVE  Turn!LeftBehind(h) => Turn!LeftBehind(g)
BY DEF Turn!LeftBehind, Workflows

LEMMA WrittenKeepsEnds ==
  ASSUME NEW g \in Workflows, NEW n \in Names, NEW amiss
  PROVE  /\ Turn!Written(g, n, amiss) \in Workflows
         /\ Turn!LeftBehind(Turn!Written(g, n, amiss)) => Turn!LeftBehind(g)
<1>1. PICK d, b, u :
        /\ d = g.nodes \cup {n}
        /\ b = IF "config" \in amiss THEN g.bad \cup {n} ELSE g.bad \ {n}
        /\ u = IF "reference" \in amiss THEN g.unknown \cup {n} ELSE g.unknown \ {n}
  OBVIOUS
<1>2. Turn!Written(g, n, amiss) = [g EXCEPT !.nodes = d, !.bad = b, !.unknown = u]
  BY <1>1 DEF Turn!Written
<1>3. d \in SUBSET Names /\ b \in SUBSET Names /\ u \in SUBSET Names
  BY <1>1 DEF Workflows
<1>4. Turn!Written(g, n, amiss) \in Workflows
  BY <1>2, <1>3 DEF Workflows
<1>5. PICK h : h = Turn!Written(g, n, amiss)
  OBVIOUS
<1>6. h.edges = g.edges /\ h.gone = g.gone /\ h.nodes = g.nodes \cup {n}
  BY <1>1, <1>2, <1>5 DEF Workflows
<1> QED
  BY <1>4, <1>5, <1>6, EndsKept

\* No edit tool leaves an edge whose end is gone, unless the model wrote the
\* workflow in one piece: what ReId takes away is on record.
LEMMA EditKeepsEnds ==
  ASSUME AssistantConstants, wc \in Workflows, NEW e \in Turn!Edits
  PROVE  /\ e.wc \in Workflows
         /\ Turn!LeftBehind(e.wc) => Turn!LeftBehind(wc) \/ e.wc \in Creations
<1> USE DEF Turn!Same, Workflows
<1>1. CASE \E n \in Names, amiss \in SUBSET Turn!Faults : e = Turn!AddNode(n, amiss)
  BY <1>1, WrittenKeepsEnds DEF Turn!AddNode
<1>2. CASE \E n \in Names, amiss \in SUBSET Turn!Faults : e = Turn!UpdateNode(n, amiss)
  BY <1>2, WrittenKeepsEnds DEF Turn!UpdateNode
<1>3. CASE \E n \in Names, good \in BOOLEAN : e = Turn!RenameNode(n, good)
  <2>1. PICK n \in Names, good \in BOOLEAN : e = Turn!RenameNode(n, good)
    BY <1>3
  <2>2. e.wc = wc \/ e.wc = [wc EXCEPT !.renamed = @ \cup {n}]
    BY <2>1 DEF Turn!RenameNode
  <2> QED
    BY <2>2, EndsKept
<1>4. CASE \E n \in Names : e = Turn!RemoveNode(n)
  <2>1. PICK n \in Names : e = Turn!RemoveNode(n)
    BY <1>4
  <2>2. CASE n \in wc.nodes
    <3>1. PICK d : d = {f \in wc.edges : n \notin {f[1], f[2]}}
      OBVIOUS
    <3>2. e.wc = [wc EXCEPT !.nodes = @ \ {n}, !.bad = @ \ {n}, !.unknown = @ \ {n},
                            !.renamed = @ \ {n}, !.edges = d]
      BY <2>1, <2>2, <3>1 DEF Turn!RemoveNode
    <3>3. d \in SUBSET (Names \X Names)
      BY <3>1
    <3>4. e.wc \in Workflows
      BY <3>2, <3>3
    <3>5. PICK h : h = e.wc
      OBVIOUS
    <3>6. h.nodes = wc.nodes \ {n} /\ h.gone = wc.gone /\ h.edges = d
      BY <3>2, <3>5
    <3>7. \A f \in h.edges :
            {f[1], f[2]} \cap (wc.nodes \cup wc.gone) \subseteq h.nodes \cup h.gone
      BY <3>1, <3>6
    <3> HIDE DEF Workflows
    <3> QED
      BY <3>1, <3>4, <3>5, <3>6, <3>7, EndsKept
  <2>3. CASE n \notin wc.nodes
    BY <2>1, <2>3 DEF Turn!RemoveNode
  <2> QED
    BY <2>2, <2>3
<1>9. CASE \E n \in Names, m \in Names : e = Turn!ReId(n, m)
  <2>1. PICK n \in Names, m \in Names : e = Turn!ReId(n, m)
    BY <1>9
  <2>2. CASE n \in wc.nodes /\ m \notin wc.nodes
    <3>1. PICK s, b, u, r, o :
            /\ o = wc.gone \cup {n}
            /\ s = (wc.nodes \ {n}) \cup {m}
            /\ b = IF n \in wc.bad THEN (wc.bad \ {n}) \cup {m} ELSE wc.bad
            /\ u = IF n \in wc.unknown THEN (wc.unknown \ {n}) \cup {m} ELSE wc.unknown
            /\ r = IF n \in wc.renamed THEN (wc.renamed \ {n}) \cup {m} ELSE wc.renamed
      OBVIOUS
    <3>2. e.wc = [wc EXCEPT !.nodes = s, !.bad = b, !.unknown = u, !.renamed = r,
                            !.gone = o]
      BY <2>1, <2>2, <3>1 DEF Turn!ReId
    <3>3. {s, b, u, r, o} \subseteq SUBSET Names
      BY <3>1
    <3>4. e.wc \in Workflows
      BY <3>2, <3>3
    <3>5. PICK h : h = e.wc
      OBVIOUS
    <3>6. h.nodes = s /\ h.gone = o /\ h.edges = wc.edges
      BY <3>2, <3>5
    <3>7. \A f \in h.edges :
            {f[1], f[2]} \cap (wc.nodes \cup wc.gone) \subseteq h.nodes \cup h.gone
      BY <3>1, <3>6
    <3> HIDE DEF Workflows
    <3> QED
      BY <3>4, <3>5, <3>6, <3>7, EndsKept
  <2>3. CASE ~(n \in wc.nodes /\ m \notin wc.nodes)
    BY <2>1, <2>3 DEF Turn!ReId
  <2> QED
    BY <2>2, <2>3
<1>5. CASE \E m \in Names, n \in Names : e = Turn!AddEdge(m, n)
  <2>1. PICK m \in Names, n \in Names : e = Turn!AddEdge(m, n)
    BY <1>5
  <2>2. CASE {m, n} \subseteq wc.nodes
    <3>1. PICK d : d = wc.edges \cup {<<m, n>>}
      OBVIOUS
    <3>2. e.wc = [wc EXCEPT !.edges = d]
      BY <2>1, <2>2, <3>1 DEF Turn!AddEdge
    <3>3. d \in SUBSET (Names \X Names)
      BY <3>1
    <3>4. e.wc \in Workflows
      BY <3>2, <3>3
    <3>5. PICK h : h = e.wc
      OBVIOUS
    <3>6. ASSUME NEW f \in h.edges, ~({f[1], f[2]} \subseteq h.nodes \cup h.gone)
          PROVE  f \in wc.edges /\ ~({f[1], f[2]} \subseteq wc.nodes \cup wc.gone)
      BY <2>2, <3>1, <3>2, <3>5, <3>6
    <3>7. Turn!LeftBehind(h) => Turn!LeftBehind(wc)
      BY <3>6 DEF Turn!LeftBehind
    <3> QED
      BY <3>4, <3>5, <3>7
  <2>3. CASE ~({m, n} \subseteq wc.nodes)
    BY <2>1, <2>3 DEF Turn!AddEdge
  <2> QED
    BY <2>2, <2>3
<1>6. CASE \E m \in Names, n \in Names : e = Turn!RemoveEdge(m, n)
  <2>1. PICK m \in Names, n \in Names : e = Turn!RemoveEdge(m, n)
    BY <1>6
  <2>2. e.wc = [wc EXCEPT !.edges = @ \ {<<m, n>>}]
    BY <2>1 DEF Turn!RemoveEdge
  <2> QED
    BY <2>2, EndsKept
<1>7. CASE \E g \in Creations : e = Turn!CreateWorkflow(g)
  BY <1>7 DEF Turn!CreateWorkflow, AssistantConstants
<1>8. CASE e = Turn!SetMeta
  BY <1>8 DEF Turn!SetMeta
<1> QED
  BY <1>1, <1>2, <1>3, <1>4, <1>5, <1>6, <1>7, <1>8, <1>9 DEF Turn!Edits
LEMMA EditStep ==
  ASSUME AssistantConstants, AssistantInv, Turn!EditTool
  PROVE  AssistantInv'
<1> USE AssistantFacts
<1>1. PICK e \in Turn!Edits :
        /\ wc' = e.wc
        /\ chat' = [Turn!Answered(chat) EXCEPT !.edited = @ \/ e.ok]
  BY DEF Turn!EditTool, Turn!Go
<1>2. chat.pc = "tools" /\ UNCHANGED <<tests, told, mishap>>
  BY DEF Turn!EditTool
<1>3. PICK c, b : c = Turn!Answered(chat) /\ b = (c.edited \/ e.ok)
  OBVIOUS
<1>4. /\ c \in Chats /\ c.pc \in {"think", "tools"}
      /\ c.pc = "think" <=> c.calls = 0
      /\ c.pc = "tools" => c.round <= MaxRounds
      /\ c.op = "none"
  BY <1>2, <1>3, AnsweredType DEF Calling
<1>5. chat' = [c EXCEPT !.edited = b] /\ b \in BOOLEAN
  BY <1>1, <1>3
<1>6. /\ chat' \in Chats /\ chat'.pc = c.pc /\ chat'.calls = c.calls
      /\ chat'.round = c.round /\ chat'.op = "none"
  BY <1>4, <1>5 DEF Chats
<1>7. ChatInv'
  BY <1>4, <1>6, AnsweredChat
<1>8. WaitInv'
  BY <1>2, <1>4, <1>6 DEF AssistantInv, WaitInv, Asking, Calling, Testing
<1>9. wc' \in Workflows /\ (Turn!LeftBehind(wc') => Turn!LeftBehind(wc) \/ wc' \in Creations)
  BY <1>1, EditKeepsEnds
<1>10. AssistantType'
  BY <1>2, <1>6, <1>9 DEF AssistantType
<1>11. Turn!NoEdgeLeftBehind'
  BY <1>9 DEF AssistantInv, Turn!NoEdgeLeftBehind
<1>12. Turn!TestsToldTruly'
  BY <1>2 DEF AssistantInv, Turn!TestsToldTruly
<1>13. \A k \in 1..Len(tests') : TestInv(tests'[k])
  BY <1>2
<1> QED
  BY <1>7, <1>8, <1>10, <1>11, <1>12, <1>13 DEF AssistantInv

\* A new test has no job yet.
LEMMA InsertStep ==
  ASSUME AssistantConstants, AssistantInv, Turn!InsertTest
  PROVE  AssistantInv'
<1> USE AssistantFacts
<1>1. PICK t : t = [job |-> "none", doc |-> "queued", end |-> "none", unsaved |-> FALSE,
                   slipped |-> FALSE, resuming |-> FALSE]
  OBVIOUS
<1>2. t \in TestRuns /\ TestInv(t)
  BY <1>1 DEF TestRuns, TestInv, Turn!Settled
<1>3. /\ chat.pc = "tools" /\ tests' = Append(tests, t)
      /\ chat' = [chat EXCEPT !.pc = "enqueue"] /\ UNCHANGED <<wc, told, mishap>>
  BY <1>1 DEF Turn!InsertTest, Turn!Go
<1>4. /\ tests' \in Seq(TestRuns) /\ Len(tests') = Len(tests) + 1
      /\ \A k \in 1..Len(tests) : tests'[k] = tests[k]
      /\ tests'[Len(tests) + 1] = t
  BY <1>2, <1>3, AppendProperties
<1>5. chat' \in Chats
  BY <1>3 DEF Chats, ChatPhases, Calling, Testing
<1>6. AssistantType'
  BY <1>3, <1>4, <1>5 DEF AssistantType
<1>7. ChatInv'
  BY <1>3 DEF AssistantInv, ChatInv, Chats, Asking, Calling, Testing, Turn!Ended
<1>8. WaitInv'
  BY <1>1, <1>3, <1>4 DEF AssistantInv, WaitInv, Chats, Asking, Calling, Testing
<1>9. \A k \in 1..Len(tests') : TestInv(tests'[k])
  BY <1>2, <1>4
<1>10. Turn!TestsToldTruly'
  <2>1. \A k \in DOMAIN told : tests'[k] = tests[k]
    BY <1>4
  <2>2. told' = told /\ Turn!TestsToldTruly
    BY <1>3 DEF AssistantInv
  <2> HIDE AssistantFacts
  <2> QED
    BY <2>1, <2>2 DEF Turn!TestsToldTruly
<1>11. Turn!NoEdgeLeftBehind'
  BY <1>3 DEF AssistantInv, Turn!NoEdgeLeftBehind, Turn!LeftBehind
<1> QED
  BY <1>6, <1>7, <1>8, <1>9, <1>10, <1>11 DEF AssistantInv

LEMMA ToldGrows ==
  ASSUME NEW S, NEW s \in Seq(S), NEW x \in S, NEW n, n = Append(s, x)
  PROVE  /\ n \in Seq(S) /\ Len(n) = Len(s) + 1 /\ DOMAIN n = 1..Len(s) + 1
         /\ \A k \in 1..Len(s) : n[k] = s[k]
         /\ n[Len(s) + 1] = x
BY AppendProperties

\* The model hears of the current test what is true of it now; the tests before
\* are the same.
LEMMA TellStep ==
  ASSUME AssistantConstants, AssistantInv, NEW what \in Answers, Turn!Tell(what),
         chat.pc \in Testing, wc' = wc, Turn!Mishap \/ UNCHANGED mishap,
         tests' \in Seq(TestRuns), Len(tests') = Len(tests),
         \A k \in 1..Len(told) : tests'[k] = tests[k],
         \A k \in 1..Len(tests) : TestInv(tests'[k]),
         TrueOf(what, tests'[Len(tests)])
  PROVE  AssistantInv'
<1> USE AssistantFacts
<1>1. told' = Append(told, what) /\ chat' = Turn!Answered(chat)
  BY DEF Turn!Tell, Turn!Go
<1>2. /\ told' \in Seq(Answers) /\ Len(told') = Len(told) + 1
      /\ DOMAIN told' = 1..Len(told) + 1
      /\ \A k \in 1..Len(told) : told'[k] = told[k]
      /\ told'[Len(told) + 1] = what
  BY <1>1, ToldGrows
<1>3. Len(tests) = Len(told) + 1
  BY DEF AssistantInv, WaitInv
<1>4. PICK c : c = Turn!Answered(chat)
  OBVIOUS
<1>5. /\ chat' = c /\ c \in Chats /\ c.pc \in {"think", "tools"}
      /\ c.pc = "think" <=> c.calls = 0
      /\ c.pc = "tools" => c.round <= MaxRounds
      /\ c.op = "none"
  BY <1>1, <1>4, AnsweredType DEF Calling
<1>6. ChatInv'
  BY <1>5, AnsweredChat
<1>7. WaitInv'
  BY <1>2, <1>3, <1>5 DEF WaitInv, Asking, Calling, Testing
<1>8. AssistantType'
  BY <1>2, <1>5, MishapCounted DEF AssistantType
<1>9. Turn!TestsToldTruly'
  <2>1. SUFFICES ASSUME NEW j \in DOMAIN told' PROVE TrueOf(told'[j], tests'[j])
    BY DEF Turn!TestsToldTruly, TrueOf
  <2>2. j \in 1..Len(told) \/ j = Len(told) + 1
    BY <1>2
  <2>3. CASE j \in 1..Len(told)
    <3>1. told'[j] = told[j] /\ tests'[j] = tests[j] /\ j \in DOMAIN told
      BY <1>2, <2>3
    <3> QED
      BY <3>1 DEF AssistantInv, Turn!TestsToldTruly, TrueOf
  <2>4. CASE j = Len(told) + 1
    BY <1>2, <1>3, <2>4
  <2> QED
    BY <2>2, <2>3, <2>4
<1>10. Turn!NoEdgeLeftBehind'
  BY DEF AssistantInv, Turn!NoEdgeLeftBehind, Turn!LeftBehind
<1>11. \A k \in 1..Len(tests') : TestInv(tests'[k])
  OBVIOUS
<1> QED
  BY <1>6, <1>7, <1>8, <1>9, <1>10, <1>11 DEF AssistantInv
LEMMA AnswerSteps ==
  ASSUME AssistantConstants, AssistantInv,
         Turn!UndoTest \/ Turn!StatusLost \/ Turn!DeadlinePasses \/ Turn!ReadOutcome
  PROVE  AssistantInv'
<1> USE AssistantFacts
<1>1. chat.pc \in Testing /\ wc' = wc
  BY DEF Turn!UndoTest, Turn!StatusLost, Turn!DeadlinePasses, Turn!ReadOutcome, Testing
<1>2. Len(tests) = Len(told) + 1 /\ Len(tests) \in 1..Len(tests)
  BY <1>1 DEF AssistantInv, WaitInv
<1>3. PICK t : t = tests[Len(tests)]
  OBVIOUS
<1>4. t \in TestRuns /\ TestInv(t)
  BY <1>2, <1>3
<1>5. ASSUME NEW what \in Answers, Turn!Tell(what), tests' = tests,
             Turn!Mishap \/ UNCHANGED mishap, TrueOf(what, t)
      PROVE  AssistantInv'
  <2>1. /\ tests' \in Seq(TestRuns) /\ Len(tests') = Len(tests)
        /\ \A k \in 1..Len(told) : tests'[k] = tests[k]
        /\ \A k \in 1..Len(tests) : TestInv(tests'[k])
        /\ TrueOf(what, tests'[Len(tests)])
    BY <1>3, <1>5
  <2> HIDE AssistantFacts
  <2> QED
    BY <1>1, <1>5, <2>1, TellStep
<1>6. CASE Turn!StatusLost
  BY <1>5, <1>6 DEF Turn!StatusLost, Answers, TrueOf, Turn!Settled
<1>7. CASE Turn!DeadlinePasses
  BY <1>5, <1>7 DEF Turn!DeadlinePasses, Answers, TrueOf, Turn!Settled
<1>8. CASE Turn!ReadOutcome
  <2>1. PICK what : what = IF t.doc \in Turn!Settled THEN t.doc
                           ELSE IF t.job = "failed" THEN "died" ELSE "not persisted"
    OBVIOUS
  <2>2. Turn!Tell(what) /\ tests' = tests /\ UNCHANGED mishap /\ chat.pc = "read"
    BY <1>3, <1>8, <2>1 DEF Turn!ReadOutcome, Turn!Current
  <2>3. /\ t.job # "none" /\ ~t.slipped
        /\ t.job = "failed" \/ t.end # "none"
    BY <1>3, <2>2 DEF AssistantInv, WaitInv
  <2>4. what \in Answers
    BY <2>1 DEF Answers
  <2>5. TrueOf(what, t)
    BY <1>4, <2>1, <2>3 DEF TrueOf, TestInv, Turn!Settled
  <2> QED
    BY <1>5, <2>2, <2>4, <2>5
<1>9. CASE Turn!UndoTest
  <2>1. PICK f : f = [t EXCEPT !.doc = "failed"]
    OBVIOUS
  <2>2. /\ chat.pc = "undo" /\ tests' = [tests EXCEPT ![Len(tests)] = f]
        /\ Turn!Tell("not started") /\ UNCHANGED mishap
    BY <1>3, <1>9, <2>1 DEF Turn!UndoTest, Turn!Current
  <2>3. t.job = "none" \/ t.slipped
    BY <1>3, <2>2 DEF AssistantInv, WaitInv
  <2>4. f \in TestRuns /\ TestInv(f) /\ TrueOf("not started", f)
    BY <1>4, <2>1, <2>3 DEF TestRuns, TestInv, TrueOf, Turn!Settled
  <2>5. /\ tests' \in Seq(TestRuns) /\ Len(tests') = Len(tests)
        /\ \A j \in 1..Len(tests) : tests'[j] = IF j = Len(tests) THEN f ELSE tests[j]
    <3>1. f \in TestRuns /\ tests' = [tests EXCEPT ![Len(tests)] = f]
      BY <2>2, <2>4
    <3> QED
      BY <1>2, <3>1, TestReplaced
  <2>6. /\ \A k \in 1..Len(told) : tests'[k] = tests[k]
        /\ \A k \in 1..Len(tests) : TestInv(tests'[k])
        /\ tests'[Len(tests)] = f
    <3>1. Len(tests) \in 1..Len(tests) /\ TestInv(f)
      BY <1>2, <2>4
    <3>2. \A k \in 1..Len(told) : k \in 1..Len(tests) /\ k # Len(tests)
      BY <1>2
    <3> HIDE DEF TestInv
    <3> QED
      BY <2>5, <3>1, <3>2
  <2>7. PICK what : what = "not started"
    OBVIOUS
  <2>8. what \in Answers /\ Turn!Tell(what) /\ TrueOf(what, tests'[Len(tests)])
    BY <2>2, <2>4, <2>6, <2>7 DEF Answers
  <2> HIDE AssistantFacts
  <2> QED
    BY <1>1, <2>2, <2>5, <2>6, <2>8, TellStep
<1> QED
  BY <1>6, <1>7, <1>8, <1>9

\* The enqueue tells the model nothing yet.
LEMMA EnqueueStep ==
  ASSUME AssistantConstants, AssistantInv, Turn!EnqueueTest
  PROVE  AssistantInv'
<1> USE AssistantFacts
<1>1. chat.pc = "enqueue" /\ wc' = wc /\ told' = told
  BY DEF Turn!EnqueueTest
<1>2. Len(tests) = Len(told) + 1 /\ Len(tests) \in 1..Len(tests)
  BY <1>1 DEF AssistantInv, WaitInv, Testing
<1>3. PICK t : t = tests[Len(tests)]
  OBVIOUS
<1>4. /\ t \in TestRuns /\ TestInv(t)
      /\ t.job = "none" /\ t.doc = "queued" /\ t.end = "none" /\ ~t.slipped
  BY <1>1, <1>2, <1>3 DEF AssistantInv, WaitInv, TestInv
<1>5. PICK q, l : /\ q = [t EXCEPT !.job = "queued"]
                  /\ l = [t EXCEPT !.job = "queued", !.slipped = TRUE]
  OBVIOUS
<1>6. PICK u, p :
        /\ tests' = [tests EXCEPT ![Len(tests)] = u] /\ chat' = [chat EXCEPT !.pc = p]
        /\ (p = "poll" /\ u = q) \/ (p = "undo" /\ u \in {t, l})
        /\ Turn!Mishap \/ UNCHANGED mishap
  <2>1. CASE /\ tests' = [tests EXCEPT ![Len(tests)].job = "queued"]
             /\ chat' = [chat EXCEPT !.pc = "poll"] /\ UNCHANGED mishap
    BY <1>3, <1>5, <2>1
  <2>2. CASE /\ UNCHANGED tests /\ chat' = [chat EXCEPT !.pc = "undo"] /\ Turn!Mishap
    <3>1. tests' = [tests EXCEPT ![Len(tests)] = t]
      BY <1>3, <2>2
    <3> QED
      BY <2>2, <3>1
  <2>3. CASE /\ tests' = [tests EXCEPT ![Len(tests)].job = "queued",
                                       ![Len(tests)].slipped = TRUE]
             /\ chat' = [chat EXCEPT !.pc = "undo"] /\ Turn!Mishap
    <3>1. tests' = [tests EXCEPT ![Len(tests)] = l]
      BY <1>2, <1>3, <1>5, <2>3
    <3> QED
      BY <2>3, <3>1
  <2> QED
    BY <2>1, <2>2, <2>3 DEF Turn!EnqueueTest, Turn!Current, Turn!Go
<1>7. /\ u \in TestRuns /\ TestInv(u) /\ p \in {"poll", "undo"}
      /\ p = "undo" => u.job = "none" \/ u.slipped
      /\ p = "poll" => u.job # "none" /\ ~u.slipped
  BY <1>4, <1>5, <1>6 DEF TestRuns, TestInv, Turn!Settled
<1>8. /\ tests' \in Seq(TestRuns) /\ Len(tests') = Len(tests)
      /\ \A j \in 1..Len(tests) : tests'[j] = IF j = Len(tests) THEN u ELSE tests[j]
  BY <1>2, <1>6, <1>7, TestReplaced
<1>9. chat' \in Chats /\ chat'.pc = p
  BY <1>6, <1>7 DEF Chats, ChatPhases, Calling, Testing
<1>10. AssistantType'
  BY <1>1, <1>6, <1>8, <1>9, MishapCounted DEF AssistantType
<1>11. ChatInv'
  BY <1>1, <1>6, <1>7 DEF AssistantInv, ChatInv, Chats, Asking, Calling, Testing, Turn!Ended
<1>12. WaitInv'
  BY <1>1, <1>2, <1>7, <1>8, <1>9 DEF AssistantInv, WaitInv, Asking, Calling, Testing
<1>13. \A k \in 1..Len(tests') : TestInv(tests'[k])
  BY <1>7, <1>8
<1>14. Turn!TestsToldTruly'
  <2>1. \A k \in DOMAIN told : tests'[k] = tests[k]
    BY <1>2, <1>8
  <2>2. told' = told /\ Turn!TestsToldTruly
    BY <1>1 DEF AssistantInv
  <2> HIDE AssistantFacts
  <2> QED
    BY <2>1, <2>2 DEF Turn!TestsToldTruly
<1>15. Turn!NoEdgeLeftBehind'
  BY <1>1 DEF AssistantInv, Turn!NoEdgeLeftBehind, Turn!LeftBehind
<1> QED
  BY <1>10, <1>11, <1>12, <1>13, <1>14, <1>15 DEF AssistantInv

LEMMA AssistantNext ==
  ASSUME AssistantConstants, AssistantInv, [Turn!Next]_Turn!chatVars
  PROVE  AssistantInv'
<1>1. CASE UNCHANGED Turn!chatVars
  <2>1. UNCHANGED <<chat, wc, tests, told, mishap>>
    BY <1>1 DEF Turn!chatVars
  <2>2. ChatInv' /\ WaitInv'
    BY <2>1 DEF AssistantInv, ChatInv, WaitInv
  <2>3. chat' \in Chats
    BY <2>1, AssistantFacts
  <2> QED
    BY <2>1, <2>2, <2>3, TurnStep
<1>2. CASE \E k \in DOMAIN tests :
             \/ Turn!WorkerStarts(k) \/ Turn!WorkerDies(k) \/ Turn!JobExpires(k)
             \/ Turn!Approve(k)
             \/ \E s \in Turn!Settled : Turn!WorkerEnds(k, s)
             \/ \E s \in {"completed", "failed"} : Turn!ResumeEnds(k, s)
  BY <1>2, TestMoves
<1> QED
  BY <1>1, <1>2, AskSteps, EndSteps, ReadSteps, EditStep, InsertStep, EnqueueStep, AnswerSteps
     DEF Turn!Next

LEMMA AssistantStart ==
  ASSUME AssistantConstants, Turn!Init
  PROVE  AssistantInv
<1> USE DEF Turn!Init, AssistantConstants
<1>1. tests = <<>> /\ told = <<>> /\ Len(tests) = 0 /\ Len(told) = 0
  OBVIOUS
<1>2. chat = [pc |-> "think", round |-> 1, tries |-> 0, calls |-> 0, edited |-> FALSE,
              repaired |-> FALSE, tokens |-> 0, tracked |-> 0, op |-> "none"]
  OBVIOUS
<1>3. chat \in Chats
  BY <1>2 DEF Chats, ChatPhases, Asking
<1>4. AssistantType
  BY <1>1, <1>3 DEF AssistantType
<1>5. ChatInv
  BY <1>2 DEF ChatInv, Asking, Calling, Testing, Turn!Ended
<1>6. WaitInv
  BY <1>1, <1>2 DEF WaitInv, Asking, Testing
<1>7. Turn!TestsToldTruly /\ \A k \in 1..Len(tests) : TestInv(tests[k])
  BY <1>1 DEF Turn!TestsToldTruly
<1>8. Turn!NoEdgeLeftBehind
  BY DEF Turn!NoEdgeLeftBehind, Turn!LeftBehind
<1> QED
  BY <1>4, <1>5, <1>6, <1>7, <1>8 DEF AssistantInv

\* Whatever the model asks for, however its tests end and whoever approves
\* them meanwhile: a graph or config that is broken is proposed only after it was
\* reported or when the rounds are used up, usage is tracked whichever way the turn
\* ends, what the model heard of a test run is true (one whose enqueue lost its
\* reply apart), and no edit leaves an edge behind but one that rewrites an id.
THEOREM AssistantTheorem ==
  ASSUME AssistantConstants
  PROVE  Turn!Spec => []AssistantSound
<1>1. Turn!Init => AssistantInv
  BY AssistantStart
<1>2. AssistantInv /\ [Turn!Next]_Turn!chatVars => AssistantInv'
  BY AssistantNext
<1>3. AssistantInv => AssistantSound
  <2> SUFFICES ASSUME AssistantInv PROVE AssistantSound
    OBVIOUS
  <2>1. Turn!TypeOK
    BY AssistantFacts DEF Turn!TypeOK, Chats, ChatPhases, Asking, Calling, Testing, Workflows
  <2>2. Turn!BrokenWasReported
    BY AssistantFacts DEF AssistantInv, ChatInv, Turn!BrokenWasReported, Chats
  <2>3. Turn!TurnWhole
    BY DEF AssistantInv, ChatInv, WaitInv, Turn!TurnWhole, Asking
  <2> QED
    BY <2>1, <2>2, <2>3 DEF AssistantInv, AssistantSound, Turn!AssistantSound
<1> QED
  BY <1>1, <1>2, <1>3, PTL DEF Turn!Spec
-----------------------------------------------------------------------------
(***************************************************************************)
(* What a node does to the world outside.  Whatever the kind, a step that  *)
(* was passed left its effect behind; a writer or sender has one such step *)
(* and one attempt, so what is lost or late was not done before.           *)
(***************************************************************************)

Plain ==
  {"sql_writer", "sql_nothing", "pdf", "pdf_inline", "excel", "csv", "email", "download", "bucket",
   "sftp_writer", "webhook", "notify", "state_set", "state_get", "sql", "mongo", "api_post"}
EffectConstants ==
  /\ NodeKinds \subseteq Plain \cup {"mcp", "vector"}
  /\ NodeRetries \in Nat /\ Items \in Nat /\ EffectFaults \in Nat

\* A kind without items of its own is its steps, in their order.
LEMMA PlainKind ==
  ASSUME kind \in Plain
  PROVE  /\ Effect!Prologue = <<>> /\ Effect!Count = 1
         /\ Len(Effect!PerItem) \in 1..4 /\ Effect!Places = Len(Effect!PerItem)
         /\ \A p \in 1..Effect!Places :
              Effect!ItemAt(p) = 1 /\ Effect!StepAt(p) = Effect!PerItem[p]
<1>1. Effect!Prologue = <<>> /\ Effect!Count = 1
  BY DEF Plain, Effect!Prologue, Effect!Count
<1>2. Len(Effect!PerItem) \in 1..4
  BY DEF Plain, Effect!PerItem, Effect!SqlWriter, Effect!SqlNothing, Effect!PdfExport, Effect!PdfInline,
         Effect!ExcelExport, Effect!CsvExport, Effect!EmailSender, Effect!FileDownload,
         Effect!BucketWriter, Effect!SftpWriter, Effect!WebhookOut, Effect!Notify,
         Effect!StateSet, Effect!StateGet, Effect!SqlSource, Effect!MongoSource,
         Effect!ApiPost
<1>3. PICK n : n = Len(Effect!PerItem)
  OBVIOUS
<1>4. Effect!Places = n
  BY <1>1, <1>2, <1>3 DEF Effect!Places
<1>5. ASSUME NEW p \in 1..n
      PROVE  1 + ((p - 1) % n) = p /\ 1 + ((p - 1) \div n) = 1
  <2>1. CASE n = 1
    BY <1>5, <2>1
  <2>2. CASE n = 2
    BY <1>5, <2>2
  <2>3. CASE n = 3
    BY <1>5, <2>3
  <2>4. CASE n = 4
    BY <1>5, <2>4
  <2> QED
    BY <1>2, <1>3, <2>1, <2>2, <2>3, <2>4
<1>6. ASSUME NEW p \in 1..n
      PROVE  Effect!ItemAt(p) = 1 /\ Effect!StepAt(p) = Effect!PerItem[p]
  <2>1. ~(p <= Len(Effect!Prologue)) /\ p - Len(Effect!Prologue) - 1 = p - 1
    BY <1>1, <1>2, <1>3
  <2> QED
    BY <1>3, <1>5, <2>1 DEF Effect!ItemAt, Effect!StepAt
<1> QED
  BY <1>1, <1>2, <1>3, <1>4, <1>6

\* MCP and vector search: the steps before the items, then two for each item.
LEMMA McpKind ==
  ASSUME EffectConstants, kind = "mcp"
  PROVE  /\ Effect!Count = Items /\ Effect!Places = 3 + 2 * Items
         /\ \A p \in 1..Effect!Places : Effect!StepAt(p) \in {"check", "soft", "post"}
         /\ \A p \in 1..Effect!Places : Effect!StepAt(p) = "post" =>
              Effect!ItemAt(p) \in 1..Items
         /\ \A i \in 1..Items : /\ 3 + 2 * i \in 1..Effect!Places
                                /\ Effect!StepAt(3 + 2 * i) = "post"
                                /\ Effect!ItemAt(3 + 2 * i) = i
<1>1. Effect!Prologue = <<"check", "soft", "check">> /\ Effect!Count = Items
  BY DEF Effect!Prologue, Effect!Count, Effect!RefuseIfMutating
<1>2. Effect!PerItem = <<"check", "post">>
  BY DEF Effect!PerItem, Effect!McpCall
<1>3. Effect!Places = 3 + 2 * Items
  BY <1>1, <1>2 DEF Effect!Places, EffectConstants
<1>4. ASSUME NEW p \in 1..Effect!Places, p <= 3
      PROVE  Effect!StepAt(p) \in {"check", "soft"}
  BY <1>1, <1>3, <1>4 DEF Effect!StepAt, EffectConstants
<1>5. ASSUME NEW p \in 1..Effect!Places, p > 3
      PROVE  /\ Effect!ItemAt(p) = 1 + ((p - 4) \div 2)
             /\ Effect!StepAt(p) = IF (p - 4) % 2 = 0 THEN "check" ELSE "post"
  <2>1. p \in Nat
    BY <1>3 DEF EffectConstants
  <2>2. ~(p <= Len(Effect!Prologue)) /\ p - Len(Effect!Prologue) - 1 = p - 4
        /\ Len(Effect!PerItem) = 2
    BY <1>1, <1>2, <1>5, <2>1
  <2>3. Effect!ItemAt(p) = 1 + ((p - 4) \div 2)
    BY <2>2 DEF Effect!ItemAt
  <2>4. Effect!StepAt(p) = Effect!PerItem[1 + ((p - 4) % 2)]
    BY <2>2 DEF Effect!StepAt
  <2>5. (p - 4) % 2 \in {0, 1}
    BY <2>1
  <2> QED
    BY <1>2, <2>3, <2>4, <2>5
<1>6. \A p \in 1..Effect!Places : Effect!StepAt(p) \in {"check", "soft", "post"}
  <2> SUFFICES ASSUME NEW p \in 1..Effect!Places
               PROVE  Effect!StepAt(p) \in {"check", "soft", "post"}
    OBVIOUS
  <2>1. p <= 3 \/ p > 3
    BY <1>3 DEF EffectConstants
  <2> QED
    BY <1>4, <1>5, <2>1
<1>7. ASSUME NEW p \in 1..Effect!Places, Effect!StepAt(p) = "post"
      PROVE  Effect!ItemAt(p) \in 1..Items
  <2>1. p \in Nat /\ p > 3 /\ p <= 3 + 2 * Items /\ Items \in Nat
    BY <1>3, <1>4, <1>7 DEF EffectConstants
  <2>2. 1 + ((p - 4) \div 2) \in 1..Items
    BY <2>1
  <2> QED
    BY <1>5, <2>1, <2>2
<1>8. ASSUME NEW i \in 1..Items
      PROVE  /\ 3 + 2 * i \in 1..Effect!Places
             /\ Effect!StepAt(3 + 2 * i) = "post"
             /\ Effect!ItemAt(3 + 2 * i) = i
  <2>1. 3 + 2 * i \in 1..Effect!Places /\ 3 + 2 * i > 3
    BY <1>3 DEF EffectConstants
  <2>2. ((3 + 2 * i) - 4) \div 2 = i - 1 /\ ((3 + 2 * i) - 4) % 2 = 1
    BY DEF EffectConstants
  <2>3. 1 + (i - 1) = i
    BY DEF EffectConstants
  <2> QED
    BY <1>5, <2>1, <2>2, <2>3
<1> QED
  BY <1>1, <1>3, <1>6, <1>7, <1>8

LEMMA VectorKind ==
  ASSUME EffectConstants, kind = "vector"
  PROVE  /\ Effect!Count = Items /\ Effect!Places = 2 + 2 * Items
         /\ \A p \in 1..Effect!Places : Effect!StepAt(p) \in {"check", "call"}
<1>1. Effect!Prologue = <<"check", "check">> /\ Effect!Count = Items
  BY DEF Effect!Prologue, Effect!Count, Effect!VectorCheck
<1>2. Effect!PerItem = <<"call", "call">>
  BY DEF Effect!PerItem, Effect!VectorSearch
<1>3. Effect!Places = 2 + 2 * Items
  BY <1>1, <1>2 DEF Effect!Places, EffectConstants
<1>4. ASSUME NEW p \in 1..Effect!Places
      PROVE  Effect!StepAt(p) \in {"check", "call"}
  <2>1. p \in Nat /\ p >= 1
    BY <1>3 DEF EffectConstants
  <2>2. CASE p <= 2
    BY <1>1, <2>1, <2>2 DEF Effect!StepAt
  <2>3. CASE p > 2
    <3>1. Effect!StepAt(p) = Effect!PerItem[1 + ((p - 2 - 1) % 2)]
      BY <1>1, <1>2, <2>1, <2>3 DEF Effect!StepAt
    <3>2. (p - 2 - 1) % 2 \in {0, 1}
      BY <2>1
    <3> QED
      BY <1>2, <3>1, <3>2
  <2> QED
    BY <2>1, <2>2, <2>3
<1> QED
  BY <1>1, <1>3, <1>4
\* What the steps of a kind have in common.
HasEffect(p) == Effect!StepAt(p) \in Effect!Effects
LEMMA KindFacts ==
  ASSUME EffectConstants, kind \in NodeKinds
  PROVE  /\ Effect!Count \in Nat /\ Effect!Places \in Nat
         /\ \A p \in 1..Effect!Places : HasEffect(p) => Effect!ItemAt(p) \in 1..Effect!Count
         /\ (\E p \in 1..Effect!Places : HasEffect(p)) =>
              \A i \in 1..Effect!Count : \E p \in 1..Effect!Places :
                HasEffect(p) /\ Effect!ItemAt(p) = i
         /\ Effect!SideEffecting(kind) =>
              /\ Effect!Count = 1
              /\ \A p, q \in 1..Effect!Places : HasEffect(p) /\ HasEffect(q) => p = q
         /\ \A p \in 1..Effect!Places :
              /\ Effect!StepAt(p) = "fire" => kind = "webhook"
              /\ Effect!StepAt(p) \in {"mail", "seen", "mark"} => kind = "email"
<1> USE DEF Effect!Effects, Effect!Threaded, HasEffect
<1>1. CASE kind \in Plain
  <2>1. /\ Effect!Count = 1 /\ Effect!Places \in 1..4
        /\ \A p \in 1..Effect!Places : Effect!ItemAt(p) = 1
    BY <1>1, PlainKind
  <2>2. \A p \in 1..Len(Effect!PerItem) :
          /\ Effect!PerItem[p] = "fire" => kind = "webhook"
          /\ Effect!PerItem[p] \in {"mail", "seen", "mark"} => kind = "email"
    BY <1>1 DEF Plain, Effect!PerItem, Effect!SqlWriter, Effect!SqlNothing, Effect!PdfExport, Effect!PdfInline,
         Effect!ExcelExport, Effect!CsvExport, Effect!EmailSender, Effect!FileDownload,
         Effect!BucketWriter, Effect!SftpWriter, Effect!WebhookOut, Effect!Notify,
         Effect!StateSet, Effect!StateGet, Effect!SqlSource, Effect!MongoSource,
         Effect!ApiPost
  <2>3. \A p, q \in 1..Len(Effect!PerItem) :
          Effect!PerItem[p] \in Effect!Effects /\ Effect!PerItem[q] \in Effect!Effects => p = q
    BY <1>1 DEF Plain, Effect!PerItem, Effect!SqlWriter, Effect!SqlNothing, Effect!PdfExport, Effect!PdfInline,
         Effect!ExcelExport, Effect!CsvExport, Effect!EmailSender, Effect!FileDownload,
         Effect!BucketWriter, Effect!SftpWriter, Effect!WebhookOut, Effect!Notify,
         Effect!StateSet, Effect!StateGet, Effect!SqlSource, Effect!MongoSource,
         Effect!ApiPost
  <2>4. /\ Effect!Places = Len(Effect!PerItem)
        /\ \A p \in 1..Effect!Places : Effect!StepAt(p) = Effect!PerItem[p]
    BY <1>1, PlainKind
  <2> HIDE DEF Effect!Effects
  <2>5. \A p, q \in 1..Effect!Places : HasEffect(p) /\ HasEffect(q) => p = q
    BY <2>3, <2>4
  <2>6. \A p \in 1..Effect!Places :
          /\ Effect!StepAt(p) = "fire" => kind = "webhook"
          /\ Effect!StepAt(p) \in {"mail", "seen", "mark"} => kind = "email"
    BY <2>2, <2>4
  <2>7. \A i \in 1..Effect!Count : i = 1
    BY <2>1
  <2>8. Effect!Count \in Nat /\ Effect!Places \in Nat /\ 1 \in 1..Effect!Count
    BY <2>1
  <2> QED
    BY <2>1, <2>5, <2>6, <2>7, <2>8
<1>2. CASE kind = "mcp"
  <2>1. ~Effect!SideEffecting(kind)
    BY <1>2 DEF Effect!SideEffecting
  <2>2. /\ Effect!Count = Items /\ Effect!Places = 3 + 2 * Items
        /\ \A p \in 1..Effect!Places : Effect!StepAt(p) \in {"check", "soft", "post"}
        /\ \A p \in 1..Effect!Places : Effect!StepAt(p) = "post" =>
             Effect!ItemAt(p) \in 1..Items
    BY <1>2, McpKind
  <2>3. \A i \in 1..Items : \E p \in 1..Effect!Places :
          Effect!StepAt(p) = "post" /\ Effect!ItemAt(p) = i
    BY <1>2, McpKind
  <2>4. Effect!Count \in Nat /\ Effect!Places \in Nat
    BY <2>2 DEF EffectConstants
  <2> QED
    BY <2>1, <2>2, <2>3, <2>4
<1>3. CASE kind = "vector"
  <2>1. ~Effect!SideEffecting(kind)
    BY <1>3 DEF Effect!SideEffecting
  <2>2. /\ Effect!Count = Items /\ Effect!Places = 2 + 2 * Items
        /\ \A p \in 1..Effect!Places : Effect!StepAt(p) \in {"check", "call"}
    BY <1>3, VectorKind
  <2>3. Effect!Count \in Nat /\ Effect!Places \in Nat
    BY <2>2 DEF EffectConstants
  <2> QED
    BY <2>1, <2>2, <2>3
<1> QED
  BY <1>1, <1>2, <1>3 DEF EffectConstants

\* The email node, step by step.
LEMMA EmailKind ==
  ASSUME kind = "email"
  PROVE  /\ Effect!Places = 4 /\ Effect!Count = 1 /\ Effect!SideEffecting(kind)
         /\ Effect!StepAt(1) = "check" /\ Effect!StepAt(2) = "seen"
         /\ Effect!StepAt(3) = "mail" /\ Effect!StepAt(4) = "mark"
         /\ Effect!ItemAt(3) = 1
<1>1. Effect!PerItem = <<"check", "seen", "mail", "mark">>
  BY DEF Effect!PerItem, Effect!EmailSender
<1>2. kind \in Plain /\ Effect!SideEffecting(kind)
  BY DEF Plain, Effect!SideEffecting
<1>3. Effect!Places = 4
  BY <1>1, <1>2, PlainKind
<1>4. \A p \in 1..4 : Effect!ItemAt(p) = 1 /\ Effect!StepAt(p) = Effect!PerItem[p]
  BY <1>2, <1>3, PlainKind
<1> QED
  BY <1>1, <1>2, <1>3, <1>4, PlainKind

\* A node does not change its kind.
LEMMA SameKind ==
  ASSUME kind' = kind
  PROVE  /\ Effect!Places' = Effect!Places /\ Effect!Count' = Effect!Count
         /\ \A p : /\ Effect!StepAt(p)' = Effect!StepAt(p)
                   /\ Effect!ItemAt(p)' = Effect!ItemAt(p)
                   /\ HasEffect(p)' = HasEffect(p)
BY DEF Effect!Places, Effect!Count, Effect!StepAt, Effect!ItemAt, HasEffect,
       Effect!Prologue, Effect!PerItem

-----------------------------------------------------------------------------
RunRecords ==
  [pc : {"waiting", "running", "done"}, attempt : 0..NodeRetries, place : 1..Effect!Places + 1,
   cached : BOOLEAN, status : {"none", "completed", "failed", "lost"},
   subject : Effect!Subjects(kind)]
FlawRecords ==
  [lost : Nat, soft : BOOLEAN, overlap : BOOLEAN, expired : BOOLEAN, used : 0..EffectFaults]

EffectType ==
  /\ kind \in NodeKinds
  /\ run \in [Dispatches -> RunRecords]
  /\ landed \in [Dispatches -> [1..Effect!Count -> Nat]]
  /\ marker \subseteq Effect!Subjects(kind)
  /\ late \subseteq Dispatches \X (1..Effect!Count)
  /\ flaws \in FlawRecords

\* A delivery has behind it what it passed, a completed one all there was.
Behind(d) ==
  /\ run[d].pc = "waiting" => run[d] = Effect!Fresh(run[d].subject)
  /\ run[d].pc # "done" =>
       \A p \in 1..Effect!Places : p < run[d].place /\ HasEffect(p) =>
         landed[d][Effect!ItemAt(p)] >= 1 \/ (kind = "webhook" /\ flaws.soft)
  /\ run[d].status = "completed" =>
       /\ run[d].pc = "done"
       /\ \/ \A p \in 1..Effect!Places :
               HasEffect(p) => landed[d][Effect!ItemAt(p)] >= 1
          \/ kind = "webhook" /\ flaws.soft
          \/ kind = "email"

\* A delivery of a writer or sender did nothing before its one effect.
Single(d) ==
  /\ run[d].attempt = 0 /\ landed[d][1] <= 1
  /\ <<d, 1>> \in late => run[d].pc = "done" /\ landed[d][1] = 0
  /\ run[d].pc # "done" /\ (\A p \in 1..Effect!Places : p < run[d].place => ~HasEffect(p))
       => landed[d][1] = 0

\* Deliveries of an email that did not overlap, lost nothing on the way and found
\* the marker as long as it was needed.
Clean(f) == ~f.overlap /\ f.lost = 0 /\ ~f.expired

\* No other delivery sent an email with the subject of this one.
Unsent(d) ==
  \A e \in Dispatches : e # d /\ run[e].subject = run[d].subject => landed[e][1] = 0
OneByOne ==
  /\ \A d, e \in Dispatches : run[d].pc = "running" /\ run[e].pc = "running" => d = e
  /\ \A d \in Dispatches :
       /\ run[d].cached
       /\ landed[d][1] # 0 =>
            run[d].subject \in marker \/ (run[d].pc = "running" /\ run[d].place = 4)
       /\ run[d].pc = "running" /\ run[d].place = 3 => Unsent(d)
       /\ landed[d][1] # 0 => Unsent(d)

EffectInv ==
  /\ EffectType
  /\ \A d \in Dispatches : Behind(d)
  /\ Effect!SideEffecting(kind) => \A d \in Dispatches : Single(d)
  /\ kind = "email" => late = {} /\ (Clean(flaws) => OneByOne)
EmailPart ==
  kind = "email" => late = {} /\ (Clean(flaws) => OneByOne)

LEMMA EffectFacts ==
  ASSUME EffectConstants, EffectInv
  PROVE  /\ EffectType /\ NodeRetries \in Nat /\ EffectFaults \in Nat
         /\ Effect!Count \in Nat /\ Effect!Places \in Nat
         /\ \A p \in 1..Effect!Places : HasEffect(p) => Effect!ItemAt(p) \in 1..Effect!Count
         /\ Effect!SideEffecting(kind) =>
              /\ Effect!Count = 1
              /\ \A p, q \in 1..Effect!Places : HasEffect(p) /\ HasEffect(q) => p = q
BY KindFacts DEF EffectInv, EffectType, EffectConstants

\* What the step of one delivery leaves of the others.
Moves(d, u) ==
  /\ kind' = kind /\ u \in RunRecords /\ run' = [run EXCEPT ![d] = u]
  /\ landed' \in [Dispatches -> [1..Effect!Count -> Nat]]
  /\ \A e \in Dispatches : e # d => landed'[e] = landed[e]
  /\ late' \subseteq Dispatches \X (1..Effect!Count)
  /\ \A e \in Dispatches : e # d => (<<e, 1>> \in late' <=> <<e, 1>> \in late)
  /\ marker' \subseteq Effect!Subjects(kind)
  /\ flaws' \in FlawRecords /\ (flaws.soft => flaws'.soft)

LEMMA OneMoves ==
  ASSUME EffectConstants, EffectInv, NEW d \in Dispatches, NEW u, Moves(d, u),
         Behind(d)', Effect!SideEffecting(kind) => Single(d)', EmailPart'
  PROVE  EffectInv'
<1> USE EffectFacts DEF Moves
<1>1. /\ Effect!Places' = Effect!Places /\ Effect!Count' = Effect!Count
      /\ \A p : /\ Effect!ItemAt(p)' = Effect!ItemAt(p)
                /\ HasEffect(p)' = HasEffect(p)
  BY SameKind
<1>2. run \in [Dispatches -> RunRecords] /\ RunRecords' = RunRecords
  BY <1>1 DEF EffectType, RunRecords, Effect!Subjects
<1>3. EffectType'
  BY <1>1, <1>2 DEF EffectType, FlawRecords, Effect!Subjects
<1>4. ASSUME NEW e \in Dispatches, e # d
      PROVE  /\ Behind(e)'
             /\ Effect!SideEffecting(kind) => Single(e)'
  <2>1. run'[e] = run[e] /\ landed'[e] = landed[e] /\ (<<e, 1>> \in late' <=> <<e, 1>> \in late)
    BY <1>2, <1>4
  <2>2. Behind(e)'
    <3>1. Behind(e)
      BY DEF EffectInv
    <3>2. \A x : Effect!Fresh(x)' = Effect!Fresh(x)
      BY DEF Effect!Fresh
    <3> QED
      BY <1>1, <2>1, <3>1, <3>2 DEF Behind, Effect!Fresh
  <2>3. ASSUME Effect!SideEffecting(kind) PROVE Single(e)'
    <3>1. Single(e)
      BY <2>3 DEF EffectInv
    <3> QED
      BY <1>1, <2>1, <3>1 DEF Single
  <2> QED
    BY <2>2, <2>3
<1>5. Effect!SideEffecting(kind)' = Effect!SideEffecting(kind)
  BY DEF Effect!SideEffecting
<1> QED
  BY <1>3, <1>4, <1>5 DEF EffectInv, EmailPart

\* An effect that lands: only its own count grows; that of a writer or sender
\* was 0.
LEMMA Lands ==
  ASSUME EffectConstants, EffectInv, NEW d \in Dispatches, run[d].pc = "running",
         run[d].place <= Effect!Places, HasEffect(run[d].place), Effect!Land(d)
  PROVE  /\ landed' \in [Dispatches -> [1..Effect!Count -> Nat]]
         /\ \A e \in Dispatches : e # d => landed'[e] = landed[e]
         /\ landed'[d][Effect!ItemAt(run[d].place)] >= 1
         /\ \A i \in 1..Effect!Count : landed'[d][i] >= landed[d][i]
         /\ Effect!SideEffecting(kind) => landed'[d][1] = 1
<1> USE EffectFacts
<1>1. run[d].place \in 1..Effect!Places
  BY DEF EffectType, RunRecords
<1>2. PICK j : j = Effect!ItemAt(run[d].place)
  OBVIOUS
<1>3. j \in 1..Effect!Count
  BY <1>1, <1>2
<1>4. landed \in [Dispatches -> [1..Effect!Count -> Nat]]
  BY DEF EffectType
<1>5. landed[d] \in [1..Effect!Count -> Nat] /\ landed[d][j] \in Nat
  BY <1>3, <1>4
<1>6. PICK n : n = landed[d][j] + 1
  OBVIOUS
<1>7. n \in Nat /\ n >= 1 /\ n >= landed[d][j]
  BY <1>5, <1>6
<1>8. PICK f : f = [landed[d] EXCEPT ![j] = n]
  OBVIOUS
<1>9. landed' = [landed EXCEPT ![d] = f]
  BY <1>2, <1>6, <1>8 DEF Effect!Land
<1>10. /\ f \in [1..Effect!Count -> Nat] /\ f[j] = n
       /\ \A i \in 1..Effect!Count : i # j => f[i] = landed[d][i]
  BY <1>3, <1>5, <1>7, <1>8
<1>11. landed' \in [Dispatches -> [1..Effect!Count -> Nat]] /\ landed'[d] = f
  BY <1>4, <1>9, <1>10
<1>12. \A e \in Dispatches : e # d => landed'[e] = landed[e]
  BY <1>4, <1>9
<1>13. \A i \in 1..Effect!Count : landed'[d][i] >= landed[d][i]
  BY <1>5, <1>7, <1>10, <1>11
<1>14. ASSUME Effect!SideEffecting(kind) PROVE landed'[d][1] = 1
  <2>1. j = 1
    BY <1>3, <1>14
  <2>2. \A p \in 1..Effect!Places : p < run[d].place => ~HasEffect(p)
    BY <1>1, <1>14
  <2>3. landed[d][1] = 0
    BY <1>14, <2>2 DEF EffectInv, Single
  <2> QED
    BY <1>6, <1>10, <1>11, <2>1, <2>3
<1> QED
  BY <1>2, <1>7, <1>10, <1>11, <1>12, <1>13, <1>14
\* What every step of a delivery leaves alone or only turns on.
Around ==
  /\ kind' = kind /\ marker' \subseteq Effect!Subjects(kind)
  /\ flaws' \in FlawRecords /\ (flaws.soft => flaws'.soft)

\* A step that is passed: its effect landed, or a webhook's was swallowed.
LEMMA OnwardStep ==
  ASSUME EffectConstants, EffectInv, NEW d \in Dispatches, NEW u \in RunRecords,
         run[d].pc = "running", run[d].place <= Effect!Places,
         u.pc = "running", u.place = run[d].place + 1, u.attempt = run[d].attempt,
         u.status = run[d].status, run' = [run EXCEPT ![d] = u],
         Around, late' = late, EmailPart',
         \/ HasEffect(run[d].place) /\ Effect!Land(d)
         \/ landed' = landed /\ (HasEffect(run[d].place) => kind = "webhook" /\ flaws'.soft)
  PROVE  EffectInv'
<1> USE EffectFacts DEF Around
<1>1. /\ Effect!Places' = Effect!Places
      /\ \A p : /\ Effect!ItemAt(p)' = Effect!ItemAt(p)
                /\ HasEffect(p)' = HasEffect(p)
  BY SameKind
<1>2. /\ run[d].place \in 1..Effect!Places /\ run[d].status # "completed"
      /\ run'[d] = u /\ Behind(d)
  BY DEF EffectType, RunRecords, EffectInv, Behind
<1>3. /\ landed' \in [Dispatches -> [1..Effect!Count -> Nat]]
      /\ \A e \in Dispatches : e # d => landed'[e] = landed[e]
      /\ \A i \in 1..Effect!Count : landed'[d][i] >= landed[d][i]
      /\ HasEffect(run[d].place) =>
           \/ landed'[d][Effect!ItemAt(run[d].place)] >= 1
           \/ kind = "webhook" /\ flaws'.soft
  <2>1. CASE HasEffect(run[d].place) /\ Effect!Land(d)
    BY <2>1, Lands
  <2>2. CASE landed' = landed /\ (HasEffect(run[d].place) => kind = "webhook" /\ flaws'.soft)
    <3>1. /\ landed' \in [Dispatches -> [1..Effect!Count -> Nat]]
          /\ \A i \in 1..Effect!Count : landed[d][i] \in Nat
      BY <2>2 DEF EffectType
    <3>2. \A i \in 1..Effect!Count : landed'[d][i] >= landed[d][i]
      BY <2>2, <3>1
    <3> QED
      BY <2>2, <3>1, <3>2
  <2> QED
    BY <2>1, <2>2
<1>4. Moves(d, u)
  BY <1>3 DEF Moves, EffectType
<1>5. Behind(d)'
  <2>1. ASSUME NEW p \in 1..Effect!Places, p < u.place, HasEffect(p)
        PROVE  landed'[d][Effect!ItemAt(p)] >= 1 \/ (kind = "webhook" /\ flaws'.soft)
    <3>1. CASE p = run[d].place
      BY <1>3, <2>1, <3>1
    <3>2. CASE p < run[d].place
      <4>1. landed[d][Effect!ItemAt(p)] >= 1 \/ (kind = "webhook" /\ flaws.soft)
        BY <1>2, <2>1, <3>2 DEF Behind
      <4>2. /\ landed'[d][Effect!ItemAt(p)] >= landed[d][Effect!ItemAt(p)]
            /\ landed'[d][Effect!ItemAt(p)] \in Nat /\ landed[d][Effect!ItemAt(p)] \in Nat
        BY <1>3, <2>1 DEF EffectType
      <4> QED
        BY <4>1, <4>2
    <3> QED
      BY <1>2, <2>1, <3>1, <3>2
  <2> QED
    BY <1>1, <1>2, <2>1 DEF Behind
<1>6. ASSUME Effect!SideEffecting(kind) PROVE Single(d)'
  <2>1. Single(d)
    BY <1>6 DEF EffectInv
  <2>2. CASE HasEffect(run[d].place) /\ Effect!Land(d)
    <3>1. landed'[d][1] = 1 /\ run[d].place < u.place
      BY <1>2, <1>6, <2>2, Lands
    <3> QED
      BY <1>1, <1>2, <2>1, <2>2, <3>1 DEF Single
  <2>3. CASE landed' = landed
    <3>1. (\A p \in 1..Effect!Places : p < u.place => ~HasEffect(p)) =>
            \A p \in 1..Effect!Places : p < run[d].place => ~HasEffect(p)
      BY <1>2
    <3> QED
      BY <1>1, <1>2, <2>1, <2>3, <3>1 DEF Single
  <2> QED
    BY <2>2, <2>3
<1> QED
  BY <1>4, <1>5, <1>6, OneMoves

\* A delivery that ends: its last effect landed, did not, or is in a thread.
LEMMA EndStep ==
  ASSUME EffectConstants, EffectInv, NEW d \in Dispatches, NEW u \in RunRecords,
         run[d].pc = "running", run[d].place <= Effect!Places,
         u.pc = "done", u.attempt = run[d].attempt, run' = [run EXCEPT ![d] = u],
         u.status = "completed" => kind = "email",
         Around, EmailPart',
         \/ HasEffect(run[d].place) /\ Effect!Land(d) /\ late' = late
         \/ landed' = landed /\ late' = late
         \/ /\ HasEffect(run[d].place) /\ landed' = landed
            /\ late' = late \cup {<<d, Effect!ItemAt(run[d].place)>>}
  PROVE  EffectInv'
<1> USE EffectFacts DEF Around
<1>1. /\ Effect!Places' = Effect!Places
      /\ \A p : /\ Effect!ItemAt(p)' = Effect!ItemAt(p)
                /\ HasEffect(p)' = HasEffect(p)
  BY SameKind
<1>2. run[d].place \in 1..Effect!Places /\ run'[d] = u
  BY DEF EffectType, RunRecords
<1>3. /\ landed' \in [Dispatches -> [1..Effect!Count -> Nat]]
      /\ \A e \in Dispatches : e # d => landed'[e] = landed[e]
  <2>1. CASE HasEffect(run[d].place) /\ Effect!Land(d)
    BY <2>1, Lands
  <2>2. CASE landed' = landed
    BY <2>2 DEF EffectType
  <2> QED
    BY <2>1, <2>2
<1>4. /\ late' \subseteq Dispatches \X (1..Effect!Count)
      /\ \A e \in Dispatches : e # d => (<<e, 1>> \in late' <=> <<e, 1>> \in late)
  BY <1>2 DEF EffectType
<1>5. Moves(d, u)
  BY <1>3, <1>4 DEF Moves
<1>6. Behind(d)'
  BY <1>1, <1>2 DEF Behind
<1>7. ASSUME Effect!SideEffecting(kind) PROVE Single(d)'
  <2>1. Single(d) /\ <<d, 1>> \notin late
    BY <1>7 DEF EffectInv, Single
  <2>2. CASE HasEffect(run[d].place) /\ Effect!Land(d) /\ late' = late
    <3>1. landed'[d][1] = 1
      BY <1>7, <2>2, Lands
    <3> QED
      BY <1>2, <2>1, <2>2, <3>1 DEF Single
  <2>3. CASE landed' = landed /\ late' = late
    BY <1>2, <2>1, <2>3 DEF Single
  <2>4. CASE HasEffect(run[d].place) /\ landed' = landed
    <3>1. \A p \in 1..Effect!Places : p < run[d].place => ~HasEffect(p)
      BY <1>2, <1>7, <2>4
    <3>2. landed[d][1] = 0
      BY <2>1, <3>1 DEF Single
    <3> QED
      BY <1>2, <2>1, <2>4, <3>2 DEF Single
  <2> QED
    BY <2>2, <2>3, <2>4
<1> QED
  BY <1>5, <1>6, <1>7, OneMoves

\* execute raised: a writer or sender fails, another node may begin again.
LEMMA RaiseStep ==
  ASSUME EffectConstants, EffectInv, NEW d \in Dispatches, Effect!Raises(d),
         run[d].pc = "running", run[d].place <= Effect!Places,
         Around, late' = late, EmailPart',
         (HasEffect(run[d].place) /\ Effect!Land(d)) \/ landed' = landed
  PROVE  EffectInv'
<1> USE EffectFacts
<1>1. run[d] \in RunRecords /\ run[d].place \in 1..Effect!Places
  BY DEF EffectType, RunRecords
<1>2. CASE run[d].attempt < Effect!Retries(kind)
  <2>1. PICK n : n = run[d].attempt + 1
    OBVIOUS
  <2>2. PICK u : u = [run[d] EXCEPT !.attempt = n, !.place = 1]
    OBVIOUS
  <2>3. ~Effect!SideEffecting(kind) /\ n \in 0..NodeRetries
    BY <1>1, <1>2, <2>1 DEF Effect!Retries, RunRecords
  <2>4. u \in RunRecords /\ u.place = 1 /\ u.pc = "running" /\ u.status = run[d].status
    <3>1. 1 \in 1..Effect!Places + 1
      OBVIOUS
    <3>2. u \in RunRecords
      BY <1>1, <2>2, <2>3, <3>1 DEF RunRecords
    <3> QED
      BY <1>1, <2>2, <3>2 DEF RunRecords
  <2>5. run' = [run EXCEPT ![d] = u] /\ run'[d] = u
    BY <1>2, <2>1, <2>2 DEF Effect!Raises, EffectType
  <2>6. /\ landed' \in [Dispatches -> [1..Effect!Count -> Nat]]
        /\ \A e \in Dispatches : e # d => landed'[e] = landed[e]
    <3>1. CASE HasEffect(run[d].place) /\ Effect!Land(d)
      BY <3>1, Lands
    <3>2. CASE landed' = landed
      BY <3>2 DEF EffectType
    <3> QED
      BY <3>1, <3>2
  <2>7. Moves(d, u)
    BY <2>4, <2>5, <2>6 DEF Moves, Around, EffectType
  <2>8. run[d].status # "completed"
    BY DEF EffectInv, Behind
  <2>9. Behind(d)'
    <3>1. \A p \in 1..Effect!Places' : ~(p < run'[d].place)
      BY <2>4, <2>5, SameKind DEF Around
    <3> QED
      BY <2>4, <2>5, <2>8, <3>1 DEF Behind
  <2> QED
    BY <2>3, <2>7, <2>9, OneMoves
<1>3. CASE ~(run[d].attempt < Effect!Retries(kind))
  <2>1. PICK u : u = [run[d] EXCEPT !.pc = "done", !.status = "failed"]
    OBVIOUS
  <2>2. /\ u \in RunRecords /\ u.pc = "done" /\ u.attempt = run[d].attempt
        /\ u.status # "completed"
    BY <1>1, <2>1 DEF RunRecords
  <2>3. run' = [run EXCEPT ![d] = u]
    BY <1>3, <2>1 DEF Effect!Raises
  <2> HIDE EffectFacts
  <2> QED
    BY <2>2, <2>3, EndStep
<1> QED
  BY <1>2, <1>3
\* A record that moves on by one place, or ends.
LEMMA NextPlace ==
  ASSUME EffectConstants, EffectInv, NEW d \in Dispatches, run[d].pc = "running",
         run[d].place <= Effect!Places, NEW c \in BOOLEAN
  PROVE  /\ [run[d] EXCEPT !.place = @ + 1, !.cached = c] \in RunRecords
         /\ [run[d] EXCEPT !.place = @ + 1] =
              [run[d] EXCEPT !.place = @ + 1, !.cached = run[d].cached]
<1>1. run[d] \in RunRecords /\ run[d].place \in 1..Effect!Places /\ Effect!Places \in Nat
  BY EffectFacts DEF EffectType, RunRecords
<1>2. PICK n : n = run[d].place + 1
  OBVIOUS
<1>3. n \in 1..Effect!Places + 1
  BY <1>1, <1>2
<1>4. [run[d] EXCEPT !.place = n, !.cached = c] \in RunRecords
  BY <1>1, <1>3 DEF RunRecords
<1> QED
  BY <1>1, <1>2, <1>4 DEF RunRecords

\* One place on: the shape of most steps.
LEMMA Passes ==
  ASSUME EffectConstants, EffectInv, NEW d \in Dispatches, NEW c \in BOOLEAN,
         run[d].pc = "running", run[d].place <= Effect!Places,
         run' = [run EXCEPT ![d] = [run[d] EXCEPT !.place = @ + 1, !.cached = c]],
         Around, late' = late, EmailPart',
         \/ HasEffect(run[d].place) /\ Effect!Land(d)
         \/ landed' = landed /\ (HasEffect(run[d].place) => kind = "webhook" /\ flaws'.soft)
  PROVE  EffectInv'
<1>1. PICK u : u = [run[d] EXCEPT !.place = @ + 1, !.cached = c]
  OBVIOUS
<1>2. /\ u \in RunRecords /\ u.pc = "running" /\ u.place = run[d].place + 1
      /\ u.attempt = run[d].attempt /\ u.status = run[d].status
      /\ run' = [run EXCEPT ![d] = u]
  <2>1. run[d] \in RunRecords
    BY EffectFacts DEF EffectType
  <2> QED
    BY <1>1, <2>1, NextPlace DEF RunRecords
<1> QED
  BY <1>2, OnwardStep

LEMMA OnwardPasses ==
  ASSUME EffectConstants, EffectInv, NEW d \in Dispatches, Effect!Onward(d),
         run[d].pc = "running", run[d].place <= Effect!Places,
         Around, late' = late, EmailPart',
         \/ HasEffect(run[d].place) /\ Effect!Land(d)
         \/ landed' = landed /\ (HasEffect(run[d].place) => kind = "webhook" /\ flaws'.soft)
  PROVE  EffectInv'
<1>1. run[d].cached \in BOOLEAN /\ run \in [Dispatches -> RunRecords]
  BY EffectFacts DEF EffectType, RunRecords
<1>2. run' = [run EXCEPT ![d] = [run[d] EXCEPT !.place = @ + 1]]
  BY <1>1 DEF Effect!Onward
<1>3. run' = [run EXCEPT ![d] = [run[d] EXCEPT !.place = @ + 1, !.cached = run[d].cached]]
  BY <1>1, <1>2, NextPlace
<1> QED
  BY <1>1, <1>3, Passes

\* A fault more is within its bound, and takes nothing back.
LEMMA FaultCounted ==
  ASSUME EffectConstants, EffectInv, Effect!Fault,
         \/ flaws' = Effect!Faulty(flaws)
         \/ flaws' = [Effect!Faulty(flaws) EXCEPT !.lost = @ + 1]
         \/ flaws' = [Effect!Faulty(flaws) EXCEPT !.soft = TRUE]
         \/ flaws' = [Effect!Faulty(flaws) EXCEPT !.soft = TRUE, !.lost = @ + 1]
  PROVE  flaws' \in FlawRecords /\ (flaws.soft => flaws'.soft)
<1>1. flaws \in FlawRecords /\ EffectFaults \in Nat
  BY EffectFacts DEF EffectType
<1>2. PICK n, m : n = flaws.used + 1 /\ m = flaws.lost + 1
  OBVIOUS
<1>3. n \in 0..EffectFaults /\ m \in Nat
  BY <1>1, <1>2 DEF FlawRecords, Effect!Fault
<1>4. PICK g : g = [flaws EXCEPT !.used = n]
  OBVIOUS
<1>5. g \in FlawRecords /\ g.lost = flaws.lost /\ g.soft = flaws.soft
  BY <1>1, <1>3, <1>4 DEF FlawRecords
<1>6. Effect!Faulty(flaws) = g
  BY <1>2, <1>4 DEF Effect!Faulty
<1>7. \/ flaws' = g
      \/ flaws' = [g EXCEPT !.lost = m]
      \/ flaws' = [g EXCEPT !.soft = TRUE]
      \/ flaws' = [g EXCEPT !.soft = TRUE, !.lost = m]
  BY <1>2, <1>5, <1>6
<1>8. CASE flaws' = g
  BY <1>5, <1>8
<1>9. CASE flaws' = [g EXCEPT !.lost = m]
  BY <1>3, <1>5, <1>9 DEF FlawRecords
<1>10. CASE flaws' = [g EXCEPT !.soft = TRUE]
  BY <1>5, <1>10 DEF FlawRecords
<1>11. CASE flaws' = [g EXCEPT !.soft = TRUE, !.lost = m]
  BY <1>3, <1>5, <1>11 DEF FlawRecords
<1> QED
  BY <1>7, <1>8, <1>9, <1>10, <1>11

LEMMA QuietAround ==
  ASSUME EffectConstants, EffectInv, kind' = kind,
         flaws' = flaws \/ (flaws' \in FlawRecords /\ (flaws.soft => flaws'.soft)),
         marker' \subseteq Effect!Subjects(kind)
  PROVE  Around
BY EffectFacts DEF Around, EffectType
-----------------------------------------------------------------------------
\* Emails one by one: the delivery that moves is the only one at work.
LEMMA OneByOneMoves ==
  ASSUME EffectConstants, EffectInv, OneByOne, NEW d \in Dispatches, NEW u \in RunRecords,
         run' = [run EXCEPT ![d] = u], u.cached,
         u.subject = run[d].subject, marker \subseteq marker',
         \A e \in Dispatches : e # d => run[e].pc # "running" /\ landed'[e] = landed[e],
         landed'[d][1] # 0 =>
           u.subject \in marker' \/ (u.pc = "running" /\ u.place = 4),
         landed'[d][1] # 0 => Unsent(d),
         u.pc = "running" /\ u.place = 3 => Unsent(d)
  PROVE  OneByOne'
<1>1. run \in [Dispatches -> RunRecords]
  BY EffectFacts DEF EffectType
<1>2. run'[d] = u /\ \A e \in Dispatches : e # d => run'[e] = run[e]
  BY <1>1
<1>3. \A e, f \in Dispatches : run'[e].pc = "running" /\ run'[f].pc = "running" => e = f
  BY <1>2
<1>4. ASSUME NEW e \in Dispatches
      PROVE  /\ run'[e].cached
             /\ landed'[e][1] # 0 =>
                  \/ run'[e].subject \in marker'
                  \/ run'[e].pc = "running" /\ run'[e].place = 4
             /\ run'[e].pc = "running" /\ run'[e].place = 3 => Unsent(e)'
             /\ landed'[e][1] # 0 => Unsent(e)'
  <2>1. CASE e = d
    <3>1. Unsent(d) => Unsent(d)'
      BY <1>2 DEF Unsent
    <3> QED
      BY <1>2, <2>1, <3>1
  <2>2. CASE e # d
    <3>1. /\ run[e].cached /\ run[e].pc # "running"
          /\ landed[e][1] # 0 => run[e].subject \in marker
          /\ landed[e][1] # 0 => Unsent(e)
      BY <2>2 DEF OneByOne
    <3>2. ASSUME landed[e][1] # 0, NEW f \in Dispatches, f # e,
                 run'[f].subject = run'[e].subject
          PROVE  landed'[f][1] = 0
      <4>1. CASE f = d
        BY <1>2, <2>2, <3>2, <4>1 DEF Unsent
      <4>2. CASE f # d
        BY <1>2, <2>2, <3>1, <3>2, <4>2 DEF Unsent
      <4> QED
        BY <4>1, <4>2
    <3>3. landed[e][1] # 0 => Unsent(e)'
      BY <3>2 DEF Unsent
    <3> QED
      BY <1>2, <2>2, <3>1, <3>3
  <2> QED
    BY <2>1, <2>2
<1> QED
  BY <1>3, <1>4 DEF OneByOne

\* What there is to show of the emails when one delivery moves.
LEMMA EmailMoves ==
  ASSUME EffectConstants, EffectInv, kind' = kind, NEW d \in Dispatches,
         kind = "email" => late' = {},
         kind = "email" /\ Clean(flaws') => Clean(flaws) /\ (OneByOne => OneByOne')
  PROVE  EmailPart'
BY DEF EmailPart, EffectInv, Clean

\* Where an email is when it takes a step, and that it is not tried again.
LEMMA EmailPlace ==
  ASSUME EffectConstants, EffectInv, kind = "email", NEW d \in Dispatches,
         run[d].pc = "running", run[d].place <= Effect!Places
  PROVE  /\ run[d] \in RunRecords /\ run \in [Dispatches -> RunRecords]
         /\ run[d].place \in 1..4 /\ run[d].attempt = 0 /\ Effect!Retries(kind) = 0
         /\ Effect!StepAt(run[d].place) = "check" => run[d].place = 1
         /\ Effect!StepAt(run[d].place) = "seen" => run[d].place = 2
         /\ Effect!StepAt(run[d].place) = "mail" => run[d].place = 3
         /\ Effect!StepAt(run[d].place) = "mark" => run[d].place = 4
         /\ Effect!StepAt(run[d].place) \in {"check", "seen", "mail", "mark"}
         /\ flaws \in FlawRecords /\ late = {}
<1>1. run[d] \in RunRecords /\ run \in [Dispatches -> RunRecords] /\ flaws \in FlawRecords
  BY EffectFacts DEF EffectType
<1>2. run[d].place \in 1..4
  BY <1>1, EmailKind DEF RunRecords
<1>3. run[d].place = 1 \/ run[d].place = 2 \/ run[d].place = 3 \/ run[d].place = 4
  BY <1>2
<1>4. run[d].attempt = 0 /\ Effect!Retries(kind) = 0 /\ late = {}
  BY EmailKind DEF EffectInv, Single, Effect!Retries
<1>5. /\ Effect!StepAt(run[d].place) = "check" => run[d].place = 1
      /\ Effect!StepAt(run[d].place) = "seen" => run[d].place = 2
      /\ Effect!StepAt(run[d].place) = "mail" => run[d].place = 3
      /\ Effect!StepAt(run[d].place) = "mark" => run[d].place = 4
      /\ Effect!StepAt(run[d].place) \in {"check", "seen", "mail", "mark"}
  BY <1>3, EmailKind
<1> QED
  BY <1>1, <1>2, <1>4, <1>5
\* What a fault does to the flaws: a lost one shows.
LEMMA FaultShows ==
  ASSUME flaws \in FlawRecords
  PROVE  /\ Effect!Faulty(flaws).lost = flaws.lost
         /\ Effect!Faulty(flaws).overlap = flaws.overlap
         /\ [Effect!Faulty(flaws) EXCEPT !.lost = @ + 1].lost # 0
         /\ [Effect!Faulty(flaws) EXCEPT !.soft = TRUE, !.lost = @ + 1].lost # 0
<1>1. PICK n, m : n = flaws.used + 1 /\ m = flaws.lost + 1
  OBVIOUS
<1>2. m # 0
  BY <1>1 DEF FlawRecords
<1>3. PICK g : g = [flaws EXCEPT !.used = n]
  OBVIOUS
<1>4. /\ g.lost = flaws.lost /\ g.overlap = flaws.overlap /\ g = Effect!Faulty(flaws)
      /\ g \in [lost : Nat, soft : BOOLEAN, overlap : BOOLEAN, expired : BOOLEAN, used : {n}]
  BY <1>1, <1>3 DEF FlawRecords, Effect!Faulty
<1>5. [g EXCEPT !.lost = m].lost = m /\ [g EXCEPT !.soft = TRUE, !.lost = m].lost = m
  BY <1>4
<1>6. g.lost + 1 = m
  BY <1>1, <1>4
<1> QED
  BY <1>2, <1>4, <1>5, <1>6

\* The email of one delivery that starts, checks or looks for the marker.
LEMMA EmailStart ==
  ASSUME EffectConstants, EffectInv, NEW d \in Dispatches, Effect!Start(d)
  PROVE  EmailPart'
<1>1. ASSUME kind = "email", Clean(flaws'), OneByOne
      PROVE  OneByOne'
  <2>1. /\ run \in [Dispatches -> RunRecords] /\ run[d] = Effect!Fresh(run[d].subject)
        /\ landed' = landed /\ marker' = marker
    BY EffectFacts DEF EffectType, EffectInv, Behind, Effect!Start
  <2>2. PICK u : u = [run[d] EXCEPT !.pc = "running"]
    OBVIOUS
  <2>3. /\ u \in RunRecords /\ u.cached /\ u.pc = "running" /\ u.place = 1
        /\ u.subject = run[d].subject /\ run' = [run EXCEPT ![d] = u]
    <3>1. run[d] \in RunRecords /\ run[d].cached /\ run[d].place = 1
      <4>1. run[d] \in RunRecords
        BY <2>1
      <4>2. \A x : Effect!Fresh(x).cached /\ Effect!Fresh(x).place = 1
        BY DEF Effect!Fresh
      <4> QED
        BY <2>1, <4>1, <4>2
    <3>2. run' = [run EXCEPT ![d].pc = "running"]
      BY DEF Effect!Start
    <3> QED
      BY <2>1, <2>2, <3>1, <3>2 DEF RunRecords
  <2>4. \A e \in Dispatches : run[e].pc # "running"
    <3>1. flaws \in FlawRecords
      BY EffectFacts DEF EffectType
    <3>2. flaws'.overlap = (flaws.overlap \/ \E e \in Dispatches : run[e].pc = "running")
      BY <3>1 DEF Effect!Start, FlawRecords
    <3> QED
      BY <1>1, <3>2 DEF Clean
  <2>5. landed'[d][1] # 0 => run[d].subject \in marker'
    BY <1>1, <2>1, <2>4 DEF OneByOne
  <2>6. landed'[d][1] # 0 => Unsent(d)
    BY <1>1, <2>1 DEF OneByOne
  <2> QED
    <3>1. \A e \in Dispatches : e # d => run[e].pc # "running" /\ landed'[e] = landed[e]
      BY <2>1, <2>4
    <3>2. marker \subseteq marker'
      BY <2>1
    <3>3. ~(u.place = 3)
      BY <2>3
    <3> QED
      BY <1>1, <2>3, <2>5, <2>6, <3>1, <3>2, <3>3, OneByOneMoves
<1>2. Clean(flaws') => Clean(flaws)
  <2>1. flaws \in FlawRecords
    BY EffectFacts DEF EffectType
  <2>2. /\ flaws'.overlap = (flaws.overlap \/ \E e \in Dispatches : run[e].pc = "running")
        /\ flaws'.lost = flaws.lost /\ flaws'.expired = flaws.expired
    BY <2>1 DEF Effect!Start, FlawRecords
  <2> QED
    BY <2>2 DEF Clean
<1>3. kind' = kind /\ (kind = "email" => late' = {})
  BY DEF Effect!Start, EffectInv
<1> QED
  BY <1>1, <1>2, <1>3, EmailMoves

\* At work, the others are not.
LEMMA EmailAlone ==
  ASSUME OneByOne, NEW d \in Dispatches, run[d].pc = "running"
  PROVE  /\ \A e \in Dispatches : e # d => run[e].pc # "running"
         /\ run[d].cached
         /\ landed[d][1] # 0 => run[d].subject \in marker \/ run[d].place = 4
         /\ landed[d][1] # 0 => Unsent(d)
         /\ run[d].place = 3 => Unsent(d)
         /\ run[d].subject \notin marker /\ run[d].place # 4 => Unsent(d)
<1>1. \A e \in Dispatches : e # d => run[e].pc # "running"
  BY DEF OneByOne
<1>2. run[d].subject \notin marker => Unsent(d)
  BY <1>1 DEF OneByOne, Unsent
<1> QED
  BY <1>1, <1>2 DEF OneByOne

LEMMA EmailCheck ==
  ASSUME EffectConstants, EffectInv, NEW d \in Dispatches, Effect!Check(d)
  PROVE  EmailPart'
<1>1. ASSUME kind = "email", OneByOne
      PROVE  OneByOne'
  <2>1. /\ run[d].pc = "running" /\ run[d].place <= Effect!Places
        /\ landed' = landed /\ marker' = marker /\ Effect!StepAt(run[d].place) = "check"
    BY DEF Effect!Check, Effect!Step
  <2>2. /\ run[d] \in RunRecords /\ run \in [Dispatches -> RunRecords] /\ run[d].place = 1
        /\ run[d].attempt = 0 /\ Effect!Retries(kind) = 0
    BY <1>1, <2>1, EmailPlace
  <2>3. PICK u : run' = [run EXCEPT ![d] = u] /\ u \in RunRecords /\ u.cached
                 /\ u.subject = run[d].subject /\ (u.pc = "running" => u.place = 2)
    <3>1. CASE Effect!Onward(d)
      <4>1. PICK u : u = [run[d] EXCEPT !.place = @ + 1]
        OBVIOUS
      <4>2. u \in RunRecords
        BY <2>1, <2>2, <4>1, NextPlace DEF RunRecords
      <4>3. u.place = 2 /\ u.cached = run[d].cached /\ u.subject = run[d].subject
        BY <2>2, <4>1 DEF RunRecords
      <4>4. run' = [run EXCEPT ![d] = u]
        BY <2>2, <3>1, <4>1 DEF Effect!Onward
      <4> QED
        BY <1>1, <2>1, <4>2, <4>3, <4>4, EmailAlone
    <3>2. CASE Effect!Raises(d)
      <4>1. PICK u : u = [run[d] EXCEPT !.pc = "done", !.status = "failed"]
        OBVIOUS
      <4>2. u \in RunRecords /\ u.pc = "done" /\ u.cached = run[d].cached /\ u.subject = run[d].subject
        BY <2>2, <4>1 DEF RunRecords
      <4>3. run' = [run EXCEPT ![d] = u]
        BY <2>2, <3>2, <4>1 DEF Effect!Raises
      <4> QED
        BY <1>1, <2>1, <4>2, <4>3, EmailAlone
    <3> QED
      BY <3>1, <3>2 DEF Effect!Check
  <2> QED
    <3>1. /\ \A e \in Dispatches : e # d => run[e].pc # "running" /\ landed'[e] = landed[e]
          /\ landed'[d][1] # 0 => run[d].subject \in marker'
          /\ landed'[d][1] # 0 => Unsent(d)
      BY <1>1, <2>1, <2>2, EmailAlone
    <3>2. marker \subseteq marker' /\ ~(u.pc = "running" /\ u.place = 3)
      BY <2>1, <2>3
    <3> QED
      BY <1>1, <2>3, <3>1, <3>2, OneByOneMoves
<1>2. /\ kind' = kind /\ (kind = "email" => late' = {}) /\ flaws' = flaws
  BY DEF Effect!Check, EffectInv
<1> QED
  BY <1>1, <1>2, EmailMoves

LEMMA EmailSeen ==
  ASSUME EffectConstants, EffectInv, NEW d \in Dispatches, Effect!Seen(d)
  PROVE  EmailPart'
<1>1. flaws \in FlawRecords
  BY EffectFacts DEF EffectType
<1>2. CASE flaws' = flaws
  <2>1. ASSUME kind = "email", OneByOne
        PROVE  OneByOne'
    <3>1. /\ run[d].pc = "running" /\ run[d].place <= Effect!Places
          /\ landed' = landed /\ marker' = marker /\ Effect!StepAt(run[d].place) = "seen"
      BY DEF Effect!Seen, Effect!Step
    <3>2. run[d] \in RunRecords /\ run \in [Dispatches -> RunRecords] /\ run[d].place = 2
      BY <2>1, <3>1, EmailPlace
    <3>3. PICK u : run' = [run EXCEPT ![d] = u] /\ u \in RunRecords /\ u.cached
                   /\ u.subject = run[d].subject
                   /\ (u.pc = "running" => run[d].subject \notin marker)
      <4>1. CASE run[d].subject \in marker /\ run' = [run EXCEPT ![d].pc = "done", ![d].status = "completed"]
        <5>1. PICK u : u = [run[d] EXCEPT !.pc = "done", !.status = "completed"]
          OBVIOUS
        <5>2. u \in RunRecords /\ u.pc = "done" /\ u.cached = run[d].cached /\ u.subject = run[d].subject
          BY <3>2, <5>1 DEF RunRecords
        <5>3. run' = [run EXCEPT ![d] = u]
          BY <3>2, <4>1, <5>1
        <5> QED
          BY <2>1, <3>1, <5>2, <5>3, EmailAlone
      <4>2. CASE run[d].subject \notin marker /\ Effect!Onward(d)
        <5>1. PICK u : u = [run[d] EXCEPT !.place = @ + 1]
          OBVIOUS
        <5>2. u \in RunRecords
          BY <3>1, <3>2, <5>1, NextPlace DEF RunRecords
        <5>3. u.cached = run[d].cached /\ u.subject = run[d].subject
          BY <3>2, <5>1 DEF RunRecords
        <5>4. run' = [run EXCEPT ![d] = u]
          BY <3>2, <4>2, <5>1 DEF Effect!Onward
        <5> QED
          BY <2>1, <3>1, <4>2, <5>2, <5>3, <5>4, EmailAlone
      <4>3. [Effect!Faulty(flaws) EXCEPT !.lost = @ + 1].lost # 0
        BY <1>1, FaultShows
      <4>4. flaws'.lost = 0 => flaws' # [Effect!Faulty(flaws) EXCEPT !.lost = @ + 1]
        BY <4>3
      <4>5. CASE flaws' = [Effect!Faulty(flaws) EXCEPT !.lost = @ + 1]
        <5>1. flaws.used + 1 = flaws.used
          <6>1. [Effect!Faulty(flaws) EXCEPT !.lost = @ + 1].used = flaws.used + 1
            BY <1>1 DEF Effect!Faulty, FlawRecords
          <6> QED
            BY <1>2, <4>5, <6>1
        <5> QED
          BY <1>1, <5>1 DEF FlawRecords
      <4> QED
        BY <4>1, <4>2, <4>5 DEF Effect!Seen
    <3> QED
      <4>1. /\ \A e \in Dispatches : e # d => run[e].pc # "running" /\ landed'[e] = landed[e]
            /\ landed'[d][1] # 0 => run[d].subject \in marker'
            /\ landed'[d][1] # 0 => Unsent(d)
            /\ run[d].subject \notin marker => Unsent(d)
        BY <2>1, <3>1, <3>2, EmailAlone
      <4>2. marker \subseteq marker'
        BY <3>1
      <4>3. u.pc = "running" => Unsent(d)
        BY <3>3, <4>1
      <4> QED
        BY <2>1, <3>3, <4>1, <4>2, <4>3, OneByOneMoves
  <2>2. /\ kind' = kind /\ (kind = "email" => late' = {})
    BY DEF Effect!Seen, EffectInv
  <2> QED
    BY <1>2, <2>1, <2>2, EmailMoves
<1>3. CASE flaws' = [Effect!Faulty(flaws) EXCEPT !.lost = @ + 1]
  BY <1>1, <1>3, FaultShows DEF Effect!Seen, EffectInv, EmailPart, Clean
<1> QED
  BY <1>2, <1>3 DEF Effect!Seen
LEMMA EmailMail ==
  ASSUME EffectConstants, EffectInv, NEW d \in Dispatches, Effect!Mail(d)
  PROVE  EmailPart'
<1>1. flaws \in FlawRecords
  BY EffectFacts DEF EffectType
<1>2. CASE Effect!Land(d) /\ Effect!Onward(d) /\ flaws' = flaws
  <2>1. ASSUME kind = "email", OneByOne
        PROVE  OneByOne'
    <3>1. /\ run[d].pc = "running" /\ run[d].place <= Effect!Places
          /\ marker' = marker /\ Effect!StepAt(run[d].place) = "mail"
      BY DEF Effect!Mail, Effect!Step
    <3>2. run[d] \in RunRecords /\ run \in [Dispatches -> RunRecords] /\ run[d].place = 3
      BY <2>1, <3>1, EmailPlace
    <3>3. PICK u : u = [run[d] EXCEPT !.place = @ + 1]
      OBVIOUS
    <3>4. u \in RunRecords
      BY <3>1, <3>2, <3>3, NextPlace DEF RunRecords
    <3>5. u.cached = run[d].cached /\ u.subject = run[d].subject /\ u.place = 4 /\ u.pc = "running"
      BY <3>1, <3>2, <3>3 DEF RunRecords
    <3>6. run' = [run EXCEPT ![d] = u]
      BY <1>2, <3>2, <3>3 DEF Effect!Onward
    <3>7. HasEffect(run[d].place)
      BY <3>1 DEF HasEffect, Effect!Effects
    <3>8. \A e \in Dispatches : e # d => landed'[e] = landed[e]
      BY <1>2, <3>1, <3>7, Lands
    <3>9. /\ \A e \in Dispatches : e # d => run[e].pc # "running" /\ landed'[e] = landed[e]
          /\ Unsent(d) /\ u.cached
      BY <2>1, <3>1, <3>2, <3>5, <3>8, EmailAlone
    <3>10. marker \subseteq marker' /\ u.pc = "running" /\ u.place = 4
      BY <3>1, <3>5
    <3> HIDE DEF Effect!Land
    <3> QED
      BY <2>1, <3>4, <3>5, <3>6, <3>9, <3>10, OneByOneMoves
  <2>2. /\ kind' = kind /\ (kind = "email" => late' = {})
    BY DEF Effect!Mail, EffectInv
  <2> QED
    BY <1>2, <2>1, <2>2, EmailMoves
<1>3. CASE flaws' = [Effect!Faulty(flaws) EXCEPT !.soft = TRUE, !.lost = @ + 1]
  BY <1>1, <1>3, FaultShows DEF Effect!Mail, EffectInv, EmailPart, Clean
<1> QED
  BY <1>2, <1>3 DEF Effect!Mail

LEMMA EmailMark ==
  ASSUME EffectConstants, EffectInv, NEW d \in Dispatches, Effect!Mark(d)
  PROVE  EmailPart'
<1>1. flaws \in FlawRecords
  BY EffectFacts DEF EffectType
<1>2. CASE /\ marker' = IF run[d].cached THEN marker \cup {run[d].subject} ELSE marker
           /\ flaws' = flaws
  <2>1. ASSUME kind = "email", OneByOne
        PROVE  OneByOne'
    <3>1. /\ run[d].pc = "running" /\ run[d].place <= Effect!Places
          /\ landed' = landed /\ Effect!StepAt(run[d].place) = "mark"
      BY DEF Effect!Mark, Effect!Step
    <3>2. run[d] \in RunRecords /\ run \in [Dispatches -> RunRecords] /\ run[d].place = 4
      BY <2>1, <3>1, EmailPlace
    <3>3. PICK u : u = [run[d] EXCEPT !.place = @ + 1]
      OBVIOUS
    <3>4. u \in RunRecords
      BY <3>1, <3>2, <3>3, NextPlace DEF RunRecords
    <3>5. u.cached = run[d].cached /\ u.subject = run[d].subject /\ u.place = 5
      BY <3>1, <3>2, <3>3 DEF RunRecords
    <3>6. run' = [run EXCEPT ![d] = u]
      BY <3>2, <3>3 DEF Effect!Onward, Effect!Mark
    <3>7. /\ \A e \in Dispatches : e # d => run[e].pc # "running" /\ landed'[e] = landed[e]
          /\ landed'[d][1] # 0 => Unsent(d)
          /\ u.cached
      BY <2>1, <3>1, <3>5, EmailAlone
    <3>8. u.subject \in marker' /\ marker \subseteq marker' /\ u.place # 3
      BY <1>2, <2>1, <3>1, <3>5, EmailAlone
    <3> QED
      BY <2>1, <3>4, <3>5, <3>6, <3>7, <3>8, OneByOneMoves
  <2>2. /\ kind' = kind /\ (kind = "email" => late' = {})
    BY DEF Effect!Mark, EffectInv
  <2> QED
    BY <1>2, <2>1, <2>2, EmailMoves
<1>3. CASE flaws' = [Effect!Faulty(flaws) EXCEPT !.lost = @ + 1]
  BY <1>1, <1>3, FaultShows DEF Effect!Mark, EffectInv, EmailPart, Clean
<1> QED
  BY <1>2, <1>3 DEF Effect!Mark

LEMMA EmailReturn ==
  ASSUME EffectConstants, EffectInv, NEW d \in Dispatches, Effect!Return(d)
  PROVE  EmailPart'
<1>1. ASSUME kind = "email", OneByOne
      PROVE  OneByOne'
  <2>1. /\ run[d].pc = "running" /\ run[d].place > Effect!Places
        /\ landed' = landed /\ marker' = marker
        /\ run \in [Dispatches -> RunRecords] /\ run[d] \in RunRecords
    BY EffectFacts DEF Effect!Return, EffectType
  <2>2. run[d].place # 4
    BY <1>1, <2>1, EmailKind
  <2>3. PICK u : u = [run[d] EXCEPT !.pc = "done", !.status = "completed"]
    OBVIOUS
  <2>4. u \in RunRecords /\ u.pc = "done" /\ u.cached = run[d].cached /\ u.subject = run[d].subject
    BY <2>1, <2>3 DEF RunRecords
  <2>5. run' = [run EXCEPT ![d] = u]
    BY <2>1, <2>3 DEF Effect!Return
  <2>6. /\ \A e \in Dispatches : e # d => run[e].pc # "running" /\ landed'[e] = landed[e]
        /\ landed'[d][1] # 0 => run[d].subject \in marker'
        /\ landed'[d][1] # 0 => Unsent(d)
        /\ u.cached
    BY <1>1, <2>1, <2>2, <2>4, EmailAlone
  <2>7. marker \subseteq marker' /\ u.pc # "running"
    BY <2>1, <2>4
  <2> QED
    BY <1>1, <2>4, <2>5, <2>6, <2>7, OneByOneMoves
<1>2. /\ kind' = kind /\ (kind = "email" => late' = {}) /\ flaws' = flaws
  BY DEF Effect!Return, EffectInv
<1> QED
  BY <1>1, <1>2, EmailMoves

\* The deadline and the death of a worker are losses; an email has no thread.
LEMMA EmailLost ==
  ASSUME EffectConstants, EffectInv, NEW d \in Dispatches,
         Effect!NodeTimeout(d) \/ Effect!Dies(d)
  PROVE  EmailPart'
<1>1. flaws \in FlawRecords
  BY EffectFacts DEF EffectType
<1>2. flaws' = [Effect!Faulty(flaws) EXCEPT !.lost = @ + 1] /\ kind' = kind
  BY DEF Effect!NodeTimeout, Effect!Dies
<1>3. flaws'.lost # 0
  BY <1>1, <1>2, FaultShows
<1>4. ASSUME kind = "email" PROVE late' = {}
  <2>1. late = {}
    BY <1>4 DEF EffectInv
  <2>2. CASE Effect!NodeTimeout(d)
    <3>1. Effect!StepAt(run[d].place) \in {"check", "seen", "mail", "mark"}
      BY <1>4, <2>2, EmailPlace DEF Effect!NodeTimeout
    <3>2. Effect!StepAt(run[d].place) \notin Effect!Threaded
      BY <3>1 DEF Effect!Threaded
    <3> QED
      BY <2>1, <2>2, <3>2 DEF Effect!NodeTimeout
  <2>3. CASE Effect!Dies(d)
    BY <2>1, <2>3 DEF Effect!Dies
  <2> QED
    BY <2>2, <2>3
<1> QED
  BY <1>2, <1>3, <1>4 DEF EmailPart, Clean

\* The other steps are not those of an email.
LEMMA EmailOther ==
  ASSUME EffectConstants, EffectInv, NEW d \in Dispatches, kind' = kind,
         run[d].pc = "running", run[d].place <= Effect!Places,
         Effect!StepAt(run[d].place) \notin {"check", "seen", "mail", "mark"}
  PROVE  EmailPart'
BY EmailPlace DEF EmailPart
-----------------------------------------------------------------------------
\* One lemma for each action.
LEMMA StartKeeps ==
  ASSUME EffectConstants, EffectInv, NEW d \in Dispatches, Effect!Start(d)
  PROVE  EffectInv'
<1>1. /\ run \in [Dispatches -> RunRecords] /\ run[d] \in RunRecords
      /\ run[d] = Effect!Fresh(run[d].subject) /\ run[d].pc = "waiting" /\ flaws \in FlawRecords
  BY EffectFacts DEF EffectType, EffectInv, Behind, Effect!Start
<1>2. /\ kind' = kind /\ landed' = landed /\ marker' = marker /\ late' = late
      /\ run' = [run EXCEPT ![d].pc = "running"]
  BY DEF Effect!Start
<1>3. PICK u : u = [run[d] EXCEPT !.pc = "running"]
  OBVIOUS
<1>4. /\ u \in RunRecords /\ u.pc = "running" /\ u.place = run[d].place
      /\ u.attempt = run[d].attempt /\ u.status = run[d].status
      /\ run' = [run EXCEPT ![d] = u] /\ run'[d] = u
  BY <1>1, <1>2, <1>3 DEF RunRecords
<1>5. flaws' \in FlawRecords /\ flaws'.soft = flaws.soft
  <2>1. PICK b : b = (flaws.overlap \/ \E e \in Dispatches : run[e].pc = "running")
    OBVIOUS
  <2>2. flaws.overlap \in BOOLEAN
    BY <1>1 DEF FlawRecords
  <2>3. b \in BOOLEAN
    BY <2>1, <2>2, Zenon
  <2>4. flaws' = [flaws EXCEPT !.overlap = b]
    BY <2>1 DEF Effect!Start
  <2> QED
    BY <1>1, <2>3, <2>4 DEF FlawRecords
<1>6. Moves(d, u)
  BY <1>2, <1>4, <1>5, EffectFacts DEF Moves, EffectType
<1>7. /\ Effect!Places' = Effect!Places
      /\ \A p : /\ Effect!ItemAt(p)' = Effect!ItemAt(p)
                /\ HasEffect(p)' = HasEffect(p)
  BY <1>2, SameKind
<1>8. Behind(d)'
  <2>1. Behind(d) /\ \A x : Effect!Fresh(x).status = "none"
    BY DEF EffectInv, Effect!Fresh
  <2> QED
    BY <1>1, <1>2, <1>4, <1>5, <1>7, <2>1 DEF Behind
<1>9. ASSUME Effect!SideEffecting(kind) PROVE Single(d)'
  <2>1. Single(d)
    BY <1>9 DEF EffectInv
  <2> QED
    BY <1>1, <1>2, <1>4, <1>7, <2>1 DEF Single
<1> QED
  BY <1>6, <1>8, <1>9, OneMoves, EmailStart

LEMMA CheckKeeps ==
  ASSUME EffectConstants, EffectInv, NEW d \in Dispatches, Effect!Check(d)
  PROVE  EffectInv'
<1>1. /\ run[d].pc = "running" /\ run[d].place <= Effect!Places
      /\ ~HasEffect(run[d].place)
      /\ kind' = kind /\ landed' = landed /\ marker' = marker /\ late' = late
      /\ flaws' = flaws
  BY DEF Effect!Check, Effect!Step, HasEffect, Effect!Effects, Effect!Threaded
<1>2. Around
  BY <1>1, EffectFacts DEF Around, EffectType
<1>3. EmailPart'
  BY EmailCheck
<1>4. CASE Effect!Onward(d)
  BY <1>1, <1>2, <1>3, <1>4, OnwardPasses
<1>5. CASE Effect!Raises(d)
  BY <1>1, <1>2, <1>3, <1>5, RaiseStep
<1> QED
  BY <1>4, <1>5 DEF Effect!Check

LEMMA SoftKeeps ==
  ASSUME EffectConstants, EffectInv, NEW d \in Dispatches, Effect!Soft(d)
  PROVE  EffectInv'
<1>1. /\ run[d].pc = "running" /\ run[d].place <= Effect!Places
      /\ ~HasEffect(run[d].place) /\ Effect!Onward(d)
      /\ Effect!StepAt(run[d].place) \notin {"check", "seen", "mail", "mark"}
      /\ kind' = kind /\ landed' = landed /\ marker' = marker /\ late' = late
      /\ flaws' = flaws
  BY DEF Effect!Soft, Effect!Step, HasEffect, Effect!Effects, Effect!Threaded
<1>2. Around
  BY <1>1, EffectFacts DEF Around, EffectType
<1> QED
  BY <1>1, <1>2, OnwardPasses, EmailOther

LEMMA CallKeeps ==
  ASSUME EffectConstants, EffectInv, NEW d \in Dispatches, Effect!Call(d)
  PROVE  EffectInv'
<1>1. /\ run[d].pc = "running" /\ run[d].place <= Effect!Places
      /\ ~HasEffect(run[d].place)
      /\ Effect!StepAt(run[d].place) \notin {"check", "seen", "mail", "mark"}
      /\ kind' = kind /\ landed' = landed /\ marker' = marker /\ late' = late
      /\ marker \subseteq Effect!Subjects(kind) /\ flaws \in FlawRecords
  BY EffectFacts
     DEF Effect!Call, Effect!Step, HasEffect, Effect!Effects, Effect!Threaded, EffectType
<1>2. EmailPart'
  BY <1>1, EmailOther
<1>3. CASE Effect!Onward(d) /\ flaws' = flaws
  <2>1. Around
    BY <1>1, <1>3 DEF Around
  <2> QED
    BY <1>1, <1>2, <1>3, <2>1, OnwardPasses
<1>4. CASE Effect!Fault /\ Effect!Raises(d) /\ flaws' = Effect!Faulty(flaws)
  <2>1. flaws' \in FlawRecords /\ (flaws.soft => flaws'.soft)
    BY <1>4, FaultCounted
  <2>2. Around
    BY <1>1, <2>1 DEF Around
  <2> QED
    BY <1>1, <1>2, <1>4, <2>2, RaiseStep
<1> QED
  BY <1>3, <1>4 DEF Effect!Call

LEMMA WriteKeeps ==
  ASSUME EffectConstants, EffectInv, NEW d \in Dispatches, Effect!Write(d)
  PROVE  EffectInv'
<1>1. /\ run[d].pc = "running" /\ run[d].place <= Effect!Places
      /\ HasEffect(run[d].place)
      /\ Effect!StepAt(run[d].place) \notin {"check", "seen", "mail", "mark"}
      /\ kind' = kind /\ marker' = marker /\ late' = late
      /\ marker \subseteq Effect!Subjects(kind) /\ flaws \in FlawRecords
  BY EffectFacts DEF Effect!Write, HasEffect, Effect!Effects, Effect!Threaded, EffectType
<1>2. EmailPart'
  BY <1>1, EmailOther
<1>3. CASE Effect!Land(d) /\ Effect!Onward(d) /\ flaws' = flaws
  <2>1. Around
    BY <1>1, <1>3 DEF Around
  <2> QED
    BY <1>1, <1>2, <1>3, <2>1, OnwardPasses
<1>4. CASE /\ Effect!Fault /\ Effect!Land(d) /\ Effect!Raises(d)
           /\ flaws' = [Effect!Faulty(flaws) EXCEPT !.lost = @ + 1]
  <2>1. flaws' \in FlawRecords /\ (flaws.soft => flaws'.soft)
    BY <1>4, FaultCounted
  <2>2. Around
    BY <1>1, <2>1 DEF Around
  <2> QED
    BY <1>1, <1>2, <1>4, <2>2, RaiseStep
<1>5. CASE /\ Effect!Fault /\ landed' = landed /\ Effect!Raises(d)
           /\ flaws' = Effect!Faulty(flaws)
  <2>1. flaws' \in FlawRecords /\ (flaws.soft => flaws'.soft)
    BY <1>5, FaultCounted
  <2>2. Around
    BY <1>1, <2>1 DEF Around
  <2> QED
    BY <1>1, <1>2, <1>5, <2>2, RaiseStep
<1> QED
  BY <1>3, <1>4, <1>5 DEF Effect!Write

LEMMA FireKeeps ==
  ASSUME EffectConstants, EffectInv, NEW d \in Dispatches, Effect!Fire(d)
  PROVE  EffectInv'
<1>1. /\ run[d].pc = "running" /\ run[d].place <= Effect!Places
      /\ HasEffect(run[d].place) /\ Effect!StepAt(run[d].place) = "fire"
      /\ Effect!StepAt(run[d].place) \notin {"check", "seen", "mail", "mark"}
      /\ kind' = kind /\ marker' = marker /\ late' = late
      /\ marker \subseteq Effect!Subjects(kind) /\ flaws \in FlawRecords
  BY EffectFacts DEF Effect!Fire, Effect!Step, HasEffect, Effect!Effects, EffectType
<1>2. EmailPart'
  BY <1>1, EmailOther
<1>3. kind = "webhook"
  <2>1. run[d].place \in 1..Effect!Places /\ kind \in NodeKinds
    BY <1>1, EffectFacts DEF EffectType, RunRecords
  <2> QED
    BY <1>1, <2>1, KindFacts
<1>4. CASE Effect!Land(d) /\ Effect!Onward(d) /\ flaws' = flaws
  <2>1. Around
    BY <1>1, <1>4 DEF Around
  <2> QED
    BY <1>1, <1>2, <1>4, <2>1, OnwardPasses
<1>5. CASE /\ Effect!Fault /\ landed' = landed /\ Effect!Onward(d)
           /\ flaws' = [Effect!Faulty(flaws) EXCEPT !.soft = TRUE]
  <2>1. flaws' \in FlawRecords /\ (flaws.soft => flaws'.soft)
    BY <1>5, FaultCounted
  <2>2. Around
    BY <1>1, <2>1 DEF Around
  <2>3. flaws'.soft
    BY <1>1, <1>5 DEF Effect!Faulty, FlawRecords
  <2> QED
    BY <1>1, <1>2, <1>3, <1>5, <2>2, <2>3, OnwardPasses
<1>6. CASE /\ Effect!Fault /\ Effect!Land(d) /\ Effect!Raises(d)
           /\ flaws' = [Effect!Faulty(flaws) EXCEPT !.lost = @ + 1]
  <2>1. flaws' \in FlawRecords /\ (flaws.soft => flaws'.soft)
    BY <1>6, FaultCounted
  <2>2. Around
    BY <1>1, <2>1 DEF Around
  <2> QED
    BY <1>1, <1>2, <1>6, <2>2, RaiseStep
<1> QED
  BY <1>4, <1>5, <1>6 DEF Effect!Fire
LEMMA SeenKeeps ==
  ASSUME EffectConstants, EffectInv, NEW d \in Dispatches, Effect!Seen(d)
  PROVE  EffectInv'
<1>1. /\ run[d].pc = "running" /\ run[d].place <= Effect!Places
      /\ ~HasEffect(run[d].place) /\ Effect!StepAt(run[d].place) = "seen"
      /\ kind' = kind /\ marker' = marker /\ late' = late /\ landed' = landed
      /\ marker \subseteq Effect!Subjects(kind) /\ flaws \in FlawRecords
      /\ run \in [Dispatches -> RunRecords] /\ run[d] \in RunRecords
  BY EffectFacts
     DEF Effect!Seen, Effect!Step, HasEffect, Effect!Effects, Effect!Threaded, EffectType
<1>2. EmailPart'
  BY EmailSeen
<1>3. kind = "email"
  <2>1. run[d].place \in 1..Effect!Places /\ kind \in NodeKinds
    BY <1>1, EffectFacts DEF EffectType, RunRecords
  <2> QED
    BY <1>1, <2>1, KindFacts
<1>4. CASE /\ run[d].subject \in marker /\ flaws' = flaws
           /\ run' = [run EXCEPT ![d].pc = "done", ![d].status = "completed"]
  <2>1. PICK u : u = [run[d] EXCEPT !.pc = "done", !.status = "completed"]
    OBVIOUS
  <2>2. u \in RunRecords /\ u.pc = "done" /\ u.attempt = run[d].attempt
    BY <1>1, <2>1 DEF RunRecords
  <2>3. run' = [run EXCEPT ![d] = u]
    BY <1>1, <1>4, <2>1
  <2>4. Around
    BY <1>1, <1>4 DEF Around
  <2> QED
    BY <1>1, <1>2, <1>3, <2>2, <2>3, <2>4, EndStep
<1>5. CASE run[d].subject \notin marker /\ Effect!Onward(d) /\ flaws' = flaws
  <2>1. Around
    BY <1>1, <1>5 DEF Around
  <2> QED
    BY <1>1, <1>2, <1>5, <2>1, OnwardPasses
<1>6. CASE /\ Effect!Fault /\ run' = [run EXCEPT ![d].place = @ + 1, ![d].cached = FALSE]
           /\ flaws' = [Effect!Faulty(flaws) EXCEPT !.lost = @ + 1]
  <2>1. flaws' \in FlawRecords /\ (flaws.soft => flaws'.soft)
    BY <1>6, FaultCounted
  <2>2. Around
    BY <1>1, <2>1 DEF Around
  <2>3. run' = [run EXCEPT ![d] = [run[d] EXCEPT !.place = @ + 1, !.cached = FALSE]]
    BY <1>1, <1>6
  <2> QED
    BY <1>1, <1>2, <2>2, <2>3, Passes
<1> QED
  BY <1>4, <1>5, <1>6 DEF Effect!Seen

LEMMA MailKeeps ==
  ASSUME EffectConstants, EffectInv, NEW d \in Dispatches, Effect!Mail(d)
  PROVE  EffectInv'
<1>1. /\ run[d].pc = "running" /\ run[d].place <= Effect!Places
      /\ HasEffect(run[d].place) /\ Effect!StepAt(run[d].place) = "mail"
      /\ kind' = kind /\ marker' = marker /\ late' = late
      /\ marker \subseteq Effect!Subjects(kind) /\ flaws \in FlawRecords
      /\ run \in [Dispatches -> RunRecords] /\ run[d] \in RunRecords
  BY EffectFacts DEF Effect!Mail, Effect!Step, HasEffect, Effect!Effects, EffectType
<1>2. EmailPart'
  BY EmailMail
<1>3. kind = "email"
  <2>1. run[d].place \in 1..Effect!Places /\ kind \in NodeKinds
    BY <1>1, EffectFacts DEF EffectType, RunRecords
  <2> QED
    BY <1>1, <2>1, KindFacts
<1>4. CASE Effect!Land(d) /\ Effect!Onward(d) /\ flaws' = flaws
  <2>1. Around
    BY <1>1, <1>4 DEF Around
  <2> QED
    BY <1>1, <1>2, <1>4, <2>1, OnwardPasses
<1>5. CASE /\ Effect!Fault /\ (Effect!Land(d) \/ landed' = landed)
           /\ run' = [run EXCEPT ![d].pc = "done", ![d].status = "completed"]
           /\ flaws' = [Effect!Faulty(flaws) EXCEPT !.soft = TRUE, !.lost = @ + 1]
  <2>1. flaws' \in FlawRecords /\ (flaws.soft => flaws'.soft)
    BY <1>5, FaultCounted
  <2>2. Around
    BY <1>1, <2>1 DEF Around
  <2>3. PICK u : u = [run[d] EXCEPT !.pc = "done", !.status = "completed"]
    OBVIOUS
  <2>4. u \in RunRecords /\ u.pc = "done" /\ u.attempt = run[d].attempt
    BY <1>1, <2>3 DEF RunRecords
  <2>5. run' = [run EXCEPT ![d] = u]
    BY <1>1, <1>5, <2>3
  <2> QED
    BY <1>1, <1>2, <1>3, <1>5, <2>2, <2>4, <2>5, EndStep
<1> QED
  BY <1>4, <1>5 DEF Effect!Mail

LEMMA MarkKeeps ==
  ASSUME EffectConstants, EffectInv, NEW d \in Dispatches, Effect!Mark(d)
  PROVE  EffectInv'
<1>1. /\ run[d].pc = "running" /\ run[d].place <= Effect!Places
      /\ ~HasEffect(run[d].place) /\ Effect!Onward(d)
      /\ kind' = kind /\ landed' = landed /\ late' = late
      /\ marker \subseteq Effect!Subjects(kind) /\ flaws \in FlawRecords
      /\ run \in [Dispatches -> RunRecords] /\ run[d] \in RunRecords
  BY EffectFacts
     DEF Effect!Mark, Effect!Step, HasEffect, Effect!Effects, Effect!Threaded, EffectType
<1>2. EmailPart'
  BY EmailMark
<1>3. marker' \subseteq Effect!Subjects(kind)
      /\ flaws' \in FlawRecords /\ (flaws.soft => flaws'.soft)
  <2>1. CASE /\ marker' = IF run[d].cached THEN marker \cup {run[d].subject} ELSE marker
             /\ flaws' = flaws
    <3>1. run[d].subject \in Effect!Subjects(kind)
      BY <1>1 DEF RunRecords
    <3> QED
      BY <1>1, <2>1, <3>1
  <2>2. CASE /\ Effect!Fault /\ marker' = marker
             /\ flaws' = [Effect!Faulty(flaws) EXCEPT !.lost = @ + 1]
    BY <1>1, <2>2, FaultCounted
  <2> QED
    BY <2>1, <2>2 DEF Effect!Mark
<1>4. Around
  BY <1>1, <1>3 DEF Around
<1> QED
  BY <1>1, <1>2, <1>4, OnwardPasses

LEMMA ReturnKeeps ==
  ASSUME EffectConstants, EffectInv, NEW d \in Dispatches, Effect!Return(d)
  PROVE  EffectInv'
<1>1. /\ run[d].pc = "running" /\ run[d].place > Effect!Places
      /\ kind' = kind /\ landed' = landed /\ late' = late /\ marker' = marker
      /\ flaws' = flaws /\ flaws \in FlawRecords
      /\ run \in [Dispatches -> RunRecords] /\ run[d] \in RunRecords
      /\ Effect!Places \in Nat
  BY EffectFacts DEF Effect!Return, EffectType
<1>2. EmailPart'
  BY EmailReturn
<1>3. PICK u : u = [run[d] EXCEPT !.pc = "done", !.status = "completed"]
  OBVIOUS
<1>4. u \in RunRecords /\ u.pc = "done" /\ u.attempt = run[d].attempt
  BY <1>1, <1>3 DEF RunRecords
<1>5. run' = [run EXCEPT ![d] = u] /\ run'[d] = u
  BY <1>1, <1>3 DEF Effect!Return
<1>6. Moves(d, u)
  BY <1>1, <1>4, <1>5, EffectFacts DEF Moves, EffectType
<1>7. /\ Effect!Places' = Effect!Places
      /\ \A p : /\ Effect!ItemAt(p)' = Effect!ItemAt(p)
                /\ HasEffect(p)' = HasEffect(p)
  BY <1>1, SameKind
<1>8. Behind(d)'
  <2>1. \A p \in 1..Effect!Places : HasEffect(p) =>
          landed[d][Effect!ItemAt(p)] >= 1 \/ (kind = "webhook" /\ flaws.soft)
    <3>1. \A p \in 1..Effect!Places : p < run[d].place
      BY <1>1 DEF RunRecords
    <3> QED
      BY <1>1, <3>1 DEF EffectInv, Behind
  <2> QED
    BY <1>1, <1>4, <1>5, <1>7, <2>1 DEF Behind
<1>9. ASSUME Effect!SideEffecting(kind) PROVE Single(d)'
  <2>1. Single(d)
    BY <1>9 DEF EffectInv
  <2> QED
    BY <1>1, <1>4, <1>5, <2>1 DEF Single
<1> QED
  BY <1>2, <1>6, <1>8, <1>9, OneMoves

LEMMA TimeoutKeeps ==
  ASSUME EffectConstants, EffectInv, NEW d \in Dispatches,
         Effect!NodeTimeout(d) \/ Effect!Dies(d), run[d].place <= Effect!Places
  PROVE  EffectInv'
<1>1. /\ run[d].pc = "running" /\ Effect!Fault /\ kind' = kind /\ marker' = marker
      /\ flaws' = [Effect!Faulty(flaws) EXCEPT !.lost = @ + 1]
      /\ marker \subseteq Effect!Subjects(kind) /\ flaws \in FlawRecords
      /\ run \in [Dispatches -> RunRecords] /\ run[d] \in RunRecords
  BY EffectFacts DEF Effect!NodeTimeout, Effect!Dies, EffectType
<1>2. EmailPart'
  BY EmailLost
<1>3. flaws' \in FlawRecords /\ (flaws.soft => flaws'.soft)
  BY <1>1, FaultCounted
<1>4. Around
  BY <1>1, <1>3 DEF Around
<1>5. PICK u : /\ run' = [run EXCEPT ![d] = u] /\ u \in RunRecords /\ u.pc = "done"
               /\ u.attempt = run[d].attempt /\ u.status # "completed"
  <2>1. PICK s \in {"failed", "lost"} :
          run' = [run EXCEPT ![d].pc = "done", ![d].status = s]
    BY DEF Effect!NodeTimeout, Effect!Dies
  <2>2. PICK u : u = [run[d] EXCEPT !.pc = "done", !.status = s]
    OBVIOUS
  <2>3. /\ u \in RunRecords /\ u.pc = "done" /\ u.attempt = run[d].attempt
        /\ u.status # "completed"
    BY <1>1, <2>1, <2>2 DEF RunRecords
  <2>4. run' = [run EXCEPT ![d] = u]
    BY <1>1, <2>1, <2>2
  <2> QED
    BY <2>3, <2>4
<1>6. \/ HasEffect(run[d].place) /\ Effect!Land(d) /\ late' = late
      \/ landed' = landed /\ late' = late
      \/ /\ HasEffect(run[d].place) /\ landed' = landed
         /\ late' = late \cup {<<d, Effect!ItemAt(run[d].place)>>}
  BY DEF Effect!NodeTimeout, Effect!Dies, HasEffect, Effect!Effects
<1> QED
  BY <1>1, <1>2, <1>4, <1>5, <1>6, EndStep
LEMMA DiesKeeps ==
  ASSUME EffectConstants, EffectInv, NEW d \in Dispatches, Effect!Dies(d),
         run[d].place > Effect!Places
  PROVE  EffectInv'
<1>1. /\ run[d].pc = "running" /\ Effect!Fault /\ kind' = kind /\ marker' = marker
      /\ landed' = landed /\ late' = late
      /\ flaws' = [Effect!Faulty(flaws) EXCEPT !.lost = @ + 1]
      /\ run \in [Dispatches -> RunRecords] /\ run[d] \in RunRecords
  BY EffectFacts DEF Effect!Dies, EffectType
<1>2. EmailPart'
  BY EmailLost
<1>3. flaws' \in FlawRecords /\ (flaws.soft => flaws'.soft)
  BY <1>1, FaultCounted
<1>4. PICK u : u = [run[d] EXCEPT !.pc = "done", !.status = "lost"]
  OBVIOUS
<1>5. u \in RunRecords /\ u.pc = "done" /\ u.attempt = run[d].attempt /\ u.status = "lost"
  BY <1>1, <1>4 DEF RunRecords
<1>6. run' = [run EXCEPT ![d] = u] /\ run'[d] = u
  BY <1>1, <1>4 DEF Effect!Dies
<1>7. Moves(d, u)
  BY <1>1, <1>3, <1>5, <1>6, EffectFacts DEF Moves, EffectType
<1>8. Behind(d)'
  BY <1>5, <1>6 DEF Behind
<1>9. ASSUME Effect!SideEffecting(kind) PROVE Single(d)'
  <2>1. Single(d)
    BY <1>9 DEF EffectInv
  <2> QED
    BY <1>1, <1>5, <1>6, <2>1 DEF Single
<1> QED
  BY <1>2, <1>7, <1>8, <1>9, OneMoves

\* A thread that outlived the deadline of its node.
LEMMA LateKeeps ==
  ASSUME EffectConstants, EffectInv, NEW x \in late, Effect!LateEffect(x)
  PROVE  EffectInv'
<1> USE EffectFacts
<1>1. PICK d \in Dispatches, i \in 1..Effect!Count : x = <<d, i>>
  BY DEF EffectType
<1>2. x[1] = d /\ x[2] = i
  BY <1>1
<1>3. /\ kind' = kind /\ run' = run /\ marker' = marker /\ flaws' = flaws
      /\ late' = late \ {<<d, i>>} /\ late \subseteq Dispatches \X (1..Effect!Count)
      /\ run \in [Dispatches -> RunRecords] /\ flaws \in FlawRecords
      /\ marker \subseteq Effect!Subjects(kind) /\ landed \in [Dispatches -> [1..Effect!Count -> Nat]]
  BY <1>1 DEF Effect!LateEffect, EffectType
<1>4. landed[d] \in [1..Effect!Count -> Nat] /\ landed[d][i] \in Nat
  BY <1>3
<1>5. PICK n : n = landed[d][i] + 1
  OBVIOUS
<1>6. PICK f : f = [landed[d] EXCEPT ![i] = n]
  OBVIOUS
<1>7. landed' = [landed EXCEPT ![d] = f]
  BY <1>2, <1>5, <1>6 DEF Effect!LateEffect
<1>8. /\ n \in Nat /\ f \in [1..Effect!Count -> Nat] /\ f[i] = n
      /\ \A j \in 1..Effect!Count : j # i => f[j] = landed[d][j]
  BY <1>4, <1>5, <1>6
<1>9. /\ landed' \in [Dispatches -> [1..Effect!Count -> Nat]] /\ landed'[d] = f
      /\ \A e \in Dispatches : e # d => landed'[e] = landed[e]
  BY <1>3, <1>7, <1>8
<1>10. \A j \in 1..Effect!Count : landed'[d][j] >= landed[d][j]
  BY <1>4, <1>5, <1>8, <1>9
<1>11. PICK u : u = run[d]
  OBVIOUS
<1>12. u \in RunRecords /\ run' = [run EXCEPT ![d] = u] /\ run'[d] = run[d]
  BY <1>3, <1>11
<1>13. \A e \in Dispatches : e # d => (<<e, 1>> \in late' <=> <<e, 1>> \in late)
  BY <1>3
<1>14. late' \subseteq Dispatches \X (1..Effect!Count)
  BY <1>3
<1>15. Moves(d, u)
  BY <1>3, <1>9, <1>12, <1>13, <1>14 DEF Moves
<1>16. /\ Effect!Places' = Effect!Places
       /\ \A p : /\ Effect!ItemAt(p)' = Effect!ItemAt(p)
                 /\ HasEffect(p)' = HasEffect(p)
  BY <1>3, SameKind
<1>17. \A p \in 1..Effect!Places : HasEffect(p) /\ landed[d][Effect!ItemAt(p)] >= 1 =>
         landed'[d][Effect!ItemAt(p)] >= 1
  <2> SUFFICES ASSUME NEW p \in 1..Effect!Places, HasEffect(p),
                      landed[d][Effect!ItemAt(p)] >= 1
               PROVE  landed'[d][Effect!ItemAt(p)] >= 1
    OBVIOUS
  <2>1. PICK j \in 1..Effect!Count : j = Effect!ItemAt(p)
    OBVIOUS
  <2>2. landed'[d][j] \in Nat /\ landed[d][j] \in Nat /\ landed[d][j] >= 1
    BY <1>3, <1>9, <2>1
  <2> QED
    BY <1>10, <2>1, <2>2
<1>18. Behind(d)'
  <2>1. Behind(d) /\ \A y : Effect!Fresh(y)' = Effect!Fresh(y)
    BY DEF EffectInv, Effect!Fresh
  <2> HIDE EffectFacts
  <2> QED
    BY <1>3, <1>12, <1>16, <1>17, <2>1 DEF Behind
<1>19. ASSUME Effect!SideEffecting(kind) PROVE Single(d)'
  <2>1. i = 1 /\ Single(d)
    BY <1>19 DEF EffectInv
  <2>2. run[d].pc = "done" /\ landed[d][1] = 0
    BY <1>1, <2>1 DEF Single
  <2>3. landed'[d][1] = 1 /\ <<d, 1>> \notin late'
    BY <1>3, <1>5, <1>8, <1>9, <2>1, <2>2
  <2> QED
    BY <1>12, <2>1, <2>2, <2>3 DEF Single
<1>20. EmailPart'
  BY <1>3 DEF EmailPart, EffectInv
<1> QED
  BY <1>15, <1>18, <1>19, <1>20, OneMoves

\* A marker that is gone: nothing but the marker changes.
LEMMA ExpiresKeeps ==
  ASSUME EffectConstants, EffectInv, NEW s \in marker, Effect!MarkerExpires(s)
  PROVE  EffectInv'
<1>1. /\ kind' = kind /\ run' = run /\ landed' = landed /\ late' = late
      /\ marker' = marker \ {s} /\ flaws' = [flaws EXCEPT !.expired = TRUE]
  BY DEF Effect!MarkerExpires
<1>2. flaws' \in FlawRecords /\ flaws'.soft = flaws.soft /\ ~Clean(flaws')
  BY <1>1, EffectFacts DEF EffectType, FlawRecords, Clean
<1>3. /\ Effect!Places' = Effect!Places /\ Effect!Count' = Effect!Count
      /\ \A p : /\ Effect!ItemAt(p)' = Effect!ItemAt(p)
                /\ HasEffect(p)' = HasEffect(p)
  BY <1>1, SameKind
<1>4. EffectType'
  BY <1>1, <1>2, <1>3 DEF EffectInv, EffectType, RunRecords, FlawRecords, Effect!Subjects
<1>5. \A d \in Dispatches : Behind(d)'
  BY <1>1, <1>2, <1>3 DEF EffectInv, Behind, Effect!Fresh
<1>6. Effect!SideEffecting(kind)' => \A d \in Dispatches : Single(d)'
  BY <1>1, <1>3 DEF EffectInv, Single, Effect!SideEffecting
<1> QED
  BY <1>1, <1>2, <1>4, <1>5, <1>6 DEF EffectInv

LEMMA EffectNext ==
  ASSUME EffectConstants, EffectInv, [Effect!Next]_(Effect!nodeVars)
  PROVE  EffectInv'
<1>1. CASE UNCHANGED Effect!nodeVars
  <2>1. /\ kind' = kind /\ run' = run /\ landed' = landed /\ marker' = marker
        /\ late' = late /\ flaws' = flaws
    BY <1>1 DEF Effect!nodeVars
  <2>2. /\ Effect!Places' = Effect!Places /\ Effect!Count' = Effect!Count
        /\ \A p : /\ Effect!ItemAt(p)' = Effect!ItemAt(p)
                  /\ HasEffect(p)' = HasEffect(p)
    BY <2>1, SameKind
  <2>3. EffectType'
    BY <2>1, <2>2 DEF EffectInv, EffectType, RunRecords, FlawRecords, Effect!Subjects
  <2>4. \A d \in Dispatches : Behind(d)'
    BY <2>1, <2>2 DEF EffectInv, Behind, Effect!Fresh
  <2>5. Effect!SideEffecting(kind)' => \A d \in Dispatches : Single(d)'
    BY <2>1, <2>2 DEF EffectInv, Single, Effect!SideEffecting
  <2>6. OneByOne => OneByOne'
    BY <2>1 DEF OneByOne, Unsent
  <2> QED
    BY <2>1, <2>3, <2>4, <2>5, <2>6 DEF EffectInv, Clean
<1>2. ASSUME NEW d \in Dispatches,
             \/ Effect!Start(d) \/ Effect!Check(d) \/ Effect!Call(d) \/ Effect!Soft(d)
             \/ Effect!Write(d) \/ Effect!Fire(d) \/ Effect!Seen(d) \/ Effect!Mail(d)
             \/ Effect!Mark(d) \/ Effect!Return(d) \/ Effect!NodeTimeout(d)
             \/ Effect!Dies(d)
      PROVE  EffectInv'
  <2>1. CASE Effect!NodeTimeout(d) \/ Effect!Dies(d)
    <3>1. run[d].place <= Effect!Places \/ run[d].place > Effect!Places
      BY EffectFacts DEF EffectType, RunRecords
    <3>2. Effect!NodeTimeout(d) => run[d].place <= Effect!Places
      BY DEF Effect!NodeTimeout
    <3> QED
      BY <2>1, <3>1, <3>2, TimeoutKeeps, DiesKeeps
  <2> QED
    BY <1>2, <2>1, StartKeeps, CheckKeeps, CallKeeps, SoftKeeps, WriteKeeps, FireKeeps,
       SeenKeeps, MailKeeps, MarkKeeps, ReturnKeeps
<1>3. ASSUME NEW x \in late, Effect!LateEffect(x)
      PROVE  EffectInv'
  BY <1>3, LateKeeps
<1>4. ASSUME NEW s \in marker, Effect!MarkerExpires(s)
      PROVE  EffectInv'
  BY <1>4, ExpiresKeeps
<1> QED
  BY <1>1, <1>2, <1>3, <1>4 DEF Effect!Next

LEMMA EffectStart ==
  ASSUME EffectConstants, Effect!Init
  PROVE  EffectInv
<1>1. /\ kind \in NodeKinds
      /\ run \in [Dispatches -> {Effect!Fresh(s) : s \in Effect!Subjects(kind)}]
      /\ landed = [d \in Dispatches |-> [i \in 1..Effect!Count |-> 0]]
      /\ marker = {} /\ late = {}
      /\ flaws = [lost |-> 0, soft |-> FALSE, overlap |-> FALSE, expired |-> FALSE, used |-> 0]
  BY DEF Effect!Init
<1>2. Effect!Count \in Nat /\ Effect!Places \in Nat
      /\ (Effect!SideEffecting(kind) => Effect!Count = 1)
  BY <1>1, KindFacts
<1>3. ASSUME NEW s \in Effect!Subjects(kind) PROVE Effect!Fresh(s) \in RunRecords
  <2>1. 0 \in 0..NodeRetries /\ 1 \in 1..Effect!Places + 1
    BY <1>2 DEF EffectConstants
  <2> QED
    BY <1>3, <2>1 DEF RunRecords, Effect!Fresh
<1>4. flaws \in FlawRecords
  <2>1. 0 \in 0..EffectFaults
    BY DEF EffectConstants
  <2> QED
    BY <1>1, <2>1 DEF FlawRecords
<1>5. EffectType
  <2>1. run \in [Dispatches -> RunRecords]
    BY <1>1, <1>3
  <2> QED
    BY <1>1, <1>4, <2>1 DEF EffectType
<1>6. ASSUME NEW d \in Dispatches
      PROVE  /\ run[d] = Effect!Fresh(run[d].subject) /\ run[d].pc = "waiting"
             /\ run[d].status = "none" /\ run[d].attempt = 0 /\ run[d].place = 1
             /\ run[d].cached
  <2>1. PICK s \in Effect!Subjects(kind) : run[d] = Effect!Fresh(s)
    BY <1>1
  <2> QED
    BY <2>1 DEF Effect!Fresh
<1>7. \A d \in Dispatches : Behind(d)
  <2>1. \A p \in 1..Effect!Places : ~(p < 1)
    BY <1>2
  <2> QED
    BY <1>6, <2>1 DEF Behind
<1>8. ASSUME Effect!Count = 1, NEW d \in Dispatches PROVE landed[d][1] = 0
  BY <1>1, <1>8
<1>9. Effect!SideEffecting(kind) => \A d \in Dispatches : Single(d)
  BY <1>1, <1>2, <1>6, <1>8 DEF Single
<1>10. kind = "email" => late = {} /\ OneByOne
  BY <1>1, <1>6, <1>8, EmailKind DEF OneByOne, Unsent
<1> QED
  BY <1>5, <1>7, <1>9, <1>10 DEF EffectInv

-----------------------------------------------------------------------------
\* An email that was not sent was sent by another delivery, or its failure was
\* swallowed: the marker names only what went out.
Answered ==
  kind = "email" =>
    /\ \A s \in marker : Effect!Sent(s)
    /\ \A d \in Dispatches :
         run[d].status = "completed" => flaws.soft \/ Effect!Sent(run[d].subject)

\* What a step of an email does to that.
Accounts ==
  /\ kind' = kind /\ (flaws.soft => flaws'.soft)
  /\ \A e \in Dispatches :
       /\ run'[e].subject = run[e].subject
       /\ landed[e][1] >= 1 => landed'[e][1] >= 1
       /\ run'[e].status = "completed" =>
            \/ run[e].status = "completed" \/ flaws'.soft
            \/ run[e].subject \in marker \/ landed[e][1] >= 1
  /\ \A s \in marker' :
       s \in marker \/ \E e \in Dispatches : run[e].subject = s /\ landed[e][1] >= 1

LEMMA AccountsKeep ==
  ASSUME Answered, Accounts
  PROVE  Answered'
<1> DEFINE Out(s) == \E d \in Dispatches : run[d].subject = s /\ landed[d][1] >= 1
           OutNow(s) == \E d \in Dispatches : run'[d].subject = s /\ landed'[d][1] >= 1
<1>1. \A s : Out(s) => OutNow(s)
  BY DEF Accounts
<1> SUFFICES ASSUME kind = "email" PROVE Answered'
  BY DEF Answered, Accounts
<1>2. /\ \A s \in marker : Out(s)
      /\ \A d \in Dispatches : run[d].status = "completed" => flaws.soft \/ Out(run[d].subject)
  BY DEF Answered, Effect!Sent
<1>3. /\ \A s \in marker' : s \in marker \/ Out(s)
      /\ flaws.soft => flaws'.soft
      /\ \A d \in Dispatches :
           /\ run'[d].subject = run[d].subject
           /\ run'[d].status = "completed" =>
                \/ run[d].status = "completed" \/ flaws'.soft
                \/ run[d].subject \in marker \/ Out(run[d].subject)
  BY DEF Accounts
<1> HIDE DEF Out, OutNow
<1>4. /\ \A s \in marker' : OutNow(s)
      /\ \A d \in Dispatches :
           run'[d].status = "completed" => flaws'.soft \/ OutNow(run'[d].subject)
  BY <1>1, <1>2, <1>3
<1> QED
  BY <1>4 DEF OutNow, Answered, Effect!Sent

\* A step that neither sends nor marks nor completes.
LEMMA QuietAccounts ==
  ASSUME EffectConstants, EffectInv, NEW d \in Dispatches, NEW u,
         run' = [run EXCEPT ![d] = u], u.subject = run[d].subject,
         u.status = "completed" =>
           flaws'.soft \/ run[d].subject \in marker \/ landed[d][1] >= 1,
         kind' = kind, flaws.soft => flaws'.soft, landed' = landed, marker' = marker
  PROVE  Accounts
<1>1. run \in [Dispatches -> RunRecords]
  BY EffectFacts DEF EffectType
<1>2. run'[d] = u /\ \A e \in Dispatches : e # d => run'[e] = run[e]
  BY <1>1
<1> QED
  BY <1>2 DEF Accounts

\* What has been sent when an email is past its third step.
LEMMA PastMail ==
  ASSUME EffectConstants, EffectInv, kind = "email", NEW d \in Dispatches,
         run[d].pc = "running", run[d].place > 3
  PROVE  landed[d][1] >= 1
<1>1. 3 \in 1..Effect!Places /\ Effect!ItemAt(3) = 1 /\ HasEffect(3)
  BY EmailKind DEF HasEffect, Effect!Effects
<1>2. Behind(d)
  BY DEF EffectInv
<1> QED
  BY <1>1, <1>2 DEF Behind

LEMMA StepAccounts ==
  ASSUME EffectConstants, EffectInv, kind = "email", NEW d \in Dispatches,
         \/ Effect!Start(d) \/ Effect!Check(d) \/ Effect!Call(d) \/ Effect!Soft(d)
         \/ Effect!Write(d) \/ Effect!Fire(d) \/ Effect!Seen(d) \/ Effect!Mail(d)
         \/ Effect!Mark(d) \/ Effect!Return(d) \/ Effect!NodeTimeout(d) \/ Effect!Dies(d)
  PROVE  Accounts
<1>1. /\ run \in [Dispatches -> RunRecords] /\ run[d] \in RunRecords
      /\ flaws \in FlawRecords /\ late = {}
      /\ landed \in [Dispatches -> [1..Effect!Count -> Nat]] /\ Effect!Count = 1
  BY EffectFacts, EmailKind DEF EffectType, EffectInv
<1>2. CASE Effect!Start(d)
  <2>1. /\ run[d].status = "none" /\ flaws'.soft = flaws.soft
        /\ run' = [run EXCEPT ![d] = [run[d] EXCEPT !.pc = "running"]]
    <3>1. run[d] = Effect!Fresh(run[d].subject)
      BY <1>2 DEF EffectInv, Behind, Effect!Start
    <3>2. run[d].status = "none"
      BY <3>1 DEF Effect!Fresh
    <3> QED
      BY <1>1, <1>2, <3>2 DEF Effect!Start, FlawRecords
  <2>2. PICK u : u = [run[d] EXCEPT !.pc = "running"]
    OBVIOUS
  <2>3. u.subject = run[d].subject /\ u.status = "none" /\ run' = [run EXCEPT ![d] = u]
    BY <1>1, <2>1, <2>2 DEF RunRecords
  <2>4. kind' = kind /\ landed' = landed /\ marker' = marker /\ (flaws.soft => flaws'.soft)
    BY <1>2, <2>1 DEF Effect!Start
  <2> QED
    BY <2>3, <2>4, QuietAccounts
<1>3. run[d].status # "completed" \/ run[d].pc = "done"
  BY DEF EffectInv, Behind
<1>4. CASE Effect!Check(d)
  <2>1. run[d].pc = "running" /\ run[d].place <= Effect!Places
    BY <1>4 DEF Effect!Check, Effect!Step
  <2>2. Effect!Retries(kind) = 0 /\ run[d].attempt = 0
    BY <2>1, EmailPlace
  <2>3. CASE Effect!Onward(d)
    BY <1>1, <1>3, <1>4, <2>1, <2>3, QuietAccounts DEF Effect!Check, Effect!Onward, RunRecords
  <2>4. CASE Effect!Raises(d)
    BY <1>1, <1>3, <1>4, <2>1, <2>2, <2>4, QuietAccounts
       DEF Effect!Check, Effect!Raises, RunRecords
  <2> QED
    BY <1>4, <2>3, <2>4 DEF Effect!Check
<1>5. CASE Effect!Seen(d)
  <2>1. run[d].pc = "running" /\ landed' = landed /\ marker' = marker /\ kind' = kind
    BY <1>5 DEF Effect!Seen, Effect!Step
  <2>2. CASE /\ run[d].subject \in marker /\ flaws' = flaws
             /\ run' = [run EXCEPT ![d].pc = "done", ![d].status = "completed"]
    <3>1. run' = [run EXCEPT ![d] = [run[d] EXCEPT !.pc = "done", !.status = "completed"]]
      BY <1>1, <2>2
    <3> QED
      BY <1>1, <2>1, <2>2, <3>1, QuietAccounts DEF RunRecords
  <2>3. CASE Effect!Onward(d) /\ flaws' = flaws
    BY <1>1, <1>3, <2>1, <2>3, QuietAccounts DEF Effect!Onward, RunRecords
  <2>4. CASE /\ Effect!Fault /\ run' = [run EXCEPT ![d].place = @ + 1, ![d].cached = FALSE]
             /\ flaws' = [Effect!Faulty(flaws) EXCEPT !.lost = @ + 1]
    <3>1. run' = [run EXCEPT ![d] = [run[d] EXCEPT !.place = @ + 1, !.cached = FALSE]]
      BY <1>1, <2>4
    <3>2. flaws.soft => flaws'.soft
      BY <2>4, FaultCounted
    <3> QED
      BY <1>1, <1>3, <2>1, <3>1, <3>2, QuietAccounts DEF RunRecords
  <2> QED
    BY <1>5, <2>2, <2>3, <2>4 DEF Effect!Seen
<1>6. CASE Effect!Mail(d)
  <2>1. /\ run[d].pc = "running" /\ run[d].place <= Effect!Places /\ HasEffect(run[d].place)
        /\ marker' = marker /\ kind' = kind
    BY <1>6 DEF Effect!Mail, Effect!Step, HasEffect, Effect!Effects
  <2>2. /\ \A e \in Dispatches : landed[e][1] >= 1 => landed'[e][1] >= 1
    <3>1. CASE Effect!Land(d)
      <4>1. /\ \A e \in Dispatches : e # d => landed'[e] = landed[e]
            /\ landed'[d][1] >= landed[d][1] /\ landed'[d][1] \in Nat /\ landed[d][1] \in Nat
        BY <1>1, <2>1, <3>1, Lands
      <4> QED
        BY <4>1
    <3>2. CASE landed' = landed
      BY <3>2
    <3> QED
      BY <1>6, <3>1, <3>2 DEF Effect!Mail
  <2>3. CASE Effect!Onward(d) /\ flaws' = flaws
    <3>1. /\ run'[d].status = run[d].status /\ run'[d].subject = run[d].subject
          /\ \A e \in Dispatches : e # d => run'[e] = run[e]
      BY <1>1, <2>3 DEF Effect!Onward, RunRecords
    <3> QED
      BY <2>1, <2>2, <2>3, <3>1 DEF Accounts
  <2>4. CASE /\ run' = [run EXCEPT ![d].pc = "done", ![d].status = "completed"]
             /\ flaws' = [Effect!Faulty(flaws) EXCEPT !.soft = TRUE, !.lost = @ + 1]
    <3>1. /\ run'[d].subject = run[d].subject
          /\ \A e \in Dispatches : e # d => run'[e] = run[e]
      BY <1>1, <2>4 DEF RunRecords
    <3>2. flaws'.soft
      <4>1. PICK g : g = [flaws EXCEPT !.used = flaws.used + 1]
        OBVIOUS
      <4>2. flaws' = [g EXCEPT !.soft = TRUE, !.lost = @ + 1]
        BY <2>4, <4>1 DEF Effect!Faulty
      <4> QED
        BY <1>1, <4>1, <4>2 DEF FlawRecords
    <3> QED
      BY <2>1, <2>2, <3>1, <3>2 DEF Accounts
  <2> QED
    BY <1>6, <2>3, <2>4 DEF Effect!Mail
<1>7. CASE Effect!Mark(d)
  <2>1. /\ run[d].pc = "running" /\ run[d].place <= Effect!Places
        /\ Effect!StepAt(run[d].place) = "mark" /\ Effect!Onward(d)
        /\ landed' = landed /\ kind' = kind
    BY <1>7 DEF Effect!Mark, Effect!Step
  <2>2. landed[d][1] >= 1
    BY <2>1, EmailPlace, PastMail
  <2>3. \A s \in marker' : s \in marker \/ s = run[d].subject
    BY <1>7 DEF Effect!Mark
  <2>4. /\ run'[d].status = run[d].status /\ run'[d].subject = run[d].subject
        /\ \A e \in Dispatches : e # d => run'[e] = run[e]
    BY <1>1, <2>1 DEF Effect!Onward, RunRecords
  <2>5. flaws.soft => flaws'.soft
    BY <1>7, FaultCounted DEF Effect!Mark
  <2> QED
    BY <2>1, <2>2, <2>3, <2>4, <2>5 DEF Accounts
<1>8. CASE Effect!Return(d)
  <2>1. /\ run[d].pc = "running" /\ run[d].place > Effect!Places /\ Effect!Places = 4
        /\ run' = [run EXCEPT ![d] = [run[d] EXCEPT !.pc = "done", !.status = "completed"]]
    BY <1>1, <1>8, EmailKind DEF Effect!Return
  <2>2. run[d].place > 3
    BY <1>1, <2>1 DEF RunRecords
  <2>3. landed[d][1] >= 1
    BY <2>1, <2>2, PastMail
  <2> QED
    BY <1>1, <1>8, <2>1, <2>3, QuietAccounts DEF Effect!Return, RunRecords
<1>9. CASE Effect!NodeTimeout(d) \/ Effect!Dies(d)
  <2>1. PICK s \in {"failed", "lost"} :
          run' = [run EXCEPT ![d].pc = "done", ![d].status = s]
    BY <1>9 DEF Effect!NodeTimeout, Effect!Dies
  <2>2. /\ run'[d].subject = run[d].subject /\ run'[d].status = s
        /\ \A e \in Dispatches : e # d => run'[e] = run[e]
    BY <1>1, <2>1 DEF RunRecords
  <2>3. /\ run[d].pc = "running" /\ marker' = marker /\ kind' = kind
        /\ (flaws.soft => flaws'.soft)
    BY <1>9, FaultCounted DEF Effect!NodeTimeout, Effect!Dies
  <2>4. \A e \in Dispatches : landed[e][1] >= 1 => landed'[e][1] >= 1
    <3>1. CASE landed' = landed
      BY <3>1
    <3>2. CASE Effect!NodeTimeout(d) /\ HasEffect(run[d].place) /\ Effect!Land(d)
      <4>1. run[d].place <= Effect!Places
        BY <3>2 DEF Effect!NodeTimeout
      <4>2. /\ \A e \in Dispatches : e # d => landed'[e] = landed[e]
            /\ landed'[d][1] >= landed[d][1] /\ landed'[d][1] \in Nat /\ landed[d][1] \in Nat
        BY <1>1, <2>3, <3>2, <4>1, Lands
      <4> QED
        BY <4>2
    <3> QED
      BY <1>9, <3>1, <3>2 DEF Effect!NodeTimeout, Effect!Dies, HasEffect, Effect!Effects
  <2> QED
    BY <2>2, <2>3, <2>4 DEF Accounts
<1>10. CASE Effect!Call(d) \/ Effect!Soft(d) \/ Effect!Write(d) \/ Effect!Fire(d)
  <2>1. /\ run[d].pc = "running" /\ run[d].place <= Effect!Places
        /\ Effect!StepAt(run[d].place) \notin {"check", "seen", "mail", "mark"}
    BY <1>10 DEF Effect!Call, Effect!Soft, Effect!Write, Effect!Fire, Effect!Step,
                 Effect!Threaded
  <2> QED
    BY <2>1, EmailPlace
<1> QED
  BY <1>2, <1>4, <1>5, <1>6, <1>7, <1>8, <1>9, <1>10

LEMMA AnsweredNext ==
  ASSUME EffectConstants, EffectInv, Answered, [Effect!Next]_(Effect!nodeVars)
  PROVE  Answered'
<1>1. CASE UNCHANGED Effect!nodeVars
  BY <1>1 DEF Effect!nodeVars, Answered, Effect!Sent
<1>2. CASE \E s \in marker : Effect!MarkerExpires(s)
  <2>1. flaws \in FlawRecords
    BY EffectFacts DEF EffectType
  <2>2. Accounts
    BY <1>2, <2>1 DEF Effect!MarkerExpires, Accounts, FlawRecords
  <2> QED
    BY <2>2, AccountsKeep
<1>3. ASSUME NEW x \in late, Effect!LateEffect(x) PROVE Answered'
  BY <1>3 DEF Effect!LateEffect, EffectInv, Answered
<1>4. ASSUME NEW d \in Dispatches,
             \/ Effect!Start(d) \/ Effect!Check(d) \/ Effect!Call(d) \/ Effect!Soft(d)
             \/ Effect!Write(d) \/ Effect!Fire(d) \/ Effect!Seen(d) \/ Effect!Mail(d)
             \/ Effect!Mark(d) \/ Effect!Return(d) \/ Effect!NodeTimeout(d)
             \/ Effect!Dies(d)
      PROVE  Answered'
  <2>1. kind' = kind
    BY <1>4 DEF Effect!Start, Effect!Check, Effect!Call, Effect!Soft, Effect!Write,
                Effect!Fire, Effect!Seen, Effect!Mail, Effect!Mark, Effect!Return,
                Effect!NodeTimeout, Effect!Dies
  <2>2. CASE kind = "email"
    BY <1>4, <2>2, StepAccounts, AccountsKeep
  <2>3. CASE kind # "email"
    BY <2>1, <2>3 DEF Answered
  <2> QED
    BY <2>2, <2>3
<1> QED
  BY <1>1, <1>2, <1>3, <1>4 DEF Effect!Next

LEMMA EffectSound ==
  ASSUME EffectConstants, EffectInv, Answered
  PROVE  NodesSound
<1>1. Effect!TypeOK
  <2>1. \A d \in Dispatches : run[d] \in RunRecords
    BY EffectFacts DEF EffectType
  <2>2. flaws \in FlawRecords /\ marker \subseteq Effect!Subjects(kind) /\ kind \in NodeKinds
    BY EffectFacts DEF EffectType
  <2> QED
    BY <2>1, <2>2 DEF Effect!TypeOK, RunRecords, FlawRecords
<1>2. Effect!OncePerDispatch
  <2> SUFFICES ASSUME Effect!SideEffecting(kind), NEW d \in Dispatches,
                      NEW i \in 1..Effect!Count
               PROVE  landed[d][i] <= 1
    BY DEF Effect!OncePerDispatch
  <2>1. i = 1
    BY EffectFacts
  <2>2. Single(d)
    BY DEF EffectInv
  <2> QED
    BY <2>1, <2>2 DEF Single
<1>3. Effect!CompletedIsDone
  <2> SUFFICES ASSUME NEW d \in Dispatches, run[d].status = "completed",
                      \E p \in 1..Effect!Places : Effect!StepAt(p) \in Effect!Effects,
                      ~(kind = "webhook" /\ flaws.soft),
                      ~(kind = "email" /\ (flaws.soft \/ Effect!Sent(run[d].subject))),
                      NEW i \in 1..Effect!Count
               PROVE  landed[d][i] >= 1
    BY DEF Effect!CompletedIsDone
  <2>1. \A p \in 1..Effect!Places : HasEffect(p) => landed[d][Effect!ItemAt(p)] >= 1
    BY DEF EffectInv, Behind, Answered
  <2>2. PICK p \in 1..Effect!Places : HasEffect(p) /\ Effect!ItemAt(p) = i
    <3>1. kind \in NodeKinds
      BY EffectFacts DEF EffectType
    <3> QED
      BY <3>1, KindFacts DEF HasEffect
  <2> QED
    BY <2>1, <2>2
<1>4. Effect!MailExplained
  <2> SUFFICES ASSUME kind = "email", NEW d \in Dispatches, NEW e \in Dispatches, d # e,
                      landed[d][1] >= 1, landed[e][1] >= 1, ~flaws.overlap,
                      ~(flaws.lost > 0), ~flaws.expired, run[d].subject = run[e].subject
               PROVE  FALSE
    BY DEF Effect!MailExplained
  <2>1. flaws.lost = 0
    BY EffectFacts DEF EffectType, FlawRecords
  <2>2. OneByOne
    BY <2>1 DEF EffectInv, Clean
  <2>3. landed[d][1] # 0 /\ landed[e][1] # 0
    OBVIOUS
  <2>4. landed[e][1] = 0
    BY <2>2, <2>3 DEF OneByOne, Unsent
  <2> QED
    BY <2>3, <2>4
<1> QED
  BY <1>1, <1>2, <1>3, <1>4 DEF NodesSound, Effect!NodesSound

\* Whatever is lost, retried, timed out or outlives its deadline in a thread,
\* one delivery of a writer or sender has at most one effect, a COMPLETED node
\* had all of its effects or is an email or a webhook whose failure it may
\* swallow, or an email that another delivery sent with the same subject; and a
\* second email with that subject needs deliveries that overlapped, a reply, a
\* worker or the cache lost on the way, or a marker older than a day
\* (BaseNode.run, the writers and senders of nodes/outputs.py, EmailSenderNode).
THEOREM NodesTheorem ==
  ASSUME EffectConstants
  PROVE  Effect!Spec => []NodesSound
<1>1. Effect!Init => EffectInv /\ Answered
  <2>1. Effect!Init => marker = {} /\ \A d \in Dispatches : run[d].status = "none"
    BY DEF Effect!Init, Effect!Fresh
  <2> QED
    BY <2>1, EffectStart DEF Answered
<1>2. EffectInv /\ Answered /\ [Effect!Next]_(Effect!nodeVars) => EffectInv' /\ Answered'
  BY EffectNext, AnsweredNext
<1>3. EffectInv /\ Answered => NodesSound
  BY EffectSound
<1> QED
  BY <1>1, <1>2, <1>3, PTL DEF Effect!Spec
=============================================================================
