---------------------------- MODULE Connections ----------------------------
(***************************************************************************)
(* One saved connection: the endpoints that create, show, edit, test and   *)
(* delete it (router.py), its credentials at rest (connection_crypto.py),  *)
(* the resolver that hands them to a run, and the schema that an agent     *)
(* discovers through it and caches in Redis (schema_cache.py,              *)
(* schema_discovery.py).                                                   *)
(*                                                                         *)
(* One environment of the profile is modelled, with one scalar secret (the *)
(* connection string, password or keys), headers h1 and h2, and one plain  *)
(* field (database, bucket or host).  A stored value is a ciphertext under *)
(* a key, or legacy plaintext.  A secret is named after the request that   *)
(* typed it; Mask is what the list and get endpoints show instead.  A      *)
(* schema is the number of the write whose configuration it was read with. *)
(* Editors run in the service, agents in a worker, each with its own key.  *)
(***************************************************************************)
EXTENDS Integers, FiniteSets

CONSTANTS
  Editors,     \* requests to the connection endpoints
  Agents,      \* agent nodes that look the schema up
  Types,       \* connection types: sql, mongo, bucket, sftp, api
  SchemaTTL, ErrorTTL,
  MaxTime, MaxFaults, MaxRotations,    \* bounds
  Mask, Blank

VARIABLES
  conn,      \* the document in WorkflowConnections
  keys,      \* CONNECTION_ENCRYPTION_KEY of the service and of the worker
  cache,     \* agent:schema:<connection>:<environment>
  now,
  edit,      \* the request handlers
  agent,     \* the agent nodes
  faults

vars == <<conn, keys, cache, now, edit, agent, faults>>

Headers == {"h1", "h2"}
KeyIds  == {"k1", "k2"}
Typed   == Editors \cup {"old"}              \* credentials that somebody typed
Nothing == [key |-> "none", val |-> Blank]

\* encrypt_value: blank stays blank.
Encrypted(k, v) == IF v = Blank THEN Nothing ELSE [key |-> k, val |-> v]

\* decrypt_env_config of one value: a token of another key raises, legacy
\* plaintext is returned as it is.
Readable(k, s)  == s.key \in {k, "plain", "none"}
AllReadable(k, c) == Readable(k, c.secret) /\ \A h \in Headers : Readable(k, c.hdr[h])

\* encrypt_env_config, and assert_encrypted_envelope after it.
Sealed(k, c) == [secret |-> Encrypted(k, c.secret),
                 hdr |-> [h \in Headers |-> Encrypted(k, c.hdr[h])], place |-> c.place]
Enveloped(c) == \A s \in {c.secret} \cup {c.hdr[h] : h \in Headers} :
                  s.val # Blank => s.key \in KeyIds

\* What decrypt_env_config returns when nothing raises.
Plain(c) == [secret |-> c.secret.val, hdr |-> [h \in Headers |-> c.hdr[h].val],
             place |-> c.place]

\* EnvironmentConfig.is_configured: a connection string, URL, host or bucket.
Configured(t, c) == IF t \in {"sql", "mongo", "api"} THEN c.secret # Blank ELSE c.place

\* _mask_connection: what list and get return.
Masked(c) == [secret |-> IF c.secret.val = Blank THEN Blank ELSE Mask,
              hdr |-> [h \in Headers |-> IF c.hdr[h].val = Blank THEN Blank ELSE Mask],
              place |-> c.place]

LooksMasked(v) == v \in {Blank, Mask}

\* Mutant: only the mask means unchanged, and a blank secret wipes the stored one.
OnlyMask(incoming, stored) ==
  [secret |-> IF incoming.secret = Mask THEN stored.secret ELSE incoming.secret,
   hdr |-> IF \A h \in Headers : LooksMasked(incoming.hdr[h]) THEN stored.hdr ELSE incoming.hdr,
   place |-> incoming.place]

\* _merge_env_preserving_secrets: a secret that is blank or masked falls back
\* to the stored one, headers only when all of them are.
Merged(incoming, stored) ==
  [secret |-> IF LooksMasked(incoming.secret) THEN stored.secret ELSE incoming.secret,
   hdr |-> IF \A h \in Headers : LooksMasked(incoming.hdr[h])
           THEN IF \A h \in Headers : stored.hdr[h] = Blank
                THEN incoming.hdr ELSE stored.hdr
           ELSE incoming.hdr,
   place |-> incoming.place]

-----------------------------------------------------------------------------
Configs(values) == [secret : values, hdr : [Headers -> values], place : BOOLEAN]
NoConfig == [secret |-> Blank, hdr |-> [h \in Headers |-> Blank], place |-> FALSE]
NoConn == [exists |-> FALSE, type |-> "sql", gen |-> 0, env |-> Sealed("k1", NoConfig)]

Idle == [pc |-> "idle", view |-> NoConfig, kept |-> FALSE, base |-> 0, merged |-> NoConfig,
         hasEnv |-> FALSE]
Free == [pc |-> "idle", gen |-> 0, secret |-> Blank, place |-> FALSE]

Init ==
  /\ \E t \in Types :
       conn \in {[NoConn EXCEPT !.type = t],
                 [exists |-> TRUE, type |-> t, gen |-> 1,
                  env |-> [secret |-> [key |-> "plain", val |-> "old"],
                           hdr |-> [h \in Headers |-> Nothing], place |-> TRUE]]}
  /\ keys = [service |-> "k1", worker |-> "k1", rotations |-> 0]
  /\ cache = [gen |-> 0, until |-> 0, late |-> FALSE]
  /\ now = 0 /\ faults = 0
  /\ edit = [r \in Editors |-> Idle]
  /\ agent = [a \in Agents |-> Free]

Live == cache.gen # 0 /\ now < cache.until
Fault == faults < MaxFaults /\ faults' = faults + 1
Ends(r) == edit' = [edit EXCEPT ![r] = [Idle EXCEPT !.pc = "done"]]

Tick == /\ now < MaxTime /\ now' = now + 1
        /\ UNCHANGED <<conn, keys, cache, edit, agent, faults>>

\* A redeploy changes the key of one of the two.
RotateKey(who) ==
  /\ keys.rotations < MaxRotations
  /\ keys' = [keys EXCEPT ![who] = "k2", !.rotations = @ + 1]
  /\ keys' # [keys EXCEPT !.rotations = @ + 1]
  /\ UNCHANGED <<conn, cache, now, edit, agent, faults>>

-----------------------------------------------------------------------------
\* The endpoints.

\* create_connection: 422 if neither this environment nor the other one is
\* configured, then sealed and inserted.
CreateConnection(r, c, other) ==
  /\ edit[r].pc = "idle" /\ ~conn.exists /\ conn.gen = 0
  /\ conn' = IF other \/ Configured(conn.type, c)
             THEN [conn EXCEPT !.exists = TRUE, !.gen = @ + 1, !.env = Sealed(keys.service, c)]
             ELSE conn
  /\ Ends(r)
  /\ UNCHANGED <<keys, cache, now, agent, faults>>

\* get_connection, list_connections: the form shows the masks.
GetConnection(r) ==
  /\ edit[r].pc = "idle" /\ conn.exists
  /\ edit' = [edit EXCEPT ![r].pc = "form", ![r].view = Masked(conn.env)]
  /\ UNCHANGED <<conn, keys, cache, now, agent, faults>>

\* What an edit sends: the form fills in the plain fields and leaves every
\* secret blank, and another client echoes what it was shown; each may be
\* typed anew.  A header that is not sent is blank.
Bodies(r) == {c \in Configs({Blank, Mask, r}) :
                /\ c.place = edit[r].view.place
                /\ c.secret \in {Blank, edit[r].view.secret, r}
                /\ \A h \in Headers : c.hdr[h] \in {Blank, edit[r].view.hdr[h], r}}

\* update_connection up to its write: the stored environment is decrypted
\* (a foreign key is a 500) and merged under the body's.
UpdateRead(r) ==
  /\ edit[r].pc = "form"
  /\ \E body \in Bodies(r), hasEnv \in BOOLEAN :
       IF ~conn.exists \/ (hasEnv /\ ~AllReadable(keys.service, conn.env))
       THEN Ends(r)
       ELSE edit' = [edit EXCEPT ![r] =
              [pc |-> "write", view |-> NoConfig, base |-> conn.gen, hasEnv |-> hasEnv,
               kept |-> hasEnv /\ LooksMasked(body.secret),
               merged |-> IF hasEnv THEN Merged(body, Plain(conn.env)) ELSE NoConfig]]
  /\ UNCHANGED <<conn, keys, cache, now, agent, faults>>

\* Its write: $set of the whole environment, or of name and description.
UpdateWrite(r) ==
  /\ edit[r].pc = "write"
  /\ conn' = IF conn.exists /\ edit[r].hasEnv
             THEN [conn EXCEPT !.gen = @ + 1, !.env = Sealed(keys.service, edit[r].merged)]
             ELSE conn
  /\ edit' = [edit EXCEPT ![r] = [Idle EXCEPT !.pc = "invalidate"]]
  /\ UNCHANGED <<keys, cache, now, agent, faults>>

\* delete_connection.
DeleteWrite(r) ==
  /\ edit[r].pc = "form"
  /\ IF conn.exists
     THEN /\ conn' = [conn EXCEPT !.exists = FALSE, !.gen = @ + 1]
          /\ edit' = [edit EXCEPT ![r] = [Idle EXCEPT !.pc = "invalidate"]]
     ELSE UNCHANGED conn /\ Ends(r)
  /\ UNCHANGED <<keys, cache, now, agent, faults>>

\* invalidate_schema: a Redis error is logged and the request succeeds.
Invalidate(r) ==
  /\ edit[r].pc = "invalidate"
  /\ \/ cache' = [gen |-> 0, until |-> 0, late |-> FALSE] /\ UNCHANGED faults
     \/ Fault /\ UNCHANGED cache
  /\ Ends(r)
  /\ UNCHANGED <<conn, keys, now, agent>>

\* test_connection: the stored configuration, decrypted; nothing is written.
TestConnection(r) ==
  /\ edit[r].pc = "form"
  /\ Ends(r)
  /\ UNCHANGED <<conn, keys, cache, now, agent, faults>>

-----------------------------------------------------------------------------
\* Agents.

\* resolve_connection in the worker: found and readable.
Resolves == conn.exists /\ AllReadable(keys.worker, conn.env)

\* get_or_discover_schema: a workflow context that suffices, then the cache.
LookUp(a) ==
  /\ agent[a].pc = "idle"
  /\ \E context \in BOOLEAN :
       agent' = [agent EXCEPT ![a] =
         [Free EXCEPT !.pc = IF context \/ Live THEN "connect" ELSE "discover"]]
  /\ UNCHANGED <<conn, keys, cache, now, edit, faults>>

\* discover_*: the connection is resolved, then the remote is read in a thread.
DiscoverResolve(a) ==
  /\ agent[a].pc = "discover"
  /\ agent' = [agent EXCEPT ![a].pc = "introspect",
                 ![a].gen = IF Resolves THEN conn.gen ELSE 0,
                 ![a].secret = IF Resolves THEN conn.env.secret.val ELSE Blank,
                 ![a].place = Resolves /\ conn.env.place]
  /\ UNCHANGED <<conn, keys, cache, now, edit, faults>>

\* The fields each type needs, for a discovery and for the tools.
DiscoverSql(c)    == c.secret # Blank
DiscoverNosql(c)  == c.secret # Blank /\ c.place
DiscoverBucket(c) == c.place
DiscoverSftp(c)   == c.place
DiscoverApi(c)    == TRUE
Discovers(c) == CASE conn.type = "sql"    -> DiscoverSql(c)
                  [] conn.type = "mongo"  -> DiscoverNosql(c)
                  [] conn.type = "bucket" -> DiscoverBucket(c)
                  [] conn.type = "sftp"   -> DiscoverSftp(c)
                  [] conn.type = "api"    -> DiscoverApi(c)

\* cache_schema: an error (-1) is kept for ErrorTTL; a Redis error is logged.
Cached(g) == cache' = [gen |-> g, until |-> now + (IF g = -1 THEN ErrorTTL ELSE SchemaTTL),
                       late |-> g # conn.gen]
Introspect(a) ==
  /\ agent[a].pc = "introspect"
  /\ \E g \in {-1, agent[a].gen} :
       /\ g # 0 /\ (g # -1 => Discovers(agent[a]))
       /\ \/ Cached(g) /\ UNCHANGED faults
          \/ Fault /\ UNCHANGED cache
       /\ agent' = [agent EXCEPT ![a] = [Free EXCEPT !.pc = "connect"]]
  /\ UNCHANGED <<conn, keys, now, edit>>

\* The tools' connections are resolved once more, before the first LLM call;
\* the node fails when that raises or a required field is missing.
Connect(a) ==
  /\ agent[a].pc = "connect"
  /\ agent' = [agent EXCEPT ![a] =
       IF Resolves /\ Discovers(Plain(conn.env))
       THEN [pc |-> "ready", gen |-> conn.gen, secret |-> conn.env.secret.val,
             place |-> conn.env.place]
       ELSE [Free EXCEPT !.pc = "failed"]]
  /\ UNCHANGED <<conn, keys, cache, now, edit, faults>>

-----------------------------------------------------------------------------
Next ==
  \/ Tick
  \/ \E who \in {"service", "worker"} : RotateKey(who)
  \/ \E r \in Editors :
       \/ \E c \in Configs({Blank, r}), other \in BOOLEAN : CreateConnection(r, c, other)
       \/ GetConnection(r) \/ UpdateRead(r) \/ UpdateWrite(r)
       \/ DeleteWrite(r) \/ Invalidate(r) \/ TestConnection(r)
  \/ \E a \in Agents : LookUp(a) \/ DiscoverResolve(a) \/ Introspect(a) \/ Connect(a)

Spec == Init /\ [][Next]_vars

-----------------------------------------------------------------------------
Values == Typed \cup {Blank, Mask}
Stored == [key : KeyIds \cup {"plain", "none"}, val : Values]
TypeOK ==
  /\ conn \in [exists : BOOLEAN, type : Types, gen : Nat,
               env : [secret : Stored, hdr : [Headers -> Stored], place : BOOLEAN]]
  /\ keys \in [service : KeyIds, worker : KeyIds, rotations : 0..MaxRotations]
  /\ cache \in [gen : Int, until : Nat, late : BOOLEAN]
  /\ now \in 0..MaxTime /\ faults \in 0..MaxFaults
  /\ \A r \in Editors : edit[r].pc \in {"idle", "form", "write", "invalidate", "done"}
  /\ \A a \in Agents :
       agent[a].pc \in {"idle", "discover", "introspect", "connect", "ready", "failed"}

\* No edit stores a display mask as the scalar credential, whatever the form
\* echoed, and everything that was written is sealed: only a profile nobody
\* wrote since encryption came is plaintext (update_connection).
CredentialsSound ==
  /\ conn.env.secret.val # Mask
  /\ conn.exists /\ (conn.gen > 1 \/ conn.env.secret.key # "plain") => Enveloped(conn.env)

\* An agent that got past the resolver has the credential that somebody typed,
\* neither a mask nor a ciphertext, and of a write that really happened; SQL and
\* MongoDB tools never run without one (decrypt_env_config fails loud on a
\* foreign key).
RunsWithTyped ==
  \A a \in Agents : agent[a].pc = "ready" =>
    /\ agent[a].secret \in Typed \cup (IF conn.type \in {"sql", "mongo"} THEN {} ELSE {Blank})
    /\ agent[a].gen \in 1..conn.gen

\* The cached schema follows the connection: a live entry of an older
\* configuration was already old when it was stored (its discovery overlapped
\* the edit), or its invalidation is still to come or was lost.
SchemaFollows ==
  Live /\ cache.gen # -1 /\ cache.gen # conn.gen =>
    cache.late \/ faults > 0 \/ \E r \in Editors : edit[r].pc = "invalidate"

\* "Merge an incoming env config over the existing stored one, preserving any
\* secret the client left blank or echoed back": it does, unless another edit
\* is written between this edit's read and its write.
SecretKept ==
  \A r \in Editors :
    (edit[r].pc = "write" /\ edit[r].kept /\ conn.exists /\ edit[r].base = conn.gen)
        => edit[r].merged.secret = conn.env.secret.val

\* A connection keeps its credentials through edits, rotations of the keys and
\* the agents that use it, and the schema cached for it follows.
ConnectionsSound ==
  TypeOK /\ CredentialsSound /\ RunsWithTyped /\ SchemaFollows /\ SecretKept

-----------------------------------------------------------------------------
\* Statements of comments that the code does not keep.

\* "re-encrypting it would store the MASK as the credential and silently break
\* the connection": with one header typed anew and another left as shown, the
\* shown one is stored.
NoHeaderMask == \A h \in Headers : conn.env.hdr[h].val # Mask

\* An echoed mask keeps the newest secret, also across a concurrent edit.
NoSecretRevert ==
  [][\A r \in Editors :
       (edit[r].pc = "write" /\ edit'[r].pc = "invalidate" /\ edit[r].kept /\ conn.exists)
           => conn'.env.secret.val = conn.env.secret.val]_vars

\* "Invalidate cached schema so the next agent run re-discovers it".
NextRunRediscovers ==
  Live /\ cache.gen > 0 /\ cache.gen # conn.gen =>
    \E r \in Editors : edit[r].pc = "invalidate"
=============================================================================
