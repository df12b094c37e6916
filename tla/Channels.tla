------------------------------ MODULE Channels ------------------------------
(***************************************************************************)
(* Channel connections of one organisation (connections.py), their secrets *)
(* in AWS Secrets Manager behind the process's TTL cache (core/secrets.py, *)
(* core/cache.py), and the two readers of both: the webhook route, which   *)
(* verifies a signature with the connection's secret before it enqueues    *)
(* (webhooks.py), and the worker, which picks a connection to send through *)
(* (worker._find_connection).                                              *)
(*                                                                         *)
(* A secret is the number of its version, 0 while there is none; deleting  *)
(* it counts as a version nobody can read.  Time is                        *)
(* a Tick of the monotonic clock; the cache keeps what is left of an       *)
(* entry's TTL.  Everything between two awaits is one step.                *)
(***************************************************************************)
EXTENDS Naturals, FiniteSets

CONSTANTS
  Conns,        \* connections, numbered in the order of created_at
  ChannelOf,    \* "whatsapp" stands for every channel with credentials, or "email"
  Shared,       \* a secret key an engineer provisioned out of band
  NoKey,        \* the empty credentials_secret_key
  Readers,      \* webhook calls and worker iterations
  CacheTtl,     \* _CACHE_TTL_SECONDS, in ticks
  MaxLag,       \* ticks a response of Secrets Manager may be under way
  MaxVersion    \* bound on rotations of a secret

ASSUME ChannelsAssumption ==
  /\ Conns \subseteq Nat
  /\ ChannelOf \in [Conns -> {"whatsapp", "email"}]
  /\ Shared \notin Conns /\ NoKey \notin Conns \cup {Shared}
  /\ CacheTtl \in Nat \ {0} /\ MaxLag \in Nat /\ MaxVersion \in Nat \ {0}

Keys == Conns \cup {Shared}

VARIABLES
  adm,       \* progress of each connection's create_connection call
  row,       \* channel_connections.status; "absent" without a row
  key,       \* channel_connections.credentials_secret_key
  domains,   \* connections whose sending domain SES has begun to verify
  secret,    \* Secrets Manager: current version of each key
  gone,      \* keys whose secret was deleted
  cache,     \* the cached version of each key (0: none) and what is left of its TTL
  rotating,  \* keys whose put_secret has written and not yet dropped the cache entry
  rd,        \* what each reader does
  ago,       \* history: ticks since a version was replaced, capped
  clean      \* history: the version the last put_secret of a key wrote, if no read
             \* of the key was under way when it returned; else 0

admin == <<adm, row, key, domains>>
stored == <<secret, gone>>
vars == <<adm, row, key, domains, secret, gone, cache, rotating, rd, ago, clean>>

Cap == CacheTtl + MaxLag
Idle == [pc |-> "idle", conn |-> 0, key |-> NoKey, version |-> 0, lag |-> 0]
At(pc, c, k) == [Idle EXCEPT !.pc = pc, !.conn = c, !.key = k]

Init ==
  /\ adm = [c \in Conns |-> "new"]
  /\ row = [c \in Conns |-> "absent"]
  /\ key = [c \in Conns |-> NoKey]
  /\ domains = {}
  /\ secret = [k \in Keys |-> IF k = Shared THEN 1 ELSE 0]
  /\ gone = {}
  /\ cache = [k \in Keys |-> [version |-> 0, left |-> 0]]
  /\ rotating = {}
  /\ rd = [r \in Readers |-> Idle]
  /\ ago = [k \in Keys |-> [v \in 1..MaxVersion |-> 0]]
  /\ clean = [k \in Keys |-> 0]

-----------------------------------------------------------------------------
(***************************************************************************)
(* TTLCache and Secrets Manager.                                           *)
(***************************************************************************)

\* Mutant: an entry is served whatever is left of its TTL.
CachedForever(k) == cache[k].version # 0

\* TTLCache.get: `time.monotonic() >= expires_at` is a miss.
Cached(k) == cache[k].version # 0 /\ cache[k].left > 0

CacheSet(k, v) == cache' = [cache EXCEPT ![k] = [version |-> v, left |-> CacheTtl]]

CacheDelete(k) == cache' = [cache EXCEPT ![k] = [version |-> 0, left |-> 0]]

\* A new version becomes the current one.
Write(k) ==
  /\ secret[k] < MaxVersion
  /\ secret' = [secret EXCEPT ![k] = @ + 1]

\* Reads of key k whose answer is on its way to the cache.
UnderWay(k) == {r \in Readers : rd[r].pc = "fetched" /\ rd[r].key = k}

\* put_secret returns, having dropped the cache entry.
PutReturns(k) ==
  /\ CacheDelete(k)
  /\ clean' = [clean EXCEPT ![k] = IF UnderWay(k) = {} THEN secret[k] ELSE 0]

\* Time passes; no answer of Secrets Manager takes longer than MaxLag, and between
\* the return of get_secret and the use of the secret there is no await.
Tick ==
  /\ \A r \in Readers :
       /\ rd[r].pc = "fetched" => rd[r].lag < MaxLag
       /\ rd[r].pc # "got"
  /\ rd' = [r \in Readers |-> IF rd[r].pc = "fetched" THEN [rd[r] EXCEPT !.lag = @ + 1]
                              ELSE rd[r]]
  /\ cache' = [k \in Keys |-> [cache[k] EXCEPT !.left = IF @ > 0 THEN @ - 1 ELSE 0]]
  /\ ago' = [k \in Keys |-> [v \in 1..MaxVersion |->
               IF v < secret[k] /\ ago[k][v] < Cap THEN ago[k][v] + 1 ELSE ago[k][v]]]
  /\ UNCHANGED <<admin, stored, rotating, clean>>

\* There is a secret under k.
Exists(k) == secret[k] > 0 /\ k \notin gone

\* An engineer rotates a secret in AWS, behind the back of the cache ...
RotateOutOfBand(k) ==
  /\ Exists(k) /\ Write(k)
  /\ UNCHANGED <<gone, admin, cache, rotating, rd, ago, clean>>

\* ... or deletes it.
DeleteOutOfBand(k) ==
  /\ Exists(k) /\ Write(k)
  /\ gone' = gone \cup {k}
  /\ UNCHANGED <<admin, cache, rotating, rd, ago, clean>>

\* Mutant: the cache entry is dropped before the new value is written.
RotateWriteDropsFirst(k) ==
  /\ Exists(k) /\ k \notin rotating /\ Write(k)
  /\ clean' = [clean EXCEPT ![k] = IF UnderWay(k) = {} THEN secret[k] + 1 ELSE 0]
  /\ UNCHANGED <<gone, admin, cache, rotating, rd, ago>>

\* put_secret of an existing key: put_secret_value succeeds ...
RotateWrite(k) ==
  /\ Exists(k) /\ k \notin rotating /\ Write(k)
  /\ rotating' = rotating \cup {k}
  /\ UNCHANGED <<gone, admin, cache, rd, ago, clean>>

\* ... and the call goes on to drop the cache entry.
RotateReturn(k) ==
  /\ k \in rotating
  /\ rotating' = rotating \ {k}
  /\ PutReturns(k)
  /\ UNCHANGED <<admin, stored, rd, ago>>

-----------------------------------------------------------------------------
(***************************************************************************)
(* create_connection and disable_connection.                               *)
(***************************************************************************)

\* The caller is an admin and the arguments are valid: a raw credential, the key of
\* an existing secret, or for email an address.
CreateBegin(c, how) ==
  /\ adm[c] = "new"
  /\ (how = "domain") = (ChannelOf[c] = "email")
  /\ adm' = [adm EXCEPT ![c] = how]
  /\ UNCHANGED <<row, key, domains, stored, cache, rotating, rd, ago, clean>>

\* Mutant: a failed create_secret is logged, and the connection made anyway.
CreateSecretLenient(c) ==
  /\ adm[c] = "credentials"
  /\ \/ Write(c)
     \/ UNCHANGED secret
  /\ PutReturns(c)
  /\ adm' = [adm EXCEPT ![c] = "insert"]
  /\ key' = [key EXCEPT ![c] = c]
  /\ UNCHANGED <<gone, row, domains, rotating, rd, ago>>

\* put_secret under the connection's own new id: put_secret_value finds nothing,
\* create_secret writes.  Nobody can have asked for this key before.
CreateSecret(c) ==
  /\ adm[c] = "credentials"
  /\ secret[c] = 0 /\ Write(c)
  /\ CacheDelete(c)
  /\ clean' = [clean EXCEPT ![c] = 1]
  /\ adm' = [adm EXCEPT ![c] = "insert"]
  /\ key' = [key EXCEPT ![c] = c]
  /\ UNCHANGED <<gone, row, domains, rotating, rd, ago>>

\* get_secret of the key the caller names, which may be any: one provisioned out of band
\* or the id of another connection.  It has to resolve, here as for any reader.
CheckSecretKey(c, k, r) ==
  /\ adm[c] = "key" /\ rd[r].pc = "idle"
  /\ rd' = [rd EXCEPT ![r] = At("admin", c, k)]
  /\ adm' = [adm EXCEPT ![c] = "lookup"]
  /\ UNCHANGED <<row, key, domains, stored, cache, rotating, ago, clean>>

SecretKeyResolved(c, r) ==
  /\ adm[c] = "lookup" /\ rd[r].pc = "got" /\ rd[r].conn = c
  /\ rd' = [rd EXCEPT ![r] = Idle]
  /\ adm' = [adm EXCEPT ![c] = "insert"]
  /\ key' = [key EXCEPT ![c] = rd[r].key]
  /\ UNCHANGED <<row, domains, stored, cache, rotating, ago, clean>>

\* start_domain_verification: SES begins to verify, then the settings name the domain.
VerifyDomain(c) ==
  /\ adm[c] = "domain"
  /\ domains' = domains \cup {c}
  /\ adm' = [adm EXCEPT ![c] = "insert"]
  /\ UNCHANGED <<row, key, stored, cache, rotating, rd, ago, clean>>

\* The INSERT commits; audit, event and the answer follow.
CreateCommit(c) ==
  /\ adm[c] = "insert"
  /\ row' = [row EXCEPT ![c] = "active"]
  /\ adm' = [adm EXCEPT ![c] = "done"]
  /\ UNCHANGED <<key, domains, stored, cache, rotating, rd, ago, clean>>

\* Any raise before the commit: validation, Secrets Manager, SES, Postgres.
CreateRaises(c) ==
  /\ adm[c] \notin {"done", "raised"}
  /\ adm' = [adm EXCEPT ![c] = "raised"]
  /\ rd' = [r \in Readers |-> IF rd[r].conn = c THEN Idle ELSE rd[r]]
  /\ UNCHANGED <<row, key, domains, stored, cache, rotating, ago, clean>>

create_connection(c) ==
  \/ \E how \in {"credentials", "key", "domain"} : CreateBegin(c, how)
  \/ CreateSecret(c)
  \/ \E r \in Readers :
       \/ \E k \in Keys : CheckSecretKey(c, k, r)
       \/ SecretKeyResolved(c, r)
  \/ VerifyDomain(c)
  \/ CreateCommit(c)
  \/ CreateRaises(c)

\* disable_connection: the status is committed; the secret stays.
disable_connection(c) ==
  /\ row[c] = "active"
  /\ row' = [row EXCEPT ![c] = "disabled"]
  /\ UNCHANGED <<adm, key, domains, stored, cache, rotating, rd, ago, clean>>

-----------------------------------------------------------------------------
(***************************************************************************)
(* Readers: handle_webhook and verify_subscription, which load the row     *)
(* their URL names, and the worker, which looks for an active one.         *)
(***************************************************************************)

\* _resolve_connection: an unknown, disabled or mismatched connection is a 404.
LoadConnection(r, c) ==
  /\ rd[r].pc = "idle"
  /\ row[c] = "active"
  /\ rd' = [rd EXCEPT ![r] = At("webhook", c, key[c])]
  /\ UNCHANGED <<admin, stored, cache, rotating, ago, clean>>

\* _find_connection: the oldest active connection of the channel; the worker reads a
\* secret only for a channel that has one.
FindConnection(r, c) ==
  /\ rd[r].pc = "idle"
  /\ row[c] = "active" /\ ChannelOf[c] # "email"
  /\ \A d \in Conns : row[d] = "active" /\ ChannelOf[d] = ChannelOf[c] => c <= d
  /\ rd' = [rd EXCEPT ![r] = At("worker", c, key[c])]
  /\ UNCHANGED <<admin, stored, cache, rotating, ago, clean>>

\* get_secret, hit: the cached version is used without an await.
GetSecretHit(r) ==
  /\ rd[r].pc \in {"admin", "webhook", "worker"}
  /\ rd[r].key # NoKey /\ Cached(rd[r].key)
  /\ rd' = [rd EXCEPT ![r].pc = "got", ![r].version = cache[rd[r].key].version]
  /\ UNCHANGED <<admin, stored, cache, rotating, ago, clean>>

\* get_secret, miss: Secrets Manager answers with the current version ...
GetSecretFetch(r) ==
  /\ rd[r].pc \in {"admin", "webhook", "worker"}
  /\ rd[r].key # NoKey /\ ~Cached(rd[r].key) /\ Exists(rd[r].key)
  /\ rd' = [rd EXCEPT ![r].pc = "fetched", ![r].version = secret[rd[r].key]]
  /\ UNCHANGED <<admin, stored, cache, rotating, ago, clean>>

\* ... and when the answer gets here it is cached, whatever happened meanwhile.
GetSecretStore(r) ==
  /\ rd[r].pc = "fetched"
  /\ CacheSet(rd[r].key, rd[r].version)
  /\ rd' = [rd EXCEPT ![r].pc = "got"]
  /\ UNCHANGED <<admin, stored, rotating, ago, clean>>

\* With the secret at hand the signature is verified and the payload enqueued, the
\* handshake answered, or the message sent.
UseSecret(r) ==
  /\ rd[r].pc = "got" /\ adm[rd[r].conn] = "done"
  /\ rd' = [rd EXCEPT ![r] = Idle]
  /\ UNCHANGED <<admin, stored, cache, rotating, ago, clean>>

\* Any raise: no such secret (always so for email's empty key), a bad signature, SQS.
ReaderRaises(r) ==
  /\ rd[r].pc # "idle" /\ adm[rd[r].conn] = "done"
  /\ rd' = [rd EXCEPT ![r] = Idle]
  /\ UNCHANGED <<admin, stored, cache, rotating, ago, clean>>

get_secret(r) == GetSecretHit(r) \/ GetSecretFetch(r) \/ GetSecretStore(r)

\* The process restarts with an empty cache; requests and iterations are gone.
Crash ==
  /\ cache' = [k \in Keys |-> [version |-> 0, left |-> 0]]
  /\ rd' = [r \in Readers |-> Idle]
  /\ rotating' = {}
  /\ adm' = [c \in Conns |-> IF adm[c] \in {"new", "done"} THEN adm[c] ELSE "raised"]
  /\ UNCHANGED <<row, key, domains, stored, ago, clean>>

Next ==
  \/ \E c \in Conns : create_connection(c) \/ disable_connection(c)
  \/ \E r \in Readers :
       \/ \E c \in Conns : LoadConnection(r, c) \/ FindConnection(r, c)
       \/ get_secret(r)
       \/ UseSecret(r)
       \/ ReaderRaises(r)
  \/ \E k \in Keys :
       \/ RotateOutOfBand(k) \/ DeleteOutOfBand(k)
       \/ RotateWrite(k) \/ RotateReturn(k)
  \/ Tick
  \/ Crash

Spec == Init /\ [][Next]_vars

-----------------------------------------------------------------------------
TypeOK ==
  /\ adm \in [Conns -> {"new", "credentials", "key", "lookup", "domain", "insert",
                   "done", "raised"}]
  /\ row \in [Conns -> {"absent", "active", "disabled"}]
  /\ key \in [Conns -> Keys \cup {NoKey}]
  /\ domains \subseteq Conns
  /\ secret \in [Keys -> 0..MaxVersion]
  /\ gone \subseteq Keys
  /\ cache \in [Keys -> [version : 0..MaxVersion, left : 0..CacheTtl]]
  /\ rotating \subseteq Keys
  /\ rd \in [Readers -> [pc : {"idle", "admin", "webhook", "worker", "fetched", "got"},
                         conn : Conns \cup {0}, key : Keys \cup {NoKey},
                         version : 0..MaxVersion, lag : 0..MaxLag]]
  /\ ago \in [Keys -> [1..MaxVersion -> 0..Cap]]
  /\ clean \in [Keys -> 0..MaxVersion]

(***************************************************************************)
(* A connection never exists without what it needs: before the row is      *)
(* committed its secret has been in Secrets Manager, or its domain is      *)
(* being verified, whatever fails on the way.  Connections may share a     *)
(* secret, and one an engineer deletes may be taken by a connection while  *)
(* a process caches it, so that no more can be said (connections.py:       *)
(* 182-220).                                                               *)
(***************************************************************************)
NoHalfConnection ==
  \A c \in Conns : row[c] # "absent" =>
    IF ChannelOf[c] = "email" THEN c \in domains
    ELSE key[c] # NoKey /\ secret[key[c]] > 0

(***************************************************************************)
(* Whoever verifies a webhook or sends a message does so with a secret     *)
(* that was the current one less than the TTL and one answer's delay ago,  *)
(* however and by whom it was rotated or deleted (secrets.py:20-24).       *)
(***************************************************************************)
SecretInUseIsRecent ==
  \A r \in Readers : rd[r].pc = "got" =>
    /\ rd[r].version > 0
    /\ rd[r].version < secret[rd[r].key] => ago[rd[r].key][rd[r].version] < Cap

(***************************************************************************)
(* "A read immediately after a write is never stale" (secrets.py:22): if   *)
(* no read of the key was under way when put_secret returned, no later     *)
(* read is served an older version from the cache.                         *)
(***************************************************************************)
FreshAfterPut ==
  \A k \in Keys : Cached(k) => cache[k].version >= clean[k]

=============================================================================
