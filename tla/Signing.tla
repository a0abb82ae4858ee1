------------------------------- MODULE Signing -------------------------------
(***************************************************************************)
(* sign_v1 and verify_v1 (api/v1.rs) with the signing keys of KeyService   *)
(* (services/key_service.rs): worker threads of the runtime take requests, *)
(* find the tenant's key behind the lock of a shard of the RSA cache,      *)
(* generate it there when it is missing, and use it after the lock is      *)
(* released.  The cache is lost when the process ends.                     *)
(*                                                                         *)
(* Signatures are idealised: one verifies with the key and the message it  *)
(* was made from.  ed25519_cache only keeps a function of the tenant's     *)
(* name, so nothing depends on what is in it and it is left out.           *)
(***************************************************************************)
EXTENDS Naturals, FiniteSets, Policy

CONSTANTS
  Workers,   \* threads of the runtime: a request that waits for a lock blocks one
  Tenants,   \* tenant ids that requests name
  Messages,  \* data that is base64
  NamesRsa,  \* the policy names that contain "rsa" once trimmed and lowered
  RsaKeys,   \* RSA keys a generation may draw
  Shards,    \* shards of the DashMap rsa_cache
  ShardOf,   \* the shard of a tenant
  MaxKept,   \* bound: signatures that clients keep
  BadB64,    \* a field that is not base64
  Garbage,   \* a signature field that no signing produced
  NoKey, NoSig,
  Idle,      \* a worker without a request
  Refused,   \* a worker that has answered 400 before it looked for a key
  Free       \* a lock that nobody holds

VARIABLES
  jobs,      \* per worker the request it works on, Idle or Refused
  rsa_cache, \* per tenant its RSA key, or NoKey
  holder,    \* per shard of rsa_cache the worker that holds its lock, or Free
  kept       \* signatures that clients keep, and whether they are of this life

vars == <<jobs, rsa_cache, holder, kept>>

\* Mutant: one seed for all tenants.
ed25519_key_Shared(tenant) == <<"ed25519", "">>

\* The Ed25519 key: its seed is the digest of the tenant's name.
ed25519_key(tenant) == <<"ed25519", tenant>>

SigningKeys == RsaKeys \cup {ed25519_key(t) : t \in Tenants}

\* A request with how far its worker has come: waiting for the lock of the
\* shard, holding it, with a key of its own, or answered.
Jobs ==
  [op : {"sign", "verify"}, tenant : Tenants, rsa : BOOLEAN, msg : Messages,
   sig : [key : SigningKeys, msg : Messages] \cup {Garbage, NoSig},
   stage : {"entry", "generating", "keyed", "answered"},
   key : SigningKeys \cup {NoKey}, status : {0, 200, 400}]

ASSUME SigningAssumption ==
  /\ NamesRsa \subseteq AlgNames
  /\ ShardOf \in [Tenants -> Shards]
  /\ MaxKept \in Nat
  /\ {Idle, Refused} \cap Jobs = {} /\ Idle # Refused
  /\ {Garbage, NoSig} \cap [key : SigningKeys, msg : Messages] = {}
  /\ Free \notin Workers
  /\ NoKey \notin SigningKeys \cup [tenant : Tenants, key : RsaKeys]
  /\ RsaKeys \cap {ed25519_key(t) : t \in Tenants} = {}

\* A signature_b64: what it was made from.
Signature(key, msg) == [key |-> key, msg |-> msg]

-----------------------------------------------------------------------------
\* A worker takes a request and does the checks that need no key; what passes
\* them goes on to the key, which for Ed25519 is there at once.
Accept(w, op, tenant, policy, msg, sig, passes) ==
  /\ jobs[w] = Idle
  /\ jobs' = [jobs EXCEPT ![w] =
       IF ~passes THEN Refused
       ELSE [op |-> op, tenant |-> tenant, rsa |-> policy \in NamesRsa, msg |-> msg, sig |-> sig,
             stage  |-> IF policy \in NamesRsa THEN "entry" ELSE "keyed",
             key    |-> IF policy \in NamesRsa THEN NoKey ELSE ed25519_key(tenant),
             status |-> 0]]
  /\ UNCHANGED <<rsa_cache, holder, kept>>

\* POST /v1/crypto/sign.  Its check that a store serves the tenant never fails:
\* create_app has registered "default".
sign_v1(w, tenant, policy, level, msg) ==
  Accept(w, "sign", tenant, policy, msg, NoSig, Compliant(policy, level) /\ msg # BadB64)

\* POST /v1/crypto/verify
verify_v1(w, tenant, policy, level, msg, sig) ==
  Accept(w, "verify", tenant, policy, msg, sig,
         Compliant(policy, level) /\ BadB64 \notin {msg, sig})

-----------------------------------------------------------------------------
At(w, stage) == jobs[w] \notin {Idle, Refused} /\ jobs[w].stage = stage

Shard(w) == ShardOf[jobs[w].tenant]

GetsKey(w, key) == jobs' = [jobs EXCEPT ![w] = [@ EXCEPT !.stage = "keyed", !.key = key]]

\* Mutant: the cache is read and written under separate locks.
LockShard_NoLock(w) ==
  /\ At(w, "entry")
  /\ IF rsa_cache[jobs[w].tenant] = NoKey
       THEN /\ jobs' = [jobs EXCEPT ![w].stage = "generating"]
            /\ UNCHANGED holder
       ELSE GetsKey(w, rsa_cache[jobs[w].tenant]) /\ UNCHANGED holder
  /\ UNCHANGED <<rsa_cache, kept>>

\* Mutant: a missing entry is taken as it is.
LockShard_Vacant(w) ==
  /\ At(w, "entry")
  /\ holder[Shard(w)] = Free
  /\ GetsKey(w, rsa_cache[jobs[w].tenant])
  /\ UNCHANGED <<rsa_cache, holder, kept>>

\* rsa_cache.entry(): waits for the shard's lock.  An occupied entry is cloned
\* and the lock released; a vacant one is held while the key is generated.
LockShard(w) ==
  /\ At(w, "entry")
  /\ holder[Shard(w)] = Free
  /\ IF rsa_cache[jobs[w].tenant] = NoKey
       THEN /\ jobs' = [jobs EXCEPT ![w].stage = "generating"]
            /\ holder' = [holder EXCEPT ![Shard(w)] = w]
       ELSE GetsKey(w, rsa_cache[jobs[w].tenant]) /\ UNCHANGED holder
  /\ UNCHANGED <<rsa_cache, kept>>

\* OsRng never draws a key a second time.
FreshKeys ==
  RsaKeys \ ({rsa_cache[t] : t \in Tenants} \cup {s.sig.key : s \in kept})

\* or_insert_with: the key goes into the map, is cloned, and the lock released.
Generate(w) ==
  /\ At(w, "generating")
  /\ \E k \in FreshKeys :
       /\ rsa_cache' = [rsa_cache EXCEPT ![jobs[w].tenant] = k]
       /\ GetsKey(w, k)
  /\ holder' = [holder EXCEPT ![Shard(w)] = Free]
  /\ UNCHANGED kept

\* Mutant: the lock is not released when the generation panics.
GenerationFails_KeepsLock(w) ==
  /\ At(w, "generating")
  /\ jobs' = [jobs EXCEPT ![w] = Idle]
  /\ UNCHANGED <<rsa_cache, holder, kept>>

\* expect() panics: unwinding drops the entry and with it the lock, and the
\* connection is closed without an answer.
GenerationFails(w) ==
  /\ At(w, "generating")
  /\ jobs' = [jobs EXCEPT ![w] = Idle]
  /\ holder' = [holder EXCEPT ![Shard(w)] = Free]
  /\ UNCHANGED <<rsa_cache, kept>>

\* The handler signs with the key it cloned, and the client may keep the answer.
Sign(w) ==
  LET sig == Signature(jobs[w].key, jobs[w].msg)
  IN /\ At(w, "keyed") /\ jobs[w].op = "sign"
     /\ jobs' = [jobs EXCEPT ![w] = [@ EXCEPT !.stage = "answered", !.status = 200, !.sig = sig]]
     /\ kept' = IF Cardinality(kept) < MaxKept
                  THEN kept \cup {[tenant |-> jobs[w].tenant, rsa |-> jobs[w].rsa,
                                   sig |-> sig, current |-> TRUE]}
                  ELSE kept
     /\ UNCHANGED <<rsa_cache, holder>>

\* The handler verifies with the key it cloned.
Verify(w) ==
  /\ At(w, "keyed") /\ jobs[w].op = "verify"
  /\ LET ok == jobs[w].sig = Signature(jobs[w].key, jobs[w].msg)
     IN jobs' = [jobs EXCEPT ![w] =
                   [@ EXCEPT !.stage = "answered", !.status = IF ok THEN 200 ELSE 400]]
  /\ UNCHANGED <<rsa_cache, holder, kept>>

\* The worker is free for the next request.
TakeAnswer(w) ==
  /\ jobs[w] = Refused \/ At(w, "answered")
  /\ jobs' = [jobs EXCEPT ![w] = Idle]
  /\ UNCHANGED <<rsa_cache, holder, kept>>

\* The process ends, whatever its workers are doing, and is started again.
Restart ==
  /\ jobs' = [w \in Workers |-> Idle]
  /\ rsa_cache' = [t \in Tenants |-> NoKey]
  /\ holder' = [s \in Shards |-> Free]
  /\ kept' = {[s EXCEPT !.current = FALSE] : s \in kept}

-----------------------------------------------------------------------------
Init ==
  /\ jobs = [w \in Workers |-> Idle]
  /\ rsa_cache = [t \in Tenants |-> NoKey]
  /\ holder = [s \in Shards |-> Free]
  /\ kept = {}

Sent == {s.sig : s \in kept} \cup {BadB64, Garbage}

Request(w, t, p) ==
  \E l \in Levels, m \in Messages \cup {BadB64} :
    \/ sign_v1(w, t, p, l, m)
    \/ \E s \in Sent : verify_v1(w, t, p, l, m, s)

Step(w) == LockShard(w) \/ Generate(w) \/ GenerationFails(w) \/ Sign(w) \/ Verify(w)

Next ==
  \/ \E w \in Workers : \/ \E t \in Tenants, p \in AlgNames : Request(w, t, p)
                        \/ Step(w) \/ TakeAnswer(w)
  \/ Restart

\* The threads of the runtime run.  Nothing is assumed of the clients, nor that
\* the lock of a shard is granted in the order in which it is asked for.
Spec == Init /\ [][Next]_vars /\ \A w \in Workers : WF_vars(Step(w))

-----------------------------------------------------------------------------
\* The type invariant; who works with a key (after rsa_key or ed25519_key has
\* returned, v1.rs:56, 62, 77, 83) has one.
TypeOK ==
  /\ jobs \in [Workers -> Jobs \cup {Idle, Refused}]
  /\ \A w \in Workers : At(w, "keyed") => jobs[w].key # NoKey
  /\ rsa_cache \in [Tenants -> RsaKeys \cup {NoKey}]
  /\ holder \in [Shards -> Workers \cup {Free}]
  /\ kept \subseteq [tenant : Tenants, rsa : BOOLEAN, current : BOOLEAN,
                     sig : [key : SigningKeys, msg : Messages]]

\* A request that passes verify_v1's checks is answered with 200 exactly when
\* this tenant made this signature of this message, with a key of the same
\* kind, and for RSA in this life of the process: whichever workers raced to
\* generate the key, and however often the process was restarted
\* (v1.rs:74-86, key_service.rs:85).
VerifiesWhatWasSigned ==
  \A w \in Workers :
    At(w, "answered") /\ jobs[w].op = "verify" =>
      (jobs[w].status = 200 <=>
         \E s \in kept : /\ s.tenant = jobs[w].tenant
                         /\ s.rsa = jobs[w].rsa
                         /\ s.sig = jobs[w].sig
                         /\ s.sig.msg = jobs[w].msg
                         /\ s.rsa => s.current)

\* A shard is locked exactly while a worker generates the missing key of one of
\* its tenants: no answer, no panic of a generation and no new life of the process
\* leaves a lock behind, and no key is generated in the place of another
\* (key_service.rs:86-92).
LockedWhileGenerating ==
  \A w \in Workers :
    /\ \A s \in Shards : holder[s] = w <=> At(w, "generating") /\ Shard(w) = s
    /\ At(w, "generating") => rsa_cache[jobs[w].tenant] = NoKey

\* The cache, with its shard locks and generations that may fail, hands out
\* one key per tenant and life (key_service.rs:84-93).
Once == INSTANCE KeyOnce
          WITH Users <- Workers, Material <- RsaKeys, key <- rsa_cache,
               held <- [w \in Workers |->
                          IF At(w, "keyed") /\ jobs[w].rsa
                            THEN [tenant |-> jobs[w].tenant, key |-> jobs[w].key]
                            ELSE NoKey]

ImplementsKeyOnce == Once!Spec

\* Unless clients ask for RSA keys of one shard for ever, every request that
\* waits for that shard gets its answer: no generation, failed or not, leaves
\* the shard locked, and other shards and Ed25519 never stand in the way
\* (key_service.rs:86-92).
InShard(w, s) == jobs[w] \notin {Idle, Refused} /\ jobs[w].rsa /\ Shard(w) = s

AsksShard(s) ==
  \E w \in Workers, t \in Tenants, p \in NamesRsa : ShardOf[t] = s /\ Request(w, t, p)

ShardsServe ==
  \A s \in Shards :
    \/ []<><<AsksShard(s)>>_vars
    \/ <>[](\A w \in Workers : InShard(w, s) => At(w, "answered"))
=============================================================================
