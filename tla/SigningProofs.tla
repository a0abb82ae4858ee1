---------------------------- MODULE SigningProofs ----------------------------
(***************************************************************************)
(* The signing keys hand out one key per tenant and life of the process,   *)
(* verify_v1 accepts exactly what this tenant signed, and no lock is left  *)
(* behind, for any number of workers, tenants, shards, keys and kept       *)
(* signatures.                                                             *)
(***************************************************************************)
EXTENDS Signing, TLAPS

\* A request with a key of its own is a good request.
LEMMA KeyedType ==
  ASSUME NEW j \in Jobs, NEW k \in SigningKeys
  PROVE  [j EXCEPT !.stage = "keyed", !.key = k] \in Jobs
BY ZenonT(40) DEF Jobs

\* So is one with an answer.
Statuses == {200, 400}

LEMMA AnsweredType ==
  \A j \in Jobs, st \in Statuses :
    [j EXCEPT !.stage = "answered", !.status = st] \in Jobs
<1>1. ASSUME NEW j \in Jobs PROVE [j EXCEPT !.stage = "answered"] \in Jobs
  BY DEF Jobs
<1>2. ASSUME NEW j \in Jobs, NEW st \in Statuses PROVE [j EXCEPT !.status = st] \in Jobs
  BY DEF Jobs, Statuses
<1>. QED  BY <1>1, <1>2

\* A kept signature of an earlier life is the same but for that.
KeptType == [tenant : Tenants, rsa : BOOLEAN, current : BOOLEAN,
             sig : [key : SigningKeys, msg : Messages]]

Old(s) == [s EXCEPT !.current = FALSE]

LEMMA OldType ==
  ASSUME NEW s \in KeptType
  PROVE  /\ Old(s) \in KeptType
         /\ Old(s).tenant = s.tenant /\ Old(s).rsa = s.rsa /\ Old(s).sig = s.sig
         /\ Old(s).current = FALSE
BY DEF KeptType, Old

USE SigningAssumption

-----------------------------------------------------------------------------
(* The inductive invariant.                                                *)

\* No two tenants have one key.
CacheOK ==
  \A t, u \in Tenants : t # u /\ rsa_cache[t] # NoKey => rsa_cache[t] # rsa_cache[u]

\* A kept signature was made with its tenant's key; an RSA key of an earlier
\* life is nobody's now.
KeptOK ==
  \A s \in kept :
    /\ ~s.rsa => s.sig.key = ed25519_key(s.tenant)
    /\ s.rsa => s.sig.key \in RsaKeys
    /\ s.rsa /\ s.current => s.sig.key = rsa_cache[s.tenant]
    /\ s.rsa /\ ~s.current => \A t \in Tenants : rsa_cache[t] # s.sig.key

\* The key a request of this tenant works with.
KeyOf(j) == IF j.rsa THEN rsa_cache[j.tenant] ELSE ed25519_key(j.tenant)

\* What a worker knows of its request at each stage.
JobOK(w, j) ==
  /\ j.stage \in {"entry", "generating"} => j.rsa
  /\ j.stage = "generating" => /\ holder[ShardOf[j.tenant]] = w
                               /\ rsa_cache[j.tenant] = NoKey
  /\ j.stage \in {"keyed", "answered"} => j.key # NoKey /\ j.key = KeyOf(j)
  /\ j.op = "verify" => j.sig \in {s.sig : s \in kept} \cup {Garbage}
  /\ j.op = "verify" /\ j.stage = "answered" =>
       (j.status = 200 <=> j.sig = Signature(j.key, j.msg))

JobsOK == \A w \in Workers : jobs[w] \notin {Idle, Refused} => JobOK(w, jobs[w])

Inv == TypeOK /\ CacheOK /\ KeptOK /\ JobsOK

-----------------------------------------------------------------------------
(* Each action preserves it.                                               *)

LEMMA SigningKeysType ==
  /\ RsaKeys \subseteq SigningKeys
  /\ \A t \in Tenants : ed25519_key(t) \in SigningKeys /\ ed25519_key(t) \notin RsaKeys
  /\ NoKey \notin SigningKeys
  /\ \A t, u \in Tenants : ed25519_key(t) = ed25519_key(u) => t = u
BY DEF SigningKeys, ed25519_key

\* A worker that is busy has a request of the type of Jobs.
LEMMA Busy ==
  ASSUME TypeOK, NEW w \in Workers, jobs[w] \notin {Idle, Refused}
  PROVE  jobs[w] \in Jobs
BY DEF TypeOK

\* A worker that becomes free concerns nobody else.
LEMMA Freed ==
  ASSUME Inv, NEW w \in Workers, NEW to \in {Idle, Refused},
         jobs' = [jobs EXCEPT ![w] = to],
         holder' \in [Shards -> Workers \cup {Free}],
         \A v \in Workers \ {w}, s \in Shards : holder[s] = v => holder'[s] = v,
         UNCHANGED <<rsa_cache, kept>>
  PROVE  Inv'
<1>1. TypeOK'
  BY DEF Inv, TypeOK, At
<1>2. CacheOK' /\ KeptOK'
  BY DEF Inv, CacheOK, KeptOK
<1>3. JobsOK'
  <2>. SUFFICES ASSUME NEW v \in Workers, jobs'[v] \notin {Idle, Refused}
                PROVE  JobOK(v, jobs[v])' /\ jobs'[v] = jobs[v]
    BY DEF JobsOK
  <2>1. v # w /\ jobs'[v] = jobs[v]
    BY DEF Inv, TypeOK
  <2>2. jobs[v] \in Jobs /\ JobOK(v, jobs[v]) /\ ShardOf[jobs[v].tenant] \in Shards
    BY <2>1, Busy DEF Inv, JobsOK, Jobs
  <2>. QED  BY <2>1, <2>2 DEF JobOK, KeyOf
<1>. QED  BY <1>1, <1>2, <1>3 DEF Inv

\* A worker that goes on with a good request, when nothing else changes but the
\* locks, and those not for others.
LEMMA Advanced ==
  ASSUME Inv, NEW w \in Workers, NEW j \in Jobs,
         jobs' = [jobs EXCEPT ![w] = j],
         holder' \in [Shards -> Workers \cup {Free}],
         \A v \in Workers \ {w}, s \in Shards : holder[s] = v => holder'[s] = v,
         UNCHANGED <<rsa_cache, kept>>,
         JobOK(w, j)'
  PROVE  Inv'
<1>1. TypeOK'
  <2>1. \A v \in Workers : jobs'[v] = IF v = w THEN j ELSE jobs[v]
    BY DEF Inv, TypeOK
  <2>2. j.stage = "keyed" => j.key # NoKey
    BY DEF JobOK
  <2>. QED  BY <2>1, <2>2 DEF Inv, TypeOK, At
<1>2. CacheOK' /\ KeptOK'
  BY DEF Inv, CacheOK, KeptOK
<1>3. JobsOK'
  <2>. SUFFICES ASSUME NEW v \in Workers, jobs'[v] \notin {Idle, Refused}
                PROVE  JobOK(v, jobs[v])'
    BY DEF JobsOK
  <2>1. CASE v = w
    BY <2>1 DEF Inv, TypeOK
  <2>2. CASE v # w
    <3>1. jobs'[v] = jobs[v]
      BY <2>2 DEF Inv, TypeOK
    <3>2. jobs[v] \in Jobs /\ JobOK(v, jobs[v]) /\ ShardOf[jobs[v].tenant] \in Shards
      BY <3>1, Busy DEF Inv, JobsOK, Jobs
    <3>. QED  BY <2>2, <3>1, <3>2 DEF JobOK, KeyOf
  <2>. QED  BY <2>1, <2>2
<1>. QED  BY <1>1, <1>2, <1>3 DEF Inv

LEMMA AcceptPreserves ==
  ASSUME Inv, NEW w \in Workers, NEW op \in {"sign", "verify"}, NEW t \in Tenants,
         NEW p \in AlgNames, NEW m, NEW s, NEW passes \in BOOLEAN,
         passes => /\ m \in Messages
                   /\ \/ op = "sign" /\ s = NoSig
                      \/ op = "verify" /\ s \in {k.sig : k \in kept} \cup {Garbage},
         Accept(w, op, t, p, m, s, passes)
  PROVE  Inv'
<1>0. holder \in [Shards -> Workers \cup {Free}]
  BY DEF Inv, TypeOK
<1>1. CASE ~passes
  BY <1>0, <1>1, Freed DEF Accept
<1>2. CASE passes
  <2>. DEFINE j == [op |-> op, tenant |-> t, rsa |-> p \in NamesRsa, msg |-> m, sig |-> s,
                    stage  |-> IF p \in NamesRsa THEN "entry" ELSE "keyed",
                    key    |-> IF p \in NamesRsa THEN NoKey ELSE ed25519_key(t),
                    status |-> 0]
  <2>1. jobs' = [jobs EXCEPT ![w] = j] /\ UNCHANGED <<rsa_cache, holder, kept>>
    BY <1>2 DEF Accept
  <2>2. s \in [key : SigningKeys, msg : Messages] \cup {Garbage, NoSig}
    BY <1>2 DEF Inv, TypeOK
  <2>3. (p \in NamesRsa) \in BOOLEAN
    OBVIOUS
  <2>4. j \in Jobs
    BY <1>2, <2>2, <2>3, SigningKeysType DEF Jobs
  <2>5. JobOK(w, j)'
    BY <1>2, <2>1, SigningKeysType DEF JobOK, KeyOf
  <2>. HIDE DEF j
  <2>. QED  BY <1>0, <2>1, <2>4, <2>5, Advanced
<1>. QED  BY <1>1, <1>2

\* A missing entry is locked, an occupied one is taken.
LEMMA LockShardPreserves ==
  ASSUME Inv, NEW w \in Workers, LockShard(w)
  PROVE  Inv'
<1>. DEFINE t == jobs[w].tenant
<1>0. /\ jobs[w] \in Jobs /\ JobOK(w, jobs[w]) /\ jobs[w].stage = "entry" /\ jobs[w].rsa
      /\ t \in Tenants /\ ShardOf[t] \in Shards /\ holder[ShardOf[t]] = Free
      /\ holder \in [Shards -> Workers \cup {Free}]
      /\ rsa_cache[t] \in RsaKeys \cup {NoKey}
  BY Busy DEF Inv, JobsOK, JobOK, LockShard, At, Shard, Jobs, TypeOK
<1>1. CASE rsa_cache[t] = NoKey
  <2>0. PICK j : j = [jobs[w] EXCEPT !.stage = "generating"]
    OBVIOUS
  <2>1. /\ jobs' = [jobs EXCEPT ![w] = j]
        /\ holder' = [holder EXCEPT ![ShardOf[t]] = w]
        /\ UNCHANGED <<rsa_cache, kept>>
    BY <1>1, <2>0 DEF LockShard, Shard
  <2>2. j \in Jobs
    BY <1>0, <2>0 DEF Jobs
  <2>3. JobOK(w, j)'
    BY <1>0, <1>1, <2>0, <2>1 DEF JobOK, KeyOf, Jobs
  <2>4. /\ holder' \in [Shards -> Workers \cup {Free}]
        /\ \A v \in Workers \ {w}, s \in Shards : holder[s] = v => holder'[s] = v
    BY <1>0, <2>1
  <2>. QED  BY <2>1, <2>2, <2>3, <2>4, Advanced
<1>2. CASE rsa_cache[t] # NoKey
  <2>0. PICK j : j = [jobs[w] EXCEPT !.stage = "keyed", !.key = rsa_cache[t]]
    OBVIOUS
  <2>1. /\ jobs' = [jobs EXCEPT ![w] = j]
        /\ UNCHANGED <<holder, rsa_cache, kept>>
    BY <1>2, <2>0 DEF LockShard, GetsKey
  <2>2. j \in Jobs
    BY <1>0, <1>2, <2>0, KeyedType, SigningKeysType
  <2>3. JobOK(w, j)'
    BY <1>0, <1>2, <2>0, <2>1 DEF JobOK, KeyOf, Jobs
  <2>. QED  BY <1>0, <2>1, <2>2, <2>3, Advanced
<1>. QED  BY <1>1, <1>2

\* A generated key is nobody else's, and no kept signature was made with it.
LEMMA GeneratePreserves ==
  ASSUME Inv, NEW w \in Workers, Generate(w)
  PROVE  Inv'
<1>. DEFINE t == jobs[w].tenant
<1>0. /\ jobs[w] \in Jobs /\ JobOK(w, jobs[w]) /\ jobs[w].stage = "generating" /\ jobs[w].rsa
      /\ t \in Tenants /\ ShardOf[t] \in Shards /\ holder[ShardOf[t]] = w
      /\ rsa_cache[t] = NoKey /\ rsa_cache \in [Tenants -> RsaKeys \cup {NoKey}]
  BY Busy DEF Inv, JobsOK, JobOK, Generate, At, Jobs, TypeOK
<1>1. PICK k \in FreshKeys :
        /\ rsa_cache' = [rsa_cache EXCEPT ![t] = k]
        /\ GetsKey(w, k)
  BY DEF Generate
<1>2. /\ k \in RsaKeys /\ k # NoKey
      /\ \A u \in Tenants : rsa_cache[u] # k
      /\ \A s \in kept : s.sig.key # k
  BY SigningKeysType DEF FreshKeys
<1>3. PICK j : j = [jobs[w] EXCEPT !.stage = "keyed", !.key = k]
  OBVIOUS
<1>4. /\ jobs' = [jobs EXCEPT ![w] = j]
      /\ holder' = [holder EXCEPT ![ShardOf[t]] = Free]
      /\ kept' = kept
  BY <1>1, <1>3 DEF Generate, GetsKey, Shard
<1>5. j \in Jobs
  BY <1>0, <1>2, <1>3, KeyedType, SigningKeysType
<1>5a. /\ j.stage = "keyed" /\ j.key = k /\ j.tenant = t /\ j.rsa
       /\ j.op = jobs[w].op /\ j.sig = jobs[w].sig
  BY <1>0, <1>3 DEF Jobs
<1>6. /\ \A v \in Workers : jobs'[v] = IF v = w THEN j ELSE jobs[v]
      /\ \A u \in Tenants : rsa_cache'[u] = IF u = t THEN k ELSE rsa_cache[u]
  BY <1>0, <1>1, <1>4 DEF Inv, TypeOK
<1>7. TypeOK'
  <2>1. jobs' \in [Workers -> Jobs \cup {Idle, Refused}]
    BY <1>4, <1>5 DEF Inv, TypeOK
  <2>2. \A v \in Workers : At(v, "keyed")' => jobs'[v].key # NoKey
    BY <1>2, <1>5a, <1>6 DEF Inv, TypeOK, At
  <2>3. /\ rsa_cache' \in [Tenants -> RsaKeys \cup {NoKey}]
        /\ holder' \in [Shards -> Workers \cup {Free}]
    BY <1>0, <1>1, <1>2, <1>4 DEF Inv, TypeOK
  <2>. QED  BY <2>1, <2>2, <2>3, <1>4 DEF Inv, TypeOK
<1>8. CacheOK'
  BY <1>0, <1>2, <1>6 DEF Inv, CacheOK
<1>9. KeptOK'
  <2>. SUFFICES ASSUME NEW s \in kept
                PROVE  /\ ~s.rsa => s.sig.key = ed25519_key(s.tenant)
                       /\ s.rsa => s.sig.key \in RsaKeys
                       /\ s.rsa /\ s.current => s.sig.key = rsa_cache'[s.tenant]
                       /\ s.rsa /\ ~s.current => \A u \in Tenants : rsa_cache'[u] # s.sig.key
    BY <1>4 DEF KeptOK
  <2>1. s.tenant \in Tenants
    BY DEF Inv, TypeOK
  <2>2. s.rsa /\ s.current => s.tenant # t
    BY <1>0, SigningKeysType DEF Inv, KeptOK
  <2>. QED  BY <1>2, <1>6, <2>1, <2>2 DEF Inv, KeptOK
<1>10. JobsOK'
  <2>. SUFFICES ASSUME NEW v \in Workers, jobs'[v] \notin {Idle, Refused}
                PROVE  JobOK(v, jobs[v])'
    BY DEF JobsOK
  <2>1. CASE v = w
    <3>1. jobs'[v] = j
      BY <1>6, <2>1
    <3>. QED  BY <1>0, <1>2, <1>4, <1>5a, <1>6, <3>1 DEF JobOK, KeyOf
  <2>2. CASE v # w
    <3>1. jobs'[v] = jobs[v] /\ jobs[v] \in Jobs /\ JobOK(v, jobs[v])
      BY <1>6, <2>2, Busy DEF Inv, JobsOK
    <3>2. jobs[v].tenant \in Tenants /\ ShardOf[jobs[v].tenant] \in Shards
      BY <3>1 DEF Jobs
    <3>3. CASE jobs[v].stage = "generating"
      <4>1. ShardOf[jobs[v].tenant] # ShardOf[t]
        BY <1>0, <2>2, <3>1, <3>3 DEF JobOK
      <4>2. /\ holder'[ShardOf[jobs[v].tenant]] = v
            /\ rsa_cache'[jobs[v].tenant] = NoKey
        BY <1>4, <1>6, <3>1, <3>2, <3>3, <4>1 DEF JobOK, Inv, TypeOK
      <4>. QED  BY <1>4, <3>1, <3>3, <4>2 DEF JobOK
    <3>4. CASE jobs[v].stage = "entry"
      BY <1>4, <3>1, <3>4 DEF JobOK
    <3>5. CASE jobs[v].stage \in {"keyed", "answered"}
      <4>1. KeyOf(jobs[v])' = KeyOf(jobs[v])
        BY <1>0, <1>6, <3>1, <3>2, <3>5 DEF JobOK, KeyOf
      <4>. QED  BY <1>4, <3>1, <3>5, <4>1 DEF JobOK
    <3>. QED  BY <3>1, <3>3, <3>4, <3>5 DEF Jobs
  <2>. QED  BY <2>1, <2>2
<1>. QED  BY <1>7, <1>8, <1>9, <1>10 DEF Inv

\* A request with an answer and its signature, field by field.
LEMMA SignedFields ==
  ASSUME NEW r \in Jobs, NEW sig, NEW j,
         j = [r EXCEPT !.stage = "answered", !.status = 200, !.sig = sig]
  PROVE  j = [op |-> r.op, tenant |-> r.tenant, rsa |-> r.rsa, msg |-> r.msg,
              sig |-> sig, stage |-> "answered", key |-> r.key, status |-> 200]
<1>1. DOMAIN r = {"op", "tenant", "rsa", "msg", "sig", "stage", "key", "status"}
  BY DEF Jobs
<1>2. j = [x \in DOMAIN r |-> j[x]]
  OBVIOUS
<1>3. j = [op |-> j.op, tenant |-> j.tenant, rsa |-> j.rsa, msg |-> j.msg,
           sig |-> j.sig, stage |-> j.stage, key |-> j.key, status |-> j.status]
  BY <1>1, <1>2
<1>4. /\ j.op = r.op /\ j.tenant = r.tenant /\ j.rsa = r.rsa /\ j.msg = r.msg
      /\ j.key = r.key /\ j.stage = "answered" /\ j.status = 200 /\ j.sig = sig
  BY DEF Jobs
<1>. QED  BY <1>3, <1>4

\* Signing keeps a signature made with the tenant's key.
LEMMA SignPreserves ==
  ASSUME Inv, NEW w \in Workers, Sign(w)
  PROVE  Inv'
<1>. DEFINE s == Signature(jobs[w].key, jobs[w].msg)
            k == [tenant |-> jobs[w].tenant, rsa |-> jobs[w].rsa, sig |-> s, current |-> TRUE]
<1>0. /\ jobs[w] \in Jobs /\ JobOK(w, jobs[w]) /\ jobs[w].stage = "keyed"
      /\ jobs[w].op = "sign" /\ jobs[w].key \in SigningKeys
  BY Busy DEF Inv, JobsOK, JobOK, Sign, At, Jobs
<1>1. PICK j : j = [jobs[w] EXCEPT !.stage = "answered", !.status = 200, !.sig = s]
  OBVIOUS
<1>2. /\ jobs' = [jobs EXCEPT ![w] = j]
      /\ kept \subseteq kept' /\ kept' \subseteq kept \cup {k}
      /\ UNCHANGED <<rsa_cache, holder>>
  BY <1>1 DEF Sign
<1>3. j = [op |-> "sign", tenant |-> jobs[w].tenant, rsa |-> jobs[w].rsa, msg |-> jobs[w].msg,
           sig |-> s, stage |-> "answered", key |-> jobs[w].key, status |-> 200]
  <2>1. j = [op |-> jobs[w].op, tenant |-> jobs[w].tenant, rsa |-> jobs[w].rsa,
             msg |-> jobs[w].msg, sig |-> s, stage |-> "answered", key |-> jobs[w].key,
             status |-> 200]
    <3>1. jobs[w] \in Jobs
      BY <1>0
    <3>. HIDE DEF s
    <3>. QED  BY <1>1, <3>1, SignedFields, Zenon
  <2>2. jobs[w].op = "sign"
    BY <1>0
  <2>. HIDE DEF s
  <2>. QED  BY <2>1, <2>2, Zenon
<1>4. s \in [key : SigningKeys, msg : Messages]
  BY <1>0 DEF Signature, Jobs
<1>5. j \in Jobs
  BY <1>0, <1>3, <1>4 DEF Jobs
<1>6. \A v \in Workers : jobs'[v] = IF v = w THEN j ELSE jobs[v]
  BY <1>2 DEF Inv, TypeOK
<1>7. TypeOK'
  <2>1. /\ jobs' \in [Workers -> Jobs \cup {Idle, Refused}]
        /\ \A v \in Workers : At(v, "keyed")' => jobs'[v].key # NoKey
    BY <1>2, <1>3, <1>5, <1>6 DEF Inv, TypeOK, At
  <2>2. k \in [tenant : Tenants, rsa : BOOLEAN, current : BOOLEAN,
               sig : [key : SigningKeys, msg : Messages]]
    BY <1>0, <1>4 DEF Jobs
  <2>. QED  BY <1>2, <2>1, <2>2 DEF Inv, TypeOK
<1>8. CacheOK'
  BY <1>2 DEF Inv, CacheOK
<1>9. KeptOK'
  <2>1. /\ ~k.rsa => k.sig.key = ed25519_key(k.tenant)
        /\ k.rsa => k.sig.key = rsa_cache[k.tenant] /\ k.sig.key # NoKey
    BY <1>0 DEF JobOK, KeyOf, Signature
  <2>2. k.tenant \in Tenants
    BY <1>0 DEF Jobs
  <2>3. k.rsa => k.sig.key \in RsaKeys
    BY <2>1, <2>2 DEF Inv, TypeOK
  <2>. QED  BY <1>2, <2>1, <2>3 DEF Inv, KeptOK
<1>10. JobsOK'
  <2>. SUFFICES ASSUME NEW v \in Workers, jobs'[v] \notin {Idle, Refused}
                PROVE  JobOK(v, jobs[v])'
    BY DEF JobsOK
  <2>1. CASE v = w
    BY <1>0, <1>2, <1>3, <1>6, <2>1 DEF JobOK, KeyOf
  <2>2. CASE v # w
    <3>1. jobs'[v] = jobs[v] /\ JobOK(v, jobs[v])
      BY <1>6, <2>2 DEF Inv, JobsOK
    <3>. QED  BY <1>2, <3>1 DEF JobOK, KeyOf
  <2>. QED  BY <2>1, <2>2
<1>. QED  BY <1>7, <1>8, <1>9, <1>10 DEF Inv

LEMMA VerifyPreserves ==
  ASSUME Inv, NEW w \in Workers, Verify(w)
  PROVE  Inv'
<1>. DEFINE ok == jobs[w].sig = Signature(jobs[w].key, jobs[w].msg)
<1>0. /\ jobs[w] \in Jobs /\ JobOK(w, jobs[w]) /\ jobs[w].stage = "keyed"
      /\ holder \in [Shards -> Workers \cup {Free}]
  BY Busy DEF Inv, JobsOK, Verify, At, TypeOK
<1>1. PICK j : j = [jobs[w] EXCEPT !.stage = "answered", !.status = IF ok THEN 200 ELSE 400]
  OBVIOUS
<1>2. jobs' = [jobs EXCEPT ![w] = j] /\ UNCHANGED <<rsa_cache, holder, kept>>
  BY <1>1 DEF Verify
<1>3. /\ j.op = jobs[w].op /\ j.tenant = jobs[w].tenant /\ j.rsa = jobs[w].rsa
      /\ j.msg = jobs[w].msg /\ j.sig = jobs[w].sig /\ j.key = jobs[w].key
      /\ j.stage = "answered" /\ j.status = IF ok THEN 200 ELSE 400
  BY <1>0, <1>1 DEF Jobs
<1>4. j \in Jobs
  <2>1. PICK st \in Statuses : st = IF ok THEN 200 ELSE 400
    BY DEF Statuses
  <2>2. j = [jobs[w] EXCEPT !.stage = "answered", !.status = st]
    BY <1>1, <2>1
  <2>3. jobs[w] \in Jobs
    BY <1>0
  <2>. QED  BY <2>2, <2>3, AnsweredType
<1>5. JobOK(w, j)'
  BY <1>0, <1>2, <1>3 DEF JobOK, KeyOf
<1>. HIDE DEF ok
<1>. QED  BY <1>0, <1>2, <1>4, <1>5, Advanced

\* A new life begins with nothing but the signatures that clients kept.
LEMMA RestartPreserves ==
  ASSUME Inv, Restart
  PROVE  Inv'
<1>1. kept \subseteq KeptType /\ kept' = {Old(s) : s \in kept}
  BY DEF Restart, Inv, TypeOK, KeptType, Old
<1>2. \A r \in kept' : \E s \in kept : /\ r.tenant = s.tenant /\ r.rsa = s.rsa /\ r.sig = s.sig
                                       /\ r.current = FALSE
  <2>. SUFFICES ASSUME NEW s \in kept
                PROVE  /\ Old(s).tenant = s.tenant /\ Old(s).rsa = s.rsa
                       /\ Old(s).sig = s.sig /\ Old(s).current = FALSE
    BY <1>1
  <2>. QED  BY <1>1, OldType
<1>3. kept' \subseteq KeptType
  BY <1>1, OldType
<1>4. TypeOK' /\ CacheOK' /\ JobsOK'
  BY <1>3 DEF Restart, Inv, TypeOK, CacheOK, JobsOK, At, KeptType
<1>5. KeptOK'
  BY <1>2, SigningKeysType DEF Inv, KeptOK, Restart
<1>. QED  BY <1>4, <1>5 DEF Inv

LEMMA RequestPreserves ==
  ASSUME Inv, NEW w \in Workers, NEW t \in Tenants, NEW p \in AlgNames, Request(w, t, p)
  PROVE  Inv'
<1>1. PICK l \in Levels, m \in Messages \cup {BadB64} :
        \/ sign_v1(w, t, p, l, m)
        \/ \E s \in Sent : verify_v1(w, t, p, l, m, s)
  BY DEF Request
<1>2. Compliant(p, l) \in BOOLEAN
  BY DEF Compliant
<1>3. CASE sign_v1(w, t, p, l, m)
  <2>. DEFINE passes == Compliant(p, l) /\ m # BadB64
  <2>1. Accept(w, "sign", t, p, m, NoSig, passes)
    BY <1>3 DEF sign_v1
  <2>2. passes \in BOOLEAN /\ (passes => m \in Messages)
    BY <1>2
  <2>. HIDE DEF passes
  <2>. QED  BY <2>1, <2>2, AcceptPreserves
<1>4. ASSUME NEW s \in Sent, verify_v1(w, t, p, l, m, s) PROVE Inv'
  <2>. DEFINE passes == Compliant(p, l) /\ BadB64 \notin {m, s}
  <2>1. Accept(w, "verify", t, p, m, s, passes)
    BY <1>4 DEF verify_v1
  <2>2. /\ passes \in BOOLEAN
        /\ passes => m \in Messages /\ s \in {k.sig : k \in kept} \cup {Garbage}
    BY <1>2 DEF Sent
  <2>. HIDE DEF passes
  <2>. QED  BY <2>1, <2>2, AcceptPreserves
<1>. QED  BY <1>1, <1>3, <1>4

LEMMA TakeAnswerPreserves ==
  ASSUME Inv, NEW w \in Workers, TakeAnswer(w)
  PROVE  Inv'
<1>1. holder \in [Shards -> Workers \cup {Free}]
  BY DEF Inv, TypeOK
<1>. QED  BY <1>1, Freed DEF TakeAnswer

\* A generation that fails gives up its worker's own lock.
LEMMA GenerationFailsPreserves ==
  ASSUME Inv, NEW w \in Workers, GenerationFails(w)
  PROVE  Inv'
<1>1. holder[Shard(w)] = w /\ Shard(w) \in Shards
  BY Busy DEF Inv, JobsOK, JobOK, GenerationFails, At, Shard, Jobs
<1>2. /\ holder' \in [Shards -> Workers \cup {Free}]
      /\ \A v \in Workers \ {w}, s \in Shards : holder[s] = v => holder'[s] = v
  BY <1>1 DEF Inv, TypeOK, GenerationFails
<1>. QED  BY <1>2, Freed DEF GenerationFails

LEMMA Inductive == Spec => []Inv
<1>1. Init => Inv
  BY DEF Init, Inv, TypeOK, CacheOK, KeptOK, JobsOK, At
<1>2. Inv /\ [Next]_vars => Inv'
  <2>. SUFFICES ASSUME Inv, [Next]_vars PROVE Inv'
    OBVIOUS
  <2>1. ASSUME NEW w \in Workers, Step(w) PROVE Inv'
    BY <2>1, LockShardPreserves, GeneratePreserves, GenerationFailsPreserves, SignPreserves,
       VerifyPreserves DEF Step
  <2>2. CASE UNCHANGED vars
    BY <2>2 DEF vars, Inv, TypeOK, CacheOK, KeptOK, JobsOK, JobOK, KeyOf, At
  <2>. QED  BY <2>1, <2>2, RequestPreserves, TakeAnswerPreserves, RestartPreserves DEF Next
<1>. QED  BY <1>1, <1>2, PTL DEF Spec

-----------------------------------------------------------------------------
(* What it is good for.                                                    *)

\* TypeOK holds in every reachable state (the types of key_service.rs:12-16 and
\* of the handlers).
THEOREM TypeCorrect == Spec => []TypeOK
<1>1. Inv => TypeOK
  BY DEF Inv
<1>. QED  BY <1>1, Inductive, PTL

\* verify_v1 answers 200 exactly for what this tenant signed, with a key of the
\* same kind, and for RSA in this life of the process (v1.rs:67-88).
THEOREM SignaturesVerify == Spec => []VerifiesWhatWasSigned
<1>1. Inv => VerifiesWhatWasSigned
  <2>. SUFFICES ASSUME Inv, NEW w \in Workers, At(w, "answered"), jobs[w].op = "verify"
                PROVE  jobs[w].status = 200 <=>
                         \E s \in kept : /\ s.tenant = jobs[w].tenant
                                         /\ s.rsa = jobs[w].rsa
                                         /\ s.sig = jobs[w].sig
                                         /\ s.sig.msg = jobs[w].msg
                                         /\ s.rsa => s.current
    BY DEF VerifiesWhatWasSigned
  <2>. DEFINE j == jobs[w]
  <2>1. /\ j \in Jobs /\ JobOK(w, j) /\ j.stage = "answered"
    BY Busy DEF At, Inv, JobsOK
  <2>2. /\ j.key # NoKey /\ j.key = KeyOf(j)
        /\ j.sig \in {s.sig : s \in kept} \cup {Garbage}
        /\ j.status = 200 <=> j.sig = Signature(j.key, j.msg)
        /\ j.tenant \in Tenants /\ j.rsa \in BOOLEAN
    BY <2>1 DEF JobOK, Jobs
  <2>3. \A s \in kept : /\ s.tenant \in Tenants /\ s.rsa \in BOOLEAN /\ s.current \in BOOLEAN
                        /\ s.sig = [key |-> s.sig.key, msg |-> s.sig.msg]
    BY DEF Inv, TypeOK
  <2>4. ASSUME j.status = 200
        PROVE  \E s \in kept : /\ s.tenant = j.tenant
                               /\ s.rsa = j.rsa
                               /\ s.sig = j.sig
                               /\ s.sig.msg = j.msg
                               /\ s.rsa => s.current
    <3>1. j.sig = [key |-> j.key, msg |-> j.msg]
      BY <2>2, <2>4 DEF Signature
    <3>2. j.key \in SigningKeys /\ j.msg \in Messages
      BY <2>1, <2>2 DEF Jobs
    <3>3. j.sig \in [key : SigningKeys, msg : Messages]
      BY <3>1, <3>2
    <3>4. PICK s \in kept : s.sig = j.sig
      BY <2>2, <3>3
    <3>5. s.sig.key = j.key /\ s.sig.msg = j.msg
      BY <3>1, <3>4
    <3>0. /\ s.tenant \in Tenants
          /\ ~s.rsa => j.key = ed25519_key(s.tenant)
          /\ s.rsa => j.key \in RsaKeys
          /\ s.rsa /\ s.current => j.key = rsa_cache[s.tenant]
          /\ s.rsa /\ ~s.current => \A t \in Tenants : rsa_cache[t] # j.key
      BY <2>3, <3>5, ZenonT(40) DEF Inv, KeptOK
    <3>6. CASE j.rsa
      <4>1. j.key = rsa_cache[j.tenant] /\ j.key \in RsaKeys
        BY <2>2, <3>6 DEF KeyOf, Inv, TypeOK
      <4>2. s.rsa
        BY <3>0, <4>1, SigningKeysType
      <4>3. s.current
        BY <2>2, <3>0, <4>1, <4>2
      <4>4. rsa_cache[s.tenant] = rsa_cache[j.tenant] /\ rsa_cache[j.tenant] # NoKey
        BY <2>2, <3>0, <4>1, <4>2, <4>3
      <4>5. s.tenant = j.tenant
        BY <2>2, <3>0, <4>4 DEF Inv, CacheOK
      <4>. QED  BY <2>2, <2>3, <3>4, <3>5, <3>6, <4>2, <4>3, <4>5
    <3>7. CASE ~j.rsa
      <4>1. j.key = ed25519_key(j.tenant)
        BY <2>2, <3>7 DEF KeyOf
      <4>2. ~s.rsa
        BY <2>2, <3>0, <4>1, SigningKeysType
      <4>3. s.tenant = j.tenant
        BY <2>2, <3>0, <4>1, <4>2, SigningKeysType
      <4>. QED  BY <2>2, <2>3, <3>4, <3>5, <3>7, <4>2, <4>3
    <3>. QED  BY <3>6, <3>7
  <2>5. ASSUME NEW s \in kept, s.tenant = j.tenant, s.rsa = j.rsa, s.sig = j.sig,
               s.sig.msg = j.msg, s.rsa => s.current
        PROVE  j.status = 200
    <3>1. s.sig.key = KeyOf(j)
      BY <2>2, <2>5 DEF Inv, KeptOK, KeyOf
    <3>. QED  BY <2>2, <2>3, <2>5, <3>1 DEF Signature
  <2>. QED  BY <2>4, <2>5
<1>. QED  BY <1>1, Inductive, PTL

-----------------------------------------------------------------------------
(* The locks.  Inv knows that who generates holds the lock of its shard;   *)
(* that a lock is held by nobody else is an invariant on top of it.        *)

LocksOwned ==
  \A s \in Shards, v \in Workers : holder[s] = v => At(v, "generating") /\ Shard(v) = s

\* A step of one worker changes nothing of what another one is at.
LEMMA OthersStay ==
  ASSUME TypeOK, NEW w \in Workers, NEW j, jobs' = [jobs EXCEPT ![w] = j],
         NEW v \in Workers \ {w}, At(v, "generating")
  PROVE  At(v, "generating")' /\ Shard(v)' = Shard(v)
<1>1. jobs'[v] = jobs[v]
  BY DEF TypeOK
<1>. QED  BY <1>1 DEF At, Shard

\* A worker that holds no lock may go on without touching one.
LEMMA OwnersStay ==
  ASSUME TypeOK, LocksOwned, NEW w \in Workers, NEW j, jobs' = [jobs EXCEPT ![w] = j],
         ~At(w, "generating"), holder' = holder
  PROVE  LocksOwned'
<1>. SUFFICES ASSUME NEW s \in Shards, NEW v \in Workers, holder[s] = v
              PROVE  At(v, "generating")' /\ Shard(v)' = s
  BY DEF LocksOwned
<1>1. At(v, "generating") /\ Shard(v) = s
  BY DEF LocksOwned
<1>2. v # w
  BY <1>1
<1>. QED  BY <1>1, <1>2, OthersStay

\* The worker that ends a generation, well or not, gives up the one lock it has.
LEMMA OwnerLeaves ==
  ASSUME TypeOK, LocksOwned, NEW w \in Workers, NEW j, jobs' = [jobs EXCEPT ![w] = j],
         holder' = [holder EXCEPT ![Shard(w)] = Free]
  PROVE  LocksOwned'
<1>. SUFFICES ASSUME NEW s \in Shards, NEW v \in Workers, holder'[s] = v
              PROVE  At(v, "generating")' /\ Shard(v)' = s
  BY DEF LocksOwned
<1>1. s # Shard(w) /\ holder[s] = v
  BY DEF TypeOK
<1>2. At(v, "generating") /\ Shard(v) = s
  BY <1>1 DEF LocksOwned
<1>3. v # w
  BY <1>1, <1>2
<1>. QED  BY <1>2, <1>3, OthersStay

\* The worker that finds its entry vacant takes the lock of a shard that was free.
LEMMA OwnerComes ==
  ASSUME Inv, LocksOwned, NEW w \in Workers, LockShard(w),
         rsa_cache[jobs[w].tenant] = NoKey
  PROVE  LocksOwned'
<1>0. TypeOK
  BY DEF Inv
<1>1. PICK j : j = [jobs[w] EXCEPT !.stage = "generating"]
  OBVIOUS
<1>2. /\ jobs' = [jobs EXCEPT ![w] = j] /\ jobs'[w] = j
      /\ holder' = [holder EXCEPT ![Shard(w)] = w]
      /\ At(w, "entry") /\ jobs[w] \in Jobs
  BY <1>0, <1>1, Busy DEF LockShard, At, TypeOK
<1>3. j \in Jobs /\ j.stage = "generating" /\ j.tenant = jobs[w].tenant
  BY <1>1, <1>2 DEF Jobs
<1>4. At(w, "generating")' /\ Shard(w)' = Shard(w)
  BY <1>2, <1>3 DEF At, Shard
<1>. SUFFICES ASSUME NEW s \in Shards, NEW v \in Workers, holder'[s] = v
              PROVE  At(v, "generating")' /\ Shard(v)' = s
  BY DEF LocksOwned
<1>5. CASE s = Shard(w)
  <2>1. v = w
    BY <1>0, <1>2, <1>5 DEF TypeOK
  <2>. QED  BY <1>4, <1>5, <2>1
<1>6. CASE s # Shard(w)
  <2>1. holder[s] = v
    BY <1>0, <1>2, <1>6 DEF TypeOK
  <2>2. At(v, "generating") /\ Shard(v) = s
    BY <2>1 DEF LocksOwned
  <2>3. v # w
    BY <1>2, <2>2 DEF At
  <2>. QED  BY <1>0, <1>2, <2>2, <2>3, OthersStay
<1>. QED  BY <1>5, <1>6

\* A lock is held exactly by who generates a missing key (key_service.rs:86-92).
THEOREM LocksReleased == Spec => []LockedWhileGenerating
<1>1. Init => LocksOwned
  BY DEF Init, LocksOwned
<1>2. Inv /\ LocksOwned /\ [Next]_vars => LocksOwned'
  <2>. SUFFICES ASSUME Inv, LocksOwned, [Next]_vars PROVE LocksOwned'
    OBVIOUS
  <2>0. TypeOK
    BY DEF Inv
  <2>1. ASSUME NEW w \in Workers, NEW t \in Tenants, NEW p \in AlgNames, Request(w, t, p)
        PROVE  LocksOwned'
    <3>1. \E op, m, s, passes : Accept(w, op, t, p, m, s, passes)
      BY <2>1 DEF Request, sign_v1, verify_v1
    <3>2. /\ \E j : jobs' = [jobs EXCEPT ![w] = j]
          /\ ~At(w, "generating") /\ holder' = holder
      BY <3>1 DEF Accept, At
    <3>. QED  BY <2>0, <3>2, OwnersStay
  <2>2. ASSUME NEW w \in Workers, LockShard(w) PROVE LocksOwned'
    <3>1. CASE rsa_cache[jobs[w].tenant] = NoKey
      BY <2>2, <3>1, OwnerComes
    <3>2. CASE rsa_cache[jobs[w].tenant] # NoKey
      <4>1. /\ \E j : jobs' = [jobs EXCEPT ![w] = j]
            /\ ~At(w, "generating") /\ holder' = holder
        BY <2>2, <3>2 DEF LockShard, GetsKey, At
      <4>. QED  BY <2>0, <4>1, OwnersStay
    <3>. QED  BY <3>1, <3>2
  <2>3. ASSUME NEW w \in Workers, Generate(w) \/ GenerationFails(w) PROVE LocksOwned'
    <3>1. /\ \E j : jobs' = [jobs EXCEPT ![w] = j]
          /\ holder' = [holder EXCEPT ![Shard(w)] = Free]
      BY <2>3 DEF Generate, GenerationFails, GetsKey
    <3>. QED  BY <2>0, <3>1, OwnerLeaves
  <2>4. ASSUME NEW w \in Workers, Sign(w) \/ Verify(w) \/ TakeAnswer(w) PROVE LocksOwned'
    <3>1. /\ \E j : jobs' = [jobs EXCEPT ![w] = j]
          /\ ~At(w, "generating") /\ holder' = holder
      BY <2>4 DEF Sign, Verify, TakeAnswer, At
    <3>. QED  BY <2>0, <3>1, OwnersStay
  <2>5. CASE Restart
    BY <2>5 DEF Restart, LocksOwned
  <2>6. CASE UNCHANGED vars
    BY <2>6 DEF vars, LocksOwned, At, Shard
  <2>. QED  BY <2>1, <2>2, <2>3, <2>4, <2>5, <2>6 DEF Next, Step
<1>3. Inv /\ LocksOwned => LockedWhileGenerating
  <2>. SUFFICES ASSUME Inv, LocksOwned, NEW w \in Workers
                PROVE  /\ \A s \in Shards :
                            holder[s] = w <=> At(w, "generating") /\ Shard(w) = s
                       /\ At(w, "generating") => rsa_cache[jobs[w].tenant] = NoKey
    BY DEF LockedWhileGenerating
  <2>1. At(w, "generating") => holder[Shard(w)] = w /\ rsa_cache[jobs[w].tenant] = NoKey
    BY DEF Inv, JobsOK, JobOK, At, Shard
  <2>2. \A s \in Shards : holder[s] = w => At(w, "generating") /\ Shard(w) = s
    BY DEF LocksOwned
  <2>. QED  BY <2>1, <2>2
<1>. QED  BY <1>1, <1>2, <1>3, Inductive, PTL DEF Spec

-----------------------------------------------------------------------------
(* The refinement.                                                         *)

\* What a worker holds, in the words of KeyOnce.
Held(w) == IF At(w, "keyed") /\ jobs[w].rsa
             THEN [tenant |-> jobs[w].tenant, key |-> jobs[w].key]
             ELSE NoKey

HeldAll == [w \in Workers |-> Held(w)]

\* Only the worker that steps can change what it holds.
LEMMA OthersHold ==
  ASSUME TypeOK, NEW w \in Workers, NEW j, jobs' = [jobs EXCEPT ![w] = j]
  PROVE  /\ HeldAll' = [HeldAll EXCEPT ![w] = Held(w)']
         /\ jobs'[w] = j
<1>1. jobs'[w] = j /\ \A v \in Workers \ {w} : jobs'[v] = jobs[v]
  BY DEF TypeOK
<1>2. \A v \in Workers \ {w} : Held(v)' = Held(v)
  BY <1>1 DEF Held, At
<1>. HIDE DEF Held
<1>. QED  BY <1>1, <1>2 DEF HeldAll

\* A step that leaves the cache and what its worker holds is none of KeyOnce's.
LEMMA Stutters ==
  ASSUME TypeOK, NEW w \in Workers, NEW j, jobs' = [jobs EXCEPT ![w] = j],
         rsa_cache' = rsa_cache, Held(w) = NoKey, Held(w)' = NoKey
  PROVE  UNCHANGED <<rsa_cache, HeldAll>>
<1>. HIDE DEF Held
<1>1. HeldAll' = [HeldAll EXCEPT ![w] = NoKey] /\ HeldAll[w] = NoKey
  BY OthersHold DEF HeldAll
<1>. QED  BY <1>1 DEF HeldAll

\* A worker that gets an RSA key, cached or new, takes it in the sense of KeyOnce.
LEMMA Takes ==
  ASSUME TypeOK, NEW w \in Workers, At(w, "entry") \/ At(w, "generating"),
         jobs[w].rsa, NEW t \in Tenants, t = jobs[w].tenant, NEW k \in RsaKeys, GetsKey(w, k),
         rsa_cache[t] \in {NoKey, k}, \A u \in Tenants \ {t} : rsa_cache[u] # k,
         rsa_cache' = [rsa_cache EXCEPT ![t] = k]
  PROVE  Once!Take(w, t, k)
<1>1. PICK j : j = [jobs[w] EXCEPT !.stage = "keyed", !.key = k]
  OBVIOUS
<1>2. jobs[w] \in Jobs
  BY Busy DEF At
<1>3. jobs' = [jobs EXCEPT ![w] = j] /\ jobs'[w] = j
  BY <1>1 DEF GetsKey, TypeOK
<1>4. j \in Jobs
  BY <1>1, <1>2, SigningKeysType, KeyedType
<1>5. j.stage = "keyed" /\ j.rsa /\ j.tenant = t /\ j.key = k
  BY <1>1, <1>2 DEF Jobs
<1>6. Held(w) = NoKey /\ Held(w)' = [tenant |-> t, key |-> k]
  BY <1>3, <1>4, <1>5 DEF Held, At
<1>7. HeldAll' = [HeldAll EXCEPT ![w] = [tenant |-> t, key |-> k]] /\ HeldAll[w] = NoKey
  BY <1>3, <1>6, OthersHold DEF HeldAll
<1>. QED  BY <1>7 DEF Once!Take, HeldAll, Held

\* An answer gives an RSA key back.
LEMMA Releases ==
  ASSUME TypeOK, NEW w \in Workers, NEW j, jobs' = [jobs EXCEPT ![w] = j],
         rsa_cache' = rsa_cache, Held(w)' = NoKey
  PROVE  Once!Release(w) \/ UNCHANGED <<rsa_cache, HeldAll>>
<1>1. CASE Held(w) = NoKey
  BY <1>1, Stutters
<1>2. CASE Held(w) # NoKey
  <2>1. HeldAll' = [HeldAll EXCEPT ![w] = NoKey] /\ HeldAll[w] # NoKey
    BY <1>2, OthersHold DEF HeldAll
  <2>. QED  BY <2>1 DEF Once!Release, HeldAll, Held
<1>. QED  BY <1>1, <1>2

\* Every step of the workers, their clients and the process is a step of KeyOnce
\* or changes nothing it promises (key_service.rs:84-93).
THEOREM Refinement == Spec => ImplementsKeyOnce
<1>1. Init => Once!Init
  BY DEF Init, Once!Init, Once!Nothing, At
<1>2. Inv /\ [Next]_vars => [Once!Next]_(Once!vars)
  <2>. SUFFICES ASSUME Inv, [Next]_vars
                PROVE  Once!Next \/ UNCHANGED <<rsa_cache, HeldAll>>
    BY DEF Once!vars, HeldAll, Held
  <2>0. TypeOK
    BY DEF Inv
  <2>1. ASSUME NEW w \in Workers, NEW t \in Tenants, NEW p \in AlgNames, Request(w, t, p)
        PROVE  UNCHANGED <<rsa_cache, HeldAll>>
    <3>1. \E op, m, s, passes : Accept(w, op, t, p, m, s, passes)
      BY <2>1 DEF Request, sign_v1, verify_v1
    <3>2. PICK op, m, s, passes : Accept(w, op, t, p, m, s, passes)
      BY <3>1
    <3>3. PICK j :
            /\ jobs' = [jobs EXCEPT ![w] = j]
            /\ j \in {Idle, Refused} \/ j.stage # "keyed" \/ ~j.rsa
      <4>. DEFINE j == [op |-> op, tenant |-> t, rsa |-> p \in NamesRsa, msg |-> m, sig |-> s,
                        stage  |-> IF p \in NamesRsa THEN "entry" ELSE "keyed",
                        key    |-> IF p \in NamesRsa THEN NoKey ELSE ed25519_key(t),
                        status |-> 0]
      <4>1. jobs' = [jobs EXCEPT ![w] = Refused] \/ jobs' = [jobs EXCEPT ![w] = j]
        BY <3>2 DEF Accept
      <4>2. j.stage # "keyed" \/ ~j.rsa
        OBVIOUS
      <4>. HIDE DEF j
      <4>. QED  BY <4>1, <4>2
    <3>4. jobs'[w] = j /\ jobs[w] = Idle /\ rsa_cache' = rsa_cache
      BY <2>0, <3>2, <3>3 DEF Accept, TypeOK
    <3>5. Held(w) = NoKey /\ Held(w)' = NoKey
      BY <3>3, <3>4 DEF Held, At
    <3>. QED  BY <2>0, <3>3, <3>4, <3>5, Stutters
  <2>2. ASSUME NEW w \in Workers, LockShard(w)
        PROVE  Once!Next \/ UNCHANGED <<rsa_cache, HeldAll>>
    <3>. PICK t : t = jobs[w].tenant
      OBVIOUS
    <3>1. /\ At(w, "entry") /\ jobs[w].rsa /\ t \in Tenants
          /\ rsa_cache \in [Tenants -> RsaKeys \cup {NoKey}]
      BY <2>0, <2>2, Busy DEF LockShard, At, Inv, JobsOK, JobOK, Jobs, TypeOK
    <3>2. CASE rsa_cache[t] = NoKey
      <4>1. PICK j : j = [jobs[w] EXCEPT !.stage = "generating"]
        OBVIOUS
      <4>2. jobs' = [jobs EXCEPT ![w] = j] /\ jobs'[w] = j /\ rsa_cache' = rsa_cache
        BY <2>0, <2>2, <3>2, <4>1 DEF LockShard, TypeOK
      <4>3. j.stage = "generating"
        BY <2>0, <3>1, <4>1, Busy DEF At, Jobs
      <4>4. Held(w) = NoKey /\ Held(w)' = NoKey
        BY <3>1, <4>2, <4>3 DEF Held, At
      <4>. QED  BY <2>0, <4>2, <4>4, Stutters
    <3>3. CASE rsa_cache[t] # NoKey
      <4>1. PICK k \in RsaKeys : k = rsa_cache[t]
        BY <3>1, <3>3
      <4>2. GetsKey(w, k) /\ rsa_cache' = [rsa_cache EXCEPT ![t] = k]
        BY <2>2, <3>1, <3>3, <4>1 DEF LockShard
      <4>3. \A u \in Tenants \ {t} : rsa_cache[u] # k
        BY <3>1, <3>3, <4>1 DEF Inv, CacheOK
      <4>4. Once!Take(w, t, k)
        BY <2>0, <3>1, <4>1, <4>2, <4>3, Takes
      <4>. QED  BY <3>1, <4>4 DEF Once!Next
    <3>. QED  BY <3>2, <3>3
  <2>3. ASSUME NEW w \in Workers, Generate(w) PROVE Once!Next
    <3>. DEFINE t == jobs[w].tenant
    <3>1. /\ At(w, "generating") /\ jobs[w].rsa /\ t \in Tenants /\ rsa_cache[t] = NoKey
      BY <2>0, <2>3, Busy DEF Generate, At, Inv, JobsOK, JobOK, Jobs
    <3>2. PICK k \in FreshKeys : rsa_cache' = [rsa_cache EXCEPT ![t] = k] /\ GetsKey(w, k)
      BY <2>3 DEF Generate
    <3>3. k \in RsaKeys /\ \A u \in Tenants : rsa_cache[u] # k
      BY DEF FreshKeys
    <3>4. Once!Take(w, t, k)
      BY <2>0, <3>1, <3>2, <3>3, Takes
    <3>. QED  BY <3>1, <3>3, <3>4 DEF Once!Next
  <2>4. ASSUME NEW w \in Workers, GenerationFails(w) \/ TakeAnswer(w)
        PROVE  UNCHANGED <<rsa_cache, HeldAll>>
    <3>1. jobs' = [jobs EXCEPT ![w] = Idle] /\ jobs'[w] = Idle /\ rsa_cache' = rsa_cache
      BY <2>0, <2>4 DEF GenerationFails, TakeAnswer, TypeOK
    <3>2. Held(w) = NoKey /\ Held(w)' = NoKey
      BY <2>4, <3>1 DEF GenerationFails, TakeAnswer, Held, At
    <3>. QED  BY <2>0, <3>1, <3>2, Stutters
  <2>5. ASSUME NEW w \in Workers, Sign(w) \/ Verify(w)
        PROVE  Once!Next \/ UNCHANGED <<rsa_cache, HeldAll>>
    <3>0. jobs[w] \in Jobs
      BY <2>0, <2>5, Busy DEF Sign, Verify, At
    <3>1. PICK j : jobs' = [jobs EXCEPT ![w] = j] /\ j.stage = "answered"
      <4>1. CASE Sign(w)
        <5>. DEFINE j == [jobs[w] EXCEPT !.stage = "answered", !.status = 200,
                          !.sig = Signature(jobs[w].key, jobs[w].msg)]
        <5>1. jobs' = [jobs EXCEPT ![w] = j]
          BY <4>1 DEF Sign
        <5>2. j.stage = "answered"
          BY <3>0 DEF Jobs
        <5>. HIDE DEF j
        <5>. QED  BY <5>1, <5>2
      <4>2. CASE Verify(w)
        <5>. DEFINE j == [jobs[w] EXCEPT !.stage = "answered", !.status =
                            IF jobs[w].sig = Signature(jobs[w].key, jobs[w].msg) THEN 200 ELSE 400]
        <5>1. jobs' = [jobs EXCEPT ![w] = j]
          BY <4>2 DEF Verify
        <5>2. j.stage = "answered"
          BY <3>0 DEF Jobs
        <5>. HIDE DEF j
        <5>. QED  BY <5>1, <5>2
      <4>. QED  BY <2>5, <4>1, <4>2
    <3>2. jobs'[w] = j /\ rsa_cache' = rsa_cache
      BY <2>0, <2>5, <3>1 DEF Sign, Verify, TypeOK
    <3>3. Held(w)' = NoKey
      BY <3>1, <3>2 DEF Held, At
    <3>. QED  BY <2>0, <3>1, <3>2, <3>3, Releases DEF Once!Next
  <2>6. CASE Restart
    BY <2>6 DEF Restart, Once!Next, Once!Forget, Once!Nothing, At
  <2>7. CASE UNCHANGED vars
    BY <2>7 DEF vars, HeldAll, Held, At
  <2>. QED  BY <2>1, <2>2, <2>3, <2>4, <2>5, <2>6, <2>7 DEF Next, Step
<1>. QED  BY <1>1, <1>2, Inductive, PTL DEF Spec, ImplementsKeyOnce, Once!Spec
=============================================================================
