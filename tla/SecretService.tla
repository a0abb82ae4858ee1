---------------------------- MODULE SecretService ----------------------------
(***************************************************************************)
(* The encrypting half of the service over its life: app.rs builds the     *)
(* stores from the environment, the four encrypt and decrypt handlers use  *)
(* them, the process stops and is started again, and between two lives     *)
(* the operator changes the environment.                                   *)
(*                                                                         *)
(* A handler's await points never block (CryptoService's async methods     *)
(* await nothing) and the stores are immutable, so a request is one step.  *)
(***************************************************************************)
EXTENDS Envelope

CONSTANTS
  Environments, \* environments the operator starts the service with
  Faults,       \* the ways a stored ciphertext or DEK is damaged
  OverSize,     \* base64 of more than 1,000,000 bytes in at most 1,500,000 chars
  Refused,      \* the body of an answer when the handler itself refuses
  Down,         \* no process is running
  NoReply       \* nothing has been answered in this life of the process

VARIABLES
  env,    \* the environment the process runs with, or will be started with
  app,    \* AppState, or Down
  sealed, \* the envelopes clients keep: [by |-> who sealed it, wire |-> what]
  reply   \* the last answer, with the request it answers

vars == <<env, app, sealed, reply>>

ASSUME ServiceAssumption ==
  /\ Environments \subseteq EnvVars
  /\ Faults \subseteq Malformed
  /\ OverSize \notin Plaintexts \cup Malformed
  /\ Plaintexts \cap Malformed = {}

Payloads == Plaintexts \cup {OverSize, EmptyPart, BadB64, TooLong}

\* A request body that is base64 of something else than an envelope's JSON, or
\* not base64 at all.
NotEnvelopes == {BadB64, Garbage}

-----------------------------------------------------------------------------
\* What clients send back: an envelope they keep, or one with a single field
\* damaged, left out, or mixed up with another envelope's.
DamagedParts == Faults \cup (UNION {Parts(s.wire) : s \in sealed})

Damaged(e) ==
  {[e EXCEPT !.ciphertext = c] : c \in DamagedParts}
    \cup {[e EXCEPT !.encrypted_dek = c] : c \in DamagedParts}
    \cup {[e EXCEPT !.key_id = i] : i \in Ids \cup {Absent}}
    \cup {[e EXCEPT !.tenant_id = t] : t \in Tenants \cup {Absent}}
    \cup {[e EXCEPT !.purpose = p] : p \in Purposes \cup {Absent}}
    \cup {[e EXCEPT !.algorithm = a] : a \in AlgNames \cup {Absent}}

\* An envelope of /encrypt with the metadata the handler sealed it with, which
\* a client adds to read it with /v1/crypto/decrypt.
WithDefaults(e) ==
  [e EXCEPT !.tenant_id = "default", !.purpose = "default", !.algorithm = "aes-256-gcm"]

Submissions ==
  {WithDefaults(s.wire) : s \in sealed} \cup (UNION {Damaged(s.wire) : s \in sealed})

-----------------------------------------------------------------------------
\* The process runs, and the last answer has been looked at.
Ready == app # Down /\ reply = NoReply

\* The DEK that OsRng draws was never drawn before.
FreshDeks == Deks \ {s.wire.encrypted_dek.msg : s \in sealed}

Answer(op, tenant, sent, status, body) ==
  reply' = [op |-> op, tenant |-> tenant, sent |-> sent, status |-> status, body |-> body]

Seals(by, wire) == sealed' = sealed \cup {[by |-> by, wire |-> wire]}

\* EncryptRequest::validate, then the checks of encrypt_handler in their order.
\* Its check for an empty plaintext is never reached: only an empty string
\* decodes to nothing, and validate refused that one.
EncryptStatus(payload) ==
  IF payload \in {EmptyPart, TooLong} THEN 413
  ELSE IF payload = BadB64 THEN 400
  ELSE IF payload = OverSize THEN 413
  ELSE IF Encrypts("aes-256-gcm") THEN 200 ELSE 500

\* EncryptResponse has no fields for the tenant, the purpose and the algorithm.
EncryptResponse(e) ==
  [e EXCEPT !.tenant_id = Absent, !.purpose = Absent, !.algorithm = Absent]

\* POST /encrypt
encrypt_handler(payload) ==
  /\ Ready
  /\ \/ /\ EncryptStatus(payload) = 200
        /\ \E dek \in FreshDeks :
             LET e == EncryptResponse(
                        EncryptEnvelope(app.kek_store, "default", "default",
                                        "aes-256-gcm", payload, dek))
             IN Seals("encrypt", e) /\ Answer("encrypt", "default", payload, 200, e)
     \/ /\ EncryptStatus(payload) # 200
        /\ Answer("encrypt", "default", payload, EncryptStatus(payload), Refused)
        /\ UNCHANGED sealed
  /\ UNCHANGED <<env, app>>

\* Mutant: the size check of encrypt_v1 is dropped.
EncryptV1Status_AnySize(level, payload) ==
  IF Compliant("aes-256-gcm", level) /\ payload # BadB64 THEN 200 ELSE 400

EncryptV1Status(level, payload) ==
  IF /\ Compliant("aes-256-gcm", level)
     /\ payload \in Plaintexts
     /\ Encrypts("aes-256-gcm")
    THEN 200 ELSE 400

\* POST /v1/crypto/encrypt, with CryptoService::encrypt
encrypt_v1(tenant, purpose, level, payload) ==
  /\ Ready
  /\ \/ /\ EncryptV1Status(level, payload) = 200
        /\ \E dek \in FreshDeks :
             LET e == EncryptEnvelope(StoreFor(app.stores, tenant), tenant, purpose,
                                      "aes-256-gcm", payload, dek)
             IN Seals("encrypt_v1", e) /\ Answer("encrypt_v1", tenant, payload, 200, e)
     \/ /\ EncryptV1Status(level, payload) = 400
        /\ Answer("encrypt_v1", tenant, payload, 400, Refused)
        /\ UNCHANGED sealed
  /\ UNCHANGED <<env, app>>

-----------------------------------------------------------------------------
\* The envelope decrypt_handler builds: whatever metadata the client sends is
\* replaced by the defaults.
HandlerEnvelope(sent) == WithDefaults(Deserialize(sent))

\* DecryptRequest::validate.  A nonce that is empty or too long is answered
\* like a BadNonce.
DecryptStatus(store, sent) ==
  IF sent.ciphertext \in {EmptyPart, TooLong} THEN 413
  ELSE IF sent.encrypted_dek \in {EmptyPart, TooLong} THEN 400
  ELSE IF Decrypts(store, HandlerEnvelope(sent)) THEN 200 ELSE 400

\* POST /decrypt
decrypt_handler(sent) ==
  /\ Ready
  /\ Answer("decrypt", "default", sent, DecryptStatus(app.kek_store, sent),
            DecryptEnvelope(app.kek_store, HandlerEnvelope(sent)))
  /\ UNCHANGED <<env, app, sealed>>

DecryptV1Status(store, level, sent) ==
  IF /\ Compliant("aes-256-gcm", level)
     /\ sent \notin NotEnvelopes
     /\ Decrypts(store, Deserialize(sent))
    THEN 200 ELSE 400

\* POST /v1/crypto/decrypt, with CryptoService::decrypt.  The tenant of the
\* request chooses the store, the tenant in the envelope is associated data.
decrypt_v1(tenant, level, sent) ==
  LET store == IF app = Down THEN NoStore ELSE StoreFor(app.stores, tenant)
  IN /\ Ready
     /\ Answer("decrypt_v1", tenant, sent, DecryptV1Status(store, level, sent),
               IF sent \in NotEnvelopes THEN Refused
               ELSE DecryptEnvelope(store, Deserialize(sent)))
     /\ UNCHANGED <<env, app, sealed>>

-----------------------------------------------------------------------------
\* create_app.  The environment of a process does not change while it starts,
\* so AppState's own store and the registry's "default" are the same.
create_app ==
  /\ app = Down
  /\ \E s \in FromEnv(env) : \E r \in RegistriesFrom(env, s) :
       app' = [kek_store |-> s, stores |-> r]
  /\ reply' = NoReply
  /\ UNCHANGED <<env, sealed>>

\* The process ends: a signal, or a crash.  It keeps nothing on disk.
Stop ==
  /\ app # Down
  /\ app' = Down
  /\ reply' = NoReply
  /\ UNCHANGED <<env, sealed>>

\* Requests are atomic, so it is enough to look at one answer at a time.
TakeAnswer ==
  /\ reply # NoReply
  /\ reply' = NoReply
  /\ UNCHANGED <<env, app, sealed>>

Reconfigure ==
  /\ app = Down
  /\ env' \in Environments
  /\ UNCHANGED <<app, sealed, reply>>

-----------------------------------------------------------------------------
\* Clients may hold an envelope from a release that bound only the key id.
Init ==
  /\ env \in Environments
  /\ app = Down
  /\ sealed \in
       {{}} \cup {{[by |-> "old_release", wire |-> OldRelease(CurrentId(env), k, p, d)]} :
                    k \in {env.kek} \cap Keys, p \in Plaintexts, d \in Deks}
  /\ reply = NoReply

Requests ==
  \/ \E p \in Payloads : encrypt_handler(p)
  \/ \E p \in Payloads, t \in Tenants, u \in Purposes, l \in Levels : encrypt_v1(t, u, l, p)
  \/ \E e \in Submissions : decrypt_handler(e)
  \/ \E e \in Submissions \cup NotEnvelopes, t \in Tenants, l \in Levels : decrypt_v1(t, l, e)

ServiceNext == Requests \/ TakeAnswer \/ create_app \/ Stop

Next == ServiceNext \/ Reconfigure

Spec == Init /\ [][Next]_vars

-----------------------------------------------------------------------------
Errors == {Refused, UnknownKeyId, DecryptionFailed}

\* The ends of the size bounds, which are those of validation for a text.
OutOfBounds == {EmptyPart, TooLong}

RepliesOf(ops, sent, status, bodies) ==
  [op : ops, tenant : Tenants, sent : sent, status : {status}, body : bodies]

\* The answers to an encryption: a payload within the bounds is always sealed.
\* An empty or a too long one is a 413 of /encrypt, as is one that only its
\* decoded length gives away, and a 400 of v1 (models.rs:31, handlers.rs:44,
\* v1.rs:31).
EncryptReplies ==
  RepliesOf({"encrypt", "encrypt_v1"}, Plaintexts, 200, Wires)
    \cup RepliesOf({"encrypt"}, OutOfBounds \cup {OverSize}, 413, {Refused})
    \cup RepliesOf({"encrypt"}, {BadB64}, 400, {Refused})
    \cup RepliesOf({"encrypt_v1"}, Payloads \ Plaintexts, 400, {Refused})

\* The answers to a decryption: a plaintext is given for parts that sealings
\* produced and for nothing else.  Only /decrypt answers 413, and only for the
\* ciphertext: a DEK or a nonce out of bounds is a 400 (models.rs:84).
DecryptReplies ==
  RepliesOf({"decrypt", "decrypt_v1"}, {e \in Wires : Parts(e) \subseteq Boxes}, 200, Plaintexts)
    \cup RepliesOf({"decrypt"}, {e \in Wires : e.ciphertext \in OutOfBounds}, 413, Errors)
    \cup RepliesOf({"decrypt"}, {e \in Wires : e.ciphertext \notin OutOfBounds}, 400, Errors)
    \cup RepliesOf({"decrypt_v1"}, Wires \cup NotEnvelopes, 400, Errors)

Replies == EncryptReplies \cup DecryptReplies

\* The type invariant: the stores are ones from_env can build, the envelopes
\* clients keep are ones a release of the service has answered with, and every
\* request gets the status of the layer that stops it, or 200 and a result.
TypeOK ==
  /\ env \in EnvVars
  /\ app \in [kek_store : KekStores, stores : Registries] \cup {Down}
  /\ sealed \subseteq [by : {"encrypt", "encrypt_v1", "old_release"}, wire : Wires]
  /\ reply \in Replies \cup {NoReply}

-----------------------------------------------------------------------------
Opened(op) == reply # NoReply /\ reply.op = op /\ reply.status = 200

\* The metadata the request presents is the metadata s was sealed with; for an
\* envelope of an old release, which bound none, the request must leave a field
\* of it empty.
MetadataMatches(s, e) ==
  /\ e.key_id = s.wire.key_id
  /\ CASE s.by = "encrypt"     -> e.tenant_id = "default" /\ e.purpose = "default"
       [] s.by = "encrypt_v1"  -> /\ e.tenant_id = s.wire.tenant_id
                                  /\ e.purpose = s.wire.purpose
       [] s.by = "old_release" -> "" \in {e.tenant_id, e.purpose, e.algorithm}

\* A decryption that succeeds (handlers.rs, v1.rs: a 200 of either endpoint)
\* answers with the plaintext of one sealing, both parts of which were sent,
\* under the metadata of that sealing: parts of two envelopes, or one
\* envelope's parts with other metadata, never decrypt.
Authentic ==
  Opened("decrypt") \/ Opened("decrypt_v1") =>
    LET e == IF reply.op = "decrypt" THEN HandlerEnvelope(reply.sent)
             ELSE Deserialize(reply.sent)
    IN \E s \in sealed :
         /\ Parts(reply.sent) = Parts(s.wire)
         /\ reply.body = s.wire.ciphertext.msg
         /\ MetadataMatches(s, e)

\* The keys that the variables of an environment give an id of the default
\* store: APP_KEK, APP_KEK_OLD and APP_KEK_<SUFFIX> (README "Configuration").
KeysGiven(id) ==
  {k \in Keys :
    \/ k = env.kek /\ id = CurrentId(env)
    \/ k = env.old /\ id = OldId(env)
    \/ \E x \in Suffixes : SuffixId[x] = id /\ k = env.extra[x]}

\* The environment leaves no doubt about which key an id names: all variables
\* that give the id a key give it the same one, and "primary" names the
\* current key when none does.
Names(id, key) ==
  \/ KeysGiven(id) = {key}
  \/ KeysGiven(id) = {} /\ id = "primary" /\ key = env.kek

\* The tenants whose variables register a store of their own.
OwnsStore(tenant) == tenant # "default" /\ OfferedStores(env, tenant) # {}

SealedFor(s) == IF s.by = "encrypt_v1" THEN s.wire.tenant_id ELSE "default"

\* The environment configures the key s was sealed with, in the store that
\* serves its tenant and under the id the envelope names.
KeyIsConfigured(s) ==
  IF OwnsStore(SealedFor(s))
    THEN \E store \in OfferedStores(env, SealedFor(s)) :
           /\ OfferedStores(env, SealedFor(s)) = {store}
           /\ store.id = s.wire.key_id
           /\ store.raw = s.wire.encrypted_dek.key
    ELSE Names(s.wire.key_id, s.wire.encrypted_dek.key)

V1Reads(tenant, wire) ==
  DecryptV1Status(StoreFor(app.stores, tenant), "Strategis", wire) = 200

\* The running process reads s on the endpoint it came from (v1 for those of an
\* old release); an envelope of /encrypt also through v1, and one that v1
\* sealed for the default tenant and purpose also through /decrypt.
Readable(s) ==
  CASE s.by = "encrypt" ->
         /\ DecryptStatus(app.kek_store, s.wire) = 200
         /\ V1Reads("default", WithDefaults(s.wire))
    [] s.by = "encrypt_v1" ->
         /\ V1Reads(s.wire.tenant_id, s.wire)
         /\ s.wire.tenant_id = "default" /\ s.wire.purpose = "default" =>
              DecryptStatus(app.kek_store, s.wire) = 200
    [] s.by = "old_release" -> V1Reads("default", s.wire)

\* An envelope whose key the environment still configures under the id it
\* names can be read, in whichever earlier life of the process it was sealed
\* and whatever else the environment changed (kek_provider.rs:128,
\* envelope.rs:180).
ConfiguredKeyReadable ==
  app # Down => \A s \in sealed : KeyIsConfigured(s) => Readable(s)

\* What the process has sealed it reads itself, in every environment it starts
\* in: also when APP_KEK_OLD_ID or a suffix gives the current id another key, or
\* when two variables give a tenant different stores (kek_provider.rs:26-53,
\* key_service.rs:33).  ConfiguredKeyReadable says nothing of such environments.
OwnAnswersReadable ==
  \A by \in {"encrypt", "encrypt_v1"} :
    Opened(by) => Readable([by |-> by, wire |-> reply.body])

\* What the service opens or seals for a tenant is under a key of that tenant:
\* one its own variables give when it has a store, and one of the default store's
\* variables when it has none.  /encrypt and /decrypt serve the default tenant
\* only (key_service.rs:24, crypto_service.rs:35, handlers.rs:49, 100).
TenantKeys(tenant) ==
  IF OwnsStore(tenant) THEN {s.raw : s \in OfferedStores(env, tenant)}
  ELSE UNION {KeysGiven(i) : i \in Ids}

TenantKeyIsolation ==
  /\ Opened("decrypt") \/ Opened("decrypt_v1") =>
       reply.sent.encrypted_dek.key \in TenantKeys(reply.tenant)
  /\ Opened("encrypt") \/ Opened("encrypt_v1") =>
       reply.body.encrypted_dek.key \in TenantKeys(reply.tenant)
=============================================================================
