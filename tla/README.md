# A verification of secret-manager

TLA+ modules, TLC configurations and machine-checked proofs about the
secret-management microservice in this repository (Rust, axum). The modules are
translated from the code under `src/`; line numbers in comments and in
`PROJECT.json` refer to it.

## 1. The system

A stateless-looking HTTP service: clients send plaintext and get an *envelope*
(the ciphertext under a fresh data key, DEK, and the DEK under a key-encryption
key, KEK), keep it, and send it back to be decrypted. The service keeps nothing
on disk; everything it knows comes from environment variables at startup, so the
interesting state is spread over three places: the process, its environment,
and the envelopes its clients hold.

| Component | State | Operations | Interacts with |
|---|---|---|---|
| KEK store (`crypto/kek_provider.rs`) | current id and key, map of previous keys; immutable after start | `from_env`, `from_hex`, `get_raw`, `resolve_raw` | reads the environment; used by the envelope code |
| Tenant registry (`services/key_service.rs`, `crypto_service.rs`) | one store per tenant plus `default`; caches of signing keys | `from_env`, `get_store`, `ed25519_key`, `rsa_key` | built by `create_app`, read by every v1 handler |
| Envelope (`crypto/envelope.rs`, `aad.rs`, `symmetric/`) | none | `encrypt_envelope`, `decrypt_envelope` | called by handlers with a store |
| Policy (`crypto/policy.rs`) | none | `validate_primitive_compliance` | called by envelope code and v1 handlers |
| Handlers (`api/handlers.rs`, `api/v1.rs`, `api/models.rs`) | none | `/encrypt`, `/decrypt`, `/v1/crypto/{encrypt,decrypt,sign,verify,hash}` | clients; stores through `AppState` |
| Process life (`main.rs`, `app.rs`) | `AppState`, or no process | `create_app`, serve, graceful shutdown | the environment |
| Rate limiter (`middleware/rate_limit.rs`) | `DashMap` bucket → (count, window start); a background task | `check`, prune loop | before every handler |
| Authentication (`middleware/auth.rs`) | API keys and roles, read once | `require_api_key` | outermost of the three layers |
| Headers, CORS (`app.rs`, `middleware/headers.rs`) | none | layers | around the handlers |
| Load tester (`perf-test/perf-test.go`) | results, one captured envelope | smoke test, `runLoad` with retries | a client of the service |

What is hard about it:

* **Rotation and restarts.** Whether an envelope can be read depends on the
  environment of the process that sealed it, on that of the process that reads
  it, and on everything `from_env` does in between: defaults, an order of
  precedence, a scan whose order is not promised, values that are skipped
  silently, a fallback for `primary`.
* **Metadata.** The associated data is bound by the code in two formats, the
  metadata travels with the envelope on one endpoint and is filled in on the
  other; mixes and damage must fail rather than decrypt wrongly.
* **Tenants.** Which store serves a tenant changes when variables come and go.
* **The limiter's two actors.** Handlers update trackers under shard locks while
  the pruning task walks the shards with a time that is getting old.
* **Signing keys.** They are made on first use, under the lock of a map's shard,
  by a call that takes half a second and may panic, on one of a few threads; and
  they are gone when the process ends.
* **The way of a request.** Three layers may answer before the handler, the body
  is awaited after two of them, clients leave at any point, and a signal closes
  connections wherever their requests are.
* **The load tester's workers.** They share a channel, an array and one captured
  reply, and retry into a limiter that counts the retries.
* **Boundaries.** Sizes at validation, decoding and handler; the window at
  exactly 60 s; counts past the limit.

The properties that make each component correct are in section 3; the hazards,
one by one with their lines, are in `PROJECT.json`.

## 2. The modules

| Module | Models |
|---|---|
| `Aead` | the two ciphers, idealised: a box opens only with the algorithm, key and associated data it was sealed with |
| `Policy` | the allowlist per classification |
| `KekStore` | a KEK store: what `from_env` can build from an environment, `from_hex`, `get_raw`, `resolve_raw` |
| `KeyService` | the registry of stores, and which one serves a tenant |
| `Envelope` | `encrypt_envelope`, `decrypt_envelope`, serde's defaults, the two formats of associated data, envelopes of older releases |
| `SecretService` | the state machine: environment, process, envelopes at the clients; the four handlers, `create_app`, the end of the process, a change of the environment; the invariants |
| `Rotation` | on top of it, the operator who rotates keys the documented way, and two ways that lose data |
| `Documented` | claims of the documentation that the code does not meet |
| `FixedWindow` | the abstract limiter: what a fixed window promises |
| `RateLimiter` | `check` and the pruning task, and the refinement mapping to `FixedWindow` |
| `SecretServiceProofs`, `RotationProofs`, `RateLimiterProofs` | the proofs |
| `AadEncoding` | the bytes of `CanonicalAad::encode`, and wrapping and unwrapping a DEK with them: why `Envelope` may treat associated data as tuples |
| `KeyOnce` | the abstract key cache: one key per tenant and life of the process |
| `Signing` | `sign_v1`, `verify_v1`, `ed25519_key`, `rsa_key` behind the shard locks, on several workers, over restarts; the refinement mapping to `KeyOnce` |
| `Hashing` | `hash_v1` and its two tables of names |
| `Server` | the layers of the router, authentication and roles, the bucket, the headers, connections, graceful shutdown, crashes and new lives with other API keys; uses `FixedWindow` as the limiter |
| `LoadTester` | `perf-test.go` against `FixedWindow` |
| `AadProofs`, `SigningProofs`, `HashingProofs`, `ServerProofs`, `LoadTesterProofs` | their proofs |
| `MC*` | values of the constants for TLC; `MCPrimitives` puts `AadEncoding` and `Hashing` side by side |

### How the state corresponds to the code

`SecretService` has four variables. `env` is the part of the environment that is
read for keys: `APP_KEK`, `APP_KEK_ID`, `APP_KEK_OLD`, `APP_KEK_OLD_ID`, the
`APP_KEK_<SUFFIX>` and the `APP_TENANT_<id>_KEK[_ID]` variables, each a key, a
value that does not parse, or unset. `app` is `AppState`: the store of the old
endpoints and the registry of the v1 ones, or `Down`. `sealed` is what the
clients hold: the JSON objects the service has answered with, and who sealed
them. `reply` is the last answer with its request.

One action stands for one handler. That a request is a single step is what the
code does: the stores are immutable, `CryptoService`'s `async` methods await
nothing, so no other request can be seen from inside one. Answers are looked at
one at a time (`TakeAnswer`), which removes nothing: what a request does depends
on `app` alone.

A field pair `x_b64`/`x_nonce_b64` is one part of an envelope. Strings are ids of
small sets; `to_lowercase`, the replacement of `_` by `-` and
`trim().to_ascii_lowercase()` are the functions `TenantOf`, `SuffixId` and
`Normal` on those sets, so that two spellings of one name occur. A part that no
sealing produced is one of five malformed values, which is what the code's
checks can tell apart: not base64, a nonce of the wrong length, well-formed but
produced by no cipher call, empty, too long.

`env::vars()` promises no order, so `PreviousMaps` and `RegistriesFrom` allow
every outcome an order could give. `create_app` reads the environment twice in
one process and so gets one order: the `default` of the registry is the store
of the old endpoints.

In `RateLimiter` an `Instant` is the number of ticks that have passed since. Ages
are capped at `Stale`, beyond which every comparison of the code gives the same
answer, and counts at `Max + 1`, where every further request is refused. `timer`
is the task's sleep, and while it is awake, how old the time is that it works
with. `grants` is a history variable; the code does not have it: per bucket and
number of ticks `a`, how many requests were let through in the last `a + 1` ticks.

In `Signing` a worker is a thread of the runtime: `sign_v1` and `verify_v1` await
nothing, so a request stays on its thread from the first check to the answer, and
a thread that waits for a shard's lock waits with it. The steps of a request are
the places where others can get in between: after the checks that need no key,
with the shard locked, with a key of its own (`rsa_key` returns a clone, the lock
is gone), answered. `ed25519_cache` holds a function of the tenant's name and is
left out. A generation is `Generate`, or `GenerationFails` when `expect` panics:
unwinding drops the entry, and with it the lock. `kept` is what clients hold, and
whether it was made in this life; it is also the memory the property speaks of.

`Server` has the environment of this life (`API_KEYS` is a `LazyLock` on variables
that do not change while the process runs, so that it is read at the first
request and not at the start makes no difference), the phase of the process, and
per connection the layer its request is at. `Route` is the order that the three
`.layer` calls give: axum puts each layer around those before it. An early answer
passes on its way out the layers around it only, which is `Reply`. The handler's
extractor awaits the body, so a request can rest between the limiter and its
handler for as long as its client likes. What a connection does at a shutdown is
axum's and hyper's: modelled from how `main.rs` uses `axum::serve`, and marked
external. An answer of a handler is 200 here whatever it is. The string
`"{ip}:{key}"` is a pair: an `ip` with a colon and a key could spell another pair,
but `ip` has no colon unless a client writes one into X-Forwarded-For. API keys
come as entries, split at the commas, trimmed and without the empty ones.

In `LoadTester` a tick is the second a worker sleeps, and the limiter has the one
bucket of the tool's key. `once` and `envelope` are `encryptOnce` and
`encryptResult.CiphertextB64 != ""`. `refused` and `waited` in a result are
history: the code keeps the latency of the last attempt. The tool is the limiter's
only client. With `-smoke` the tool ends after the smoke test, the first part of
the behaviours here.

### How the modules fit together

`SecretService` composes `KekStore`, `KeyService`, `Policy`, `Envelope` and `Aead`;
`Rotation` and `Documented` extend it. `RateLimiter` implements `FixedWindow`, and
`Server` and `LoadTester` use `FixedWindow` in its place. `Signing` implements
`KeyOnce`. `AadEncoding` discharges what `Envelope` assumes of associated data:
`EncodeInjective` and `FormatsDiffer` say that tuples of one length and a single id
stand for different bytes whenever they differ. A handler of `SecretService`,
`Signing` or `Hashing` is what `Server` calls `Handle`.

## 3. The runs

### Passing

`mixed_up` (MixedUp.cfg) — one environment with a tenant store, two DEKs, two
plaintexts, every damage: the clients send every envelope that differs from a
kept one in one field, each field taking the malformed values, the values of
another envelope and the whole range of ids, tenants, purposes and algorithm
spellings (one with blanks and capitals, one AEAD that was not used, one allowed
name that is no AEAD, one name that is not allowed). `Authentic`: a 200 means one
sealing, both its parts, its metadata. `TypeOK` ties each answer to what was sent:
which status an empty, too long, too large or not decodable payload gets from which
endpoint, that a payload within the bounds is always sealed, and that a decryption
gives a plaintext for parts that sealings produced and an error for all others. Two sealings are enough for a mix because an envelope has two parts.
DEKs and plaintexts are symmetric.

`configured` (Configured.cfg) — one sealing and thirteen environments between
restarts, chosen to reach each branch of `from_env`: defaults, another id for the
same key, an `APP_KEK` that does not parse, `APP_KEK_OLD` with, without and with
the current id, an old key that does not parse, three generations, two spellings
of one suffix with two keys and with one of them invalid, tenant keys that come, go and do not parse.
`ConfiguredKeyReadable`: if the variables give the envelope's id its key, and
agree on it, the running process reads it, whatever else has changed.
`OwnAnswersReadable`: what a process has just sealed it reads itself, also in the
environments where a variable gives the current id another key or two variables give a
tenant different stores, of which `ConfiguredKeyReadable` says nothing.
`TenantKeyIsolation`: what any of the four handlers opens or seals for a tenant is
under a key the tenant's variables give (the default store's when it has none);
`/encrypt` and `/decrypt` serve the default tenant. One envelope is
enough: reading one does not depend on another.

`rotation` (Rotation.cfg) — four ids, three keys, rotations without limit in
number; the old key goes to `APP_KEK_OLD` under its own id and the one that was
there to a suffix. `NoDataLoss`: every envelope a client keeps is readable
whenever the process runs. Starts with and without an old key, and with an
envelope of an old release.

`rate_limiter` (RateLimiter.cfg) — two buckets in two shards (so that the
pruning pass can be between them), limit 2, window 2 ticks, a pass that takes up
to 2 ticks. `ImplementsFixedWindow`: the limiter with its task is the abstract
fixed-window limiter. `SlidingBound`: any `Window` consecutive ticks let through
less than twice the limit: at most `2 * Max - 1`, which the run reaches. The opening
request of the earlier window is always too old to be among them, so a window that
closes a tick early breaks the bound. `PassForgets`: behind the task,
in the shards it has been through, there is no tracker that had been idle for two
windows at the time the task works with. `IdleBucketsForgotten`: a
bucket that gets no more requests loses its tracker.

`signing` (Signing.cfg) — two workers, two tenants that share a shard and one that
does not, one message, two RSA keys, one signature kept, restarts; policy names of
both families and the name of an AEAD, which `sign_v1` signs with Ed25519. Two
workers are enough for a race on one entry and for one to wait behind the other's
tenant; two keys for a tenant's second life, or for two tenants, and when none is
left a generation can only fail. `VerifiesWhatWasSigned`: a request that passes the
checks gets 200 exactly for a signature that this tenant made of this message with
a key of the same family, and for RSA in this life. `ImplementsKeyOnce`: whoever is
at work with an RSA key has the one its tenant has in the cache.
`LockedWhileGenerating`: a shard is locked exactly while one worker generates a
missing key of it, so neither a panic nor a restart leaves a lock. `ShardsServe`:
unless requests for keys of a shard come for ever, everybody who waits for the
shard is answered, also when generations panic. The bounds favour `ShardsServe`,
which needs both shards: the others are proved for any messages and keys.

`primitives` (Primitives.cfg) — two pure algorithms that share nothing, so that a
behaviour is about one of them. Of `AadEncoding`: empty strings, one the prefix of
another, one that looks like a length followed by a string, one of 256 bytes, all
in every field of two metadata. `BindsMetadata`: a DEK is unwrapped exactly under
its own metadata, or by its key id when it is of an old release and a field is
empty. The vector that `CanonicalAad::demo` asserts is an assumption TLC evaluates
here. Of `Hashing`: every name of either table, one with a blank and a capital, two
that are no hash, all pairs of requests. `OneNameOneDigest`. `HashTypeOK`: an answer with 200 has a digest of its own data by
one of the four functions, any other has none.

`server` (Server.cfg) — two connections, a limit of one in two ticks, a path for
each role, three keys, environments with a key per role, with an entry that a
later one overrides, with a single key and with none, crashes, shutdowns and new
lives. `HandledByRole`: what is past the limiter was asked with a key to which
the last of its entries in this life gives a role for the path, or, when there are no
entries, with the single key, which is not empty: the environment with neither
variable lets nobody through, and a request without Authorization presents the empty
key. `OnlyAdmittedCounted`: what authentication refuses is not counted, neither for an
unknown key (401) nor for the wrong role (403). The second key asks to sign only, so
where its role is to decrypt all its requests are refused and any count would show. `HeadersOnHandled`: the headers are on what
a handler answers and on nothing else. Two connections are needed for a request
that is refused by the limiter because of another one that still waits for its
body. `OnlyDrains`: while the process drains nobody connects, and a connection that
was told stays with the request it has until it is gone. `Drains`: after the signal the process ends, or some
client holds back its body for ever; at the signal one connection can be at a layer
or without its body while the other is idle.

`load_tester` (LoadTester.cfg) — two goroutines, two requests per test, a limit of
three that the two of the smoke test nearly use up, a window of five seconds,
longer than the three retries take. Every request may be refused, served, served
with its reply cut short, or lost before or after it is counted.
`ReportsComplete`, `DecryptAfterSuccess`, `Ends`. `WrittenOnce`: no result is
overwritten within a test, the captured envelope is the first one, a report is final.
Three requests per test take more
than the time of a run; the invariants are proved for every number.

### Fairness

In `rate_limiter`: time goes on (`Tick`), the runtime polls the
spawned task when its timer is due (`Wake`) and the task gets each shard's lock
(`PruneShard`); nothing is assumed of clients. Tokio's timer and scheduler and
the shard lock of DashMap, held for the length of one `check`, justify it. The
bound `MaxLag` on how long a pass takes is part of `Tick`'s guard: the larger it
is, the older the time the task compares with; the theorems hold for every value.

In `signing`: each worker goes on with its request (`Step`), that is the
thread is scheduled. Nothing says that the lock of a shard is handed out in the
order in which it is asked for, so weak fairness only, and the property speaks of
shards rather than of one request.

In `server`: the runtime polls each connection's task, with or without a
signal (`Proceed`, `Told`), and the one that waits for them (`Exit`). No client
sends a body, leaves or connects by fairness.

In `load_tester`: goroutines are scheduled, time goes on, and every request ends,
because the client has a timeout of 30 seconds (perf-test.go:422).

### Violations

| Run | What the documentation says | What the run shows |
|---|---|---|
| `rotation_by_default` | README:106 "Enables rotation without data loss", README:415 default of `APP_KEK_OLD_ID` | with the default, the first rotation away from `primary` makes earlier envelopes unreadable |
| `rotate_tenant` | README:91 "`KekStore` rotation per tenant" | a tenant's store has no previous keys |
| `old_envelopes` | README:85, README:94 back compatibility of `/decrypt` | `/decrypt` fills in metadata, so the fallback for old envelopes is never taken |
| `tenant_case` | key_service.rs:22 `APP_TENANT_<id>_KEK` | ids are lowered in the registry and not in requests |

Divergences met while modelling that no run is spent on; the model has what the code
does:

* `hash_v1` maps `"blake2b512"` to an approved name for the policy (v1.rs:97), as it
  does for the spellings of the other three algorithms, and then answers it with
  "Unsupported algo": the second table lacks it (v1.rs:106). `OneNameOneDigest` holds
  all the same.
* README:535 has "first added = outermost (executed first on request)"; axum puts a
  layer around those added before, so `security_headers` is the innermost and a
  refusal has no security headers. `HeadersOnHandled` is what the code does.
* README:177 has "Prefers peer IP over `X-Forwarded-For`"; main.rs:34 serves without
  connect info, so no request has the extension and all peers without the header are
  `unknown`, one bucket per key.
* perf-test/README:130 has "Retried requests are counted in `Rate Limited (429)`"; only
  those refused to the end are (perf-test.go:238).
* perf-test/README:212 has "capture the first successful `/encrypt` response"; a first
  200 whose body is cut short uses up `sync.Once`, and /decrypt is not tested although
  later requests succeed.
* README:365 has 400 for an empty payload of /encrypt; the bound in models.rs:10 answers
  it with 413 before the handler looks. `TypeOK` has the status of every size.

## 4. The proofs

All are checked by TLAPS with no assumption but the named ones on the constants:
`KekStoreAssumption` (the two default ids are ids; the markers are no keys),
`KeyServiceAssumption`, `NormalAssumption` (normalising twice changes nothing),
`EnvelopeAssumption` (DEKs are not KEKs, markers are not values), `PartsAssumption`
(what no sealing produced is none), `ServiceAssumption`, `RateLimiterAssumption`,
`SigningAssumption` (markers are no values, the two families' keys differ),
`AadAssumption` (strings are shorter than 2^24 bytes; an id, which comes from an
environment variable, has no zero byte), `HashingAssumption`, `ServerAssumption`,
`LoadTesterAssumption` (at least one worker, request and tick per window).

*SecretService.* `TypeOK` is not inductive: a handler finds a store only because
the registry came from `create_app`, and what it opens has the type of a
plaintext only because the parts came from sealings (`DecryptGives`). The inductive invariant
`Inv` adds `StoresOK` (the running process has stores that `from_env` builds from
this environment) and `SealedOK` (each kept envelope is the outcome of one
sealing, and no two drew one DEK). From it:

* `ServiceAuthentic`: the ciphertext opens under a DEK and the DEK's box under a
  KEK, no DEK is a KEK, so both boxes are in kept envelopes in their own places;
  the DEK is common, so it is one sealing (`OpensOneSealing`); the associated
  data determines the metadata (`AadTells`).
* `ServiceReadable`: the store resolves an id to the key all variables agree on
  (`ResolveNamed`), and with the key, the id and the associated data every check
  of `decrypt_envelope` succeeds (`SealedDecrypts`).
* `ServiceReadsItsOwn`: the invariant adds that an answer to an encryption is kept
  and is under the current key and id of the store that the running process has for
  its tenant (`Answered`). A store resolves its own id to its current key, whatever
  the previous ones are (`ResolveOwnId`), and `SealedDecrypts` does the rest.
* `ServiceIsolation`: each key a store can come up with is one the variables of
  its tenant give (`ServedWithOwnKeys`).

*Rotation.* `RotationLosesNothing`: the invariant adds that the environment gives
every id and tenant at most one key (`Tidy`) and that every kept envelope's id is
*given* its key (`KeyIsGiven`); being readable is not inductive, because an id
served by the `primary` fallback alone would lose its key at the next rotation.
A rotation gives the new id the new key and leaves all others as they were
(`RotatedKeys`).

*RateLimiter.* `TypeCorrect`, and `Refinement`: a tracker the task drops is out
of its window although the task's time is old (`DroppedIsLapsed`), so pruning is
a stutter of the abstract limiter, growing older is its tick (`OlderLapses`), and
a check is a grant or a refusal (`CheckImplements`). `LessThanTwice` needs what the
totals of the last ticks have to do with the window (`WindowsCounted`): while one is
open, the totals that do not go back to its start are at most its count without the
request that opened it, the one that does is at most its count, and those that go
further are at most its count and the limit less one, because by then the opening
request of the window before is too old (`AfterFirst`); while none is open, the last
tick let nothing through and every total is at most the limit less one.
A tick moves totals and window on together
(`TickCounted`), and the totals count exactly what the window grants (`CheckCounted`).
`PassesForget`: a shard that the task has been through holds nothing but trackers it
kept, which age with the task's time, and trackers that are new.

*Signing.* The cache, the locks and the requests at work have to be known together:
the inductive invariant says that who generates holds the lock of its shard and
finds its entry vacant, that nobody else holds it, that a request at work with an
RSA key has the one in the cache, that no two tenants have one key, and that every
kept signature of this life was made with its tenant's key. From it:
`SignaturesVerify` (a key determines its tenant, also across families and lives,
because a new key is none that is cached or kept) and `Refinement`: taking a key
from the cache and putting one there are both `KeyOnce`'s `Take`, asking and
failing are stutters, an answer is its `Release` and a restart its `Forget`. `LocksReleased`
has both directions: `Inv` says that who generates holds the lock, and `LocksOwned`, an
invariant on top of it, that whoever holds a lock generates.

*AadEncoding.* `EncodeInjective`: four bytes determine a length below 2^24
(`BigEndian` is injective there), so equal encodings begin with fields of equal
length, hence equal fields (`Field` cancels on the left), three times over.
`FormatsDiffer`: an encoding begins with a zero byte, an id has none; an empty id is
shorter than any encoding. `MetadataBound` follows by the two formats.

*Server.* The invariant is the four properties with `HandledByRole` in a form that
knows the entry (`Admitted`): what passed `require_api_key` is let through by the
environment of this life. That this means the last entry of its key, or the single
key, is `Granted`; that a last entry exists at all is an argument by a least element
(`LastExists`, from `WFMin` on the naturals). A crash or a restart has no
connection that could carry a request over. `DrainsOnly` goes action by action from
the invariant: a step of a request at a layer changes neither the request nor `last`
(`LayerDrains`), and a connection whose answer was its last is not kept.

*Hashing.* Every answer is the one to some request (`Given`), so it is a digest of that
request's data or none, and `TablesAgree` goes through the names.

*LoadTester.* `ReportsComplete` is about reports, and holds because of where the
indexes are: `Indexed` says that one is in the channel, with exactly one worker and
without a result, or has its result, and that a worker which has seen the channel
closed has seen it empty. `Counted` ties refusals and waits to the attempt.
`Captured` says where the success is that the envelope came from, in the results
while /encrypt runs and in its report afterwards. `NothingOverwritten`: a worker
writes at an index it holds, where `Indexed` says no result is, and a report that is
written is one still to come (`Unreported`).

Every invariant and action property that a passing run checks is proved, and so
are both refinements. Only model-checked: `IdleBucketsForgotten`, `ShardsServe`,
`Drains` and `Ends` (liveness needs `ENABLED`, which is out of the prover's reach);
the four violations, and the vector of `CanonicalAad::demo`.

## 5. What is not modelled

Ciphers, digests and signatures are idealised: a box opens and a signature verifies
with what they were made from, and different inputs have different digests. What
memory holds after a drop (`keys.rs`), JSON and HTTP syntax, Swagger, logging and
packaging are not modelled. `classification` strings that are not one of the three
levels count as the strictest, as in `class`; that parse and serde's unknown fields
are left out. Two clients' requests in parallel do not appear in `SecretService`
because its requests are single steps; `Server` and `Signing` have them.

Of the router, paths and methods that are not routed, the CORS layer (which answers
preflight requests by itself), tracing and axum's default body limit are left out.
Of `main`, that the port and the address parse and that the socket can be bound: a
process that cannot has no state. `RATE_LIMIT` is read at every request and is a
constant here, because the variables of a process do not change. Of the load
tester, its flags and the statistics of latencies.

`domain/models.rs` is used by nothing, and `KekStore::get`, `resolve`,
`resolve_arc` and `current_arc` by no handler.

## 6. What is left

* A composition of `Server` with `SecretService`, so that a request at a layer is
  one of its requests. The interface is narrow (the handlers read nothing but
  stores that are fixed when the process starts), so it is not expected to show
  more than the two do.
* Larger instances of `load_tester` (three requests per test) and `signing` (two
  messages, two kept signatures) than five minutes allow; their invariants are
  proved.
