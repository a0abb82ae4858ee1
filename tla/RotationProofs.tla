---------------------------- MODULE RotationProofs ----------------------------
(***************************************************************************)
(* Rotating APP_KEK the way README "Configuration" describes, with the old *)
(* key handed on under its own id, loses no envelope: for any number of    *)
(* rotations, keys, ids, tenants and envelopes.                            *)
(***************************************************************************)
EXTENDS Rotation, SecretServiceProofs

-----------------------------------------------------------------------------
(* The inductive invariant.  KeyIsConfigured is too weak for the default   *)
(* store: an id that is only served by the "primary" fallback would lose   *)
(* its key with the next rotation.  No envelope is sealed under such an    *)
(* id, which KeyIsGiven says.                                              *)

\* The environment gives the id of the envelope the key it was sealed with.
KeyIsGiven(s) ==
  IF OwnsStore(SealedFor(s))
    THEN \E store \in OfferedStores(env, SealedFor(s)) :
           /\ store.id = s.wire.key_id
           /\ store.raw = s.wire.encrypted_dek.key
    ELSE s.wire.encrypted_dek.key \in KeysGiven(s.wire.key_id)

RInv ==
  /\ Inv
  /\ Tidy
  /\ \A s \in sealed : KeyIsGiven(s)

\* In a tidy environment a key that is given is configured.
LEMMA GivenIsConfigured ==
  ASSUME Inv, Tidy, NEW s \in sealed, KeyIsGiven(s)
  PROVE  KeyIsConfigured(s)
<1>1. SealedFor(s) \in Tenants /\ s.wire.key_id \in Ids
  BY KeyServiceAssumption DEF Inv, SealedOK, WellSealed, SealedFor
<1>2. CASE OwnsStore(SealedFor(s))
  <2>1. PICK store \in OfferedStores(env, SealedFor(s)) :
          /\ store.id = s.wire.key_id
          /\ store.raw = s.wire.encrypted_dek.key
    BY <1>2 DEF KeyIsGiven
  <2>2. OfferedStores(env, SealedFor(s)) = {store}
    BY <1>1 DEF Tidy
  <2>. QED  BY <1>2, <2>1, <2>2 DEF KeyIsConfigured
<1>3. CASE ~OwnsStore(SealedFor(s))
  <2>1. s.wire.encrypted_dek.key \in KeysGiven(s.wire.key_id)
    BY <1>3 DEF KeyIsGiven
  <2>2. KeysGiven(s.wire.key_id) = {s.wire.encrypted_dek.key}
    BY <1>1, <2>1 DEF Tidy
  <2>. QED  BY <1>3, <2>2 DEF KeyIsConfigured, Names
<1>. QED  BY <1>2, <1>3

\* What the process seals, it seals under a key the environment gives.
LEMMA ServedKeyIsGiven ==
  ASSUME Inv, app # Down, NEW t \in Tenants
  PROVE  LET store == StoreFor(app.stores, t)
         IN IF OwnsStore(t) THEN store \in OfferedStores(env, t)
            ELSE /\ store = app.kek_store
                 /\ store.raw \in KeysGiven(store.id)
<1>1. /\ env \in EnvVars /\ app.kek_store \in FromEnv(env) /\ app.kek_store \in KekStores
      /\ app.stores \in RegistriesFrom(env, app.kek_store)
  BY FromEnvType DEF Inv, TypeOK, StoresOK
<1>2. app.kek_store.raw \in KeysGiven(app.kek_store.id)
  BY <1>1, FromEnvType DEF KeysGiven
<1>. QED  BY <1>1, <1>2, StoreForTenant DEF OwnsStore

-----------------------------------------------------------------------------
(* The steps of the process.                                               *)

\* Tidy and KeyIsGiven look at the environment alone.
LEMMA SameEnvironment ==
  ASSUME env' = env
  PROVE  /\ Tidy' = Tidy
         /\ \A s : KeyIsGiven(s)' = KeyIsGiven(s)
BY DEF Tidy, KeyIsGiven, KeysGiven, OwnsStore

\* Every step of the process keeps the given keys given.
LEMMA ServiceStep ==
  ASSUME RInv, ServiceNext
  PROVE  RInv'
<1>. USE DEF RInv
<1>1. Inv'
  BY StepInv DEF Next
<1>2. env' = env
  BY DEF ServiceNext, Requests, encrypt_handler, encrypt_v1, decrypt_handler, decrypt_v1,
         TakeAnswer, create_app, Stop
<1>3. ASSUME NEW s \in sealed', s \notin sealed PROVE KeyIsGiven(s)
  <2>1. ASSUME NEW p \in Payloads, encrypt_handler(p) PROVE KeyIsGiven(s)
    <3>1. PICK dek :
            s = [by |-> "encrypt",
                 wire |-> EncryptResponse(EncryptEnvelope(app.kek_store, "default", "default",
                                                          "aes-256-gcm", p, dek))]
      BY <1>3, <2>1 DEF encrypt_handler, Seals
    <3>2. /\ SealedFor(s) = "default" /\ s.wire.key_id = app.kek_store.id
          /\ s.wire.encrypted_dek.key = app.kek_store.raw
      BY <3>1 DEF SealedFor, EncryptResponse, EncryptEnvelope, Seal
    <3>3. app # Down /\ "default" \in Tenants /\ ~OwnsStore("default")
      BY <2>1, KeyServiceAssumption DEF encrypt_handler, Ready, OwnsStore
    <3>. QED  BY <3>2, <3>3, ServedKeyIsGiven DEF KeyIsGiven
  <2>2. ASSUME NEW p \in Payloads, NEW t \in Tenants, NEW u \in Purposes, NEW l \in Levels,
               encrypt_v1(t, u, l, p)
        PROVE  KeyIsGiven(s)
    <3>. DEFINE store == StoreFor(app.stores, t)
    <3>1. PICK dek :
            s = [by |-> "encrypt_v1",
                 wire |-> EncryptEnvelope(store, t, u, "aes-256-gcm", p, dek)]
      BY <1>3, <2>2 DEF encrypt_v1, Seals
    <3>2. /\ SealedFor(s) = t /\ s.wire.key_id = store.id
          /\ s.wire.encrypted_dek.key = store.raw
      BY <3>1 DEF SealedFor, EncryptEnvelope, Seal
    <3>3. app # Down
      BY <2>2 DEF encrypt_v1, Ready
    <3>. QED  BY <3>2, <3>3, ServedKeyIsGiven DEF KeyIsGiven
  <2>3. UNCHANGED sealed => FALSE
    BY <1>3
  <2>. QED  BY <2>1, <2>2, <2>3
            DEF ServiceNext, Requests, decrypt_handler, decrypt_v1, TakeAnswer, create_app, Stop
<1>. QED  BY <1>1, <1>2, <1>3, SameEnvironment

-----------------------------------------------------------------------------
(* A rotation.                                                             *)

\* What a rotation makes of the environment: the new id is given the new key,
\* every other id keeps what it was given.
LEMMA RotatedKeys ==
  ASSUME env \in EnvVars, Tidy, NEW key \in Keys, NEW id \in Ids, Rotate(key, id)
  PROVE  /\ env' \in EnvVars
         /\ KeysGiven(id)' = {key}
         /\ \A i \in Ids \ {id} : KeysGiven(i)' = KeysGiven(i)
         /\ \A t : OfferedStores(env, t)' = OfferedStores(env, t)
<1>1. PICK extra \in [Suffixes -> HexVars] :
        /\ MovesOld(extra)
        /\ env' = [env EXCEPT !.kek = key, !.kekId = id, !.old = env.kek,
                              !.oldId = CurrentId(env), !.extra = extra]
  BY DEF Rotate, Rotates
<1>2. /\ env'.kek = key /\ env'.old = env.kek /\ env'.extra = extra
      /\ env'.tenants = env.tenants
      /\ env' \in EnvVars
  BY <1>1, IdsOfEnv DEF EnvVars, HexVars
<1>3. CurrentId(env)' = id /\ OldId(env)' = CurrentId(env)
  <2>1. env'.kekId = id /\ env'.oldId = CurrentId(env)
    BY <1>1 DEF EnvVars
  <2>. QED  BY <2>1, IdsOfEnv, KekStoreAssumption DEF CurrentId, OldId
<1>4. Unused(id)
  BY DEF Rotate, Rotates
<1>5. env.kek \in Keys
  BY DEF Tidy
\* Which keys the suffixes give, after the old key moved among them.
<1>6. ASSUME NEW i \in Ids, NEW k \in Keys
      PROVE  (\E x \in Suffixes : SuffixId[x] = i /\ k = extra[x])
               <=> \/ \E x \in Suffixes : SuffixId[x] = i /\ k = env.extra[x]
                   \/ k = env.old /\ i = OldId(env)
  <2>1. CASE env.old \notin Keys /\ extra = env.extra
    BY <2>1
  <2>2. CASE env.old \in Keys
    <3>1. PICK x \in Suffixes :
            /\ SuffixId[x] = OldId(env)
            /\ env.extra[x] = Unset
            /\ extra = [env.extra EXCEPT ![x] = env.old]
      BY <1>1, <2>2 DEF MovesOld
    <3>2. env.extra \in [Suffixes -> HexVars]
      BY DEF EnvVars
    <3>3. \A y \in Suffixes : extra[y] = IF y = x THEN env.old ELSE env.extra[y]
      BY <3>1, <3>2
    <3>4. Unset \notin Keys
      BY KekStoreAssumption
    <3>. QED  BY <3>1, <3>3, <3>4
  <2>. QED  BY <1>1, <2>1, <2>2 DEF MovesOld
<1>7. ASSUME NEW i \in Ids, NEW k \in Keys
      PROVE  k \in KeysGiven(i)' <=> \/ k = key /\ i = id
                                     \/ k \in KeysGiven(i)
  BY <1>2, <1>3, <1>6 DEF KeysGiven
<1>8. \A i \in Ids : KeysGiven(i) \subseteq Keys /\ KeysGiven(i)' \subseteq Keys
  BY DEF KeysGiven
<1>9. \A t : OfferedStores(env', t) = OfferedStores(env, t)
  BY <1>2 DEF OfferedStores
<1>. QED  BY <1>2, <1>4, <1>7, <1>8, <1>9 DEF Unused

\* A rotation keeps the environment tidy and the given keys given.
LEMMA RotationStep ==
  ASSUME RInv, NEW key \in Keys, NEW id \in Ids, Rotate(key, id)
  PROVE  RInv'
<1>. USE DEF RInv
<1>1. /\ env' \in EnvVars
      /\ KeysGiven(id)' = {key}
      /\ \A i \in Ids \ {id} : KeysGiven(i)' = KeysGiven(i)
      /\ \A t : OfferedStores(env, t)' = OfferedStores(env, t)
  BY RotatedKeys DEF Inv, TypeOK
<1>2. app = Down /\ UNCHANGED <<app, sealed, reply>> /\ env'.kek = key
  <2>1. env \in EnvVars
    BY DEF Inv, TypeOK
  <2>. QED  BY <2>1 DEF Rotate, Rotates, EnvVars
<1>3. Inv'
  BY <1>1, <1>2 DEF Inv, TypeOK, StoresOK, SealedOK, WellSealed, AadOf
<1>4. Tidy'
  BY <1>1, <1>2 DEF Tidy
<1>5. ASSUME NEW s \in sealed PROVE KeyIsGiven(s)'
  <2>1. s.wire.key_id \in Ids
    BY DEF Inv, SealedOK, WellSealed
  <2>2. OwnsStore(SealedFor(s))' = OwnsStore(SealedFor(s))
    BY <1>1 DEF OwnsStore, SealedFor
  <2>3. CASE OwnsStore(SealedFor(s))
    BY <1>1, <2>2, <2>3 DEF KeyIsGiven, SealedFor
  <2>4. CASE ~OwnsStore(SealedFor(s))
    <3>1. s.wire.encrypted_dek.key \in KeysGiven(s.wire.key_id)
      BY <2>4 DEF KeyIsGiven
    <3>2. s.wire.key_id # id
      BY <3>1 DEF Rotate, Rotates, Unused
    <3>. QED  BY <1>1, <2>1, <2>2, <2>4, <3>1, <3>2 DEF KeyIsGiven
  <2>. QED  BY <2>3, <2>4
<1>. QED  BY <1>2, <1>3, <1>4, <1>5

\* Before the first start a client may hold an envelope of an old release, whose
\* key is the current one.
LEMMA RotationInitInv == RotationInit => RInv
<1>. SUFFICES ASSUME RotationInit PROVE RInv
  OBVIOUS
<1>1. Inv /\ Tidy
  BY InitInv DEF RotationInit
<1>2. ASSUME NEW s \in sealed PROVE KeyIsGiven(s)
  <2>1. PICK k \in {env.kek} \cap Keys, p \in Plaintexts, d \in Deks :
          s = [by |-> "old_release", wire |-> OldRelease(CurrentId(env), k, p, d)]
    BY DEF RotationInit, Init
  <2>2. /\ SealedFor(s) = "default" /\ s.wire.key_id = CurrentId(env)
        /\ s.wire.encrypted_dek.key = env.kek
    BY <2>1 DEF SealedFor, OldRelease, Seal
  <2>. QED  BY <2>1, <2>2 DEF KeyIsGiven, OwnsStore, KeysGiven
<1>. QED  BY <1>1, <1>2 DEF RInv

\* For every instance: however often APP_KEK is rotated with the old key handed
\* on under its id, every kept envelope can be read (README:106).
THEOREM RotationLosesNothing == RotationSpec => []NoDataLoss
<1>1. RotationInit => RInv
  BY RotationInitInv
<1>2. RInv /\ [RotationNext]_vars => RInv'
  <2>1. ASSUME RInv, UNCHANGED vars PROVE RInv'
    <3>1. Inv'
      BY <2>1, StepInv DEF RInv
    <3>. QED  BY <2>1, <3>1, SameEnvironment DEF RInv, vars
  <2>. QED  BY <2>1, ServiceStep, RotationStep DEF RotationNext
<1>3. RInv => NoDataLoss
  BY GivenIsConfigured, ConfiguredReadable DEF RInv, NoDataLoss
<1>. QED  BY <1>1, <1>2, <1>3, PTL DEF RotationSpec
=============================================================================
