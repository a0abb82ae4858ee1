------------------------- MODULE SecretServiceProofs -------------------------
(***************************************************************************)
(* The invariants of SecretService, for any keys, ids, tenants,            *)
(* environments and damage to stored envelopes.                            *)
(***************************************************************************)
EXTENDS SecretService, TLAPS

-----------------------------------------------------------------------------
(* What the stores built from an environment hold.                         *)

\* The current and the old id are ids, whichever variables are set.
LEMMA IdsOfEnv ==
  ASSUME NEW e \in EnvVars
  PROVE  CurrentId(e) \in Ids /\ OldId(e) \in Ids
BY KekStoreAssumption DEF EnvVars, CurrentId, OldId

\* A store from the environment holds APP_KEK as its current key, under the
\* current id.
LEMMA FromEnvType ==
  ASSUME NEW e \in EnvVars, NEW s \in FromEnv(e)
  PROVE  /\ s \in KekStores
         /\ s.id = CurrentId(e)
         /\ s.raw = e.kek /\ e.kek \in Keys
         /\ s.previous \in PreviousMaps(e)
BY IdsOfEnv DEF FromEnv, PreviousMaps, KekStores

\* A store that tenant variables offer is well-typed and has no previous keys.
LEMMA OfferedType ==
  ASSUME NEW e \in EnvVars, NEW t \in Tenants, NEW s \in OfferedStores(e, t)
  PROVE  /\ s \in KekStores
         /\ s.previous = [i \in Ids |-> NoKey]
<1>1. PICK v \in TenantVars :
        /\ e.tenants[v].kek \in Keys
        /\ s = FromHex(IF e.tenants[v].id = Unset THEN "primary" ELSE e.tenants[v].id,
                       e.tenants[v].kek)
  BY DEF OfferedStores
<1>2. e.tenants[v].id \in Ids \cup {Unset}
  BY DEF EnvVars
<1>. QED  BY <1>1, <1>2, KekStoreAssumption DEF FromHex, KekStores

\* A registry always has "default", and any other tenant's own store or none.
LEMMA RegistryType ==
  ASSUME NEW e \in EnvVars, NEW d \in KekStores, NEW r \in RegistriesFrom(e, d)
  PROVE  /\ r \in Registries
         /\ r["default"] = d
         /\ \A t \in Tenants :
              \/ r[t] \in OfferedStores(e, t) /\ t # "default"
              \/ r[t] = d /\ t = "default"
              \/ r[t] = NoStore /\ OfferedStores(e, t) = {}
<1>1. \A t \in Tenants : r[t] \in KekStores \cup {NoStore}
  BY OfferedType DEF RegistriesFrom
<1>. QED  BY <1>1, KeyServiceAssumption DEF RegistriesFrom, Registries

\* The store that serves a tenant: its own when its variables offer one.
LEMMA StoreForTenant ==
  ASSUME NEW e \in EnvVars, NEW d \in KekStores, NEW r \in RegistriesFrom(e, d),
         NEW t \in Tenants
  PROVE  /\ StoreFor(r, t) \in KekStores
         /\ IF t # "default" /\ OfferedStores(e, t) # {}
              THEN StoreFor(r, t) \in OfferedStores(e, t)
              ELSE StoreFor(r, t) = d
BY RegistryType, OfferedType, KeyServiceAssumption DEF StoreFor

\* Resolving an id gives a key or none.
LEMMA ResolveType ==
  ASSUME NEW s \in KekStores, NEW i \in Ids
  PROVE  ResolveRaw(s, i) \in Keys \cup {NoKey}
BY DEF KekStores, ResolveRaw, GetRaw

-----------------------------------------------------------------------------
(* Types of the envelopes.                                                 *)

\* "aes-256-gcm" is spelt in normal form and allowed on every level, so that
\* sealing with it is never refused.
LEMMA AesIsNormal ==
  /\ Normal["aes-256-gcm"] = "aes-256-gcm"
  /\ "aes-256-gcm" \in AlgNames \cap Ciphers
  /\ "aes-256-gcm" \in Approved
  /\ \A l : Compliant("aes-256-gcm", l)
  /\ Encrypts("aes-256-gcm")
BY NormalAssumption DEF Ciphers, Approved, Compliant, Encrypts

\* An envelope that encrypt_envelope returns, with the types of its fields.
LEMMA EncryptType ==
  ASSUME NEW store \in KekStores, NEW t \in Tenants, NEW u \in Purposes,
         NEW p \in Plaintexts, NEW d \in Deks
  PROVE  EncryptEnvelope(store, t, u, "aes-256-gcm", p, d) \in
           [ciphertext : Boxes, encrypted_dek : Boxes, key_id : Ids,
            tenant_id : Tenants, purpose : Purposes, algorithm : AlgNames]
<1>1. store.id \in Ids /\ store.raw \in Keys
  BY DEF KekStores
<1>. DEFINE aad == CanonicalAad(t, u, store.id, "aes-256-gcm")
<1>2. aad \in {CanonicalAad(tt, pp, i, a) :
                   tt \in Tenants, pp \in Purposes, i \in Ids, a \in AlgNames}
  BY <1>1, AesIsNormal
<1>3. Seal("aes-256-gcm", d, DataAad, p) \in Boxes
  BY AesIsNormal DEF Seal, Boxes
<1>4. Seal("aes-256-gcm", store.raw, aad, d) \in Boxes
  <2>. HIDE DEF aad
  <2>. QED  BY <1>1, <1>2, AesIsNormal DEF Seal, Boxes
<1>. QED  BY <1>1, <1>3, <1>4, AesIsNormal DEF EncryptEnvelope

\* An envelope of an old release is a JSON object clients can hold.
LEMMA OldReleaseType ==
  ASSUME NEW i \in Ids, NEW k \in Keys, NEW p \in Plaintexts, NEW d \in Deks
  PROVE  OldRelease(i, k, p, d) \in Wires
<1>1. Seal("aes-256-gcm", d, DataAad, p) \in Boxes
  BY AesIsNormal DEF Seal, Boxes
<1>2. Seal("aes-256-gcm", k, LegacyAad(i), d) \in Boxes
  <2>. DEFINE aad == LegacyAad(i)
  <2>1. aad \in {LegacyAad(j) : j \in Ids}
    OBVIOUS
  <2>. HIDE DEF aad
  <2>. QED  BY <2>1, AesIsNormal DEF Seal, Boxes
<1>. QED  BY <1>1, <1>2 DEF OldRelease, Wires

\* What clients send back is well-typed, and its parts are damaged or come from
\* kept envelopes.
LEMMA SubmissionType ==
  ASSUME TypeOK, NEW e \in Submissions
  PROVE  /\ e \in Wires
         /\ {e.ciphertext, e.encrypted_dek} \subseteq DamagedParts
<1>1. PICK s \in sealed : e \in Damaged(s.wire) \/ e = WithDefaults(s.wire)
  <2>1. CASE e \in {WithDefaults(s.wire) : s \in sealed}
    BY <2>1
  <2>2. CASE e \in UNION {Damaged(s.wire) : s \in sealed}
    <3>1. PICK D \in {Damaged(s.wire) : s \in sealed} : e \in D
      BY <2>2
    <3>2. PICK s \in sealed : D = Damaged(s.wire)
      BY <3>1
    <3>. QED  BY <3>1, <3>2
  <2>. QED  BY <2>1, <2>2 DEF Submissions
<1>2. s.wire \in Wires
  BY DEF TypeOK
<1>3. \A c \in DamagedParts : c \in Boxes \cup Malformed
  BY ServiceAssumption DEF DamagedParts, TypeOK, Wires, Parts
<1>4. s.wire.ciphertext \in DamagedParts /\ s.wire.encrypted_dek \in DamagedParts
  BY DEF DamagedParts, Parts
<1>5. "default" \in Tenants \cap Purposes /\ "aes-256-gcm" \in AlgNames
  BY KeyServiceAssumption, EnvelopeAssumption, AesIsNormal
<1>6. CASE e = WithDefaults(s.wire)
  BY <1>2, <1>4, <1>5, <1>6 DEF WithDefaults, Wires
<1>7. CASE e \in Damaged(s.wire)
  <2>. USE <1>2, <1>3, <1>4 DEF Wires
  <2>1. ASSUME NEW c \in DamagedParts, e = [s.wire EXCEPT !.ciphertext = c] PROVE e \in Wires /\ {e.ciphertext, e.encrypted_dek} \subseteq DamagedParts
    BY <2>1
  <2>2. ASSUME NEW c \in DamagedParts, e = [s.wire EXCEPT !.encrypted_dek = c] PROVE e \in Wires /\ {e.ciphertext, e.encrypted_dek} \subseteq DamagedParts
    BY <2>2
  <2>3. ASSUME NEW i \in Ids \cup {Absent}, e = [s.wire EXCEPT !.key_id = i] PROVE e \in Wires /\ {e.ciphertext, e.encrypted_dek} \subseteq DamagedParts
    BY <2>3
  <2>4. ASSUME NEW t \in Tenants \cup {Absent}, e = [s.wire EXCEPT !.tenant_id = t] PROVE e \in Wires /\ {e.ciphertext, e.encrypted_dek} \subseteq DamagedParts
    BY <2>4
  <2>5. ASSUME NEW p \in Purposes \cup {Absent}, e = [s.wire EXCEPT !.purpose = p] PROVE e \in Wires /\ {e.ciphertext, e.encrypted_dek} \subseteq DamagedParts
    BY <2>5
  <2>6. ASSUME NEW a \in AlgNames \cup {Absent}, e = [s.wire EXCEPT !.algorithm = a] PROVE e \in Wires /\ {e.ciphertext, e.encrypted_dek} \subseteq DamagedParts
    BY <2>6
  <2>. QED  BY <1>7, <2>1, <2>2, <2>3, <2>4, <2>5, <2>6, Zenon DEF Damaged
<1>. QED  BY <1>1, <1>6, <1>7

-----------------------------------------------------------------------------
(* The inductive invariant.  TypeOK alone is not inductive: that a handler *)
(* always finds a store needs StoresOK, and that what it opens is one      *)
(* sealing needs SealedOK.                                                 *)

\* The running process has the stores create_app built from this environment.
StoresOK ==
  app # Down => /\ app.kek_store \in FromEnv(env)
                /\ app.stores \in RegistriesFrom(env, app.kek_store)

\* The associated data a kept envelope's DEK was sealed with.
AadOf(s) ==
  CASE s.by = "encrypt"     -> CanonicalAad("default", "default", s.wire.key_id, "aes-256-gcm")
    [] s.by = "encrypt_v1"  -> CanonicalAad(s.wire.tenant_id, s.wire.purpose, s.wire.key_id,
                                            "aes-256-gcm")
    [] s.by = "old_release" -> LegacyAad(s.wire.key_id)

\* A kept envelope is the outcome of one sealing.
WellSealed(s) ==
  /\ s.wire.key_id \in Ids
  /\ \E d \in Deks, p \in Plaintexts, k \in Keys :
       /\ s.wire.ciphertext = Seal("aes-256-gcm", d, DataAad, p)
       /\ s.wire.encrypted_dek = Seal("aes-256-gcm", k, AadOf(s), d)
  /\ IF s.by = "encrypt_v1"
       THEN /\ s.wire.tenant_id \in Tenants
            /\ s.wire.purpose \in Purposes
            /\ s.wire.algorithm = "aes-256-gcm"
       ELSE {s.wire.tenant_id, s.wire.purpose, s.wire.algorithm} = {Absent}

\* Two sealings never drew the same DEK.
SealedOK ==
  /\ \A s \in sealed : WellSealed(s)
  /\ \A r, s \in sealed : r.wire.encrypted_dek.msg = s.wire.encrypted_dek.msg => r = s

Inv ==
  /\ TypeOK
  /\ StoresOK
  /\ SealedOK
  /\ app = Down => reply = NoReply

\* While the process runs it finds a store for every tenant.
LEMMA ServingStoreType ==
  ASSUME Inv, app # Down, NEW t \in Tenants
  PROVE  StoreFor(app.stores, t) \in KekStores /\ app.kek_store \in KekStores
BY FromEnvType, StoreForTenant DEF Inv, TypeOK, StoresOK

\* An answer belongs to the kind its parts belong to.
LEMMA AnswerKind ==
  ASSUME NEW ops, NEW op \in ops, NEW t \in Tenants, NEW sents, NEW sent \in sents,
         NEW status, NEW bodies, NEW body \in bodies,
         Answer(op, t, sent, status, body)
  PROVE  reply' \in RepliesOf(ops, sents, status, bodies)
BY DEF Answer, RepliesOf

\* What /v1/crypto/encrypt answers with is the outcome of one sealing.
LEMMA EncryptV1WellSealed ==
  ASSUME NEW store \in KekStores, NEW t \in Tenants, NEW u \in Purposes,
         NEW p \in Plaintexts, NEW d \in Deks,
         NEW s, s = [by |-> "encrypt_v1",
                     wire |-> EncryptEnvelope(store, t, u, "aes-256-gcm", p, d)]
  PROVE  WellSealed(s) /\ s.wire.encrypted_dek.msg = d /\ s.wire \in Wires
<1>1. s.wire \in Wires
  BY EncryptType DEF Wires
<1>2. /\ s.wire.ciphertext = Seal("aes-256-gcm", d, DataAad, p)
      /\ s.wire.encrypted_dek = Seal("aes-256-gcm", store.raw, AadOf(s), d)
  BY AesIsNormal DEF EncryptEnvelope, AadOf
<1>3. store.id \in Ids /\ store.raw \in Keys
  BY DEF KekStores
<1>4. s.wire.encrypted_dek.msg = d
  BY <1>2 DEF Seal
<1>5. /\ s.by = "encrypt_v1" /\ s.wire.key_id = store.id
      /\ s.wire.tenant_id = t /\ s.wire.purpose = u /\ s.wire.algorithm = "aes-256-gcm"
  BY AesIsNormal DEF EncryptEnvelope
<1>. QED  BY <1>1, <1>2, <1>3, <1>4, <1>5 DEF WellSealed

\* What /encrypt answers with is the outcome of one sealing.
LEMMA EncryptWellSealed ==
  ASSUME NEW store \in KekStores, NEW p \in Plaintexts, NEW d \in Deks,
         NEW s, s = [by |-> "encrypt",
                     wire |-> EncryptResponse(EncryptEnvelope(store, "default", "default",
                                                              "aes-256-gcm", p, d))]
  PROVE  WellSealed(s) /\ s.wire.encrypted_dek.msg = d /\ s.wire \in Wires
<1>0. "default" \in Tenants \cap Purposes
  BY KeyServiceAssumption, EnvelopeAssumption
<1>1. s.wire \in Wires
  <2>. DEFINE e == EncryptEnvelope(store, "default", "default", "aes-256-gcm", p, d)
  <2>1. e \in Wires
    BY <1>0, EncryptType DEF Wires
  <2>2. s.wire = EncryptResponse(e)
    OBVIOUS
  <2>. HIDE DEF e
  <2>. QED  BY <2>1, <2>2 DEF Wires, EncryptResponse
<1>2. /\ s.wire.ciphertext = Seal("aes-256-gcm", d, DataAad, p)
      /\ s.wire.encrypted_dek = Seal("aes-256-gcm", store.raw, AadOf(s), d)
  BY AesIsNormal DEF EncryptEnvelope, EncryptResponse, AadOf
<1>3. store.id \in Ids /\ store.raw \in Keys
  BY DEF KekStores
<1>4. s.wire.encrypted_dek.msg = d
  BY <1>2 DEF Seal
<1>5. /\ s.by = "encrypt" /\ s.wire.key_id = store.id
      /\ s.wire.tenant_id = Absent /\ s.wire.purpose = Absent /\ s.wire.algorithm = Absent
  BY DEF EncryptEnvelope, EncryptResponse
<1>. QED  BY <1>1, <1>2, <1>3, <1>4, <1>5 DEF WellSealed

\* An envelope of an old release is the outcome of one sealing.
LEMMA OldReleaseWellSealed ==
  ASSUME NEW i \in Ids, NEW k \in Keys, NEW p \in Plaintexts, NEW d \in Deks,
         NEW s, s = [by |-> "old_release", wire |-> OldRelease(i, k, p, d)]
  PROVE  WellSealed(s) /\ s.wire \in Wires
<1>1. s.wire \in Wires
  BY OldReleaseType
<1>2. /\ s.wire.ciphertext = Seal("aes-256-gcm", d, DataAad, p)
      /\ s.wire.encrypted_dek = Seal("aes-256-gcm", k, AadOf(s), d)
  BY DEF OldRelease, AadOf
<1>3. /\ s.by = "old_release" /\ s.wire.key_id = i
      /\ s.wire.tenant_id = Absent /\ s.wire.purpose = Absent /\ s.wire.algorithm = Absent
  BY DEF OldRelease
<1>. QED  BY <1>1, <1>2, <1>3 DEF WellSealed

\* A request that is only answered keeps the invariant.
LEMMA AnswerInv ==
  ASSUME Inv, app # Down, reply' \in Replies, UNCHANGED <<env, app, sealed>>
  PROVE  Inv'
BY DEF Inv, TypeOK, StoresOK, SealedOK, WellSealed, AadOf

\* Keeping an envelope that was well sealed with a fresh DEK keeps the invariant.
LEMMA SealsInv ==
  ASSUME Inv, NEW by \in {"encrypt", "encrypt_v1"}, NEW wire \in Wires,
         WellSealed([by |-> by, wire |-> wire]),
         wire.encrypted_dek.msg \in FreshDeks,
         Seals(by, wire), UNCHANGED <<env, app>>,
         app # Down, reply' \in Replies
  PROVE  Inv'
<1>. DEFINE s == [by |-> by, wire |-> wire]
<1>1. sealed' = sealed \cup {s}
  BY DEF Seals
<1>2. TypeOK'
  BY <1>1 DEF Inv, TypeOK
<1>3. s.wire.encrypted_dek.msg \notin {r.wire.encrypted_dek.msg : r \in sealed}
  BY DEF FreshDeks
<1>4. \A r \in sealed : r.wire.encrypted_dek.msg # s.wire.encrypted_dek.msg
  BY <1>3
<1>5. SealedOK'
  <2>1. \A r \in sealed' : WellSealed(r)
    BY <1>1 DEF Inv, SealedOK
  <2>2. \A q, r \in sealed' :
          q.wire.encrypted_dek.msg = r.wire.encrypted_dek.msg => q = r
    <3>. HIDE DEF s
    <3>. QED  BY <1>1, <1>4 DEF Inv, SealedOK
  <2>. QED  BY <2>1, <2>2 DEF SealedOK
<1>6. StoresOK'
  BY DEF Inv, StoresOK
<1>. QED  BY <1>2, <1>5, <1>6 DEF Inv

-----------------------------------------------------------------------------
(* What a successful decryption opened.                                    *)

\* The defaults put in for missing fields are well-typed and leave the parts alone.
LEMMA DeserializeType ==
  ASSUME NEW e \in Wires
  PROVE  /\ Deserialize(e) \in Wires /\ HandlerEnvelope(e) \in Wires
         /\ Deserialize(e).key_id \in Ids
         /\ HandlerEnvelope(e).key_id = Deserialize(e).key_id
         /\ Deserialize(e).ciphertext = e.ciphertext
         /\ Deserialize(e).encrypted_dek = e.encrypted_dek
         /\ HandlerEnvelope(e).ciphertext = e.ciphertext
         /\ HandlerEnvelope(e).encrypted_dek = e.encrypted_dek
         /\ HandlerEnvelope(e).tenant_id = "default"
         /\ HandlerEnvelope(e).purpose = "default"
         /\ HandlerEnvelope(e).algorithm = "aes-256-gcm"
<1>. DEFINE d == Deserialize(e)
<1>1. /\ "primary" \in Ids /\ "" \in Tenants \cap Purposes /\ "default" \in Tenants \cap Purposes
      /\ "aes-256-gcm" \in AlgNames
  BY KekStoreAssumption, KeyServiceAssumption, EnvelopeAssumption, AesIsNormal
<1>2. d \in Wires /\ d.key_id \in Ids /\ d.ciphertext = e.ciphertext
        /\ d.encrypted_dek = e.encrypted_dek
  BY <1>1, ZenonT(40) DEF Deserialize, Default, Wires
<1>3. HandlerEnvelope(e) = WithDefaults(d)
  BY DEF HandlerEnvelope
<1>. QED  BY <1>1, <1>2, <1>3, ZenonT(40) DEF WithDefaults, Wires

\* A part that is a box comes from a kept envelope: its DEK's box under a KEK, its
\* data's box under a DEK.
LEMMA PartOrigin ==
  ASSUME Inv, NEW c \in DamagedParts, c \notin Malformed
  PROVE  \E s \in sealed :
           \/ c = s.wire.ciphertext /\ c.key \in Deks
           \/ c = s.wire.encrypted_dek /\ c.key \in Keys
<1>1. PICK s \in sealed : c \in Parts(s.wire)
  <2>1. PICK P \in {Parts(s.wire) : s \in sealed} : c \in P
    BY ServiceAssumption DEF DamagedParts
  <2>. QED  BY <2>1
<1>2. WellSealed(s)
  BY DEF Inv, SealedOK
<1>. QED  BY <1>1, <1>2 DEF WellSealed, Seal, Parts

\* When an envelope decrypts, both its parts come from one and the same sealing.
LEMMA OpensOneSealing ==
  ASSUME Inv, NEW store \in KekStores, NEW e \in Wires, e.key_id \in Ids,
         {e.ciphertext, e.encrypted_dek} \subseteq DamagedParts,
         Decrypts(store, e)
  PROVE  \E s \in sealed :
           /\ e.ciphertext = s.wire.ciphertext
           /\ e.encrypted_dek = s.wire.encrypted_dek
           /\ AadOf(s) \in AadsTried(e)
           /\ e.encrypted_dek.key = ResolveRaw(store, e.key_id)
           /\ s.wire.ciphertext.msg \in Plaintexts
<1>. DEFINE kek == ResolveRaw(store, e.key_id)
<1>1. kek \in Keys /\ kek \notin Deks
  BY ResolveType, EnvelopeAssumption DEF Decrypts
<1>2. PICK aad \in AadsTried(e) :
        Opens(AlgorithmOf(e), kek, aad, e.encrypted_dek)
  BY DEF Decrypts
<1>3. PICK s \in sealed : e.encrypted_dek = s.wire.encrypted_dek
  <2>1. e.encrypted_dek \notin Malformed /\ e.encrypted_dek.key = kek
    BY <1>2 DEF Opens
  <2>. QED  BY <1>1, <2>1, PartOrigin
<1>4. PICK r \in sealed : e.ciphertext = r.wire.ciphertext
  <2>1. e.ciphertext \notin Malformed /\ e.ciphertext.key \in Deks
    BY DEF Decrypts, Opens
  <2>. QED  BY <2>1, PartOrigin, EnvelopeAssumption
<1>5. WellSealed(s) /\ WellSealed(r)
  BY DEF Inv, SealedOK
<1>6. e.encrypted_dek.msg = e.ciphertext.key
  BY DEF Decrypts, Opens
<1>7. r.wire.ciphertext.key = r.wire.encrypted_dek.msg
  BY <1>5 DEF WellSealed, Seal
<1>8. r = s
  BY <1>3, <1>4, <1>6, <1>7 DEF Inv, SealedOK
<1>9. s.wire.encrypted_dek.aad = AadOf(s) /\ s.wire.ciphertext.msg \in Plaintexts
  BY <1>5 DEF WellSealed, Seal
<1>10. aad = AadOf(s) /\ e.encrypted_dek.key = kek
  BY <1>2, <1>3, <1>9 DEF Opens
<1>. QED  BY <1>2, <1>3, <1>4, <1>8, <1>9, <1>10

\* A decryption that succeeds was sent two boxes and gives a plaintext, one that
\* fails gives an error.
LEMMA DecryptGives ==
  ASSUME Inv, NEW store \in KekStores, NEW e \in Wires, e.key_id \in Ids,
         {e.ciphertext, e.encrypted_dek} \subseteq DamagedParts
  PROVE  IF Decrypts(store, e)
           THEN /\ e.ciphertext \in Boxes /\ e.encrypted_dek \in Boxes
                /\ DecryptEnvelope(store, e) \in Plaintexts
           ELSE DecryptEnvelope(store, e) \in Errors
<1>1. CASE Decrypts(store, e)
  <2>1. e.ciphertext \notin Malformed /\ e.encrypted_dek \notin Malformed
    BY <1>1 DEF Decrypts, Opens
  <2>2. e.ciphertext \in Boxes /\ e.encrypted_dek \in Boxes
    BY <2>1 DEF Wires
  <2>3. e.ciphertext.msg \in Plaintexts
    BY <1>1, OpensOneSealing
  <2>. QED  BY <1>1, <2>2, <2>3 DEF DecryptEnvelope
<1>2. CASE ~Decrypts(store, e)
  BY <1>2 DEF DecryptEnvelope, Errors
<1>. QED  BY <1>1, <1>2

-----------------------------------------------------------------------------
(* Every step keeps the invariant.                                         *)

\* The invariant holds before the first start.
LEMMA InitInv == Init => Inv
<1>. SUFFICES ASSUME Init PROVE Inv
  OBVIOUS
<1>1. env \in EnvVars
  BY ServiceAssumption DEF Init
<1>2. /\ sealed \subseteq [by : {"encrypt", "encrypt_v1", "old_release"}, wire : Wires]
      /\ SealedOK
  <2>1. CASE sealed = {}
    BY <2>1 DEF SealedOK
  <2>2. ASSUME NEW k \in {env.kek} \cap Keys, NEW p \in Plaintexts, NEW d \in Deks,
               sealed = {[by |-> "old_release", wire |-> OldRelease(CurrentId(env), k, p, d)]}
        PROVE  /\ sealed \subseteq [by : {"encrypt", "encrypt_v1", "old_release"}, wire : Wires]
               /\ SealedOK
    <3>. DEFINE s == [by |-> "old_release", wire |-> OldRelease(CurrentId(env), k, p, d)]
    <3>1. WellSealed(s) /\ s.wire \in Wires
      BY <1>1, IdsOfEnv, OldReleaseWellSealed
    <3>2. s \in [by : {"encrypt", "encrypt_v1", "old_release"}, wire : Wires]
      BY <3>1
    <3>. HIDE DEF s
    <3>. QED  BY <2>2, <3>1, <3>2 DEF SealedOK, s
  <2>. QED  BY <2>1, <2>2 DEF Init
<1>. QED  BY <1>1, <1>2 DEF Init, Inv, TypeOK, StoresOK

\* POST /encrypt keeps the invariant.
LEMMA EncryptHandlerInv ==
  ASSUME Inv, NEW p \in Payloads, encrypt_handler(p)
  PROVE  Inv'
<1>0. app # Down /\ app.kek_store \in KekStores /\ "default" \in Tenants \cap Purposes
  BY ServingStoreType, KeyServiceAssumption, EnvelopeAssumption DEF encrypt_handler, Ready
<1>1. CASE p \notin Plaintexts
  <2>1. \/ p \in OutOfBounds \cup {OverSize} /\ EncryptStatus(p) = 413
        \/ p \in {BadB64} /\ EncryptStatus(p) = 400
    BY <1>1 DEF EncryptStatus, OutOfBounds, Payloads
  <2>2. /\ Answer("encrypt", "default", p, EncryptStatus(p), Refused)
        /\ UNCHANGED <<env, app, sealed>>
    BY <2>1 DEF encrypt_handler
  <2>3. reply' \in EncryptReplies
    BY <1>0, <2>1, <2>2, AnswerKind DEF EncryptReplies
  <2>. QED  BY <1>0, <2>2, <2>3, AnswerInv DEF Replies
<1>2. CASE p \in Plaintexts
  <2>1. EncryptStatus(p) = 200
    BY <1>2, AesIsNormal, ServiceAssumption DEF EncryptStatus, Malformed
  <2>2. PICK dek \in FreshDeks :
          LET e == EncryptResponse(EncryptEnvelope(app.kek_store, "default", "default",
                                                   "aes-256-gcm", p, dek))
          IN Seals("encrypt", e) /\ Answer("encrypt", "default", p, 200, e)
    BY <2>1 DEF encrypt_handler
  <2>. DEFINE e == EncryptResponse(EncryptEnvelope(app.kek_store, "default", "default",
                                                   "aes-256-gcm", p, dek))
  <2>3. /\ WellSealed([by |-> "encrypt", wire |-> e])
        /\ e.encrypted_dek.msg = dek /\ e \in Wires
    BY <1>0, <1>2, EncryptWellSealed DEF FreshDeks
  <2>4. Seals("encrypt", e) /\ Answer("encrypt", "default", p, 200, e)
    BY <2>2
  <2>5. UNCHANGED <<env, app>>
    BY DEF encrypt_handler
  <2>. HIDE DEF e
  <2>6. reply' \in RepliesOf({"encrypt", "encrypt_v1"}, Plaintexts, 200, Wires)
    BY <1>0, <1>2, <2>3, <2>4, AnswerKind
  <2>7. reply' \in Replies
    BY <2>6 DEF EncryptReplies, Replies
  <2>. QED  BY <1>0, <2>3, <2>4, <2>5, <2>7, SealsInv
<1>. QED  BY <1>1, <1>2

\* POST /v1/crypto/encrypt keeps the invariant.
LEMMA EncryptV1Inv ==
  ASSUME Inv, NEW t \in Tenants, NEW u \in Purposes, NEW l \in Levels, NEW p \in Payloads,
         encrypt_v1(t, u, l, p)
  PROVE  Inv'
<1>0. app # Down /\ StoreFor(app.stores, t) \in KekStores
  BY ServingStoreType DEF encrypt_v1, Ready
<1>1. CASE EncryptV1Status(l, p) = 200
  <2>1. p \in Plaintexts
    BY <1>1 DEF EncryptV1Status
  <2>2. PICK dek \in FreshDeks :
          LET e == EncryptEnvelope(StoreFor(app.stores, t), t, u, "aes-256-gcm", p, dek)
          IN Seals("encrypt_v1", e) /\ Answer("encrypt_v1", t, p, 200, e)
    BY <1>1 DEF encrypt_v1
  <2>. DEFINE e == EncryptEnvelope(StoreFor(app.stores, t), t, u, "aes-256-gcm", p, dek)
  <2>3. /\ WellSealed([by |-> "encrypt_v1", wire |-> e])
        /\ e.encrypted_dek.msg = dek /\ e \in Wires
    BY <1>0, <2>1, EncryptV1WellSealed DEF FreshDeks
  <2>4. Seals("encrypt_v1", e) /\ Answer("encrypt_v1", t, p, 200, e)
    BY <2>2
  <2>5. UNCHANGED <<env, app>>
    BY DEF encrypt_v1
  <2>. HIDE DEF e
  <2>6. reply' \in RepliesOf({"encrypt", "encrypt_v1"}, Plaintexts, 200, Wires)
    BY <2>1, <2>3, <2>4, AnswerKind
  <2>7. reply' \in Replies
    BY <2>6 DEF EncryptReplies, Replies
  <2>. QED  BY <1>0, <2>3, <2>4, <2>5, <2>7, SealsInv
<1>2. CASE EncryptV1Status(l, p) = 400
  <2>1. UNCHANGED <<env, app, sealed>>
    BY <1>2 DEF encrypt_v1
  <2>2. p \in Payloads \ Plaintexts
    BY <1>2, AesIsNormal DEF EncryptV1Status
  <2>3. Answer("encrypt_v1", t, p, 400, Refused)
    BY <1>2 DEF encrypt_v1
  <2>4. reply' \in Replies
    BY <2>2, <2>3, AnswerKind DEF EncryptReplies, Replies
  <2>. QED  BY <1>0, <2>1, <2>4, AnswerInv
<1>. QED  BY <1>1, <1>2 DEF EncryptV1Status

\* POST /decrypt keeps the invariant.
LEMMA DecryptHandlerInv ==
  ASSUME Inv, NEW e \in Submissions, decrypt_handler(e)
  PROVE  Inv'
<1>1. app # Down /\ app.kek_store \in KekStores /\ "default" \in Tenants
  BY ServingStoreType, KeyServiceAssumption DEF decrypt_handler, Ready
<1>2. e \in Wires /\ {e.ciphertext, e.encrypted_dek} \subseteq DamagedParts
  BY SubmissionType DEF Inv
<1>. DEFINE body == DecryptEnvelope(app.kek_store, HandlerEnvelope(e))
            status == DecryptStatus(app.kek_store, e)
<1>3. IF Decrypts(app.kek_store, HandlerEnvelope(e))
        THEN e.ciphertext \in Boxes /\ e.encrypted_dek \in Boxes /\ body \in Plaintexts
        ELSE body \in Errors
  BY <1>1, <1>2, DeserializeType, DecryptGives
<1>4. Answer("decrypt", "default", e, status, body)
  BY DEF decrypt_handler
<1>5. reply' \in DecryptReplies
  <2>1. CASE e.ciphertext \in OutOfBounds
    <3>1. status = 413 /\ body \in Errors
      BY <1>3, <2>1, PartsAssumption DEF DecryptStatus, OutOfBounds, Malformed
    <3>2. e \in {w \in Wires : w.ciphertext \in OutOfBounds}
      BY <1>2, <2>1
    <3>3. reply' \in RepliesOf({"decrypt"}, {w \in Wires : w.ciphertext \in OutOfBounds},
                              413, Errors)
      BY <1>1, <1>4, <3>1, <3>2, AnswerKind
    <3>. QED  BY <3>3 DEF DecryptReplies
  <2>2. CASE e.ciphertext \notin OutOfBounds /\ status = 200
    <3>1. e \in {w \in Wires : Parts(w) \subseteq Boxes} /\ body \in Plaintexts
      BY <1>2, <1>3, <2>2 DEF DecryptStatus, OutOfBounds, Parts
    <3>2. reply' \in RepliesOf({"decrypt", "decrypt_v1"}, {w \in Wires : Parts(w) \subseteq Boxes},
                              200, Plaintexts)
      BY <1>1, <1>4, <2>2, <3>1, AnswerKind
    <3>. QED  BY <3>2 DEF DecryptReplies
  <2>3. CASE e.ciphertext \notin OutOfBounds /\ status # 200
    <3>1. status = 400 /\ body \in Errors
      BY <1>3, <2>3, PartsAssumption DEF DecryptStatus, OutOfBounds, Malformed
    <3>2. e \in {w \in Wires : w.ciphertext \notin OutOfBounds}
      BY <1>2, <2>3
    <3>3. reply' \in RepliesOf({"decrypt"}, {w \in Wires : w.ciphertext \notin OutOfBounds},
                              400, Errors)
      BY <1>1, <1>4, <3>1, <3>2, AnswerKind
    <3>. QED  BY <3>3 DEF DecryptReplies
  <2>. QED  BY <2>1, <2>2, <2>3
<1>6. UNCHANGED <<env, app, sealed>>
  BY DEF decrypt_handler
<1>. QED  BY <1>1, <1>5, <1>6, AnswerInv DEF Replies

\* POST /v1/crypto/decrypt keeps the invariant.
LEMMA DecryptV1Inv ==
  ASSUME Inv, NEW e \in Submissions \cup NotEnvelopes, NEW t \in Tenants, NEW l \in Levels,
         decrypt_v1(t, l, e)
  PROVE  Inv'
<1>. DEFINE store == StoreFor(app.stores, t)
<1>1. app # Down /\ store \in KekStores
  BY ServingStoreType DEF decrypt_v1, Ready
<1>2. /\ Answer("decrypt_v1", t, e, DecryptV1Status(store, l, e),
                IF e \in NotEnvelopes THEN Refused ELSE DecryptEnvelope(store, Deserialize(e)))
      /\ UNCHANGED <<env, app, sealed>>
  BY <1>1 DEF decrypt_v1
<1>3. CASE e \in NotEnvelopes
  <2>1. DecryptV1Status(store, l, e) = 400
    BY <1>3 DEF DecryptV1Status
  <2>2. Refused \in Errors
    BY DEF Errors
  <2>3. reply' \in Replies
    BY <1>2, <1>3, <2>1, <2>2, AnswerKind DEF DecryptReplies, Replies
  <2>. QED  BY <1>1, <1>2, <2>3, AnswerInv
<1>4. CASE e \notin NotEnvelopes
  <2>. DEFINE body == DecryptEnvelope(store, Deserialize(e))
  <2>1. e \in Wires /\ {e.ciphertext, e.encrypted_dek} \subseteq DamagedParts
    BY <1>4, SubmissionType DEF Inv
  <2>2. IF Decrypts(store, Deserialize(e))
          THEN e.ciphertext \in Boxes /\ e.encrypted_dek \in Boxes /\ body \in Plaintexts
          ELSE body \in Errors
    BY <1>1, <2>1, DeserializeType, DecryptGives
  <2>3. Answer("decrypt_v1", t, e, DecryptV1Status(store, l, e), body)
    BY <1>2, <1>4
  <2>4. CASE Decrypts(store, Deserialize(e))
    <3>1. DecryptV1Status(store, l, e) = 200
      BY <1>4, <2>4, AesIsNormal DEF DecryptV1Status
    <3>2. e \in {w \in Wires : Parts(w) \subseteq Boxes} /\ body \in Plaintexts
      BY <2>1, <2>2, <2>4 DEF Parts
    <3>3. reply' \in DecryptReplies
      BY <2>3, <3>1, <3>2, AnswerKind DEF DecryptReplies
    <3>. QED  BY <1>1, <1>2, <3>3, AnswerInv DEF Replies
  <2>5. CASE ~Decrypts(store, Deserialize(e))
    <3>1. DecryptV1Status(store, l, e) = 400 /\ body \in Errors
      BY <2>2, <2>5 DEF DecryptV1Status
    <3>2. reply' \in DecryptReplies
      BY <2>1, <2>3, <3>1, AnswerKind DEF DecryptReplies
    <3>. QED  BY <1>1, <1>2, <3>2, AnswerInv DEF Replies
  <2>. QED  BY <2>4, <2>5
<1>. QED  BY <1>3, <1>4

\* Every step keeps the invariant.
LEMMA StepInv == Inv /\ [Next]_vars => Inv'
<1>. SUFFICES ASSUME Inv, [Next]_vars PROVE Inv'
  OBVIOUS
<1>1. ASSUME NEW p \in Payloads, encrypt_handler(p) PROVE Inv'
  BY <1>1, EncryptHandlerInv
<1>2. ASSUME NEW p \in Payloads, NEW t \in Tenants, NEW u \in Purposes, NEW l \in Levels,
             encrypt_v1(t, u, l, p)
      PROVE  Inv'
  BY <1>2, EncryptV1Inv
<1>3. ASSUME NEW e \in Submissions, decrypt_handler(e) PROVE Inv'
  BY <1>3, DecryptHandlerInv
<1>4. ASSUME NEW e \in Submissions \cup NotEnvelopes, NEW t \in Tenants, NEW l \in Levels,
             decrypt_v1(t, l, e)
      PROVE  Inv'
  BY <1>4, DecryptV1Inv
<1>5. CASE TakeAnswer
  BY <1>5 DEF TakeAnswer, Inv, TypeOK, StoresOK, SealedOK, WellSealed, AadOf
<1>6. CASE create_app
  <2>0. PICK s \in FromEnv(env) :
          \E r \in RegistriesFrom(env, s) : app' = [kek_store |-> s, stores |-> r]
    BY <1>6 DEF create_app
  <2>1. PICK r \in RegistriesFrom(env, s) : app' = [kek_store |-> s, stores |-> r]
    BY <2>0
  <2>2. s \in KekStores /\ r \in Registries
    BY FromEnvType, RegistryType DEF Inv, TypeOK
  <2>3. UNCHANGED <<env, sealed>> /\ reply' = NoReply
    BY <1>6 DEF create_app
  <2>4. TypeOK'
    BY <2>1, <2>2, <2>3 DEF Inv, TypeOK
  <2>5. StoresOK'
    BY <2>1, <2>3 DEF StoresOK
  <2>. QED  BY <2>3, <2>4, <2>5 DEF Inv, SealedOK, WellSealed, AadOf
<1>7. CASE Stop
  BY <1>7 DEF Stop, Inv, TypeOK, StoresOK, SealedOK, WellSealed, AadOf
<1>8. CASE Reconfigure
  BY <1>8, ServiceAssumption
     DEF Reconfigure, Inv, TypeOK, StoresOK, SealedOK, WellSealed, AadOf
<1>9. CASE UNCHANGED vars
  BY <1>9 DEF vars, Inv, TypeOK, StoresOK, SealedOK, WellSealed, AadOf
<1>. QED  BY <1>1, <1>2, <1>3, <1>4, <1>5, <1>6, <1>7, <1>8, <1>9
          DEF Next, ServiceNext, Requests

\* The inductive invariant holds throughout: the stores are those of the
\* environment (app.rs:88), the envelopes outcomes of sealings (envelope.rs:61).
THEOREM Invariance == Spec => []Inv
BY InitInv, StepInv, PTL DEF Spec

\* TypeOK, for every instance: no handler leaves the types of TypeOK.
THEOREM ServiceTypeCorrect == Spec => []TypeOK
<1>1. Inv => TypeOK
  BY DEF Inv
<1>. QED  BY <1>1, Invariance, PTL

-----------------------------------------------------------------------------
(* Authentic: a decryption that succeeds answers with what one sealing     *)
(* sealed, under that sealing's metadata.                                  *)

\* The associated data tells the metadata.
LEMMA AadTells ==
  ASSUME NEW s, s.by \in {"encrypt", "encrypt_v1", "old_release"},
         NEW e, AadOf(s) \in AadsTried(e)
  PROVE  MetadataMatches(s, e)
<1>. DEFINE canonical == CanonicalAad(e.tenant_id, e.purpose, e.key_id, AlgorithmOf(e))
<1>1. \/ AadOf(s) = canonical
      \/ AadOf(s) = LegacyAad(e.key_id) /\ "" \in {e.tenant_id, e.purpose, e.algorithm}
  BY DEF AadsTried
<1>2. \A i, t, p, j, a : LegacyAad(i) # CanonicalAad(t, p, j, a)
  BY DEF LegacyAad, CanonicalAad
<1>3. \A i, j : LegacyAad(i) = LegacyAad(j) => i = j
  BY DEF LegacyAad
<1>4. CASE s.by = "encrypt"
  <2>1. AadOf(s) = CanonicalAad("default", "default", s.wire.key_id, "aes-256-gcm")
    BY <1>4 DEF AadOf
  <2>2. AadOf(s) = canonical
    BY <1>1, <1>2, <2>1, Zenon
  <2>3. e.tenant_id = "default" /\ e.purpose = "default" /\ e.key_id = s.wire.key_id
    BY <2>1, <2>2 DEF CanonicalAad
  <2>. QED  BY <1>4, <2>3 DEF MetadataMatches
<1>5. CASE s.by = "encrypt_v1"
  <2>1. AadOf(s) = CanonicalAad(s.wire.tenant_id, s.wire.purpose, s.wire.key_id, "aes-256-gcm")
    BY <1>5 DEF AadOf
  <2>2. AadOf(s) = canonical
    BY <1>1, <1>2, <2>1, Zenon
  <2>3. e.tenant_id = s.wire.tenant_id /\ e.purpose = s.wire.purpose /\ e.key_id = s.wire.key_id
    BY <2>1, <2>2 DEF CanonicalAad
  <2>. QED  BY <1>5, <2>3 DEF MetadataMatches
<1>6. CASE s.by = "old_release"
  <2>1. AadOf(s) = LegacyAad(s.wire.key_id)
    BY <1>6 DEF AadOf
  <2>. QED  BY <1>1, <1>2, <1>3, <1>6, <2>1 DEF MetadataMatches
<1>. QED  BY <1>4, <1>5, <1>6

\* When an envelope that was sent decrypts, it is one kept sealing with the
\* metadata of that sealing.
LEMMA OpenedAuthentic ==
  ASSUME Inv, NEW store \in KekStores, NEW sent \in Submissions,
         NEW e \in {Deserialize(sent), HandlerEnvelope(sent)}, Decrypts(store, e)
  PROVE  \E s \in sealed :
           /\ Parts(sent) = Parts(s.wire)
           /\ DecryptEnvelope(store, e) = s.wire.ciphertext.msg
           /\ MetadataMatches(s, e)
<1>1. sent \in Wires /\ {sent.ciphertext, sent.encrypted_dek} \subseteq DamagedParts
  BY SubmissionType DEF Inv
<1>2. /\ e \in Wires /\ e.key_id \in Ids
      /\ e.ciphertext = sent.ciphertext /\ e.encrypted_dek = sent.encrypted_dek
  BY <1>1, DeserializeType
<1>3. PICK s \in sealed :
        /\ e.ciphertext = s.wire.ciphertext
        /\ e.encrypted_dek = s.wire.encrypted_dek
        /\ AadOf(s) \in AadsTried(e)
  BY <1>1, <1>2, OpensOneSealing
<1>4. s.by \in {"encrypt", "encrypt_v1", "old_release"}
  BY DEF Inv, TypeOK
<1>5. MetadataMatches(s, e)
  BY <1>3, <1>4, AadTells
<1>. QED  BY <1>2, <1>3, <1>5 DEF Parts, DecryptEnvelope

\* For every instance: mixed-up or damaged envelopes never decrypt to anything
\* but what was sealed, with the metadata it was sealed with (envelope.rs:124).
THEOREM ServiceAuthentic == Spec => []Authentic
<1>1. Init => Authentic
  BY DEF Init, Authentic, Opened
<1>2. Inv /\ Authentic /\ [Next]_vars => Authentic'
  <2>. SUFFICES ASSUME Inv, Authentic, [Next]_vars PROVE Authentic'
    OBVIOUS
  <2>1. CASE reply' = NoReply
    BY <2>1 DEF Authentic, Opened
  <2>2. ASSUME NEW p \in Payloads, encrypt_handler(p) PROVE Authentic'
    <3>1. reply'.op = "encrypt"
      BY <2>2 DEF encrypt_handler, Answer
    <3>. QED  BY <3>1 DEF Authentic, Opened
  <2>3. ASSUME NEW p \in Payloads, NEW t \in Tenants, NEW u \in Purposes, NEW l \in Levels,
               encrypt_v1(t, u, l, p)
        PROVE  Authentic'
    <3>1. reply'.op = "encrypt_v1"
      BY <2>3 DEF encrypt_v1, Answer
    <3>. QED  BY <3>1 DEF Authentic, Opened
  <2>4. ASSUME NEW e \in Submissions, decrypt_handler(e) PROVE Authentic'
    <3>1. /\ sealed' = sealed
          /\ reply'.op = "decrypt" /\ reply'.sent = e
          /\ reply'.status = DecryptStatus(app.kek_store, e)
          /\ reply'.body = DecryptEnvelope(app.kek_store, HandlerEnvelope(e))
      BY <2>4 DEF decrypt_handler, Answer
    <3>2. app.kek_store \in KekStores
      BY <2>4, ServingStoreType, KeyServiceAssumption DEF decrypt_handler, Ready
    <3>3. ASSUME reply'.status = 200
          PROVE  \E s \in sealed :
                   /\ Parts(e) = Parts(s.wire)
                   /\ reply'.body = s.wire.ciphertext.msg
                   /\ MetadataMatches(s, HandlerEnvelope(e))
      <4>1. Decrypts(app.kek_store, HandlerEnvelope(e))
        BY <3>1, <3>3 DEF DecryptStatus
      <4>. QED  BY <3>1, <3>2, <4>1, OpenedAuthentic
    <3>. QED  BY <3>1, <3>3 DEF Authentic, Opened
  <2>5. ASSUME NEW e \in Submissions \cup NotEnvelopes, NEW t \in Tenants, NEW l \in Levels,
               decrypt_v1(t, l, e)
        PROVE  Authentic'
    <3>. DEFINE store == StoreFor(app.stores, t)
    <3>1. /\ app # Down /\ sealed' = sealed
          /\ reply'.op = "decrypt_v1" /\ reply'.sent = e
          /\ reply'.status = DecryptV1Status(store, l, e)
          /\ reply'.body = IF e \in NotEnvelopes THEN Refused
                           ELSE DecryptEnvelope(store, Deserialize(e))
      BY <2>5 DEF decrypt_v1, Answer, Ready
    <3>2. store \in KekStores
      BY <3>1, ServingStoreType
    <3>3. ASSUME reply'.status = 200
          PROVE  \E s \in sealed :
                   /\ Parts(e) = Parts(s.wire)
                   /\ reply'.body = s.wire.ciphertext.msg
                   /\ MetadataMatches(s, Deserialize(e))
      <4>1. e \notin NotEnvelopes /\ Decrypts(store, Deserialize(e))
        BY <3>1, <3>3 DEF DecryptV1Status
      <4>. HIDE DEF store
      <4>. QED  BY <3>1, <3>2, <4>1, OpenedAuthentic
    <3>. QED  BY <3>1, <3>3 DEF Authentic, Opened
  <2>6. CASE TakeAnswer \/ create_app \/ Stop
    BY <2>1, <2>6 DEF TakeAnswer, create_app, Stop
  <2>7. CASE UNCHANGED <<sealed, reply>>
    BY <2>7 DEF Authentic, Opened, MetadataMatches
  <2>8. Reconfigure \/ UNCHANGED vars => UNCHANGED <<sealed, reply>>
    BY DEF Reconfigure, vars
  <2>. QED  BY <2>2, <2>3, <2>4, <2>5, <2>6, <2>7, <2>8 DEF Next, ServiceNext, Requests
<1>. QED  BY <1>1, <1>2, Invariance, PTL DEF Spec

-----------------------------------------------------------------------------
(* ConfiguredKeyReadable: what the environment configures can be read.     *)

\* A store built from the environment resolves an id to the key that all the
\* variables naming it agree on.
LEMMA ResolveNamed ==
  ASSUME env \in EnvVars, NEW store \in FromEnv(env), NEW id \in Ids, NEW key,
         Names(id, key)
  PROVE  ResolveRaw(store, id) = key
<1>1. /\ store.id = CurrentId(env) /\ store.raw = env.kek /\ env.kek \in Keys
      /\ store.previous \in PreviousMaps(env)
  BY FromEnvType
<1>2. CASE id = CurrentId(env)
  <2>1. env.kek \in KeysGiven(id)
    BY <1>1, <1>2 DEF KeysGiven
  <2>2. key = env.kek
    BY <2>1 DEF Names
  <2>3. env.kek # NoKey
    BY <1>1, KekStoreAssumption
  <2>. QED  BY <1>1, <1>2, <2>2, <2>3 DEF ResolveRaw, GetRaw
<1>3. CASE id # CurrentId(env)
  <2>1. IF id = OldId(env) /\ env.old \in Keys THEN store.previous[id] = env.old
        ELSE \/ store.previous[id] \in ScannedKeys(env, id)
             \/ ScannedKeys(env, id) = {} /\ store.previous[id] = NoKey
    BY <1>1, <1>3 DEF PreviousMaps
  <2>2. ScannedKeys(env, id) \subseteq KeysGiven(id)
    BY DEF ScannedKeys, KeysGiven
  <2>3. CASE KeysGiven(id) = {key}
    <3>1. CASE store.previous[id] \in KeysGiven(id)
      <4>1. store.previous[id] = key
        BY <2>3, <3>1
      <4>2. store.previous[id] # NoKey
        BY <3>1, KekStoreAssumption DEF KeysGiven
      <4>. QED  BY <1>1, <1>3, <4>1, <4>2 DEF ResolveRaw, GetRaw
    <3>2. CASE store.previous[id] \notin KeysGiven(id)
      <4>1. ~(id = OldId(env) /\ env.old \in Keys) /\ ScannedKeys(env, id) = {}
        BY <2>1, <2>2, <3>2 DEF KeysGiven
      <4>2. KeysGiven(id) = {}
        BY <1>3, <4>1 DEF KeysGiven, ScannedKeys
      <4>. QED  BY <2>3, <4>2
    <3>. QED  BY <3>1, <3>2
  <2>4. CASE KeysGiven(id) = {} /\ id = "primary" /\ key = env.kek
    <3>1. store.previous[id] = NoKey
      BY <2>1, <2>2, <2>4 DEF KeysGiven
    <3>. QED  BY <1>1, <1>3, <2>4, <3>1 DEF ResolveRaw, GetRaw
  <2>. QED  BY <2>3, <2>4 DEF Names
<1>. QED  BY <1>2, <1>3

\* The store that serves the tenant of a sealing resolves the envelope's id to
\* the key it was sealed with.
LEMMA ConfiguredResolves ==
  ASSUME Inv, app # Down, NEW s \in sealed, KeyIsConfigured(s)
  PROVE  /\ ResolveRaw(StoreFor(app.stores, SealedFor(s)), s.wire.key_id)
              = s.wire.encrypted_dek.key
         /\ SealedFor(s) = "default" => StoreFor(app.stores, "default") = app.kek_store
<1>1. /\ env \in EnvVars /\ app.kek_store \in FromEnv(env) /\ app.kek_store \in KekStores
      /\ app.stores \in RegistriesFrom(env, app.kek_store)
  BY FromEnvType DEF Inv, TypeOK, StoresOK
<1>2. WellSealed(s)
  BY DEF Inv, SealedOK
<1>3. SealedFor(s) \in Tenants /\ s.wire.key_id \in Ids
  BY <1>2, KeyServiceAssumption DEF SealedFor, WellSealed
<1>4. /\ OwnsStore(SealedFor(s)) => StoreFor(app.stores, SealedFor(s)) \in OfferedStores(env, SealedFor(s))
      /\ ~OwnsStore(SealedFor(s)) => StoreFor(app.stores, SealedFor(s)) = app.kek_store
  BY <1>1, <1>3, StoreForTenant DEF OwnsStore
<1>5. CASE OwnsStore(SealedFor(s))
  <2>1. PICK store \in OfferedStores(env, SealedFor(s)) :
          /\ OfferedStores(env, SealedFor(s)) = {store}
          /\ store.id = s.wire.key_id
          /\ store.raw = s.wire.encrypted_dek.key
    BY <1>5 DEF KeyIsConfigured
  <2>2. StoreFor(app.stores, SealedFor(s)) = store
    BY <1>4, <1>5, <2>1
  <2>3. s.wire.encrypted_dek.key # NoKey
    BY <1>2, KekStoreAssumption DEF WellSealed, Seal
  <2>4. SealedFor(s) # "default"
    BY <1>5 DEF OwnsStore
  <2>. QED  BY <2>1, <2>2, <2>3, <2>4 DEF ResolveRaw, GetRaw
<1>6. CASE ~OwnsStore(SealedFor(s))
  <2>1. Names(s.wire.key_id, s.wire.encrypted_dek.key)
    BY <1>6 DEF KeyIsConfigured
  <2>. QED  BY <1>1, <1>3, <1>4, <1>6, <2>1, ResolveNamed
<1>. QED  BY <1>5, <1>6

\* Both parts of a well-sealed envelope are boxes.
LEMMA WellSealedBoxes ==
  ASSUME NEW s, s.by \in {"encrypt", "encrypt_v1", "old_release"}, WellSealed(s)
  PROVE  s.wire.ciphertext \in Boxes /\ s.wire.encrypted_dek \in Boxes
<1>. DEFINE Aads == {DataAad} \cup {LegacyAad(i) : i \in Ids}
                     \cup {CanonicalAad(t, p, i, a) :
                             t \in Tenants, p \in Purposes, i \in Ids, a \in AlgNames}
<1>1. PICK d \in Deks, p \in Plaintexts, k \in Keys :
        /\ s.wire.ciphertext = Seal("aes-256-gcm", d, DataAad, p)
        /\ s.wire.encrypted_dek = Seal("aes-256-gcm", k, AadOf(s), d)
  BY DEF WellSealed
<1>2. /\ "default" \in Tenants \cap Purposes /\ "aes-256-gcm" \in AlgNames
      /\ s.wire.key_id \in Ids
      /\ s.by = "encrypt_v1" => s.wire.tenant_id \in Tenants /\ s.wire.purpose \in Purposes
  BY KeyServiceAssumption, EnvelopeAssumption, AesIsNormal DEF WellSealed
<1>3. AadOf(s) \in Aads
  <2>1. CASE s.by = "encrypt"
    BY <1>2, <2>1 DEF AadOf
  <2>2. CASE s.by = "encrypt_v1"
    BY <1>2, <2>2 DEF AadOf
  <2>3. CASE s.by = "old_release"
    BY <1>2, <2>3 DEF AadOf
  <2>. QED  BY <2>1, <2>2, <2>3
<1>4. DataAad \in Aads
  OBVIOUS
<1>. HIDE DEF Aads
<1>. QED  BY <1>1, <1>3, <1>4, AesIsNormal DEF Seal, Boxes, Aads

\* An envelope with the parts, the id and the associated data of a sealing
\* decrypts in a store that resolves its id to the key of the sealing.
LEMMA SealedDecrypts ==
  ASSUME NEW s, s.by \in {"encrypt", "encrypt_v1", "old_release"}, WellSealed(s),
         NEW store, NEW e,
         e.ciphertext = s.wire.ciphertext, e.encrypted_dek = s.wire.encrypted_dek,
         ResolveRaw(store, e.key_id) = s.wire.encrypted_dek.key,
         AlgorithmOf(e) = "aes-256-gcm",
         AadOf(s) \in AadsTried(e)
  PROVE  Decrypts(store, e)
<1>0. s.wire.ciphertext \in Boxes /\ s.wire.encrypted_dek \in Boxes
  BY WellSealedBoxes
<1>1. PICK d \in Deks, p \in Plaintexts, k \in Keys :
        /\ s.wire.ciphertext = Seal("aes-256-gcm", d, DataAad, p)
        /\ s.wire.encrypted_dek = Seal("aes-256-gcm", k, AadOf(s), d)
  BY DEF WellSealed
<1>2. {s.wire.ciphertext, s.wire.encrypted_dek} \cap Malformed = {}
  BY PartsAssumption, <1>0
<1>3. /\ Opens("aes-256-gcm", k, AadOf(s), s.wire.encrypted_dek)
      /\ Opens("aes-256-gcm", d, DataAad, s.wire.ciphertext)
      /\ s.wire.encrypted_dek.key = k /\ s.wire.encrypted_dek.msg = d
  BY <1>1, <1>2, AesIsNormal DEF Opens, Seal
<1>4. k # NoKey
  BY KekStoreAssumption
<1>5. Parts(e) \cap {BadB64, BadNonce} = {}
  BY <1>2 DEF Parts, Malformed
<1>. QED  BY <1>3, <1>4, <1>5, AesIsNormal DEF Decrypts

\* An envelope can be read by stores that resolve its id to its key.
LEMMA ReadableSealing ==
  ASSUME NEW s, s.by \in {"encrypt", "encrypt_v1", "old_release"}, s.wire \in Wires,
         WellSealed(s),
         ResolveRaw(StoreFor(app.stores, SealedFor(s)), s.wire.key_id)
           = s.wire.encrypted_dek.key,
         SealedFor(s) = "default" => StoreFor(app.stores, "default") = app.kek_store
  PROVE  Readable(s)
<1>1. /\ s.by \in {"encrypt", "encrypt_v1", "old_release"} /\ s.wire \in Wires
      /\ WellSealed(s)
  OBVIOUS
<1>2. /\ s.wire.key_id \in Ids /\ s.wire.key_id # Absent
      /\ Deserialize(s.wire).key_id = s.wire.key_id
      /\ Deserialize(WithDefaults(s.wire)).key_id = s.wire.key_id
  BY <1>1, EnvelopeAssumption DEF WellSealed, Deserialize, Default, WithDefaults, Wires
<1>3. /\ s.wire.ciphertext \notin Malformed /\ s.wire.encrypted_dek \notin Malformed
  BY <1>1, WellSealedBoxes, PartsAssumption
<1>4. \A w \in Wires : w \notin NotEnvelopes
  BY PartsAssumption DEF NotEnvelopes, Malformed
<1>5. WithDefaults(s.wire) \in Wires
  BY <1>1, KeyServiceAssumption, EnvelopeAssumption, AesIsNormal DEF WithDefaults, Wires
<1>6. "default" # Absent /\ "aes-256-gcm" # Absent
  BY KeyServiceAssumption, EnvelopeAssumption, AesIsNormal
\* What /decrypt reads: whatever metadata is replaced by the defaults.
<1>7. ASSUME AadOf(s) = CanonicalAad("default", "default", s.wire.key_id, "aes-256-gcm"),
             ResolveRaw(app.kek_store, s.wire.key_id) = s.wire.encrypted_dek.key
      PROVE  DecryptStatus(app.kek_store, s.wire) = 200
  <2>. DEFINE e == HandlerEnvelope(s.wire)
  <2>1. /\ e.ciphertext = s.wire.ciphertext /\ e.encrypted_dek = s.wire.encrypted_dek
        /\ e.key_id = s.wire.key_id
        /\ e.tenant_id = "default" /\ e.purpose = "default" /\ e.algorithm = "aes-256-gcm"
    BY <1>1, <1>2, DeserializeType
  <2>2. AlgorithmOf(e) = "aes-256-gcm"
    BY <2>1, AesIsNormal DEF AlgorithmOf
  <2>3. AadOf(s) \in AadsTried(e)
    BY <1>7, <2>1, <2>2 DEF AadsTried
  <2>4. Decrypts(app.kek_store, e)
    BY <1>1, <1>7, <2>1, <2>2, <2>3, SealedDecrypts
  <2>. QED  BY <1>3, <2>4 DEF DecryptStatus, Malformed
\* What v1 reads.
<1>8. ASSUME NEW t \in Tenants, NEW w \in Wires,
             w.ciphertext = s.wire.ciphertext, w.encrypted_dek = s.wire.encrypted_dek,
             AlgorithmOf(Deserialize(w)) = "aes-256-gcm",
             Deserialize(w).key_id = s.wire.key_id,
             AadOf(s) \in AadsTried(Deserialize(w)),
             ResolveRaw(StoreFor(app.stores, t), s.wire.key_id) = s.wire.encrypted_dek.key
      PROVE  V1Reads(t, w)
  <2>1. /\ Deserialize(w).ciphertext = s.wire.ciphertext
        /\ Deserialize(w).encrypted_dek = s.wire.encrypted_dek
    BY <1>8, DeserializeType
  <2>2. Decrypts(StoreFor(app.stores, t), Deserialize(w))
    BY <1>1, <1>8, <2>1, SealedDecrypts
  <2>. QED  BY <1>4, <2>2, AesIsNormal DEF V1Reads, DecryptV1Status
<1>9. CASE s.by = "encrypt"
  <2>1. /\ SealedFor(s) = "default" /\ "default" \in Tenants
        /\ AadOf(s) = CanonicalAad("default", "default", s.wire.key_id, "aes-256-gcm")
    BY <1>9, KeyServiceAssumption DEF SealedFor, AadOf
  <2>. DEFINE w == WithDefaults(s.wire)
              e == Deserialize(w)
  <2>2. /\ w.ciphertext = s.wire.ciphertext /\ w.encrypted_dek = s.wire.encrypted_dek
        /\ e.tenant_id = "default" /\ e.purpose = "default" /\ e.algorithm = "aes-256-gcm"
    BY <1>1, <1>6 DEF WithDefaults, Deserialize, Default, Wires
  <2>3. AlgorithmOf(e) = "aes-256-gcm"
    BY <2>2, AesIsNormal DEF AlgorithmOf
  <2>4. AadOf(s) \in AadsTried(e)
    BY <1>2, <2>1, <2>2, <2>3 DEF AadsTried
  <2>5. /\ ResolveRaw(StoreFor(app.stores, "default"), s.wire.key_id) = s.wire.encrypted_dek.key
        /\ ResolveRaw(app.kek_store, s.wire.key_id) = s.wire.encrypted_dek.key
    BY <2>1
  <2>6. V1Reads("default", w)
    BY <1>2, <1>5, <1>8, <2>1, <2>2, <2>3, <2>4, <2>5
  <2>. QED  BY <1>7, <1>9, <2>1, <2>5, <2>6 DEF Readable
<1>10. CASE s.by = "encrypt_v1"
  <2>1. /\ SealedFor(s) = s.wire.tenant_id
        /\ s.wire.tenant_id \in Tenants /\ s.wire.purpose \in Purposes
        /\ s.wire.algorithm = "aes-256-gcm"
        /\ AadOf(s) = CanonicalAad(s.wire.tenant_id, s.wire.purpose, s.wire.key_id,
                                   "aes-256-gcm")
    BY <1>1, <1>10 DEF SealedFor, AadOf, WellSealed
  <2>. DEFINE e == Deserialize(s.wire)
  <2>2. e.tenant_id = s.wire.tenant_id /\ e.purpose = s.wire.purpose
          /\ e.algorithm = "aes-256-gcm"
    BY <1>1, <1>6, <2>1, EnvelopeAssumption DEF Deserialize, Default, Wires
  <2>3. AlgorithmOf(e) = "aes-256-gcm"
    BY <2>2, AesIsNormal DEF AlgorithmOf
  <2>4. AadOf(s) \in AadsTried(e)
    BY <1>2, <2>1, <2>2, <2>3 DEF AadsTried
  <2>5. ResolveRaw(StoreFor(app.stores, s.wire.tenant_id), s.wire.key_id)
          = s.wire.encrypted_dek.key
    BY <2>1
  <2>6. V1Reads(s.wire.tenant_id, s.wire)
    BY <1>1, <1>2, <1>8, <2>1, <2>3, <2>4, <2>5
  <2>7. s.wire.tenant_id = "default" /\ s.wire.purpose = "default"
          => DecryptStatus(app.kek_store, s.wire) = 200
    BY <1>7, <2>1, <2>5
  <2>. QED  BY <1>10, <2>6, <2>7 DEF Readable
<1>11. CASE s.by = "old_release"
  <2>1. /\ SealedFor(s) = "default" /\ "default" \in Tenants
        /\ AadOf(s) = LegacyAad(s.wire.key_id)
        /\ s.wire.tenant_id = Absent /\ s.wire.purpose = Absent /\ s.wire.algorithm = Absent
    BY <1>1, <1>11, KeyServiceAssumption DEF SealedFor, AadOf, WellSealed
  <2>. DEFINE e == Deserialize(s.wire)
  <2>2. e.tenant_id = "" /\ e.algorithm = "aes-256-gcm"
    BY <1>1, <2>1 DEF Deserialize, Default, Wires
  <2>3. AlgorithmOf(e) = "aes-256-gcm"
    BY <2>2, AesIsNormal DEF AlgorithmOf
  <2>4. AadOf(s) \in AadsTried(e)
    BY <1>2, <2>1, <2>2 DEF AadsTried
  <2>5. ResolveRaw(StoreFor(app.stores, "default"), s.wire.key_id) = s.wire.encrypted_dek.key
    BY <2>1
  <2>6. V1Reads("default", s.wire)
    BY <1>1, <1>2, <1>8, <2>1, <2>3, <2>4, <2>5
  <2>. QED  BY <1>11, <2>6 DEF Readable
<1>. QED  BY <1>1, <1>9, <1>10, <1>11

\* An envelope whose id the environment gives its key can be read.
LEMMA ConfiguredReadable ==
  ASSUME Inv, app # Down, NEW s \in sealed, KeyIsConfigured(s)
  PROVE  Readable(s)
<1>1. s.by \in {"encrypt", "encrypt_v1", "old_release"} /\ s.wire \in Wires /\ WellSealed(s)
  BY DEF Inv, TypeOK, SealedOK
<1>. QED  BY <1>1, ConfiguredResolves, ReadableSealing

\* For every instance: whatever the environments between which the service was
\* restarted, what the present one configures can be read (kek_provider.rs:128).
THEOREM ServiceReadable == Spec => []ConfiguredKeyReadable
<1>1. Inv => ConfiguredKeyReadable
  BY ConfiguredReadable DEF ConfiguredKeyReadable
<1>. QED  BY <1>1, Invariance, PTL

-----------------------------------------------------------------------------
(* OwnAnswersReadable: what the process seals it reads itself.             *)

\* A store resolves its own id to its current key, whatever else it holds.
LEMMA ResolveOwnId ==
  ASSUME NEW store \in KekStores
  PROVE  ResolveRaw(store, store.id) = store.raw
BY KekStoreAssumption DEF KekStores, ResolveRaw, GetRaw

\* The answer to an encryption is an envelope that is kept, sealed under the
\* current key of the store that the running process has for the tenant.
Answered ==
  \A by \in {"encrypt", "encrypt_v1"} :
    Opened(by) =>
      LET s == [by |-> by, wire |-> reply.body]
          store == StoreFor(app.stores, SealedFor(s))
      IN /\ app # Down /\ s \in sealed /\ SealedFor(s) \in Tenants
         /\ s.wire.key_id = store.id /\ s.wire.encrypted_dek.key = store.raw

LEMMA StepAnswered == Inv /\ Answered /\ [Next]_vars => Answered'
<1>. SUFFICES ASSUME Inv, Answered, [Next]_vars PROVE Answered'
  OBVIOUS
<1>0. "default" \in Tenants
  BY KeyServiceAssumption
<1>1. CASE reply' = NoReply
  BY <1>1 DEF Answered, Opened
<1>2. ASSUME NEW p \in Payloads, encrypt_handler(p) PROVE Answered'
  <2>1. app # Down /\ app' = app /\ reply'.op = "encrypt"
    BY <1>2 DEF encrypt_handler, Ready, Answer
  <2>2. CASE reply'.status # 200
    BY <2>1, <2>2 DEF Answered, Opened
  <2>3. CASE reply'.status = 200
    <3>1. EncryptStatus(p) = 200
      BY <1>2, <2>3 DEF encrypt_handler, Answer
    <3>2. PICK dek \in FreshDeks :
            LET e == EncryptResponse(EncryptEnvelope(app.kek_store, "default", "default",
                                                     "aes-256-gcm", p, dek))
            IN Seals("encrypt", e) /\ Answer("encrypt", "default", p, 200, e)
      BY <1>2, <3>1 DEF encrypt_handler
    <3>. DEFINE s == [by |-> "encrypt", wire |-> reply'.body]
    <3>3. /\ s \in sealed' /\ s.wire.key_id = app.kek_store.id
          /\ s.wire.encrypted_dek.key = app.kek_store.raw
      BY <3>2 DEF Seals, Answer, EncryptResponse, EncryptEnvelope, Seal
    <3>4. SealedFor(s) = "default"
      BY DEF SealedFor
    <3>5. StoreFor(app.stores, "default") = app.kek_store
      BY <1>0, <2>1, StoreForTenant, FromEnvType DEF Inv, TypeOK, StoresOK
    <3>. QED  BY <1>0, <2>1, <3>3, <3>4, <3>5 DEF Answered, Opened
  <2>. QED  BY <2>2, <2>3
<1>3. ASSUME NEW p \in Payloads, NEW t \in Tenants, NEW u \in Purposes, NEW l \in Levels,
             encrypt_v1(t, u, l, p)
      PROVE  Answered'
  <2>. DEFINE store == StoreFor(app.stores, t)
  <2>1. app # Down /\ app' = app /\ reply'.op = "encrypt_v1"
    BY <1>3 DEF encrypt_v1, Ready, Answer
  <2>2. CASE reply'.status # 200
    BY <2>1, <2>2 DEF Answered, Opened
  <2>3. CASE reply'.status = 200
    <3>1. EncryptV1Status(l, p) = 200
      BY <1>3, <2>3 DEF encrypt_v1, Answer
    <3>2. PICK dek \in FreshDeks :
            LET e == EncryptEnvelope(store, t, u, "aes-256-gcm", p, dek)
            IN Seals("encrypt_v1", e) /\ Answer("encrypt_v1", t, p, 200, e)
      BY <1>3, <3>1 DEF encrypt_v1
    <3>. DEFINE s == [by |-> "encrypt_v1", wire |-> reply'.body]
    <3>. HIDE DEF store
    <3>3. /\ s \in sealed' /\ s.wire.key_id = store.id
          /\ s.wire.encrypted_dek.key = store.raw /\ s.wire.tenant_id = t
      BY <3>2 DEF Seals, Answer, EncryptEnvelope, Seal
    <3>4. SealedFor(s) = t
      BY <3>3 DEF SealedFor
    <3>. QED  BY <2>1, <3>3, <3>4 DEF Answered, Opened, store
  <2>. QED  BY <2>2, <2>3
<1>4. ASSUME NEW e, decrypt_handler(e) \/ \E t \in Tenants, l \in Levels : decrypt_v1(t, l, e)
      PROVE  Answered'
  <2>1. reply'.op \in {"decrypt", "decrypt_v1"}
    BY <1>4 DEF decrypt_handler, decrypt_v1, Answer
  <2>. QED  BY <2>1 DEF Answered, Opened
<1>5. CASE TakeAnswer \/ create_app \/ Stop
  BY <1>1, <1>5 DEF TakeAnswer, create_app, Stop
<1>6. CASE Reconfigure \/ UNCHANGED vars
  BY <1>6 DEF Reconfigure, vars, Answered, Opened, SealedFor
<1>. QED  BY <1>2, <1>3, <1>4, <1>5, <1>6 DEF Next, ServiceNext, Requests

\* For every instance and in every environment, also one that gives the current
\* id two keys: the process reads what it has sealed (kek_provider.rs:27, 37,
\* key_service.rs:33).
THEOREM ServiceReadsItsOwn == Spec => []OwnAnswersReadable
<1>1. Init => Answered
  BY DEF Init, Answered, Opened
<1>2. Spec => []Answered
  BY <1>1, StepAnswered, Invariance, PTL DEF Spec
<1>3. Inv /\ Answered => OwnAnswersReadable
  <2>. SUFFICES ASSUME Inv, Answered, NEW by \in {"encrypt", "encrypt_v1"}, Opened(by)
                PROVE  Readable([by |-> by, wire |-> reply.body])
    BY DEF OwnAnswersReadable
  <2>. DEFINE s == [by |-> by, wire |-> reply.body]
  <2>1. /\ app # Down /\ s \in sealed /\ SealedFor(s) \in Tenants
        /\ s.wire.key_id = StoreFor(app.stores, SealedFor(s)).id
        /\ s.wire.encrypted_dek.key = StoreFor(app.stores, SealedFor(s)).raw
    BY DEF Answered
  <2>. HIDE DEF s
  <2>2. /\ s.by \in {"encrypt", "encrypt_v1", "old_release"} /\ s.wire \in Wires
        /\ WellSealed(s)
    BY <2>1 DEF Inv, TypeOK, SealedOK
  <2>3. ResolveRaw(StoreFor(app.stores, SealedFor(s)), s.wire.key_id) = s.wire.encrypted_dek.key
    BY <2>1, ServingStoreType, ResolveOwnId
  <2>4. StoreFor(app.stores, "default") = app.kek_store
    BY <2>1, StoreForTenant, FromEnvType, KeyServiceAssumption DEF Inv, TypeOK, StoresOK
  <2>5. Readable(s)
    BY <2>2, <2>3, <2>4, ReadableSealing
  <2>. QED  BY <2>5 DEF s
<1>. QED  BY <1>2, <1>3, Invariance, PTL
-----------------------------------------------------------------------------
(* TenantKeyIsolation: no tenant is served with another tenant's key.      *)

\* Every key that the store serving a tenant can come up with is one of the
\* tenant's own.
LEMMA ServedWithOwnKeys ==
  ASSUME Inv, app # Down, NEW t \in Tenants
  PROVE  /\ StoreFor(app.stores, t).raw \in TenantKeys(t)
         /\ \A i \in Ids : ResolveRaw(StoreFor(app.stores, t), i) \in TenantKeys(t) \cup {NoKey}
<1>. DEFINE store == StoreFor(app.stores, t)
<1>1. /\ env \in EnvVars /\ app.kek_store \in FromEnv(env) /\ app.kek_store \in KekStores
      /\ app.stores \in RegistriesFrom(env, app.kek_store)
  BY FromEnvType DEF Inv, TypeOK, StoresOK
<1>2. IF OwnsStore(t) THEN store \in OfferedStores(env, t) ELSE store = app.kek_store
  BY <1>1, StoreForTenant DEF OwnsStore
<1>3. CASE OwnsStore(t)
  <2>1. store \in OfferedStores(env, t) /\ store.raw \in TenantKeys(t)
    BY <1>2, <1>3 DEF TenantKeys
  <2>2. store.previous = [i \in Ids |-> NoKey]
    BY <1>1, <2>1, OfferedType
  <2>. QED  BY <2>1, <2>2 DEF ResolveRaw, GetRaw
<1>4. CASE ~OwnsStore(t)
  <2>1. /\ store.id = CurrentId(env) /\ CurrentId(env) \in Ids
        /\ store.raw = env.kek /\ env.kek \in Keys
        /\ store.previous \in PreviousMaps(env)
    BY <1>1, <1>2, <1>4, FromEnvType, IdsOfEnv
  <2>2. TenantKeys(t) = UNION {KeysGiven(i) : i \in Ids}
    BY <1>4 DEF TenantKeys
  <2>3. store.raw \in TenantKeys(t)
    <3>1. env.kek \in KeysGiven(CurrentId(env))
      BY <2>1 DEF KeysGiven
    <3>. QED  BY <2>1, <2>2, <3>1
  <2>4. ASSUME NEW i \in Ids PROVE store.previous[i] \in TenantKeys(t) \cup {NoKey}
    <3>1. store.previous[i] \in KeysGiven(i) \cup {NoKey}
      BY <2>1 DEF PreviousMaps, ScannedKeys, KeysGiven
    <3>. QED  BY <2>2, <3>1
  <2>. QED  BY <2>3, <2>4 DEF ResolveRaw, GetRaw
<1>. QED  BY <1>3, <1>4

\* For every instance: what is sealed or opened for a tenant is under a key of
\* that tenant (key_service.rs:24, crypto_service.rs:35).
THEOREM ServiceIsolation == Spec => []TenantKeyIsolation
<1>1. Init => TenantKeyIsolation
  BY DEF Init, TenantKeyIsolation, Opened
<1>2. Inv /\ TenantKeyIsolation /\ [Next]_vars => TenantKeyIsolation'
  <2>. SUFFICES ASSUME Inv, TenantKeyIsolation, [Next]_vars PROVE TenantKeyIsolation'
    OBVIOUS
  <2>0. "default" \in Tenants /\ (app # Down => StoreFor(app.stores, "default") = app.kek_store)
    BY KeyServiceAssumption, StoreForTenant, FromEnvType DEF Inv, TypeOK, StoresOK
  <2>1. CASE reply' = NoReply
    BY <2>1 DEF TenantKeyIsolation, Opened
  <2>2. ASSUME NEW p \in Payloads, encrypt_handler(p) PROVE TenantKeyIsolation'
    <3>1. app # Down /\ env' = env /\ reply'.op = "encrypt" /\ reply'.tenant = "default"
      BY <2>2 DEF encrypt_handler, Answer, Ready
    <3>2. TenantKeys("default")' = TenantKeys("default")
      BY <3>1 DEF TenantKeys, OwnsStore, KeysGiven
    <3>3. ASSUME reply'.status = 200
          PROVE  reply'.body.encrypted_dek.key = app.kek_store.raw
      <4>. DEFINE e(dek) == EncryptResponse(EncryptEnvelope(app.kek_store, "default", "default",
                                                            "aes-256-gcm", p, dek))
      <4>1. \A dek : e(dek).encrypted_dek.key = app.kek_store.raw
        BY DEF EncryptResponse, EncryptEnvelope, Seal
      <4>2. \E dek : Answer("encrypt", "default", p, 200, e(dek))
        BY <2>2, <3>3 DEF encrypt_handler, Answer
      <4>. HIDE DEF e
      <4>. QED  BY <4>1, <4>2 DEF Answer
    <3>. QED  BY <2>0, <3>1, <3>2, <3>3, ServedWithOwnKeys DEF TenantKeyIsolation, Opened
  <2>3. ASSUME NEW p \in Payloads, NEW t \in Tenants, NEW u \in Purposes, NEW l \in Levels,
               encrypt_v1(t, u, l, p)
        PROVE  TenantKeyIsolation'
    <3>1. app # Down /\ env' = env
          /\ reply'.op = "encrypt_v1" /\ reply'.tenant = t
      BY <2>3 DEF encrypt_v1, Answer, Ready
    <3>2. TenantKeys(t)' = TenantKeys(t)
      BY <3>1 DEF TenantKeys, OwnsStore, KeysGiven
    <3>3. ASSUME reply'.status = 200
          PROVE  reply'.body.encrypted_dek.key = StoreFor(app.stores, t).raw
      <4>. DEFINE e(dek) == EncryptEnvelope(StoreFor(app.stores, t), t, u, "aes-256-gcm", p, dek)
      <4>1. \A dek : e(dek).encrypted_dek.key = StoreFor(app.stores, t).raw
        BY DEF EncryptEnvelope, Seal
      <4>2. \E dek : Answer("encrypt_v1", t, p, 200, e(dek))
        BY <2>3, <3>3 DEF encrypt_v1, Answer
      <4>. HIDE DEF e
      <4>. QED  BY <4>1, <4>2 DEF Answer
    <3>. QED  BY <3>1, <3>2, <3>3, ServedWithOwnKeys DEF TenantKeyIsolation, Opened
  <2>4. ASSUME NEW e \in Submissions, decrypt_handler(e) PROVE TenantKeyIsolation'
    <3>1. /\ app # Down /\ env' = env
          /\ reply'.op = "decrypt" /\ reply'.sent = e /\ reply'.tenant = "default"
          /\ reply'.status = DecryptStatus(app.kek_store, e)
      BY <2>4 DEF decrypt_handler, Answer, Ready
    <3>2. TenantKeys("default")' = TenantKeys("default")
      BY <3>1 DEF TenantKeys, OwnsStore, KeysGiven
    <3>3. ASSUME reply'.status = 200 PROVE e.encrypted_dek.key \in TenantKeys("default")
      <4>1. Decrypts(app.kek_store, HandlerEnvelope(e))
        BY <3>1, <3>3 DEF DecryptStatus
      <4>2. e \in Wires
        BY SubmissionType DEF Inv
      <4>3. /\ HandlerEnvelope(e).key_id \in Ids
            /\ HandlerEnvelope(e).encrypted_dek = e.encrypted_dek
        BY <4>2, DeserializeType
      <4>4. /\ e.encrypted_dek.key = ResolveRaw(app.kek_store, HandlerEnvelope(e).key_id)
            /\ ResolveRaw(app.kek_store, HandlerEnvelope(e).key_id) # NoKey
        BY <4>1, <4>3 DEF Decrypts, Opens
      <4>. QED  BY <2>0, <3>1, <4>3, <4>4, ServedWithOwnKeys
    <3>. QED  BY <3>1, <3>2, <3>3 DEF TenantKeyIsolation, Opened
  <2>5. ASSUME NEW e \in Submissions \cup NotEnvelopes, NEW t \in Tenants, NEW l \in Levels,
               decrypt_v1(t, l, e)
        PROVE  TenantKeyIsolation'
    <3>. DEFINE store == StoreFor(app.stores, t)
    <3>1. /\ app # Down /\ env' = env
          /\ reply'.op = "decrypt_v1" /\ reply'.sent = e /\ reply'.tenant = t
          /\ reply'.status = DecryptV1Status(store, l, e)
      BY <2>5 DEF decrypt_v1, Answer, Ready
    <3>2. TenantKeys(t)' = TenantKeys(t)
      BY <3>1 DEF TenantKeys, OwnsStore, KeysGiven
    <3>3. store \in KekStores
      BY <3>1, ServingStoreType
    <3>4. ASSUME reply'.status = 200 PROVE e.encrypted_dek.key \in TenantKeys(t)
      <4>1. e \in Submissions /\ Decrypts(store, Deserialize(e))
        BY <3>1, <3>4 DEF DecryptV1Status
      <4>2. e \in Wires
        BY <4>1, SubmissionType DEF Inv
      <4>3. Deserialize(e).key_id \in Ids /\ Deserialize(e).encrypted_dek = e.encrypted_dek
        BY <4>2, DeserializeType
      <4>4. e.encrypted_dek.key = ResolveRaw(store, Deserialize(e).key_id)
        BY <4>1, <4>3 DEF Decrypts, Opens
      <4>5. ResolveRaw(store, Deserialize(e).key_id) # NoKey
        BY <4>1 DEF Decrypts
      <4>. QED  BY <3>1, <4>3, <4>4, <4>5, ServedWithOwnKeys
    <3>. QED  BY <3>1, <3>2, <3>4 DEF TenantKeyIsolation, Opened
  <2>6. CASE TakeAnswer \/ create_app \/ Stop
    BY <2>1, <2>6 DEF TakeAnswer, create_app, Stop
  <2>7. CASE Reconfigure
    BY <2>1, <2>7 DEF Reconfigure, Inv
  <2>8. CASE UNCHANGED vars
    BY <2>8 DEF vars, TenantKeyIsolation, Opened, TenantKeys, OwnsStore, KeysGiven
  <2>. QED  BY <2>2, <2>3, <2>4, <2>5, <2>6, <2>7, <2>8 DEF Next, ServiceNext, Requests
<1>. QED  BY <1>1, <1>2, Invariance, PTL DEF Spec
=============================================================================
