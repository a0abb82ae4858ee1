------------------------------ MODULE Envelope ------------------------------
(***************************************************************************)
(* crypto/envelope.rs and crypto/aad.rs: a plaintext is sealed under a     *)
(* fresh data key (DEK), and the DEK under the store's current KEK with    *)
(* the envelope's metadata as associated data.                             *)
(*                                                                         *)
(* An envelope's ciphertext_b64/nonce_b64 pair is its ciphertext, its      *)
(* encrypted_dek_b64/dek_nonce_b64 pair its encrypted_dek.                 *)
(***************************************************************************)
EXTENDS KeyService, Policy, Aead

CONSTANTS
  Deks,       \* 32-byte data keys
  Plaintexts, \* payloads of 1 to 1,000,000 bytes
  Purposes,   \* purposes that requests name
  UnknownKeyId, DecryptionFailed, \* errors of decrypt_envelope
  Absent      \* a field that is not in the JSON text

ASSUME EnvelopeAssumption ==
  /\ "" \in Tenants \cap Purposes
  /\ "default" \in Purposes
  /\ Absent \notin Ids \cup Tenants \cup Purposes \cup AlgNames
  /\ {UnknownKeyId, DecryptionFailed} \cap Plaintexts = {}
  /\ Deks \cap (Keys \cup {NoKey}) = {}

\* CanonicalAad::encode: every field is preceded by its length, so the bytes
\* determine the four fields.
CanonicalAad(tenant, purpose, id, alg) == <<tenant, purpose, id, alg>>

\* The associated data of releases before CanonicalAad: the bytes of the key id.
\* An encoding begins with a length and holds zero bytes, no key id does.
LegacyAad(id) == <<id>>

DataAad == <<>>

\* What sealing can produce, and the JSON objects made of that.
Boxes ==
  [alg : Ciphers, key : Deks \cup Keys, msg : Plaintexts \cup Deks,
   aad : {DataAad} \cup {LegacyAad(i) : i \in Ids}
           \cup {CanonicalAad(t, p, i, a) :
                   t \in Tenants, p \in Purposes, i \in Ids, a \in AlgNames}]

Wires ==
  [ciphertext : Boxes \cup Malformed, encrypted_dek : Boxes \cup Malformed,
   key_id : Ids \cup {Absent}, tenant_id : Tenants \cup {Absent},
   purpose : Purposes \cup {Absent}, algorithm : AlgNames \cup {Absent}]

\* The parts no sealing produced are told from those one did, and from objects.
ASSUME PartsAssumption == Malformed \cap (Boxes \cup Wires) = {}

-----------------------------------------------------------------------------
\* The algorithms encrypt_envelope accepts: allowed, and an AEAD cipher.
Encrypts(algorithm) ==
  Compliant(algorithm, "Strategis") /\ Normal[algorithm] \in Ciphers

\* Mutant: the tenant and the purpose change places in the associated data.
EncryptEnvelope_Swapped(store, tenant, purpose, algorithm, plaintext, dek) ==
  LET alg == Normal[algorithm]
      aad == CanonicalAad(purpose, tenant, store.id, alg)
  IN [ciphertext    |-> Seal(alg, dek, DataAad, plaintext),
      encrypted_dek |-> Seal(alg, store.raw, aad, dek),
      key_id        |-> store.id,
      tenant_id     |-> tenant,
      purpose       |-> purpose,
      algorithm     |-> alg]

\* encrypt_envelope on an algorithm it accepts, with the DEK it draws.
EncryptEnvelope(store, tenant, purpose, algorithm, plaintext, dek) ==
  LET alg == Normal[algorithm]
      aad == CanonicalAad(tenant, purpose, store.id, alg)
  IN [ciphertext    |-> Seal(alg, dek, DataAad, plaintext),
      encrypted_dek |-> Seal(alg, store.raw, aad, dek),
      key_id        |-> store.id,
      tenant_id     |-> tenant,
      purpose       |-> purpose,
      algorithm     |-> alg]

\* What a release that bound only the key id answered with.
OldRelease(id, kek, plaintext, dek) ==
  [ciphertext    |-> Seal("aes-256-gcm", dek, DataAad, plaintext),
   encrypted_dek |-> Seal("aes-256-gcm", kek, LegacyAad(id), dek),
   key_id        |-> id,
   tenant_id     |-> Absent,
   purpose       |-> Absent,
   algorithm     |-> Absent]

-----------------------------------------------------------------------------
\* serde's defaults for the fields that old envelopes do not carry.
Default(value, default) == IF value = Absent THEN default ELSE value

Deserialize(e) ==
  [e EXCEPT !.key_id    = Default(@, "primary"),
            !.tenant_id = Default(@, ""),
            !.purpose   = Default(@, ""),
            !.algorithm = Default(@, "aes-256-gcm")]

AlgorithmOf(e) == IF e.algorithm = "" THEN "aes-256-gcm" ELSE Normal[e.algorithm]

\* Mutant: the fallback no longer asks for an empty metadata field.
AadsTried_AlwaysLegacy(e) ==
  {CanonicalAad(e.tenant_id, e.purpose, e.key_id, AlgorithmOf(e)), LegacyAad(e.key_id)}

\* The associated data tried on the DEK: always the canonical one, then the
\* key id alone when a metadata field is empty.
AadsTried(e) ==
  {CanonicalAad(e.tenant_id, e.purpose, e.key_id, AlgorithmOf(e))}
    \cup (IF "" \in {e.tenant_id, e.purpose, e.algorithm}
            THEN {LegacyAad(e.key_id)} ELSE {})

Parts(e) == {e.ciphertext, e.encrypted_dek}

\* decrypt_envelope returns Ok.
Decrypts(store, e) ==
  /\ Parts(e) \cap {BadB64, BadNonce} = {}
  /\ Compliant(AlgorithmOf(e), "Strategis")
  /\ ResolveRaw(store, e.key_id) # NoKey
  /\ \E aad \in AadsTried(e) :
       Opens(AlgorithmOf(e), ResolveRaw(store, e.key_id), aad, e.encrypted_dek)
  /\ e.encrypted_dek.msg \in Deks
  /\ Opens(AlgorithmOf(e), e.encrypted_dek.msg, DataAad, e.ciphertext)

\* decrypt_envelope returns Err(UnknownKeyId), the one error that handlers tell
\* apart: everything checked before the key is looked up is in order.
KeyIsUnknown(store, e) ==
  /\ Parts(e) \cap {BadB64, BadNonce} = {}
  /\ Compliant(AlgorithmOf(e), "Strategis")
  /\ ResolveRaw(store, e.key_id) = NoKey

\* The Ok value, or the error: UnknownKeyId or any other one.
DecryptEnvelope(store, e) ==
  IF Decrypts(store, e) THEN e.ciphertext.msg
  ELSE IF KeyIsUnknown(store, e) THEN UnknownKeyId
  ELSE DecryptionFailed
=============================================================================
