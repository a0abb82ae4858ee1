----------------------------- MODULE AadEncoding -----------------------------
(***************************************************************************)
(* The bytes an envelope's metadata is bound with: CanonicalAad::encode    *)
(* (crypto/aad.rs), and how envelope.rs uses it when a DEK is wrapped and  *)
(* when it is unwrapped, with the fallback to the key id of older          *)
(* releases.  Envelope idealises these bytes as tuples; this module says   *)
(* why it may.  A wrapped DEK opens exactly under the bytes it was bound   *)
(* with; keys and ciphers are left to Envelope.                            *)
(***************************************************************************)
EXTENDS Naturals, Sequences

CONSTANTS
  Tenants, Purposes, \* strings that requests name, as bytes
  Ids,               \* ids of the store's keys
  Algorithms,        \* names of the accepted ciphers, trimmed and lowered
  Aes                \* the one an empty name stands for

VARIABLES
  wrapped,  \* how the DEK was wrapped, and the associated data
  presented \* the metadata it comes back with, and whether it was unwrapped

vars == <<wrapped, presented>>

Byte == 0..255

TwoTo24 == 16777216
TwoTo16 == 65536

\* Strings are far shorter than 2^24 bytes: the body limit is 2 MB.  Ids come
\* from environment variables, which hold no zero byte.
ASSUME AadAssumption ==
  /\ Tenants \cup Purposes \cup Ids \cup Algorithms \subseteq Seq(Byte)
  /\ \A s \in Tenants \cup Purposes \cup Ids \cup Algorithms : Len(s) < TwoTo24
  /\ \A s \in Ids : \A i \in 1..Len(s) : s[i] # 0
  /\ Aes \in Algorithms
  /\ <<>> \notin Algorithms

Metadata ==
  [tenant_id : Tenants, purpose : Purposes, key_id : Ids, algorithm : Algorithms \cup {<<>>}]

-----------------------------------------------------------------------------
\* Mutant: the bytes of the length are not cut off.
BigEndian_Unmasked(n) == <<n \div TwoTo24, n \div TwoTo16, n \div 256, n>>

\* (len as u32).to_be_bytes()
BigEndian(n) == <<(n \div TwoTo24) % 256, (n \div TwoTo16) % 256, (n \div 256) % 256, n % 256>>

Field(s) == BigEndian(Len(s)) \o s

Encode(tenant, purpose, id, algorithm) ==
  Field(tenant) \o (Field(purpose) \o (Field(id) \o Field(algorithm)))

AlgorithmOf(m) == IF m.algorithm = <<>> THEN Aes ELSE m.algorithm

CanonicalOf(m) == Encode(m.tenant_id, m.purpose, m.key_id, AlgorithmOf(m))

\* Mutant: the fallback no longer asks for an empty metadata field.
Tried_AlwaysLegacy(m) == {CanonicalOf(m), m.key_id}

\* decrypt_envelope tries the canonical bytes, then those of the key id when a
\* metadata field is empty.
Tried(m) ==
  {CanonicalOf(m)}
    \cup (IF <<>> \in {m.tenant_id, m.purpose, m.algorithm} THEN {m.key_id} ELSE {})

-----------------------------------------------------------------------------
Nothing == [of |-> "nothing"]

Init == wrapped = Nothing /\ presented = Nothing

\* encrypt_envelope; the algorithm it stores is never empty.
Wrap(m) ==
  /\ m.algorithm # <<>>
  /\ wrapped' = [of |-> "canonical", metadata |-> m, aad |-> CanonicalOf(m)]
  /\ presented' = Nothing

\* A release before CanonicalAad bound the key id alone.
WrapOld(m) ==
  /\ wrapped' = [of |-> "legacy", metadata |-> m, aad |-> m.key_id]
  /\ presented' = Nothing

\* decrypt_envelope, on an envelope with this DEK and any metadata.
Unwrap(m) ==
  /\ wrapped # Nothing
  /\ presented' = [of |-> "envelope", metadata |-> m, opened |-> wrapped.aad \in Tried(m)]
  /\ UNCHANGED wrapped

Next == \E m \in Metadata : Wrap(m) \/ WrapOld(m) \/ Unwrap(m)

Spec == Init /\ [][Next]_vars

-----------------------------------------------------------------------------
TypeOK ==
  /\ wrapped \in {Nothing} \cup [of : {"canonical", "legacy"}, metadata : Metadata, aad : Seq(Byte)]
  /\ presented \in {Nothing} \cup [of : {"envelope"}, metadata : Metadata, opened : BOOLEAN]
  /\ wrapped = Nothing => presented = Nothing

\* A DEK is unwrapped exactly under the metadata it was wrapped with: the
\* bytes of four fields are those of no other four, and those of one format
\* never those of the other.  One of an old release opens for its key id,
\* when a field is empty (aad.rs:32-41, envelope.rs:157-191).
BindsMetadata ==
  presented # Nothing =>
    LET was == wrapped.metadata
        now == presented.metadata
    IN presented.opened <=>
         IF wrapped.of = "canonical"
           THEN /\ now.tenant_id = was.tenant_id
                /\ now.purpose = was.purpose
                /\ now.key_id = was.key_id
                /\ AlgorithmOf(now) = was.algorithm
           ELSE /\ now.key_id = was.key_id
                /\ <<>> \in {now.tenant_id, now.purpose, now.algorithm}
=============================================================================
