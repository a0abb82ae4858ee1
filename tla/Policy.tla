------------------------------- MODULE Policy -------------------------------
(***************************************************************************)
(* crypto/policy.rs: the allowlist of primitives per classification.       *)
(***************************************************************************)
CONSTANTS
  AlgNames,  \* spellings of an algorithm that occur in requests
  Normal     \* trim + to_ascii_lowercase, on those spellings

Levels == {"Rendah", "Tinggi", "Strategis"}

Approved ==
  {"aes-256-gcm", "chacha20-poly1305", "rsa-oaep", "rsa-oaep-3072", "x25519",
   "ed25519", "rsa-pss", "rsa-pss-3072", "sha-256", "sha-512", "sha3-256",
   "blake2b"}

\* Lowercasing and trimming what is lowercase and trimmed changes nothing.
ASSUME NormalAssumption ==
  /\ "" \in AlgNames /\ "aes-256-gcm" \in AlgNames
  /\ Normal \in [AlgNames -> AlgNames]
  /\ \A a \in AlgNames : Normal[Normal[a]] = Normal[a]
  /\ Normal["aes-256-gcm"] = "aes-256-gcm"

\* Only the strictest level consults the list.
Compliant(algo, level) == level # "Strategis" \/ Normal[algo] \in Approved
=============================================================================
