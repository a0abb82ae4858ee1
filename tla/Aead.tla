-------------------------------- MODULE Aead --------------------------------
(***************************************************************************)
(* The authenticated ciphers the service calls (crates aes-gcm and         *)
(* chacha20poly1305, behind the AeadCipher trait), idealised: a box opens  *)
(* only with the algorithm, key and associated data it was sealed with,    *)
(* and then yields what was sealed.  A box stands for the ciphertext       *)
(* together with its 12-byte nonce; every sealing draws a fresh nonce, and *)
(* pairing a ciphertext with another nonce makes it a part in Malformed.   *)
(***************************************************************************)
CONSTANTS
  BadB64,    \* a field that is not base64
  BadNonce,  \* a nonce field whose decoded length is not 12
  Garbage,   \* well-formed bytes that no cipher call ever produced
  EmptyPart, \* an empty string
  TooLong    \* a field longer than the request validation admits

Malformed == {BadB64, BadNonce, Garbage, EmptyPart, TooLong}

Ciphers == {"aes-256-gcm", "chacha20-poly1305"}

Seal(alg, key, aad, msg) ==
  [alg |-> alg, key |-> key, aad |-> aad, msg |-> msg]

\* Every value a field may carry when no sealing produced it is a Malformed
\* part, so what is not Malformed is a box.
Opens(alg, key, aad, box) ==
  /\ alg \in Ciphers
  /\ box \notin Malformed
  /\ box.alg = alg
  /\ box.key = key
  /\ box.aad = aad
=============================================================================
