------------------------------ MODULE Documented ------------------------------
(***************************************************************************)
(* What the documentation says of the service and the code does not do:    *)
(* each of these is a claim of the README or of a comment, and a run shows *)
(* a behaviour of SecretService that contradicts it.                       *)
(***************************************************************************)
EXTENDS SecretService

\* An envelope from before CanonicalAad is still read by /decrypt, the endpoint
\* "kept for back compat" (README:94, handlers.rs:81), because "old envelopes
\* fallback to key_id-only AAD" (README:85).  decrypt_handler fills in metadata,
\* so that the fallback is never taken.
OldEnvelopesDecrypt ==
  app # Down =>
    \A s \in sealed :
      s.by = "old_release" /\ KeyIsConfigured(s) =>
        DecryptStatus(app.kek_store, s.wire) = 200

\* The tenant <id> is served with the key of APP_TENANT_<id>_KEK (README:91,
\* key_service.rs:22).  The registry has the id in lower case, requests do not.
TenantServedByItsVariable ==
  app # Down =>
    \A id \in TenantVars \cap Tenants :
      env.tenants[id].kek \in Keys => StoreFor(app.stores, id).raw = env.tenants[id].kek
=============================================================================
