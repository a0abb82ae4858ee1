--------------------------- MODULE MCSecretService ---------------------------
(***************************************************************************)
(* Small instances of SecretService: the ids a deployment would use, one   *)
(* suffix whose spelling changes, one tenant variable in upper case.       *)
(***************************************************************************)
EXTENDS Documented, TLC

CONSTANTS k1, k2, k3, k4

\* Two spellings of one suffix: both give the id "kek-2".
MCSuffixId == [x \in {"KEK_2", "kek_2"} |-> "kek-2"]

MCTenantOf == [v \in {"ACME"} |-> "acme"]

MCNormal ==
  [a \in AlgNames |-> IF a = " AES-256-GCM" THEN "aes-256-gcm" ELSE a]

\* Which DEK and which plaintext a model value stands for makes no difference.
Symmetry == Permutations(Deks) \cup Permutations(Plaintexts)

NoExtra == [x \in Suffixes |-> Unset]
NoTenant == [v \in TenantVars |-> [kek |-> Unset, id |-> Unset]]

Plain(k) ==
  [kek |-> k, kekId |-> Unset, old |-> Unset, oldId |-> Unset,
   extra |-> NoExtra, tenants |-> NoTenant]

\* One environment and two sealings: what a mix-up of two envelopes can do.
MixEnvironments ==
  {[Plain(k1) EXCEPT !.tenants["ACME"] = [kek |-> k2, id |-> "kek-2"]]}

\* The environments between whose restarts one envelope is kept: the defaults,
\* an id for the same key, an APP_KEK that does not parse, rotations that name
\* the old key by APP_KEK_OLD_ID or by a suffix, the old id equal to the new
\* one, two spellings of one suffix, and a tenant key that comes and goes.
Rotated == [Plain(k2) EXCEPT !.kekId = "kek-2", !.old = k1, !.oldId = "primary"]

ConfigEnvironments ==
  {Plain(k1),
   [Plain(k1) EXCEPT !.kekId = "kek-2"],
   Plain(BadHex),
   Rotated,
   [Rotated EXCEPT !.oldId = Unset],
   [Rotated EXCEPT !.oldId = "kek-2"],
   [Rotated EXCEPT !.old = BadHex, !.extra["KEK_2"] = k3],
   [Plain(k3) EXCEPT !.kekId = "kek-3", !.old = k1, !.oldId = "primary", !.extra["KEK_2"] = k2],
   [Plain(k3) EXCEPT !.extra["KEK_2"] = k2, !.extra["kek_2"] = k1],
   [Plain(k3) EXCEPT !.extra["KEK_2"] = BadHex, !.extra["kek_2"] = k2],
   [Plain(k1) EXCEPT !.tenants["ACME"] = [kek |-> k4, id |-> Unset]],
   [Rotated EXCEPT !.tenants["ACME"] = [kek |-> k4, id |-> "kek-2"]],
   [Rotated EXCEPT !.tenants["ACME"] = [kek |-> BadHex, id |-> "kek-2"]]}
=============================================================================
