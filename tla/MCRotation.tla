------------------------------ MODULE MCRotation ------------------------------
(***************************************************************************)
(* Rotations through three ids, starting with and without an APP_KEK_OLD.  *)
(***************************************************************************)
EXTENDS Rotation

CONSTANTS k1, k2, k3

MCSuffixId ==
  [x \in {"PRIMARY", "previous", "KEK_2"} |->
     CASE x = "PRIMARY" -> "primary" [] x = "previous" -> "previous" [] x = "KEK_2" -> "kek-2"]

MCTenantOf == [v \in {"ACME"} |-> "acme"]

MCNormal == [a \in {"", "aes-256-gcm"} |-> a]

First ==
  [kek |-> k1, kekId |-> Unset, old |-> Unset, oldId |-> Unset,
   extra |-> [x \in Suffixes |-> Unset],
   tenants |-> [v \in TenantVars |-> [kek |-> k3, id |-> "kek-2"]]]

\* The last one gives the id "kek-2" twice: rotation must not start from it.
MCEnvironments ==
  {First,
   [First EXCEPT !.kekId = "kek-3", !.old = k2],
   [First EXCEPT !.old = k3, !.oldId = "kek-2", !.extra["KEK_2"] = k2]}
=============================================================================
