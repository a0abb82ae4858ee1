------------------------------ MODULE MCSigning ------------------------------
(***************************************************************************)
(* A policy name of each family and the one of an AEAD, which sign_v1 lets *)
(* through; two tenants that share a shard and one that does not.          *)
(***************************************************************************)
EXTENDS Signing

CONSTANT other \* a tenant in a shard of its own

MCNormal == [a \in AlgNames |-> a]

MCShardOf == [t \in Tenants |-> IF t = other THEN 2 ELSE 1]
=============================================================================
