---------------------------- MODULE MCRateLimiter ----------------------------
(***************************************************************************)
(* Two buckets in different shards, so that a pass can be between them.    *)
(***************************************************************************)
EXTENDS RateLimiter

MCShardOf == [b \in {"ip:key1", "ip:key2"} |-> IF b = "ip:key1" THEN 1 ELSE 2]
=============================================================================
