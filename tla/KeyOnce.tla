------------------------------- MODULE KeyOnce -------------------------------
(***************************************************************************)
(* What KeyService promises of its RSA keys (key_service.rs:84, "lazily    *)
(* generated, cached"): in one life of the process a tenant has at most    *)
(* one key, settled when it is first taken, no two tenants have the same,  *)
(* and everyone who takes a tenant's key gets that one.  A new life of the *)
(* process begins with none.                                               *)
(***************************************************************************)
CONSTANTS Tenants, Users, Material, NoKey

VARIABLES
  key, \* per tenant its key, or NoKey
  held \* per user the key it works with and whose it is, or NoKey

vars == <<key, held>>

Nothing == /\ key = [t \in Tenants |-> NoKey]
           /\ held = [u \in Users |-> NoKey]

Init == Nothing

Take(u, t, k) ==
  /\ held[u] = NoKey
  /\ key[t] \in {NoKey, k}
  /\ \A other \in Tenants \ {t} : key[other] # k
  /\ key' = [key EXCEPT ![t] = k]
  /\ held' = [held EXCEPT ![u] = [tenant |-> t, key |-> k]]

Release(u) ==
  /\ held[u] # NoKey
  /\ held' = [held EXCEPT ![u] = NoKey]
  /\ key' = key

Forget == Nothing'

Next ==
  \/ \E u \in Users, t \in Tenants, k \in Material : Take(u, t, k)
  \/ \E u \in Users : Release(u)
  \/ Forget

Spec == Init /\ [][Next]_vars
=============================================================================
