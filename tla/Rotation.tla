------------------------------ MODULE Rotation ------------------------------
(***************************************************************************)
(* Key rotation as README "Configuration" lays it out, on top of the       *)
(* running service: while the process is down the operator gives it a new  *)
(* APP_KEK under a new id and hands the old key on, and every envelope     *)
(* ever sealed is to stay readable.                                        *)
(***************************************************************************)
EXTENDS SecretService

\* Every id and every tenant is given at most one key.
Tidy ==
  /\ env.kek \in Keys
  /\ \A i \in Ids : \A k, m \in KeysGiven(i) : k = m
  /\ \A t \in Tenants : \A a, b \in OfferedStores(env, t) : a = b

\* No variable gives a key to the id.
Unused(id) == KeysGiven(id) = {}

\* What becomes of the key in APP_KEK_OLD: when there is one it moves to an
\* APP_KEK_<SUFFIX> variable that stands for the same id.
MovesOld(extra) ==
  \/ env.old \notin Keys /\ extra = env.extra
  \/ \E x \in Suffixes :
       /\ env.old \in Keys
       /\ SuffixId[x] = OldId(env)
       /\ env.extra[x] = Unset
       /\ extra = [env.extra EXCEPT ![x] = env.old]

Rotates(key, id, oldId) ==
  /\ app = Down
  /\ Unused(id)
  /\ \E extra \in [Suffixes -> HexVars] :
       /\ MovesOld(extra)
       /\ env' = [env EXCEPT !.kek = key, !.kekId = id, !.old = env.kek,
                             !.oldId = oldId, !.extra = extra]
  /\ UNCHANGED <<app, sealed, reply>>

\* The old key keeps its id: APP_KEK_OLD_ID is set to it.
Rotate(key, id) == Rotates(key, id, CurrentId(env))

\* The old key is handed on and APP_KEK_OLD_ID is left at its default.
RotateByDefault(key, id) == id # "previous" /\ Rotates(key, id, Unset)

\* A tenant's key changes: APP_TENANT_<id>_KEK and _KEK_ID have no companions
\* that would hand the old one on.
RotateTenant(v, key, id) ==
  /\ app = Down
  /\ env.tenants[v].kek \in Keys
  /\ env' = [env EXCEPT !.tenants[v] = [kek |-> key, id |-> id]]
  /\ UNCHANGED <<app, sealed, reply>>

-----------------------------------------------------------------------------
RotationInit == Init /\ Tidy

RotationNext == ServiceNext \/ \E k \in Keys, i \in Ids : Rotate(k, i)

RotationSpec == RotationInit /\ [][RotationNext]_vars

ByDefaultSpec ==
  RotationInit /\ [][ServiceNext \/ \E k \in Keys, i \in Ids : RotateByDefault(k, i)]_vars

TenantSpec ==
  RotationInit /\ [][ServiceNext \/ \E v \in TenantVars, k \in Keys, i \in Ids :
                                      RotateTenant(v, k, i)]_vars

-----------------------------------------------------------------------------
\* However often the key is rotated, every envelope a client keeps can be read
\* from the running process: README:106, "Enables rotation without data loss".
NoDataLoss == app # Down => \A s \in sealed : Readable(s)
=============================================================================
