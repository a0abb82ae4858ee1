----------------------------- MODULE KeyService -----------------------------
(***************************************************************************)
(* services/key_service.rs, the registry half: one KEK store per tenant    *)
(* and the store "default" for everybody else.                             *)
(***************************************************************************)
EXTENDS KekStore

CONSTANTS
  Tenants,     \* tenant ids: registered ones and those that requests name
  TenantVars,  \* the <id>s of APP_TENANT_<id>_KEK variables
  TenantOf,    \* to_lowercase, on those ids
  NoStore      \* no entry in the registry

ASSUME KeyServiceAssumption ==
  /\ "default" \in Tenants
  /\ TenantOf \in [TenantVars -> Tenants]
  /\ NoStore \notin KekStores

\* The variables a process is started with, as far as it reads them for keys.
EnvVars ==
  [kek : HexVars, kekId : Ids \cup {Unset}, old : HexVars, oldId : Ids \cup {Unset},
   extra : [Suffixes -> HexVars],
   tenants : [TenantVars -> [kek : HexVars, id : Ids \cup {Unset}]]]

Registries == [Tenants -> KekStores \cup {NoStore}]

\* The stores that variables APP_TENANT_<id>_KEK offer for a tenant; the id of
\* such a store is "primary" unless APP_TENANT_<id>_KEK_ID says otherwise.
OfferedStores(env, tenant) ==
  {FromHex(IF env.tenants[v].id = Unset THEN "primary" ELSE env.tenants[v].id,
           env.tenants[v].kek) :
     v \in {w \in TenantVars : TenantOf[w] = tenant /\ env.tenants[w].kek \in Keys}}

\* KeyService::from_env: "default" is registered first and never replaced;
\* of two variables of one tenant the first that is met wins.
RegistriesFrom(env, defaultStore) ==
  {r \in [Tenants -> {defaultStore, NoStore}
                       \cup (UNION {OfferedStores(env, t) : t \in Tenants})] :
    \A t \in Tenants :
      IF t = "default" THEN r[t] = defaultStore
      ELSE \/ r[t] \in OfferedStores(env, t)
           \/ OfferedStores(env, t) = {} /\ r[t] = NoStore}

\* Mutant: every tenant is served from the default store.
StoreFor_Default(registry, tenant) == registry["default"]

\* get_store(tenant).or_else(get_store("default"))
StoreFor(registry, tenant) ==
  IF registry[tenant] = NoStore THEN registry["default"] ELSE registry[tenant]
=============================================================================
