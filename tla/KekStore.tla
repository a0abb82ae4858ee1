------------------------------ MODULE KekStore ------------------------------
(***************************************************************************)
(* crypto/kek_provider.rs: the key-encryption keys of one store, built     *)
(* from the environment at startup and never changed afterwards.           *)
(*                                                                         *)
(* The cipher maps (current, previous) and the raw maps (current_raw,      *)
(* previous_raw) are filled by the same inserts; one map stands for both.  *)
(* HashMaps keyed by id are total functions with NoKey for "absent".       *)
(***************************************************************************)
CONSTANTS
  Keys,      \* 32-byte keys
  Ids,       \* key ids that are configured or asked for
  Suffixes,  \* the <SUFFIX>es of APP_KEK_<SUFFIX> variables
  SuffixId,  \* to_lowercase + '_' replaced by '-', on those suffixes
  Unset,     \* an environment variable that is not set
  BadHex,    \* a value that is not 64 hex digits
  NoKey      \* no entry in a map of keys

ASSUME KekStoreAssumption ==
  /\ {"primary", "previous"} \subseteq Ids
  /\ SuffixId \in [Suffixes -> Ids]
  /\ Unset \notin Ids \cup Keys
  /\ BadHex \notin Keys
  /\ NoKey \notin Keys

\* What a KEK variable can hold.  A value parses (pair_from_hex) iff it is
\* one of Keys.
HexVars == Keys \cup {BadHex, Unset}

KekStores == [id : Ids, raw : Keys, previous : [Ids -> Keys \cup {NoKey}]]

-----------------------------------------------------------------------------
\* APP_KEK_ID and APP_KEK_OLD_ID with their defaults.
CurrentId(env) == IF env.kekId = Unset THEN "primary" ELSE env.kekId
OldId(env) == IF env.oldId = Unset THEN "previous" ELSE env.oldId

\* The keys that variables APP_KEK_<SUFFIX> offer for an id.
ScannedKeys(env, id) ==
  {env.extra[x] : x \in {y \in Suffixes : SuffixId[y] = id /\ env.extra[y] \in Keys}}

\* Mutant: a store of two keys, which does not scan APP_KEK_<SUFFIX>.
PreviousMaps_TwoKeys(env) ==
  {[i \in Ids |-> IF /\ i = OldId(env) /\ i # CurrentId(env)
                     /\ env.old \in Keys
                    THEN env.old ELSE NoKey]}

\* The previous keys from_env can end up with.  APP_KEK_OLD goes in first unless
\* its id is the current one; the scan then keeps the first valid variable of
\* every other id.  env::vars() promises no order, so which of two variables of
\* one id is first is not determined.
PreviousMaps(env) ==
  {p \in [Ids -> Keys \cup {NoKey}] :
    \A i \in Ids :
      IF i = CurrentId(env) THEN p[i] = NoKey
      ELSE IF i = OldId(env) /\ env.old \in Keys THEN p[i] = env.old
      ELSE \/ p[i] \in ScannedKeys(env, i)
           \/ ScannedKeys(env, i) = {} /\ p[i] = NoKey}

\* KekStore::from_env: the stores it can return, none when it returns Err
\* because APP_KEK is missing or does not parse.
FromEnv(env) ==
  {[id |-> CurrentId(env), raw |-> k, previous |-> p] :
     k \in {env.kek} \cap Keys, p \in PreviousMaps(env)}

\* KekStore::from_hex: a tenant's store holds its one key and nothing else.
FromHex(id, key) == [id |-> id, raw |-> key, previous |-> [i \in Ids |-> NoKey]]

-----------------------------------------------------------------------------
\* get_raw: the current key or a previous one under exactly this id.
GetRaw(store, id) == IF id = store.id THEN store.raw ELSE store.previous[id]

\* Mutant: an unknown "primary" stays unknown.
ResolveRaw_NoFallback(store, id) == GetRaw(store, id)

\* resolve_raw: an unknown "primary" falls back to the current key.
ResolveRaw(store, id) ==
  IF GetRaw(store, id) = NoKey /\ id = "primary" THEN store.raw
  ELSE GetRaw(store, id)
=============================================================================
