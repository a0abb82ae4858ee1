------------------------------ MODULE MCServer ------------------------------
(***************************************************************************)
(* One key per role, an entry that is overridden by a later one, and       *)
(* environments with a single key and with none.  k2 is used for signing   *)
(* only, so that where its role is DecryptOnly all its requests are        *)
(* refused.                                                                *)
(***************************************************************************)
EXTENDS Server

CONSTANTS Peers, Forwards, Keys, Paths

Entry(key, role) == [key |-> key, role |-> role]

MCRequests ==
  {r \in [peer : Peers, forwarded : Forwards, key : Keys, path : Paths] :
     r.key = "k2" => r.path = "/v1/crypto/sign"}

ByRole == [keys |-> <<Entry("k1", "encrypt"), Entry("k2", "dec")>>, key |-> "k1"]
Overridden == [keys |-> <<Entry("k1", "e"), Entry("k2", "none"), Entry("k1", "decrypt")>>, key |-> ""]
Single == [keys |-> <<>>, key |-> "k2"]
NoKeys == [keys |-> <<>>, key |-> ""]

MCEnvironments == {ByRole, Overridden, Single, NoKeys}
=============================================================================
