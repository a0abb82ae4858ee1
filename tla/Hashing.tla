------------------------------- MODULE Hashing -------------------------------
(***************************************************************************)
(* hash_v1 (api/v1.rs) and the functions of crypto/hash: one table of      *)
(* names says what the policy sees, a second one what is computed.         *)
(***************************************************************************)
EXTENDS Policy

CONSTANTS Data, BadB64, NoDigest

VARIABLES before, last \* two answers, each with its request

hashVars == <<before, last>>

-----------------------------------------------------------------------------
\* The name that validate_primitive_compliance is asked about.
Canon(lower) ==
  CASE lower = "sha256"     -> "sha-256"
    [] lower = "sha512"     -> "sha-512"
    [] lower = "sha3_256"   -> "sha3-256"
    [] lower = "blake2b512" -> "blake2b"
    [] OTHER                -> lower

ASSUME HashingAssumption ==
  /\ BadB64 \notin Data
  /\ \A a \in AlgNames : Canon(Normal[a]) \in AlgNames

\* Mutant: a spelling is listed with the wrong function.
Computed_Sha512(lower) ==
  CASE lower \in {"sha256", "sha-256", "sha512"} -> "Sha256"
    [] lower = "sha-512"                         -> "Sha512"
    [] lower \in {"sha3-256", "sha3_256"}        -> "Sha3_256"
    [] lower \in {"blake2b", "blake2b-512"}      -> "Blake2b512"
    [] OTHER                                     -> "Unsupported"

\* The implementation of Hasher that is called.
Computed(lower) ==
  CASE lower \in {"sha256", "sha-256"}      -> "Sha256"
    [] lower \in {"sha512", "sha-512"}      -> "Sha512"
    [] lower \in {"sha3-256", "sha3_256"}   -> "Sha3_256"
    [] lower \in {"blake2b", "blake2b-512"} -> "Blake2b512"
    [] OTHER                                -> "Unsupported"

\* Digests are idealised: different functions or data, different bytes.
Hash(function, data) == [function |-> function, data |-> data]

\* Mutant: the data is decoded but the error is not returned.
Ok_AnyData(algo, level, data) ==
  Compliant(Canon(Normal[algo]), level) /\ Computed(Normal[algo]) # "Unsupported"

Ok(algo, level, data) ==
  /\ Compliant(Canon(Normal[algo]), level)
  /\ data # BadB64
  /\ Computed(Normal[algo]) # "Unsupported"

Answer(algo, level, data) ==
  [algo |-> algo, level |-> level, data |-> data,
   status |-> IF Ok(algo, level, data) THEN 200 ELSE 400,
   hash   |-> IF Ok(algo, level, data) THEN Hash(Computed(Normal[algo]), data) ELSE NoDigest]

Requests == AlgNames \X Levels \X (Data \cup {BadB64})

-----------------------------------------------------------------------------
HashInit ==
  /\ last \in {Answer(r[1], r[2], r[3]) : r \in Requests}
  /\ before = last

\* POST /v1/crypto/hash
hash_v1(algo, level, data) ==
  /\ before' = last
  /\ last' = Answer(algo, level, data)

HashNext == \E r \in Requests : hash_v1(r[1], r[2], r[3])

HashSpec == HashInit /\ [][HashNext]_hashVars

-----------------------------------------------------------------------------
Digested(data) ==
  [algo : AlgNames, level : Levels, data : {data}, status : {200},
   hash : [function : {"Sha256", "Sha512", "Sha3_256", "Blake2b512"}, data : {data}]]

NotDigested ==
  [algo : AlgNames, level : Levels, data : Data \cup {BadB64}, status : {400},
   hash : {NoDigest}]

Answers == (UNION {Digested(d) : d \in Data}) \cup NotDigested

\* The type of answers: a 200 comes with a digest, and one of the data of its
\* own request; any other answer comes with none (v1.rs:90-110).
HashTypeOK == before \in Answers /\ last \in Answers

\* Names that the policy takes for one algorithm never give two digests of the
\* same data, at any level: the two tables do not contradict each other
\* (v1.rs:93-109).
OneNameOneDigest ==
  (/\ before.status = 200 /\ last.status = 200
   /\ Canon(Normal[before.algo]) = Canon(Normal[last.algo])
   /\ before.data = last.data)
  => before.hash = last.hash
=============================================================================
