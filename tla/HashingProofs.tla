--------------------------- MODULE HashingProofs ---------------------------
(***************************************************************************)
(* The two tables of hash_v1 agree for every set of names, not only those  *)
(* of a run: both answers at hand are what the handler gives some request, *)
(* and names that the policy takes for one algorithm are either computed   *)
(* by one function or not at all.                                          *)
(***************************************************************************)
EXTENDS Hashing, TLAPS

Functions == {"Sha256", "Sha512", "Sha3_256", "Blake2b512"}

\* Every answer is the one of hash_v1 to a request.
Given(answer) == \E r \in Requests : answer = Answer(r[1], r[2], r[3])

Inv == Given(before) /\ Given(last)

\* What is computed is one of the four functions.
LEMMA ComputedIsFunction ==
  ASSUME NEW lower, Computed(lower) # "Unsupported"
  PROVE  Computed(lower) \in Functions
BY DEF Computed, Functions

\* Two spellings of one algorithm for the policy are never two functions.
LEMMA TablesAgree ==
  ASSUME NEW x, NEW y, Canon(x) = Canon(y),
         Computed(x) # "Unsupported", Computed(y) # "Unsupported"
  PROVE  Computed(x) = Computed(y)
BY DEF Canon, Computed

\* A request is answered with 200 and a digest of its own data, or with 400 and
\* none.
LEMMA AnswerType ==
  ASSUME NEW r \in Requests
  PROVE  Answer(r[1], r[2], r[3]) \in Answers
<1>1. r[1] \in AlgNames /\ r[2] \in Levels /\ r[3] \in Data \cup {BadB64}
  BY DEF Requests
<1>2. CASE Ok(r[1], r[2], r[3])
  <2>1. r[3] \in Data /\ Computed(Normal[r[1]]) \in Functions
    BY <1>1, <1>2, ComputedIsFunction DEF Ok
  <2>2. Answer(r[1], r[2], r[3]) \in Digested(r[3])
    BY <1>1, <1>2, <2>1 DEF Answer, Digested, Hash, Functions
  <2> QED
    BY <2>1, <2>2 DEF Answers
<1>3. CASE ~Ok(r[1], r[2], r[3])
  BY <1>1, <1>3 DEF Answer, Answers, NotDigested
<1> QED
  BY <1>2, <1>3

LEMMA InitInv == HashInit => Inv
BY DEF HashInit, Inv, Given

LEMMA NextInv == Inv /\ [HashNext]_hashVars => Inv'
<1> SUFFICES ASSUME Inv, [HashNext]_hashVars PROVE Inv'
  OBVIOUS
<1>1. CASE \E r \in Requests : hash_v1(r[1], r[2], r[3])
  BY <1>1 DEF Inv, Given, hash_v1
<1>2. CASE UNCHANGED hashVars
  BY <1>2 DEF Inv, Given, hashVars
<1> QED
  BY <1>1, <1>2 DEF HashNext

THEOREM Invariant == HashSpec => []Inv
BY InitInv, NextInv, PTL DEF HashSpec

\* For any names and data: a 200 comes with a digest of the data of its own
\* request, and nothing else comes with one (v1.rs:89-110).
THEOREM TypeCorrect == HashSpec => []HashTypeOK
<1>1. Inv => HashTypeOK
  BY AnswerType DEF Inv, Given, HashTypeOK
<1> QED
  BY <1>1, Invariant, PTL

\* For any names, levels and data: what the policy takes for one algorithm has
\* one digest (v1.rs:93-109).
THEOREM OneDigest == HashSpec => []OneNameOneDigest
<1>1. Inv => OneNameOneDigest
  <2> SUFFICES ASSUME Inv, before.status = 200, last.status = 200,
                      Canon(Normal[before.algo]) = Canon(Normal[last.algo]),
                      before.data = last.data
               PROVE  before.hash = last.hash
    BY DEF OneNameOneDigest
  <2>1. PICK q \in Requests : before = Answer(q[1], q[2], q[3])
    BY DEF Inv, Given
  <2>2. PICK r \in Requests : last = Answer(r[1], r[2], r[3])
    BY DEF Inv, Given
  <2>3. Ok(q[1], q[2], q[3]) /\ before.algo = q[1] /\ before.data = q[3]
    BY <2>1 DEF Answer
  <2>4. Ok(r[1], r[2], r[3]) /\ last.algo = r[1] /\ last.data = r[3]
    BY <2>2 DEF Answer
  <2>5. Computed(Normal[q[1]]) = Computed(Normal[r[1]])
    BY <2>3, <2>4, TablesAgree DEF Ok
  <2>6. before.hash = Hash(Computed(Normal[q[1]]), q[3])
    BY <2>1, <2>3 DEF Answer
  <2>7. last.hash = Hash(Computed(Normal[r[1]]), r[3])
    BY <2>2, <2>4 DEF Answer
  <2>8. q[3] = r[3]
    BY <2>3, <2>4
  <2> QED
    BY <2>5, <2>6, <2>7, <2>8, Zenon
<1> QED
  BY <1>1, Invariant, PTL
=============================================================================
