---------------------------- MODULE MCPrimitives ----------------------------
(***************************************************************************)
(* The two pure algorithms, each on its own, for they share nothing: the   *)
(* strings are those that an encoding without lengths, or with a short     *)
(* one, would confuse (empty, equal, one the prefix of another, one that   *)
(* looks like the length of what follows, one of 256 bytes); the names are *)
(* all those of either table, one with a capital and a blank, one of no    *)
(* table that the policy allows, and one it does not.                      *)
(***************************************************************************)
EXTENDS AadEncoding, Hashing

CONSTANT d1 \* one of Data

MCTenants == {<<>>, <<97>>, <<0, 0, 0, 1>>, <<97, 0, 0, 0, 1, 97>>, [i \in 1..256 |-> 97]}
MCPurposes == {<<>>, <<97>>, <<97, 97>>, <<0, 0, 0, 0>>}
MCIds == {<<97>>, <<97, 97>>}
MCAes == <<97>>
MCAlgorithms == {<<97>>, <<98>>}

MCNormal == [a \in AlgNames |-> IF a = " SHA256" THEN "sha256" ELSE a]

\* The vector that CanonicalAad::demo asserts (aad.rs:46-54): "a", "b", "c", "d".
ASSUME DemoVector ==
  Encode(<<97>>, <<98>>, <<99>>, <<100>>) =
    <<0, 0, 0, 1, 97, 0, 0, 0, 1, 98, 0, 0, 0, 1, 99, 0, 0, 0, 1, 100>>

FirstAnswer == Answer("", "Rendah", d1)

MCInit == Init /\ HashInit /\ last = FirstAnswer

MCNext ==
  \/ Next /\ {before, last} = {FirstAnswer} /\ UNCHANGED hashVars
  \/ HashNext /\ wrapped = Nothing /\ UNCHANGED vars

MCSpec == MCInit /\ [][MCNext]_<<vars, hashVars>>
=============================================================================
