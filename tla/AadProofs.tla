----------------------------- MODULE AadProofs ------------------------------
(***************************************************************************)
(* CanonicalAad::encode determines its four fields, and its bytes are      *)
(* never those of a key id, for all strings below 16 MB: a DEK opens under *)
(* the metadata it was wrapped with and no other.                          *)
(***************************************************************************)
EXTENDS AadEncoding, SequenceTheorems, TLAPS

Strings == {s \in Seq(Byte) : Len(s) < TwoTo24}

LEMMA StringsType ==
  /\ Tenants \subseteq Strings /\ Purposes \subseteq Strings
  /\ Ids \subseteq Strings /\ Algorithms \subseteq Strings
  /\ <<>> \in Strings
<1>1. <<>> \in Seq(Byte) /\ Len(<<>>) < TwoTo24
  BY EmptySeq, SMT DEF TwoTo24
<1>2. \A s \in Tenants \cup Purposes \cup Ids \cup Algorithms : s \in Seq(Byte) /\ Len(s) < TwoTo24
  BY AadAssumption
<1>. QED  BY <1>1, <1>2 DEF Strings

\* A length below 2^24 begins with a zero byte, and its bytes determine it.
LEMMA BigEndianBytes ==
  ASSUME NEW n \in Nat, n < TwoTo24
  PROVE  /\ BigEndian(n) \in Seq(Byte) /\ Len(BigEndian(n)) = 4
         /\ BigEndian(n)[1] = 0
         /\ n = TwoTo16 * BigEndian(n)[2] + 256 * BigEndian(n)[3] + BigEndian(n)[4]
<1>1. n \div TwoTo24 = 0 /\ n \div TwoTo16 < 256
  BY SMT DEF TwoTo24, TwoTo16
<1>2. n \div TwoTo24 \in Nat /\ n \div TwoTo16 \in Nat /\ n \div 256 \in Nat
  BY SMT DEF TwoTo24, TwoTo16
<1>3. \A k \in Nat : k % 256 \in Byte
  BY SMT DEF Byte
<1>4. (n \div TwoTo16) % 256 = n \div TwoTo16 /\ (n \div TwoTo24) % 256 = 0
  BY <1>1, <1>2, SMT
<1>5. n = TwoTo16 * (n \div TwoTo16) + 256 * ((n \div 256) % 256) + (n % 256)
  BY SMT DEF TwoTo16
<1>6. BigEndian(n) \in Seq(Byte)
  BY <1>2, <1>3 DEF BigEndian
<1>7. /\ Len(BigEndian(n)) = 4
      /\ BigEndian(n)[1] = (n \div TwoTo24) % 256
      /\ BigEndian(n)[2] = (n \div TwoTo16) % 256
      /\ BigEndian(n)[3] = (n \div 256) % 256
      /\ BigEndian(n)[4] = n % 256
  BY DEF BigEndian
<1>. QED  BY <1>4, <1>5, <1>6, <1>7

\* u begins with four bytes of the length of s and goes on with the bytes of s.
LengthIn(u) == TwoTo16 * u[2] + 256 * u[3] + u[4]
Begins(u, s) == Len(s) = LengthIn(u) /\ \A i \in 1..Len(s) : u[4 + i] = s[i]

\* A field is its length and its bytes.
LEMMA FieldBytes ==
  ASSUME NEW s \in Strings, NEW x \in Seq(Byte)
  PROVE  /\ Field(s) \in Seq(Byte) /\ Field(s) \o x \in Seq(Byte)
         /\ Len(Field(s) \o x) = 4 + Len(s) + Len(x)
         /\ (Field(s) \o x)[1] = 0
         /\ Begins(Field(s) \o x, s)
<1>. DEFINE b == BigEndian(Len(s))
<1>1. /\ s \in Seq(Byte) /\ Len(s) \in Nat /\ Len(s) < TwoTo24
      /\ b \in Seq(Byte) /\ Len(b) = 4 /\ b[1] = 0
      /\ Len(s) = TwoTo16 * b[2] + 256 * b[3] + b[4]
  BY BigEndianBytes DEF Strings
<1>. HIDE DEF b
<1>2. Field(s) = b \o s
  BY DEF Field, b
<1>3. /\ b \o s \in Seq(Byte) /\ Len(b \o s) = Len(b) + Len(s)
      /\ \A i \in 1..Len(b) + Len(s) : (b \o s)[i] = IF i <= Len(b) THEN b[i] ELSE s[i - Len(b)]
  BY <1>1, ConcatProperties, ZenonT(40)
<1>4. /\ Field(s) \in Seq(Byte) /\ Len(Field(s)) = 4 + Len(s)
      /\ \A i \in 1..4 : Field(s)[i] = b[i]
  BY <1>1, <1>2, <1>3
<1>5. ASSUME NEW i \in 1..Len(s) PROVE Field(s)[4 + i] = s[i]
  <2>1. 4 + i \in 1..Len(b) + Len(s) /\ ~(4 + i <= Len(b)) /\ (4 + i) - Len(b) = i
    BY <1>1, SMT
  <2>. QED  BY <1>2, <1>3, <2>1
<1>6. /\ Field(s) \o x \in Seq(Byte) /\ Len(Field(s) \o x) = Len(Field(s)) + Len(x)
      /\ \A i \in 1..Len(Field(s)) + Len(x) : (Field(s) \o x)[i] =
            IF i <= Len(Field(s)) THEN Field(s)[i] ELSE x[i - Len(Field(s))]
  <2>1. Field(s) \in Seq(Byte)
    BY <1>4
  <2>. QED  BY <2>1, ConcatProperties
<1>7. ASSUME NEW i \in 1..4 + Len(s) PROVE (Field(s) \o x)[i] = Field(s)[i]
  <2>1. i \in 1..Len(Field(s)) + Len(x) /\ i <= Len(Field(s))
    BY <1>1, <1>4, SMT
  <2>. QED  BY <1>6, <2>1
<1>8. \A i \in 1..4 : (Field(s) \o x)[i] = b[i]
  BY <1>1, <1>4, <1>7
<1>9. ASSUME NEW i \in 1..Len(s) PROVE (Field(s) \o x)[4 + i] = s[i]
  <2>1. 4 + i \in 1..4 + Len(s)
    BY <1>1, SMT
  <2>. QED  BY <1>5, <1>7, <2>1
<1>10. /\ (Field(s) \o x)[1] = 0
       /\ Len(s) = TwoTo16 * (Field(s) \o x)[2] + 256 * (Field(s) \o x)[3] + (Field(s) \o x)[4]
  <2>1. /\ (Field(s) \o x)[1] = b[1] /\ (Field(s) \o x)[2] = b[2]
        /\ (Field(s) \o x)[3] = b[3] /\ (Field(s) \o x)[4] = b[4]
    <3>1. 1 \in 1..4 /\ 2 \in 1..4 /\ 3 \in 1..4 /\ 4 \in 1..4
      BY SMT
    <3>. QED  BY <1>8, <3>1, Zenon
  <2>. QED  BY <1>1, <2>1, Zenon
<1>11. Len(Field(s) \o x) = 4 + Len(s) + Len(x)
  BY <1>4, <1>6
<1>12. Begins(Field(s) \o x, s)
  BY <1>9, <1>10, Zenon DEF Begins, LengthIn
<1>. QED  BY <1>4, <1>6, <1>10, <1>11, <1>12

\* Bytes that begin with a field determine it, and what follows it.
LEMMA FieldFirst ==
  \A s, t \in Strings : \A x, y \in Seq(Byte) :
    Field(s) \o x = Field(t) \o y => s = t
<1>. SUFFICES ASSUME NEW s \in Strings, NEW t \in Strings,
                     NEW x \in Seq(Byte), NEW y \in Seq(Byte),
                     Field(s) \o x = Field(t) \o y
              PROVE  s = t
  OBVIOUS
<1>. DEFINE u == Field(s) \o x
            v == Field(t) \o y
<1>0. u = v
  OBVIOUS
<1>1. s \in Seq(Byte) /\ t \in Seq(Byte)
  BY DEF Strings
<1>2. Begins(u, s) /\ Begins(v, t)
  BY FieldBytes
<1>. HIDE DEF u, v
<1>4. Len(s) = Len(t)
  BY <1>0, <1>2, Zenon DEF Begins
<1>5. \A i \in 1..Len(s) : s[i] = t[i]
  BY <1>0, <1>2, <1>4, Zenon DEF Begins
<1>6. s = t
  BY <1>1, <1>4, <1>5, SeqEqual
<1>. QED  BY <1>6

LEMMA FieldRest ==
  \A s \in Strings : \A x, y \in Seq(Byte) : Field(s) \o x = Field(s) \o y => x = y
<1>. SUFFICES ASSUME NEW s \in Strings, NEW x \in Seq(Byte), NEW y \in Seq(Byte),
                     Field(s) \o x = Field(s) \o y
              PROVE  x = y
  OBVIOUS
<1>1. Field(s) \in Seq(Byte)
  BY FieldBytes
<1>. QED  BY <1>1, ConcatSimplifications

\* The rest of an encoding after each field.
LEMMA EncodeType ==
  ASSUME NEW t \in Strings, NEW p \in Strings, NEW i \in Strings, NEW a \in Strings
  PROVE  /\ Field(a) \in Seq(Byte)
         /\ Field(i) \o Field(a) \in Seq(Byte)
         /\ Field(p) \o (Field(i) \o Field(a)) \in Seq(Byte)
         /\ Encode(t, p, i, a) \in Seq(Byte)
         /\ Encode(t, p, i, a)[1] = 0 /\ Len(Encode(t, p, i, a)) > 0
<1>1. Field(a) \in Seq(Byte)
  BY FieldBytes, EmptySeq
<1>2. Field(i) \o Field(a) \in Seq(Byte)
  BY <1>1, FieldBytes
<1>3. Field(p) \o (Field(i) \o Field(a)) \in Seq(Byte)
  BY <1>2, FieldBytes
<1>4. /\ Encode(t, p, i, a) \in Seq(Byte) /\ Encode(t, p, i, a)[1] = 0
      /\ Len(Encode(t, p, i, a)) = 4 + Len(t) + Len(Field(p) \o (Field(i) \o Field(a)))
  <2>. DEFINE rest == Field(p) \o (Field(i) \o Field(a))
  <2>1. /\ Field(t) \o rest \in Seq(Byte) /\ (Field(t) \o rest)[1] = 0
        /\ Len(Field(t) \o rest) = 4 + Len(t) + Len(rest)
    <3>1. rest \in Seq(Byte)
      BY <1>3
    <3>. HIDE DEF rest
    <3>2. Field(t) \o rest \in Seq(Byte) /\ (Field(t) \o rest)[1] = 0
      BY <3>1, FieldBytes
    <3>3. Len(Field(t) \o rest) = 4 + Len(t) + Len(rest)
      BY <3>1, FieldBytes
    <3>. QED  BY <3>2, <3>3
  <2>. QED  BY <2>1 DEF Encode
<1>5. Len(t) \in Nat /\ Len(Field(p) \o (Field(i) \o Field(a))) \in Nat
  BY <1>3 DEF Strings
<1>. QED  BY <1>1, <1>2, <1>3, <1>4, <1>5

LEMMA MetadataType ==
  ASSUME NEW m \in Metadata
  PROVE  /\ m.tenant_id \in Strings /\ m.purpose \in Strings
         /\ m.key_id \in Strings /\ m.key_id \in Ids /\ m.key_id \in Seq(Byte)
         /\ AlgorithmOf(m) \in Strings /\ CanonicalOf(m) \in Seq(Byte)
<1>1. /\ m.tenant_id \in Strings /\ m.purpose \in Strings
      /\ m.key_id \in Strings /\ m.key_id \in Ids /\ AlgorithmOf(m) \in Strings
  BY StringsType, AadAssumption DEF Metadata, AlgorithmOf
<1>. QED  BY <1>1, EncodeType DEF CanonicalOf, Strings

\* No two metadata have one encoding (aad.rs:32-41).
THEOREM EncodeInjective ==
  ASSUME NEW m \in Metadata, NEW n \in Metadata, CanonicalOf(m) = CanonicalOf(n)
  PROVE  /\ m.tenant_id = n.tenant_id /\ m.purpose = n.purpose
         /\ m.key_id = n.key_id /\ AlgorithmOf(m) = AlgorithmOf(n)
<1>. DEFINE t == m.tenant_id
            p == m.purpose
            i == m.key_id
            a == AlgorithmOf(m)
            u == n.tenant_id
            q == n.purpose
            j == n.key_id
            b == AlgorithmOf(n)
<1>5. /\ t \in Strings /\ p \in Strings /\ i \in Strings /\ a \in Strings
      /\ u \in Strings /\ q \in Strings /\ j \in Strings /\ b \in Strings
      /\ Encode(t, p, i, a) = Encode(u, q, j, b)
  BY MetadataType DEF CanonicalOf
<1>. HIDE DEF t, p, i, a, u, q, j, b
<1>0. /\ Field(a) \in Seq(Byte) /\ Field(b) \in Seq(Byte)
      /\ Field(i) \o Field(a) \in Seq(Byte) /\ Field(j) \o Field(b) \in Seq(Byte)
      /\ Field(p) \o (Field(i) \o Field(a)) \in Seq(Byte)
      /\ Field(q) \o (Field(j) \o Field(b)) \in Seq(Byte)
  BY <1>5, EncodeType
<1>1. t = u /\ Field(p) \o (Field(i) \o Field(a)) = Field(q) \o (Field(j) \o Field(b))
  <2>. DEFINE x == Field(p) \o (Field(i) \o Field(a))
              y == Field(q) \o (Field(j) \o Field(b))
  <2>1. x \in Seq(Byte) /\ y \in Seq(Byte) /\ Field(t) \o x = Field(u) \o y
    BY <1>0, <1>5 DEF Encode
  <2>. HIDE DEF x, y
  <2>2. t = u
    BY <1>5, <2>1, FieldFirst, Zenon
  <2>3. x = y
    BY <1>5, <2>1, <2>2, FieldRest, Zenon
  <2>. QED  BY <2>2, <2>3 DEF x, y
<1>2. p = q /\ Field(i) \o Field(a) = Field(j) \o Field(b)
  <2>. DEFINE x == Field(i) \o Field(a)
              y == Field(j) \o Field(b)
  <2>1. x \in Seq(Byte) /\ y \in Seq(Byte) /\ Field(p) \o x = Field(q) \o y
    BY <1>0, <1>1
  <2>. HIDE DEF x, y
  <2>2. p = q
    BY <1>5, <2>1, FieldFirst, Zenon
  <2>3. x = y
    BY <1>5, <2>1, <2>2, FieldRest, Zenon
  <2>. QED  BY <2>2, <2>3 DEF x, y
<1>3. i = j /\ Field(a) = Field(b)
  <2>1. Field(a) \in Seq(Byte) /\ Field(b) \in Seq(Byte)
    BY <1>0
  <2>2. Field(i) \o Field(a) = Field(j) \o Field(b)
    BY <1>2
  <2>3. i = j
    BY <1>5, <2>1, <2>2, FieldFirst, Zenon
  <2>4. Field(a) = Field(b)
    BY <1>5, <2>1, <2>2, <2>3, FieldRest, Zenon
  <2>. QED  BY <2>3, <2>4
<1>4. a = b
  <2>1. Field(a) \o <<>> = Field(b) \o <<>> /\ <<>> \in Seq(Byte)
    BY <1>3, EmptySeq
  <2>. QED  BY <1>5, <2>1, FieldFirst, Zenon
<1>. QED  BY <1>1, <1>2, <1>3, <1>4 DEF t, p, i, a, u, q, j, b

\* No encoding is the bytes of a key id, which an old release bound
\* (envelope.rs:184-189): an encoding begins with a zero byte.
THEOREM FormatsDiffer ==
  ASSUME NEW t \in Strings, NEW p \in Strings, NEW i \in Strings, NEW a \in Strings,
         NEW id \in Ids
  PROVE  Encode(t, p, i, a) # id
<1>1. /\ Encode(t, p, i, a) \in Seq(Byte)
      /\ Encode(t, p, i, a)[1] = 0 /\ Len(Encode(t, p, i, a)) > 0
  <2>1. id \in Strings
    BY StringsType
  <2>. QED  BY EncodeType
<1>2. id \in Seq(Byte) /\ \A k \in 1..Len(id) : id[k] # 0
  BY AadAssumption
<1>. QED  BY <1>1, <1>2

-----------------------------------------------------------------------------
\* What is bound is what the format says of the metadata, and the last answer
\* compares it with what is presented.
Bound ==
  /\ wrapped # Nothing =>
       IF wrapped.of = "canonical"
         THEN wrapped.aad = CanonicalOf(wrapped.metadata) /\ wrapped.metadata.algorithm # <<>>
         ELSE wrapped.aad = wrapped.metadata.key_id
  /\ presented # Nothing => (presented.opened <=> wrapped.aad \in Tried(presented.metadata))

Inv == TypeOK /\ Bound

\* The invariant.
LEMMA Inductive == Spec => []Inv
<1>1. Init => Inv
  BY DEF Init, Inv, TypeOK, Bound
<1>2. Inv /\ [Next]_vars => Inv'
  <2>. SUFFICES ASSUME Inv, [Next]_vars PROVE Inv'
    OBVIOUS
  <2>1. ASSUME NEW m \in Metadata, Wrap(m) PROVE Inv'
    <3>1. /\ wrapped' = [of |-> "canonical", metadata |-> m, aad |-> CanonicalOf(m)]
          /\ presented' = Nothing /\ m.algorithm # <<>>
      BY <2>1 DEF Wrap
    <3>2. wrapped' # Nothing
      BY <3>1, MetadataType DEF Nothing
    <3>. QED  BY <3>1, <3>2, MetadataType DEF Inv, TypeOK, Bound
  <2>2. ASSUME NEW m \in Metadata, WrapOld(m) PROVE Inv'
    <3>1. /\ wrapped' = [of |-> "legacy", metadata |-> m, aad |-> m.key_id]
          /\ presented' = Nothing
      BY <2>2 DEF WrapOld
    <3>. QED  BY <3>1, MetadataType DEF Inv, TypeOK, Bound
  <2>3. ASSUME NEW m \in Metadata, Unwrap(m) PROVE Inv'
    <3>1. /\ wrapped' = wrapped /\ wrapped # Nothing
          /\ presented' = [of |-> "envelope", metadata |-> m, opened |-> wrapped.aad \in Tried(m)]
      BY <2>3 DEF Unwrap
    <3>2. (wrapped.aad \in Tried(m)) \in BOOLEAN
      OBVIOUS
    <3>3. presented' \in [of : {"envelope"}, metadata : Metadata, opened : BOOLEAN]
      BY <3>1, <3>2
    <3>4. TypeOK'
      BY <3>1, <3>3 DEF Inv, TypeOK
    <3>5. Bound'
      BY <3>1 DEF Inv, Bound
    <3>. QED  BY <3>4, <3>5 DEF Inv
  <2>4. CASE UNCHANGED vars
    BY <2>4 DEF vars, Inv, TypeOK, Bound
  <2>. QED  BY <2>1, <2>2, <2>3, <2>4 DEF Next
<1>. QED  BY <1>1, <1>2, PTL DEF Spec

\* TypeOK holds in every reachable state.
THEOREM TypeCorrect == Spec => []TypeOK
<1>1. Inv => TypeOK
  BY DEF Inv
<1>. QED  BY <1>1, Inductive, PTL

\* A DEK is unwrapped exactly under the metadata it was wrapped with
\* (envelope.rs:157-191).
THEOREM MetadataBound == Spec => []BindsMetadata
<1>1. Inv => BindsMetadata
  <2>. SUFFICES ASSUME Inv, presented # Nothing
                PROVE  LET was == wrapped.metadata
                           now == presented.metadata
                       IN presented.opened <=>
                            IF wrapped.of = "canonical"
                              THEN /\ now.tenant_id = was.tenant_id
                                   /\ now.purpose = was.purpose
                                   /\ now.key_id = was.key_id
                                   /\ AlgorithmOf(now) = was.algorithm
                              ELSE /\ now.key_id = was.key_id
                                   /\ <<>> \in {now.tenant_id, now.purpose, now.algorithm}
    BY DEF BindsMetadata
  <2>. DEFINE was == wrapped.metadata
              now == presented.metadata
  <2>1. /\ was \in Metadata /\ now \in Metadata /\ wrapped.of \in {"canonical", "legacy"}
        /\ wrapped # Nothing /\ presented.opened \in BOOLEAN
        /\ presented.opened <=> wrapped.aad \in Tried(now)
    BY DEF Inv, TypeOK, Bound
  <2>2. /\ was.tenant_id \in Strings /\ was.purpose \in Strings /\ was.key_id \in Ids
        /\ was.key_id \in Strings /\ AlgorithmOf(was) \in Strings
        /\ now.tenant_id \in Strings /\ now.purpose \in Strings /\ now.key_id \in Ids
        /\ now.key_id \in Strings /\ AlgorithmOf(now) \in Strings
    BY <2>1, MetadataType
  <2>3. CanonicalOf(was) # now.key_id /\ CanonicalOf(now) # was.key_id
    BY <2>2, FormatsDiffer DEF CanonicalOf
  <2>4. CASE wrapped.of = "canonical"
    <3>1. wrapped.aad = CanonicalOf(was) /\ AlgorithmOf(was) = was.algorithm
      BY <2>1, <2>4 DEF Inv, Bound, AlgorithmOf
    <3>2. presented.opened <=> CanonicalOf(was) = CanonicalOf(now)
      BY <2>1, <2>3, <3>1 DEF Tried
    <3>3. CanonicalOf(was) = CanonicalOf(now) =>
            /\ now.tenant_id = was.tenant_id /\ now.purpose = was.purpose
            /\ now.key_id = was.key_id /\ AlgorithmOf(now) = AlgorithmOf(was)
      BY <2>1, EncodeInjective
    <3>4. ASSUME now.tenant_id = was.tenant_id, now.purpose = was.purpose,
                 now.key_id = was.key_id, AlgorithmOf(now) = AlgorithmOf(was)
          PROVE  CanonicalOf(was) = CanonicalOf(now)
      BY <3>4 DEF CanonicalOf
    <3>. QED  BY <2>4, <3>1, <3>2, <3>3, <3>4
  <2>5. CASE wrapped.of = "legacy"
    <3>1. wrapped.aad = was.key_id
      BY <2>1, <2>5 DEF Inv, Bound
    <3>2. presented.opened <=> /\ was.key_id = now.key_id
                               /\ <<>> \in {now.tenant_id, now.purpose, now.algorithm}
      BY <2>1, <2>3, <3>1 DEF Tried
    <3>. QED  BY <2>5, <3>2
  <2>. QED  BY <2>1, <2>4, <2>5
<1>. QED  BY <1>1, Inductive, PTL
=============================================================================
