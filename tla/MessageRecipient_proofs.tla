----------------------- MODULE MessageRecipient_proofs -----------------------
(***************************************************************************)
(* Proof that a recipient reads, from any message MessageWriter completes, *)
(* the headers and the payload that were written, for any framings,        *)
(* statuses, headers and payloads and any number of calls.                 *)
(***************************************************************************)
EXTENDS MessageRecipient, MessageWriter_proofs, SetInduction

----------------------------------------------------------------------------
(* Concatenating the blocks of a body.  FlattenSeq is a recursive function *)
(* on the positions of its argument; that there is one is shown by         *)
(* induction on the length.                                                *)

Flattens(f, q) ==
  f = [i \in 1..Len(q) |-> IF i = 1 THEN q[i] ELSE f[i - 1] \o q[i]]

LEMMA OneMore ==
  ASSUME NEW S, NEW q \in Seq(S), NEW e \in S
  PROVE  /\ q \o <<e>> \in Seq(S) /\ Len(q \o <<e>>) = Len(q) + 1
         /\ (q \o <<e>>)[Len(q) + 1] = e /\ \A i \in 1..Len(q) : (q \o <<e>>)[i] = q[i]
OBVIOUS

LEMMA FlattenAt ==
  ASSUME NEW f, NEW q, Flattens(f, q), NEW i \in 1..Len(q)
  PROVE  f[i] = IF i = 1 THEN q[i] ELSE f[i - 1] \o q[i]
<1> DEFINE g == [j \in 1..Len(q) |-> IF j = 1 THEN q[j] ELSE f[j - 1] \o q[j]]
<1>1. f = g
  BY DEF Flattens
<1>2. g[i] = IF i = 1 THEN q[i] ELSE f[i - 1] \o q[i]
  OBVIOUS
<1> HIDE DEF g
<1> QED
  BY <1>1, <1>2, Zenon

LEMMA FlattenExists ==
  ASSUME NEW S, NEW q \in Seq(Seq(S))
  PROVE  \E f : Flattens(f, q)
<1> DEFINE T == {n \in Nat : \A r \in Seq(Seq(S)) : Len(r) = n => \E f : Flattens(f, r)}
<1>1. 0 \in T
  <2>1. ASSUME NEW r \in Seq(Seq(S)), Len(r) = 0 PROVE \E f : Flattens(f, r)
    <3>1. Flattens([i \in 1..0 |-> i], r)
      BY <2>1 DEF Flattens
    <3> QED
      BY <3>1
  <2> QED
    BY <2>1
<1>2. ASSUME NEW n \in Nat, n \in T PROVE n + 1 \in T
  <2>1. ASSUME NEW r \in Seq(Seq(S)), Len(r) = n + 1 PROVE \E f : Flattens(f, r)
    <3> DEFINE p == SubSeq(r, 1, n)
    <3>1. p \in Seq(Seq(S)) /\ Len(p) = n /\ \A i \in 1..n : p[i] = r[i]
      BY <2>1
    <3>2. PICK f : Flattens(f, p)
      BY <1>2, <3>1
    <3> DEFINE last == IF n = 0 THEN r[n + 1] ELSE f[n] \o r[n + 1]
               g == [i \in 1..(n + 1) |-> IF i = n + 1 THEN last ELSE f[i]]
    <3> HIDE DEF p
    <3>3. ASSUME NEW i \in 1..(n + 1)
          PROVE  g[i] = IF i = 1 THEN r[i] ELSE g[i - 1] \o r[i]
      <4>1. CASE i = n + 1
        BY <4>1
      <4>2. CASE i \in 1..n
        <5>1. f[i] = IF i = 1 THEN p[i] ELSE f[i - 1] \o p[i]
          BY <3>1, <3>2, <4>2 DEF Flattens
        <5>2. g[i] = f[i] /\ p[i] = r[i] /\ (i # 1 => g[i - 1] = f[i - 1])
          BY <3>1, <4>2
        <5> QED
          BY <5>1, <5>2
      <4> QED
        BY <4>1, <4>2
    <3>4. g = [i \in 1..(n + 1) |-> IF i = 1 THEN r[i] ELSE g[i - 1] \o r[i]]
      <4>1. g = [i \in 1..(n + 1) |-> g[i]]
        OBVIOUS
      <4> HIDE DEF g
      <4> QED
        BY <3>3, <4>1
    <3> HIDE DEF g
    <3>5. Flattens(g, r)
      BY <2>1, <3>4 DEF Flattens
    <3> QED
      BY <3>5
  <2> QED
    BY <2>1
<1>3. \A n \in Nat : n \in T
  <2> HIDE DEF T
  <2> QED
    BY <1>1, <1>2, NatSetInduction
<1> QED
  BY <1>3

\* Two such functions agree where their arguments do.
LEMMA FlattenAgrees ==
  ASSUME NEW S, NEW q \in Seq(Seq(S)), NEW r \in Seq(Seq(S)), NEW f, NEW g,
         Flattens(f, q), Flattens(g, r), NEW n \in Nat, n <= Len(q), n <= Len(r),
         \A i \in 1..n : q[i] = r[i]
  PROVE  \A i \in 1..n : f[i] = g[i] /\ f[i] \in Seq(S)
<1> DEFINE T == {k \in Nat : k \in 1..n => f[k] = g[k] /\ f[k] \in Seq(S)}
<1>1. 0 \in T
  OBVIOUS
<1>2. ASSUME NEW k \in Nat, k \in T PROVE k + 1 \in T
  <2>1. SUFFICES ASSUME k + 1 \in 1..n PROVE f[k + 1] = g[k + 1] /\ f[k + 1] \in Seq(S)
    OBVIOUS
  <2>2. /\ f[k + 1] = IF k + 1 = 1 THEN q[k + 1] ELSE f[k + 1 - 1] \o q[k + 1]
        /\ g[k + 1] = IF k + 1 = 1 THEN r[k + 1] ELSE g[k + 1 - 1] \o r[k + 1]
    <3>1. k + 1 \in 1..Len(q) /\ k + 1 \in 1..Len(r)
      BY <2>1
    <3> QED
      BY <3>1, FlattenAt
  <2>3. q[k + 1] = r[k + 1] /\ q[k + 1] \in Seq(S) /\ k + 1 - 1 = k
    BY <2>1
  <2>4. CASE k = 0
    BY <2>2, <2>3, <2>4
  <2>5. CASE k # 0
    <3>1. f[k] = g[k] /\ f[k] \in Seq(S)
      BY <1>2, <2>1, <2>5
    <3>2. f[k] \o q[k + 1] \in Seq(S)
      BY <2>3, <3>1, ConcatProperties
    <3> QED
      BY <2>2, <2>3, <2>5, <3>1, <3>2
  <2> QED
    BY <2>4, <2>5
<1>3. \A k \in Nat : k \in T
  <2> HIDE DEF T
  <2> QED
    BY <1>1, <1>2, NatSetInduction
<1> QED
  BY <1>3

LEMMA FlattenIs ==
  ASSUME NEW S, NEW q \in Seq(Seq(S)), q # <<>>
  PROVE  \E f : Flattens(f, q) /\ FlattenSeq(q) = f[Len(q)]
<1>1. \E f : Flattens(f, q)
  BY FlattenExists
<1>2. Len(q) # 0
  OBVIOUS
<1>3. FlattenSeq(q) = (CHOOSE f : Flattens(f, q))[Len(q)]
  BY <1>2, Zenon DEF FlattenSeq, Flattens
<1> QED
  BY <1>1, <1>3

\* A block appended to the sequence comes behind what was there.
LEMMA FlattenAppend ==
  ASSUME NEW S, NEW q \in Seq(Seq(S)), NEW e \in Seq(S)
  PROVE  /\ FlattenSeq(q) \in Seq(S)
         /\ FlattenSeq(q \o <<e>>) = FlattenSeq(q) \o e
<1> DEFINE r == q \o <<e>>
<1>1. /\ r \in Seq(Seq(S)) /\ r # <<>> /\ Len(q) \in Nat /\ Len(r) = Len(q) + 1
      /\ r[Len(q) + 1] = e /\ \A i \in 1..Len(q) : r[i] = q[i]
  OBVIOUS
<1> HIDE DEF r
<1>2. PICK g : Flattens(g, r) /\ FlattenSeq(r) = g[Len(r)]
  BY <1>1, FlattenIs
<1>3. g[Len(q) + 1] = IF Len(q) + 1 = 1 THEN e ELSE g[Len(q) + 1 - 1] \o e
  <2>1. Len(q) + 1 \in 1..Len(r)
    BY <1>1
  <2> QED
    BY <1>1, <1>2, <2>1, FlattenAt
<1>4. CASE q = <<>>
  <2>1. FlattenSeq(<<>>) = <<>>
    BY DEF FlattenSeq
  <2>2. Len(q) + 1 = 1 /\ <<>> \o e = e /\ <<>> \in Seq(S)
    BY <1>4, ConcatEmptySeq, EmptySeq
  <2> QED
    BY <1>1, <1>2, <1>3, <1>4, <2>1, <2>2 DEF r
<1>5. CASE q # <<>>
  <2>1. PICK f : Flattens(f, q) /\ FlattenSeq(q) = f[Len(q)]
    BY <1>5, FlattenIs
  <2>2. \A i \in 1..Len(q) : f[i] = g[i] /\ f[i] \in Seq(S)
    <3>1. /\ Len(q) <= Len(q) /\ Len(q) <= Len(r) /\ \A i \in 1..Len(q) : q[i] = r[i]
      BY <1>1
    <3>2. Flattens(f, q) /\ Flattens(g, r) /\ q \in Seq(Seq(S)) /\ r \in Seq(Seq(S))
      BY <1>1, <1>2, <2>1, Zenon
    <3>3. \A n \in Nat : n <= Len(q) /\ n <= Len(r) /\ (\A i \in 1..n : q[i] = r[i])
                          => \A i \in 1..n : f[i] = g[i] /\ f[i] \in Seq(S)
      BY <3>2, FlattenAgrees
    <3> QED
      BY <1>1, <3>1, <3>3
  <2>3. Len(q) \in 1..Len(q) /\ Len(q) + 1 # 1 /\ Len(q) + 1 - 1 = Len(q)
    BY <1>1, <1>5
  <2>4. f[Len(q)] = g[Len(q)] /\ f[Len(q)] \in Seq(S)
    BY <2>2, <2>3
  <2>5. FlattenSeq(r) = g[Len(q)] \o e
    BY <1>1, <1>2, <1>3, <2>3, Zenon
  <2> QED
    BY <2>1, <2>4, <2>5 DEF r
<1> QED
  BY <1>4, <1>5

\* The tokens a body is made of.
BodyToken == [kind : {"data", "chunk"}, bytes : Seq(Bytes)]

\* The bytes of a body, one token at a time.
LEMMA BytesOfEmpty == BytesOf(<<>>) = <<>>
BY DEF BytesOf, FlattenSeq

LEMMA BytesOfAppend ==
  ASSUME NEW b \in Seq(BodyToken), NEW t \in BodyToken
  PROVE  /\ BytesOf(b) \in Seq(Bytes)
         /\ BytesOf(b \o <<t>>) = BytesOf(b) \o t.bytes
<1> DEFINE q == [i \in 1..Len(b) |-> b[i].bytes]
           c == b \o <<t>>
           r == [i \in 1..Len(c) |-> c[i].bytes]
<1>1. /\ c \in Seq(BodyToken) /\ Len(b) \in Nat /\ Len(c) = Len(b) + 1
      /\ c[Len(b) + 1] = t /\ \A i \in 1..Len(b) : c[i] = b[i]
  OBVIOUS
<1>2. t.bytes \in Seq(Bytes) /\ \A i \in 1..Len(b) : b[i].bytes \in Seq(Bytes)
  <2>1. \A i \in 1..Len(b) : b[i] \in BodyToken
    BY ElementOfSeq
  <2> QED
    BY <2>1 DEF BodyToken
<1>3. q \in Seq(Seq(Bytes)) /\ Len(q) = Len(b)
  BY <1>1, <1>2
<1>4. r = q \o <<t.bytes>>
  <2> DEFINE v == q \o <<t.bytes>>
  <2>1. /\ v \in Seq(Seq(Bytes)) /\ Len(v) = Len(b) + 1 /\ v[Len(b) + 1] = t.bytes
        /\ \A i \in 1..Len(b) : v[i] = q[i]
    <3> DEFINE e == t.bytes
    <3>1. e \in Seq(Bytes) /\ q \in Seq(Seq(Bytes)) /\ Len(q) = Len(b)
      BY <1>2, <1>3
    <3> HIDE DEF q, e
    <3>2. /\ q \o <<e>> \in Seq(Seq(Bytes)) /\ Len(q \o <<e>>) = Len(q) + 1
          /\ (q \o <<e>>)[Len(q) + 1] = e /\ \A i \in 1..Len(q) : (q \o <<e>>)[i] = q[i]
      BY <3>1, OneMore
    <3> QED
      BY <3>1, <3>2 DEF e
  <2>2. \A i \in 1..Len(b) : v[i] = b[i].bytes
    <3> HIDE DEF v
    <3> QED
      BY <2>1
  <2> HIDE DEF c, v
  <2>3. \A i \in 1..Len(c) : c[i].bytes \in Seq(Bytes) /\ c[i].bytes = v[i]
    BY <1>1, <1>2, <2>1, <2>2
  <2>4. r \in Seq(Seq(Bytes)) /\ Len(r) = Len(v) /\ \A i \in 1..Len(r) : r[i] = v[i]
    BY <1>1, <2>1, <2>3
  <2> HIDE DEF r
  <2>5. r = v
    BY <2>1, <2>4, SeqEqual
  <2> QED
    BY <2>5 DEF v
<1>5. /\ FlattenSeq(q) \in Seq(Bytes)
      /\ FlattenSeq(q \o <<t.bytes>>) = FlattenSeq(q) \o t.bytes
  <2> HIDE DEF q
  <2> QED
    BY <1>2, <1>3, FlattenAppend
<1> QED
  BY <1>4, <1>5, Zenon DEF BytesOf

\* Concatenation of bytes is associative, as a formula that Zenon can instantiate.
LEMMA BytesAssociative ==
  \A x, y, z \in Seq(Bytes) : (x \o y) \o z = x \o (y \o z)
BY ConcatAssociative

\* What is read of a body up to a token is the beginning of its bytes.
LEMMA BytesOfPrefix ==
  ASSUME NEW b \in Seq(BodyToken), NEW m \in 1..Len(b)
  PROVE  IsPrefix(BytesOf(SubSeq(b, 1, m)), BytesOf(b))
<1> DEFINE F(n) == BytesOf(SubSeq(b, 1, n))
           T == {n \in Nat : m + n <= Len(b) => \E u \in Seq(Bytes) : F(m + n) = F(m) \o u}
<1>1. \A n \in 0..Len(b) : SubSeq(b, 1, n) \in Seq(BodyToken)
  OBVIOUS
<1>2. BodyToken # {} /\ \A n \in 0..Len(b) : F(n) \in Seq(Bytes)
  <2>1. Data(<<>>) \in BodyToken
    BY EmptySeq DEF BodyToken, Data
  <2> QED
    BY <1>1, <2>1, BytesOfAppend
<1>3. ASSUME NEW n \in 0..Len(b), n < Len(b)
      PROVE  F(n + 1) = F(n) \o b[n + 1].bytes /\ b[n + 1].bytes \in Seq(Bytes)
  <2>1. SubSeq(b, 1, n + 1) = SubSeq(b, 1, n) \o <<b[n + 1]>>
    <3>1. 1 \in 1..Len(b) /\ n + 1 \in 1..Len(b) /\ n + 1 - 1 = n
      BY <1>3
    <3>2. SubSeq(b, 1, n + 1) = SubSeq(b, 1, n + 1 - 1) \o <<b[n + 1]>>
      BY <3>1, SubSeqRecursiveSecond
    <3> QED
      BY <3>1, <3>2
  <2>2. b[n + 1] \in BodyToken
    BY <1>3
  <2>3. BytesOf(SubSeq(b, 1, n) \o <<b[n + 1]>>) = BytesOf(SubSeq(b, 1, n)) \o b[n + 1].bytes
    BY <1>1, <2>2, BytesOfAppend
  <2> QED
    BY <2>1, <2>2, <2>3 DEF BodyToken
<1> HIDE DEF F
<1>4. 0 \in T
  <2>1. F(m + 0) = F(m) \o <<>> /\ <<>> \in Seq(Bytes)
    BY <1>2, ConcatEmptySeq, EmptySeq
  <2> QED
    BY <2>1
<1>5. ASSUME NEW n \in Nat, n \in T PROVE n + 1 \in T
  <2>1. SUFFICES ASSUME m + (n + 1) <= Len(b)
                 PROVE  \E u \in Seq(Bytes) : F(m + (n + 1)) = F(m) \o u
    OBVIOUS
  <2>2. PICK u \in Seq(Bytes) : F(m + n) = F(m) \o u
    BY <1>5, <2>1
  <2>3. m + n \in 0..Len(b) /\ m + n < Len(b) /\ m + (n + 1) = (m + n) + 1 /\ m \in 0..Len(b)
    BY <2>1
  <2> DEFINE e == b[(m + n) + 1].bytes
  <2>4. F((m + n) + 1) = F(m + n) \o e /\ e \in Seq(Bytes)
    BY <1>3, <2>3
  <2>5. F(m) \in Seq(Bytes)
    BY <1>2, <2>3
  <2> HIDE DEF e
  <2>6. (F(m) \o u) \o e = F(m) \o (u \o e) /\ u \o e \in Seq(Bytes)
    <3>1. (F(m) \o u) \o e = F(m) \o (u \o e)
      <4> DEFINE x == F(m)
      <4>1. x \in Seq(Bytes) /\ u \in Seq(Bytes) /\ e \in Seq(Bytes)
        BY <2>2, <2>4, <2>5
      <4> HIDE DEF x
      <4>2. (x \o u) \o e = x \o (u \o e)
        BY <4>1, BytesAssociative, Zenon
      <4> QED
        BY <4>2 DEF x
    <3>2. u \o e \in Seq(Bytes)
      BY <2>4, ConcatProperties, Zenon
    <3> QED
      BY <3>1, <3>2
  <2>7. F(m + (n + 1)) = F(m) \o (u \o e)
    BY <2>2, <2>3, <2>4, <2>6, Zenon
  <2> QED
    BY <2>6, <2>7
<1>6. \A n \in Nat : n \in T
  <2> HIDE DEF T
  <2> QED
    BY <1>4, <1>5, NatSetInduction
<1>7. PICK u \in Seq(Bytes) : F(Len(b)) = F(m) \o u
  <2>1. Len(b) - m \in Nat /\ m + (Len(b) - m) = Len(b) /\ Len(b) <= Len(b)
    OBVIOUS
  <2>2. Len(b) - m \in T
    BY <1>6, <2>1
  <2> QED
    BY <2>1, <2>2
<1>8. F(Len(b)) = BytesOf(b)
  BY SubSeqFull DEF F
<1>9. IsPrefix(F(m), F(m) \o u)
  <2> DEFINE x == F(m)
  <2>1. x \in Seq(Bytes)
    BY <1>2
  <2> HIDE DEF x
  <2>2. /\ x \o u \in Seq(Bytes) /\ Len(x \o u) = Len(x) + Len(u)
        /\ Len(x) \in Nat /\ Len(u) \in Nat
    BY <2>1, ConcatProperties
  <2>3. SubSeq(x, 1, Len(x)) = x
    BY <2>1, SubSeqFull
  <2>4. SubSeq(x \o u, 1, Len(x)) = x
    <3>1. /\ SubSeq(x \o u, 1, Len(x)) \in Seq(Bytes) /\ Len(SubSeq(x \o u, 1, Len(x))) = Len(x)
          /\ \A i \in 1..Len(x) : SubSeq(x \o u, 1, Len(x))[i] = x[i]
      BY <2>1, <2>2
    <3> QED
      BY <2>1, <3>1, SeqEqual
  <2>5. Len(x) <= Len(x \o u)
    BY <2>2
  <2>6. IsPrefix(x, x \o u)
    BY <2>3, <2>4, <2>5 DEF IsPrefix
  <2> QED
    BY <2>6 DEF x
<1> QED
  BY <1>7, <1>8, <1>9, Zenon DEF F

----------------------------------------------------------------------------
(* Reading a wire. *)

NoBlank(w) == \A i \in 1..Len(w) : w[i] # BlankLine

\* A wire with one blank line is split there.
LEMMA SplitAtBlank ==
  ASSUME NEW h \in Seq(Token), NEW b \in Seq(Token), NoBlank(h), NoBlank(b)
  PROVE  LET w == (h \o <<BlankLine>>) \o b
         IN  /\ Len(h) + 1 \in 1..Len(w) /\ Blanks(w) = {Len(h) + 1}
             /\ HeadOf(w) = h /\ BodyOf(w) = b
<1> DEFINE v == h \o <<BlankLine>>
           w == v \o b
<1>1. BlankLine \in Token /\ Len(h) \in Nat /\ Len(b) \in Nat
  BY TokenTypes
<1>2. /\ v \in Seq(Token) /\ Len(v) = Len(h) + 1 /\ v[Len(h) + 1] = BlankLine
      /\ \A i \in 1..Len(h) : v[i] = h[i]
  BY <1>1, OneMore
<1> HIDE DEF v
<1>3. /\ w \in Seq(Token) /\ Len(w) = Len(v) + Len(b)
      /\ \A i \in 1..(Len(v) + Len(b)) :
            w[i] = IF i <= Len(v) THEN v[i] ELSE b[i - Len(v)]
  BY <1>2, ConcatProperties
<1> HIDE DEF w
<1>4. /\ \A i \in 1..Len(h) : w[i] = h[i]
      /\ w[Len(h) + 1] = BlankLine
      /\ \A i \in 1..Len(b) : w[Len(h) + 1 + i] = b[i]
      /\ Len(w) = Len(h) + 1 + Len(b)
  BY <1>1, <1>2, <1>3
<1>5. ASSUME NEW i \in 1..Len(w), i # Len(h) + 1 PROVE w[i] # BlankLine
  <2>1. CASE i \in 1..Len(h)
    BY <1>4, <2>1 DEF NoBlank
  <2>2. CASE i > Len(h) + 1
    <3>1. i - (Len(h) + 1) \in 1..Len(b) /\ i = Len(h) + 1 + (i - (Len(h) + 1))
      BY <1>1, <1>4, <2>2
    <3> QED
      BY <1>4, <3>1, Zenon DEF NoBlank
  <2> QED
    BY <1>1, <1>5, <2>1, <2>2
<1>6. Len(h) + 1 \in 1..Len(w) /\ Blanks(w) = {Len(h) + 1}
  BY <1>1, <1>4, <1>5 DEF Blanks
<1>7. Min(Blanks(w)) = Len(h) + 1
  <2>1. Len(h) + 1 <= Len(h) + 1
    BY <1>1
  <2> QED
    BY <1>6, <2>1, Zenon DEF Min
<1>8. SubSeq(w, 1, Len(h) + 1 - 1) = h
  <2> DEFINE x == SubSeq(w, 1, Len(h))
  <2>1. x \in Seq(Token) /\ Len(x) = Len(h) /\ \A i \in 1..Len(x) : x[i] = h[i]
    BY <1>1, <1>3, <1>4
  <2> HIDE DEF x
  <2>2. x = h
    BY <2>1, SeqEqual
  <2> QED
    BY <1>1, <2>2 DEF x
<1>9. SubSeq(w, Len(h) + 1 + 1, Len(w)) = b
  <2> DEFINE m == Len(h) + 1 + 1
             n == Len(w)
             x == SubSeq(w, m, n)
  <2>1. m \in Int /\ n \in Int /\ n - m + 1 = Len(b) /\ n \in Nat
        /\ \A i \in 1..Len(b) : m + i - 1 = Len(h) + 1 + i
    BY <1>1, <1>4
  <2>2. \A i \in m..n : w[i] \in Token
    BY <1>1, <1>3
  <2> HIDE DEF m, n
  <2>3. /\ x \in Seq(Token) /\ Len(x) = (IF m <= n THEN n - m + 1 ELSE 0)
        /\ \A i \in 1..(n - m + 1) : x[i] = w[m + i - 1]
    BY <2>1, <2>2, SubSeqProperties
  <2> HIDE DEF x
  <2>4. Len(x) = Len(b)
    BY <1>1, <2>1, <2>3
  <2>5. \A i \in 1..Len(b) : x[i] = b[i]
    BY <1>4, <2>1, <2>3
  <2>6. x = b
    BY <2>3, <2>4, <2>5, SeqEqual
  <2> QED
    BY <2>6 DEF x, m, n
<1> QED
  BY <1>6, <1>7, <1>8, <1>9 DEF HeadOf, BodyOf, w, v

\* The head of a message grows by its headers and a length, and holds no blank line.
LEMMA HeadGrows ==
  ASSUME NEW s \in Statuses, NEW hs \in Seq(Headers)
  PROVE  /\ HeadLines(s, hs, <<>>) \in Seq(Token) /\ NoBlank(HeadLines(s, hs, <<>>))
         /\ \A h \in Headers : HeadLines(s, Append(hs, h), <<>>)
                                 = HeadLines(s, hs, <<>>) \o <<HeaderLine(h)>>
         /\ \A n \in Nat : /\ HeadLines(s, hs, <<ContentLength(n)>>)
                                = HeadLines(s, hs, <<>>) \o <<ContentLength(n)>>
                           /\ HeadLines(s, hs, <<ContentLength(n)>>) \in Seq(Token)
                           /\ NoBlank(HeadLines(s, hs, <<ContentLength(n)>>))
<1> DEFINE L(g) == [i \in 1..Len(g) |-> HeaderLine(g[i])]
           H == <<StartLine(s)>> \o L(hs)
<1>1. StartLine(s) \in Token /\ StartLine(s) # BlankLine
  BY TokenTypes DEF StartLine, BlankLine
<1>2. ASSUME NEW g \in Seq(Headers)
      PROVE  /\ L(g) \in Seq(Token) /\ Len(L(g)) = Len(g)
             /\ \A i \in 1..Len(g) : L(g)[i] = HeaderLine(g[i])
  <2>1. \A i \in 1..Len(g) : HeaderLine(g[i]) \in Token
    BY TokenTypes
  <2> QED
    BY <2>1
<1>3. \A h : HeaderLine(h) # BlankLine
  BY DEF HeaderLine, BlankLine
<1>4. \A n : ContentLength(n) # BlankLine
  BY DEF ContentLength, BlankLine
<1>5. ASSUME NEW g \in Seq(Headers)
      PROVE  /\ <<StartLine(s)>> \o L(g) \in Seq(Token)
             /\ HeadLines(s, g, <<>>) = <<StartLine(s)>> \o L(g)
  <2>1. <<StartLine(s)>> \in Seq(Token)
    BY <1>1
  <2>2. <<StartLine(s)>> \o L(g) \in Seq(Token)
    BY <1>2, <2>1, ConcatProperties
  <2>3. (<<StartLine(s)>> \o L(g)) \o <<>> = <<StartLine(s)>> \o L(g)
    BY <2>2, ConcatEmptySeq
  <2> QED
    BY <2>2, <2>3 DEF HeadLines
<1>6. NoBlank(H)
  <2>1. L(hs) \in Seq(Token) /\ Len(L(hs)) = Len(hs) /\ \A i \in 1..Len(hs) : L(hs)[i] # BlankLine
    BY <1>2, <1>3
  <2> DEFINE l == L(hs)
             t == StartLine(s)
  <2>2. l \in Seq(Token) /\ t \in Token /\ t # BlankLine /\ \A i \in 1..Len(l) : l[i] # BlankLine
    BY <1>1, <2>1
  <2> HIDE DEF l, t
  <2>3. NoBlank(<<t>> \o l)
    BY <2>2 DEF NoBlank
  <2> QED
    BY <2>3 DEF l, t
<1>7. ASSUME NEW h \in Headers
      PROVE  HeadLines(s, Append(hs, h), <<>>) = HeadLines(s, hs, <<>>) \o <<HeaderLine(h)>>
  <2> DEFINE g == Append(hs, h)
  <2>1. /\ g \in Seq(Headers) /\ Len(g) = Len(hs) + 1 /\ g[Len(hs) + 1] = h
        /\ Len(hs) \in Nat /\ \A i \in 1..Len(hs) : g[i] = hs[i]
    BY AppendProperties
  <2>2. HeaderLine(h) \in Token
    BY TokenTypes
  <2> HIDE DEF g
  <2>3. L(g) = L(hs) \o <<HeaderLine(h)>>
    <3> DEFINE a == L(g)
               l == L(hs)
               t == HeaderLine(h)
               c == l \o <<t>>
    <3>1. /\ a \in Seq(Token) /\ Len(a) = Len(hs) + 1 /\ a[Len(hs) + 1] = t
          /\ \A i \in 1..Len(hs) : a[i] = HeaderLine(hs[i])
      BY <1>2, <2>1
    <3>2. /\ l \in Seq(Token) /\ Len(l) = Len(hs) /\ t \in Token
          /\ \A i \in 1..Len(hs) : l[i] = HeaderLine(hs[i])
      BY <1>2, <2>2
    <3> HIDE DEF a, l, t
    <3>3. /\ c \in Seq(Token) /\ Len(c) = Len(l) + 1 /\ c[Len(l) + 1] = t
          /\ \A i \in 1..Len(l) : c[i] = l[i]
      BY <3>2, OneMore
    <3> HIDE DEF c
    <3>4. Len(a) = Len(c) /\ \A i \in 1..Len(a) : a[i] = c[i]
      BY <2>1, <3>1, <3>2, <3>3
    <3>5. a = c
      BY <3>1, <3>3, <3>4, SeqEqual
    <3> QED
      BY <3>5 DEF a, l, t, c
  <2>4. <<StartLine(s)>> \o (L(hs) \o <<HeaderLine(h)>>) = H \o <<HeaderLine(h)>>
    <3>1. <<StartLine(s)>> \in Seq(Token) /\ L(hs) \in Seq(Token) /\ <<HeaderLine(h)>> \in Seq(Token)
      BY <1>1, <1>2, <2>2
    <3> HIDE DEF L
    <3> QED
      BY <3>1, ConcatAssociative
  <2> HIDE DEF L
  <2> QED
    BY <1>5, <2>1, <2>3, <2>4 DEF g
<1>8. ASSUME NEW n \in Nat
      PROVE  /\ HeadLines(s, hs, <<ContentLength(n)>>)
                  = HeadLines(s, hs, <<>>) \o <<ContentLength(n)>>
             /\ HeadLines(s, hs, <<ContentLength(n)>>) \in Seq(Token)
             /\ NoBlank(HeadLines(s, hs, <<ContentLength(n)>>))
  <2> DEFINE t == ContentLength(n)
  <2>1. t \in Token /\ t # BlankLine
    BY <1>4, TokenTypes
  <2>2. HeadLines(s, hs, <<t>>) = H \o <<t>> /\ HeadLines(s, hs, <<>>) = H /\ H \in Seq(Token)
    BY <1>5 DEF HeadLines
  <2> HIDE DEF H, t
  <2>3. H \o <<t>> \in Seq(Token) /\ NoBlank(H \o <<t>>)
    BY <1>6, <2>1, <2>2, OneMore DEF NoBlank
  <2> QED
    BY <2>2, <2>3 DEF t
<1> QED
  BY <1>5, <1>6, <1>7, <1>8

\* The framing a recipient finds in a head.
Announced(hs) == \E i \in 1..Len(hs) : hs[i] \in CodingHeaders

LEMMA HeadSays ==
  ASSUME NEW s \in Statuses, NEW hs \in Seq(Headers), NEW n \in Nat
  PROVE  /\ SaysChunked(HeadLines(s, hs, <<>>)) <=> Announced(hs)
         /\ SaysChunked(HeadLines(s, hs, <<ContentLength(n)>>)) <=> Announced(hs)
         /\ SaysLength(HeadLines(s, hs, <<ContentLength(n)>>))
<1> DEFINE l == [i \in 1..Len(hs) |-> HeaderLine(hs[i])]
           t == StartLine(s)
           u == ContentLength(n)
           h == <<t>> \o l
           g == h \o <<u>>
<1>1. l \in Seq(Token) /\ Len(l) = Len(hs) /\ \A i \in 1..Len(hs) : l[i] = HeaderLine(hs[i])
  <2>1. \A i \in 1..Len(hs) : HeaderLine(hs[i]) \in Token
    BY TokenTypes
  <2> QED
    BY <2>1
<1>2. \A x : HeaderLine(x).kind = "header" /\ HeaderLine(x).header = x
  BY DEF HeaderLine
<1>3. t \in Token /\ t.kind # "header" /\ u \in Token /\ u.kind = "length"
  BY TokenTypes DEF StartLine, ContentLength
<1> HIDE DEF l, t, u
<1>4. /\ h \in Seq(Token) /\ Len(h) = Len(hs) + 1 /\ h[1] = t /\ Len(hs) \in Nat
      /\ \A i \in 1..Len(hs) : h[i + 1] = HeaderLine(hs[i])
  BY <1>1, <1>3
<1> HIDE DEF h
<1>5. /\ g \in Seq(Token) /\ Len(g) = Len(h) + 1 /\ g[Len(h) + 1] = u
      /\ \A i \in 1..Len(h) : g[i] = h[i]
  BY <1>3, <1>4, OneMore
<1> HIDE DEF g
<1>6. ASSUME NEW w, Len(w) \in {Len(h), Len(h) + 1}, \A i \in 1..Len(h) : w[i] = h[i],
             Len(w) = Len(h) + 1 => w[Len(h) + 1] = u
      PROVE  SaysChunked(w) <=> Announced(hs)
  <2>1. ASSUME Announced(hs) PROVE SaysChunked(w)
    <3>1. PICK i \in 1..Len(hs) : hs[i] \in CodingHeaders
      BY <2>1 DEF Announced
    <3>2. i + 1 \in 1..Len(h) /\ i + 1 \in 1..Len(w) /\ w[i + 1] = HeaderLine(hs[i])
      BY <1>4, <1>6
    <3> QED
      BY <1>2, <3>1, <3>2 DEF SaysChunked
  <2>2. ASSUME SaysChunked(w) PROVE Announced(hs)
    <3>1. PICK i \in 1..Len(w) : w[i].kind = "header" /\ w[i].header \in CodingHeaders
      BY <2>2 DEF SaysChunked
    <3>2. i # 1 /\ i # Len(h) + 1
      BY <1>3, <1>4, <1>6, <3>1
    <3>3. i - 1 \in 1..Len(hs) /\ (i - 1) + 1 = i /\ i \in 1..Len(h)
      BY <1>4, <1>6, <3>2
    <3>4. w[i] = HeaderLine(hs[i - 1])
      BY <1>4, <1>6, <3>3
    <3> QED
      BY <1>2, <3>1, <3>3, <3>4 DEF Announced
  <2> QED
    BY <2>1, <2>2
<1>7. HeadLines(s, hs, <<>>) = h /\ HeadLines(s, hs, <<u>>) = g
  <2>1. h \o <<>> = h
    BY <1>4, ConcatEmptySeq
  <2> QED
    BY <2>1 DEF HeadLines, h, g, l, t
<1>8. SaysChunked(h) <=> Announced(hs)
  BY <1>4, <1>6
<1>9. SaysChunked(g) <=> Announced(hs)
  BY <1>4, <1>5, <1>6
<1>10. SaysLength(g)
  BY <1>3, <1>4, <1>5 DEF SaysLength
<1> QED
  BY <1>7, <1>8, <1>9, <1>10 DEF u

\* Chunks behind a head that announces them, the last one empty, are read up to
\* the first empty one.
Chunks == [kind : {"chunk"}, bytes : Seq(Bytes)]

LEMMA ReadInChunks ==
  ASSUME NEW s \in Statuses, NEW hs \in Seq(Headers), NEW b \in Seq(Chunks), Announced(hs)
  PROVE  LET w == ((HeadLines(s, hs, <<>>) \o <<BlankLine>>) \o b) \o <<LastChunk>>
         IN  /\ \E k \in 1..Len(w) : Blanks(w) = {k}
             /\ HeadRead(w, hs, BytesOf(b)) /\ BodyRead(w, BytesOf(b))
             /\ FramingOf(w) # "close"
<1> DEFINE h == HeadLines(s, hs, <<>>)
           c == b \o <<LastChunk>>
           w == ((h \o <<BlankLine>>) \o b) \o <<LastChunk>>
           ends == {i \in 1..Len(c) : c[i] = LastChunk}
<1>1. LastChunk \in Chunks /\ LastChunk.bytes = <<>>
  BY EmptySeq DEF LastChunk, Chunk, Chunks
<1>2. /\ c \in Seq(Chunks) /\ Len(c) = Len(b) + 1 /\ c[Len(b) + 1] = LastChunk
      /\ Len(b) \in Nat
  BY <1>1, OneMore
<1>3. Chunks \subseteq BodyToken /\ Chunks \subseteq Token /\ BlankLine \notin Chunks
  BY DEF Chunks, BodyToken, Token, BlankLine
<1>4. h \in Seq(Token) /\ NoBlank(h) /\ SaysChunked(h)
  BY HeadGrows, HeadSays
<1> HIDE DEF c, h
<1>5. c \in Seq(Token) /\ c \in Seq(BodyToken) /\ b \in Seq(BodyToken) /\ b \in Seq(Token)
  BY <1>2, <1>3, SeqMonotonic
<1>6. NoBlank(c) /\ AllOf(c, "chunk")
  <2>1. \A i \in 1..Len(c) : c[i] \in Chunks
    BY <1>2, ElementOfSeq
  <2>2. NoBlank(c)
    BY <1>3, <2>1, Zenon DEF NoBlank
  <2> QED
    BY <2>1, <2>2 DEF AllOf, Chunks
<1>7. w = (h \o <<BlankLine>>) \o c
  <2>1. h \o <<BlankLine>> \in Seq(Token) /\ <<LastChunk>> \in Seq(Token)
    BY <1>4, TokenTypes, OneMore
  <2> DEFINE v == h \o <<BlankLine>>
  <2> HIDE DEF v
  <2>2. (v \o b) \o <<LastChunk>> = v \o (b \o <<LastChunk>>)
    BY <1>5, <2>1, ConcatAssociative DEF v
  <2> QED
    BY <2>2 DEF v, c
<1> HIDE DEF w
<1>8. /\ Len(h) + 1 \in 1..Len(w) /\ Blanks(w) = {Len(h) + 1}
      /\ HeadOf(w) = h /\ BodyOf(w) = c
  BY <1>4, <1>5, <1>6, <1>7, SplitAtBlank
<1>9. BytesOf(c) = BytesOf(b)
  <2>1. BytesOf(b) \in Seq(Bytes) /\ BytesOf(c) = BytesOf(b) \o LastChunk.bytes
    BY <1>1, <1>3, <1>5, BytesOfAppend DEF c
  <2> QED
    BY <1>1, <2>1, ConcatEmptySeq
<1>10. Len(c) \in ends
  BY <1>2
<1>11. Min(ends) \in 1..Len(c)
  <2>1. ends \subseteq Nat /\ ends # {}
    BY <1>10
  <2>2. \E m \in ends : \A k \in ends : m <= k
    <3> HIDE DEF ends
    <3> QED
      BY <2>1, LeastElement
  <2>3. Min(ends) \in ends
    BY <2>2, Zenon DEF Min
  <2> QED
    BY <2>3
<1>12. IsPrefix(BytesOf(SubSeq(c, 1, Min(ends))), BytesOf(c))
  BY <1>5, <1>11, BytesOfPrefix
<1>13. ends = {Len(c)} => BytesOf(SubSeq(c, 1, Min(ends))) = BytesOf(c)
  <2>1. Min({Len(c)}) = Len(c)
    <3>1. Len(c) <= Len(c)
      BY <1>2
    <3> QED
      BY <3>1, Zenon DEF Min
  <2>2. SubSeq(c, 1, Len(c)) = c
    BY <1>2, SubSeqFull
  <2> QED
    BY <2>1, <2>2, Zenon
<1>14. ChunksRead(w, BytesOf(b))
  BY <1>6, <1>8, <1>9, <1>10, <1>12, <1>13, Zenon DEF ChunksRead
<1>15. FramingOf(w) = "chunked"
  BY <1>4, <1>8 DEF FramingOf
<1>16. HeadRead(w, hs, BytesOf(b))
  BY <1>8, Zenon DEF HeadRead, h
<1> QED
  BY <1>8, <1>14, <1>15, <1>16 DEF w, h, BodyRead

\* Plain bytes behind a head that announces no chunks are read to the end.
Datas == [kind : {"data"}, bytes : Seq(Bytes)]

LEMMA ReadPlainly ==
  ASSUME NEW s \in Statuses, NEW hs \in Seq(Headers), NEW b \in Seq(Datas), ~Announced(hs),
         NEW length, length = <<>> \/ length = <<ContentLength(Len(BytesOf(b)))>>
  PROVE  LET w == (HeadLines(s, hs, length) \o <<BlankLine>>) \o b
         IN  /\ \E k \in 1..Len(w) : Blanks(w) = {k}
             /\ HeadRead(w, hs, BytesOf(b)) /\ BodyRead(w, BytesOf(b))
             /\ length # <<>> => FramingOf(w) # "close"
<1> DEFINE n == Len(BytesOf(b))
           h == HeadLines(s, hs, length)
           w == (h \o <<BlankLine>>) \o b
<1>0. Datas \subseteq BodyToken /\ b \in Seq(BodyToken) /\ n \in Nat
  <2>1. Datas \subseteq BodyToken /\ Data(<<>>) \in BodyToken
    BY EmptySeq DEF BodyToken, Data, Datas
  <2>2. b \in Seq(BodyToken)
    BY <2>1, SeqMonotonic
  <2>3. BytesOf(b) \in Seq(Bytes)
    BY <2>1, <2>2, BytesOfAppend
  <2> QED
    BY <2>1, <2>2, <2>3, LenProperties
<1>1. /\ h \in Seq(Token) /\ NoBlank(h) /\ ~SaysChunked(h)
      /\ length # <<>> => SaysLength(h)
  <2> HIDE DEF n
  <2>1. length = <<>> \/ length = <<ContentLength(n)>>
    BY DEF n
  <2> QED
    BY <1>0, <2>1, HeadGrows, HeadSays
<1>2. BodyToken \subseteq Token /\ BlankLine \notin BodyToken
  BY DEF BodyToken, Token, BlankLine
<1>3. b \in Seq(Token)
  BY <1>0, <1>2, SeqMonotonic
<1>4. NoBlank(b) /\ AllOf(b, "data")
  <2>1. \A i \in 1..Len(b) : b[i] \in Datas
    BY ElementOfSeq
  <2>2. NoBlank(b)
    BY <1>0, <1>2, <2>1, Zenon DEF NoBlank
  <2> QED
    BY <2>1, <2>2 DEF AllOf, Datas
<1> HIDE DEF h, n
<1>5. /\ Len(h) + 1 \in 1..Len(w) /\ Blanks(w) = {Len(h) + 1}
      /\ HeadOf(w) = h /\ BodyOf(w) = b
  BY <1>1, <1>3, <1>4, SplitAtBlank
<1> HIDE DEF w
<1>6. HeadRead(w, hs, BytesOf(b))
  BY <1>5, Zenon DEF HeadRead, h
<1>7. BodyRead(w, BytesOf(b)) /\ (length # <<>> => FramingOf(w) # "close")
  <2>1. FramingOf(w) # "chunked" /\ (length # <<>> => FramingOf(w) = "length")
    BY <1>1, <1>5 DEF FramingOf
  <2> QED
    BY <1>4, <1>5, <2>1 DEF BodyRead, PlainRead
<1> QED
  BY <1>5, <1>6, <1>7 DEF w, h

\* In particular without a length, up to the end of the connection.
LEMMA ReadToClose ==
  ASSUME NEW s \in Statuses, NEW hs \in Seq(Headers), NEW b \in Seq(Datas), ~Announced(hs)
  PROVE  LET w == (HeadLines(s, hs, <<>>) \o <<BlankLine>>) \o b
         IN  /\ \E k \in 1..Len(w) : Blanks(w) = {k}
             /\ HeadRead(w, hs, BytesOf(b)) /\ BodyRead(w, BytesOf(b))
<1>1. \A length : length = <<>> =>
        LET w == (HeadLines(s, hs, length) \o <<BlankLine>>) \o b
        IN  /\ \E k \in 1..Len(w) : Blanks(w) = {k}
            /\ HeadRead(w, hs, BytesOf(b)) /\ BodyRead(w, BytesOf(b))
  <2> TAKE length
  <2> HAVE length = <<>>
  <2>1. LET w == (HeadLines(s, hs, length) \o <<BlankLine>>) \o b
        IN  /\ \E k \in 1..Len(w) : Blanks(w) = {k}
            /\ HeadRead(w, hs, BytesOf(b)) /\ BodyRead(w, BytesOf(b))
            /\ length # <<>> => FramingOf(w) # "close"
    BY ReadPlainly
  <2> QED
    BY <2>1, Zenon
<1> QED
  BY <1>1, Zenon

\* A body grows by one token.
LEMMA BodyGrows ==
  ASSUME NEW K, K \subseteq BodyToken, NEW t \in K, NEW b \in Seq(K),
         NEW s \in Statuses, NEW hs \in Seq(Headers)
  PROVE  LET h == HeadLines(s, hs, <<>>) \o <<BlankLine>>
         IN  /\ h \in Seq(Token) /\ (h \o b) \o <<t>> = h \o (b \o <<t>>)
             /\ b \o <<t>> \in Seq(K) /\ BytesOf(b \o <<t>>) = BytesOf(b) \o t.bytes
<1> DEFINE h == HeadLines(s, hs, <<>>) \o <<BlankLine>>
<1>1. HeadLines(s, hs, <<>>) \in Seq(Token) /\ BlankLine \in Token /\ BodyToken \subseteq Token
  BY HeadGrows, TokenTypes DEF BodyToken, Token
<1>2. h \in Seq(Token)
  BY <1>1, OneMore
<1>3. /\ b \in Seq(BodyToken) /\ t \in BodyToken /\ b \in Seq(Token) /\ <<t>> \in Seq(Token)
  BY <1>1, SeqMonotonic
<1> HIDE DEF h
<1>4. (h \o b) \o <<t>> = h \o (b \o <<t>>)
  BY <1>2, <1>3, ConcatAssociative
<1>5. b \o <<t>> \in Seq(K)
  BY OneMore
<1>6. BytesOf(b \o <<t>>) = BytesOf(b) \o t.bytes
  BY <1>3, BytesOfAppend
<1> QED
  BY <1>2, <1>4, <1>5, <1>6 DEF h

----------------------------------------------------------------------------
(* The writer's calls. *)

\* What the wire holds before Done: the head as the recipient will find it and,
\* unless the body is buffered, the payload in tokens of one kind behind the
\* blank line.
OpenHead == \E s \in Statuses : wire = HeadLines(s, headers, <<>>)

OpenBody(K) ==
  \E s \in Statuses, b \in Seq(K) :
    wire = (HeadLines(s, headers, <<>>) \o <<BlankLine>>) \o b /\ BytesOf(b) = payload

OpenMessage ==
  /\ streamState = "START_LINE" => headers = <<>>
  /\ streamState = "HEADERS" => OpenHead
  /\ streamState = "BODY" /\ bodyType = "BUFFERING" => OpenHead /\ encoding # "chunked"
  /\ streamState = "BODY" /\ bodyType = "CHUNKED" => OpenBody(Chunks) /\ encoding = "chunked"
  /\ streamState = "BODY" /\ bodyType = "KNOWN_SIZE" => OpenBody(Datas) /\ contentSize # NoSize

RecipientInv ==
  /\ ~closed => OpenMessage
  /\ RecipientReadsPayload

LEMMA OpenedLines ==
  ASSUME WriterInv, OpenMessage, InHead
  PROVE  \E s \in Statuses : wire \o OpeningLine = HeadLines(s, headers, <<>>)
<1>1. CASE streamState = "START_LINE"
  <2>1. /\ wire = <<>> /\ headers = <<>> /\ OpeningLine = <<StartLine(status)>>
        /\ status \in Statuses
    BY <1>1 DEF WriterInv, WriterTypeOK, OpenMessage, OpeningLine
  <2>2. <<>> \o <<StartLine(status)>> = <<StartLine(status)>>
    BY <2>1, TokenTypes, ConcatEmptySeq
  <2>3. HeadLines(status, <<>>, <<>>) = <<StartLine(status)>>
    BY <2>1, TokenTypes DEF HeadLines
  <2> QED
    BY <2>1, <2>2, <2>3
<1>2. CASE streamState = "HEADERS"
  <2>1. wire \o OpeningLine = wire
    BY <1>2 DEF WriterInv, WriterTypeOK, OpeningLine
  <2> QED
    BY <1>2, <2>1 DEF OpenMessage, OpenHead
<1> QED
  BY <1>1, <1>2 DEF InHead

LEMMA SetStatusOpen ==
  ASSUME WriterInv, OpenMessage, ClientSetStatus
  PROVE  OpenMessage' /\ closed' = closed
BY DEF ClientSetStatus, SetStatus, Call, framing, history, OpenMessage, OpenHead, OpenBody

LEMMA WriteHeaderOpen ==
  ASSUME WriterInv, ~closed, OpenMessage, ClientWriteHeader
  PROVE  OpenMessage' /\ closed' = closed
<1>1. PICK h \in Headers : WriteHeader(h)
  BY DEF ClientWriteHeader
<1>2. closed' = closed
  BY DEF ClientWriteHeader, Call
<1>3. CASE InHead
  <2>1. /\ streamState' = "HEADERS" /\ headers' = Append(headers, h)
        /\ wire' = (wire \o OpeningLine) \o <<HeaderLine(h)>>
    BY <1>1, <1>3 DEF WriteHeader
  <2>2. PICK s \in Statuses : wire \o OpeningLine = HeadLines(s, headers, <<>>)
    BY <1>3, OpenedLines
  <2>3. headers \in Seq(Headers)
    BY DEF WriterInv, WriterTypeOK
  <2>4. wire' = HeadLines(s, headers', <<>>)
    BY <2>1, <2>2, <2>3, HeadGrows
  <2> QED
    BY <1>2, <2>1, <2>4 DEF OpenMessage, OpenHead
<1>4. CASE ~InHead
  <2>1. UNCHANGED <<contentSize, encoding, streamState, bodyType, wire, headers, payload>>
    BY <1>1, <1>4 DEF WriteHeader, framing, history
  <2> QED
    BY <1>2, <2>1 DEF OpenMessage, OpenHead, OpenBody
<1> QED
  BY <1>3, <1>4

LEMMA WritePayloadOpen ==
  ASSUME WriterInv, ~closed, OpenMessage, ClientWritePayload
  PROVE  OpenMessage' /\ closed' = closed
<1>1. PICK p \in Payloads : WritePayloadData(p)
  BY DEF ClientWritePayload
<1>2. closed' = closed
  BY DEF ClientWritePayload, Call
<1> DEFINE type == IF InHead THEN OutgoingBodyType ELSE bodyType
<1>3. /\ streamState' = "BODY" /\ bodyType' = type /\ encoding' = encoding
      /\ contentSize' = contentSize /\ payload' = payload \o p /\ headers' = headers
  BY <1>1 DEF WritePayloadData, framing
<1>4. /\ p \in Seq(Bytes) /\ Chunk(p) \in Chunks /\ Chunk(p).bytes = p
      /\ Data(p) \in Datas /\ Data(p).bytes = p
  BY WriterAssumption DEF Chunk, Chunks, Data, Datas
<1>5. /\ wire \in Seq(Token) /\ headers \in Seq(Headers) /\ payload \in Seq(Bytes)
      /\ encoding \in {"UNKNOWN", "chunked"} /\ streamState \in {"START_LINE", "HEADERS", "BODY"}
  BY DEF WriterInv, WriterTypeOK
<1>6. CASE type = "BUFFERING"
  <2>1. wire' = ((wire \o OpeningLine) \o <<>>) \o <<>>
    BY <1>1, <1>6 DEF WritePayloadData
  <2>2. CASE InHead
    <3>1. PICK s \in Statuses : wire \o OpeningLine = HeadLines(s, headers, <<>>)
      BY <2>2, OpenedLines
    <3>2. HeadLines(s, headers, <<>>) \in Seq(Token)
      BY <1>5, HeadGrows
    <3>3. wire' = HeadLines(s, headers, <<>>)
      BY <2>1, <3>1, <3>2, ConcatEmptySeq
    <3>4. encoding # "chunked"
      BY <1>6, <2>2 DEF OutgoingBodyType, BodyTypeFrom
    <3> QED
      BY <1>2, <1>3, <1>6, <3>3, <3>4 DEF OpenMessage, OpenHead
  <2>3. CASE ~InHead
    <3>1. wire' = wire /\ streamState = "BODY" /\ bodyType = "BUFFERING"
      BY <1>5, <1>6, <2>1, <2>3 DEF OpeningLine, InHead
    <3> QED
      BY <1>2, <1>3, <1>6, <3>1 DEF OpenMessage, OpenHead
  <2> QED
    BY <2>2, <2>3
<1>7. ASSUME NEW K, K \subseteq BodyToken, NEW t \in K, t.bytes = p,
             \/ type = "CHUNKED" /\ K = Chunks /\ t = Chunk(p)
             \/ type = "KNOWN_SIZE" /\ K = Datas /\ t = Data(p)
      PROVE  OpenBody(K)'
  <2>1. CASE InHead
    <3>1. PICK s \in Statuses : wire \o OpeningLine = HeadLines(s, headers, <<>>)
      BY <2>1, OpenedLines
    <3> DEFINE h == HeadLines(s, headers, <<>>) \o <<BlankLine>>
    <3>2. wire' = h \o <<t>>
      BY <1>1, <1>7, <2>1, <3>1 DEF WritePayloadData
    <3>3. <<>> \in Seq(K) /\ h \in Seq(Token) /\ BytesOf(<<>> \o <<t>>) = BytesOf(<<>>) \o t.bytes
      BY <1>5, <1>7, BodyGrows, EmptySeq
    <3> HIDE DEF h
    <3>4. <<>> \o <<t>> = <<t>> /\ <<t>> \in Seq(K) /\ <<>> \o p = p
      BY <1>4, <1>7, ConcatEmptySeq
    <3>5. BytesOf(<<t>>) = p
      BY <1>7, <3>3, <3>4, BytesOfEmpty, Zenon
    <3>6. payload' = p
      <4>1. payload = <<>>
        BY <2>1 DEF WriterInv, InHead
      <4> QED
        BY <1>3, <3>4, <4>1
    <3> QED
      BY <1>3, <3>2, <3>4, <3>5, <3>6 DEF OpenBody, h
  <2>2. CASE ~InHead
    <3>1. streamState = "BODY" /\ bodyType = type
      BY <1>5, <2>2 DEF InHead
    <3>2. PICK s \in Statuses, b \in Seq(K) :
            wire = (HeadLines(s, headers, <<>>) \o <<BlankLine>>) \o b /\ BytesOf(b) = payload
      BY <1>7, <3>1 DEF OpenMessage, OpenBody
    <3>3. wire' = wire \o <<t>>
      <4>1. wire' = ((wire \o <<>>) \o <<>>) \o <<t>>
        BY <1>1, <1>7, <2>2, <3>1 DEF WritePayloadData, OpeningLine, InHead
      <4> QED
        BY <1>5, <4>1, ConcatEmptySeq
    <3> DEFINE h == HeadLines(s, headers, <<>>) \o <<BlankLine>>
               c == b \o <<t>>
    <3>4. (h \o b) \o <<t>> = h \o c /\ c \in Seq(K) /\ BytesOf(c) = BytesOf(b) \o t.bytes
      <4>1. headers \in Seq(Headers) /\ K \subseteq BodyToken /\ t \in K
        BY <1>5, <1>7
      <4> QED
        BY <4>1, BodyGrows
    <3> HIDE DEF h, c
    <3>5. wire' = h \o c /\ BytesOf(c) = payload'
      BY <1>3, <1>7, <3>2, <3>3, <3>4, Zenon DEF h
    <3> QED
      BY <1>3, <3>4, <3>5 DEF OpenBody, h
  <2> QED
    BY <2>1, <2>2
<1>8. Chunks \subseteq BodyToken /\ Datas \subseteq BodyToken
  BY DEF Chunks, Datas, BodyToken
<1>9. CASE type = "CHUNKED"
  <2>1. encoding = "chunked"
    BY <1>5, <1>9 DEF OutgoingBodyType, BodyTypeFrom, OpenMessage, InHead
  <2>2. OpenBody(Chunks)'
    BY <1>4, <1>7, <1>8, <1>9, Zenon
  <2> QED
    BY <1>2, <1>3, <1>9, <2>1, <2>2 DEF OpenMessage
<1>10. CASE type = "KNOWN_SIZE"
  <2>1. contentSize # NoSize
    BY <1>5, <1>10 DEF OutgoingBodyType, BodyTypeFrom, OpenMessage, InHead
  <2>2. OpenBody(Datas)'
    BY <1>4, <1>7, <1>8, <1>10
  <2> QED
    BY <1>2, <1>3, <1>10, <2>1, <2>2 DEF OpenMessage
<1> QED
  BY <1>2, <1>3, <1>6, <1>9, <1>10 DEF OpenMessage

\* What is left to show of a closed message: its wire is one the recipient can read.
LEMMA ReadClosed ==
  ASSUME \E k \in 1..Len(wire') : Blanks(wire') = {k},
         HeadRead(wire', headers', payload'), BodyRead(wire', payload'),
         raised' = "none" => FramingOf(wire') # "close"
  PROVE  RecipientReadsPayload'
BY Zenon DEF RecipientReadsPayload

\* Done ends the message in a way the recipient understands.
LEMMA CloseReads ==
  ASSUME WriterInv, OpenMessage, ClientClose
  PROVE  closed' /\ RecipientReadsPayload'
<1>0. /\ closed' /\ ~closed /\ encoding' = encoding /\ headers' = headers
      /\ contentSize' = contentSize /\ payload' = payload
  BY Zenon DEF ClientClose, Close, Done, framing, history
<1>1. /\ wire \in Seq(Token) /\ headers \in Seq(Headers) /\ payload \in Seq(Bytes)
      /\ buffer \in Seq(Bytes) /\ BlankLine \in Token /\ LastChunk \in Token
      /\ <<>> \in Seq(Datas) /\ <<>> \in Seq(Chunks) /\ Len(<<>>) = 0 /\ 0 \in Nat
  BY TokenTypes, EmptySeq DEF WriterInv, WriterTypeOK
<1>2. InHead => payload = <<>>
  BY <1>0 DEF WriterInv, InHead
<1>9. SUFFICES ASSUME AnnouncedAsSet PROVE RecipientReadsPayload'
  BY <1>0 DEF RecipientReadsPayload, AnnouncedAsSet
<1>10. /\ encoding = "chunked" => contentSize = NoSize
       /\ encoding = "chunked" <=> Announced(headers)
  BY <1>9, Zenon DEF AnnouncedAsSet, Announced
<1>3. CASE DoneEmpty
  <2>1. PICK s \in Statuses : wire \o OpeningLine = HeadLines(s, headers, <<>>)
    BY <1>3, OpenedLines DEF DoneEmpty
  <2> DEFINE h == HeadLines(s, headers, <<>>)
             t == ContentLength(0)
  <2>2. h \in Seq(Token) /\ t \in Token /\ HeadLines(s, headers, <<t>>) = h \o <<t>>
    BY <1>1, HeadGrows, TokenTypes
  <2>3. wire' = h \o <<t, BlankLine>> /\ payload = <<>> /\ ~Announced(headers)
    BY <1>2, <1>3, <1>10, <2>1 DEF DoneEmpty
  <2> HIDE DEF h, t
  <2>4. wire' = (HeadLines(s, headers, <<t>>) \o <<BlankLine>>) \o <<>>
    <3>1. h \o <<t, BlankLine>> = (h \o <<t>>) \o <<BlankLine>>
      BY <1>1, <2>2, OneByOne
    <3>2. (h \o <<t>>) \o <<BlankLine>> \in Seq(Token)
      BY <1>1, <2>2, OneMore
    <3> QED
      BY <2>2, <2>3, <3>1, <3>2, ConcatEmptySeq
  <2>5. t = ContentLength(Len(BytesOf(<<>>))) /\ <<t>> # <<>>
    BY <1>1, BytesOfEmpty, Zenon DEF t
  <2>6. <<t>> = <<ContentLength(Len(BytesOf(<<>>)))>>
    BY <2>5, Zenon
  <2>7. LET w == (HeadLines(s, headers, <<t>>) \o <<BlankLine>>) \o <<>>
        IN  /\ \E k \in 1..Len(w) : Blanks(w) = {k}
            /\ HeadRead(w, headers, BytesOf(<<>>)) /\ BodyRead(w, BytesOf(<<>>))
            /\ <<t>> # <<>> => FramingOf(w) # "close"
    BY <1>1, <2>3, <2>6, ReadPlainly, Zenon
  <2> QED
    BY <1>0, <2>3, <2>4, <2>5, <2>7, BytesOfEmpty, ReadClosed, Zenon
<1>4. CASE DoneEmptyChunked
  <2>1. PICK s \in Statuses : wire \o OpeningLine = HeadLines(s, headers, <<>>)
    BY <1>4, OpenedLines DEF DoneEmptyChunked
  <2> DEFINE h == HeadLines(s, headers, <<>>)
  <2>2. h \in Seq(Token)
    BY <1>1, HeadGrows
  <2>3. wire' = h \o <<BlankLine, LastChunk>> /\ payload = <<>> /\ Announced(headers)
    BY <1>2, <1>4, <1>10, <2>1 DEF DoneEmptyChunked
  <2> HIDE DEF h
  <2>4. wire' = ((h \o <<BlankLine>>) \o <<>>) \o <<LastChunk>>
    <3>1. h \o <<BlankLine, LastChunk>> = (h \o <<BlankLine>>) \o <<LastChunk>>
      BY <1>1, <2>2, OneByOne
    <3>2. h \o <<BlankLine>> \in Seq(Token)
      BY <1>1, <2>2, OneMore
    <3>3. (h \o <<BlankLine>>) \o <<>> = h \o <<BlankLine>>
      BY <3>2, ConcatEmptySeq
    <3> QED
      BY <2>3, <3>1, <3>3
  <2>5. LET w == ((HeadLines(s, headers, <<>>) \o <<BlankLine>>) \o <<>>) \o <<LastChunk>>
        IN  /\ \E k \in 1..Len(w) : Blanks(w) = {k}
            /\ HeadRead(w, headers, BytesOf(<<>>)) /\ BodyRead(w, BytesOf(<<>>))
            /\ FramingOf(w) # "close"
    BY <1>1, <2>3, ReadInChunks, Zenon
  <2> QED
    BY <1>0, <2>3, <2>4, <2>5, BytesOfEmpty, ReadClosed, Zenon DEF h
<1>5. CASE DoneAbandoned
  <2>1. PICK s \in Statuses : wire \o OpeningLine = HeadLines(s, headers, <<>>)
    BY <1>5, OpenedLines DEF DoneAbandoned
  <2> DEFINE h == HeadLines(s, headers, <<>>)
  <2>2. h \o <<BlankLine>> \in Seq(Token)
    BY <1>1, HeadGrows, OneMore
  <2>3. wire' = (h \o <<BlankLine>>) \o <<>> /\ payload = <<>> /\ ~Announced(headers)
        /\ raised' # "none"
    BY <1>2, <1>5, <1>10, <2>1, <2>2, ConcatEmptySeq DEF DoneAbandoned, Raise
  <2>4. LET w == (HeadLines(s, headers, <<>>) \o <<BlankLine>>) \o <<>>
        IN  /\ \E k \in 1..Len(w) : Blanks(w) = {k}
            /\ HeadRead(w, headers, BytesOf(<<>>)) /\ BodyRead(w, BytesOf(<<>>))
    BY <1>1, <2>3, ReadToClose, Zenon
  <2> QED
    BY <1>0, <2>3, <2>4, BytesOfEmpty, ReadClosed, Zenon
<1>6. CASE DoneChunked
  <2>1. PICK s \in Statuses, b \in Seq(Chunks) :
          wire = (HeadLines(s, headers, <<>>) \o <<BlankLine>>) \o b /\ BytesOf(b) = payload
    BY <1>6 DEF DoneChunked, OpenMessage, OpenBody
  <2>2. wire' = wire \o <<LastChunk>> /\ Announced(headers)
    BY <1>1, <1>6, <1>10, AppendIsConcat DEF DoneChunked, OpenMessage
  <2>3. wire' = ((HeadLines(s, headers, <<>>) \o <<BlankLine>>) \o b) \o <<LastChunk>>
    BY <2>1, <2>2, Zenon
  <2>4. LET w == ((HeadLines(s, headers, <<>>) \o <<BlankLine>>) \o b) \o <<LastChunk>>
        IN  /\ \E k \in 1..Len(w) : Blanks(w) = {k}
            /\ HeadRead(w, headers, BytesOf(b)) /\ BodyRead(w, BytesOf(b))
            /\ FramingOf(w) # "close"
    BY <1>1, <2>1, <2>2, ReadInChunks
  <2> QED
    BY <1>0, <2>1, <2>3, <2>4, ReadClosed, Zenon
<1>7. CASE DoneBuffered
  <2>1. PICK s \in Statuses : wire = HeadLines(s, headers, <<>>)
    BY <1>7 DEF DoneBuffered, OpenMessage, OpenHead
  <2>2. /\ wire' = wire \o <<ContentLength(Len(buffer)), BlankLine, Data(buffer)>>
        /\ ~Announced(headers) /\ buffer = payload
    BY <1>0, <1>7, <1>10 DEF DoneBuffered, OpenMessage, WriterInv, Buffering
  <2> DEFINE d == Data(buffer)
             t == ContentLength(Len(buffer))
             q == <<d>>
  <2>3. d \in Token /\ t \in Token /\ d \in Datas /\ d.bytes = buffer
        /\ HeadLines(s, headers, <<t>>) = wire \o <<t>>
    <3>1. d \in Token /\ t \in Token /\ d \in Datas /\ d.bytes = buffer /\ Len(buffer) \in Nat
      BY <1>1, TokenTypes DEF Data, Datas
    <3> QED
      BY <1>1, <2>1, <3>1, HeadGrows, Zenon
  <2>4. BytesOf(q) = buffer /\ q \in Seq(Datas)
    <3>1. d \in Datas /\ d.bytes = buffer /\ d \in BodyToken /\ <<>> \in Seq(BodyToken)
      BY <2>3, EmptySeq DEF Datas, BodyToken
    <3> HIDE DEF d
    <3>2. BytesOf(<<>> \o <<d>>) = BytesOf(<<>>) \o d.bytes
      BY <3>1, BytesOfAppend
    <3>3. <<>> \o <<d>> = <<d>> /\ <<d>> \in Seq(Datas)
      BY <3>1, ConcatEmptySeq
    <3>4. <<>> \o buffer = buffer
      BY <1>1, ConcatEmptySeq
    <3> QED
      BY <3>1, <3>2, <3>3, <3>4, BytesOfEmpty, Zenon
  <2> HIDE DEF d
  <2>5. wire' = (HeadLines(s, headers, <<t>>) \o <<BlankLine>>) \o q
    <3> HIDE DEF t
    <3>1. wire \in Seq(Token) /\ t \in Token /\ BlankLine \in Token /\ d \in Token
      BY <1>1, <2>3
    <3>2. wire \o <<t, BlankLine, d>> = ((wire \o <<t>>) \o <<BlankLine>>) \o <<d>>
      BY <3>1, OneByOne, Zenon
    <3> QED
      BY <2>2, <2>3, <3>2, Zenon DEF t, d
  <2>6. <<t>> = <<ContentLength(Len(BytesOf(q)))>> /\ <<t>> # <<>>
    BY <2>4, Zenon
  <2> HIDE DEF q, t
  <2>7. LET w == (HeadLines(s, headers, <<t>>) \o <<BlankLine>>) \o q
        IN  /\ \E k \in 1..Len(w) : Blanks(w) = {k}
            /\ HeadRead(w, headers, BytesOf(q)) /\ BodyRead(w, BytesOf(q))
            /\ <<t>> # <<>> => FramingOf(w) # "close"
    BY <1>1, <2>2, <2>4, <2>6, ReadPlainly, Zenon
  <2> QED
    BY <1>0, <2>2, <2>4, <2>5, <2>6, <2>7, ReadClosed, Zenon
<1>8. CASE DoneKnownSize
  <2>1. PICK s \in Statuses, b \in Seq(Datas) :
          wire = (HeadLines(s, headers, <<>>) \o <<BlankLine>>) \o b /\ BytesOf(b) = payload
    BY <1>8 DEF DoneKnownSize, OpenMessage, OpenBody
  <2>2. wire' = wire /\ ~Announced(headers) /\ raised' # "none"
    BY <1>8, <1>10 DEF DoneKnownSize, OpenMessage, Raise
  <2>3. LET w == (HeadLines(s, headers, <<>>) \o <<BlankLine>>) \o b
        IN  /\ \E k \in 1..Len(w) : Blanks(w) = {k}
            /\ HeadRead(w, headers, BytesOf(b)) /\ BodyRead(w, BytesOf(b))
    BY <1>1, <2>1, <2>2, ReadToClose, Zenon
  <2> QED
    BY <1>0, <2>1, <2>2, <2>3, ReadClosed, Zenon
<1> QED
  BY <1>0, <1>3, <1>4, <1>5, <1>6, <1>7, <1>8 DEF ClientClose, Close, Done

LEMMA RecipientStep ==
  ASSUME WriterInv, RecipientInv, [WriterNext]_writerVars
  PROVE  RecipientInv'
<1>1. CASE ClientSetStatus \/ ClientWriteHeader \/ ClientWritePayload
  <2>1. ~closed /\ OpenMessage
    BY <1>1, Zenon DEF ClientSetStatus, ClientWriteHeader, ClientWritePayload, RecipientInv
  <2>2. OpenMessage' /\ closed' = closed
    BY <1>1, <2>1, SetStatusOpen, WriteHeaderOpen, WritePayloadOpen
  <2> QED
    BY <2>1, <2>2, Zenon DEF RecipientInv, RecipientReadsPayload
<1>2. CASE ClientClose
  <2>1. OpenMessage
    BY <1>2, Zenon DEF ClientClose, RecipientInv
  <2> QED
    BY <1>2, <2>1, CloseReads, Zenon DEF RecipientInv
<1>3. CASE UNCHANGED writerVars
  <2>1. UNCHANGED <<contentSize, encoding, streamState, bodyType, wire, raised, closed,
                    headers, payload>>
    BY <1>3 DEF writerVars
  <2> QED
    BY <2>1, Zenon DEF RecipientInv, RecipientReadsPayload, AnnouncedAsSet, OpenMessage,
                       OpenHead, OpenBody
<1> QED
  BY <1>1, <1>2, <1>3 DEF WriterNext

\* Whatever OMessageWriter closes is a message from whose wire alone a recipient
\* reads the headers and the payload, for any size and coding (the coding announced
\* by the client as it set it), calls in any order and blocks of any size.
THEOREM RecipientReads == WriterSpec => []RecipientReadsPayload
<1>1. WriterInit => RecipientInv
  BY DEF WriterInit, RecipientInv, OpenMessage, RecipientReadsPayload
<1>2. WriterInv /\ RecipientInv /\ [WriterNext]_writerVars => RecipientInv'
  BY RecipientStep
<1>3. RecipientInv => RecipientReadsPayload
  BY DEF RecipientInv
<1> QED
  BY <1>1, <1>2, <1>3, WriterInvariance, PTL DEF WriterSpec

=============================================================================
