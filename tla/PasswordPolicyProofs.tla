------------------------ MODULE PasswordPolicyProofs ------------------------
(***************************************************************************)
(* Proofs about PasswordPolicy, for any alphabet and encoding, any words   *)
(* and keyboard rows, any lengths and passwords of any length: the loops   *)
(* of the checks find what they look for.                                  *)
(***************************************************************************)
EXTENDS PasswordPolicy, WellFoundedInduction, SequenceTheorems, TLAPS

-----------------------------------------------------------------------------
(* Induction and recursion, stated with sets and functions.                *)

LEMMA SmallestNumber ==
  ASSUME NEW S \in SUBSET Nat, S # {}
  PROVE  \E n \in S : \A m \in S : n <= m
<1> DEFINE R == {p \in Nat \X Nat : p[1] < p[2]}
<1>1. PICK n \in S : \A m \in S : <<m, n>> \notin R
  <2>1. IsWellFoundedOn(R, Nat)
    BY NatLessThanWellFounded DEF OpToRel
  <2> HIDE DEF R
  <2> QED
    BY <2>1, WFMin
<1>2. ASSUME NEW m \in S PROVE n <= m
  <2>1. <<m, n>> \in Nat \X Nat /\ <<m, n>>[1] = m /\ <<m, n>>[2] = n
    OBVIOUS
  <2>2. ~(m < n)
    BY <1>1, <2>1
  <2> QED
    BY <2>2
<1> QED
  BY <1>2

LEMMA NumberInduction ==
  ASSUME NEW S \in SUBSET Nat, 0 \in S, \A n \in S : n + 1 \in S
  PROVE  S = Nat
<1> SUFFICES ASSUME S # Nat PROVE FALSE
  OBVIOUS
<1>1. PICK n \in Nat \ S : \A m \in Nat \ S : n <= m
  <2>1. Nat \ S \in SUBSET Nat /\ Nat \ S # {}
    OBVIOUS
  <2> QED
    BY <2>1, SmallestNumber
<1>2. n - 1 \in Nat /\ n - 1 \in S
  BY <1>1
<1> QED
  BY <1>1, <1>2

LEMMA MaxFacts ==
  ASSUME NEW n \in Nat, NEW S \in SUBSET (0 .. n), S # {}
  PROVE  Max(S) \in S /\ \A x \in S : x <= Max(S)
<1> DEFINE D == {n - x : x \in S}
<1>0. \A x \in S : x \in Nat /\ n - x \in Nat
  OBVIOUS
<1>1. D \in SUBSET Nat /\ D # {}
  BY <1>0
<1>2. PICK d \in D : \A e \in D : d <= e
  BY <1>1, SmallestNumber
<1>3. PICK m \in S : d = n - m
  BY <1>2
<1>4. ASSUME NEW x \in S PROVE m >= x
  <2>1. n - x \in D /\ x \in Nat /\ m \in Nat
    BY <1>0
  <2>2. n - m <= n - x
    BY <1>2, <1>3, <2>1
  <2> QED
    BY <2>1, <2>2
<1> QED
  BY <1>4 DEF Max

(* f builds its values from a, step by step with g.                        *)
Builds(f, n, S, a, g) ==
  /\ f \in [1 .. n -> S]
  /\ \A i \in 1 .. n : f[i] = IF i = 1 THEN a ELSE g[<<i, f[i - 1]>>]

LEMMA Recursion ==
  ASSUME NEW n \in Nat, NEW S, NEW a \in S, NEW g \in [(1 .. n) \X S -> S]
  PROVE  \E f : Builds(f, n, S, a, g)
<1> DEFINE N == {m \in Nat : m <= n => \E f : Builds(f, m, S, a, g)}
<1>1. 0 \in N
  <2>1. Builds([i \in 1 .. 0 |-> a], 0, S, a, g)
    BY DEF Builds
  <2> QED
    BY <2>1
<1>2. ASSUME NEW m \in N PROVE m + 1 \in N
  <2> SUFFICES ASSUME m + 1 <= n PROVE \E f : Builds(f, m + 1, S, a, g)
    OBVIOUS
  <2>1. PICK h : Builds(h, m, S, a, g)
    OBVIOUS
  <2> DEFINE f == [i \in 1 .. m + 1 |->
                     IF i <= m THEN h[i] ELSE IF i = 1 THEN a ELSE g[<<i, h[m]>>]]
  <2>2. ASSUME NEW i \in 1 .. m + 1
        PROVE  f[i] \in S /\ f[i] = IF i = 1 THEN a ELSE g[<<i, f[i - 1]>>]
    <3>1. CASE i <= m
      <4>1. i \in 1 .. m /\ (i # 1 => i - 1 \in 1 .. m + 1 /\ i - 1 <= m)
        BY <3>1
      <4> QED
        BY <2>1, <3>1, <4>1 DEF Builds
    <3>2. CASE i = m + 1 /\ i = 1
      BY <3>2
    <3>3. CASE i = m + 1 /\ i # 1
      <4>1. m \in 1 .. m /\ i \in 1 .. n /\ h[m] \in S
        BY <2>1, <3>3 DEF Builds
      <4>2. <<i, h[m]>> \in (1 .. n) \X S
        BY <4>1
      <4>3. f[i] = g[<<i, h[m]>>] /\ i - 1 = m /\ f[m] = h[m]
        BY <3>3, <4>1
      <4> QED
        BY <3>3, <4>2, <4>3
    <3> QED
      BY <3>1, <3>2, <3>3
  <2>3. f \in [1 .. m + 1 -> S]
    BY <2>2
  <2> HIDE DEF f
  <2>4. Builds(f, m + 1, S, a, g)
    BY <2>2, <2>3 DEF Builds
  <2> QED
    BY <2>4
<1>3. N = Nat
  <2> HIDE DEF N
  <2> QED
    <3>1. N \in SUBSET Nat
      BY DEF N
    <3> QED
      BY <1>1, <1>2, <3>1, NumberInduction
<1> QED
  BY <1>3

(* What a recursive function is equal to, it is all along.                 *)
LEMMA SameAlong ==
  ASSUME NEW n \in Nat, NEW f, NEW c,
         \A i \in 1 .. n : (i = 1 \/ c[i - 1] = f[i - 1]) => c[i] = f[i]
  PROVE  \A i \in 1 .. n : c[i] = f[i]
<1> DEFINE N == {i \in Nat : i \in 1 .. n => c[i] = f[i]}
<1>1. 0 \in N
  OBVIOUS
<1>2. ASSUME NEW i \in N PROVE i + 1 \in N
  <2>1. (i + 1) - 1 = i /\ (i + 1 \in 1 .. n => i + 1 = 1 \/ i \in 1 .. n)
    OBVIOUS
  <2> QED
    BY <2>1
<1>3. N = Nat
  <2>1. N \in SUBSET Nat
    OBVIOUS
  <2> HIDE DEF N
  <2> QED
    BY <1>1, <1>2, <2>1, NumberInduction
<1> QED
  BY <1>3

-----------------------------------------------------------------------------
(* From characters to bytes.                                               *)

Flattens(f, ss, S) ==
  /\ f \in [1 .. Len(ss) -> Seq(S)]
  /\ \A i \in 1 .. Len(ss) : f[i] = IF i = 1 THEN ss[i] ELSE f[i - 1] \o ss[i]

LEMMA Flattened ==
  ASSUME NEW S, NEW ss \in Seq(Seq(S)), Len(ss) # 0
  PROVE  \E f : Flattens(f, ss, S) /\ FlattenSeq(ss) = f[Len(ss)]
<1>0. Len(ss) \in Nat \ {0} /\ \A i \in 1 .. Len(ss) : ss[i] \in Seq(S)
  BY LenProperties, ElementOfSeq
<1> DEFINE n == Len(ss)
           g == [p \in (1 .. n) \X Seq(S) |-> p[2] \o ss[p[1]]]
           Rec(f) == f = [i \in 1 .. n |-> IF i = 1 THEN ss[i] ELSE f[i - 1] \o ss[i]]
<1>1. g \in [(1 .. n) \X Seq(S) -> Seq(S)]
  <2>1. ASSUME NEW p \in (1 .. n) \X Seq(S) PROVE p[2] \o ss[p[1]] \in Seq(S)
    BY <1>0, ConcatProperties
  <2> QED
    BY <2>1
<1>2. PICK h : Builds(h, n, Seq(S), ss[1], g)
  <2>1. n \in Nat /\ ss[1] \in Seq(S)
    BY <1>0
  <2> HIDE DEF g, n
  <2> QED
    BY <1>1, <2>1, Recursion
<1>3. ASSUME NEW i \in 1 .. n
      PROVE  h[i] = IF i = 1 THEN ss[i] ELSE h[i - 1] \o ss[i]
  <2>1. CASE i = 1
    BY <1>2, <2>1 DEF Builds
  <2>2. CASE i # 1
    <3>1. i - 1 \in 1 .. n /\ h[i - 1] \in Seq(S)
      <4>1. i - 1 \in 1 .. n
        BY <1>0, <2>2
      <4> HIDE DEF n
      <4> QED
        BY <1>2, <4>1 DEF Builds
    <3>2. <<i, h[i - 1]>> \in (1 .. n) \X Seq(S)
      BY <3>1
    <3>3. h[i] = g[<<i, h[i - 1]>>]
      BY <1>2, <2>2 DEF Builds
    <3> QED
      BY <2>2, <3>2, <3>3
  <2> QED
    BY <2>1, <2>2
<1>4. Rec(h)
  <2>1. h = [i \in 1 .. n |-> h[i]]
    BY <1>2 DEF Builds
  <2> QED
    BY <1>3, <2>1
<1> DEFINE c == CHOOSE f : Rec(f)
<1>5. Rec(c)
  <2> HIDE DEF Rec
  <2> QED
    BY <1>4
<1>6. FlattenSeq(ss) = c[n]
  BY <1>0 DEF FlattenSeq
<1> HIDE DEF c
<1>7. ASSUME NEW i \in 1 .. n
      PROVE  c[i] = IF i = 1 THEN ss[i] ELSE c[i - 1] \o ss[i]
  BY <1>5
<1>8. c[n] = h[n]
  <2>1. \A i \in 1 .. n : (i = 1 \/ c[i - 1] = h[i - 1]) => c[i] = h[i]
    BY <1>3, <1>7
  <2>2. n \in Nat /\ n \in 1 .. n
    BY <1>0
  <2> HIDE DEF n
  <2>3. \A i \in 1 .. n : c[i] = h[i]
    BY <2>1, <2>2, SameAlong
  <2> QED
    BY <2>2, <2>3
<1>9. Flattens(h, ss, S)
  BY <1>2, <1>3 DEF Builds, Flattens
<1> QED
  BY <1>6, <1>8, <1>9

LEMMA FlattenedOne ==
  ASSUME NEW S, NEW x \in Seq(S)
  PROVE  FlattenSeq(<<x>>) = x
<1>1. <<x>> \in Seq(Seq(S)) /\ Len(<<x>>) = 1 /\ <<x>>[1] = x
  OBVIOUS
<1>2. PICK f : Flattens(f, <<x>>, S) /\ FlattenSeq(<<x>>) = f[1]
  <2> DEFINE ss == <<x>>
  <2>1. ss \in Seq(Seq(S)) /\ Len(ss) = 1
    BY <1>1
  <2> HIDE DEF ss
  <2>2. \E f : Flattens(f, ss, S) /\ FlattenSeq(ss) = f[Len(ss)]
    <3>1. Len(ss) # 0
      BY <2>1
    <3> QED
      BY <2>1, <3>1, Flattened, Zenon
  <2> QED
    BY <2>1, <2>2 DEF ss
<1> QED
  BY <1>1, <1>2 DEF Flattens

(* As many bytes as characters at least, if each has a byte.               *)
LEMMA FlattenedType ==
  ASSUME NEW S, NEW ss \in Seq(Seq(S))
  PROVE  /\ FlattenSeq(ss) \in Seq(S)
         /\ (\A i \in 1 .. Len(ss) : ss[i] # <<>>) => Len(ss) <= Len(FlattenSeq(ss))
<1>1. CASE Len(ss) = 0
  <2>1. FlattenSeq(ss) = ss
    BY <1>1 DEF FlattenSeq
  <2>2. ss = <<>> /\ ss \in Seq(S) /\ Len(ss) <= Len(ss)
    BY <1>1, EmptySeq
  <2> QED
    BY <2>1, <2>2
<1>2. CASE Len(ss) # 0
  <2>1. PICK f : Flattens(f, ss, S) /\ FlattenSeq(ss) = f[Len(ss)]
    BY <1>2, Flattened
  <2>2. Len(ss) \in Nat \ {0} /\ \A i \in 1 .. Len(ss) : ss[i] \in Seq(S)
    BY <1>2, LenProperties, ElementOfSeq
  <2>3. FlattenSeq(ss) \in Seq(S)
    BY <2>1, <2>2 DEF Flattens
  <2>4. ASSUME \A i \in 1 .. Len(ss) : ss[i] # <<>>
        PROVE  Len(ss) <= Len(f[Len(ss)])
    <3> DEFINE N == {i \in Nat : i \in 1 .. Len(ss) => i <= Len(f[i])}
    <3>1. 0 \in N
      OBVIOUS
    <3>2. ASSUME NEW i \in N PROVE i + 1 \in N
      <4> SUFFICES ASSUME i + 1 \in 1 .. Len(ss) PROVE i + 1 <= Len(f[i + 1])
        OBVIOUS
      <4>1. ss[i + 1] \in Seq(S) /\ Len(ss[i + 1]) \in Nat \ {0}
        BY <2>2, <2>4, EmptySeq
      <4>2. CASE i = 0
        <5>1. i + 1 = 1 /\ 1 \in 1 .. Len(ss)
          BY <2>2, <4>2
        <5>2. f[1] = ss[1]
          BY <2>1, <5>1 DEF Flattens
        <5> QED
          BY <4>1, <5>1, <5>2
      <4>3. CASE i # 0
        <5>0. i \in 1 .. Len(ss) /\ (i + 1) - 1 = i /\ i + 1 # 1
          BY <2>2, <4>3
        <5>1. f[i] \in Seq(S) /\ i <= Len(f[i])
          BY <2>1, <5>0 DEF Flattens
        <5>2. f[i + 1] = f[i] \o ss[i + 1]
          BY <2>1, <5>0 DEF Flattens
        <5>3. Len(f[i + 1]) = Len(f[i]) + Len(ss[i + 1])
          BY <4>1, <5>1, <5>2, ConcatProperties
        <5>4. Len(f[i]) \in Nat
          BY <5>1, LenProperties
        <5> HIDE DEF N
        <5>5. \A a, c \in Nat, d \in Nat \ {0} : a <= c => a + 1 <= c + d
          OBVIOUS
        <5>6. i \in Nat
          BY <2>2, <5>0
        <5> QED
          BY <4>1, <5>1, <5>3, <5>4, <5>5, <5>6
      <4> QED
        BY <4>2, <4>3
    <3>3. N = Nat
      <4>1. N \in SUBSET Nat
        OBVIOUS
      <4> HIDE DEF N
      <4> QED
        BY <3>1, <3>2, <4>1, NumberInduction
    <3> QED
      BY <2>2, <3>3
  <2> QED
    BY <2>1, <2>3, <2>4
<1> QED
  BY <1>1, <1>2

LEMMA FlattenedAppend ==
  ASSUME NEW S, NEW ss \in Seq(Seq(S)), NEW x \in Seq(S)
  PROVE  FlattenSeq(Append(ss, x)) = FlattenSeq(ss) \o x
<1> DEFINE tt == Append(ss, x)
           n == Len(ss)
<1>0. /\ n \in Nat /\ tt \in Seq(Seq(S)) /\ Len(tt) = n + 1 /\ tt[n + 1] = x
      /\ \A i \in 1 .. n : tt[i] = ss[i]
  BY LenProperties
<1>1. CASE n = 0
  <2>1. ss = <<>> /\ FlattenSeq(ss) = <<>>
    BY <1>1, EmptySeq DEF FlattenSeq
  <2>2. tt = <<x>>
    BY <2>1
  <2> QED
    BY <2>1, <2>2, FlattenedOne, ConcatEmptySeq
<1>2. CASE n # 0
  <2> HIDE DEF tt
  <2>1. PICK f : Flattens(f, ss, S) /\ FlattenSeq(ss) = f[n]
    BY <1>2, Flattened
  <2>2. PICK h : Flattens(h, tt, S) /\ FlattenSeq(tt) = h[n + 1]
    BY <1>0, Flattened
  <2>3. ASSUME NEW i \in 1 .. n
        PROVE  (i = 1 \/ h[i - 1] = f[i - 1]) => h[i] = f[i]
    <3>1. i \in 1 .. n + 1 /\ tt[i] = ss[i]
      BY <1>0
    <3>2. h[i] = IF i = 1 THEN ss[i] ELSE h[i - 1] \o ss[i]
      BY <1>0, <2>2, <3>1 DEF Flattens
    <3>3. f[i] = IF i = 1 THEN ss[i] ELSE f[i - 1] \o ss[i]
      BY <2>1 DEF Flattens
    <3> QED
      BY <3>2, <3>3
  <2>4. h[n] = f[n]
    <3> HIDE DEF n
    <3>1. \A i \in 1 .. n : (i = 1 \/ h[i - 1] = f[i - 1]) => h[i] = f[i]
      BY <2>3
    <3>2. n \in Nat
      BY <1>0
    <3>3. \A i \in 1 .. n : h[i] = f[i]
      BY <3>1, <3>2, SameAlong
    <3> QED
      BY <1>0, <1>2, <3>3
  <2>5. h[n + 1] = h[n] \o x
    <3>1. n + 1 \in 1 .. Len(tt) /\ (n + 1) - 1 = n /\ n + 1 # 1
      BY <1>0, <1>2
    <3> HIDE DEF n
    <3>2. h[n + 1] = h[n] \o tt[n + 1]
      BY <2>2, <3>1 DEF Flattens
    <3> QED
      BY <1>0, <3>2
  <2> QED
    BY <2>1, <2>2, <2>4, <2>5 DEF tt
<1> QED
  BY <1>1, <1>2

-----------------------------------------------------------------------------
Encoded(s, code) == [i \in DOMAIN s |-> code[s[i]]]

LEMMA EncodedFacts ==
  ASSUME NEW s \in Seq(Char), NEW code,
         \A c \in Char : code[c] \in Seq(Byte) \ {<<>>}
  PROVE  /\ FlattenSeq(Encoded(s, code)) \in Seq(Byte)
         /\ Len(s) <= Len(FlattenSeq(Encoded(s, code)))
         /\ \A c \in Char :
              FlattenSeq(Encoded(Append(s, c), code)) = FlattenSeq(Encoded(s, code)) \o code[c]
<1> DEFINE ss == Encoded(s, code)
<1>1. /\ DOMAIN s = 1 .. Len(s) /\ Len(s) \in Nat
      /\ \A i \in 1 .. Len(s) : s[i] \in Char
  BY LenProperties, ElementOfSeq
<1>2. ss \in [1 .. Len(s) -> Seq(Byte) \ {<<>>}]
  BY <1>1 DEF Encoded
<1>3. ss \in Seq(Seq(Byte)) /\ Len(ss) = Len(s) /\ \A i \in 1 .. Len(ss) : ss[i] # <<>>
  <2>1. ss \in [1 .. Len(s) -> Seq(Byte)]
    BY <1>2
  <2> HIDE DEF ss
  <2>2. ss \in Seq(Seq(Byte))
    BY <1>1, <2>1, SeqDef
  <2>3. Len(ss) = Len(s)
    BY <1>1, <2>1, <2>2, LenProperties
  <2> QED
    BY <1>2, <2>2, <2>3
<1>4. FlattenSeq(ss) \in Seq(Byte) /\ Len(s) <= Len(FlattenSeq(ss))
  <2> HIDE DEF ss
  <2> QED
    BY <1>3, FlattenedType
<1>5. ASSUME NEW c \in Char PROVE Encoded(Append(s, c), code) = Append(ss, code[c])
  <2> DEFINE t == Append(s, c)
  <2>1. t \in Seq(Char) /\ Len(t) = Len(s) + 1 /\ DOMAIN t = 1 .. Len(s) + 1
        /\ t[Len(s) + 1] = c /\ \A i \in 1 .. Len(s) : t[i] = s[i]
    BY AppendProperties, LenProperties
  <2>2. Append(ss, code[c]) = [i \in 1 .. Len(s) + 1 |-> IF i <= Len(s) THEN ss[i] ELSE code[c]]
    <3>1. code[c] \in Seq(Byte)
      OBVIOUS
    <3> HIDE DEF ss
    <3>2. /\ Append(ss, code[c]) \in Seq(Seq(Byte)) /\ Len(Append(ss, code[c])) = Len(s) + 1
          /\ Append(ss, code[c])[Len(s) + 1] = code[c]
          /\ \A i \in 1 .. Len(s) : Append(ss, code[c])[i] = ss[i]
      BY <1>3, <3>1, AppendProperties
    <3>3. Append(ss, code[c]) = [i \in 1 .. Len(s) + 1 |-> Append(ss, code[c])[i]]
      BY <3>2, LenProperties
    <3> HIDE <1>1, <1>3
    <3> QED
      BY <1>1, <3>2, <3>3
  <2>3. Encoded(t, code) = [i \in 1 .. Len(s) + 1 |-> code[t[i]]]
    BY <2>1 DEF Encoded
  <2>4. \A i \in 1 .. Len(s) + 1 : code[t[i]] = IF i <= Len(s) THEN ss[i] ELSE code[c]
    BY <1>1, <2>1 DEF Encoded
  <2> HIDE DEF t, ss
  <2> QED
    BY <2>2, <2>3, <2>4 DEF t
<1>6. ASSUME NEW c \in Char
      PROVE  FlattenSeq(Append(ss, code[c])) = FlattenSeq(ss) \o code[c]
  <2>1. code[c] \in Seq(Byte)
    OBVIOUS
  <2> HIDE DEF ss
  <2> QED
    BY <1>3, <2>1, FlattenedAppend
<1> QED
  BY <1>4, <1>5, <1>6

LEMMA BytesFacts ==
  ASSUME NEW s \in Seq(Char)
  PROVE  /\ Bytes(s) \in Seq(Byte) /\ LowerBytes(s) \in Seq(Byte)
         /\ Len(s) <= Len(LowerBytes(s))
         /\ \A c \in Char :
              /\ Utf8[c] \in Seq(Byte) /\ Utf8[ToLower[c]] \in Seq(Byte)
              /\ Bytes(Append(s, c)) = Bytes(s) \o Utf8[c]
              /\ LowerBytes(Append(s, c)) = LowerBytes(s) \o Utf8[ToLower[c]]
<1> DEFINE lower == [c \in Char |-> Utf8[ToLower[c]]]
<1>1. /\ \A c \in Char : Utf8[c] \in Seq(Byte) \ {<<>>}
      /\ \A c \in Char : lower[c] \in Seq(Byte) \ {<<>>} /\ lower[c] = Utf8[ToLower[c]]
  BY CharAssumption
<1>2. ASSUME NEW t \in Seq(Char)
      PROVE  Bytes(t) = FlattenSeq(Encoded(t, Utf8)) /\ LowerBytes(t) = FlattenSeq(Encoded(t, lower))
  <2>1. \A i \in DOMAIN t : t[i] \in Char
    BY LenProperties, ElementOfSeq
  <2>2. [i \in DOMAIN t |-> Utf8[ToLower[t[i]]]] = [i \in DOMAIN t |-> lower[t[i]]]
    BY <2>1
  <2> QED
    BY <2>2 DEF Bytes, LowerBytes, Encoded
<1>3. \A c \in Char : Append(s, c) \in Seq(Char)
  BY AppendProperties
<1> HIDE DEF lower
<1>4. /\ FlattenSeq(Encoded(s, Utf8)) \in Seq(Byte)
      /\ \A c \in Char :
           FlattenSeq(Encoded(Append(s, c), Utf8)) = FlattenSeq(Encoded(s, Utf8)) \o Utf8[c]
  BY <1>1, EncodedFacts
<1>5. /\ FlattenSeq(Encoded(s, lower)) \in Seq(Byte)
      /\ Len(s) <= Len(FlattenSeq(Encoded(s, lower)))
      /\ \A c \in Char :
           FlattenSeq(Encoded(Append(s, c), lower)) = FlattenSeq(Encoded(s, lower)) \o lower[c]
  BY <1>1, EncodedFacts
<1> QED
  BY <1>1, <1>2, <1>3, <1>4, <1>5

-----------------------------------------------------------------------------
(* The sequences.                                                          *)

(* The n bytes of b from i on follow an order.                             *)
Follows(b, i, n, order) ==
  \A j \in 1 .. n - 1 : <<b[i + j - 1], b[i + j]>> \in order

LEMMA RunsRecursion ==
  ASSUME NEW b \in Seq(Byte), NEW order
  PROVE  \A i \in 1 .. Len(b) :
           /\ Runs(b, order)[i] \in Nat
           /\ Runs(b, order)[i] =
                IF i > 1 /\ <<b[i - 1], b[i]>> \in order THEN Runs(b, order)[i - 1] + 1 ELSE 1
<1> DEFINE n == Len(b)
           g == [p \in (1 .. n) \X Nat |->
                   IF <<b[p[1] - 1], b[p[1]]>> \in order THEN p[2] + 1 ELSE 1]
           Rec(f) == f = [i \in 1 .. n |->
                            IF i > 1 /\ <<b[i - 1], b[i]>> \in order THEN f[i - 1] + 1 ELSE 1]
           c == CHOOSE f : Rec(f)
<1>0. n \in Nat
  BY LenProperties
<1>1. g \in [(1 .. n) \X Nat -> Nat]
  OBVIOUS
<1>2. PICK h : Builds(h, n, Nat, 1, g)
  <2> HIDE DEF g, n
  <2> QED
    BY <1>0, <1>1, Recursion
<1>3. ASSUME NEW i \in 1 .. n
      PROVE  /\ h[i] \in Nat
             /\ h[i] = IF i > 1 /\ <<b[i - 1], b[i]>> \in order THEN h[i - 1] + 1 ELSE 1
  <2>1. CASE i = 1
    <3>1. h[i] = 1
      BY <1>2, <2>1, Zenon DEF Builds
    <3>2. ~(i > 1) /\ 1 \in Nat
      BY <2>1
    <3> HIDE DEF g, n
    <3> QED
      BY <3>1, <3>2, Zenon
  <2>2. CASE i # 1
    <3>1. i - 1 \in 1 .. n /\ i > 1
      BY <1>0, <2>2
    <3>2. h[i - 1] \in Nat /\ h[i] = g[<<i, h[i - 1]>>]
      <4> HIDE DEF n, g
      <4> QED
        BY <1>2, <2>2, <3>1 DEF Builds
    <3>3. <<i, h[i - 1]>> \in (1 .. n) \X Nat
      BY <3>2
    <3>4. g[<<i, h[i - 1]>>] = IF <<b[i - 1], b[i]>> \in order THEN h[i - 1] + 1 ELSE 1
      BY <3>3
    <3> HIDE DEF g
    <3>5. h[i] \in Nat
      BY <3>2, <3>4
    <3>6. CASE <<b[i - 1], b[i]>> \in order
      BY <3>1, <3>2, <3>4, <3>5, <3>6, Zenon
    <3>7. CASE <<b[i - 1], b[i]>> \notin order
      BY <3>1, <3>2, <3>4, <3>5, <3>7, Zenon
    <3> QED
      BY <3>6, <3>7
  <2> QED
    BY <2>1, <2>2
<1>4. Rec(h)
  <2>1. h = [i \in 1 .. n |-> h[i]]
    BY <1>2 DEF Builds
  <2> QED
    BY <1>3, <2>1
<1>5. Rec(c)
  <2> HIDE DEF Rec
  <2> QED
    BY <1>4
<1>6. Runs(b, order) = c
  BY DEF Runs
<1> HIDE DEF c
<1>7. ASSUME NEW i \in 1 .. n
      PROVE  c[i] = IF i > 1 /\ <<b[i - 1], b[i]>> \in order THEN c[i - 1] + 1 ELSE 1
  BY <1>5
<1>8. \A i \in 1 .. n : c[i] = h[i]
  <2>1. ASSUME NEW i \in 1 .. n, i = 1 \/ c[i - 1] = h[i - 1] PROVE c[i] = h[i]
    <3>1. CASE i > 1 /\ <<b[i - 1], b[i]>> \in order
      <4>1. c[i - 1] = h[i - 1]
        BY <2>1, <3>1
      <4> QED
        BY <1>3, <1>7, <3>1, <4>1, Zenon
    <3>2. CASE ~(i > 1 /\ <<b[i - 1], b[i]>> \in order)
      BY <1>3, <1>7, <3>2, Zenon
    <3> QED
      BY <3>1, <3>2
  <2> HIDE DEF n
  <2> QED
    BY <1>0, <2>1, SameAlong
<1>9. \A i \in 1 .. n : c[i] \in Nat
  BY <1>3, <1>8
<1> QED
  BY <1>6, <1>7, <1>9

(* A run of n bytes ends at i when the n bytes up to i follow the order.   *)
LEMMA RunsFollow ==
  ASSUME NEW b \in Seq(Byte), NEW order, NEW i \in 1 .. Len(b)
  PROVE  \A n \in Nat \ {0} :
           Runs(b, order)[i] >= n <=> n <= i /\ Follows(b, i - n + 1, n, order)
<1>0. Len(b) \in Nat
  BY LenProperties
<1> DEFINE run == Runs(b, order)
           Claim(m) == \A n \in Nat \ {0} :
                         run[m] >= n <=> n <= m /\ Follows(b, m - n + 1, n, order)
           N == {m \in Nat : m \in 1 .. Len(b) => Claim(m)}
<1>1. 0 \in N
  OBVIOUS
<1>2. ASSUME NEW m \in N PROVE m + 1 \in N
  <2> SUFFICES ASSUME m + 1 \in 1 .. Len(b), NEW n \in Nat \ {0}
               PROVE  run[m + 1] >= n <=> n <= m + 1 /\ Follows(b, m + 1 - n + 1, n, order)
    OBVIOUS
  <2>0. m \in Nat /\ (m + 1) - 1 = m
    OBVIOUS
  <2>1. run[m + 1] = IF m + 1 > 1 /\ <<b[m], b[m + 1]>> \in order THEN run[m] + 1 ELSE 1
    <3>1. \A k \in 1 .. Len(b) :
            /\ run[k] \in Nat
            /\ run[k] = IF k > 1 /\ <<b[k - 1], b[k]>> \in order THEN run[k - 1] + 1 ELSE 1
      BY RunsRecursion
    <3> HIDE DEF run
    <3>2. run[m + 1] = IF m + 1 > 1 /\ <<b[(m + 1) - 1], b[m + 1]>> \in order
                         THEN run[(m + 1) - 1] + 1 ELSE 1
      BY <3>1, Zenon
    <3> QED
      BY <2>0, <3>2, Zenon
  <2>2. CASE n = 1
    <3>1. run[m + 1] >= 1
      <4>1. m + 1 > 1 => run[m] \in Nat
        <5>1. m + 1 > 1 => m \in 1 .. Len(b)
          BY <1>0, <2>0
        <5>2. \A k \in 1 .. Len(b) : run[k] \in Nat
          BY RunsRecursion
        <5> QED
          BY <5>1, <5>2, Zenon
      <4> HIDE DEF run
      <4> QED
        BY <2>0, <2>1, <4>1
    <3>2. Follows(b, m + 1 - n + 1, n, order)
      BY <2>2 DEF Follows
    <3> HIDE DEF run
    <3> QED
      BY <2>0, <2>2, <3>1, <3>2
  <2>3. CASE n # 1 /\ ~(m + 1 > 1 /\ <<b[m], b[m + 1]>> \in order)
    <3>1. ~(run[m + 1] >= n)
      <4> HIDE DEF run
      <4> QED
        BY <2>1, <2>3
    <3>2. ~(n <= m + 1 /\ Follows(b, m + 1 - n + 1, n, order))
      <4> SUFFICES ASSUME n <= m + 1, Follows(b, m + 1 - n + 1, n, order) PROVE FALSE
        OBVIOUS
      <4>1. n - 1 \in 1 .. n - 1 /\ (m + 1 - n + 1) + (n - 1) - 1 = m
            /\ (m + 1 - n + 1) + (n - 1) = m + 1
        BY <2>0, <2>3
      <4>2. <<b[m], b[m + 1]>> \in order
        BY <4>1 DEF Follows
      <4> QED
        BY <2>0, <2>3, <4>2
    <3> QED
      BY <3>1, <3>2
  <2>4. CASE n # 1 /\ m + 1 > 1 /\ <<b[m], b[m + 1]>> \in order
    <3>1. m \in 1 .. Len(b) /\ n - 1 \in Nat \ {0}
      BY <1>0, <2>0, <2>4
    <3>2. run[m] >= n - 1 <=> n - 1 <= m /\ Follows(b, m - (n - 1) + 1, n - 1, order)
      BY <3>1
    <3>3. run[m] \in Nat
      BY <3>1, RunsRecursion
    <3>4. run[m + 1] >= n <=> run[m] >= n - 1
      <4> HIDE DEF run
      <4> QED
        BY <2>1, <2>4, <3>3
    <3>5. Follows(b, m - (n - 1) + 1, n - 1, order) <=> Follows(b, m + 1 - n + 1, n, order)
      <4> DEFINE k == m + 1 - n + 1
      <4>1. k = m - (n - 1) + 1 /\ k + (n - 1) - 1 = m /\ k + (n - 1) = m + 1
        BY <2>0
      <4>2. 1 .. n - 1 = (1 .. (n - 1) - 1) \cup {n - 1}
        BY <3>1
      <4> HIDE DEF k
      <4> QED
        BY <2>4, <4>1, <4>2 DEF Follows, k
    <3> HIDE DEF run
    <3> QED
      BY <2>0, <3>2, <3>4, <3>5
  <2> QED
    BY <2>2, <2>3, <2>4
<1>3. N = Nat
  <2>1. N \in SUBSET Nat
    OBVIOUS
  <2> HIDE DEF N
  <2> QED
    BY <1>1, <1>2, <2>1, NumberInduction
<1>4. i \in N
  BY <1>0, <1>3
<1> HIDE DEF Claim
<1>5. Claim(i)
  BY <1>4
<1> QED
  BY <1>5 DEF Claim

LEMMA RunsExact ==
  ASSUME NEW b \in Seq(Byte), NEW order, NEW n \in Nat \ {0}
  PROVE  (\E i \in 1 .. Len(b) : Runs(b, order)[i] >= n)
           <=> \E i \in 1 .. Len(b) - n + 1 : Follows(b, i, n, order)
<1>0. Len(b) \in Nat
  BY LenProperties
<1>1. ASSUME NEW i \in 1 .. Len(b), Runs(b, order)[i] >= n
      PROVE  \E m \in 1 .. Len(b) - n + 1 : Follows(b, m, n, order)
  <2>1. n <= i /\ Follows(b, i - n + 1, n, order)
    BY <1>1, RunsFollow
  <2>2. i - n + 1 \in 1 .. Len(b) - n + 1
    BY <1>0, <2>1
  <2> QED
    BY <2>1, <2>2
<1>2. ASSUME NEW m \in 1 .. Len(b) - n + 1, Follows(b, m, n, order)
      PROVE  \E i \in 1 .. Len(b) : Runs(b, order)[i] >= n
  <2>1. m + n - 1 \in 1 .. Len(b) /\ n <= m + n - 1 /\ (m + n - 1) - n + 1 = m
    BY <1>0
  <2>2. Runs(b, order)[m + n - 1] >= n
    BY <1>2, <2>1, RunsFollow
  <2> QED
    BY <2>1, <2>2
<1> QED
  BY <1>1, <1>2

LEMMA SubstringFacts ==
  ASSUME NEW S, NEW b \in Seq(S), NEW n \in Nat, NEW i \in 1 .. Len(b) - n + 1
  PROVE  /\ Substring(b, i, n) \in Seq(S) /\ Len(Substring(b, i, n)) = n
         /\ \A j \in 1 .. n : Substring(b, i, n)[j] = b[i + j - 1]
<1>0. Len(b) \in Nat /\ i \in Nat /\ i \in 1 .. Len(b) + 1 /\ i + n - 1 \in i - 1 .. Len(b)
  BY LenProperties
<1>1. CASE n = 0
  <2>1. i + n - 1 < i
    BY <1>0, <1>1
  <2> QED
    BY <1>0, <1>1, <2>1, SubSeqProperties DEF Substring
<1>2. CASE n # 0
  <2>1. i \in 1 .. Len(b) /\ i + n - 1 \in i .. Len(b)
    BY <1>0, <1>2
  <2> QED
    BY <1>0, <1>2, <2>1, SubSeqProperties DEF Substring
<1> QED
  BY <1>1, <1>2

LEMMA ByteSteps ==
  ASSUME NEW x \in Byte, NEW y \in Byte
  PROVE  /\ y = (x + 1) % 256 <=> <<x, y>> \in Upward
         /\ y = (x + 255) % 256 <=> <<x, y>> \in Downward
<1>1. (x + 1) % 256 = x + 1
  BY DEF Byte
<1>2. (x + 255) % 256 = IF x = 0 THEN 255 ELSE x - 1
  BY DEF Byte
<1>3. <<x, y>> \in Upward <=> y = x + 1
  <2>1. ASSUME y = x + 1 PROVE <<x, y>> \in Upward
    <3>1. x \in 0 .. 254 /\ <<x, y>> = <<x, x + 1>>
      BY <2>1 DEF Byte
    <3> QED
      BY <3>1 DEF Upward
  <2>2. ASSUME <<x, y>> \in Upward PROVE y = x + 1
    BY <2>2 DEF Upward
  <2> QED
    BY <2>1, <2>2
<1>4. <<x, y>> \in Downward <=> x = y + 1
  <2>1. ASSUME x = y + 1 PROVE <<x, y>> \in Downward
    <3>1. y \in 0 .. 254 /\ <<x, y>> = <<y + 1, y>>
      BY <2>1 DEF Byte
    <3> QED
      BY <3>1 DEF Downward
  <2>2. ASSUME <<x, y>> \in Downward PROVE x = y + 1
    BY <2>2 DEF Downward
  <2> QED
    BY <2>1, <2>2
<1> QED
  BY <1>1, <1>2, <1>3, <1>4 DEF Byte

(* Because the keys of a row are different, neighbours that lie on it one  *)
(* after the other lie on it together.                                     *)
LEMMA RowFollows ==
  ASSUME NEW row \in Seq(Byte), IsInjective(row),
         NEW b \in Seq(Byte), NEW n \in Nat, n >= 2, NEW i \in 1 .. Len(b) - n + 1
  PROVE  ContainsBytes(row, Substring(b, i, n)) <=> Follows(b, i, n, Rightward(row))
<1> DEFINE w == Substring(b, i, n)
<1>0. /\ Len(b) \in Nat /\ i \in Nat \ {0} /\ Len(row) \in Nat
      /\ w \in Seq(Byte) /\ Len(w) = n /\ \A j \in 1 .. n : w[j] = b[i + j - 1]
      /\ DOMAIN row = 1 .. Len(row)
  BY SubstringFacts, LenProperties
<1> HIDE DEF w
<1>1. ASSUME NEW q \in 1 .. Len(row) - n + 1
      PROVE  Substring(row, q, n) = w <=> \A j \in 1 .. n : row[q + j - 1] = w[j]
  <2> DEFINE v == Substring(row, q, n)
  <2>1. v \in Seq(Byte) /\ Len(v) = n /\ \A j \in 1 .. n : v[j] = row[q + j - 1]
    BY SubstringFacts
  <2>2. w \in Seq(Byte) /\ Len(w) = n
    BY <1>0
  <2> HIDE DEF v
  <2>3. v = w <=> \A j \in 1 .. n : v[j] = w[j]
    BY <2>1, <2>2, SeqEqual
  <2> QED
    BY <2>1, <2>3 DEF v
<1>2. ASSUME ContainsBytes(row, w) PROVE Follows(b, i, n, Rightward(row))
  <2>1. PICK p \in 1 .. Len(row) - n + 1 : Substring(row, p, n) = w
    BY <1>0, <1>2 DEF ContainsBytes
  <2>2. \A j \in 1 .. n : row[p + j - 1] = w[j]
    BY <1>1, <2>1
  <2> SUFFICES ASSUME NEW j \in 1 .. n - 1
               PROVE  <<b[i + j - 1], b[i + j]>> \in Rightward(row)
    BY DEF Follows
  <2>3. /\ j \in 1 .. n /\ j + 1 \in 1 .. n /\ p + (j + 1) - 1 = (p + j - 1) + 1
        /\ i + (j + 1) - 1 = i + j /\ p + j - 1 \in 1 .. Len(row) - 1
    BY <1>0
  <2>4. b[i + j - 1] = row[p + j - 1] /\ b[i + j] = row[(p + j - 1) + 1]
    <3>1. b[i + j - 1] = row[p + j - 1]
      BY <1>0, <2>2, <2>3
    <3>2. b[i + (j + 1) - 1] = row[p + (j + 1) - 1]
      BY <1>0, <2>2, <2>3
    <3> QED
      BY <2>3, <3>1, <3>2
  <2> DEFINE q == p + j - 1
  <2> HIDE DEF q
  <2> QED
    BY <2>3, <2>4 DEF Rightward, q
<1>3. ASSUME Follows(b, i, n, Rightward(row)) PROVE ContainsBytes(row, w)
  <2>1. ASSUME NEW j \in 1 .. n - 1
        PROVE  \E q \in 1 .. Len(row) - 1 : b[i + j - 1] = row[q] /\ b[i + j] = row[q + 1]
    <3>1. <<b[i + j - 1], b[i + j]>> \in Rightward(row)
      BY <1>3 DEF Follows
    <3>2. PICK q \in 1 .. Len(row) - 1 : <<b[i + j - 1], b[i + j]>> = <<row[q], row[q + 1]>>
      BY <3>1 DEF Rightward
    <3> QED
      BY <3>2
  <2>2. PICK p \in 1 .. Len(row) - 1 : b[i + 1 - 1] = row[p] /\ b[i + 1] = row[p + 1]
    <3>1. 1 \in 1 .. n - 1
      OBVIOUS
    <3> QED
      BY <2>1, <3>1
  <2> DEFINE N == {j \in Nat : j \in 1 .. n - 1 =>
                     /\ p + j <= Len(row)
                     /\ b[i + j - 1] = row[p + j - 1] /\ b[i + j] = row[p + j]}
  <2>3. 0 \in N
    OBVIOUS
  <2>4. ASSUME NEW j \in N PROVE j + 1 \in N
    <3>0. j + 1 \in Nat
      <4>1. j \in Nat
        OBVIOUS
      <4> HIDE DEF N
      <4> QED
        BY <4>1
    <3> SUFFICES ASSUME j + 1 \in 1 .. n - 1
                 PROVE  /\ p + (j + 1) <= Len(row)
                        /\ b[i + (j + 1) - 1] = row[p + (j + 1) - 1]
                        /\ b[i + (j + 1)] = row[p + (j + 1)]
      BY <3>0, Zenon
    <3>1. CASE j = 0
      <4>1. p + (j + 1) = p + 1 /\ p + (j + 1) - 1 = p /\ j + 1 = 1 /\ p + 1 <= Len(row)
        BY <1>0, <3>1
      <4> QED
        BY <2>2, <4>1
    <3>2. CASE j # 0
      <4>1. j \in 1 .. n - 1 /\ j \in Nat
        BY <3>2
      <4>2. p + j <= Len(row) /\ b[i + j] = row[p + j]
        BY <4>1
      <4>3. PICK q \in 1 .. Len(row) - 1 :
              b[i + (j + 1) - 1] = row[q] /\ b[i + (j + 1)] = row[q + 1]
        BY <2>1
      <4> HIDE DEF N
      <4>4. i + (j + 1) - 1 = i + j /\ p + (j + 1) - 1 = p + j
        BY <1>0, <4>1
      <4>5. q = p + j
        <5>1. q \in DOMAIN row /\ p + j \in DOMAIN row /\ row[q] = row[p + j]
          BY <1>0, <4>1, <4>2, <4>3, <4>4
        <5> QED
          BY <5>1 DEF IsInjective
      <4>6. q + 1 = p + (j + 1) /\ q + 1 <= Len(row)
        <5>1. q \in Nat /\ p \in Nat /\ Len(row) \in Nat /\ q <= Len(row) - 1 /\ j \in Nat
          BY <1>0, <4>1
        <5> HIDE <1>0
        <5> QED
          BY <4>5, <5>1
      <4> QED
        BY <4>3, <4>4, <4>5, <4>6
    <3> QED
      BY <3>1, <3>2
  <2>5. N = Nat
    <3>1. N \in SUBSET Nat
      OBVIOUS
    <3> HIDE DEF N
    <3> QED
      BY <2>3, <2>4, <3>1, NumberInduction
  <2>6. \A j \in 1 .. n - 1 :
          p + j <= Len(row) /\ b[i + j - 1] = row[p + j - 1] /\ b[i + j] = row[p + j]
    <3> SUFFICES ASSUME NEW j \in 1 .. n - 1
                 PROVE  p + j <= Len(row) /\ b[i + j - 1] = row[p + j - 1] /\ b[i + j] = row[p + j]
      OBVIOUS
    <3>1. j \in N
      <4> HIDE DEF N
      <4> QED
        BY <2>5
    <3> QED
      BY <3>1
  <2> HIDE DEF N
  <2>7. n - 1 \in 1 .. n - 1 /\ i + (n - 1) = i + n - 1 /\ p + (n - 1) = p + n - 1
    BY <1>0
  <2>8. p \in 1 .. Len(row) - n + 1
    <3>1. p + (n - 1) <= Len(row)
      BY <2>6, <2>7
    <3>2. p \in Nat \ {0} /\ Len(row) \in Nat
      BY <1>0
    <3> QED
      BY <3>1, <3>2
  <2>9. ASSUME NEW j \in 1 .. n PROVE row[p + j - 1] = w[j]
    <3>1. CASE j = n
      BY <1>0, <2>6, <2>7, <3>1
    <3>2. CASE j # n
      <4>1. j \in 1 .. n - 1
        BY <3>2
      <4> QED
        BY <1>0, <2>6, <4>1
    <3> QED
      BY <3>1, <3>2
  <2>10. Substring(row, p, n) = w
    BY <1>1, <2>8, <2>9
  <2> QED
    BY <1>0, <2>8, <2>10 DEF ContainsBytes
<1> QED
  BY <1>2, <1>3 DEF w

LEMMA ReversedRow ==
  ASSUME NEW row \in Seq(Byte), IsInjective(row)
  PROVE  /\ Reverse(row) \in Seq(Byte) /\ IsInjective(Reverse(row))
         /\ Rightward(Reverse(row)) = Leftward(row)
<1> DEFINE n == Len(row)
           v == Reverse(row)
<1>0. n \in Nat /\ DOMAIN row = 1 .. n /\ \A i \in 1 .. n : row[i] \in Byte
  BY LenProperties, ElementOfSeq
<1>1. v = [i \in 1 .. n |-> row[(n - i) + 1]]
  BY DEF Reverse
<1>2. ASSUME NEW i \in 1 .. n PROVE (n - i) + 1 \in 1 .. n /\ v[i] = row[(n - i) + 1]
  BY <1>0, <1>1
<1>3. v \in [1 .. n -> Byte]
  BY <1>0, <1>1, <1>2
<1> HIDE DEF v
<1>4. v \in Seq(Byte) /\ Len(v) = n /\ DOMAIN v = 1 .. n
  <2>1. v \in Seq(Byte)
    <3> HIDE DEF n
    <3> QED
      BY <1>0, <1>3, SeqDef
  <2> QED
    BY <1>0, <1>3, <2>1, LenProperties
<1>5. IsInjective(v)
  <2> SUFFICES ASSUME NEW i \in 1 .. n, NEW j \in 1 .. n, v[i] = v[j] PROVE i = j
    BY <1>4 DEF IsInjective
  <2>1. (n - i) + 1 = (n - j) + 1
    BY <1>0, <1>2 DEF IsInjective
  <2> QED
    BY <1>0, <2>1
<1>6. ASSUME NEW i \in 1 .. n - 1
      PROVE  n - i \in 1 .. n - 1 /\ <<v[i], v[i + 1]>> = <<row[(n - i) + 1], row[n - i]>>
  <2>1. i \in 1 .. n /\ i + 1 \in 1 .. n /\ (n - (i + 1)) + 1 = n - i
    BY <1>0
  <2>2. v[i] = row[(n - i) + 1] /\ v[i + 1] = row[(n - (i + 1)) + 1]
    BY <1>2, <2>1
  <2> QED
    BY <1>0, <2>1, <2>2
<1>7. ASSUME NEW x \in Rightward(v) PROVE x \in Leftward(row)
  <2>1. PICK i \in 1 .. n - 1 : x = <<v[i], v[i + 1]>>
    BY <1>4 DEF Rightward
  <2>2. n - i \in 1 .. n - 1 /\ x = <<row[(n - i) + 1], row[n - i]>>
    BY <1>6, <2>1
  <2> DEFINE m == n - i
  <2>3. m \in 1 .. Len(row) - 1 /\ x = <<row[m + 1], row[m]>>
    BY <2>2
  <2> HIDE DEF m
  <2> QED
    BY <2>3 DEF Leftward
<1>8. ASSUME NEW x \in Leftward(row) PROVE x \in Rightward(v)
  <2>1. PICK m \in 1 .. n - 1 : x = <<row[m + 1], row[m]>>
    BY DEF Leftward
  <2>2. n - m \in 1 .. n - 1 /\ n - (n - m) = m
    BY <1>0
  <2> DEFINE i == n - m
  <2>3. i \in 1 .. n - 1 /\ n - i = m
    BY <2>2
  <2> HIDE DEF i
  <2>4. <<v[i], v[i + 1]>> = <<row[(n - i) + 1], row[n - i]>>
    BY <1>6, <2>3
  <2>5. x = <<v[i], v[i + 1]>>
    BY <2>1, <2>3, <2>4
  <2> QED
    BY <1>4, <2>3, <2>5 DEF Rightward
<1> QED
  BY <1>4, <1>5, <1>7, <1>8 DEF v

(* What hasSequence looks for in a window is an order it follows.          *)
LEMMA WindowFollows ==
  ASSUME NEW b \in Seq(Byte), NEW i \in 1 .. Len(b) - SeqLen + 1
  PROVE  LET w == Substring(b, i, SeqLen)
         IN  Ascending(w) \/ Descending(w) \/ OnRow(w)
               <=> \E order \in Order : Follows(b, i, SeqLen, order)
<1> DEFINE w == Substring(b, i, SeqLen)
<1>0. SeqLen \in Nat \ {0}
  BY LengthAssumption
<1>1. /\ Len(b) \in Nat /\ i \in Nat
      /\ \A j \in 1 .. SeqLen : w[j] = b[i + j - 1]
      /\ \A j \in 1 .. Len(b) : b[j] \in Byte
  <2>1. SeqLen \in Nat
    BY <1>0
  <2>2. \A j \in 1 .. SeqLen : w[j] = b[i + j - 1]
    BY <2>1, SubstringFacts
  <2>3. Len(b) \in Nat /\ \A j \in 1 .. Len(b) : b[j] \in Byte
    BY LenProperties, ElementOfSeq
  <2> QED
    BY <2>2, <2>3
<1> HIDE DEF w
<1>2. ASSUME NEW j \in 1 .. SeqLen - 1
      PROVE  w[j] = b[i + j - 1] /\ w[j + 1] = b[i + j] /\ w[j] \in Byte /\ w[j + 1] \in Byte
  <2>1. /\ j \in 1 .. SeqLen /\ j + 1 \in 1 .. SeqLen /\ i + (j + 1) - 1 = i + j
        /\ i + j - 1 \in 1 .. Len(b) /\ i + j \in 1 .. Len(b)
    BY <1>0, <1>1
  <2>2. w[j] = b[i + j - 1] /\ w[j + 1] = b[i + (j + 1) - 1]
    BY <1>1, <2>1
  <2> QED
    BY <1>1, <2>1, <2>2
<1>3. Ascending(w) <=> Follows(b, i, SeqLen, Upward)
  <2>1. \A j \in 1 .. SeqLen - 1 :
          w[j + 1] = (w[j] + 1) % 256 <=> <<b[i + j - 1], b[i + j]>> \in Upward
    BY <1>2, ByteSteps
  <2> QED
    BY <2>1, Zenon DEF Ascending, Follows
<1>4. Descending(w) <=> Follows(b, i, SeqLen, Downward)
  <2>1. \A j \in 1 .. SeqLen - 1 :
          w[j + 1] = (w[j] + 255) % 256 <=> <<b[i + j - 1], b[i + j]>> \in Downward
    BY <1>2, ByteSteps
  <2> QED
    BY <2>1, Zenon DEF Descending, Follows
<1>5. CASE SeqLen = 1
  <2>1. Follows(b, i, SeqLen, Upward)
    BY <1>5 DEF Follows
  <2> QED
    BY <1>3, <2>1 DEF Order, w
<1>6. CASE SeqLen # 1
  <2>1. ASSUME NEW row \in Rows
        PROVE  /\ ContainsBytes(row, w) <=> Follows(b, i, SeqLen, Rightward(row))
               /\ ContainsBytes(Reverse(row), w) <=> Follows(b, i, SeqLen, Leftward(row))
    <3>1. row \in Seq(Byte) /\ IsInjective(row) /\ SeqLen \in Nat /\ SeqLen >= 2
      BY <1>0, <1>6, RowsAssumption
    <3>2. /\ Reverse(row) \in Seq(Byte) /\ IsInjective(Reverse(row))
          /\ Rightward(Reverse(row)) = Leftward(row)
      BY <3>1, ReversedRow
    <3>3. ContainsBytes(row, w) <=> Follows(b, i, SeqLen, Rightward(row))
      BY <3>1, RowFollows DEF w
    <3>4. ContainsBytes(Reverse(row), w) <=> Follows(b, i, SeqLen, Rightward(Reverse(row)))
      BY <3>1, <3>2, RowFollows DEF w
    <3> QED
      BY <3>2, <3>3, <3>4
  <2>2. OnRow(w) <=> \E row \in Rows : \/ Follows(b, i, SeqLen, Rightward(row))
                                       \/ Follows(b, i, SeqLen, Leftward(row))
    BY <2>1 DEF OnRow
  <2>3. (\E order \in Order : Follows(b, i, SeqLen, order))
          <=> \/ Follows(b, i, SeqLen, Upward) \/ Follows(b, i, SeqLen, Downward)
              \/ \E row \in Rows : \/ Follows(b, i, SeqLen, Rightward(row))
                                   \/ Follows(b, i, SeqLen, Leftward(row))
    BY DEF Order
  <2> QED
    BY <1>3, <1>4, <2>2, <2>3 DEF w
<1> QED
  BY <1>5, <1>6

LEMMA SequenceFollows ==
  ASSUME NEW s \in Seq(Char)
  PROVE  HasSequence(s) <=>
           \E order \in Order : \E i \in 1 .. Len(LowerBytes(s)) - SeqLen + 1 :
             Follows(LowerBytes(s), i, SeqLen, order)
<1>1. LowerBytes(s) \in Seq(Byte)
  BY BytesFacts
<1>2. \A i \in 1 .. Len(LowerBytes(s)) - SeqLen + 1 :
        LET w == Substring(LowerBytes(s), i, SeqLen)
        IN  Ascending(w) \/ Descending(w) \/ OnRow(w)
              <=> \E order \in Order : Follows(LowerBytes(s), i, SeqLen, order)
  BY <1>1, WindowFollows
<1> QED
  BY <1>2, Zenon DEF HasSequence

LEMMA SequenceCheck ==
  ASSUME NEW s \in Seq(Char)
  PROVE  HasSequence(s) <=> IsSequential(s)
<1>1. LowerBytes(s) \in Seq(Byte) /\ SeqLen \in Nat \ {0}
  BY BytesFacts, LengthAssumption
<1>2. \A order \in Order :
        (\E i \in 1 .. Len(LowerBytes(s)) : Runs(LowerBytes(s), order)[i] >= SeqLen)
          <=> \E i \in 1 .. Len(LowerBytes(s)) - SeqLen + 1 : Follows(LowerBytes(s), i, SeqLen, order)
  BY <1>1, RunsExact
<1> QED
  BY <1>2, SequenceFollows DEF IsSequential

-----------------------------------------------------------------------------
(* The repetitions.                                                        *)

LEMMA Products ==
  /\ \A m, k \in Nat : m * k \in Nat /\ (m + 1) * k = m * k + k
  /\ \A m, n, k \in Nat : m <= n => m * k <= n * k
  /\ \A m, n \in Nat, k \in Nat \ {0} : m * k <= n * k => m <= n
<1>1. \A m, k \in Nat : m * k \in Nat /\ (m + 1) * k = m * k + k
  OBVIOUS
<1>2. \A m, n, k \in Nat : m <= n => m * k <= n * k
  OBVIOUS
<1>3. \A m, n \in Nat, k \in Nat \ {0} : m * k <= n * k => m <= n
  OBVIOUS
<1> QED
  BY <1>1, <1>2, <1>3

LEMMA Quotients ==
  ASSUME NEW a \in Nat, NEW k \in Nat \ {0}
  PROVE  /\ a \div k \in Nat
         /\ \A r \in Nat : r <= a \div k <=> r * k <= a
OBVIOUS

(* c copies of the k bytes at i, one after the other.                      *)
Copies(b, i, k, c) ==
  \A j \in 1 .. c - 1 : Substring(b, i + j * k, k) = Substring(b, i, k)

(* c patterns of k bytes from i on in which each byte is repeated.         *)
Periodic(b, i, k, c) == \A j \in i .. i + c * k - k - 1 : b[j] = b[j + k]

LEMMA CopiesArePeriodic ==
  ASSUME NEW b \in Seq(Byte), NEW i \in Nat \ {0}, NEW k \in Nat \ {0}, NEW c \in Nat \ {0},
         i + c * k - 1 <= Len(b)
  PROVE  Copies(b, i, k, c) <=> Periodic(b, i, k, c)
<1> DEFINE Same(j) == \A t \in 1 .. k : b[i + j * k + t - 1] = b[i + t - 1]
<1>0. Len(b) \in Nat /\ c * k \in Nat
  BY LenProperties, Products
<1>1. ASSUME NEW j \in 0 .. c - 1
      PROVE  j * k \in Nat /\ (j + 1) * k = j * k + k /\ (j + 1) * k <= c * k
  <2>1. j \in Nat /\ j + 1 \in Nat /\ j + 1 <= c
    OBVIOUS
  <2> QED
    BY <2>1, Products
<1>2. ASSUME NEW j \in 1 .. c - 1
      PROVE  Substring(b, i + j * k, k) = Substring(b, i, k) <=> Same(j)
  <2> DEFINE w == Substring(b, i, k)
             p == i + j * k
  <2>1. i \in 1 .. Len(b) - k + 1
    <3>1. 0 \in 0 .. c - 1 /\ 0 * k = 0
      OBVIOUS
    <3>2. (0 + 1) * k = k /\ k <= c * k
      BY <1>1, <3>1
    <3> QED
      BY <1>0, <3>2
  <2>2. p \in 1 .. Len(b) - k + 1
    <3>1. j * k \in Nat /\ j * k + k <= c * k
      BY <1>1
    <3> QED
      BY <1>0, <3>1
  <2>3. w \in Seq(Byte) /\ Len(w) = k /\ \A t \in 1 .. k : w[t] = b[i + t - 1]
    <3>1. k \in Nat
      OBVIOUS
    <3> QED
      BY <2>1, <3>1, SubstringFacts
  <2> HIDE DEF w, p
  <2>4. Substring(b, p, k) = w <=> \A t \in 1 .. k : b[p + t - 1] = w[t]
    <3> DEFINE v == Substring(b, p, k)
    <3>1. v \in Seq(Byte) /\ Len(v) = k /\ \A t \in 1 .. k : v[t] = b[p + t - 1]
      <4>1. k \in Nat
        OBVIOUS
      <4> QED
        BY <2>2, <4>1, SubstringFacts
    <3> HIDE DEF v
    <3>2. v = w <=> \A t \in 1 .. k : v[t] = w[t]
      BY <2>3, <3>1, SeqEqual
    <3> QED
      BY <3>1, <3>2 DEF v
  <2>5. (\A t \in 1 .. k : b[p + t - 1] = w[t]) <=> \A t \in 1 .. k : b[p + t - 1] = b[i + t - 1]
    BY <2>3
  <2> QED
    BY <2>4, <2>5 DEF w, p
<1>3. Copies(b, i, k, c) <=> \A j \in 1 .. c - 1 : Same(j)
  BY <1>2 DEF Copies
<1>4. ASSUME Periodic(b, i, k, c), NEW n \in 1 .. c - 1 PROVE Same(n)
  <2> DEFINE N == {j \in Nat : j \in 0 .. c - 1 => Same(j)}
  <2>1. 0 \in N
    <3>1. \A t \in 1 .. k : i + 0 * k + t - 1 = i + t - 1
      OBVIOUS
    <3> QED
      BY <3>1
  <2>2. ASSUME NEW j \in N PROVE j + 1 \in N
    <3>0. j \in Nat /\ j + 1 \in Nat
      OBVIOUS
    <3> SUFFICES ASSUME j + 1 \in 0 .. c - 1, NEW t \in 1 .. k
                 PROVE  b[i + (j + 1) * k + t - 1] = b[i + t - 1]
      BY <3>0
    <3>1. j \in 0 .. c - 1
      BY <3>0
    <3>2. Same(j)
      BY <3>1
    <3>3. b[i + j * k + t - 1] = b[i + t - 1]
      BY <3>2
    <3> HIDE DEF N, Same
    <3>4. j * k \in Nat /\ (j + 1) * k = j * k + k /\ ((j + 1) + 1) * k = (j + 1) * k + k
          /\ ((j + 1) + 1) * k <= c * k
      BY <1>1, <3>1
    <3>5. /\ i + j * k + t - 1 \in i .. i + c * k - k - 1
          /\ i + (j + 1) * k + t - 1 = (i + j * k + t - 1) + k
      <4> DEFINE x == j * k
                 y == c * k
                 x1 == (j + 1) * k
                 x2 == ((j + 1) + 1) * k
      <4>1. x \in Nat /\ y \in Nat /\ x1 = x + k /\ x2 = x1 + k /\ x2 <= y
        BY <1>0, <3>4
      <4> HIDE DEF x, y, x1, x2
      <4>2. i + x + t - 1 \in i .. i + y - k - 1 /\ i + x1 + t - 1 = (i + x + t - 1) + k
        BY <4>1
      <4> QED
        BY <4>2 DEF x, y, x1
    <3>6. b[i + j * k + t - 1] = b[(i + j * k + t - 1) + k]
      BY <1>4, <3>5 DEF Periodic
    <3> QED
      BY <3>3, <3>5, <3>6
  <2>3. N = Nat
    <3>1. N \in SUBSET Nat
      OBVIOUS
    <3> HIDE DEF N
    <3> QED
      BY <2>1, <2>2, <3>1, NumberInduction
  <2>4. n \in Nat /\ n \in 0 .. c - 1
    OBVIOUS
  <2>5. n \in N
    <3> HIDE DEF N
    <3> QED
      BY <2>3, <2>4
  <2> QED
    BY <2>4, <2>5
<1>5. ASSUME \A j \in 1 .. c - 1 : Same(j), NEW m \in i .. i + c * k - k - 1
      PROVE  b[m] = b[m + k]
  <2> DEFINE q == (m - i) \div k
             t == (m - i) - q * k + 1
  <2>0. m - i \in Nat /\ m \in Nat
    BY <1>0
  <2>1. q \in Nat /\ \A r \in Nat : r <= q <=> r * k <= m - i
    BY <2>0, Quotients
  <2> HIDE DEF q
  <2>2. q * k \in Nat /\ q * k <= m - i /\ (q + 1) * k = q * k + k /\ ~((q + 1) * k <= m - i)
    BY <2>1, Products
  <2>3. t \in 1 .. k /\ m = i + q * k + t - 1 /\ m + k = i + (q + 1) * k + t - 1
    <3> DEFINE x == q * k
               x1 == (q + 1) * k
    <3> HIDE DEF x, x1
    <3>1. x \in Nat /\ x <= m - i /\ x1 = x + k /\ ~(x1 <= m - i)
      BY <2>2 DEF x, x1
    <3>2. /\ (m - i) - x + 1 \in 1 .. k /\ m = i + x + ((m - i) - x + 1) - 1
          /\ m + k = i + x1 + ((m - i) - x + 1) - 1
      BY <2>0, <3>1
    <3> QED
      BY <3>2 DEF x, x1
  <2> HIDE DEF t
  <2>4. q + 1 \in 1 .. c - 1
    <3> SUFFICES ASSUME c <= q + 1 PROVE FALSE
      BY <2>1
    <3>1. c * k <= (q + 1) * k
      BY <2>1, Products
    <3> DEFINE x == q * k
               x1 == (q + 1) * k
               y == c * k
    <3> HIDE DEF x, x1, y
    <3>2. x \in Nat /\ y \in Nat /\ x <= m - i /\ m \in i .. i + y - k - 1 /\ x1 = x + k /\ y <= x1
      BY <1>0, <2>2, <3>1 DEF x, x1, y
    <3> QED
      BY <2>0, <3>2
  <2>5. b[m + k] = b[i + t - 1]
    <3>1. Same(q + 1)
      BY <1>5, <2>4
    <3>2. b[i + (q + 1) * k + t - 1] = b[i + t - 1]
      BY <2>3, <3>1
    <3> QED
      BY <2>3, <3>2
  <2>6. b[m] = b[i + t - 1]
    <3>1. CASE q = 0
      <4>1. i + q * k + t - 1 = i + t - 1
        BY <2>3, <3>1
      <4> QED
        BY <2>3, <4>1
    <3>2. CASE q # 0
      <4>1. q \in 1 .. c - 1
        BY <2>1, <2>4, <3>2
      <4>2. Same(q)
        BY <1>5, <4>1
      <4>3. b[i + q * k + t - 1] = b[i + t - 1]
        BY <2>3, <4>2
      <4> QED
        BY <2>3, <4>3
    <3> QED
      BY <3>1, <3>2
  <2> QED
    BY <2>5, <2>6
<1> QED
  BY <1>3, <1>4, <1>5 DEF Periodic

(* How many copies of k bytes make a repetition: three at least.           *)
Needed(k) == (RepLen + k - 1) \div k

LEMMA NeededFacts ==
  ASSUME NEW k \in 1 .. MaxPeriod
  PROVE  /\ Needed(k) \in Nat /\ Needed(k) >= 3
         /\ \A r \in Nat : r * k >= RepLen <=> r >= Needed(k)
<1> DEFINE c == Needed(k)
           a == RepLen + k - 1
<1>0. k \in Nat \ {0} /\ RepLen \in Nat /\ 2 * k < RepLen /\ a \in Nat
  BY RepAssumption
<1>1. c \in Nat /\ \A r \in Nat : r <= c <=> r * k <= a
  <2> HIDE DEF a
  <2>1. c = a \div k
    BY DEF Needed, a
  <2> QED
    BY <1>0, <2>1, Quotients
<1> HIDE DEF c
<1>2. c * k \in Nat /\ c * k <= RepLen + k - 1 /\ (c + 1) * k = c * k + k
      /\ ~((c + 1) * k <= RepLen + k - 1)
  BY <1>0, <1>1, Products
<1>3. c * k >= RepLen
  <2> DEFINE x == c * k
             x1 == (c + 1) * k
  <2> HIDE DEF x, x1
  <2>1. x \in Nat /\ x1 = x + k /\ ~(x1 <= RepLen + k - 1)
    BY <1>2 DEF x, x1
  <2>2. x >= RepLen
    BY <1>0, <2>1
  <2> QED
    BY <2>2 DEF x
<1>4. ASSUME NEW r \in Nat PROVE r * k >= RepLen <=> r >= c
  <2>1. r * k \in Nat /\ (r + 1) * k = r * k + k
    BY <1>0, Products
  <2>2. CASE r >= c
    <3>1. c * k <= r * k
      BY <1>0, <1>1, <2>2, Products
    <3> QED
      BY <1>0, <1>2, <1>3, <2>1, <2>2, <3>1
  <2>3. CASE ~(r >= c)
    <3>1. r + 1 \in Nat /\ r + 1 <= c
      BY <1>1, <2>3
    <3>2. (r + 1) * k <= RepLen + k - 1
      BY <1>1, <3>1
    <3> DEFINE x == r * k
    <3> HIDE DEF x
    <3>3. x \in Nat /\ x + k <= RepLen + k - 1
      BY <2>1, <3>2 DEF x
    <3>4. ~(x >= RepLen)
      BY <1>0, <3>3
    <3> QED
      BY <2>3, <3>4 DEF x
  <2> QED
    BY <2>2, <2>3
<1>5. c >= 3
  <2>1. ~(2 >= c)
    BY <1>0, <1>4
  <2> QED
    BY <1>1, <2>1
<1> QED
  BY <1>1, <1>4, <1>5 DEF c

LEMMA RepeatsExact ==
  ASSUME NEW b \in Seq(Byte), NEW i \in 1 .. Len(b), NEW k \in Nat \ {0},
         NEW c \in Nat, c >= 2
  PROVE  /\ Repeats(b, i, k) \in Nat
         /\ Repeats(b, i, k) >= c <=> c * k <= Len(b) - i + 1 /\ Copies(b, i, k, c)
<1> DEFINE a == Len(b) - i + 1
           S == {1} \cup {r \in 2 .. a \div k : Copies(b, i, k, r)}
<1>0. Len(b) \in Nat /\ i \in Nat /\ a \in Nat
  BY LenProperties
<1> HIDE DEF a
<1>1. a \div k \in Nat /\ \A r \in Nat : r <= a \div k <=> r * k <= a
  BY <1>0, Quotients
<1>2. Repeats(b, i, k) = Max(S)
  BY DEF Repeats, Copies, a
<1>3. Max(S) \in S /\ \A r \in S : r <= Max(S)
  <2>1. S \in SUBSET (0 .. a \div k + 1) /\ S # {} /\ a \div k + 1 \in Nat
    <3> DEFINE d == a \div k
    <3>1. d \in Nat
      BY <1>1
    <3> HIDE DEF d
    <3>2. \A r \in 2 .. d : r \in 0 .. d + 1
      BY <3>1
    <3>3. 1 \in 0 .. d + 1 /\ d + 1 \in Nat
      BY <3>1
    <3> QED
      BY <3>2, <3>3 DEF d
  <2> HIDE DEF S
  <2> QED
    BY <2>1, MaxFacts
<1> DEFINE m == Max(S)
<1>4. m \in Nat
  <2>1. S \subseteq Nat
    OBVIOUS
  <2> HIDE DEF S
  <2> QED
    BY <1>3, <2>1
<1>5. ASSUME m >= c PROVE c * k <= a /\ Copies(b, i, k, c)
  <2>1. m \in 2 .. a \div k /\ Copies(b, i, k, m)
    <3>1. m \in S /\ m # 1
      <4> HIDE DEF S
      <4> QED
        BY <1>3, <1>4, <1>5
    <3> HIDE DEF m
    <3> QED
      BY <3>1
  <2> HIDE DEF m
  <2>2. c <= a \div k
    BY <1>1, <1>5, <2>1
  <2>3. \A j \in 1 .. c - 1 : j \in 1 .. m - 1
    BY <1>4, <1>5
  <2> QED
    BY <1>1, <2>1, <2>2, <2>3 DEF Copies
<1>6. ASSUME c * k <= a, Copies(b, i, k, c) PROVE m >= c
  <2>1. c <= a \div k
    BY <1>1, <1>6
  <2>2. c \in S
    BY <1>1, <1>6, <2>1
  <2>3. c <= m
    BY <1>3, <2>2
  <2> HIDE DEF m
  <2> QED
    BY <1>4, <2>3
<1> HIDE DEF S
<1> QED
  BY <1>2, <1>4, <1>5, <1>6 DEF a

LEMMA RepetitionPeriodic ==
  ASSUME NEW s \in Seq(Char)
  PROVE  HasRepetitivePatterns(s) <=>
           \E k \in 1 .. MaxPeriod : \E i \in 1 .. Len(Bytes(s)) - Needed(k) * k + 1 :
             Periodic(Bytes(s), i, k, Needed(k))
<1> DEFINE b == Bytes(s)
<1>0. b \in Seq(Byte) /\ Len(b) \in Nat
  BY BytesFacts, LenProperties
<1>1. HasRepetitivePatterns(s) <=>
        \E k \in 1 .. MaxPeriod : \E i \in 1 .. Len(b) - 3 * k + 1 : Repeats(b, i, k) * k >= RepLen
  BY DEF HasRepetitivePatterns
<1> HIDE DEF b
<1> SUFFICES ASSUME NEW k \in 1 .. MaxPeriod
             PROVE  (\E i \in 1 .. Len(b) - 3 * k + 1 : Repeats(b, i, k) * k >= RepLen)
                      <=> \E i \in 1 .. Len(b) - Needed(k) * k + 1 : Periodic(b, i, k, Needed(k))
  BY <1>1 DEF b
<1> DEFINE c == Needed(k)
<1>2. k \in Nat \ {0} /\ c \in Nat /\ c >= 3 /\ \A r \in Nat : r * k >= RepLen <=> r >= c
  BY NeededFacts, RepAssumption
<1> HIDE DEF c
<1>3. c * k \in Nat /\ 3 * k <= c * k /\ 3 * k \in Nat
  BY <1>2, Products
<1> DEFINE y == c * k
<1>4. y \in Nat /\ 3 * k <= y
  BY <1>3
<1>5. ASSUME NEW i \in 1 .. Len(b), y <= Len(b) - i + 1
      PROVE  Copies(b, i, k, c) <=> Periodic(b, i, k, c)
  <2>1. i \in Nat \ {0} /\ c \in Nat \ {0} /\ i + y - 1 <= Len(b)
    <3> HIDE DEF y
    <3> QED
      BY <1>0, <1>2, <1>4, <1>5
  <2> QED
    BY <1>0, <1>2, <2>1, CopiesArePeriodic
<1>6. ASSUME NEW i \in 1 .. Len(b)
      PROVE  Repeats(b, i, k) * k >= RepLen <=> y <= Len(b) - i + 1 /\ Periodic(b, i, k, c)
  <2>1. /\ Repeats(b, i, k) \in Nat
        /\ Repeats(b, i, k) >= c <=> y <= Len(b) - i + 1 /\ Copies(b, i, k, c)
    BY <1>0, <1>2, RepeatsExact
  <2> QED
    BY <1>2, <1>5, <2>1
<1>7. \A i : /\ i \in 1 .. Len(b) - y + 1 => i \in 1 .. Len(b) - 3 * k + 1 /\ y <= Len(b) - i + 1
             /\ i \in 1 .. Len(b) - 3 * k + 1 => i \in 1 .. Len(b)
             /\ i \in 1 .. Len(b) /\ y <= Len(b) - i + 1 => i \in 1 .. Len(b) - y + 1
  <2> HIDE DEF y
  <2> QED
    BY <1>0, <1>2, <1>4
<1> HIDE DEF y
<1> QED
  BY <1>6, <1>7 DEF c, y

LEMMA RepetitionCheck ==
  ASSUME NEW s \in Seq(Char)
  PROVE  HasRepetitivePatterns(s) <=> IsPeriodic(s)
BY RepetitionPeriodic DEF IsPeriodic, Periodic, Needed

-----------------------------------------------------------------------------
(* The verdicts.                                                           *)

AllClasses(s) == \A class \in {IsLower, IsUpper, IsDigit} : HasClass(s, class)

Pattern(s) == IsSequential(s) \/ IsPeriodic(s) \/ ContainsPersonalData(s)

(* The common passwords drop out: none is as long as a password must be.   *)
LEMMA LocalCheckFacts ==
  ASSUME NEW s \in Seq(Char)
  PROVE  /\ LocalCheck(s) \in {"short", "long", "complexity", "weak", "ok"}
         /\ LocalCheck(s) = "ok" <=>
              Len(s) \in MinLen .. MaxLen /\ AllClasses(s) /\ ~Pattern(s)
         /\ LocalCheck(s) = "weak" <=>
              Len(s) \in MinLen .. MaxLen /\ AllClasses(s) /\ Pattern(s)
         /\ LocalCheck(s) = "long" <=> Len(s) >= MinLen /\ Len(s) > MaxLen
<1>1. Len(s) \in Nat /\ MinLen \in Nat /\ MaxLen \in Nat
  BY LengthAssumption, LenProperties
<1>2. LowerBytes(s) \in Common => Len(s) < MinLen
  <2>1. Len(s) <= Len(LowerBytes(s)) /\ Len(LowerBytes(s)) \in Nat
    BY BytesFacts, LenProperties
  <2>2. LowerBytes(s) \in Common => Len(LowerBytes(s)) < MinLen
    BY CommonAssumption
  <2> QED
    BY <1>1, <2>1, <2>2
<1>3. HasSequence(s) \/ HasRepetitivePatterns(s) \/ ContainsPersonalData(s) <=> Pattern(s)
  BY SequenceCheck, RepetitionCheck DEF Pattern
<1>4. Len(s) \in MinLen .. MaxLen <=> ~(Len(s) < MinLen) /\ ~(Len(s) > MaxLen)
  BY <1>1
<1>5. CASE Len(s) < MinLen
  <2>1. LocalCheck(s) = "short" /\ ~(Len(s) >= MinLen)
    BY <1>1, <1>5 DEF LocalCheck
  <2> QED
    BY <1>4, <1>5, <2>1
<1>6. CASE ~(Len(s) < MinLen) /\ Len(s) > MaxLen
  <2>1. LocalCheck(s) = "long" /\ Len(s) >= MinLen
    BY <1>1, <1>6 DEF LocalCheck
  <2> QED
    BY <1>4, <1>6, <2>1
<1>7. CASE ~(Len(s) < MinLen) /\ ~(Len(s) > MaxLen) /\ ~AllClasses(s)
  <2>1. LocalCheck(s) = "complexity"
    BY <1>7 DEF LocalCheck, AllClasses
  <2> QED
    BY <1>4, <1>7, <2>1
<1>8. CASE ~(Len(s) < MinLen) /\ ~(Len(s) > MaxLen) /\ AllClasses(s)
  <2>1. LocalCheck(s) = IF Pattern(s) THEN "weak" ELSE "ok"
    BY <1>2, <1>3, <1>8 DEF LocalCheck, AllClasses
  <2> QED
    BY <1>4, <1>8, <2>1
<1> QED
  BY <1>5, <1>6, <1>7, <1>8

(* The last verdict is about what has been typed.                          *)
VerdictInv ==
  verdict # "none" =>
    \E hibp \in {"clean", "pwned", "error"} : verdict = ValidatePasswordSecure(typed, hibp)

PolicyInv == TypeOK /\ VerdictInv

LEMMA PolicyInvInit == Init => PolicyInv
<1> SUFFICES ASSUME Init PROVE PolicyInv
  OBVIOUS
<1>1. <<>> \in Seq(Char) /\ Len(<<>>) = 0 /\ 0 <= MaxLen + 1
  BY LengthAssumption, EmptySeq
<1> QED
  BY <1>1 DEF Init, PolicyInv, TypeOK, VerdictInv, Verdict

LEMMA PolicyInvStep == PolicyInv /\ [Next]_vars => PolicyInv'
<1> SUFFICES ASSUME PolicyInv, [Next]_vars PROVE PolicyInv'
  OBVIOUS
<1>0. typed \in Seq(Char) /\ Len(typed) \in Nat /\ Len(typed) <= MaxLen + 1 /\ MaxLen \in Nat
  BY LengthAssumption, LenProperties DEF PolicyInv, TypeOK
<1>1. ASSUME NEW c \in Char, Type(c) PROVE PolicyInv'
  <2>1. typed' \in Seq(Char) /\ Len(typed') = Len(typed) + 1 /\ verdict' = "none"
    BY <1>0, <1>1, AppendProperties DEF Type
  <2>2. Len(typed') <= MaxLen + 1
    BY <1>0, <1>1, <2>1 DEF Type
  <2> QED
    BY <2>1, <2>2 DEF PolicyInv, TypeOK, VerdictInv, Verdict
<1>2. ASSUME NEW hibp \in {"clean", "pwned", "error"}, Submit(hibp) PROVE PolicyInv'
  <2>1. typed' = typed /\ verdict' = ValidatePasswordSecure(typed', hibp)
    BY <1>2 DEF Submit
  <2>2. verdict' \in Verdict
    <3>1. LocalCheck(typed) \in {"short", "long", "complexity", "weak", "ok"}
      BY <1>0, LocalCheckFacts
    <3> QED
      BY <2>1, <3>1 DEF ValidatePasswordSecure, Verdict
  <2> QED
    BY <1>0, <2>1, <2>2 DEF PolicyInv, TypeOK, VerdictInv
<1>3. ASSUME UNCHANGED vars PROVE PolicyInv'
  BY <1>3 DEF vars, PolicyInv, TypeOK, VerdictInv
<1> QED
  BY <1>1, <1>2, <1>3 DEF Next

LEMMA PolicyInvariant == Spec => []PolicyInv
BY PolicyInvInit, PolicyInvStep, PTL DEF Spec

(* validatePasswordSecure answers with one of its verdicts, whatever is    *)
(* typed and whatever the leak service answers.                            *)
THEOREM PolicyTypeCorrect == Spec => []TypeOK
<1>1. PolicyInv => TypeOK
  BY DEF PolicyInv
<1> QED
  BY <1>1, PolicyInvariant, PTL

(* hasSequence, with its windows, byte arithmetic and keyboard rows, finds *)
(* the passwords with a long enough run in some order, and only those.     *)
THEOREM SequencesAllFound == Spec => []SequenceCheckExact
<1>1. PolicyInv => SequenceCheckExact
  BY SequenceCheck DEF PolicyInv, TypeOK, SequenceCheckExact
<1> QED
  BY <1>1, PolicyInvariant, PTL

(* hasRepetitivePatterns, with the bounds of its three loops, finds the    *)
(* passwords with a stretch of a short period, and only those.             *)
THEOREM RepetitionsAllFound == Spec => []RepetitionCheckExact
<1>1. PolicyInv => RepetitionCheckExact
  BY RepetitionCheck DEF PolicyInv, TypeOK, RepetitionCheckExact
<1> QED
  BY <1>1, PolicyInvariant, PTL

(* What validatePasswordSecure accepts, or leaves to the leak service, is  *)
(* right whatever that service answers.                                    *)
THEOREM VerdictsCorrect == Spec => []VerdictExact
<1>1. ASSUME PolicyInv PROVE VerdictExact
  <2> SUFFICES ASSUME verdict # "none"
               PROVE  verdict \in {"ok", "pwned"} <=>
                        /\ Len(typed) \in MinLen .. MaxLen
                        /\ {IsLower, IsUpper, IsDigit} =
                             {class \in {IsLower, IsUpper, IsDigit} : ToSet(typed) \cap class # {}}
                        /\ ~IsSequential(typed) /\ ~IsPeriodic(typed) /\ ~ContainsPersonalData(typed)
    BY Zenon DEF VerdictExact
  <2>1. typed \in Seq(Char)
    BY <1>1 DEF PolicyInv, TypeOK
  <2>2. PICK hibp \in {"clean", "pwned", "error"} : verdict = ValidatePasswordSecure(typed, hibp)
    BY <1>1 DEF PolicyInv, VerdictInv
  <2>3. verdict \in {"ok", "pwned"} <=> LocalCheck(typed) = "ok"
    <3>1. LocalCheck(typed) \in {"short", "long", "complexity", "weak", "ok"}
      BY <2>1, LocalCheckFacts
    <3> QED
      BY <2>2, <3>1 DEF ValidatePasswordSecure
  <2>4. \A class : HasClass(typed, class) <=> ToSet(typed) \cap class # {}
    BY DEF HasClass, ToSet
  <2>5. AllClasses(typed) <=>
          {IsLower, IsUpper, IsDigit} =
            {class \in {IsLower, IsUpper, IsDigit} : ToSet(typed) \cap class # {}}
    BY <2>4, Zenon DEF AllClasses
  <2>6. LocalCheck(typed) = "ok" <=>
          Len(typed) \in MinLen .. MaxLen /\ AllClasses(typed) /\ ~Pattern(typed)
    BY <2>1, LocalCheckFacts
  <2> QED
    BY <2>3, <2>5, <2>6 DEF Pattern
<1> QED
  BY <1>1, PolicyInvariant, PTL

-----------------------------------------------------------------------------
(* What typing one more character leaves as it is.                         *)

LEMMA LongerBytes ==
  ASSUME NEW b \in Seq(Byte), NEW x \in Seq(Byte)
  PROVE  /\ b \o x \in Seq(Byte) /\ Len(b) \in Nat
         /\ Len(b \o x) \in Nat /\ Len(b) <= Len(b \o x)
         /\ \A i \in 1 .. Len(b) : (b \o x)[i] = b[i]
<1>1. /\ b \o x \in Seq(Byte) /\ Len(b \o x) = Len(b) + Len(x)
      /\ \A i \in 1 .. Len(b) + Len(x) : (b \o x)[i] = IF i <= Len(b) THEN b[i] ELSE x[i - Len(b)]
  BY ConcatProperties
<1>2. Len(b) \in Nat /\ Len(x) \in Nat
  BY LenProperties
<1> QED
  BY <1>1, <1>2

LEMMA SequencePersists ==
  ASSUME NEW s \in Seq(Char), NEW c \in Char, HasSequence(s)
  PROVE  HasSequence(Append(s, c))
<1> DEFINE b == LowerBytes(s)
           d == LowerBytes(Append(s, c))
<1>0. Append(s, c) \in Seq(Char) /\ SeqLen \in Nat \ {0}
  BY AppendProperties, LengthAssumption
<1>1. Len(b) \in Nat /\ Len(d) \in Nat /\ Len(b) <= Len(d) /\ \A i \in 1 .. Len(b) : d[i] = b[i]
  <2>1. b \in Seq(Byte) /\ Utf8[ToLower[c]] \in Seq(Byte) /\ d = b \o Utf8[ToLower[c]]
    BY BytesFacts
  <2> HIDE DEF b, d
  <2> QED
    BY <2>1, LongerBytes
<1>2. PICK order \in Order, i \in 1 .. Len(b) - SeqLen + 1 : Follows(b, i, SeqLen, order)
  BY SequenceFollows
<1> HIDE DEF b, d
<1>3. i \in 1 .. Len(d) - SeqLen + 1
  BY <1>0, <1>1
<1>4. Follows(d, i, SeqLen, order)
  <2>1. ASSUME NEW j \in 1 .. SeqLen - 1 PROVE i + j - 1 \in 1 .. Len(b) /\ i + j \in 1 .. Len(b)
    BY <1>0, <1>1
  <2> QED
    BY <1>1, <1>2, <2>1 DEF Follows
<1> QED
  BY <1>0, <1>3, <1>4, SequenceFollows DEF d

LEMMA RepetitionPersists ==
  ASSUME NEW s \in Seq(Char), NEW c \in Char, HasRepetitivePatterns(s)
  PROVE  HasRepetitivePatterns(Append(s, c))
<1> DEFINE b == Bytes(s)
           d == Bytes(Append(s, c))
<1>0. Append(s, c) \in Seq(Char)
  BY AppendProperties
<1>1. Len(b) \in Nat /\ Len(d) \in Nat /\ Len(b) <= Len(d) /\ \A i \in 1 .. Len(b) : d[i] = b[i]
  <2>1. b \in Seq(Byte) /\ Utf8[c] \in Seq(Byte) /\ d = b \o Utf8[c]
    BY BytesFacts
  <2> HIDE DEF b, d
  <2> QED
    BY <2>1, LongerBytes
<1>2. PICK k \in 1 .. MaxPeriod :
        \E i \in 1 .. Len(b) - Needed(k) * k + 1 : Periodic(b, i, k, Needed(k))
  BY RepetitionPeriodic
<1>3. PICK i \in 1 .. Len(b) - Needed(k) * k + 1 : Periodic(b, i, k, Needed(k))
  BY <1>2
<1> HIDE DEF b, d
<1>4. k \in Nat \ {0} /\ Needed(k) * k \in Nat
  BY NeededFacts, Products, RepAssumption
<1> DEFINE y == Needed(k) * k
<1>5. y \in Nat /\ i \in 1 .. Len(b) - y + 1
  BY <1>4
<1>6. \A j \in i .. i + y - k - 1 : b[j] = b[j + k]
  BY <1>3 DEF Periodic
<1> HIDE DEF y
<1>7. i \in 1 .. Len(d) - y + 1
  BY <1>1, <1>5
<1>8. ASSUME NEW j \in i .. i + y - k - 1 PROVE d[j] = d[j + k]
  <2>1. j \in 1 .. Len(b) /\ j + k \in 1 .. Len(b)
    BY <1>1, <1>4, <1>5
  <2> QED
    BY <1>1, <1>6, <2>1
<1>9. Periodic(d, i, k, Needed(k))
  BY <1>8 DEF Periodic, y
<1> QED
  BY <1>0, <1>7, <1>9, RepetitionPeriodic DEF d, y

LEMMA ContainsPersists ==
  ASSUME NEW b \in Seq(Byte), NEW x \in Seq(Byte), NEW word \in Seq(Byte), ContainsBytes(b, word)
  PROVE  ContainsBytes(b \o x, word)
<1> DEFINE d == b \o x
           n == Len(word)
<1>0. n \in Nat
  BY LenProperties
<1>1. d \in Seq(Byte) /\ Len(b) \in Nat /\ Len(d) \in Nat /\ Len(b) <= Len(d)
      /\ \A i \in 1 .. Len(b) : d[i] = b[i]
  BY LongerBytes
<1> HIDE DEF d
<1>2. PICK i \in 1 .. Len(b) - n + 1 : Substring(b, i, n) = word
  BY DEF ContainsBytes
<1>3. \A j \in 1 .. n : b[i + j - 1] = word[j]
  BY <1>0, <1>2, SubstringFacts
<1>4. i \in 1 .. Len(d) - n + 1
  BY <1>0, <1>1
<1>5. ASSUME NEW j \in 1 .. n PROVE d[i + j - 1] = word[j]
  <2>1. i + j - 1 \in 1 .. Len(b)
    BY <1>0, <1>1
  <2> QED
    BY <1>1, <1>3, <2>1
<1>6. Substring(d, i, n) = word
  <2> DEFINE v == Substring(d, i, n)
  <2>1. v \in Seq(Byte) /\ Len(v) = n /\ \A j \in 1 .. n : v[j] = d[i + j - 1]
    BY <1>0, <1>1, <1>4, SubstringFacts
  <2> HIDE DEF v
  <2>2. v = word
    BY <1>5, <2>1, SeqEqual
  <2> QED
    BY <2>2 DEF v
<1> QED
  BY <1>4, <1>6 DEF ContainsBytes, d

LEMMA PatternPersists ==
  ASSUME NEW s \in Seq(Char), NEW c \in Char, Pattern(s)
  PROVE  Pattern(Append(s, c))
<1>0. Append(s, c) \in Seq(Char)
  BY AppendProperties
<1>1. ASSUME ContainsPersonalData(s) PROVE ContainsPersonalData(Append(s, c))
  <2>1. /\ LowerBytes(s) \in Seq(Byte) /\ Utf8[ToLower[c]] \in Seq(Byte)
        /\ LowerBytes(Append(s, c)) = LowerBytes(s) \o Utf8[ToLower[c]]
    BY BytesFacts
  <2>2. \A word \in Seq(Byte) :
          ContainsBytes(LowerBytes(s), word) => ContainsBytes(LowerBytes(Append(s, c)), word)
    BY <2>1, ContainsPersists
  <2> QED
    BY <1>1, <2>2, WordAssumption DEF ContainsPersonalData
<1>2. /\ HasSequence(s) <=> IsSequential(s)
      /\ HasSequence(Append(s, c)) <=> IsSequential(Append(s, c))
      /\ HasRepetitivePatterns(s) <=> IsPeriodic(s)
      /\ HasRepetitivePatterns(Append(s, c)) <=> IsPeriodic(Append(s, c))
  BY <1>0, SequenceCheck, RepetitionCheck
<1> QED
  BY <1>1, <1>2, SequencePersists, RepetitionPersists DEF Pattern

LEMMA WeakPersists ==
  ASSUME NEW s \in Seq(Char), NEW c \in Char, LocalCheck(s) = "weak"
  PROVE  LocalCheck(Append(s, c)) \in {"weak", "long"}
<1> DEFINE t == Append(s, c)
<1>0. /\ t \in Seq(Char) /\ Len(t) = Len(s) + 1 /\ Len(s) \in Nat
      /\ DOMAIN s = 1 .. Len(s) /\ DOMAIN t = 1 .. Len(t) /\ \A i \in 1 .. Len(s) : t[i] = s[i]
      /\ MinLen \in Nat /\ MaxLen \in Nat
  BY AppendProperties, LenProperties, LengthAssumption
<1>1. Len(s) \in MinLen .. MaxLen /\ AllClasses(s) /\ Pattern(s)
  BY LocalCheckFacts
<1>2. Pattern(t)
  BY <1>1, PatternPersists
<1> HIDE DEF t
<1>3. AllClasses(t)
  <2>1. \A class : HasClass(s, class) => HasClass(t, class)
    BY <1>0 DEF HasClass
  <2> QED
    BY <1>1, <2>1 DEF AllClasses
<1>4. /\ LocalCheck(t) = "weak" <=> Len(t) \in MinLen .. MaxLen /\ AllClasses(t) /\ Pattern(t)
      /\ LocalCheck(t) = "long" <=> Len(t) >= MinLen /\ Len(t) > MaxLen
  BY <1>0, LocalCheckFacts
<1>5. Len(t) \in MinLen .. MaxLen \/ (Len(t) >= MinLen /\ Len(t) > MaxLen)
  BY <1>0, <1>1
<1> QED
  BY <1>2, <1>3, <1>4, <1>5 DEF t

(* No rule of validatePasswordSecure can be typed away: what is too weak   *)
(* stays so until it is too long.                                          *)
THEOREM WeakNeverCured == Spec => WeakStaysWeak
<1>1. ASSUME PolicyInv, [Next]_vars
      PROVE  [LocalCheck(typed) = "weak" => LocalCheck(typed') \in {"weak", "long"}]_vars
  <2>1. ASSUME NEW c \in Char, Type(c), LocalCheck(typed) = "weak"
        PROVE  LocalCheck(typed') \in {"weak", "long"}
    BY <1>1, <2>1, WeakPersists DEF Type, PolicyInv, TypeOK
  <2>2. ASSUME NEW hibp \in {"clean", "pwned", "error"}, Submit(hibp), LocalCheck(typed) = "weak"
        PROVE  LocalCheck(typed') \in {"weak", "long"}
    BY <2>2 DEF Submit
  <2> QED
    BY <1>1, <2>1, <2>2 DEF Next
<1> QED
  BY <1>1, PolicyInvariant, PTL DEF Spec, WeakStaysWeak

=============================================================================
