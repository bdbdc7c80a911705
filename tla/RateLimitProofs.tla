-------------------------- MODULE RateLimitProofs ---------------------------
(***************************************************************************)
(* Proofs about RateLimit, for any keys, any number of attempts at once    *)
(* and any tiers.                                                          *)
(***************************************************************************)
EXTENDS RateLimit, FiniteSetTheorems, TLAPS

-----------------------------------------------------------------------------
(* Induction, stated with sets of numbers.                                 *)

LEMMA SmallestNumber ==
  ASSUME NEW S \in SUBSET Nat, S # {}
  PROVE  \E n \in S : \A m \in S : n <= m
<1> DEFINE R == {ss \in Nat \X Nat : ss[1] < ss[2]}
<1>1. IsWellFoundedOn(R, Nat)
  BY NatLessThanWellFounded DEF OpToRel
<1>2. PICK n \in S : \A m \in S : <<m, n>> \notin R
  <2> HIDE DEF R
  <2> QED
    BY <1>1, WFMin
<1>3. ASSUME NEW m \in S PROVE n <= m
  <2>1. <<m, n>> \in Nat \X Nat /\ <<m, n>>[1] = m /\ <<m, n>>[2] = n
    OBVIOUS
  <2>2. ~(m < n)
    BY <1>2, <2>1
  <2> QED
    BY <2>2
<1> QED
  BY <1>3

LEMMA NumberInduction ==
  ASSUME NEW S \in SUBSET Nat, 0 \in S, \A n \in S : n + 1 \in S
  PROVE  S = Nat
<1> SUFFICES ASSUME S # Nat PROVE FALSE
  OBVIOUS
<1>1. PICK n \in Nat \ S : \A m \in Nat \ S : n <= m
  <2>1. Nat \ S \in SUBSET Nat /\ Nat \ S # {}
    OBVIOUS
  <2> QED
    BY <2>1, SmallestNumber
<1>2. n - 1 \in Nat /\ n - 1 \in S
  BY <1>1
<1> QED
  BY <1>1, <1>2

(* A finite, nonempty set of numbers has a greatest and a least element.   *)
LEMMA MaxFacts ==
  ASSUME NEW S \in SUBSET Nat, IsFiniteSet(S), S # {}
  PROVE  Max(S) \in S /\ \A x \in S : x <= Max(S)
<1> DEFINE Bounded(n) == \A U \in SUBSET S : IsFiniteSet(U) /\ Cardinality(U) = n
                           => \E b \in Nat : \A x \in U : x <= b
           N == {n \in Nat : Bounded(n)}
<1>1. 0 \in N
  BY FS_EmptySet
<1>2. ASSUME NEW n \in N PROVE n + 1 \in N
  <2> SUFFICES ASSUME NEW U \in SUBSET S, IsFiniteSet(U), Cardinality(U) = n + 1
               PROVE  \E b \in Nat : \A x \in U : x <= b
    OBVIOUS
  <2>1. U # {}
    BY FS_EmptySet
  <2>2. PICK u \in U : TRUE
    BY <2>1
  <2>3. IsFiniteSet(U \ {u}) /\ Cardinality(U \ {u}) = n
    <3>1. /\ IsFiniteSet(U \ {u})
          /\ Cardinality(U \ {u}) = IF u \in U THEN Cardinality(U) - 1 ELSE Cardinality(U)
      BY FS_RemoveElement
    <3>2. n \in Nat
      OBVIOUS
    <3> QED
      BY <3>1, <3>2
  <2>4. PICK b \in Nat : \A x \in U \ {u} : x <= b
    BY <2>3
  <2>5. \A x \in U : x <= b + u
    BY <2>4
  <2> QED
    BY <2>5
<1>3. N = Nat
  <2> HIDE DEF N
  <2>1. N \in SUBSET Nat
    BY DEF N
  <2> QED
    BY <1>1, <1>2, <2>1, NumberInduction
<1>4. PICK b \in Nat : \A x \in S : x <= b
  BY <1>3, FS_CardinalityType
<1>5. PICK m \in S : \A x \in S : x <= m
  <2> DEFINE D == {b - x : x \in S}
  <2>1. D \in SUBSET Nat /\ D # {}
    <3>1. \A x \in S : x \in Nat /\ b - x \in Nat
      BY <1>4
    <3> QED
      BY <3>1
  <2>2. PICK d \in D : \A e \in D : d <= e
    BY <2>1, SmallestNumber
  <2>3. PICK m \in S : d = b - m
    BY <2>2
  <2>4. ASSUME NEW x \in S PROVE x <= m
    <3>1. b - x \in D /\ x \in Nat /\ m \in Nat /\ b \in Nat
      OBVIOUS
    <3>2. b - m <= b - x
      BY <2>2, <2>3, <3>1
    <3> QED
      BY <3>1, <3>2
  <2> QED
    BY <2>4
<1> QED
  BY <1>5 DEF Max

LEMMA MinFacts ==
  ASSUME NEW S \in SUBSET Nat, S # {}
  PROVE  Min(S) \in S /\ \A x \in S : Min(S) <= x
  BY SmallestNumber DEF Min

-----------------------------------------------------------------------------
(* The tiers.                                                              *)

LEMMA BlockFacts ==
  ASSUME NEW n \in Nat
  PROVE  /\ BlockDuration(n) \in Nat
         /\ BlockDuration(n) = 0 => \A t \in Tiers : n < t.threshold
<1> DEFINE U == {u \in Tiers : n >= u.threshold}
           B == {t.block : t \in U}
<1>0. \A t \in Tiers : t.block \in Nat \ {0} /\ t.threshold \in Nat \ {0}
  BY TierAssumption
<1>1. IsFiniteSet(B)
  <2>1. IsFiniteSet(U)
    BY TierAssumption, FS_Subset
  <2> DEFINE f == [t \in U |-> t.block]
  <2>2. f \in Surjection(U, B)
    BY DEF Surjection
  <2> HIDE DEF U, B, f
  <2> QED
    BY <2>1, <2>2, FS_Surjection
<1>2. {0} \cup B \in SUBSET Nat /\ {0} \cup B # {}
  BY <1>0
<1>3. IsFiniteSet({0} \cup B)
  <2> HIDE DEF B
  <2>1. IsFiniteSet(B \cup {0})
    BY <1>1, FS_AddElement
  <2>2. B \cup {0} = {0} \cup B
    OBVIOUS
  <2> QED
    BY <2>1, <2>2
<1>4. /\ Max({0} \cup B) \in {0} \cup B
      /\ \A x \in {0} \cup B : x <= Max({0} \cup B)
  <2> HIDE DEF B
  <2> QED
    BY <1>2, <1>3, MaxFacts
<1>5. BlockDuration(n) = Max({0} \cup B)
  BY DEF BlockDuration
<1>6. ASSUME BlockDuration(n) = 0, NEW t \in Tiers, ~(n < t.threshold) PROVE FALSE
  <2>1. t \in U
    BY <1>0, <1>6
  <2>2. t.block \in B
    BY <2>1
  <2>3. t.block <= 0
    BY <1>4, <1>5, <1>6, <2>2
  <2> QED
    BY <1>0, <2>3
<1> QED
  BY <1>2, <1>4, <1>5, <1>6

LEMMA ThresholdFacts ==
  /\ LowestThreshold \in Nat /\ 1 < LowestThreshold
  /\ LowestThreshold <= MaxCount /\ MaxCount \in Nat
  /\ \A n \in Nat : BlockDuration(n) = 0 => n <= LowestThreshold - 1
<1> DEFINE T == {t.threshold : t \in Tiers}
<1>1. T \in SUBSET Nat /\ T # {}
  BY TierAssumption
<1>2. LowestThreshold \in T
  <2>1. LowestThreshold = Min(T)
    BY DEF LowestThreshold
  <2> HIDE DEF T
  <2> QED
    BY <1>1, <2>1, MinFacts
<1>3. PICK t \in Tiers : LowestThreshold = t.threshold
  BY <1>2
<1>4. t.threshold \in Nat /\ 1 < t.threshold /\ t.threshold <= MaxCount
      /\ MaxCount \in Nat
  BY TierAssumption, CounterAssumption
<1>5. ASSUME NEW n \in Nat, BlockDuration(n) = 0
      PROVE  n <= LowestThreshold - 1
  <2>1. n < t.threshold
    BY <1>5, BlockFacts
  <2> QED
    BY <1>3, <1>4, <2>1
<1> QED
  BY <1>3, <1>4, <1>5

-----------------------------------------------------------------------------
(* Sums over the ages of a window.                                         *)

Window == [Age -> Nat]

(* upTo adds the entries of f one by one; Total is where it ends.          *)
Sums(f, upTo) ==
  /\ upTo \in [0 .. CounterTTL -> Nat]
  /\ upTo[0] = 0
  /\ \A i \in 1 .. CounterTTL : upTo[i] = upTo[i - 1] + f[i - 1]

LEMMA TotalFacts ==
  ASSUME NEW f \in Window
  PROVE  \E upTo : Sums(f, upTo) /\ Total(f) = upTo[CounterTTL]
<1>t. CounterTTL \in Nat \ {0}
  BY CounterAssumption
<1> DEFINE Rec(g, n) == g = [i \in 0 .. n |-> IF i = 0 THEN 0 ELSE g[i - 1] + f[i - 1]]
           Good(n) == \E g : Rec(g, n)
           N == {n \in Nat : Good(n)}
<1>1. 0 \in N
  <2>1. Rec([i \in 0 .. 0 |-> 0], 0)
    OBVIOUS
  <2> QED
    BY <2>1
<1>2. ASSUME NEW n \in N PROVE n + 1 \in N
  <2>1. PICK h : Rec(h, n)
    OBVIOUS
  <2> DEFINE g == [i \in 0 .. n + 1 |-> IF i <= n THEN h[i] ELSE h[n] + f[n]]
  <2>2. ASSUME NEW i \in 0 .. n + 1
        PROVE  g[i] = IF i = 0 THEN 0 ELSE g[i - 1] + f[i - 1]
    <3>1. CASE i <= n
      BY <2>1, <3>1
    <3>2. CASE i = n + 1
      BY <3>2
    <3> QED
      BY <3>1, <3>2
  <2>3. Rec(g, n + 1)
    BY <2>2
  <2>4. Good(n + 1)
    <3> HIDE DEF Rec, g
    <3> QED
      BY <2>3
  <2> QED
    BY <2>4
<1>3. N = Nat
  <2>1. N \in SUBSET Nat
    OBVIOUS
  <2> HIDE DEF N
  <2> QED
    BY <1>1, <1>2, <2>1, NumberInduction
<1>4. \E g : Rec(g, CounterTTL)
  <2>1. CounterTTL \in N
    BY <1>t, <1>3
  <2> HIDE DEF Rec
  <2> QED
    BY <2>1
<1> DEFINE c == CHOOSE g : Rec(g, CounterTTL)
<1>5. Rec(c, CounterTTL)
  <2> HIDE DEF Rec
  <2> QED
    BY <1>4
<1>6. Total(f) = c[CounterTTL]
  BY DEF Total
<1> HIDE DEF c
<1>7. ASSUME NEW i \in 0 .. CounterTTL
      PROVE  c[i] = IF i = 0 THEN 0 ELSE c[i - 1] + f[i - 1]
  BY <1>5
<1> DEFINE M == {i \in Nat : i <= CounterTTL => c[i] \in Nat}
<1>8. M = Nat
  <2>1. 0 \in M
    BY <1>7, <1>t
  <2>2. ASSUME NEW i \in M PROVE i + 1 \in M
    <3> SUFFICES ASSUME i + 1 <= CounterTTL PROVE c[i + 1] \in Nat
      OBVIOUS
    <3>1. i \in Age /\ c[i] \in Nat /\ i + 1 \in 0 .. CounterTTL
      BY <1>t DEF Age
    <3>2. f[i] \in Nat
      BY <3>1 DEF Window
    <3>3. c[i + 1] = c[i] + f[i]
      BY <1>7, <3>1
    <3> QED
      BY <3>1, <3>2, <3>3
  <2>3. M \in SUBSET Nat
    OBVIOUS
  <2> HIDE DEF M
  <2> QED
    BY <2>1, <2>2, <2>3, NumberInduction
<1>9. c \in [0 .. CounterTTL -> Nat]
  <2>1. \A i \in 0 .. CounterTTL : c[i] \in Nat
    BY <1>8, <1>t
  <2>2. c = [i \in 0 .. CounterTTL |-> c[i]]
    BY <1>5
  <2> QED
    BY <2>1, <2>2
<1>10. Sums(f, c)
  <2>1. c[0] = 0
    BY <1>7, <1>t
  <2>2. \A i \in 1 .. CounterTTL : c[i] = c[i - 1] + f[i - 1]
    BY <1>7, <1>t
  <2> QED
    BY <1>9, <2>1, <2>2 DEF Sums
<1> QED
  BY <1>6, <1>10

(* Of two sums over the same ages, each built entry by entry.              *)
LEMMA TotalType ==
  ASSUME NEW f \in Window
  PROVE  Total(f) \in Nat
<1>1. PICK a : Sums(f, a) /\ Total(f) = a[CounterTTL]
  BY TotalFacts
<1>2. CounterTTL \in 0 .. CounterTTL
  BY CounterAssumption
<1> QED
  BY <1>1, <1>2 DEF Sums

LEMMA TotalPlus ==
  ASSUME NEW f \in Window, NEW g \in Window
  PROVE  Total([i \in Age |-> f[i] + g[i]]) = Total(f) + Total(g)
<1> DEFINE h == [i \in Age |-> f[i] + g[i]]
<1>t. CounterTTL \in Nat \ {0} /\ h \in Window
  BY CounterAssumption DEF Window
<1>1. PICK a : Sums(f, a) /\ Total(f) = a[CounterTTL]
  BY TotalFacts
<1>2. PICK b : Sums(g, b) /\ Total(g) = b[CounterTTL]
  BY TotalFacts
<1>3. PICK c : Sums(h, c) /\ Total(h) = c[CounterTTL]
  BY <1>t, TotalFacts
<1> DEFINE M == {i \in Nat : i <= CounterTTL => c[i] = a[i] + b[i]}
<1>4. M = Nat
  <2>1. 0 \in M
    BY <1>1, <1>2, <1>3 DEF Sums
  <2>2. ASSUME NEW i \in M PROVE i + 1 \in M
    <3> SUFFICES ASSUME i + 1 <= CounterTTL PROVE c[i + 1] = a[i + 1] + b[i + 1]
      OBVIOUS
    <3>1. i \in Age /\ c[i] = a[i] + b[i] /\ i + 1 \in 1 .. CounterTTL
          /\ i \in 0 .. CounterTTL
      BY <1>t DEF Age
    <3>2. h[i] = f[i] + g[i] /\ f[i] \in Nat /\ g[i] \in Nat
      BY <3>1 DEF Window
    <3>3. /\ c[i + 1] = c[i] + h[i]
          /\ a[i + 1] = a[i] + f[i] /\ b[i + 1] = b[i] + g[i]
          /\ a[i] \in Nat /\ b[i] \in Nat /\ c[i] \in Nat
      <4>1. (i + 1) - 1 = i
        BY <3>1
      <4> HIDE DEF h
      <4> QED
        BY <1>1, <1>2, <1>3, <3>1, <4>1 DEF Sums
    <3> HIDE DEF h
    <3> QED
      BY <3>1, <3>2, <3>3
  <2>3. M \in SUBSET Nat
    OBVIOUS
  <2> HIDE DEF M
  <2> QED
    BY <2>1, <2>2, <2>3, NumberInduction
<1> QED
  BY <1>1, <1>2, <1>3, <1>4, <1>t

(* Time shifts a window by one age, and what leaves it is not counted.     *)
Shift(f) == [i \in Age |-> IF i = 0 THEN 0 ELSE f[i - 1]]

LEMMA TotalShift ==
  ASSUME NEW f \in Window
  PROVE  Shift(f) \in Window /\ Total(Shift(f)) <= Total(f)
<1>t. CounterTTL \in Nat \ {0}
  BY CounterAssumption
<1>s. Shift(f) \in Window
  BY <1>t DEF Shift, Window, Age
<1>1. PICK a : Sums(f, a) /\ Total(f) = a[CounterTTL]
  BY TotalFacts
<1>2. PICK c : Sums(Shift(f), c) /\ Total(Shift(f)) = c[CounterTTL]
  BY <1>s, TotalFacts
<1> DEFINE M == {i \in Nat : i + 1 <= CounterTTL => c[i + 1] = a[i]}
<1>3. M = Nat
  <2>1. 0 \in M
    <3>1. c[1] = c[0] + Shift(f)[0] /\ c[0] = 0 /\ a[0] = 0
      BY <1>1, <1>2, <1>t DEF Sums
    <3>2. Shift(f)[0] = 0
      BY <1>t DEF Shift, Age
    <3> QED
      BY <3>1, <3>2
  <2>2. ASSUME NEW i \in M PROVE i + 1 \in M
    <3> SUFFICES ASSUME i + 2 <= CounterTTL PROVE c[i + 2] = a[i + 1]
      OBVIOUS
    <3>1. /\ i \in Age /\ i + 1 \in Age /\ i + 1 \in 1 .. CounterTTL
          /\ i + 2 \in 1 .. CounterTTL /\ c[i + 1] = a[i]
          /\ (i + 1) - 1 = i /\ (i + 2) - 1 = i + 1
      BY <1>t DEF Age
    <3>2. Shift(f)[i + 1] = f[i]
      BY <3>1 DEF Shift
    <3>3. c[i + 2] = c[i + 1] + Shift(f)[i + 1] /\ a[i + 1] = a[i] + f[i]
      BY <1>1, <1>2, <3>1 DEF Sums
    <3> QED
      BY <3>1, <3>2, <3>3
  <2>3. M \in SUBSET Nat
    OBVIOUS
  <2> HIDE DEF M
  <2> QED
    BY <2>1, <2>2, <2>3, NumberInduction
<1>4. c[CounterTTL] = a[CounterTTL - 1]
  <2>1. CounterTTL - 1 \in M
    BY <1>3, <1>t
  <2> QED
    BY <2>1, <1>t
<1>5. /\ a[CounterTTL] = a[CounterTTL - 1] + f[CounterTTL - 1]
      /\ a[CounterTTL - 1] \in Nat /\ f[CounterTTL - 1] \in Nat
  BY <1>1, <1>t DEF Sums, Window, Age
<1> QED
  BY <1>s, <1>1, <1>2, <1>4, <1>5

LEMMA TotalZero ==
  LET zero == [i \in Age |-> 0] IN zero \in Window /\ Total(zero) = 0
<1> DEFINE zero == [i \in Age |-> 0]
<1>1. zero \in Window
  BY DEF Window
<1>2. \A i \in Age : zero[i] + zero[i] = zero[i]
  OBVIOUS
<1>3. [i \in Age |-> zero[i] + zero[i]] = zero
  BY <1>2
<1>4. Total(zero) = Total(zero) + Total(zero)
  <2> HIDE DEF zero
  <2> QED
    BY <1>1, <1>3, TotalPlus
<1>5. Total(zero) \in Nat
  <2> HIDE DEF zero
  <2> QED
    BY <1>1, TotalType
<1> HIDE DEF zero
<1>6. Total(zero) = 0
  <2>1. \A n \in Nat : n = n + n => n = 0
    OBVIOUS
  <2> QED
    BY <1>4, <1>5, <2>1
<1> USE DEF zero
<1> QED
  BY <1>1, <1>6

LEMMA TotalAddOne ==
  ASSUME NEW f \in Window
  PROVE  /\ [f EXCEPT ![0] = @ + 1] \in Window
         /\ Total([f EXCEPT ![0] = @ + 1]) = Total(f) + 1
<1> DEFINE h == [f EXCEPT ![0] = @ + 1]
<1>t. CounterTTL \in Nat \ {0} /\ 0 \in Age
  BY CounterAssumption DEF Age
<1>0. h \in Window /\ h[0] = f[0] + 1 /\ \A i \in Age \ {0} : h[i] = f[i]
  BY <1>t DEF Window
<1> HIDE DEF h
<1>1. PICK a : Sums(f, a) /\ Total(f) = a[CounterTTL]
  BY TotalFacts
<1>2. PICK c : Sums(h, c) /\ Total(h) = c[CounterTTL]
  BY <1>0, TotalFacts
<1> DEFINE M == {i \in Nat : i + 1 <= CounterTTL => c[i + 1] = a[i + 1] + 1}
<1>3. M = Nat
  <2>1. 0 \in M
    <3>1. c[1] = c[0] + h[0] /\ c[0] = 0 /\ a[1] = a[0] + f[0] /\ a[0] = 0
          /\ f[0] \in Nat
      BY <1>1, <1>2, <1>t DEF Sums, Window
    <3> QED
      BY <1>0, <3>1
  <2>2. ASSUME NEW i \in M PROVE i + 1 \in M
    <3> SUFFICES ASSUME i + 2 <= CounterTTL PROVE c[i + 2] = a[i + 2] + 1
      OBVIOUS
    <3>1. /\ i + 1 \in Age \ {0} /\ i + 1 \in 0 .. CounterTTL
          /\ i + 2 \in 1 .. CounterTTL /\ c[i + 1] = a[i + 1] + 1
          /\ (i + 2) - 1 = i + 1
      BY <1>t DEF Age
    <3>2. /\ c[i + 2] = c[i + 1] + h[i + 1] /\ a[i + 2] = a[i + 1] + f[i + 1]
          /\ a[i + 1] \in Nat /\ f[i + 1] \in Nat
      BY <1>1, <1>2, <3>1 DEF Sums, Window
    <3> QED
      BY <1>0, <3>1, <3>2
  <2>3. M \in SUBSET Nat
    OBVIOUS
  <2> HIDE DEF M
  <2> QED
    BY <2>1, <2>2, <2>3, NumberInduction
<1>4. c[CounterTTL] = a[CounterTTL] + 1
  <2>1. CounterTTL - 1 \in M
    <3> HIDE DEF M
    <3> QED
      BY <1>3, <1>t
  <2> QED
    BY <2>1, <1>t
<1> USE DEF h
<1> QED
  BY <1>0, <1>1, <1>2, <1>4

-----------------------------------------------------------------------------
(* The inductive invariant.                                                *)

(* An attempt under way has its two keys, and works on one of them.        *)
AttemptOK(a) ==
  pc[a] # "idle" =>
    /\ att[a].ip \in IP /\ att[a].email \in Email
    /\ att[a].key \in {att[a].ip, att[a].email}

(* Redis holds a counter exactly when it has a TTL, or Never.              *)
CounterOK(k) == count[k] = 0 <=> countTTL[k] = 0

(* What the last CounterTTL ticks let through comes from the present life  *)
(* of the counter, each attempt with its own number, and from at most one  *)
(* life before it: a counter with a TTL left is older than what it has     *)
(* used of it, so what came before is that old, and gone when it expires.  *)
TwoLives(k) ==
  \E cur, old \in Window :
    /\ admitted[k] = [i \in Age |-> cur[i] + old[i]]
    /\ Total(cur) <= LowestThreshold - 1 /\ Total(cur) <= count[k]
    /\ Total(old) <= LowestThreshold - 1
    /\ \A i \in Age :
         countTTL[k] > 0 /\ i < CounterTTL - countTTL[k] => old[i] = 0

LimitInv ==
  /\ TypeOK
  /\ \A a \in Attempt : AttemptOK(a)
  /\ \A k \in Key : CounterOK(k)
  /\ \A k \in Key : TwoLives(k)

(* A window in which nothing was let through is the sum of two others.     *)
LEMMA NoLives ==
  \E cur, old \in Window :
    /\ [i \in Age |-> 0] = [i \in Age |-> cur[i] + old[i]]
    /\ Total(cur) = 0 /\ Total(old) = 0
    /\ \A i \in Age : old[i] = 0
<1> DEFINE zero == [i \in Age |-> 0]
<1>1. zero \in Window /\ Total(zero) = 0
  BY TotalZero
<1>2. \A i \in Age : zero[i] = 0
  OBVIOUS
<1>3. zero = [i \in Age |-> zero[i] + zero[i]]
  BY <1>2
<1> HIDE DEF zero
<1>4. \E cur, old \in Window :
        /\ zero = [i \in Age |-> cur[i] + old[i]]
        /\ Total(cur) = 0 /\ Total(old) = 0
        /\ \A i \in Age : old[i] = 0
  BY <1>1, <1>2, <1>3
<1> QED
  BY <1>4 DEF zero

LEMMA LimitInit == Init => LimitInv
<1> SUFFICES ASSUME Init PROVE LimitInv
  OBVIOUS
<1>c. CounterTTL \in Nat \ {0} /\ MaxCount \in Nat
  BY CounterAssumption
<1>1. TypeOK
  BY <1>c DEF Init, TypeOK, NoAttempt, Age
<1>2. \A a \in Attempt : AttemptOK(a)
  BY DEF Init, AttemptOK
<1>3. \A k \in Key : CounterOK(k)
  BY DEF Init, CounterOK
<1>4. ASSUME NEW k \in Key PROVE TwoLives(k)
  <2>1. count[k] = 0 /\ admitted[k] = [i \in Age |-> 0]
    BY DEF Init
  <2> QED
    BY <2>1, NoLives, ThresholdFacts DEF TwoLives
<1> QED
  BY <1>1, <1>2, <1>3, <1>4 DEF LimitInv

-----------------------------------------------------------------------------
(* Steps on the counters.                                                  *)

(* A step that lets nobody through and starts or ends no life of k.        *)
LEMMA SameLives ==
  ASSUME LimitInv, NEW k \in Key, admitted'[k] = admitted[k],
         count'[k] \in Nat, count[k] <= count'[k],
         countTTL'[k] \in {countTTL[k], Never, 0, CounterTTL}
  PROVE  TwoLives(k)'
<1>t. /\ CounterTTL \in Nat \ {0} /\ count[k] \in Nat /\ countTTL[k] \in Int
      /\ LowestThreshold \in Nat
  BY CounterAssumption, ThresholdFacts DEF LimitInv, TypeOK, Never
<1>1. PICK cur \in Window, old \in Window :
        /\ admitted[k] = [i \in Age |-> cur[i] + old[i]]
        /\ Total(cur) <= LowestThreshold - 1 /\ Total(cur) <= count[k]
        /\ Total(old) <= LowestThreshold - 1
        /\ \A i \in Age :
             countTTL[k] > 0 /\ i < CounterTTL - countTTL[k] => old[i] = 0
  BY DEF LimitInv, TwoLives
<1>2. Total(cur) \in Nat
  BY TotalType
<1>3. Total(cur) <= count'[k]
  BY <1>t, <1>1, <1>2
<1>4. ASSUME NEW i \in Age, countTTL'[k] > 0, i < CounterTTL - countTTL'[k]
      PROVE  old[i] = 0
  BY <1>t, <1>1, <1>4 DEF Age, Never
<1> QED
  BY <1>1, <1>3, <1>4 DEF TwoLives

(* INCR gives the attempt the next number, and the attempt is let through  *)
(* only if that number is below every threshold.                           *)
LEMMA IncrLives ==
  ASSUME LimitInv, NEW k \in Key,
         count'[k] = Plus1(count[k]),
         countTTL'[k] \in {countTTL[k], Never},
         admitted'[k] = IF BlockDuration(Plus1(count[k])) = 0
                        THEN [admitted[k] EXCEPT ![0] = @ + 1]
                        ELSE admitted[k]
  PROVE  TwoLives(k)'
<1>t. /\ CounterTTL \in Nat \ {0} /\ 0 \in Age
      /\ count[k] \in Nat /\ countTTL[k] \in Int
      /\ count[k] <= MaxCount /\ MaxCount \in Nat
      /\ LowestThreshold \in Nat /\ LowestThreshold <= MaxCount
  BY CounterAssumption, ThresholdFacts DEF LimitInv, TypeOK, Never, Age
<1>0. Plus1(count[k]) \in Nat /\ count[k] <= Plus1(count[k])
  BY <1>t DEF Plus1
<1>1. CASE BlockDuration(Plus1(count[k])) # 0
  BY <1>0, <1>1, SameLives
<1>2. CASE BlockDuration(Plus1(count[k])) = 0
  <2>1. PICK cur \in Window, old \in Window :
          /\ admitted[k] = [i \in Age |-> cur[i] + old[i]]
          /\ Total(cur) <= LowestThreshold - 1 /\ Total(cur) <= count[k]
          /\ Total(old) <= LowestThreshold - 1
          /\ \A i \in Age :
               countTTL[k] > 0 /\ i < CounterTTL - countTTL[k] => old[i] = 0
    BY DEF LimitInv, TwoLives
  <2> DEFINE new == [cur EXCEPT ![0] = @ + 1]
  <2>2. new \in Window /\ Total(new) = Total(cur) + 1 /\ Total(cur) \in Nat
    BY TotalAddOne, TotalType
  <2>3. Plus1(count[k]) <= LowestThreshold - 1
    BY <1>0, <1>2, ThresholdFacts
  <2>4. Plus1(count[k]) = count[k] + 1
    BY <1>t, <2>3 DEF Plus1
  <2>5. Total(new) <= LowestThreshold - 1 /\ Total(new) <= count'[k]
    BY <1>t, <2>1, <2>2, <2>3, <2>4
  <2>6. admitted'[k] = [i \in Age |-> new[i] + old[i]]
    <3>1. /\ new[0] = cur[0] + 1
          /\ \A i \in Age \ {0} : new[i] = cur[i]
          /\ \A i \in Age : cur[i] \in Nat /\ old[i] \in Nat
      BY <1>t DEF Window
    <3>2. admitted'[k] = [admitted[k] EXCEPT ![0] = @ + 1]
      BY <1>2
    <3> HIDE DEF new
    <3> QED
      BY <1>t, <2>1, <3>1, <3>2
  <2>7. ASSUME NEW i \in Age, countTTL'[k] > 0, i < CounterTTL - countTTL'[k]
        PROVE  old[i] = 0
    BY <1>t, <2>1, <2>7 DEF Never
  <2> HIDE DEF new
  <2> QED
    BY <2>1, <2>2, <2>5, <2>6, <2>7 DEF TwoLives
<1> QED
  BY <1>1, <1>2

(* A tick ages the window; a counter that expires makes its life the old   *)
(* one, the former old one having left the window.                         *)
LEMMA TickLives ==
  ASSUME LimitInv, Tick, NEW k \in Key
  PROVE  TwoLives(k)'
<1>t. /\ CounterTTL \in Nat \ {0} /\ count[k] \in Nat /\ countTTL[k] \in Int
      /\ LowestThreshold \in Nat /\ 1 < LowestThreshold
      /\ countTTL[k] <= CounterTTL
  BY CounterAssumption, ThresholdFacts DEF LimitInv, TypeOK, Never
<1>1. PICK cur \in Window, old \in Window :
        /\ admitted[k] = [i \in Age |-> cur[i] + old[i]]
        /\ Total(cur) <= LowestThreshold - 1 /\ Total(cur) <= count[k]
        /\ Total(old) <= LowestThreshold - 1
        /\ \A i \in Age :
             countTTL[k] > 0 /\ i < CounterTTL - countTTL[k] => old[i] = 0
  BY DEF LimitInv, TwoLives
<1>2. /\ count'[k] = IF countTTL[k] = 1 THEN 0 ELSE count[k]
      /\ countTTL'[k] = Elapse(countTTL[k])
      /\ admitted'[k] = Shift(admitted[k])
  BY DEF Tick, Shift
<1>3. admitted'[k] = [i \in Age |-> Shift(cur)[i] + Shift(old)[i]]
  <2>1. \A i \in Age : i # 0 => i - 1 \in Age
    BY <1>t DEF Age
  <2> QED
    BY <1>1, <1>2, <2>1 DEF Shift
<1>4. /\ Shift(cur) \in Window /\ Total(Shift(cur)) <= Total(cur)
      /\ Total(cur) \in Nat /\ Total(Shift(cur)) \in Nat
      /\ Shift(old) \in Window /\ Total(Shift(old)) <= Total(old)
      /\ Total(old) \in Nat /\ Total(Shift(old)) \in Nat
  BY TotalShift, TotalType
<1>5. CASE countTTL[k] = 1
  <2> DEFINE zero == [i \in Age |-> 0]
  <2>1. ASSUME NEW i \in Age PROVE Shift(old)[i] = 0 /\ Shift(cur)[i] \in Nat
    <3>1. i = 0 \/ (i - 1 \in Age /\ i - 1 < CounterTTL - 1)
      BY <1>t DEF Age
    <3> QED
      BY <1>1, <1>4, <1>5, <3>1 DEF Shift, Window
  <2>2. admitted'[k] = [i \in Age |-> zero[i] + Shift(cur)[i]]
    BY <1>3, <2>1
  <2>3. zero \in Window /\ Total(zero) = 0
    BY TotalZero
  <2>4. count'[k] = 0 /\ countTTL'[k] = 0
    BY <1>2, <1>5 DEF Elapse
  <2>5. Total(Shift(cur)) <= LowestThreshold - 1
    BY <1>t, <1>1, <1>4
  <2> HIDE DEF zero
  <2> QED
    BY <1>t, <1>4, <2>2, <2>3, <2>4, <2>5 DEF TwoLives
<1>6. CASE countTTL[k] # 1
  <2>1. count'[k] = count[k]
    BY <1>2, <1>6
  <2>2. /\ Total(Shift(cur)) <= LowestThreshold - 1
        /\ Total(Shift(cur)) <= count'[k]
        /\ Total(Shift(old)) <= LowestThreshold - 1
    BY <1>t, <1>1, <1>4, <2>1
  <2>3. ASSUME NEW i \in Age, countTTL'[k] > 0, i < CounterTTL - countTTL'[k]
        PROVE  Shift(old)[i] = 0
    <3>1. i = 0 \/ i - 1 \in Age
      BY <1>t DEF Age
    <3>2. countTTL[k] > 0 /\ countTTL'[k] = countTTL[k] - 1
      BY <1>t, <1>2, <2>3 DEF Elapse
    <3>3. i # 0 => old[i - 1] = 0
      BY <1>t, <1>1, <2>3, <3>1, <3>2 DEF Age
    <3> QED
      BY <3>3 DEF Shift
  <2> QED
    BY <1>3, <1>4, <2>2, <2>3 DEF TwoLives
<1> QED
  BY <1>5, <1>6

-----------------------------------------------------------------------------
(* Steps of an attempt.                                                    *)

Att == [ip: IP \cup {None}, email: Email \cup {None},
        key: Key \cup {None}, n: 0 .. MaxCount]

AttPc == {"idle", "ttl", "incr", "expire", "block", "verify",
          "resetEmail", "resetIP"}

(* One attempt moves, keeps its types and its keys, or ends.               *)
Moves(a) ==
  /\ pc' \in [Attempt -> AttPc] /\ att' \in [Attempt -> Att]
  /\ \A b \in Attempt : AttemptOK(b)'

LEMMA FinishMoves ==
  ASSUME LimitInv, NEW a \in Attempt, Finish(a)
  PROVE  Moves(a)
<1>1. NoAttempt \in Att
  BY CounterAssumption DEF NoAttempt, Att
<1>2. pc \in [Attempt -> AttPc] /\ att \in [Attempt -> Att]
  BY DEF LimitInv, TypeOK, AttPc, Att
<1>3. pc' \in [Attempt -> AttPc] /\ att' \in [Attempt -> Att]
  BY <1>1, <1>2 DEF Finish, AttPc
<1>4. ASSUME NEW b \in Attempt PROVE AttemptOK(b)'
  <2>1. CASE b = a
    BY <1>2, <2>1 DEF Finish, AttemptOK
  <2>2. CASE b # a
    BY <1>2, <2>2 DEF Finish, AttemptOK, LimitInv
  <2> QED
    BY <2>1, <2>2
<1> QED
  BY <1>3, <1>4 DEF Moves

(* An attempt goes on with one of its keys.                                *)
LEMMA GoesOn ==
  ASSUME LimitInv, NEW a \in Attempt, NEW l \in AttPc, NEW x \in Att,
         pc' = [pc EXCEPT ![a] = l], att' = [att EXCEPT ![a] = x],
         x.ip \in IP, x.email \in Email, x.key \in {x.ip, x.email}
  PROVE  Moves(a)
<1>2. pc \in [Attempt -> AttPc] /\ att \in [Attempt -> Att]
  BY DEF LimitInv, TypeOK, AttPc, Att
<1>3. pc' \in [Attempt -> AttPc] /\ att' \in [Attempt -> Att]
  BY <1>2
<1>4. ASSUME NEW b \in Attempt PROVE AttemptOK(b)'
  <2>1. CASE b = a
    BY <1>2, <2>1 DEF AttemptOK
  <2>2. CASE b # a
    BY <1>2, <2>2 DEF AttemptOK, LimitInv
  <2> QED
    BY <2>1, <2>2
<1> QED
  BY <1>3, <1>4 DEF Moves

(* What an attempt under way has.                                          *)
LEMMA UnderWay ==
  ASSUME LimitInv, NEW a \in Attempt, pc[a] # "idle"
  PROVE  /\ att[a] \in Att /\ att[a].ip \in IP /\ att[a].email \in Email
         /\ att[a].key \in {att[a].ip, att[a].email}
         /\ att[a].key \in Key /\ att[a].ip \in Key /\ att[a].email \in Key
  BY DEF LimitInv, TypeOK, Att, AttemptOK, Key

(* It keeps its locals and moves to the next command.                      *)
LEMMA NextCommand ==
  ASSUME LimitInv, NEW a \in Attempt, NEW l \in AttPc, pc[a] # "idle",
         pc' = [pc EXCEPT ![a] = l], att' = att
  PROVE  Moves(a)
<1>1. att' = [att EXCEPT ![a] = att[a]]
  BY DEF LimitInv, TypeOK
<1> QED
  BY <1>1, UnderWay, GoesOn

-----------------------------------------------------------------------------
(* Steps on the keys.                                                      *)

Counters ==
  /\ count \in [Key -> 0 .. MaxCount]
  /\ countTTL \in [Key -> {Never} \cup 0 .. CounterTTL]
  /\ blockTTL \in [Key -> Nat]
  /\ admitted \in [Key -> [Age -> Nat]]
  /\ \A k \in Key : CounterOK(k) /\ TwoLives(k)

LEMMA Parts == LimitInv <=>
  /\ Counters
  /\ pc \in [Attempt -> AttPc] /\ att \in [Attempt -> Att]
  /\ \A b \in Attempt : AttemptOK(b)
  BY DEF LimitInv, TypeOK, Counters, AttPc, Att

LEMMA NextParts ==
  ASSUME Counters', NEW a \in Attempt, Moves(a)
  PROVE  LimitInv'
  BY DEF LimitInv, TypeOK, Counters, Moves, AttPc, Att

(* A command that reads, or is only a block.                               *)
LEMMA SameCounters ==
  ASSUME LimitInv, UNCHANGED <<count, countTTL, admitted>>,
         blockTTL' \in [Key -> Nat]
  PROVE  Counters'
<1>1. Counters
  BY Parts
<1>2. ASSUME NEW k \in Key PROVE TwoLives(k)'
  BY <1>2, SameLives DEF LimitInv, TypeOK
<1> QED
  BY <1>1, <1>2 DEF Counters, CounterOK

(* INCR, counted as let through or not.                                    *)
LEMMA IncrCounters ==
  ASSUME LimitInv, NEW k \in Key, DoIncr(k), UNCHANGED blockTTL,
         admitted' \in {admitted,
                        IF BlockDuration(Plus1(count[k])) = 0
                        THEN [admitted EXCEPT ![k][0] = @ + 1] ELSE admitted}
  PROVE  Counters'
<1>c. Counters /\ 0 \in Age /\ MaxCount \in Nat /\ 1 < MaxCount
  BY Parts, CounterAssumption, ThresholdFacts DEF Age
<1>1. /\ count' \in [Key -> 0 .. MaxCount]
      /\ count'[k] = Plus1(count[k]) /\ count'[k] # 0
      /\ count[k] <= count'[k]
      /\ \A j \in Key \ {k} : count'[j] = count[j]
  BY <1>c DEF DoIncr, Plus1, Counters
<1>2. /\ countTTL' \in [Key -> {Never} \cup 0 .. CounterTTL]
      /\ countTTL'[k] \in {countTTL[k], Never} /\ countTTL'[k] # 0
      /\ \A j \in Key \ {k} : countTTL'[j] = countTTL[j]
  BY <1>c DEF DoIncr, Counters, CounterOK, Never
<1>3. /\ admitted' \in [Key -> [Age -> Nat]]
      /\ \A j \in Key \ {k} : admitted'[j] = admitted[j]
      /\ admitted'[k] \in {admitted[k],
                           IF BlockDuration(Plus1(count[k])) = 0
                           THEN [admitted[k] EXCEPT ![0] = @ + 1]
                           ELSE admitted[k]}
  <2>1. CASE admitted' = admitted
    BY <1>c, <2>1 DEF Counters
  <2>2. CASE /\ BlockDuration(Plus1(count[k])) = 0
             /\ admitted' = [admitted EXCEPT ![k][0] = @ + 1]
    <3> DEFINE new == [admitted[k] EXCEPT ![0] = @ + 1]
    <3>1. new \in [Age -> Nat]
      BY <1>c DEF Counters
    <3>2. admitted' = [admitted EXCEPT ![k] = new]
      BY <1>c, <2>2 DEF Counters
    <3>3. admitted'[k] = new /\ admitted' \in [Key -> [Age -> Nat]]
      <4> HIDE DEF new
      <4> QED
        BY <1>c, <3>1, <3>2 DEF Counters
    <3>4. \A j \in Key \ {k} : admitted'[j] = admitted[j]
      BY <1>c, <2>2 DEF Counters
    <3> QED
      BY <2>2, <3>3, <3>4
  <2> QED
    BY <2>1, <2>2
<1>4. ASSUME NEW j \in Key PROVE TwoLives(j)'
  <2>1. CASE j # k
    BY <1>1, <1>2, <1>3, <2>1, SameLives
  <2>2. CASE j = k /\ admitted'[k] = admitted[k]
    BY <1>1, <1>2, <2>2, SameLives
  <2>3. CASE j = k /\ admitted'[k] # admitted[k]
    BY <1>1, <1>2, <1>3, <2>3, IncrLives
  <2> QED
    BY <2>1, <2>2, <2>3
<1>5. \A j \in Key : CounterOK(j)'
  BY <1>c, <1>1, <1>2 DEF Counters, CounterOK
<1> QED
  BY <1>c, <1>1, <1>2, <1>3, <1>4, <1>5 DEF Counters

(* Reset.                                                                  *)
LEMMA ResetCounters ==
  ASSUME LimitInv, NEW k \in Key, DoReset(k)
  PROVE  Counters'
<1>c. Counters /\ CounterTTL \in Nat /\ MaxCount \in Nat
  BY Parts, CounterAssumption
<1>1. /\ count' \in [Key -> 0 .. MaxCount] /\ count'[k] = 0
      /\ countTTL' \in [Key -> {Never} \cup 0 .. CounterTTL] /\ countTTL'[k] = 0
      /\ blockTTL' \in [Key -> Nat]
  BY <1>c DEF DoReset, Counters
<1>2. admitted' \in [Key -> [Age -> Nat]] /\ admitted'[k] = [i \in Age |-> 0]
  BY <1>c DEF DoReset, Counters
<1>3. \A j \in Key \ {k} : /\ count'[j] = count[j] /\ countTTL'[j] = countTTL[j]
                            /\ admitted'[j] = admitted[j]
  BY <1>c DEF DoReset, Counters
<1>4. ASSUME NEW j \in Key PROVE TwoLives(j)' /\ CounterOK(j)'
  <2>1. CASE j = k
    BY <1>1, <1>2, <2>1, NoLives, ThresholdFacts DEF TwoLives, CounterOK
  <2>2. CASE j # k
    BY <1>c, <1>1, <1>3, <2>2, SameLives DEF Counters, CounterOK
  <2> QED
    BY <2>1, <2>2
<1> QED
  BY <1>1, <1>2, <1>4 DEF Counters

(* EXPIRE starts the TTL of a counter that Redis holds.                    *)
LEMMA ExpireCounters ==
  ASSUME LimitInv, NEW k \in Key, UNCHANGED <<count, blockTTL, admitted>>,
         countTTL' = IF count[k] > 0 THEN [countTTL EXCEPT ![k] = CounterTTL]
                                     ELSE countTTL
  PROVE  Counters'
<1>c. Counters /\ CounterTTL \in Nat \ {0}
  BY Parts, CounterAssumption
<1>1. /\ countTTL' \in [Key -> {Never} \cup 0 .. CounterTTL]
      /\ \A j \in Key : countTTL'[j] \in {countTTL[j], CounterTTL}
      /\ \A j \in Key : countTTL'[j] # countTTL[j] => j = k /\ count[k] > 0
  BY <1>c DEF Counters
<1>2. ASSUME NEW j \in Key PROVE TwoLives(j)' /\ CounterOK(j)'
  <2>1. TwoLives(j)'
    BY <1>c, <1>1, SameLives DEF Counters
  <2>2. CounterOK(j)'
    BY <1>c, <1>1 DEF Counters, CounterOK
  <2> QED
    BY <2>1, <2>2
<1> QED
  BY <1>c, <1>1, <1>2 DEF Counters

(* A tick takes one from every TTL, and drops the keys that had one left.  *)
LEMMA TickCounters ==
  ASSUME LimitInv, Tick
  PROVE  Counters'
<1>c. Counters /\ CounterTTL \in Nat \ {0} /\ MaxCount \in Nat
  BY Parts, CounterAssumption
<1>1. count' \in [Key -> 0 .. MaxCount]
  BY <1>c DEF Tick, Counters
<1>2. countTTL' \in [Key -> {Never} \cup 0 .. CounterTTL]
  BY <1>c DEF Tick, Counters, Elapse, Never
<1>3. blockTTL' \in [Key -> Nat]
  BY <1>c DEF Tick, Counters, Elapse
<1>4. admitted' \in [Key -> [Age -> Nat]]
  <2>1. ASSUME NEW k \in Key PROVE Shift(admitted[k]) \in [Age -> Nat]
    BY <1>c, TotalShift DEF Counters, Window
  <2>2. admitted' = [k \in Key |-> Shift(admitted[k])]
    BY DEF Tick, Shift
  <2> QED
    BY <2>1, <2>2
<1>5. ASSUME NEW k \in Key PROVE CounterOK(k)'
  <2>1. /\ count'[k] = IF countTTL[k] = 1 THEN 0 ELSE count[k]
        /\ countTTL'[k] = Elapse(countTTL[k])
        /\ countTTL[k] \in Int /\ CounterOK(k)
    BY <1>c DEF Tick, Counters, Never
  <2> QED
    BY <2>1 DEF CounterOK, Elapse
<1> QED
  BY <1>1, <1>2, <1>3, <1>4, <1>5, TickLives DEF Counters

-----------------------------------------------------------------------------
(* Every step keeps the invariant.                                         *)

LEMMA ArriveKeeps ==
  ASSUME LimitInv, NEW a \in Attempt, NEW ip \in IP, NEW email \in Email,
         Arrive(a, ip, email)
  PROVE  LimitInv'
<1> DEFINE x == [ip |-> ip, email |-> email, key |-> ip, n |-> 0]
<1>1. x \in Att /\ x.ip \in IP /\ x.email \in Email /\ x.key \in {x.ip, x.email}
  BY CounterAssumption DEF Att, Key
<1>2. pc' = [pc EXCEPT ![a] = "ttl"] /\ att' = [att EXCEPT ![a] = x]
  BY DEF Arrive
<1>3. "ttl" \in AttPc
  BY DEF AttPc
<1>4. Moves(a)
  <2> HIDE DEF x
  <2> QED
    BY <1>1, <1>2, <1>3, GoesOn
<1>5. Counters'
  BY SameCounters DEF Arrive, LimitInv, TypeOK
<1> QED
  BY <1>4, <1>5, NextParts

LEMMA CheckTTLKeeps ==
  ASSUME LimitInv, NEW a \in Attempt, CheckTTL(a)
  PROVE  LimitInv'
<1>1. Moves(a)
  <2>1. CASE blockTTL[att[a].key] > 0
    BY <2>1, FinishMoves DEF CheckTTL
  <2>2. CASE ~(blockTTL[att[a].key] > 0)
    BY <2>2, NextCommand DEF CheckTTL, AttPc
  <2> QED
    BY <2>1, <2>2
<1>2. Counters'
  BY SameCounters DEF CheckTTL, LimitInv, TypeOK
<1> QED
  BY <1>1, <1>2, NextParts

LEMMA IncrKeeps ==
  ASSUME LimitInv, NEW a \in Attempt, Incr(a)
  PROVE  LimitInv'
<1> DEFINE k == att[a].key
           n == Plus1(count[k])
           x == [att[a] EXCEPT !.n = n]
<1>1. k \in Key /\ att[a] \in Att /\ att[a].ip \in IP /\ att[a].email \in Email
      /\ k \in {att[a].ip, att[a].email}
  BY UnderWay DEF Incr
<1>2. n \in 0 .. MaxCount
  BY <1>1, CounterAssumption DEF LimitInv, TypeOK, Plus1
<1>3. x \in Att /\ x.ip = att[a].ip /\ x.email = att[a].email /\ x.key = k
  BY <1>1, <1>2 DEF Att
<1>4. Moves(a)
  <2>1. att' = [att EXCEPT ![a] = x]
    BY DEF Incr, LimitInv, TypeOK
  <2>2. PICK l \in AttPc : pc' = [pc EXCEPT ![a] = l]
    BY DEF Incr, AttPc
  <2> HIDE DEF x, k
  <2> QED
    BY <1>1, <1>3, <2>1, <2>2, GoesOn
<1>5. Counters'
  BY <1>1, IncrCounters DEF Incr
<1> QED
  BY <1>4, <1>5, NextParts

LEMMA ExpireKeeps ==
  ASSUME LimitInv, NEW a \in Attempt, Expire(a) \/ ExpireFails(a)
  PROVE  LimitInv'
<1>1. Moves(a)
  BY NextCommand DEF Expire, ExpireFails, AttPc
<1>2. Counters'
  <2>1. CASE Expire(a)
    <3>1. att[a].key \in Key
      BY <2>1, UnderWay DEF Expire
    <3> QED
      BY <2>1, <3>1, ExpireCounters DEF Expire
  <2>2. CASE ExpireFails(a)
    BY <2>2, SameCounters DEF ExpireFails, LimitInv, TypeOK
  <2> QED
    BY <2>1, <2>2
<1> QED
  BY <1>1, <1>2, NextParts

LEMMA SetBlockKeeps ==
  ASSUME LimitInv, NEW a \in Attempt, SetBlock(a)
  PROVE  LimitInv'
<1> DEFINE d == BlockDuration(att[a].n)
<1>1. att[a].key \in Key /\ att[a] \in Att /\ att[a].ip \in IP
      /\ att[a].email \in Email /\ att[a].key \in {att[a].ip, att[a].email}
  BY UnderWay DEF SetBlock
<1>2. d \in Nat
  <2>1. att[a].n \in Nat
    BY <1>1, CounterAssumption DEF Att
  <2> QED
    BY <2>1, BlockFacts
<1>3. Moves(a)
  <2>1. CASE d > 0
    BY <2>1, FinishMoves DEF SetBlock
  <2>2. CASE ~(d > 0) /\ att[a].key = att[a].ip
    <3> DEFINE y == [att[a] EXCEPT !.key = att[a].email]
               x == [y EXCEPT !.n = 0]
    <3>1. /\ pc' = [pc EXCEPT ![a] = "ttl"]
          /\ att' = [att EXCEPT ![a].key = att[a].email, ![a].n = 0]
      BY <2>2 DEF SetBlock, Pass
    <3>2. att' = [att EXCEPT ![a] = x]
      BY <1>1, <3>1 DEF LimitInv, TypeOK
    <3>3. /\ y \in Att /\ y.ip = att[a].ip /\ y.email = att[a].email
          /\ y.key = att[a].email
      BY <1>1 DEF Att, Key
    <3>4. /\ x \in Att /\ x.ip = y.ip /\ x.email = y.email /\ x.key = y.key
      <4> HIDE DEF y
      <4> QED
        BY <3>3, CounterAssumption DEF Att
    <3>5. "ttl" \in AttPc
      BY DEF AttPc
    <3> HIDE DEF x, y
    <3> QED
      BY <1>1, <3>1, <3>2, <3>3, <3>4, <3>5, GoesOn
  <2>3. CASE ~(d > 0) /\ att[a].key # att[a].ip
    <3> DEFINE x == [att[a] EXCEPT !.n = 0]
    <3>1. pc' = [pc EXCEPT ![a] = "verify"] /\ att' = [att EXCEPT ![a].n = 0]
      BY <2>3 DEF SetBlock, Pass
    <3>2. att' = [att EXCEPT ![a] = x]
      BY <1>1, <3>1 DEF LimitInv, TypeOK
    <3>3. /\ x \in Att /\ x.ip = att[a].ip /\ x.email = att[a].email
          /\ x.key = att[a].key /\ "verify" \in AttPc
      BY <1>1, CounterAssumption DEF Att, AttPc
    <3> HIDE DEF x
    <3> QED
      BY <1>1, <3>1, <3>2, <3>3, GoesOn
  <2> QED
    BY <2>1, <2>2, <2>3
<1>4. Counters'
  <2>1. blockTTL' \in [Key -> Nat]
    BY <1>1, <1>2 DEF SetBlock, LimitInv, TypeOK
  <2> QED
    BY <2>1, SameCounters DEF SetBlock
<1> QED
  BY <1>3, <1>4, NextParts

LEMMA RedisErrorKeeps ==
  ASSUME LimitInv, NEW a \in Attempt, RedisError(a)
  PROVE  LimitInv'
<1>1. Moves(a)
  BY FinishMoves DEF RedisError
<1>2. CASE UNCHANGED <<count, countTTL>>
  <2>1. Counters'
    BY <1>2, SameCounters DEF RedisError, LimitInv, TypeOK
  <2> QED
    BY <1>1, <2>1, NextParts
<1>3. CASE pc[a] = "incr" /\ DoIncr(att[a].key)
  <2>1. att[a].key \in Key
    BY <1>3, UnderWay
  <2>2. Counters'
    BY <1>3, <2>1, IncrCounters DEF RedisError
  <2> QED
    BY <1>1, <2>2, NextParts
<1> QED
  BY <1>2, <1>3 DEF RedisError

LEMMA VerifyKeeps ==
  ASSUME LimitInv, NEW a \in Attempt, VerifyFails(a) \/ VerifySucceeds(a)
  PROVE  LimitInv'
<1>1. Moves(a)
  BY FinishMoves, NextCommand DEF VerifyFails, VerifySucceeds, AttPc
<1>2. Counters'
  BY SameCounters DEF VerifyFails, VerifySucceeds, LimitInv, TypeOK
<1> QED
  BY <1>1, <1>2, NextParts

LEMMA ResetKeeps ==
  ASSUME LimitInv, NEW a \in Attempt,
         ResetEmail(a) \/ ResetIP(a) \/ ResetFails(a)
  PROVE  LimitInv'
<1>1. Moves(a)
  BY FinishMoves, NextCommand DEF ResetEmail, ResetIP, ResetFails, AttPc
<1>2. pc[a] # "idle"
  BY DEF ResetEmail, ResetIP, ResetFails
<1>3. CASE ResetEmail(a)
  BY <1>1, <1>2, <1>3, UnderWay, ResetCounters, NextParts DEF ResetEmail
<1>4. CASE ResetIP(a)
  BY <1>1, <1>2, <1>4, UnderWay, ResetCounters, NextParts DEF ResetIP
<1>5. CASE ResetFails(a)
  <2>1. Counters'
    BY <1>5, SameCounters DEF ResetFails, LimitInv, TypeOK
  <2> QED
    BY <1>1, <2>1, NextParts
<1> QED
  BY <1>3, <1>4, <1>5

LEMMA TickKeeps ==
  ASSUME LimitInv, Tick
  PROVE  LimitInv'
<1>1. Counters'
  BY TickCounters
<1>2. /\ pc' \in [Attempt -> AttPc] /\ att' \in [Attempt -> Att]
      /\ \A b \in Attempt : AttemptOK(b)'
  BY Parts DEF Tick, AttemptOK
<1> QED
  BY <1>1, <1>2 DEF LimitInv, TypeOK, Counters, AttPc, Att

LEMMA LimitNext ==
  ASSUME LimitInv, [Next]_vars
  PROVE  LimitInv'
<1>1. CASE Tick
  BY <1>1, TickKeeps
<1>2. ASSUME NEW a \in Attempt, Step(a) PROVE LimitInv'
  BY <1>2, CheckTTLKeeps, IncrKeeps, ExpireKeeps, SetBlockKeeps,
     RedisErrorKeeps, VerifyKeeps, ResetKeeps DEF Step
<1>3. ASSUME NEW a \in Attempt, NEW ip \in IP, NEW email \in Email,
             Arrive(a, ip, email)
      PROVE  LimitInv'
  BY <1>3, ArriveKeeps
<1>4. CASE UNCHANGED vars
  <2>1. Counters'
    BY <1>4, SameCounters DEF vars, LimitInv, TypeOK
  <2> QED
    BY <1>4, <2>1 DEF vars, LimitInv, TypeOK, Counters, AttemptOK
<1> QED
  BY <1>1, <1>2, <1>3, <1>4 DEF Next

LEMMA LimitAlways == Spec => []LimitInv
<1>1. Init => LimitInv
  BY LimitInit
<1>2. LimitInv /\ [Next]_vars => LimitInv'
  BY LimitNext
<1> QED
  BY <1>1, <1>2, PTL DEF Spec

-----------------------------------------------------------------------------
(* The theorems.                                                           *)

(* Whatever attempts, ticks, failed commands and resets come in whatever   *)
(* order, the keys and the handlers of Check and Login keep their types.   *)
THEOREM RateLimitTypeCorrect == Spec => []TypeOK
<1>1. LimitInv => TypeOK
  BY DEF LimitInv
<1> QED
  BY <1>1, LimitAlways, PTL

(* For any tiers, any keys and any number of attempts in flight, a key     *)
(* lets through fewer than twice the lowest threshold in the last          *)
(* CounterTTL ticks: INCR hands out a number once in a life of the         *)
(* counter, and such a window meets two lives at most.                     *)
THEOREM AdmissionsStayBounded == Spec => []AdmissionsBounded
<1>1. ASSUME LimitInv, NEW k \in Key
      PROVE  Admissions(k) <= 2 * (LowestThreshold - 1)
  <2>1. PICK cur \in Window, old \in Window :
          /\ admitted[k] = [i \in Age |-> cur[i] + old[i]]
          /\ Total(cur) <= LowestThreshold - 1
          /\ Total(old) <= LowestThreshold - 1
    BY <1>1 DEF LimitInv, TwoLives
  <2>2. Admissions(k) = Total(cur) + Total(old)
    BY <2>1, TotalPlus DEF Admissions
  <2>3. Total(cur) \in Nat /\ Total(old) \in Nat /\ LowestThreshold \in Nat
    BY TotalType, ThresholdFacts
  <2> QED
    BY <2>1, <2>2, <2>3
<1>2. LimitInv => AdmissionsBounded
  BY <1>1 DEF AdmissionsBounded
<1> QED
  BY <1>2, LimitAlways, PTL

=============================================================================
