--------------------------- MODULE FeegrantProofs ---------------------------
(* Proofs about the fee-grant services: their types, that the cursor of the   *)
(* handler skips no transaction, and that grants are charged as their uses    *)
(* were sent.  First come lemmas about sequences and recursive functions on   *)
(* them, then what the records of a transaction are, then the steps of the    *)
(* services.                                                                  *)
EXTENDS Feegrant, BullQueueProofs, SequenceTheorems, FiniteSetTheorems, WellFoundedInduction, TLAPS

-----------------------------------------------------------------------------
(* Numbers, finite sets and sequences.                                         *)

\* A finite set of numbers has a greatest one.
LEMMA GreatestLemma ==
    ASSUME NEW S, S \subseteq Int, S # {}, IsFiniteSet(S)
    PROVE  Max(S) \in S /\ \A x \in S : x <= Max(S)
<1> DEFINE Has(T) == \E x \in T : \A y \in T : y <= x
           Bad == {n \in Nat : \E T \in SUBSET S : T # {} /\ Cardinality(T) = n /\ ~Has(T)}
<1>1. Bad = {}
  <2> SUFFICES ASSUME Bad # {} PROVE FALSE
    OBVIOUS
  <2>1. PICK n \in Bad : \A m \in Bad : n <= m
    <3>1. Bad \subseteq Nat
      OBVIOUS
    <3> HIDE DEF Bad
    <3> QED
      BY <3>1, LeastLemma
  <2> HIDE DEF Has
  <2>2. PICK T \in SUBSET S : T # {} /\ Cardinality(T) = n /\ ~Has(T)
    OBVIOUS
  <2>3. PICK a \in T : TRUE
    BY <2>2
  <2> DEFINE U == T \ {a}
  <2>4. IsFiniteSet(T)
    BY FS_Subset
  <2>5. IsFiniteSet(U) /\ Cardinality(U) = n - 1 /\ U \in SUBSET S /\ n \in Nat
    BY <2>2, <2>3, <2>4, FS_RemoveElement
  <2>6. Cardinality(U) \in Nat
    BY <2>5, FS_CardinalityType
  <2>7. n - 1 \notin Bad
    <3> HIDE DEF Bad
    <3> QED
      BY <2>1, <2>5
  <2>8. U = {} \/ Has(U)
    BY <2>5, <2>6, <2>7
  <2>9. CASE U = {}
    <3>1. T = {a} /\ a \in Int
      BY <2>3, <2>9
    <3> QED
      BY <2>2, <3>1 DEF Has
  <2>10. CASE Has(U)
    <3>1. PICK b \in U : \A y \in U : y <= b
      BY <2>10 DEF Has
    <3>2. a \in Int /\ b \in Int /\ b \in T /\ \A y \in T : y \in Int /\ (y = a \/ y \in U)
      BY <2>3, <3>1
    <3>3. \A y \in T : y <= (IF a <= b THEN b ELSE a)
      BY <3>1, <3>2
    <3> QED
      BY <2>2, <2>3, <3>2, <3>3 DEF Has
  <2> QED
    BY <2>8, <2>9, <2>10
<1>2. Cardinality(S) \in Nat
  BY FS_CardinalityType
<1>3. Has(S)
  <2> HIDE DEF Has
  <2> QED
    BY <1>1, <1>2
<1>4. PICK x \in S : \A y \in S : y <= x
  BY <1>3
<1> QED
  BY <1>4 DEF Max

\* The values of a function on a finite set are finitely many.
LEMMA ImageLemma ==
    ASSUME NEW S, NEW f, IsFiniteSet(S), f = [x \in S |-> f[x]]
    PROVE  IsFiniteSet({f[x] : x \in S})
<1> DEFINE T == {f[x] : x \in S}
<1>1. f \in [S -> T]
  OBVIOUS
<1>2. f \in Surjection(S, T)
  BY <1>1 DEF Surjection
<1> QED
  BY <1>2, FS_Surjection

\* An order of a finite set lists all its elements and no others.
LEMMA OrderLemma ==
    ASSUME NEW S, IsFiniteSet(S), NEW s \in SetToSeqs(S)
    PROVE  s \in Seq(S) /\ InFlight(s) = S
<1> DEFINE n == Cardinality(S)
<1>1. n \in Nat
  BY FS_CardinalityType
<1>2. s \in [1 .. n -> S] /\ \A i, j \in 1 .. n : i # j => s[i] # s[j]
  BY DEF SetToSeqs
<1>3. s \in Injection(1 .. n, S)
  BY <1>2 DEF Injection, IsInjective
<1>4. IsFiniteSet(1 .. n) /\ Cardinality(1 .. n) = n
  BY <1>1, FS_Interval
<1>5. s \in Surjection(1 .. n, S)
  BY <1>3, <1>4, FS_Injection
<1>6. s \in Seq(S) /\ DOMAIN s = 1 .. n
  <2> HIDE DEF n
  <2> QED
    BY <1>1, <1>2
<1> QED
  BY <1>2, <1>5, <1>6 DEF Surjection, InFlight

\* A list without one of its elements has the others.
LEMMA RemoveLemma ==
    ASSUME NEW D, NEW s \in Seq(D), NEW i \in DOMAIN s
    PROVE  /\ s[i] \in D
           /\ RemoveAt(s, i) \in Seq(D)
           /\ InFlight(s) = InFlight(RemoveAt(s, i)) \union {s[i]}
<1> DEFINE front == SubSeq(s, 1, i - 1)
           back  == SubSeq(s, i + 1, Len(s))
<1>0. /\ DOMAIN s = 1 .. Len(s) /\ Len(s) \in Nat /\ i \in 1 .. Len(s)
      /\ \A j \in 1 .. Len(s) : s[j] \in D
  OBVIOUS
<1>1. /\ front \in Seq(D) /\ DOMAIN front = 1 .. (i - 1)
      /\ \A j \in 1 .. (i - 1) : front[j] = s[j]
  BY <1>0
<1>2. /\ back \in Seq(D) /\ DOMAIN back = 1 .. (Len(s) - i)
      /\ \A j \in 1 .. (Len(s) - i) : back[j] = s[i + j]
  BY <1>0
<1> HIDE DEF front, back
<1>3. front \o back \in Seq(D) /\ InFlight(front \o back) = InFlight(front) \union InFlight(back)
  BY <1>1, <1>2, SendLemma
<1>4. RemoveAt(s, i) = front \o back
  BY DEF RemoveAt, front, back
<1>5. InFlight(front) = {s[j] : j \in 1 .. (i - 1)}
  BY <1>1 DEF InFlight
<1>6. InFlight(back) = {s[j] : j \in (i + 1) .. Len(s)}
  <2>1. InFlight(back) \subseteq {s[j] : j \in (i + 1) .. Len(s)}
    <3> SUFFICES ASSUME NEW k \in 1 .. (Len(s) - i)
                 PROVE  back[k] \in {s[j] : j \in (i + 1) .. Len(s)}
      BY <1>2 DEF InFlight
    <3>1. i + k \in (i + 1) .. Len(s) /\ back[k] = s[i + k]
      BY <1>0, <1>2
    <3> QED
      BY <3>1
  <2>2. {s[j] : j \in (i + 1) .. Len(s)} \subseteq InFlight(back)
    <3> SUFFICES ASSUME NEW j \in (i + 1) .. Len(s)
                 PROVE  s[j] \in InFlight(back)
      OBVIOUS
    <3>1. j - i \in 1 .. (Len(s) - i) /\ i + (j - i) = j
      BY <1>0
    <3> QED
      BY <1>2, <3>1 DEF InFlight
  <2> QED
    BY <2>1, <2>2
<1>7. InFlight(s) = {s[j] : j \in 1 .. (i - 1)} \union {s[i]} \union {s[j] : j \in (i + 1) .. Len(s)}
  <2>1. \A j : j \in 1 .. Len(s) <=> j \in 1 .. (i - 1) \/ j = i \/ j \in (i + 1) .. Len(s)
    BY <1>0
  <2> QED
    BY <1>0, <2>1 DEF InFlight
<1> QED
  BY <1>0, <1>3, <1>4, <1>5, <1>6, <1>7

\* The community modules and this project have each a name for the elements of a list.
LEMMA ToSetLemma == \A s : ToSet(s) = InFlight(s)
BY DEF ToSet, InFlight

\* A list of things holds such things.
LEMMA ElementsLemma ==
    ASSUME NEW D, NEW s \in Seq(D)
    PROVE  /\ Len(s) \in Nat /\ DOMAIN s = 1 .. Len(s)
           /\ \A i \in DOMAIN s : s[i] \in D
           /\ ToSet(s) = InFlight(s) /\ InFlight(s) \subseteq D
BY DEF ToSet, InFlight

\* What FlattenSeq computes: the first parts joined, step by step.
LEMMA FlattenSteps ==
    ASSUME NEW D, NEW s \in Seq(Seq(D)), s # <<>>
    PROVE  \E f \in [1 .. Len(s) -> Seq(D)] :
              /\ f[1] = s[1]
              /\ \A i \in 2 .. Len(s) : f[i] = f[i - 1] \o s[i]
              /\ FlattenSeq(s) = f[Len(s)]
<1> DEFINE n == Len(s)
           f == CHOOSE g : g = [i \in 1 .. Len(s) |-> IF i = 1 THEN s[i] ELSE g[i - 1] \o s[i]]
<1>1. n \in Nat /\ n >= 1 /\ DOMAIN s = 1 .. n /\ Len(s) # 0 /\ \A i \in 1 .. n : s[i] \in Seq(D)
  OBVIOUS
<1>2. FlattenSeq(s) = f[Len(s)]
  BY <1>1 DEF FlattenSeq
<1> DEFINE G == [p \in (1 .. n) \X Seq(D) |-> IF p[1] = 1 THEN s[1] ELSE p[2] \o s[p[1]]]
<1>3. G \in [(1 .. n) \X Seq(D) -> Seq(D)]
  <2> SUFFICES ASSUME NEW p \in (1 .. n) \X Seq(D)
               PROVE  (IF p[1] = 1 THEN s[1] ELSE p[2] \o s[p[1]]) \in Seq(D)
    OBVIOUS
  <2>1. p[2] \in Seq(D) /\ s[p[1]] \in Seq(D) /\ s[1] \in Seq(D)
    BY <1>1
  <2> QED
    BY <2>1, ConcatProperties
<1>4. \A i \in 1 .. n, v \in Seq(D) : G[<<i, v>>] = IF i = 1 THEN s[i] ELSE v \o s[i]
  OBVIOUS
<1>5. <<>> \in Seq(D)
  BY EmptyLemma
<1> HIDE DEF G, n
<1>6. PICK h \in [0 .. n -> Seq(D)] : h[0] = <<>> /\ \A i \in 1 .. n : h[i] = G[<<i, h[i - 1]>>]
  <2> DEFINE V == Seq(D)
             none == <<>>
  <2>1. none \in V /\ (\A i \in 1 .. n, v \in V : G[<<i, v>>] \in V) /\ n \in Nat
    BY <1>1, <1>3, <1>5
  <2> HIDE DEF V, none
  <2>2. StepsOf(V, n, none, G) # {}
    BY <2>1, StepsLemma
  <2> QED
    BY <2>2 DEF V, none, StepsOf
<1> DEFINE g == [i \in 1 .. n |-> h[i]]
<1>7. \A i \in 1 .. n : g[i] = h[i] /\ h[i - 1] \in Seq(D) /\ (i # 1 => g[i - 1] = h[i - 1])
  BY <1>1
<1>8. ASSUME NEW i \in 1 .. n PROVE g[i] = IF i = 1 THEN s[i] ELSE g[i - 1] \o s[i]
  <2>1. g[i] = h[i] /\ h[i - 1] \in Seq(D) /\ (i # 1 => g[i - 1] = h[i - 1])
    BY <1>7
  <2> HIDE DEF g
  <2>2. h[i] = IF i = 1 THEN s[i] ELSE h[i - 1] \o s[i]
    BY <1>4, <1>6, <2>1
  <2> QED
    BY <2>1, <2>2
<1>9. g = [i \in 1 .. Len(s) |-> IF i = 1 THEN s[i] ELSE g[i - 1] \o s[i]]
  <2>1. g = [i \in 1 .. n |-> g[i]] /\ n = Len(s)
    BY DEF n
  <2> HIDE DEF g
  <2> QED
    BY <1>8, <2>1
<1>10. f = [i \in 1 .. Len(s) |-> IF i = 1 THEN s[i] ELSE f[i - 1] \o s[i]]
  <2> HIDE DEF g
  <2> QED
    BY <1>9
<1> HIDE DEF f, g
<1>11. n = Len(s) /\ \A i \in 1 .. n : f[i] = IF i = 1 THEN s[i] ELSE f[i - 1] \o s[i]
  BY <1>10 DEF n
<1>12. f[1] = s[1] /\ \A i \in 2 .. n : f[i] = f[i - 1] \o s[i]
  <2>1. \A i \in 2 .. n : i \in 1 .. n /\ i # 1
    BY <1>1
  <2>2. 1 \in 1 .. n
    BY <1>1
  <2> QED
    BY <1>11, <2>1, <2>2
<1> DEFINE S == {i \in 0 .. n : i = 0 \/ f[i] \in Seq(D)}
<1>13. 0 .. n \subseteq S
  <2>1. 0 \in S
    BY <1>1
  <2>2. ASSUME NEW i \in 1 .. n, i - 1 \in S PROVE i \in S
    <3>1. i \in 0 .. n /\ i # 0
      BY <1>1
    <3>2. CASE i = 1
      BY <1>1, <1>12, <3>1, <3>2
    <3>3. CASE i # 1
      <4>1. i \in 2 .. n /\ f[i - 1] \in Seq(D)
        BY <1>1, <2>2, <3>3
      <4>2. f[i] = f[i - 1] \o s[i] /\ s[i] \in Seq(D)
        BY <1>1, <1>12, <4>1
      <4>3. f[i] \in Seq(D)
        BY <4>1, <4>2, ConcatProperties
      <4> QED
        BY <3>1, <4>3
    <3> QED
      BY <3>2, <3>3
  <2> HIDE DEF S
  <2> QED
    BY <1>1, <2>1, <2>2, SweepLemma
<1>14. f \in [1 .. n -> Seq(D)]
  <2>1. f = [i \in 1 .. n |-> f[i]]
    BY <1>10, <1>11
  <2>2. \A i \in 1 .. n : i \in 0 .. n /\ i # 0
    BY <1>1
  <2> QED
    BY <1>13, <2>1, <2>2
<1> QED
  BY <1>2, <1>11, <1>12, <1>14

\* A flattened list holds what its parts hold...
LEMMA FlattenLemma ==
    ASSUME NEW D, NEW s \in Seq(Seq(D))
    PROVE  /\ FlattenSeq(s) \in Seq(D)
           /\ ToSet(FlattenSeq(s)) = UNION {ToSet(s[i]) : i \in DOMAIN s}
<1>1. CASE s = <<>>
  BY <1>1 DEF FlattenSeq, ToSet
<1>2. CASE s # <<>>
  <2> DEFINE n == Len(s)
  <2>1. PICK f \in [1 .. Len(s) -> Seq(D)] :
           /\ f[1] = s[1]
           /\ \A i \in 2 .. Len(s) : f[i] = f[i - 1] \o s[i]
           /\ FlattenSeq(s) = f[Len(s)]
    BY <1>2, FlattenSteps
  <2>2. n \in Nat /\ n >= 1 /\ n = Len(s) /\ DOMAIN s = 1 .. n /\ \A i \in 1 .. n : s[i] \in Seq(D)
    BY <1>2
  <2> HIDE DEF n
  <2> DEFINE Good(i) == i = 0 \/ InFlight(f[i]) = UNION {InFlight(s[j]) : j \in 1 .. i}
             S == {i \in 0 .. n : Good(i)}
  <2>3. ASSUME NEW i \in 1 .. n, Good(i - 1) PROVE Good(i)
    <3>1. CASE i = 1
      <4>1. 1 .. 1 = {1}
        OBVIOUS
      <4> QED
        BY <2>1, <3>1, <4>1
    <3>2. CASE i # 1
      <4>1. i \in 2 .. n /\ i - 1 \in 1 .. n
        BY <2>2, <3>2
      <4>2. f[i] = f[i - 1] \o s[i] /\ s[i] \in Seq(D) /\ f[i - 1] \in Seq(D)
        BY <2>1, <2>2, <4>1
      <4>3. InFlight(f[i]) = InFlight(f[i - 1]) \union InFlight(s[i])
        BY <4>2, SendLemma
      <4>4. 1 .. i = (1 .. i - 1) \union {i} /\ i - 1 # 0
        BY <2>2, <3>2
      <4> QED
        BY <2>3, <4>3, <4>4
    <3> QED
      BY <3>1, <3>2
  <2> HIDE DEF Good
  <2>4. 0 .. n \subseteq S
    <3>1. 0 \in S
      BY <2>2 DEF Good
    <3>2. \A i \in 1 .. n : i - 1 \in S => i \in S
      BY <2>2, <2>3
    <3> HIDE DEF S
    <3> QED
      BY <2>2, <3>1, <3>2, SweepLemma
  <2>5. Good(n) /\ n # 0 /\ n \in 1 .. n
    BY <2>2, <2>4
  <2> QED
    BY <2>1, <2>2, <2>5, ToSetLemma DEF Good
<1> QED
  BY <1>1, <1>2

\* ... and each element comes after those before it in its part.
LEMMA FlattenOrder ==
    ASSUME NEW D, NEW s \in Seq(Seq(D)), NEW x \in DOMAIN FlattenSeq(s)
    PROVE  \E k \in DOMAIN s : \E j \in DOMAIN s[k] :
              /\ FlattenSeq(s)[x] = s[k][j]
              /\ \A l \in 1 .. j - 1 : \E y \in 1 .. x - 1 : FlattenSeq(s)[y] = s[k][l]
<1>1. s # <<>>
  <2> SUFFICES ASSUME s = <<>> PROVE FALSE
    OBVIOUS
  <2>1. FlattenSeq(s) = <<>>
    BY DEF FlattenSeq
  <2> QED
    BY <2>1
<1> DEFINE n == Len(s)
<1>2. PICK f \in [1 .. Len(s) -> Seq(D)] :
         /\ f[1] = s[1]
         /\ \A i \in 2 .. Len(s) : f[i] = f[i - 1] \o s[i]
         /\ FlattenSeq(s) = f[Len(s)]
  BY <1>1, FlattenSteps
<1>3. n \in Nat /\ n >= 1 /\ n = Len(s) /\ DOMAIN s = 1 .. n /\ \A i \in 1 .. n : s[i] \in Seq(D)
  BY <1>1
<1> HIDE DEF n
<1> DEFINE After(t, z, k, j) == /\ t[z] = s[k][j]
                                /\ \A l \in 1 .. j - 1 : \E y \in 1 .. z - 1 : t[y] = s[k][l]
           Good(i) == i = 0 \/ \A z \in DOMAIN f[i] : \E k \in 1 .. i : \E j \in DOMAIN s[k] : After(f[i], z, k, j)
           S == {i \in 0 .. n : Good(i)}
<1>4. ASSUME NEW i \in 1 .. n, Good(i - 1) PROVE Good(i)
  <2> SUFFICES ASSUME NEW z \in DOMAIN f[i]
               PROVE  \E k \in 1 .. i : \E j \in DOMAIN s[k] : After(f[i], z, k, j)
    OBVIOUS
  <2>0. i \in Nat /\ i \in 1 .. i /\ s[i] \in Seq(D) /\ f[i] \in Seq(D)
    BY <1>3
  <2>1. CASE i = 1
    <3>1. f[i] = s[i] /\ \A l \in 1 .. z - 1 : f[i][l] = s[i][l]
      BY <1>2, <2>1
    <3> QED
      BY <2>0, <3>1
  <2>2. CASE i # 1
    <3> DEFINE a == f[i - 1]
               m == Len(a)
    <3>1. i \in 2 .. n /\ i - 1 \in 1 .. n /\ i - 1 # 0
      BY <1>3, <2>2
    <3>2. f[i] = a \o s[i] /\ a \in Seq(D)
      BY <1>2, <1>3, <3>1
    <3> HIDE DEF a
    <3>3. /\ m \in Nat /\ DOMAIN a = 1 .. m /\ DOMAIN s[i] = 1 .. Len(s[i]) /\ Len(s[i]) \in Nat
          /\ DOMAIN f[i] = 1 .. m + Len(s[i])
          /\ \A y \in 1 .. m : f[i][y] = a[y]
          /\ \A j \in 1 .. Len(s[i]) : f[i][m + j] = s[i][j]
      BY <2>0, <3>2
    <3> HIDE DEF m
    <3>4. CASE z <= m
      <4>1. z \in DOMAIN a /\ f[i][z] = a[z]
        BY <3>3, <3>4
      <4>2. PICK k \in 1 .. i - 1 : \E j \in DOMAIN s[k] : After(a, z, k, j)
        BY <1>4, <3>1, <4>1 DEF a
      <4>3. PICK j \in DOMAIN s[k] : After(a, z, k, j)
        BY <4>2
      <4>4. \A y \in 1 .. z - 1 : f[i][y] = a[y]
        <5>1. z \in Int /\ \A y \in 1 .. z - 1 : y \in 1 .. m
          BY <3>3, <3>4
        <5> QED
          BY <3>3, <5>1
      <4>5. After(f[i], z, k, j)
        BY <4>1, <4>3, <4>4
      <4>6. k \in 1 .. i
        BY <2>0, <4>2
      <4> HIDE DEF After
      <4> QED
        BY <4>3, <4>5, <4>6
    <3>5. CASE ~(z <= m)
      <4> DEFINE j == z - m
      <4>1. j \in 1 .. Len(s[i]) /\ m + j = z
        BY <3>3, <3>5
      <4> HIDE DEF j
      <4>2. f[i][z] = s[i][j]
        BY <3>3, <4>1
      <4>3. ASSUME NEW l \in 1 .. j - 1 PROVE \E y \in 1 .. z - 1 : f[i][y] = s[i][l]
        <5>1. m + l \in 1 .. z - 1 /\ l \in 1 .. Len(s[i])
          BY <3>3, <4>1
        <5> QED
          BY <3>3, <5>1
      <4>4. After(f[i], z, i, j)
        BY <4>2, <4>3
      <4> HIDE DEF After
      <4> QED
        BY <2>0, <3>3, <4>1, <4>4
    <3> QED
      BY <3>4, <3>5, <3>3
  <2> QED
    BY <2>1, <2>2
<1> HIDE DEF Good
<1>5. 0 .. n \subseteq S
  <2>1. 0 \in S
    BY <1>3 DEF Good
  <2>2. \A i \in 1 .. n : i - 1 \in S => i \in S
    BY <1>3, <1>4
  <2> HIDE DEF S
  <2> QED
    BY <1>3, <2>1, <2>2, SweepLemma
<1>6. Good(n) /\ n # 0 /\ FlattenSeq(s) = f[n]
  BY <1>2, <1>3, <1>5
<1>7. \E k \in 1 .. n : \E j \in DOMAIN s[k] : After(FlattenSeq(s), x, k, j)
  <2>1. x \in DOMAIN f[n]
    BY <1>6
  <2> HIDE DEF After
  <2> QED
    BY <1>6, <2>1 DEF Good
<1>8. PICK k \in 1 .. n : \E j \in DOMAIN s[k] : After(FlattenSeq(s), x, k, j)
  BY <1>7
<1>9. PICK j \in DOMAIN s[k] : After(FlattenSeq(s), x, k, j)
  BY <1>8
<1> QED
  BY <1>3, <1>9

\* What Selected computes: the elements selected from the first ones, step by step.
SelectionsOf(D, list, I) ==
    {f \in [0 .. Len(list) -> Seq(D)] :
        /\ f[0] = <<>>
        /\ \A i \in 1 .. Len(list) : f[i] = IF i \in I THEN Append(f[i - 1], list[i]) ELSE f[i - 1]}

\* Its value is the last of them.
LEMMA SelectedSteps ==
    ASSUME NEW D, NEW list \in Seq(D), NEW I
    PROVE  \E f \in SelectionsOf(D, list, I) : Selected(list, I) = f[Len(list)]
<1> DEFINE n == Len(list)
           upto == CHOOSE g : g = [i \in 0 .. Len(list) |->
                    IF i = 0 THEN <<>>
                    ELSE IF i \in I THEN Append(g[i - 1], list[i]) ELSE g[i - 1]]
           V == Seq(D)
           none == <<>>
           G == [p \in (1 .. n) \X V |-> IF p[1] \in I THEN Append(p[2], list[p[1]]) ELSE p[2]]
<1>1. Selected(list, I) = upto[Len(list)]
  BY DEF Selected
<1>2. n \in Nat /\ DOMAIN list = 1 .. n /\ \A i \in 1 .. n : list[i] \in D
  OBVIOUS
<1>3. \A i \in 1 .. n, v \in V : G[<<i, v>>] = IF i \in I THEN Append(v, list[i]) ELSE v
  OBVIOUS
<1>4. ASSUME NEW i \in 1 .. n, NEW v \in V PROVE Append(v, list[i]) \in V
  BY <1>2, AppendProperties
<1>5. none \in V /\ \A i \in 1 .. n, v \in V : G[<<i, v>>] \in V
  <2> HIDE DEF G, V, n
  <2>1. none \in V
    BY EmptyLemma DEF V
  <2> HIDE DEF none
  <2> QED
    BY <1>3, <1>4, <2>1
<1> HIDE DEF G, V, n
<1>6. PICK h \in [0 .. n -> V] : h[0] = none /\ \A i \in 1 .. n : h[i] = G[<<i, h[i - 1]>>]
  <2> HIDE DEF none
  <2>1. StepsOf(V, n, none, G) # {}
    BY <1>2, <1>5, StepsLemma
  <2> QED
    BY <2>1 DEF StepsOf
<1>7. \A i \in 1 .. n : h[i - 1] \in V /\ h[i] = IF i \in I THEN Append(h[i - 1], list[i]) ELSE h[i - 1]
  BY <1>2, <1>3, <1>6
<1>8. h = [i \in 0 .. Len(list) |->
              IF i = 0 THEN <<>>
              ELSE IF i \in I THEN Append(h[i - 1], list[i]) ELSE h[i - 1]]
  <2>1. h = [i \in 0 .. n |-> h[i]] /\ n = Len(list)
    BY <1>6 DEF n
  <2>2. \A i \in 0 .. n : i = 0 \/ i \in 1 .. n
    BY <1>2
  <2> QED
    BY <1>6, <1>7, <2>1, <2>2
<1>9. upto = [i \in 0 .. Len(list) |->
              IF i = 0 THEN <<>>
              ELSE IF i \in I THEN Append(upto[i - 1], list[i]) ELSE upto[i - 1]]
  BY <1>8
<1> HIDE DEF upto
<1>10. upto[0] = <<>> /\ \A i \in 1 .. n : upto[i] = IF i \in I THEN Append(upto[i - 1], list[i]) ELSE upto[i - 1]
  <2>1. n = Len(list) /\ \A i \in 1 .. n : i \in 0 .. n /\ i # 0
    BY <1>2 DEF n
  <2>2. 0 \in 0 .. n
    BY <1>2
  <2> QED
    BY <1>9, <2>1, <2>2
<1> DEFINE S == {i \in 0 .. n : upto[i] \in Seq(D)}
<1>11. 0 .. n \subseteq S
  <2>1. 0 \in S
    <3>1. 0 \in 0 .. n /\ upto[0] = <<>>
      BY <1>2, <1>10
    <3>2. <<>> \in Seq(D)
      BY EmptyLemma
    <3> QED
      BY <3>1, <3>2
  <2>2. ASSUME NEW i \in 1 .. n, i - 1 \in S PROVE i \in S
    <3>1. upto[i - 1] \in Seq(D) /\ i \in 0 .. n /\ list[i] \in D
      BY <1>2, <2>2
    <3>2. Append(upto[i - 1], list[i]) \in Seq(D)
      BY <3>1, AppendProperties
    <3> QED
      BY <1>10, <3>1, <3>2
  <2> HIDE DEF S
  <2> QED
    BY <1>2, <2>1, <2>2, SweepLemma
<1>12. n = Len(list) /\ upto \in [0 .. n -> Seq(D)]
  <2>1. n = Len(list)
    BY DEF n
  <2>2. upto = [i \in 0 .. n |-> upto[i]]
    BY <1>9, <2>1
  <2> QED
    BY <1>11, <2>1, <2>2
<1>13. upto \in [0 .. Len(list) -> Seq(D)]
  BY <1>12
<1>14. \A i \in 1 .. Len(list) : upto[i] = IF i \in I THEN Append(upto[i - 1], list[i]) ELSE upto[i - 1]
  BY <1>10, <1>12
<1>15. upto[0] = <<>>
  BY <1>10
<1>16. upto \in SelectionsOf(D, list, I)
  BY <1>13, <1>14, <1>15 DEF SelectionsOf
<1> QED
  BY <1>1, <1>16

\* Where each of the selected elements comes from.
Places(list, I) ==
    {pos \in [DOMAIN Selected(list, I) -> DOMAIN list] :
        /\ \A y \in DOMAIN Selected(list, I) : pos[y] \in I /\ Selected(list, I)[y] = list[pos[y]]
        /\ \A y, z \in DOMAIN Selected(list, I) : y < z => pos[y] < pos[z]
        /\ \A x \in I \intersect DOMAIN list : \E y \in DOMAIN Selected(list, I) : pos[y] = x}

\* The selected elements are those at the positions, in their order, and no others.
LEMMA SelectedOrder ==
    ASSUME NEW D, NEW list \in Seq(D), NEW I
    PROVE  Selected(list, I) \in Seq(D) /\ Places(list, I) # {}
<1>0. PICK f \in SelectionsOf(D, list, I) : Selected(list, I) = f[Len(list)]
  BY SelectedSteps
<1>1. /\ f \in [0 .. Len(list) -> Seq(D)] /\ f[0] = <<>> /\ Selected(list, I) = f[Len(list)]
      /\ \A i \in 1 .. Len(list) : f[i] = IF i \in I THEN Append(f[i - 1], list[i]) ELSE f[i - 1]
  BY <1>0 DEF SelectionsOf
<1> DEFINE n == Len(list)
           Placed(i) == \E pos \in [DOMAIN f[i] -> 1 .. i] :
                           /\ \A y \in DOMAIN f[i] : pos[y] \in I /\ f[i][y] = list[pos[y]]
                           /\ \A y, z \in DOMAIN f[i] : y < z => pos[y] < pos[z]
                           /\ \A x \in I \intersect (1 .. i) : \E y \in DOMAIN f[i] : pos[y] = x
           S == {i \in 0 .. n : Placed(i)}
<1>2. n \in Nat /\ n = Len(list) /\ DOMAIN list = 1 .. n
  OBVIOUS
<1> HIDE DEF n
<1>3. Placed(0)
  <2> DEFINE pos == [y \in {} |-> 0]
  <2>1. f[0] = <<>> /\ DOMAIN <<>> = {} /\ 1 .. 0 = {}
    BY <1>1
  <2>2. DOMAIN f[0] = {}
    BY <2>1
  <2>3. pos \in [DOMAIN f[0] -> 1 .. 0]
    BY <2>2
  <2> HIDE DEF pos
  <2> QED
    BY <2>1, <2>2, <2>3
<1>4. ASSUME NEW i \in 1 .. n, Placed(i - 1) PROVE Placed(i)
  <2>1. f[i - 1] \in Seq(D) /\ f[i] = IF i \in I THEN Append(f[i - 1], list[i]) ELSE f[i - 1]
    BY <1>1, <1>2
  <2>2. PICK pos \in [DOMAIN f[i - 1] -> 1 .. i - 1] :
           /\ \A y \in DOMAIN f[i - 1] : pos[y] \in I /\ f[i - 1][y] = list[pos[y]]
           /\ \A y, z \in DOMAIN f[i - 1] : y < z => pos[y] < pos[z]
           /\ \A x \in I \intersect (1 .. i - 1) : \E y \in DOMAIN f[i - 1] : pos[y] = x
    BY <1>4
  <2>3. 1 .. i = (1 .. i - 1) \union {i} /\ i \in Nat /\ \A x \in 1 .. i - 1 : x < i /\ x \in Nat
    BY <1>2
  <2>4. CASE i \notin I
    <3>1. f[i] = f[i - 1]
      BY <2>1, <2>4
    <3>2. pos \in [DOMAIN f[i] -> 1 .. i]
      BY <2>2, <2>3, <3>1
    <3>3. I \intersect (1 .. i) = I \intersect (1 .. i - 1)
      BY <2>3, <2>4
    <3> QED
      BY <2>2, <3>1, <3>2, <3>3
  <2>5. CASE i \in I
    <3> DEFINE m == Len(f[i - 1])
               new == [y \in 1 .. m + 1 |-> IF y = m + 1 THEN i ELSE pos[y]]
    <3>1. m \in Nat /\ DOMAIN f[i - 1] = 1 .. m /\ DOMAIN f[i] = 1 .. m + 1
          /\ f[i][m + 1] = list[i] /\ \A y \in 1 .. m : f[i][y] = f[i - 1][y]
      BY <2>1, <2>5
    <3> HIDE DEF m
    <3>2. \A y \in 1 .. m + 1 : y = m + 1 \/ (y \in 1 .. m /\ y # m + 1)
      BY <3>1
    <3>3. /\ new[m + 1] = i /\ m + 1 \in 1 .. m + 1
          /\ \A y \in 1 .. m : y \in 1 .. m + 1 /\ new[y] = pos[y] /\ pos[y] \in 1 .. i - 1
      BY <2>2, <3>1
    <3>4. new \in [DOMAIN f[i] -> 1 .. i]
      BY <2>3, <3>1, <3>2, <3>3
    <3> HIDE DEF new
    <3>5. \A y \in DOMAIN f[i] : new[y] \in I /\ f[i][y] = list[new[y]]
      <4>1. \A y \in 1 .. m : new[y] \in I /\ f[i][y] = list[new[y]]
        BY <2>2, <3>1, <3>3
      <4>2. new[m + 1] \in I /\ f[i][m + 1] = list[new[m + 1]]
        BY <2>5, <3>1, <3>3
      <4> QED
        BY <3>1, <3>2, <4>1, <4>2
    <3>6. ASSUME NEW y \in DOMAIN f[i], NEW z \in DOMAIN f[i], y < z PROVE new[y] < new[z]
      <4>1. y \in 1 .. m
        BY <3>1, <3>6
      <4>2. CASE z = m + 1
        BY <2>3, <3>3, <4>1, <4>2
      <4>3. CASE z # m + 1
        <5>1. z \in 1 .. m
          BY <3>1, <3>2, <4>3
        <5> QED
          BY <2>2, <3>1, <3>3, <3>6, <4>1, <5>1
      <4> QED
        BY <4>2, <4>3
    <3>7. ASSUME NEW x \in I \intersect (1 .. i) PROVE \E y \in DOMAIN f[i] : new[y] = x
      <4>1. CASE x = i
        BY <3>1, <3>3, <4>1
      <4>2. CASE x # i
        <5>1. x \in I \intersect (1 .. i - 1)
          BY <2>3, <4>2
        <5>2. PICK y \in 1 .. m : pos[y] = x
          BY <2>2, <3>1, <5>1
        <5> QED
          BY <3>1, <3>3, <5>2
      <4> QED
        BY <4>1, <4>2
    <3> QED
      BY <3>4, <3>5, <3>6, <3>7
  <2> QED
    BY <2>4, <2>5
<1>5. 0 .. n \subseteq S
  <2> HIDE DEF Placed
  <2>1. 0 \in S /\ \A i \in 1 .. n : i - 1 \in S => i \in S
    BY <1>2, <1>3, <1>4
  <2> HIDE DEF S
  <2> QED
    BY <1>2, <2>1, SweepLemma
<1>6. Placed(n)
  <2>1. n \in 0 .. n
    BY <1>2
  <2> HIDE DEF Placed
  <2> QED
    BY <1>5, <2>1
<1>7. Selected(list, I) = f[n] /\ f[n] \in Seq(D)
  BY <1>1, <1>2
<1>8. \E pos \in [DOMAIN f[n] -> DOMAIN list] :
         /\ \A y \in DOMAIN f[n] : pos[y] \in I /\ f[n][y] = list[pos[y]]
         /\ \A y, z \in DOMAIN f[n] : y < z => pos[y] < pos[z]
         /\ \A x \in I \intersect DOMAIN list : \E y \in DOMAIN f[n] : pos[y] = x
  BY <1>2, <1>6
<1>9. Places(list, I) # {}
  <2>1. PICK pos \in [DOMAIN f[n] -> DOMAIN list] :
            /\ \A y \in DOMAIN f[n] : pos[y] \in I /\ f[n][y] = list[pos[y]]
            /\ \A y, z \in DOMAIN f[n] : y < z => pos[y] < pos[z]
            /\ \A x \in I \intersect DOMAIN list : \E y \in DOMAIN f[n] : pos[y] = x
    BY <1>8
  <2>2. pos \in Places(list, I)
    BY <1>7, <2>1 DEF Places
  <2> QED
    BY <2>2
<1> QED
  BY <1>7, <1>9

\* In particular, of the elements.
LEMMA SelectedLemma ==
    ASSUME NEW D, NEW list \in Seq(D), NEW I
    PROVE  /\ Selected(list, I) \in Seq(D)
           /\ InFlight(Selected(list, I)) = {list[i] : i \in I \intersect DOMAIN list}
<1> DEFINE sel == Selected(list, I)
<1>1. sel \in Seq(D)
  BY SelectedOrder
<1>2. PICK pos \in [DOMAIN sel -> DOMAIN list] :
         /\ \A y \in DOMAIN sel : pos[y] \in I /\ sel[y] = list[pos[y]]
         /\ \A x \in I \intersect DOMAIN list : \E y \in DOMAIN sel : pos[y] = x
  BY SelectedOrder DEF Places
<1> HIDE DEF sel
<1>3. \A y \in DOMAIN sel : \E i \in I \intersect DOMAIN list : sel[y] = list[i]
  BY <1>2
<1>4. \A i \in I \intersect DOMAIN list : \E y \in DOMAIN sel : sel[y] = list[i]
  BY <1>2
<1>5. InFlight(sel) = {list[i] : i \in I \intersect DOMAIN list}
  BY <1>3, <1>4 DEF InFlight
<1> QED
  BY <1>1, <1>5 DEF sel

-----------------------------------------------------------------------------
(* What the records of a transaction are.                                      *)

Statuses == {"Available", "Fail", "Revoked", "Use up"}

Amount == Nat \union {NoLimit}

\* Whoever transaction h names.
Actors(h) ==
    {TxOf[h].payer}
        \union {m.granter : m \in ToSet(TxOf[h].msgs)}
        \union {m.grantee : m \in ToSet(TxOf[h].msgs)}

ActionSet(h) ==
    [tx : {h}, action : {"create", "create_with", "use", "use_up", "revoke", "revoke_with"},
     granter : Actors(h), grantee : Actors(h), payer : Actors(h),
     result : {TxOf[h].ok}, amount : Nat, limit : Amount]

\* The status of the grants of a transaction.
CreateStatus(h) == IF TxOf[h].ok THEN "Available" ELSE "Fail"

\* Only a create may have no amount.
RecordSet(h) ==
    {r \in [tx : {h}, action : {"create", "use", "revoke"}, status : Statuses,
            granter : Actors(h), grantee : Actors(h), result : BOOLEAN, amount : Amount] :
        IF r.action = "create" THEN r.status = CreateStatus(h) ELSE r.amount \in Nat}

\* What is said of the messages of a transaction.
LEMMA MessageLemma ==
    ASSUME NEW h \in Hashes, NEW i \in DOMAIN TxOf[h].msgs
    PROVE  LET m == TxOf[h].msgs[i]
           IN /\ m.kind \in {"grant", "revoke", "other"} /\ m.limit \in Amount
              /\ m.granter \in Actors(h) /\ m.grantee \in Actors(h)
<1>1. TxOf[h].msgs[i] \in ToSet(TxOf[h].msgs)
  BY DEF ToSet
<1> QED
  BY <1>1, FeegrantAssumption DEF Actors, Amount

\* An action is one of its transaction.
LEMMA ActionLemma ==
    ASSUME NEW h \in Hashes, NEW kind, NEW granter \in Actors(h), NEW grantee \in Actors(h),
           kind \in {"create", "create_with", "use", "use_up", "revoke", "revoke_with"},
           NEW amount \in Nat, NEW limit \in Amount
    PROVE  Action(h, kind, granter, grantee, amount, limit) \in ActionSet(h)
<1>1. TxOf[h].payer \in Actors(h) /\ TxOf[h].ok \in BOOLEAN
  BY FeegrantAssumption DEF Actors
<1> QED
  BY <1>1 DEF Action, ActionSet

\* So are those of a message.
LEMMA ActionsOfMessage ==
    ASSUME NEW h \in Hashes, NEW i \in DOMAIN TxOf[h].msgs
    PROVE  /\ PaidActions(h, TxOf[h].msgs[i]) \in Seq(ActionSet(h))
           /\ OwnActions(h, TxOf[h].msgs[i]) \in Seq(ActionSet(h))
<1> DEFINE m == TxOf[h].msgs[i]
           tx == TxOf[h]
<1>1. /\ m.kind \in {"grant", "revoke", "other"} /\ m.limit \in Amount
      /\ m.granter \in Actors(h) /\ m.grantee \in Actors(h) /\ tx.payer \in Actors(h)
  BY MessageLemma DEF Actors
<1>2. tx.fee \in Nat /\ 0 \in Nat /\ NoLimit \in Amount
  BY FeegrantAssumption DEF Amount
<1>3. \A a, b \in ActionSet(h) : <<>> \in Seq(ActionSet(h)) /\ <<a>> \in Seq(ActionSet(h))
                                 /\ <<a>> \o <<b>> \in Seq(ActionSet(h))
                                 /\ <<>> \o <<b>> \in Seq(ActionSet(h))
  OBVIOUS
<1>4. /\ Action(h, "use_up", tx.payer, m.granter, 0, NoLimit) \in ActionSet(h)
      /\ Action(h, "use_up", tx.payer, m.grantee, tx.fee, NoLimit) \in ActionSet(h)
      /\ Action(h, "use", tx.payer, m.grantee, tx.fee, NoLimit) \in ActionSet(h)
      /\ Action(h, "create_with", m.granter, m.grantee, tx.fee, m.limit) \in ActionSet(h)
      /\ Action(h, "create", m.granter, m.grantee, tx.fee, m.limit) \in ActionSet(h)
      /\ Action(h, "revoke_with", m.granter, m.grantee, tx.fee, NoLimit) \in ActionSet(h)
      /\ Action(h, "revoke", m.granter, m.grantee, tx.fee, NoLimit) \in ActionSet(h)
  <2> HIDE DEF m, tx
  <2> QED
    BY <1>1, <1>2, ActionLemma
<1>5. OwnActions(h, m) \in Seq(ActionSet(h))
  <2>1. m.kind = "grant" => OwnActions(h, m) = <<Action(h, "create", m.granter, m.grantee, tx.fee, m.limit)>>
    BY DEF OwnActions
  <2>2. m.kind = "revoke" => OwnActions(h, m) = <<Action(h, "revoke", m.granter, m.grantee, tx.fee, NoLimit)>>
    BY DEF OwnActions
  <2>3. m.kind = "other" => OwnActions(h, m) = <<>>
    BY DEF OwnActions
  <2> HIDE DEF m, tx
  <2> QED
    BY <1>1, <1>3, <1>4, <2>1, <2>2, <2>3
<1>6. PaidActions(h, m) \in Seq(ActionSet(h))
  <2>1. m.kind = "grant" =>
            PaidActions(h, m) =
                (IF HasRevokeEvent(tx) THEN <<Action(h, "use_up", tx.payer, m.granter, 0, NoLimit)>> ELSE <<>>)
                \o <<Action(h, "create_with", m.granter, m.grantee, tx.fee, m.limit)>>
    BY DEF PaidActions
  <2>2. m.kind = "revoke" =>
            PaidActions(h, m) =
                (IF tx.usedUp THEN <<Action(h, "use_up", tx.payer, m.granter, 0, NoLimit)>> ELSE <<>>)
                \o <<Action(h, "revoke_with", m.granter, m.grantee, tx.fee, NoLimit)>>
    BY DEF PaidActions
  <2>3. m.kind = "other" =>
            PaidActions(h, m) =
                IF HasRevokeEvent(tx) THEN <<Action(h, "use_up", tx.payer, m.grantee, tx.fee, NoLimit)>>
                ELSE <<Action(h, "use", tx.payer, m.grantee, tx.fee, NoLimit)>>
    BY DEF PaidActions
  <2> HIDE DEF m, tx
  <2>4. CASE m.kind = "grant"
    BY <1>3, <1>4, <2>1, <2>4
  <2>5. CASE m.kind = "revoke"
    BY <1>3, <1>4, <2>2, <2>5
  <2>6. CASE m.kind = "other"
    BY <1>3, <1>4, <2>3, <2>6
  <2> QED
    BY <1>1, <2>4, <2>5, <2>6
<1> QED
  BY <1>5, <1>6

\* And so are all of a transaction.
LEMMA ActionsLemma ==
    ASSUME NEW h \in Hashes
    PROVE  ActionsOf[h] \in Seq(ActionSet(h))
<1> DEFINE s == [i \in DOMAIN TxOf[h].msgs |->
                    IF TxOf[h].payer # NoPayer THEN PaidActions(h, TxOf[h].msgs[i])
                    ELSE OwnActions(h, TxOf[h].msgs[i])]
           n == Len(TxOf[h].msgs)
<1>1. n \in Nat /\ DOMAIN TxOf[h].msgs = 1 .. n
  BY FeegrantAssumption
<1>2. s \in [1 .. n -> Seq(ActionSet(h))]
  BY <1>1, ActionsOfMessage
<1> HIDE DEF n
<1>3. s \in Seq(Seq(ActionSet(h)))
  <2> HIDE DEF s
  <2> QED
    BY <1>1, <1>2, ListLemma
<1>4. ActionsOf[h] = FlattenSeq(s)
  BY DEF ActionsOf
<1> QED
  BY <1>3, <1>4, FlattenLemma

\* The records of an action are of its transaction.
LEMMA RecordsOfActionLemma ==
    ASSUME NEW h \in Hashes, NEW a \in ActionSet(h)
    PROVE  RecordsOfAction(a) \in Seq(RecordSet(h))
<1> DEFINE Create == Record(a, "create", IF a.result THEN "Available" ELSE "Fail",
                            a.granter, a.grantee, a.result, a.limit)
           Revoke == Record(a, "revoke", "Revoked", a.granter, a.grantee, a.result, a.amount)
           PayFee == Record(a, "use", "Available", a.payer, a.granter, TRUE, a.amount)
           Use == Record(a, "use", "Available", a.payer, a.grantee, a.result, a.amount)
           UseUp == Record(a, "use", "Use up", a.payer, a.grantee, a.result, a.amount)
           Up == Record(a, "revoke", "Use up", a.payer, a.grantee, a.result, a.amount)
<1>1. /\ a.tx = h /\ a.granter \in Actors(h) /\ a.grantee \in Actors(h) /\ a.payer \in Actors(h)
      /\ a.result = TxOf[h].ok /\ a.result \in BOOLEAN /\ a.amount \in Nat /\ a.amount \in Amount /\ a.limit \in Amount
      /\ a.action \in {"create", "create_with", "use", "use_up", "revoke", "revoke_with"}
  BY FeegrantAssumption DEF ActionSet, Amount
<1>2. /\ Create \in RecordSet(h) /\ Revoke \in RecordSet(h) /\ PayFee \in RecordSet(h)
      /\ Use \in RecordSet(h) /\ UseUp \in RecordSet(h) /\ Up \in RecordSet(h)
  BY <1>1 DEF Record, RecordSet, Statuses, CreateStatus
<1>3. /\ a.action = "create" => RecordsOfAction(a) = <<Create>>
      /\ a.action = "use" => RecordsOfAction(a) = <<Use>>
      /\ a.action = "use_up" => RecordsOfAction(a) = <<UseUp, Up>>
      /\ a.action = "revoke" => RecordsOfAction(a) = <<Revoke>>
      /\ a.action = "revoke_with" => RecordsOfAction(a) = <<Revoke, PayFee>>
      /\ a.action = "create_with" => RecordsOfAction(a) = <<Create, PayFee>>
  BY DEF RecordsOfAction
<1> HIDE DEF Create, Revoke, PayFee, Use, UseUp, Up
<1>4. \A x, y \in RecordSet(h) : <<x>> \in Seq(RecordSet(h)) /\ <<x, y>> \in Seq(RecordSet(h))
  OBVIOUS
<1> QED
  BY <1>1, <1>2, <1>3, <1>4

\* The records of a transaction are a list of records of it.
LEMMA RecordsLemma ==
    ASSUME NEW h \in Hashes
    PROVE  RecordsOf[h] \in Seq(RecordSet(h))
<1> DEFINE s == [i \in DOMAIN ActionsOf[h] |-> RecordsOfAction(ActionsOf[h][i])]
           n == Len(ActionsOf[h])
<1>1. n \in Nat /\ DOMAIN ActionsOf[h] = 1 .. n /\ \A i \in 1 .. n : ActionsOf[h][i] \in ActionSet(h)
  BY ActionsLemma
<1>2. s \in [1 .. n -> Seq(RecordSet(h))]
  BY <1>1, RecordsOfActionLemma
<1> HIDE DEF n
<1>3. s \in Seq(Seq(RecordSet(h)))
  <2> HIDE DEF s
  <2> QED
    BY <1>1, <1>2, ListLemma
<1>4. RecordsOf[h] = FlattenSeq(s)
  BY DEF RecordsOf
<1> QED
  BY <1>3, <1>4, FlattenLemma

\* What a record is, whatever its transaction.
LEMMA RecordLemma ==
    ASSUME NEW r \in AllRecords
    PROVE  /\ r.tx \in Hashes /\ r \in RecordSet(r.tx) /\ r \in InFlight(RecordsOf[r.tx])
           /\ r.action \in {"create", "use", "revoke"} /\ r.status \in Statuses
           /\ r.amount \in Amount
           /\ IF r.action = "create" THEN r.status = CreateStatus(r.tx) ELSE r.amount \in Nat
<1>1. PICK h \in Hashes : r \in InFlight(RecordsOf[h])
  BY ToSetLemma DEF AllRecords
<1>2. r \in RecordSet(h)
  BY <1>1, RecordsLemma DEF InFlight
<1>3. r.tx = h
  BY <1>2 DEF RecordSet
<1> QED
  BY <1>1, <1>2, <1>3 DEF RecordSet

\* The records of a list of transactions are those of its transactions.
LEMMA RecordsOfListLemma ==
    ASSUME NEW list \in Seq(Hashes)
    PROVE  /\ RecordsOfList(list) \in Seq(AllRecords)
           /\ InFlight(RecordsOfList(list)) = UNION {InFlight(RecordsOf[list[i]]) : i \in DOMAIN list}
<1> DEFINE s == [i \in DOMAIN list |-> RecordsOf[list[i]]]
           n == Len(list)
<1>1. n \in Nat /\ DOMAIN list = 1 .. n /\ \A i \in 1 .. n : list[i] \in Hashes
  OBVIOUS
<1>2. ASSUME NEW h \in Hashes PROVE RecordsOf[h] \in Seq(AllRecords)
  <2>1. RecordsOf[h] \in Seq(RecordSet(h))
    BY RecordsLemma
  <2>2. \A i \in 1 .. Len(RecordsOf[h]) : RecordsOf[h][i] \in AllRecords
    BY <2>1 DEF AllRecords, ToSet
  <2> QED
    BY <2>1, <2>2
<1>3. s \in [1 .. n -> Seq(AllRecords)] /\ \A i \in 1 .. n : s[i] = RecordsOf[list[i]]
  BY <1>1, <1>2
<1> HIDE DEF n
<1>4. RecordsOfList(list) = FlattenSeq(s) /\ DOMAIN s = DOMAIN list
  BY DEF RecordsOfList
<1> HIDE DEF s
<1>5. s \in Seq(Seq(AllRecords))
  BY <1>1, <1>3, ListLemma
<1>6. InFlight(FlattenSeq(s)) = UNION {InFlight(s[i]) : i \in DOMAIN s}
  BY <1>5, FlattenLemma, ToSetLemma
<1> QED
  BY <1>1, <1>3, <1>4, <1>5, <1>6, FlattenLemma

\* New records are of the list, with keys that are not there yet, and no key of the list is
\* missing once they are.
LEMMA NewRecordsLemma ==
    ASSUME NEW D, NEW list \in Seq(D), NEW keys
    PROVE  /\ NewRecords(keys, list) \in Seq(D)
           /\ InFlight(NewRecords(keys, list)) \subseteq InFlight(list)
           /\ \A r \in InFlight(list) :
                 KeyOf(r) \in keys \/ \E x \in InFlight(NewRecords(keys, list)) : KeyOf(x) = KeyOf(r)
<1> DEFINE First(i) == /\ KeyOf(list[i]) \notin keys
                       /\ \A j \in 1 .. i - 1 : KeyOf(list[j]) # KeyOf(list[i])
           I == {i \in DOMAIN list : First(i)}
<1>1. NewRecords(keys, list) = Selected(list, I)
  BY DEF NewRecords
<1>2. DOMAIN list = 1 .. Len(list) /\ Len(list) \in Nat
  OBVIOUS
<1>3. /\ Selected(list, I) \in Seq(D)
      /\ InFlight(Selected(list, I)) = {list[i] : i \in I}
  <2>1. I \intersect DOMAIN list = I
    OBVIOUS
  <2> HIDE DEF I
  <2> QED
    BY <2>1, SelectedLemma
<1>4. ASSUME NEW i \in DOMAIN list, KeyOf(list[i]) \notin keys
      PROVE  \E x \in I : KeyOf(list[x]) = KeyOf(list[i])
  <2> DEFINE S == {j \in DOMAIN list : KeyOf(list[j]) = KeyOf(list[i])}
  <2>1. S \subseteq Nat /\ S # {}
    BY <1>2
  <2>2. PICK j \in S : \A k \in S : j <= k
    <3> HIDE DEF S
    <3> QED
      BY <2>1, LeastLemma
  <2>3. \A k \in 1 .. j - 1 : k \in DOMAIN list /\ ~(j <= k)
    BY <1>2
  <2>4. \A k \in 1 .. j - 1 : KeyOf(list[k]) # KeyOf(list[j])
    BY <2>2, <2>3
  <2> QED
    BY <1>4, <2>4
<1> HIDE DEF I
<1>5. I \subseteq DOMAIN list
  BY DEF I
<1>6. InFlight(Selected(list, I)) \subseteq InFlight(list)
  BY <1>3, <1>5 DEF InFlight
<1>7. ASSUME NEW r \in InFlight(list), KeyOf(r) \notin keys
      PROVE  \E x \in InFlight(Selected(list, I)) : KeyOf(x) = KeyOf(r)
  <2>1. PICK i \in DOMAIN list : r = list[i]
    BY DEF InFlight
  <2>2. PICK x \in I : KeyOf(list[x]) = KeyOf(r)
    BY <1>4, <1>7, <2>1
  <2> QED
    BY <1>3, <2>2
<1> QED
  BY <1>1, <1>3, <1>6, <1>7

\* New records have keys of their own, which were not there yet, and each is the first of the
\* list with its key.
LEMMA NewKeysLemma ==
    ASSUME NEW D, NEW list \in Seq(D), NEW keys
    PROVE  LET new == NewRecords(keys, list)
           IN /\ \A y, z \in DOMAIN new : KeyOf(new[y]) = KeyOf(new[z]) => y = z
              /\ \A y \in DOMAIN new : \E i \in DOMAIN list :
                    /\ new[y] = list[i] /\ KeyOf(list[i]) \notin keys
                    /\ \A j \in 1 .. i - 1 : KeyOf(list[j]) # KeyOf(list[i])
<1> DEFINE First(i) == /\ KeyOf(list[i]) \notin keys
                       /\ \A j \in 1 .. i - 1 : KeyOf(list[j]) # KeyOf(list[i])
           I == {i \in DOMAIN list : First(i)}
           new == NewRecords(keys, list)
<1>1. new = Selected(list, I)
  BY DEF NewRecords
<1>2. \A i \in I : i \in DOMAIN list /\ First(i)
  OBVIOUS
<1> HIDE DEF I, new
<1>3. PICK pos \in [DOMAIN new -> DOMAIN list] :
         /\ \A y \in DOMAIN new : pos[y] \in I /\ new[y] = list[pos[y]]
         /\ \A y, z \in DOMAIN new : y < z => pos[y] < pos[z]
  <2>1. PICK pos \in Places(list, I) : TRUE
    BY SelectedOrder
  <2> HIDE DEF First
  <2>2. /\ pos \in [DOMAIN new -> DOMAIN list]
        /\ \A y \in DOMAIN new : pos[y] \in I /\ new[y] = list[pos[y]]
        /\ \A y, z \in DOMAIN new : y < z => pos[y] < pos[z]
    BY <1>1, <2>1 DEF Places
  <2> QED
    BY <2>2
<1>4. \A y \in DOMAIN new : pos[y] \in DOMAIN list /\ First(pos[y]) /\ new[y] = list[pos[y]]
  BY <1>2, <1>3
<1>5. \A y \in DOMAIN new : y \in Nat /\ pos[y] \in Nat /\ pos[y] >= 1
  <2>1. new \in Seq(D)
    BY <1>1, SelectedOrder
  <2> QED
    BY <1>3, <2>1, ElementsLemma
<1>6. \A y, z \in DOMAIN new : y < z => KeyOf(new[y]) # KeyOf(new[z])
  <2> SUFFICES ASSUME NEW y \in DOMAIN new, NEW z \in DOMAIN new, y < z
               PROVE  KeyOf(new[y]) # KeyOf(new[z])
    OBVIOUS
  <2>1. pos[y] \in 1 .. pos[z] - 1
    BY <1>3, <1>5
  <2> QED
    BY <1>4, <2>1
<1>7. \A y, z \in DOMAIN new : KeyOf(new[y]) = KeyOf(new[z]) => y = z
  <2>1. \A y, z \in DOMAIN new : y < z \/ z < y \/ y = z
    BY <1>5
  <2> QED
    BY <1>6, <2>1
<1>8. \A y \in DOMAIN new : \E i \in DOMAIN list :
          /\ new[y] = list[i] /\ KeyOf(list[i]) \notin keys
          /\ \A j \in 1 .. i - 1 : KeyOf(list[j]) # KeyOf(list[i])
  BY <1>4
<1> QED
  BY <1>7, <1>8 DEF new

-----------------------------------------------------------------------------
(* What the variables hold.                                                    *)

Entries == [rec : AllRecords, origin : Hashes \union {NoHash}]

\* A record with the grant it was found to belong to.
Matched == [rec : AllRecords, origin : Hashes]

GrantSet ==
    [tx : Hashes, granter : {r.granter : r \in AllRecords}, grantee : {r.grantee : r \in AllRecords},
     result : BOOLEAN, amount : Int \union {NoLimit}, status : Statuses,
     revokedBy : Hashes \union {NoHash}]

Updates == [tx : Hashes, amount : Int \union {NoLimit}, status : Statuses]

HistoryJobs == [list : Seq(Hashes), step : {"grants", "records"}]

DbJobs == [list : Seq(Matched), step : {"read", "write"}, writes : Seq(Updates)]

FgTypes ==
    /\ txDb \subseteq Hashes /\ IsFiniteSet(txDb)
    /\ historyQueue \in Seq(JobOf(Seq(Hashes)))
    /\ historySends \in Seq(Seq(Hashes))
    /\ fgCursor \in Cursor /\ fgBlock \in Cursor /\ fgTo \in Cursor /\ fgWrite \in Cursor
    /\ syncCatchUp \in BOOLEAN
    /\ fgStep \in {"idle", "range", "list"}
    /\ late \subseteq txDb /\ lostBatches \subseteq Hashes

GrantTypes == grants \subseteq GrantSet /\ IsFiniteSet(grants)

HistoryTypes ==
    /\ history \in Seq(Entries)
    /\ historyWork \in Seq(HistoryJobs)
    /\ unrecorded \subseteq Hashes /\ lostWork \subseteq Hashes

CronTypes ==
    /\ cronStep \in {"idle", "match", "write"}
    /\ listUnprocess \in Seq(AllRecords)
    /\ bulkUpdate \in Seq(Matched)
    /\ dbSends \in Seq(Seq(Matched))
    /\ dbQueue \in Seq(JobOf(Seq(Matched)))
    /\ forwarded \in Seq(Matched)

DbTypes == dbWork \in Seq(DbJobs)

FeegrantTypes == FgTypes /\ GrantTypes /\ HistoryTypes /\ CronTypes /\ DbTypes

\* A job of the handler has read the cursor, whose last write has landed.
JobReads ==
    fgStep # "idle" => fgWrite = NoCursor /\ fgBlock # NoCursor

\* Initially all is empty.
LEMMA InitTypes == FeegrantInit => FeegrantTypes /\ JobReads
<1> SUFFICES ASSUME FeegrantInit
             PROVE  FeegrantTypes /\ JobReads
  OBVIOUS
<1> USE DEF FeegrantInit, FgInit, HistoryInit, CronInit, DbInit
<1>1. FgTypes
  BY EmptyLemma, FS_EmptySet DEF FgTypes, Cursor, NoCursor
<1>2. GrantTypes /\ HistoryTypes
  BY EmptyLemma, FS_EmptySet DEF GrantTypes, HistoryTypes
<1>3. CronTypes /\ DbTypes
  BY EmptyLemma DEF CronTypes, DbTypes
<1> QED
  BY <1>1, <1>2, <1>3 DEF FeegrantTypes, JobReads

\* The heights of finitely many transactions are finitely many numbers.
LEMMA HeightsLemma ==
    ASSUME NEW H \in SUBSET Hashes, IsFiniteSet(H), H # {}
    PROVE  /\ HeightsOf(H) \subseteq Nat
           /\ Max(HeightsOf(H)) \in HeightsOf(H) /\ \A x \in HeightsOf(H) : x <= Max(HeightsOf(H))
           /\ Min(HeightsOf(H)) \in HeightsOf(H) /\ \A x \in HeightsOf(H) : Min(HeightsOf(H)) <= x
<1> DEFINE f == [h \in H |-> TxOf[h].height]
<1>1. HeightsOf(H) = {f[h] : h \in H}
  BY DEF HeightsOf
<1>2. f = [h \in H |-> f[h]]
  OBVIOUS
<1>3. HeightsOf(H) \subseteq Nat /\ HeightsOf(H) # {}
  BY FeegrantAssumption DEF HeightsOf
<1> HIDE DEF f
<1>4. IsFiniteSet(HeightsOf(H))
  BY <1>1, <1>2, ImageLemma
<1>5. HeightsOf(H) \subseteq Int
  BY <1>3
<1>6. Max(HeightsOf(H)) \in HeightsOf(H) /\ \A x \in HeightsOf(H) : x <= Max(HeightsOf(H))
  BY <1>3, <1>4, <1>5, GreatestLemma
<1>7. \E x \in HeightsOf(H) : \A y \in HeightsOf(H) : x <= y
  BY <1>3, LeastLemma
<1>8. Min(HeightsOf(H)) \in HeightsOf(H) /\ \A x \in HeightsOf(H) : Min(HeightsOf(H)) <= x
  BY <1>7 DEF Min
<1> QED
  BY <1>3, <1>6, <1>8

\* The range a job reads lies between what it has passed and the latest height.
LEMMA RangeLemma ==
    ASSUME FgTypes, ReadRange, fgBlock # NoCursor
    PROVE  /\ fgTo' \in Int /\ fgTo' >= -1
           /\ txDb = {} => fgTo' <= fgBlock
           /\ txDb # {} => \E h \in txDb : fgTo' <= TxOf[h].height
<1> DEFINE latest == IF txDb = {} THEN fgBlock ELSE Max(HeightsOf(txDb))
           to == Min({fgBlock + BlockPerBatch, latest})
<1>1. fgTo' = latest \/ fgTo' = to
  BY DEF ReadRange
<1>2. fgBlock \in Int /\ fgBlock >= -1 /\ BlockPerBatch \in Nat /\ BlockPerBatch >= 1
  BY TxHandlerAssumption DEF FgTypes, Cursor, NoCursor
<1>3. txDb # {} => \E h \in txDb : latest = TxOf[h].height /\ latest \in Nat
  <2> SUFFICES ASSUME txDb # {}
               PROVE  \E h \in txDb : latest = TxOf[h].height /\ latest \in Nat
    OBVIOUS
  <2>1. latest \in HeightsOf(txDb) /\ HeightsOf(txDb) \subseteq Nat
    BY HeightsLemma DEF FgTypes
  <2> QED
    BY <2>1 DEF HeightsOf
<1>4. latest \in Int /\ latest >= -1
  BY <1>2, <1>3
<1> HIDE DEF latest
<1>5. to \in Int /\ to <= latest /\ to >= -1
  <2>1. \E x \in {fgBlock + BlockPerBatch, latest} : \A y \in {fgBlock + BlockPerBatch, latest} : x <= y
    BY <1>2, <1>4
  <2>2. to \in {fgBlock + BlockPerBatch, latest} /\ to <= latest
    BY <2>1 DEF Min
  <2> HIDE DEF to
  <2> QED
    BY <1>2, <1>4, <2>2
<1> HIDE DEF to
<1>6. fgTo' \in Int /\ fgTo' >= -1 /\ fgTo' <= latest
  BY <1>1, <1>4, <1>5
<1>7. txDb = {} => latest = fgBlock
  BY DEF latest
<1>8. ASSUME txDb # {} PROVE \E h \in txDb : fgTo' <= TxOf[h].height
  BY <1>3, <1>6, <1>8
<1> QED
  BY <1>6, <1>7, <1>8

\* The handler keeps its types.
LEMMA FgTypeStep ==
    ASSUME FgTypes, JobReads, FgNext
    PROVE  FgTypes' /\ JobReads'
<1> USE DEF FgTypes, JobReads
<1>0. -2 \in Cursor /\ -1 \in Cursor /\ 0 \in Cursor /\ NoCursor = -2 /\ Cursor \subseteq Int
  BY DEF Cursor, NoCursor
<1>1. ASSUME NEW h \in Hashes, TxStored(h) PROVE FgTypes' /\ JobReads'
  <2>1. IsFiniteSet(txDb \union {h})
    BY FS_AddElement
  <2> QED
    BY <1>1, <2>1 DEF TxStored
<1>2. ASSUME ReadCursor PROVE FgTypes' /\ JobReads'
  <2>1. fgBlock' \in Cursor /\ fgBlock' # NoCursor
    <3>1. CASE fgCursor # NoCursor
      BY <1>2, <3>1 DEF ReadCursor
    <3>2. CASE fgCursor = NoCursor /\ txDb = {}
      BY <1>0, <1>2, <3>2 DEF ReadCursor
    <3>3. CASE fgCursor = NoCursor /\ txDb # {}
      <4>1. Min(HeightsOf(txDb)) \in Nat
        BY <3>3, HeightsLemma
      <4>2. fgBlock' = Min(HeightsOf(txDb)) - 1
        BY <1>2, <3>3 DEF ReadCursor
      <4> QED
        BY <4>1, <4>2 DEF Cursor, NoCursor
    <3> QED
      BY <3>1, <3>2, <3>3
  <2> QED
    BY <1>2, <2>1 DEF ReadCursor
<1>3. ASSUME ReadRange PROVE FgTypes' /\ JobReads'
  <2>1. fgBlock # NoCursor
    BY <1>3 DEF ReadRange
  <2>2. fgTo' \in Int /\ fgTo' >= -1
    BY <1>3, <2>1, RangeLemma
  <2>3. fgTo' \in Cursor
    BY <2>2 DEF Cursor
  <2>4. syncCatchUp' \in BOOLEAN
    BY <1>3, Zenon DEF ReadRange
  <2> QED
    BY <1>3, <2>3, <2>4 DEF ReadRange
<1>4. ASSUME ReadTxs PROVE FgTypes' /\ JobReads'
  <2> DEFINE found == {h \in txDb : fgBlock < TxOf[h].height /\ TxOf[h].height <= fgTo}
  <2>1. IsFiniteSet(found) /\ found \in SUBSET Hashes
    BY FS_Subset
  <2>2. \/ historySends' = historySends
        \/ \E list \in SetToSeqs(found) : historySends' = Append(historySends, list)
    BY <1>4 DEF ReadTxs
  <2> HIDE DEF found
  <2>3. \A list \in SetToSeqs(found) : list \in Seq(Hashes)
    <3> SUFFICES ASSUME NEW list \in SetToSeqs(found)
                 PROVE  list \in Seq(Hashes)
      OBVIOUS
    <3>1. list \in Seq(found)
      BY <2>1, OrderLemma
    <3> QED
      BY <2>1, <3>1
  <2>4. historySends' \in Seq(Seq(Hashes))
    <3> DEFINE Lists == Seq(Hashes)
    <3>1. historySends \in Seq(Lists) /\ \A list \in SetToSeqs(found) : list \in Lists
      BY <2>3
    <3> HIDE DEF Lists
    <3>2. \A list \in SetToSeqs(found) : Append(historySends, list) \in Seq(Lists)
      BY <3>1, SendOneLemma
    <3>3. historySends' \in Seq(Lists)
      BY <2>2, <3>1, <3>2
    <3> QED
      BY <3>3 DEF Lists
  <2> QED
    BY <1>4, <2>4 DEF ReadTxs
<1>5. ASSUME FgCursorLands PROVE FgTypes' /\ JobReads'
  BY <1>0, <1>5 DEF FgCursorLands
<1>6. ASSUME HistoryJobLands PROVE FgTypes' /\ JobReads'
  <2>1. Head(historySends) \in Seq(Hashes) /\ Tail(historySends) \in Seq(Seq(Hashes))
    BY <1>6, ArriveLemma DEF HistoryJobLands
  <2>2. Add(historyQueue, Head(historySends)) \in Seq(JobOf(Seq(Hashes)))
    BY <2>1, AddLemma
  <2> QED
    BY <1>6, <2>1, <2>2 DEF HistoryJobLands
<1>7. ASSUME FgFails PROVE FgTypes' /\ JobReads'
  BY <1>7 DEF FgFails
<1>8. ASSUME CrashFgHandler PROVE FgTypes' /\ JobReads'
  <2>1. UNION {ToSet(historySends[i]) : i \in DOMAIN historySends} \subseteq Hashes
    BY ToSetLemma DEF InFlight
  <2>2. <<>> \in Seq(Seq(Hashes))
    BY EmptyLemma
  <2> QED
    BY <1>0, <1>8, <2>1, <2>2 DEF CrashFgHandler
<1> QED
  BY <1>1, <1>2, <1>3, <1>4, <1>5, <1>6, <1>7, <1>8 DEF FgNext

\* A create record makes a grant.
LEMMA NewGrantLemma ==
    ASSUME NEW r \in AllRecords, r.action = "create"
    PROVE  NewGrant(r) \in GrantSet
<1>1. r.tx \in Hashes /\ r.status \in Statuses /\ r.amount \in Int \union {NoLimit} /\ r.result \in BOOLEAN
  BY RecordLemma DEF Amount, RecordSet
<1>2. r.granter \in {x.granter : x \in AllRecords} /\ r.grantee \in {x.grantee : x \in AllRecords}
  OBVIOUS
<1> QED
  BY <1>1, <1>2 DEF NewGrant, GrantSet

\* The grants of a list of transactions are finitely many.
LEMMA NewGrantsLemma ==
    ASSUME NEW list \in Seq(Hashes), NEW keys
    PROVE  LET all == RecordsOfList(list)
               creates == Selected(all, {j \in DOMAIN all : all[j].action = "create"})
               new == {NewGrant(r) : r \in ToSet(NewRecords(keys, creates))}
           IN /\ creates \in Seq(AllRecords)
              /\ InFlight(creates) = {r \in InFlight(all) : r.action = "create"}
              /\ new \subseteq GrantSet /\ IsFiniteSet(new)
<1> DEFINE all == RecordsOfList(list)
           I == {j \in DOMAIN all : all[j].action = "create"}
           creates == Selected(all, I)
           fresh == NewRecords(keys, creates)
           f == [j \in DOMAIN fresh |-> NewGrant(fresh[j])]
           new == {NewGrant(r) : r \in ToSet(fresh)}
<1>1. all \in Seq(AllRecords)
  BY RecordsOfListLemma
<1>2. creates \in Seq(AllRecords) /\ InFlight(creates) = {all[j] : j \in I}
  <2>1. I \intersect DOMAIN all = I
    OBVIOUS
  <2> HIDE DEF I, all
  <2> QED
    BY <1>1, <2>1, SelectedLemma
<1>3. {all[j] : j \in I} = {r \in InFlight(all) : r.action = "create"}
  <2> HIDE DEF all
  <2> QED
    BY DEF InFlight
<1> HIDE DEF creates, all, I
<1>4. fresh \in Seq(AllRecords) /\ InFlight(fresh) \subseteq InFlight(creates)
  BY <1>2, NewRecordsLemma
<1>5. \A r \in InFlight(fresh) : r \in AllRecords /\ r.action = "create"
  <2>1. InFlight(fresh) \subseteq AllRecords
    BY <1>4, ElementsLemma
  <2> QED
    BY <1>2, <1>3, <1>4, <2>1
<1> HIDE DEF fresh
<1>6. new \subseteq GrantSet
  BY <1>5, NewGrantLemma, ToSetLemma
<1>7. IsFiniteSet(new)
  <2>1. IsFiniteSet(DOMAIN fresh)
    BY <1>4, FS_Interval
  <2>2. f = [j \in DOMAIN fresh |-> f[j]]
    OBVIOUS
  <2>3. new = {f[j] : j \in DOMAIN fresh}
    BY ToSetLemma DEF InFlight
  <2> HIDE DEF f, new
  <2> QED
    BY <2>1, <2>2, <2>3, ImageLemma
<1>8. /\ creates \in Seq(AllRecords)
      /\ InFlight(creates) = {r \in InFlight(all) : r.action = "create"}
      /\ new \subseteq GrantSet /\ IsFiniteSet(new)
  BY <1>2, <1>3, <1>6, <1>7
<1> HIDE DEF new
<1> QED
  BY <1>8 DEF creates, all, I, fresh, new

\* Records become entries of the history.
LEMMA EntriesLemma ==
    ASSUME NEW new \in Seq(AllRecords)
    PROVE  [j \in DOMAIN new |-> Entry(new[j])] \in Seq(Entries)
<1> DEFINE entries == [j \in DOMAIN new |-> Entry(new[j])]
           n == Len(new)
<1>1. \A r \in AllRecords : Entry(r) \in Entries
  BY RecordLemma DEF Entry, Entries
<1>2. n \in Nat /\ DOMAIN new = 1 .. n /\ \A j \in 1 .. n : new[j] \in AllRecords
  BY ElementsLemma
<1> HIDE DEF n
<1>3. entries \in [1 .. n -> Entries]
  BY <1>1, <1>2
<1> QED
  BY <1>2, <1>3, ListLemma

\* The step of one running job, and the end of one.
LEMMA HistoryWorkLemma ==
    ASSUME historyWork \in Seq(HistoryJobs), NEW i \in DOMAIN historyWork
    PROVE  /\ historyWork[i] \in HistoryJobs /\ historyWork[i].list \in Seq(Hashes)
           /\ [historyWork EXCEPT ![i].step = "records"] \in Seq(HistoryJobs)
           /\ RemoveAt(historyWork, i) \in Seq(HistoryJobs)
<1>1. historyWork[i] \in HistoryJobs
  OBVIOUS
<1>2. RemoveAt(historyWork, i) \in Seq(HistoryJobs)
  BY RemoveLemma
<1>3. historyWork[i].list \in Seq(Hashes) /\ [historyWork[i] EXCEPT !.step = "records"] \in HistoryJobs
  BY <1>1 DEF HistoryJobs
<1>4. [historyWork EXCEPT ![i].step = "records"] \in Seq(HistoryJobs)
  <2>1. [historyWork EXCEPT ![i].step = "records"] = [historyWork EXCEPT ![i] = [historyWork[i] EXCEPT !.step = "records"]]
    OBVIOUS
  <2> QED
    BY <1>3, <2>1
<1> QED
  BY <1>1, <1>2, <1>3, <1>4

\* The service that keeps the history keeps its types.
LEMMA HistoryTypeStep ==
    ASSUME FgTypes, GrantTypes, HistoryTypes, HistoryNext
    PROVE  historyQueue' \in Seq(JobOf(Seq(Hashes))) /\ GrantTypes' /\ HistoryTypes'
<1> USE DEF GrantTypes, HistoryTypes
<1>0. historyQueue \in Seq(JobOf(Seq(Hashes)))
  BY DEF FgTypes
<1>1. ASSUME StartHistoryJob
      PROVE  historyQueue' \in Seq(JobOf(Seq(Hashes))) /\ GrantTypes' /\ HistoryTypes'
  <2> DEFINE job == [list |-> Head(historyQueue).data, step |-> "grants"]
  <2>1. Head(historyQueue).data \in Seq(Hashes) /\ Tail(historyQueue) \in Seq(JobOf(Seq(Hashes)))
    BY <1>0, <1>1, TakeLemma DEF StartHistoryJob
  <2>2. job \in HistoryJobs
    BY <2>1 DEF HistoryJobs
  <2>3. historyWork' = Append(historyWork, job)
    BY <1>1 DEF StartHistoryJob
  <2> HIDE DEF job
  <2>4. historyWork' \in Seq(HistoryJobs)
    BY <2>2, <2>3, SendOneLemma
  <2> QED
    BY <1>1, <2>1, <2>4 DEF StartHistoryJob
<1>2. ASSUME NEW i \in DOMAIN historyWork, InsertGrants(i)
      PROVE  historyQueue' \in Seq(JobOf(Seq(Hashes))) /\ GrantTypes' /\ HistoryTypes'
  <2> DEFINE all == RecordsOfList(historyWork[i].list)
             creates == Selected(all, {j \in DOMAIN all : all[j].action = "create"})
             new == {NewGrant(r) : r \in ToSet(NewRecords(GrantKeys, creates))}
  <2>1. historyWork[i].list \in Seq(Hashes) /\ historyWork' \in Seq(HistoryJobs)
    BY <1>2, HistoryWorkLemma DEF InsertGrants
  <2>2. new \subseteq GrantSet /\ IsFiniteSet(new)
    BY <2>1, NewGrantsLemma
  <2>3. \/ grants' = grants \union new /\ unrecorded' = unrecorded
        \/ grants' = grants /\ unrecorded' = unrecorded \union ToSet(historyWork[i].list)
    BY <1>2 DEF InsertGrants, HistoryFails
  <2> HIDE DEF new
  <2>4. grants' \subseteq GrantSet /\ IsFiniteSet(grants')
    BY <2>2, <2>3, FS_Union
  <2>5. unrecorded' \subseteq Hashes
    BY <2>1, <2>3, ToSetLemma DEF InFlight
  <2> QED
    BY <1>0, <1>2, <2>1, <2>4, <2>5 DEF InsertGrants
<1>3. ASSUME NEW i \in DOMAIN historyWork, InsertRecords(i)
      PROVE  historyQueue' \in Seq(JobOf(Seq(Hashes))) /\ GrantTypes' /\ HistoryTypes'
  <2> DEFINE new == NewRecords(HistoryKeys, RecordsOfList(historyWork[i].list))
             entries == [j \in DOMAIN new |-> Entry(new[j])]
  <2>1. historyWork[i].list \in Seq(Hashes) /\ historyWork' \in Seq(HistoryJobs)
    BY <1>3, HistoryWorkLemma DEF InsertRecords
  <2>2. new \in Seq(AllRecords)
    BY <2>1, RecordsOfListLemma, NewRecordsLemma
  <2>3. \/ history' = history \o entries /\ unrecorded' = unrecorded
        \/ history' = history /\ unrecorded' = unrecorded \union ToSet(historyWork[i].list)
    BY <1>3 DEF InsertRecords, HistoryFails
  <2> HIDE DEF new
  <2>5. entries \in Seq(Entries)
    BY <2>2, EntriesLemma
  <2> HIDE DEF entries
  <2>6. history' \in Seq(Entries)
    <3>1. history \o entries \in Seq(Entries)
      BY <2>5, SendLemma
    <3> QED
      BY <2>3, <3>1
  <2>7. unrecorded' \subseteq Hashes
    BY <2>1, <2>3, ToSetLemma DEF InFlight
  <2> QED
    BY <1>0, <1>3, <2>1, <2>6, <2>7 DEF InsertRecords
<1>4. ASSUME CrashHistory
      PROVE  historyQueue' \in Seq(JobOf(Seq(Hashes))) /\ GrantTypes' /\ HistoryTypes'
  <2>1. \A i \in DOMAIN historyWork : ToSet(historyWork[i].list) \subseteq Hashes
    <3> SUFFICES ASSUME NEW i \in DOMAIN historyWork
                 PROVE  ToSet(historyWork[i].list) \subseteq Hashes
      OBVIOUS
    <3>1. historyWork[i].list \in Seq(Hashes)
      BY HistoryWorkLemma
    <3> QED
      BY <3>1, ElementsLemma
  <2>2. <<>> \in Seq(HistoryJobs)
    BY EmptyLemma
  <2> QED
    BY <1>0, <1>4, <2>1, <2>2 DEF CrashHistory
<1> QED
  BY <1>1, <1>2, <1>3, <1>4 DEF HistoryNext

\* So does the job that looks for the grant of each record.
LEMMA CronTypeStep ==
    ASSUME GrantTypes, HistoryTypes, CronTypes, CronNext
    PROVE  history' \in Seq(Entries) /\ CronTypes'
<1> USE DEF CronTypes
<1>0. history \in Seq(Entries) /\ DOMAIN history = 1 .. Len(history) /\ Len(history) \in Nat
  BY DEF HistoryTypes
<1>1. ASSUME FindUnprocessed PROVE history' \in Seq(Entries) /\ CronTypes'
  <2> DEFINE k == Min({MaxUnprocessed, Len(Unprocessed)})
  <2>1. Unprocessed \in Seq(Entries)
    BY <1>0, SelectedLemma DEF Unprocessed
  <2>2. Len(Unprocessed) \in Nat /\ MaxUnprocessed \in Nat
    BY <2>1, CronjobAssumption
  <2>3. k \in Nat /\ k <= Len(Unprocessed)
    <3>1. \E x \in {MaxUnprocessed, Len(Unprocessed)} : \A y \in {MaxUnprocessed, Len(Unprocessed)} : x <= y
      BY <2>2
    <3>2. k \in {MaxUnprocessed, Len(Unprocessed)} /\ k <= Len(Unprocessed)
      BY <3>1 DEF Min
    <3> QED
      BY <2>2, <3>2
  <2>4. listUnprocess' = [i \in 1 .. k |-> Unprocessed[i].rec]
    BY <1>1 DEF FindUnprocessed
  <2> HIDE DEF k
  <2>5. \A i \in 1 .. k : Unprocessed[i].rec \in AllRecords
    <3> SUFFICES ASSUME NEW i \in 1 .. k
                 PROVE  Unprocessed[i].rec \in AllRecords
      OBVIOUS
    <3>1. i \in 1 .. Len(Unprocessed)
      BY <2>2, <2>3
    <3>2. Unprocessed[i] \in Entries
      BY <2>1, <3>1, ElementsLemma
    <3> QED
      BY <3>2 DEF Entries
  <2>6. listUnprocess' \in Seq(AllRecords)
    <3>1. listUnprocess' \in [1 .. k -> AllRecords]
      BY <2>4, <2>5
    <3> QED
      BY <2>3, <3>1, ListLemma
  <2> QED
    BY <1>0, <1>1, <2>6 DEF FindUnprocessed
<1>2. ASSUME MatchOrigins PROVE history' \in Seq(Entries) /\ CronTypes'
  <2> DEFINE matched == Selected(listUnprocess, {i \in DOMAIN listUnprocess : Origins(listUnprocess[i]) # {}})
  <2>1. matched \in Seq(AllRecords)
    BY SelectedLemma
  <2>2. PICK origin \in [ToSet(matched) -> Hashes] :
            bulkUpdate' = [i \in DOMAIN matched |-> [rec |-> matched[i], origin |-> origin[matched[i]]]]
    BY <1>2 DEF MatchOrigins
  <2>3. dbSends' = dbSends \/ dbSends' = Append(dbSends, bulkUpdate')
    BY <1>2 DEF MatchOrigins
  <2> HIDE DEF matched
  <2>4. \A i \in DOMAIN matched : [rec |-> matched[i], origin |-> origin[matched[i]]] \in Matched
    <3> SUFFICES ASSUME NEW i \in DOMAIN matched
                 PROVE  [rec |-> matched[i], origin |-> origin[matched[i]]] \in Matched
      OBVIOUS
    <3>1. matched[i] \in AllRecords /\ matched[i] \in ToSet(matched)
      BY <2>1, ElementsLemma DEF ToSet
    <3>2. origin[matched[i]] \in Hashes
      BY <2>2, <3>1
    <3> QED
      BY <3>1, <3>2 DEF Matched
  <2>5. bulkUpdate' \in Seq(Matched)
    <3> DEFINE n == Len(matched)
    <3>1. n \in Nat /\ DOMAIN matched = 1 .. n
      BY <2>1, ElementsLemma
    <3> HIDE DEF n
    <3>2. bulkUpdate' \in [1 .. n -> Matched]
      BY <2>2, <2>4, <3>1
    <3> QED
      BY <3>1, <3>2, ListLemma
  <2>6. dbSends' \in Seq(Seq(Matched))
    <3> DEFINE Lists == Seq(Matched)
    <3>1. dbSends \in Seq(Lists) /\ bulkUpdate' \in Lists
      BY <2>5
    <3> HIDE DEF Lists
    <3>2. \A list \in Lists : Append(dbSends, list) \in Seq(Lists)
      BY <3>1, SendOneLemma
    <3>3. dbSends' \in Seq(Lists)
      BY <2>3, <3>1, <3>2
    <3> QED
      BY <3>3 DEF Lists
  <2>7. forwarded' \in Seq(Matched)
    <3>1. \A list \in Seq(Matched) : forwarded \o list \in Seq(Matched)
      BY SendLemma
    <3> QED
      BY <1>2, <2>5, <3>1 DEF MatchOrigins
  <2>8. listUnprocess' \in Seq(AllRecords)
    BY <1>2, EmptyLemma DEF MatchOrigins
  <2> QED
    BY <1>0, <1>2, <2>5, <2>6, <2>7, <2>8 DEF MatchOrigins
<1>3. ASSUME WriteOrigins PROVE history' \in Seq(Entries) /\ CronTypes'
  <2>1. ASSUME NEW i \in DOMAIN history PROVE history'[i] \in Entries
    <3>1. CASE \E e \in ToSet(bulkUpdate) : e.rec = history[i].rec
      <4>1. history'[i] \in ToSet(bulkUpdate)
        BY <1>3, <3>1 DEF WriteOrigins
      <4>2. history'[i] \in Matched
        BY <4>1, ToSetLemma DEF InFlight
      <4> QED
        BY <4>2 DEF Matched, Entries
    <3>2. CASE ~\E e \in ToSet(bulkUpdate) : e.rec = history[i].rec
      BY <1>0, <1>3, <3>2 DEF WriteOrigins
    <3> QED
      BY <3>1, <3>2
  <2>2. history' = [i \in DOMAIN history |-> history'[i]]
    BY <1>3 DEF WriteOrigins
  <2>3. history' \in Seq(Entries)
    <3> DEFINE n == Len(history)
               new == history'
    <3>1. n \in Nat /\ DOMAIN history = 1 .. n
      BY <1>0
    <3>2. new \in [1 .. n -> Entries]
      <4> HIDE DEF n
      <4>1. new = [i \in 1 .. n |-> new[i]] /\ \A i \in 1 .. n : new[i] \in Entries
        BY <2>1, <2>2, <3>1
      <4> HIDE DEF new
      <4> QED
        BY <4>1
    <3> HIDE DEF n, new
    <3>3. new \in Seq(Entries)
      BY <3>1, <3>2, ListLemma
    <3> QED
      BY <3>3 DEF new
  <2>4. <<>> \in Seq(Matched)
    BY EmptyLemma
  <2> QED
    BY <1>3, <2>3, <2>4 DEF WriteOrigins
<1>4. ASSUME CronFails PROVE history' \in Seq(Entries) /\ CronTypes'
  <2>1. <<>> \in Seq(Matched) /\ <<>> \in Seq(AllRecords)
    BY EmptyLemma
  <2> QED
    BY <1>0, <1>4, <2>1 DEF CronFails
<1>5. ASSUME DbJobLands PROVE history' \in Seq(Entries) /\ CronTypes'
  <2>1. Head(dbSends) \in Seq(Matched) /\ Tail(dbSends) \in Seq(Seq(Matched))
    BY <1>5, ArriveLemma DEF DbJobLands
  <2>2. Add(dbQueue, Head(dbSends)) \in Seq(JobOf(Seq(Matched)))
    BY <2>1, AddLemma
  <2> QED
    BY <1>0, <1>5, <2>1, <2>2 DEF DbJobLands
<1>6. ASSUME CrashCron PROVE history' \in Seq(Entries) /\ CronTypes'
  <2>1. <<>> \in Seq(Matched) /\ <<>> \in Seq(AllRecords) /\ <<>> \in Seq(Seq(Matched))
    BY EmptyLemma
  <2> QED
    BY <1>0, <1>6, <2>1 DEF CrashCron
<1> QED
  BY <1>1, <1>2, <1>3, <1>4, <1>5, <1>6 DEF CronNext

\* What a list takes from a grant is the last of the sums over its first records.
SumsOf(list, t) ==
    {f \in [0 .. Len(list) -> Nat] :
        f[0] = 0 /\ \A i \in 1 .. Len(list) : f[i] = f[i - 1] + Charge(list[i], t)}

\* What a matched record takes from a grant is a number.
LEMMA ChargeLemma ==
    ASSUME NEW e \in Matched, NEW t
    PROVE  Charge(e, t) \in Nat
<1>1. e.rec \in AllRecords
  BY DEF Matched
<1>2. e.rec.action = "use" => e.rec.amount \in Nat
  BY <1>1, RecordLemma
<1> QED
  BY <1>2 DEF Charge

\* There is such a sum, and Spent is its last value.
LEMMA SpentLemma ==
    ASSUME NEW list \in Seq(Matched), NEW t
    PROVE  \E f \in SumsOf(list, t) : Spent(list, t) = f[Len(list)]
<1> DEFINE n == Len(list)
           f == CHOOSE g : g = [i \in 0 .. Len(list) |->
                                    IF i = 0 THEN 0 ELSE g[i - 1] + Charge(list[i], t)]
           G == [p \in (1 .. n) \X Nat |-> p[2] + Charge(list[p[1]], t)]
<1>1. Spent(list, t) = f[Len(list)]
  BY DEF Spent
<1>2. n \in Nat /\ \A i \in 1 .. n : Charge(list[i], t) \in Nat
  BY ElementsLemma, ChargeLemma
<1>3. \A i \in 1 .. n, v \in Nat : G[<<i, v>>] = v + Charge(list[i], t)
  OBVIOUS
<1> HIDE DEF G, n
<1>4. ASSUME NEW i \in 1 .. n, NEW v \in Nat PROVE G[<<i, v>>] \in Nat
  <2>1. Charge(list[i], t) \in Nat /\ G[<<i, v>>] = v + Charge(list[i], t)
    BY <1>2, <1>3
  <2>2. \A c \in Nat : v + c \in Nat
    OBVIOUS
  <2> QED
    BY <2>1, <2>2
<1>5. PICK h \in [0 .. n -> Nat] : h[0] = 0 /\ \A i \in 1 .. n : h[i] = G[<<i, h[i - 1]>>]
  <2>1. StepsOf(Nat, n, 0, G) # {}
    BY <1>2, <1>4, StepsLemma
  <2> QED
    BY <2>1 DEF StepsOf
<1>6. ASSUME NEW i \in 1 .. n PROVE h[i - 1] \in Nat /\ h[i] = h[i - 1] + Charge(list[i], t)
  <2>1. i - 1 \in 0 .. n
    BY <1>2
  <2> QED
    BY <1>3, <1>5, <2>1
<1>7. h = [i \in 0 .. Len(list) |-> IF i = 0 THEN 0 ELSE h[i - 1] + Charge(list[i], t)]
  <2>1. h = [i \in 0 .. n |-> h[i]] /\ n = Len(list)
    BY <1>5 DEF n
  <2>2. \A i \in 0 .. n : i = 0 \/ i \in 1 .. n
    BY <1>2
  <2> QED
    BY <1>5, <1>6, <2>1, <2>2
<1>8. f = [i \in 0 .. Len(list) |-> IF i = 0 THEN 0 ELSE f[i - 1] + Charge(list[i], t)]
  BY <1>7
<1> HIDE DEF f
<1>9. n = Len(list)
  BY DEF n
<1>10. f[0] = 0 /\ \A i \in 1 .. n : f[i] = f[i - 1] + Charge(list[i], t)
  <2>1. \A i \in 1 .. n : i \in 0 .. n /\ i # 0
    BY <1>2
  <2>2. 0 \in 0 .. n
    BY <1>2
  <2> QED
    BY <1>8, <1>9, <2>1, <2>2
<1> DEFINE S == {i \in 0 .. n : f[i] \in Nat}
<1>11. 0 .. n \subseteq S
  <2>1. 0 \in S
    BY <1>2, <1>10
  <2>2. ASSUME NEW i \in 1 .. n, i - 1 \in S PROVE i \in S
    <3>1. f[i - 1] \in Nat /\ i \in 0 .. n
      BY <1>2, <2>2
    <3> QED
      BY <1>2, <1>10, <3>1
  <2> HIDE DEF S
  <2> QED
    BY <1>2, <2>1, <2>2, SweepLemma
<1>12. f \in [0 .. n -> Nat]
  <2>1. f = [i \in 0 .. n |-> f[i]]
    BY <1>8, <1>9
  <2> QED
    BY <1>11, <2>1
<1>13. f \in SumsOf(list, t)
  BY <1>9, <1>10, <1>12 DEF SumsOf
<1> QED
  BY <1>1, <1>13

\* So it is a number.
LEMMA SpentType ==
    ASSUME NEW list \in Seq(Matched), NEW t
    PROVE  Spent(list, t) \in Nat
<1>1. PICK f \in SumsOf(list, t) : Spent(list, t) = f[Len(list)]
  BY SpentLemma
<1>2. Len(list) \in 0 .. Len(list)
  BY ElementsLemma
<1> QED
  BY <1>1, <1>2 DEF SumsOf

\* The status a list leaves a grant with is one.
LEMMA StatusLemma ==
    ASSUME NEW list \in Seq(Matched), NEW t
    PROVE  StatusAfter(list, t) \in Statuses
<1> DEFINE revokes == {i \in DOMAIN list : list[i].origin = t /\ list[i].rec.action = "revoke"}
<1>1. revokes \subseteq DOMAIN list /\ DOMAIN list = 1 .. Len(list) /\ Len(list) \in Nat
  OBVIOUS
<1>2. StatusAfter(list, t) = IF revokes = {} THEN "Available" ELSE list[Max(revokes)].rec.status
  BY DEF StatusAfter
<1> HIDE DEF revokes
<1>3. IsFiniteSet(revokes) /\ revokes \subseteq Int
  <2>1. IsFiniteSet(1 .. Len(list))
    BY <1>1, FS_Interval
  <2> QED
    BY <1>1, <2>1, FS_Subset
<1>4. CASE revokes = {}
  BY <1>2, <1>4 DEF Statuses
<1>5. CASE revokes # {}
  <2>1. Max(revokes) \in DOMAIN list
    BY <1>1, <1>3, <1>5, GreatestLemma
  <2>2. list[Max(revokes)].rec \in AllRecords
    <3>1. list[Max(revokes)] \in Matched
      BY <2>1, ElementsLemma
    <3> QED
      BY <3>1 DEF Matched
  <2>3. list[Max(revokes)].rec.status \in Statuses
    BY <2>2, RecordLemma
  <2> QED
    BY <1>2, <1>5, <2>3
<1> QED
  BY <1>4, <1>5

\* What the update of a grant says.
LEMMA UpdateLemma ==
    ASSUME NEW g \in GrantSet, NEW list \in Seq(Matched)
    PROVE  UpdateOf(g, list) \in Updates
<1>1. g.tx \in Hashes /\ g.amount \in Int \union {NoLimit}
  BY DEF GrantSet
<1>2. Spent(list, g.tx) \in Nat /\ StatusAfter(list, g.tx) \in Statuses
  BY SpentType, StatusLemma
<1> QED
  BY <1>1, <1>2 DEF UpdateOf, Updates

\* A grant that is given an amount, a status or a revoker is one of the same transaction.
LEMMA GrantLemma ==
    ASSUME NEW g \in GrantSet
    PROVE  /\ \A a \in Int \union {NoLimit}, s \in Statuses :
                 LET new == [g EXCEPT !.amount = a, !.status = s]
                 IN new \in GrantSet /\ new.tx = g.tx
           /\ \A h \in Hashes :
                 LET new == [g EXCEPT !.revokedBy = h]
                 IN new \in GrantSet /\ new.tx = g.tx
BY DEF GrantSet

\* The running jobs of feegrant.db.
LEMMA DbWorkLemma ==
    ASSUME DbTypes, NEW i \in DOMAIN dbWork
    PROVE  /\ dbWork[i] \in DbJobs
           /\ dbWork[i].list \in Seq(Matched) /\ dbWork[i].writes \in Seq(Updates)
           /\ \A job \in DbJobs : [dbWork EXCEPT ![i] = job] \in Seq(DbJobs)
           /\ RemoveAt(dbWork, i) \in Seq(DbJobs)
<1>1. dbWork[i] \in DbJobs
  BY DEF DbTypes
<1>2. RemoveAt(dbWork, i) \in Seq(DbJobs)
  BY RemoveLemma DEF DbTypes
<1>3. \A job \in DbJobs : [dbWork EXCEPT ![i] = job] \in Seq(DbJobs)
  BY DEF DbTypes
<1> QED
  BY <1>1, <1>2, <1>3 DEF DbJobs

\* A grant is written in its place, and no transaction loses its grant.
LEMMA WriteGrantLemma ==
    ASSUME GrantTypes, DbTypes, NEW i \in DOMAIN dbWork, WriteGrant(i)
    PROVE  /\ GrantTypes' /\ dbWork' \in Seq(DbJobs)
           /\ \A g \in grants : \E x \in grants' : x.tx = g.tx
<1> DEFINE next == Head(dbWork[i].writes)
<1>0. dbWork[i].writes # <<>> /\ dbWork[i].writes \in Seq(Updates)
  BY DbWorkLemma DEF WriteGrant
<1>1. next \in Updates /\ Tail(dbWork[i].writes) \in Seq(Updates)
  BY <1>0, ArriveLemma
<1>2. PICK g \in grants :
         LET new == [g EXCEPT !.amount = next.amount, !.status = next.status]
         IN \/ dbWork' = <<>> /\ grants' = grants
            \/ /\ grants' = (grants \ {g}) \union {new}
               /\ dbWork' = [dbWork EXCEPT ![i].writes = Tail(@)]
  BY DEF WriteGrant
<1> DEFINE new == [g EXCEPT !.amount = next.amount, !.status = next.status]
<1>3. g \in GrantSet /\ next.amount \in Int \union {NoLimit} /\ next.status \in Statuses
  BY <1>1 DEF GrantTypes, Updates
<1>4. new \in GrantSet /\ new.tx = g.tx
  <2> HIDE DEF next
  <2> QED
    BY <1>3, GrantLemma
<1> HIDE DEF new
<1>5. CASE dbWork' = <<>> /\ grants' = grants
  <2>1. <<>> \in Seq(DbJobs)
    BY EmptyLemma
  <2> QED
    BY <1>5, <2>1 DEF GrantTypes
<1>6. CASE /\ grants' = (grants \ {g}) \union {new}
           /\ dbWork' = [dbWork EXCEPT ![i].writes = Tail(@)]
  <2> DEFINE job == [dbWork[i] EXCEPT !.writes = Tail(dbWork[i].writes)]
  <2>1. job \in DbJobs
    BY <1>1, DbWorkLemma DEF DbJobs
  <2>2. dbWork' = [dbWork EXCEPT ![i] = job]
    BY <1>6
  <2> HIDE DEF job
  <2>3. dbWork' \in Seq(DbJobs)
    BY <2>1, <2>2, DbWorkLemma
  <2>4. IsFiniteSet(grants')
    BY <1>6, FS_RemoveElement, FS_AddElement DEF GrantTypes
  <2>5. grants' \subseteq GrantSet
    BY <1>4, <1>6 DEF GrantTypes
  <2>6. \A x \in grants : x = g \/ x \in grants'
    BY <1>6
  <2>7. new \in grants'
    BY <1>6
  <2> QED
    BY <1>4, <2>3, <2>4, <2>5, <2>6, <2>7 DEF GrantTypes
<1> QED
  BY <1>2, <1>5, <1>6 DEF new

\* Writing down who revoked a grant changes nothing else of it.
LEMMA WriteRevokesLemma ==
    ASSUME GrantTypes, DbTypes, NEW i \in DOMAIN dbWork, WriteRevokes(i)
    PROVE  /\ GrantTypes' /\ dbWork' \in Seq(DbJobs)
           /\ \A g \in grants : \E x \in grants' : x.tx = g.tx
<1> DEFINE list == dbWork[i].list
           revokes == {e \in ToSet(list) : e.rec.action = "revoke" /\ e.rec.status = "Revoked"}
<1>1. PICK revoker \in [{e.origin : e \in revokes} -> {e.rec.tx : e \in revokes}] :
         grants' = {IF g.tx \in DOMAIN revoker
                    THEN [g EXCEPT !.revokedBy = revoker[g.tx]] ELSE g : g \in grants}
  BY DEF WriteRevokes
<1>2. dbWork' \in Seq(DbJobs)
  BY DbWorkLemma DEF WriteRevokes
<1>3. ToSet(list) \subseteq Matched
  BY DbWorkLemma, ElementsLemma
<1>4. {e.rec.tx : e \in revokes} \subseteq Hashes
  BY <1>3, RecordLemma DEF Matched
<1> HIDE DEF revokes, list
<1>5. \A t \in DOMAIN revoker : revoker[t] \in Hashes
  BY <1>4
<1> DEFINE f == [g \in grants |-> IF g.tx \in DOMAIN revoker
                                  THEN [g EXCEPT !.revokedBy = revoker[g.tx]] ELSE g]
<1>6. grants' = {f[g] : g \in grants} /\ f = [g \in grants |-> f[g]]
  BY <1>1
<1>7. \A g \in grants : f[g] \in GrantSet /\ f[g].tx = g.tx
  <2> SUFFICES ASSUME NEW g \in grants
               PROVE  f[g] \in GrantSet /\ f[g].tx = g.tx
    OBVIOUS
  <2>1. g \in GrantSet
    BY DEF GrantTypes
  <2>2. CASE g.tx \in DOMAIN revoker
    BY <1>5, <2>1, <2>2, GrantLemma
  <2>3. CASE g.tx \notin DOMAIN revoker
    BY <2>1, <2>3
  <2> QED
    BY <2>2, <2>3
<1> HIDE DEF f
<1>8. IsFiniteSet(grants')
  BY <1>6, ImageLemma DEF GrantTypes
<1> QED
  BY <1>2, <1>6, <1>7, <1>8 DEF GrantTypes

\* The service that charges the grants keeps its types.
LEMMA DbTypeStep ==
    ASSUME GrantTypes, CronTypes, DbTypes, DbNext
    PROVE  dbQueue' \in Seq(JobOf(Seq(Matched))) /\ GrantTypes' /\ DbTypes'
<1>0. dbQueue \in Seq(JobOf(Seq(Matched))) /\ dbWork \in Seq(DbJobs)
  BY DEF CronTypes, DbTypes
<1>1. CASE StartDbJob
  <2> DEFINE job == [list |-> Head(dbQueue).data, step |-> "read", writes |-> <<>>]
  <2>1. Head(dbQueue).data \in Seq(Matched) /\ Tail(dbQueue) \in Seq(JobOf(Seq(Matched)))
    BY <1>0, <1>1, TakeLemma DEF StartDbJob
  <2>2. job \in DbJobs
    BY <2>1, EmptyLemma DEF DbJobs
  <2>3. dbWork' = Append(dbWork, job)
    BY <1>1 DEF StartDbJob
  <2> HIDE DEF job
  <2>4. dbWork' \in Seq(DbJobs)
    BY <1>0, <2>2, <2>3, SendOneLemma
  <2> QED
    BY <1>1, <2>1, <2>4 DEF StartDbJob, GrantTypes, DbTypes
<1>2. ASSUME NEW i \in DOMAIN dbWork, ReadGrants(i)
      PROVE  dbQueue' \in Seq(JobOf(Seq(Matched))) /\ GrantTypes' /\ DbTypes'
  <2> DEFINE read == {g \in grants : g.tx \in OriginsOf(dbWork[i].list)}
  <2>1. PICK order \in SetToSeqs(read) :
            dbWork' = [dbWork EXCEPT
                ![i].step = "write",
                ![i].writes = [j \in DOMAIN order |-> UpdateOf(order[j], dbWork[i].list)]]
    BY <1>2 DEF ReadGrants
  <2> DEFINE writes == [j \in DOMAIN order |-> UpdateOf(order[j], dbWork[i].list)]
             job == [dbWork[i] EXCEPT !.step = "write", !.writes = writes]
  <2>2. read \subseteq GrantSet /\ IsFiniteSet(read)
    BY FS_Subset DEF GrantTypes
  <2> HIDE DEF read
  <2>3. order \in Seq(read)
    BY <2>2, OrderLemma
  <2>4. writes \in Seq(Updates)
    <3> DEFINE n == Len(order)
    <3>1. n \in Nat /\ DOMAIN order = 1 .. n /\ \A j \in 1 .. n : order[j] \in GrantSet
      BY <2>2, <2>3, ElementsLemma
    <3> HIDE DEF n
    <3>2. dbWork[i].list \in Seq(Matched)
      BY DbWorkLemma
    <3>3. writes \in [1 .. n -> Updates]
      BY <3>1, <3>2, UpdateLemma
    <3> QED
      BY <3>1, <3>3, ListLemma
  <2> HIDE DEF writes
  <2>5. job \in DbJobs
    BY <2>4, DbWorkLemma DEF DbJobs
  <2>6. dbWork' = [dbWork EXCEPT ![i] = job]
    BY <2>1 DEF writes
  <2> HIDE DEF job
  <2>7. dbWork' \in Seq(DbJobs)
    BY <2>5, <2>6, DbWorkLemma
  <2> QED
    BY <1>0, <1>2, <2>7 DEF ReadGrants, GrantTypes, DbTypes
<1>3. ASSUME NEW i \in DOMAIN dbWork, WriteGrant(i)
      PROVE  dbQueue' \in Seq(JobOf(Seq(Matched))) /\ GrantTypes' /\ DbTypes'
  <2>1. GrantTypes' /\ dbWork' \in Seq(DbJobs)
    BY <1>3, WriteGrantLemma
  <2>2. dbQueue' = dbQueue
    BY <1>3 DEF WriteGrant
  <2> QED
    BY <1>0, <2>1, <2>2 DEF DbTypes
<1>4. ASSUME NEW i \in DOMAIN dbWork, WriteRevokes(i)
      PROVE  dbQueue' \in Seq(JobOf(Seq(Matched))) /\ GrantTypes' /\ DbTypes'
  <2>1. GrantTypes' /\ dbWork' \in Seq(DbJobs)
    BY <1>4, WriteRevokesLemma
  <2>2. dbQueue' = dbQueue
    BY <1>4 DEF WriteRevokes
  <2> QED
    BY <1>0, <2>1, <2>2 DEF DbTypes
<1>5. CASE CrashDb
  <2>1. <<>> \in Seq(DbJobs)
    BY EmptyLemma
  <2> QED
    BY <1>0, <1>5, <2>1 DEF CrashDb, GrantTypes, DbTypes
<1> QED
  BY <1>1, <1>2, <1>3, <1>4, <1>5 DEF DbNext

\* Every step of the services keeps the types.
LEMMA NextTypes ==
    ASSUME FeegrantTypes, JobReads, [FeegrantNext]_fgAllVars
    PROVE  FeegrantTypes' /\ JobReads'
<1> USE DEF FeegrantTypes
<1>1. CASE FgNext /\ UNCHANGED <<history, grants, dbQueue, historyOwnVars, cronOwnVars, dbOwnVars>>
  <2>1. FgTypes' /\ JobReads'
    BY <1>1, FgTypeStep
  <2>2. GrantTypes' /\ HistoryTypes' /\ CronTypes' /\ DbTypes'
    BY <1>1 DEF GrantTypes, HistoryTypes, CronTypes, DbTypes, historyOwnVars, cronOwnVars, dbOwnVars
  <2> QED
    BY <2>1, <2>2
<1>2. CASE HistoryNext /\ UNCHANGED <<txDb, dbQueue, fgOwnVars, cronOwnVars, dbOwnVars>>
  <2>1. historyQueue' \in Seq(JobOf(Seq(Hashes))) /\ GrantTypes' /\ HistoryTypes'
    BY <1>2, HistoryTypeStep
  <2>2. FgTypes' /\ JobReads' /\ CronTypes' /\ DbTypes'
    BY <1>2, <2>1 DEF FgTypes, JobReads, CronTypes, DbTypes, fgOwnVars, cronOwnVars, dbOwnVars
  <2> QED
    BY <2>1, <2>2
<1>3. CASE CronNext /\ UNCHANGED <<txDb, historyQueue, fgOwnVars, historyOwnVars, dbOwnVars>>
  <2>1. history' \in Seq(Entries) /\ CronTypes'
    BY <1>3, CronTypeStep
  <2>2. grants' = grants
    BY <1>3 DEF CronNext, FindUnprocessed, MatchOrigins, WriteOrigins, CronFails, DbJobLands, CrashCron
  <2>3. FgTypes' /\ JobReads' /\ GrantTypes' /\ HistoryTypes' /\ DbTypes'
    BY <1>3, <2>1, <2>2 DEF FgTypes, JobReads, GrantTypes, HistoryTypes, DbTypes, fgOwnVars, historyOwnVars, dbOwnVars
  <2> QED
    BY <2>1, <2>3
<1>4. CASE DbNext /\ UNCHANGED <<txDb, historyQueue, history, fgOwnVars, historyOwnVars, cronOwnVars>>
  <2>1. dbQueue' \in Seq(JobOf(Seq(Matched))) /\ GrantTypes' /\ DbTypes'
    BY <1>4, DbTypeStep
  <2>2. FgTypes' /\ JobReads' /\ HistoryTypes' /\ CronTypes'
    BY <1>4, <2>1 DEF FgTypes, JobReads, HistoryTypes, CronTypes, fgOwnVars, historyOwnVars, cronOwnVars
  <2> QED
    BY <2>1, <2>2
<1>5. CASE UNCHANGED fgAllVars
  BY <1>5 DEF fgAllVars, FgTypes, JobReads, GrantTypes, HistoryTypes, CronTypes, DbTypes,
              fgOwnVars, historyOwnVars, cronOwnVars, dbOwnVars
<1> QED
  BY <1>1, <1>2, <1>3, <1>4, <1>5 DEF FeegrantNext

\* So they hold always...
LEMMA TypesInvariant == FeegrantSpec => [](FeegrantTypes /\ JobReads)
<1>1. (FeegrantTypes /\ JobReads) /\ [FeegrantNext]_fgAllVars => (FeegrantTypes /\ JobReads)'
  BY NextTypes
<1> QED
  BY <1>1, InitTypes, PTL DEF FeegrantSpec

\* ... and say what the type invariant of the runs says.
LEMMA TypesAreOK == FeegrantTypes => FeegrantTypeOK
<1> SUFFICES ASSUME FeegrantTypes
             PROVE  FeegrantTypeOK
  OBVIOUS
<1> USE DEF FeegrantTypes
<1>1. \A i \in DOMAIN history :
         history[i].rec \in AllRecords /\ history[i].origin \in Hashes \union {NoHash}
  <2>1. \A i \in DOMAIN history : history[i] \in Entries
    BY ElementsLemma DEF HistoryTypes
  <2> QED
    BY <2>1 DEF Entries
<1>2. \A g \in grants :
         /\ g.tx \in Hashes /\ g.status \in {"Available", "Fail", "Revoked", "Use up"}
         /\ g.amount \in Int \/ g.amount = NoLimit
  BY DEF GrantTypes, GrantSet, Statuses
<1>3. ToSet(listUnprocess) \subseteq AllRecords
  BY ElementsLemma DEF CronTypes
<1>4. \A i \in DOMAIN dbWork : dbWork[i].step \in {"read", "write"}
  <2>1. \A i \in DOMAIN dbWork : dbWork[i] \in DbJobs
    BY ElementsLemma DEF DbTypes
  <2> QED
    BY <2>1 DEF DbJobs
<1>5. historyWork \in Seq([list : Seq(Hashes), step : {"grants", "records"}])
  BY DEF HistoryTypes, HistoryJobs
<1>6. lostBatches \union lostWork \union unrecorded \subseteq Hashes
  BY DEF FgTypes, HistoryTypes
<1>7. cronStep \in {"idle", "match", "write"}
  BY DEF CronTypes
<1> QED
  BY <1>1, <1>2, <1>3, <1>4, <1>5, <1>6, <1>7 DEF FeegrantTypeOK, FgTypes

\* Every variable of the fee-grant services has its type, whatever the transactions are.
THEOREM FeegrantTypeCorrect == FeegrantSpec => []FeegrantTypeOK
BY TypesInvariant, TypesAreOK, PTL

-----------------------------------------------------------------------------
(* The cursor skips no transaction.                                            *)

\* A transaction the cursor may have passed.
Handled(h) ==
    \/ h \in InHand \union late \union lostBatches \union lostWork \union unrecorded
    \/ Recorded(h)

\* The grants of a transaction were made.
GrantsMade(h) ==
    \A r \in ToSet(RecordsOf[h]) : r.action = "create" => \E g \in grants : g.tx = h

\* What the handler has passed or is about to: also what its running job read from.
PassedIsHandled == \A h \in txDb : TxOf[h].height <= Passed => Handled(h)

\* The range of a running job ends within the database too.
RangeWithinDb ==
    \A c \in {fgCursor, fgWrite}
                \union (IF fgStep = "idle" THEN {} ELSE {fgBlock})
                \union (IF fgStep = "list" THEN {fgTo} ELSE {}) :
        c >= 0 => \E h \in txDb : c <= TxOf[h].height

\* A job that is about to write the history has made the grants, or failed to.
WorkMadeGrants ==
    \A w \in InFlight(historyWork) :
        w.step = "records" => \A h \in ToSet(w.list) : h \in unrecorded \/ GrantsMade(h)

\* The inductive invariant.
CursorInv ==
    /\ FeegrantTypes /\ JobReads
    /\ PassedIsHandled /\ RangeWithinDb /\ WorkMadeGrants

\* To be passed is to be passed by one of the three, now and after a step.
LEMMA ThreeLemma ==
    ASSUME NEW a \in Int, NEW b \in Int, NEW c \in Int
    PROVE  \A x \in Int : x <= Max({a, b, c}) <=> x <= a \/ x <= b \/ x <= c
<1> DEFINE S == {a, b, c}
           m == Max(S)
<1>1. \E x \in S : \A y \in S : x >= y
  OBVIOUS
<1>2. m \in {a, b, c} /\ m >= a /\ m >= b /\ m >= c
  BY <1>1 DEF Max
<1> HIDE DEF m
<1>3. \A x \in Int : x <= m <=> x <= a \/ x <= b \/ x <= c
  BY <1>2
<1> QED
  BY <1>3 DEF m

\* What the handler has passed, now and after a step.
LEMMA PassedLemma ==
    /\ FgTypes =>
          \A x \in Int : x <= Passed <=> \/ x <= fgCursor \/ x <= fgWrite
                                         \/ x <= (IF fgStep = "idle" THEN NoCursor ELSE fgBlock)
    /\ FgTypes' =>
          \A x \in Int : x <= Passed' <=> \/ x <= fgCursor' \/ x <= fgWrite'
                                          \/ x <= (IF fgStep' = "idle" THEN NoCursor ELSE fgBlock')
<1>1. FgTypes => /\ fgCursor \in Int /\ fgWrite \in Int
                 /\ (IF fgStep = "idle" THEN NoCursor ELSE fgBlock) \in Int
  BY DEF FgTypes, Cursor, NoCursor
<1>2. FgTypes' => /\ fgCursor' \in Int /\ fgWrite' \in Int
                  /\ (IF fgStep' = "idle" THEN NoCursor ELSE fgBlock') \in Int
  BY DEF FgTypes, Cursor, NoCursor
<1>3. FgTypes =>
          \A x \in Int : x <= Passed <=> \/ x <= fgCursor \/ x <= fgWrite
                                         \/ x <= (IF fgStep = "idle" THEN NoCursor ELSE fgBlock)
  BY <1>1, ThreeLemma DEF Passed
<1>4. FgTypes' =>
          \A x \in Int : x <= Passed' <=> \/ x <= fgCursor' \/ x <= fgWrite'
                                          \/ x <= (IF fgStep' = "idle" THEN NoCursor ELSE fgBlock')
  BY <1>2, ThreeLemma DEF Passed
<1> QED
  BY <1>3, <1>4

\* The transactions in hand are those of some list, now and after a step.
LEMMA InHandLemma ==
    /\ \A h : h \in InHand <=> \/ \E l \in InFlight(historySends) : h \in ToSet(l)
                               \/ \E l \in Waiting(historyQueue) : h \in ToSet(l)
                               \/ \E w \in InFlight(historyWork) : h \in ToSet(w.list)
    /\ \A h : h \in InHand' <=> \/ \E l \in InFlight(historySends') : h \in ToSet(l)
                                \/ \E l \in Waiting(historyQueue') : h \in ToSet(l)
                                \/ \E w \in InFlight(historyWork') : h \in ToSet(w.list)
BY DEF InHand

\* What is recorded stays so.
LEMMA RecordedStays ==
    ASSUME HistoryKeys \subseteq HistoryKeys',
           \A g \in grants : \E x \in grants' : x.tx = g.tx
    PROVE  \A h : /\ Recorded(h) => Recorded(h)'
                  /\ GrantsMade(h) => GrantsMade(h)'
<1> SUFFICES ASSUME NEW h
             PROVE  /\ Recorded(h) => Recorded(h)'
                    /\ GrantsMade(h) => GrantsMade(h)'
  OBVIOUS
<1>1. ASSUME GrantsMade(h) PROVE GrantsMade(h)'
  BY <1>1 DEF GrantsMade
<1>2. ASSUME Recorded(h) PROVE Recorded(h)'
  <2>1. \A r \in ToSet(RecordsOf[h]) : KeyOf(r) \in HistoryKeys'
    BY <1>2 DEF Recorded
  <2>2. \A r \in ToSet(RecordsOf[h]) : r.action = "create" => \E g \in grants' : g.tx = h
    BY <1>2 DEF Recorded
  <2> QED
    BY <2>1, <2>2 DEF Recorded
<1> QED
  BY <1>1, <1>2

\* A running job that went on, or is gone.
LEMMA WorkGoesOn ==
    ASSUME historyWork \in Seq(HistoryJobs), NEW i \in DOMAIN historyWork,
           historyWork' = [historyWork EXCEPT ![i].step = "records"]
    PROVE  /\ \A w \in InFlight(historyWork) : \E x \in InFlight(historyWork') : x.list = w.list
           /\ \A w \in InFlight(historyWork') :
                 w \in InFlight(historyWork) \/ w.list = historyWork[i].list
<1>1. \A j \in DOMAIN historyWork : historyWork[j] \in HistoryJobs
  BY ElementsLemma
<1>2. /\ DOMAIN historyWork' = DOMAIN historyWork
      /\ \A j \in DOMAIN historyWork : historyWork'[j].list = historyWork[j].list
      /\ \A j \in DOMAIN historyWork : j # i => historyWork'[j] = historyWork[j]
  BY <1>1 DEF HistoryJobs
<1>3. \A w \in InFlight(historyWork) : \E x \in InFlight(historyWork') : x.list = w.list
  BY <1>2 DEF InFlight
<1>4. \A w \in InFlight(historyWork') : w \in InFlight(historyWork) \/ w.list = historyWork[i].list
  BY <1>2 DEF InFlight
<1> QED
  BY <1>3, <1>4

\* What the handler does to the transactions in hand.
LEMMA FgHandled ==
    ASSUME FgTypes, FgNext, UNCHANGED <<history, grants, historyOwnVars>>
    PROVE  \A h : Handled(h) => Handled(h)'
<1>1. \A h : Recorded(h) => Recorded(h)'
  BY DEF Recorded, HistoryKeys
<1>2. lostWork' = lostWork /\ unrecorded' = unrecorded /\ historyWork' = historyWork
  BY DEF historyOwnVars
<1>3. late \subseteq late' /\ lostBatches \subseteq lostBatches'
  BY DEF FgNext, TxStored, ReadCursor, ReadRange, ReadTxs, FgCursorLands, HistoryJobLands,
         FgFails, CrashFgHandler
<1>4. InHand \subseteq InHand' \union lostBatches'
  <2>1. CASE historySends' = historySends /\ historyQueue' = historyQueue
    BY <1>2, <2>1 DEF InHand
  <2>2. CASE ReadTxs
    <3> DEFINE Lists == Seq(Hashes)
               found == {h \in txDb : fgBlock < TxOf[h].height /\ TxOf[h].height <= fgTo}
    <3>1. IsFiniteSet(found) /\ found \subseteq Hashes
      BY FS_Subset DEF FgTypes
    <3>2. historySends' = historySends \/ \E list \in SetToSeqs(found) : historySends' = Append(historySends, list)
      BY <2>2 DEF ReadTxs
    <3> HIDE DEF found
    <3>3. \A list \in SetToSeqs(found) : list \in Lists
      <4> SUFFICES ASSUME NEW list \in SetToSeqs(found)
                   PROVE  list \in Lists
        OBVIOUS
      <4>1. list \in Seq(found)
        BY <3>1, OrderLemma
      <4> QED
        BY <3>1, <4>1
    <3>4. historySends \in Seq(Lists)
      BY DEF FgTypes
    <3> HIDE DEF Lists
    <3>5. \A list \in Lists : InFlight(historySends) \subseteq InFlight(Append(historySends, list))
      BY <3>4, SendOneLemma
    <3>6. InFlight(historySends) \subseteq InFlight(historySends')
      BY <3>2, <3>3, <3>5
    <3>7. historyQueue' = historyQueue
      BY <2>2 DEF ReadTxs
    <3> QED
      BY <1>2, <3>6, <3>7, InHandLemma
  <2>3. CASE HistoryJobLands
    <3> DEFINE Lists == Seq(Hashes)
               first == Head(historySends)
    <3>1. historySends \in Seq(Lists) /\ historyQueue \in Seq(JobOf(Lists)) /\ historySends # <<>>
      BY <2>3 DEF FgTypes, HistoryJobLands
    <3>2. historySends' = Tail(historySends) /\ historyQueue' = Add(historyQueue, first)
      BY <2>3 DEF HistoryJobLands
    <3> HIDE DEF Lists
    <3>3. first \in Lists /\ InFlight(historySends) = {first} \union InFlight(Tail(historySends))
      BY <3>1, ArriveLemma
    <3> HIDE DEF first
    <3>4. Waiting(Add(historyQueue, first)) = Waiting(historyQueue) \union {first}
      BY <3>1, <3>3, AddLemma
    <3>5. /\ InFlight(historySends) = {first} \union InFlight(historySends')
          /\ Waiting(historyQueue') = Waiting(historyQueue) \union {first}
      BY <3>2, <3>3, <3>4
    <3> QED
      BY <1>2, <3>5, InHandLemma
  <2>4. CASE CrashFgHandler
    <3>1. UNION {ToSet(historySends[i]) : i \in DOMAIN historySends} \subseteq lostBatches'
      BY <2>4 DEF CrashFgHandler
    <3>2. historyQueue' = historyQueue
      BY <2>4 DEF CrashFgHandler
    <3>3. \A l \in InFlight(historySends) : ToSet(l) \subseteq lostBatches'
      BY <3>1 DEF InFlight
    <3> QED
      BY <1>2, <3>2, <3>3, InHandLemma
  <2> QED
    BY <2>1, <2>2, <2>3, <2>4
       DEF FgNext, TxStored, ReadCursor, ReadRange, FgCursorLands, FgFails
<1> QED
  BY <1>1, <1>2, <1>3, <1>4 DEF Handled

\* The handler's own steps keep what it has passed.
LEMMA FgCursorStep ==
    ASSUME CursorInv, FgNext, UNCHANGED <<history, grants, historyOwnVars>>, FgTypes'
    PROVE  PassedIsHandled' /\ RangeWithinDb'
<1> USE DEF CursorInv, FeegrantTypes
<1>1. /\ txDb \subseteq Hashes /\ IsFiniteSet(txDb)
      /\ fgCursor \in Int /\ fgWrite \in Int /\ fgBlock \in Int /\ fgTo \in Int
      /\ \A h \in txDb : TxOf[h].height \in Nat
  BY FeegrantAssumption DEF FgTypes, Cursor, NoCursor
<1>2. \A h : Handled(h) => Handled(h)'
  BY FgHandled
<1>3. \A x \in Int : x <= Passed <=> \/ x <= fgCursor \/ x <= fgWrite
                                     \/ x <= (IF fgStep = "idle" THEN NoCursor ELSE fgBlock)
  BY PassedLemma
<1>4. \A x \in Int : x <= Passed' <=> \/ x <= fgCursor' \/ x <= fgWrite'
                                      \/ x <= (IF fgStep' = "idle" THEN NoCursor ELSE fgBlock')
  BY PassedLemma
<1>5. ASSUME txDb' = txDb,
             \A h \in txDb : TxOf[h].height <= Passed' => TxOf[h].height <= Passed \/ Handled(h)'
      PROVE  PassedIsHandled'
  BY <1>2, <1>5 DEF PassedIsHandled
<1>6. ASSUME NEW h \in Hashes, TxStored(h) PROVE PassedIsHandled' /\ RangeWithinDb'
  <2>1. Passed' = Passed
    BY <1>6 DEF TxStored, Passed
  <2>2. ASSUME NEW x \in txDb', TxOf[x].height <= Passed PROVE Handled(x)'
    <3>1. CASE x \in txDb
      BY <1>2, <2>2, <3>1 DEF PassedIsHandled
    <3>2. CASE x = h
      <4>1. h \in late'
        BY <1>6, <2>2, <3>2 DEF TxStored
      <4> QED
        BY <3>2, <4>1 DEF Handled
    <3> QED
      BY <1>6, <3>1, <3>2 DEF TxStored
  <2>3. RangeWithinDb'
    BY <1>6 DEF RangeWithinDb, TxStored
  <2> QED
    BY <2>1, <2>2, <2>3 DEF PassedIsHandled
<1>7. ASSUME ReadCursor PROVE PassedIsHandled' /\ RangeWithinDb'
  <2>1. /\ txDb' = txDb /\ fgCursor' = fgCursor /\ fgWrite' = NoCursor /\ fgStep' = "range"
        /\ fgWrite = NoCursor /\ fgStep = "idle"
    BY <1>7 DEF ReadCursor
  <2>2. CASE fgCursor # NoCursor
    <3>1. fgBlock' = fgCursor
      BY <1>7, <2>2 DEF ReadCursor
    <3>2. \A h \in txDb : TxOf[h].height <= Passed' => TxOf[h].height <= Passed
      BY <1>1, <1>3, <1>4, <2>1, <3>1 DEF NoCursor
    <3> QED
      BY <1>5, <2>1, <3>1, <3>2 DEF RangeWithinDb
  <2>3. CASE fgCursor = NoCursor /\ txDb = {}
    <3>1. fgBlock' = -1
      BY <1>7, <2>3 DEF ReadCursor
    <3> QED
      BY <2>1, <2>3, <3>1 DEF PassedIsHandled, RangeWithinDb, NoCursor
  <2>4. CASE fgCursor = NoCursor /\ txDb # {}
    <3> DEFINE low == Min(HeightsOf(txDb))
    <3>1. fgBlock' = low - 1
      BY <1>7, <2>4 DEF ReadCursor
    <3>2. /\ low \in Nat /\ \A h \in txDb : low <= TxOf[h].height
      BY <1>1, <2>4, HeightsLemma DEF HeightsOf
    <3> HIDE DEF low
    <3>3. \A h \in txDb : ~(TxOf[h].height <= Passed')
      BY <1>1, <1>4, <2>1, <2>4, <3>1, <3>2 DEF NoCursor
    <3>4. \E h \in txDb : fgBlock' <= TxOf[h].height
      BY <1>1, <2>4, <3>1, <3>2
    <3>5. RangeWithinDb'
      BY <2>1, <2>4, <3>4 DEF RangeWithinDb, NoCursor
    <3> QED
      BY <1>5, <2>1, <3>3, <3>5
  <2> QED
    BY <2>2, <2>3, <2>4
<1>8. ASSUME ReadRange PROVE PassedIsHandled' /\ RangeWithinDb'
  <2>1. /\ txDb' = txDb /\ fgCursor' = fgCursor /\ fgWrite' = fgWrite /\ fgBlock' = fgBlock
        /\ fgStep = "range" /\ fgStep' = "list"
    BY <1>8 DEF ReadRange
  <2>2. fgBlock # NoCursor
    BY <2>1 DEF JobReads
  <2>3. /\ txDb = {} => fgTo' <= fgBlock
        /\ txDb # {} => \E h \in txDb : fgTo' <= TxOf[h].height
        /\ fgTo' \in Int
    BY <1>8, <2>2, RangeLemma
  <2>4. fgBlock >= 0 => \E h \in txDb : fgBlock <= TxOf[h].height
    BY <2>1 DEF RangeWithinDb
  <2>5. fgTo' >= 0 => \E h \in txDb : fgTo' <= TxOf[h].height
    <3>1. CASE txDb = {}
      BY <1>1, <2>3, <2>4, <3>1
    <3>2. CASE txDb # {}
      BY <2>3, <3>2
    <3> QED
      BY <3>1, <3>2
  <2>6. RangeWithinDb'
    BY <2>1, <2>4, <2>5 DEF RangeWithinDb
  <2>7. \A h \in txDb : TxOf[h].height <= Passed' => TxOf[h].height <= Passed
    BY <1>1, <1>3, <1>4, <2>1
  <2> QED
    BY <1>5, <2>1, <2>6, <2>7
<1>9. ASSUME ReadTxs PROVE PassedIsHandled' /\ RangeWithinDb'
  <2> DEFINE found == {h \in txDb : fgBlock < TxOf[h].height /\ TxOf[h].height <= fgTo}
  <2>1. /\ txDb' = txDb /\ fgCursor' = fgCursor /\ fgWrite' = fgTo /\ fgBlock' = fgTo
        /\ fgStep = "list" /\ fgStep' = "idle" /\ fgWrite = NoCursor
    BY <1>9 DEF ReadTxs, JobReads
  <2>2. found # {} => \E list \in SetToSeqs(found) : historySends' = Append(historySends, list)
    BY <1>9 DEF ReadTxs
  <2>3. IsFiniteSet(found) /\ found \subseteq Hashes
    BY <1>1, FS_Subset
  <2>4. ASSUME NEW h \in found PROVE Handled(h)'
    <3> HIDE DEF found
    <3>1. PICK list \in SetToSeqs(found) : historySends' = Append(historySends, list)
      BY <2>2
    <3> DEFINE Lists == Seq(Hashes)
    <3>2. list \in Seq(found) /\ ToSet(list) = found
      BY <2>3, OrderLemma, ToSetLemma
    <3>3. list \in Lists /\ historySends \in Seq(Lists)
      BY <2>3, <3>2 DEF FgTypes
    <3> HIDE DEF Lists
    <3>4. list \in InFlight(historySends')
      BY <3>1, <3>3, SendOneLemma
    <3>5. h \in InHand'
      BY <3>2, <3>4, InHandLemma
    <3> QED
      BY <3>5 DEF Handled
  <2>5. \A h \in txDb : TxOf[h].height <= Passed' => TxOf[h].height <= Passed \/ h \in found
    BY <1>1, <1>3, <1>4, <2>1 DEF NoCursor
  <2>6. RangeWithinDb'
    BY <2>1 DEF RangeWithinDb
  <2> QED
    BY <1>5, <2>1, <2>4, <2>5, <2>6
<1>10. ASSUME FgCursorLands PROVE PassedIsHandled' /\ RangeWithinDb'
  <2>1. /\ txDb' = txDb /\ fgCursor' = fgWrite /\ fgWrite' = NoCursor /\ fgBlock' = fgBlock
        /\ fgStep' = fgStep /\ fgTo' = fgTo
    BY <1>10 DEF FgCursorLands
  <2>2. \A h \in txDb : TxOf[h].height <= Passed' => TxOf[h].height <= Passed
    BY <1>1, <1>3, <1>4, <2>1 DEF NoCursor
  <2> QED
    BY <1>5, <2>1, <2>2 DEF RangeWithinDb, NoCursor
<1>11. ASSUME HistoryJobLands PROVE PassedIsHandled' /\ RangeWithinDb'
  <2>1. txDb' = txDb /\ Passed' = Passed /\ UNCHANGED <<fgCursor, fgWrite, fgBlock, fgStep, fgTo>>
    BY <1>11 DEF HistoryJobLands, Passed
  <2> QED
    BY <1>5, <2>1 DEF RangeWithinDb
<1>12. ASSUME FgFails \/ CrashFgHandler PROVE PassedIsHandled' /\ RangeWithinDb'
  <2>1. /\ txDb' = txDb /\ fgCursor' = fgCursor /\ (fgWrite' = fgWrite \/ fgWrite' = NoCursor)
        /\ fgStep' = "idle"
    BY <1>12 DEF FgFails, CrashFgHandler
  <2>2. \A h \in txDb : TxOf[h].height <= Passed' => TxOf[h].height <= Passed
    BY <1>1, <1>3, <1>4, <2>1 DEF NoCursor
  <2> QED
    BY <1>5, <2>1, <2>2 DEF RangeWithinDb, NoCursor
<1> QED
  BY <1>6, <1>7, <1>8, <1>9, <1>10, <1>11, <1>12 DEF FgNext

\* The history service keeps what it has in hand until it is recorded, lost or refused, and
\* makes the grants first.
LEMMA HistoryCursorStep ==
    ASSUME FeegrantTypes, WorkMadeGrants, HistoryNext, UNCHANGED <<txDb, fgOwnVars>>
    PROVE  (\A h \in Hashes : Handled(h) => Handled(h)') /\ WorkMadeGrants'
<1> USE DEF FeegrantTypes
<1>0. /\ historySends' = historySends /\ late' = late /\ lostBatches' = lostBatches
      /\ historyWork \in Seq(HistoryJobs) /\ historyQueue \in Seq(JobOf(Seq(Hashes)))
  BY DEF fgOwnVars, FgTypes, HistoryTypes
<1>1. ASSUME HistoryKeys \subseteq HistoryKeys', \A g \in grants : \E x \in grants' : x.tx = g.tx,
             unrecorded \subseteq unrecorded', lostWork \subseteq lostWork',
             \A h \in Hashes : h \in InHand => h \in InHand' \/ h \in lostWork' \/ h \in unrecorded' \/ Recorded(h)'
      PROVE  \A h \in Hashes : Handled(h) => Handled(h)'
  <2>1. \A h : Recorded(h) => Recorded(h)'
    BY <1>1, RecordedStays
  <2> QED
    BY <1>0, <1>1, <2>1 DEF Handled
<1>2. CASE StartHistoryJob
  <2> DEFINE job == [list |-> Head(historyQueue).data, step |-> "grants"]
             Lists == Seq(Hashes)
  <2>1. historyQueue # <<>> /\ historyQueue' = Tail(historyQueue) /\ historyWork' = Append(historyWork, job)
    BY <1>2 DEF StartHistoryJob
  <2>2. historyQueue \in Seq(JobOf(Lists))
    BY <1>0
  <2>3. job.list = Head(historyQueue).data /\ job.step = "grants"
    OBVIOUS
  <2>4. Head(historyQueue).data \in Lists => job \in HistoryJobs
    BY DEF HistoryJobs
  <2> HIDE DEF job, Lists
  <2>5. Head(historyQueue).data \in Lists /\ Waiting(historyQueue) = {job.list} \union Waiting(historyQueue')
    BY <2>1, <2>2, <2>3, TakeLemma
  <2>6. InFlight(historyWork') = InFlight(historyWork) \union {job}
    BY <1>0, <2>1, <2>4, <2>5, SendOneLemma
  <2>7. \A h : h \in InHand => h \in InHand'
    BY <1>0, <2>5, <2>6, InHandLemma
  <2>8. UNCHANGED <<history, grants, unrecorded, lostWork>>
    BY <1>2 DEF StartHistoryJob
  <2>9. \A h \in Hashes : Handled(h) => Handled(h)'
    BY <1>1, <2>7, <2>8 DEF HistoryKeys
  <2>10. WorkMadeGrants'
    BY <2>3, <2>6, <2>8 DEF WorkMadeGrants, GrantsMade
  <2> QED
    BY <2>9, <2>10
<1>3. ASSUME NEW i \in DOMAIN historyWork, InsertGrants(i)
      PROVE  (\A h \in Hashes : Handled(h) => Handled(h)') /\ WorkMadeGrants'
  <2> DEFINE all == RecordsOfList(historyWork[i].list)
             creates == Selected(all, {j \in DOMAIN all : all[j].action = "create"})
             fresh == NewRecords(GrantKeys, creates)
  <2>1. historyWork[i].list \in Seq(Hashes) /\ historyWork' = [historyWork EXCEPT ![i].step = "records"]
    BY <1>0, <1>3, HistoryWorkLemma DEF InsertGrants
  <2>2. /\ \A w \in InFlight(historyWork) : \E x \in InFlight(historyWork') : x.list = w.list
        /\ \A w \in InFlight(historyWork') :
              w \in InFlight(historyWork) \/ w.list = historyWork[i].list
    BY <1>0, <2>1, WorkGoesOn
  <2>3. UNCHANGED <<historyQueue, history, lostWork>>
    BY <1>3 DEF InsertGrants
  <2>4. \/ grants' = grants \union {NewGrant(r) : r \in ToSet(fresh)} /\ unrecorded' = unrecorded
        \/ grants' = grants /\ unrecorded' = unrecorded \union ToSet(historyWork[i].list)
    BY <1>3 DEF InsertGrants, HistoryFails
  <2>5. /\ creates \in Seq(AllRecords)
        /\ InFlight(creates) = {r \in InFlight(all) : r.action = "create"}
    BY <2>1, NewGrantsLemma
  <2>6. InFlight(all) = UNION {InFlight(RecordsOf[historyWork[i].list[j]]) : j \in DOMAIN historyWork[i].list}
    BY <2>1, RecordsOfListLemma
  <2> HIDE DEF creates, all
  <2>7. \A r \in InFlight(creates) :
           KeyOf(r) \in GrantKeys \/ \E x \in InFlight(fresh) : KeyOf(x) = KeyOf(r)
    BY <2>5, NewRecordsLemma
  <2> HIDE DEF fresh
  <2>8. grants \subseteq grants' /\ unrecorded \subseteq unrecorded'
    BY <2>4
  <2>9. ASSUME NEW h \in ToSet(historyWork[i].list) PROVE h \in unrecorded' \/ GrantsMade(h)'
    <3>1. CASE h \in unrecorded'
      BY <3>1
    <3>2. CASE grants' = grants \union {NewGrant(r) : r \in ToSet(fresh)}
      <4> SUFFICES ASSUME NEW r \in ToSet(RecordsOf[h]), r.action = "create"
                   PROVE  \E g \in grants' : g.tx = h
        BY DEF GrantsMade
      <4>1. h \in Hashes /\ \E j \in DOMAIN historyWork[i].list : h = historyWork[i].list[j]
        BY <2>1, ElementsLemma DEF InFlight
      <4>2. r \in InFlight(all)
        BY <2>6, <4>1, ToSetLemma
      <4>3. r \in InFlight(creates)
        BY <2>5, <4>2
      <4>4. r.tx = h
        <5>1. r \in RecordSet(h)
          BY <4>1, RecordsLemma, ElementsLemma
        <5> QED
          BY <5>1 DEF RecordSet
      <4>5. CASE KeyOf(r) \in GrantKeys
        <5>1. PICK g \in grants : KeyOf(r) = <<g.tx, "create", g.status>>
          BY <4>5 DEF GrantKeys
        <5>2. g.tx = h
          BY <4>4, <5>1 DEF KeyOf
        <5> QED
          BY <2>8, <5>2
      <4>6. ASSUME NEW x \in InFlight(fresh), KeyOf(x) = KeyOf(r) PROVE \E g \in grants' : g.tx = h
        <5>1. x.tx = h
          BY <4>4, <4>6 DEF KeyOf
        <5>2. NewGrant(x) \in grants' /\ NewGrant(x).tx = x.tx
          BY <3>2, <4>6, ToSetLemma DEF NewGrant
        <5> QED
          BY <5>1, <5>2
      <4> QED
        BY <2>7, <4>3, <4>5, <4>6
    <3> QED
      BY <2>4, <2>9, <3>1, <3>2
  <2>10. \A h : h \in InHand => h \in InHand'
    BY <1>0, <2>2, <2>3, InHandLemma
  <2>11. \A h \in Hashes : Handled(h) => Handled(h)'
    BY <1>1, <2>3, <2>8, <2>10 DEF HistoryKeys
  <2>12. \A h : GrantsMade(h) => GrantsMade(h)'
    BY <2>3, <2>8, RecordedStays DEF HistoryKeys
  <2>13. WorkMadeGrants'
    <3> SUFFICES ASSUME NEW w \in InFlight(historyWork'), w.step = "records", NEW h \in ToSet(w.list)
                 PROVE  h \in unrecorded' \/ GrantsMade(h)'
      BY DEF WorkMadeGrants
    <3> QED
      BY <2>2, <2>8, <2>9, <2>12 DEF WorkMadeGrants
  <2> QED
    BY <2>11, <2>13
<1>4. ASSUME NEW i \in DOMAIN historyWork, InsertRecords(i)
      PROVE  (\A h \in Hashes : Handled(h) => Handled(h)') /\ WorkMadeGrants'
  <2> DEFINE all == RecordsOfList(historyWork[i].list)
             new == NewRecords(HistoryKeys, all)
             entries == [j \in DOMAIN new |-> Entry(new[j])]
  <2>1. historyWork[i].list \in Seq(Hashes) /\ historyWork' = RemoveAt(historyWork, i)
    BY <1>0, <1>4, HistoryWorkLemma DEF InsertRecords
  <2>2. InFlight(historyWork) = InFlight(historyWork') \union {historyWork[i]}
    BY <1>0, <2>1, RemoveLemma
  <2>3. UNCHANGED <<historyQueue, grants, lostWork>> /\ historyWork[i].step = "records"
    BY <1>4 DEF InsertRecords
  <2>4. \/ history' = history \o entries /\ unrecorded' = unrecorded
        \/ history' = history /\ unrecorded' = unrecorded \union ToSet(historyWork[i].list)
    BY <1>4 DEF InsertRecords, HistoryFails
  <2>5. all \in Seq(AllRecords)
        /\ InFlight(all) = UNION {InFlight(RecordsOf[historyWork[i].list[j]]) : j \in DOMAIN historyWork[i].list}
    BY <2>1, RecordsOfListLemma
  <2> HIDE DEF all
  <2>6. /\ new \in Seq(AllRecords)
        /\ \A r \in InFlight(all) : KeyOf(r) \in HistoryKeys \/ \E x \in InFlight(new) : KeyOf(x) = KeyOf(r)
    BY <2>5, NewRecordsLemma
  <2> HIDE DEF new
  <2>7. history \in Seq(Entries) /\ entries \in Seq(Entries)
    BY <2>6, EntriesLemma DEF HistoryTypes
  <2>8. ASSUME NEW x \in InFlight(new) PROVE \E e \in InFlight(entries) : e.rec = x
    <3>1. PICK j \in DOMAIN new : x = new[j]
      BY DEF InFlight
    <3>2. entries[j] \in InFlight(entries) /\ entries[j].rec = new[j]
      BY DEF InFlight, Entry
    <3> QED
      BY <3>1, <3>2
  <2> HIDE DEF entries
  <2>9. /\ HistoryKeys = {KeyOf(e.rec) : e \in InFlight(history)}
        /\ HistoryKeys' = {KeyOf(e.rec) : e \in InFlight(history')}
    BY DEF HistoryKeys, InFlight
  <2>10. InFlight(history \o entries) = InFlight(history) \union InFlight(entries)
    BY <2>7, SendLemma
  <2>11. HistoryKeys \subseteq HistoryKeys' /\ unrecorded \subseteq unrecorded'
    BY <2>4, <2>9, <2>10
  <2>12. ASSUME NEW h \in ToSet(historyWork[i].list) PROVE h \in unrecorded' \/ Recorded(h)'
    <3>1. CASE history' = history \o entries /\ unrecorded' = unrecorded /\ h \notin unrecorded
      <4>1. h \in Hashes /\ \E j \in DOMAIN historyWork[i].list : h = historyWork[i].list[j]
        BY <2>1, ElementsLemma DEF InFlight
      <4>2. ASSUME NEW r \in ToSet(RecordsOf[h]) PROVE KeyOf(r) \in HistoryKeys'
        <5>1. r \in InFlight(all)
          BY <2>5, <4>1, ToSetLemma
        <5> QED
          BY <2>6, <2>8, <2>9, <2>10, <2>11, <3>1, <5>1
      <4>3. GrantsMade(h)
        <5>1. historyWork[i] \in InFlight(historyWork)
          BY DEF InFlight
        <5> QED
          BY <2>3, <3>1, <5>1 DEF WorkMadeGrants
      <4>4. \A r \in ToSet(RecordsOf[h]) : r.action = "create" => \E g \in grants' : g.tx = h
        BY <2>3, <4>3 DEF GrantsMade
      <4> QED
        BY <4>2, <4>4 DEF Recorded
    <3> QED
      BY <2>4, <2>12, <3>1
  <2>13. \A h \in Hashes : h \in InHand => h \in InHand' \/ h \in unrecorded' \/ Recorded(h)'
    BY <1>0, <2>2, <2>3, <2>12, InHandLemma
  <2>14. \A h \in Hashes : Handled(h) => Handled(h)'
    BY <1>1, <2>3, <2>11, <2>13
  <2>15. WorkMadeGrants'
    BY <2>2, <2>3, <2>11 DEF WorkMadeGrants, GrantsMade
  <2> QED
    BY <2>14, <2>15
<1>5. CASE CrashHistory
  <2>1. UNCHANGED <<historyQueue, history, grants, unrecorded>> /\ historyWork' = <<>>
    BY <1>5 DEF CrashHistory
  <2>2. lostWork' = lostWork \union UNION {ToSet(historyWork[i].list) : i \in DOMAIN historyWork}
    BY <1>5 DEF CrashHistory
  <2>3. \A h : h \in InHand => h \in InHand' \/ h \in lostWork'
    <3>1. \A w \in InFlight(historyWork) : ToSet(w.list) \subseteq lostWork'
      BY <2>2 DEF InFlight
    <3> QED
      BY <1>0, <2>1, <3>1, InHandLemma
  <2>4. WorkMadeGrants'
    BY <2>1, EmptyLemma DEF WorkMadeGrants
  <2>5. \A h \in Hashes : Handled(h) => Handled(h)'
    BY <1>1, <2>1, <2>2, <2>3 DEF HistoryKeys
  <2> QED
    BY <2>4, <2>5
<1> QED
  BY <1>2, <1>3, <1>4, <1>5 DEF HistoryNext

\* The cron job changes no record, only its origin.
LEMMA CronKeeps ==
    ASSUME FeegrantTypes, CronNext
    PROVE  HistoryKeys' = HistoryKeys /\ grants' = grants
<1>1. CASE WriteOrigins
  <2>1. DOMAIN history' = DOMAIN history /\ grants' = grants
    BY <1>1 DEF WriteOrigins
  <2>2. ASSUME NEW i \in DOMAIN history PROVE history'[i].rec = history[i].rec
    <3>1. history'[i] = IF \E e \in ToSet(bulkUpdate) : e.rec = history[i].rec
                        THEN CHOOSE e \in ToSet(bulkUpdate) : e.rec = history[i].rec
                        ELSE history[i]
      BY <1>1 DEF WriteOrigins
    <3> QED
      BY <3>1
  <2> QED
    BY <2>1, <2>2 DEF HistoryKeys
<1>2. CASE FindUnprocessed \/ MatchOrigins \/ CronFails \/ DbJobLands \/ CrashCron
  BY <1>2 DEF FindUnprocessed, MatchOrigins, CronFails, DbJobLands, CrashCron, HistoryKeys
<1> QED
  BY <1>1, <1>2 DEF CronNext

\* A transaction that has a grant keeps one, whatever is charged or revoked.
LEMMA DbKeeps ==
    ASSUME FeegrantTypes, DbNext
    PROVE  \A g \in grants : \E x \in grants' : x.tx = g.tx
<1> USE DEF FeegrantTypes
<1>1. ASSUME NEW i \in DOMAIN dbWork, WriteGrant(i) PROVE \A g \in grants : \E x \in grants' : x.tx = g.tx
  BY <1>1, WriteGrantLemma
<1>2. ASSUME NEW i \in DOMAIN dbWork, WriteRevokes(i) PROVE \A g \in grants : \E x \in grants' : x.tx = g.tx
  BY <1>2, WriteRevokesLemma
<1>3. ASSUME NEW i \in DOMAIN dbWork, ReadGrants(i) PROVE grants' = grants
  BY <1>3 DEF ReadGrants
<1>4. StartDbJob \/ CrashDb => grants' = grants
  BY DEF StartDbJob, CrashDb
<1> QED
  BY <1>1, <1>2, <1>3, <1>4 DEF DbNext

\* Where the handler does nothing and nothing recorded is lost, what is handled stays so.
LEMMA KeptLemma ==
    ASSUME UNCHANGED <<txDb, historyQueue, fgOwnVars, historyOwnVars>>,
           HistoryKeys \subseteq HistoryKeys',
           \A g \in grants : \E x \in grants' : x.tx = g.tx,
           WorkMadeGrants
    PROVE  (\A h : Handled(h) => Handled(h)') /\ WorkMadeGrants'
<1>1. \A h : (Recorded(h) => Recorded(h)') /\ (GrantsMade(h) => GrantsMade(h)')
  BY RecordedStays
<1>2. InHand' = InHand
  BY DEF InHand, fgOwnVars, historyOwnVars
<1>3. late' = late /\ lostBatches' = lostBatches /\ lostWork' = lostWork /\ unrecorded' = unrecorded
      /\ historyWork' = historyWork
  BY DEF fgOwnVars, historyOwnVars
<1> QED
  BY <1>1, <1>2, <1>3 DEF Handled, WorkMadeGrants

\* Initially no transaction is there to be passed.
LEMMA InitCursorInv == FeegrantInit => CursorInv
<1> SUFFICES ASSUME FeegrantInit
             PROVE  CursorInv
  OBVIOUS
<1>1. txDb = {} /\ fgCursor = NoCursor /\ fgWrite = NoCursor /\ fgStep = "idle" /\ historyWork = <<>>
  BY DEF FeegrantInit, FgInit, HistoryInit
<1>2. PassedIsHandled /\ RangeWithinDb /\ WorkMadeGrants
  BY <1>1, EmptyLemma DEF PassedIsHandled, RangeWithinDb, WorkMadeGrants, NoCursor
<1> QED
  BY <1>2, InitTypes DEF CursorInv

\* Every step of the services keeps the invariant.
LEMMA NextCursorInv == CursorInv /\ [FeegrantNext]_fgAllVars => CursorInv'
<1> SUFFICES ASSUME CursorInv, [FeegrantNext]_fgAllVars
             PROVE  CursorInv'
  OBVIOUS
<1>1. FeegrantTypes' /\ JobReads'
  BY NextTypes DEF CursorInv
<1>2. ASSUME UNCHANGED <<txDb, fgOwnVars>>, \A h \in Hashes : Handled(h) => Handled(h)'
      PROVE  PassedIsHandled' /\ RangeWithinDb'
  <2>1. UNCHANGED <<fgCursor, fgWrite, fgStep, fgBlock, fgTo>> /\ Passed' = Passed /\ txDb' = txDb
    BY <1>2 DEF fgOwnVars, Passed
  <2>2. txDb \subseteq Hashes
    BY DEF CursorInv, FeegrantTypes, FgTypes
  <2>3. PassedIsHandled'
    BY <1>2, <2>1, <2>2 DEF CursorInv, PassedIsHandled
  <2>4. RangeWithinDb'
    BY <2>1 DEF CursorInv, RangeWithinDb
  <2> QED
    BY <2>3, <2>4
<1>3. CASE FgNext /\ UNCHANGED <<history, grants, dbQueue, historyOwnVars, cronOwnVars, dbOwnVars>>
  <2>1. PassedIsHandled' /\ RangeWithinDb'
    BY <1>1, <1>3, FgCursorStep DEF FeegrantTypes
  <2>2. WorkMadeGrants'
    BY <1>3 DEF CursorInv, WorkMadeGrants, GrantsMade, historyOwnVars
  <2> QED
    BY <1>1, <2>1, <2>2 DEF CursorInv
<1>4. CASE HistoryNext /\ UNCHANGED <<txDb, dbQueue, fgOwnVars, cronOwnVars, dbOwnVars>>
  <2>1. (\A h \in Hashes : Handled(h) => Handled(h)') /\ WorkMadeGrants'
    BY <1>4, HistoryCursorStep DEF CursorInv
  <2> QED
    BY <1>1, <1>2, <1>4, <2>1 DEF CursorInv
<1>5. CASE CronNext /\ UNCHANGED <<txDb, historyQueue, fgOwnVars, historyOwnVars, dbOwnVars>>
  <2>1. HistoryKeys' = HistoryKeys /\ grants' = grants
    BY <1>5, CronKeeps DEF CursorInv
  <2>2. (\A h : Handled(h) => Handled(h)') /\ WorkMadeGrants'
    BY <1>5, <2>1, KeptLemma DEF CursorInv
  <2> QED
    BY <1>1, <1>2, <1>5, <2>2 DEF CursorInv
<1>6. CASE DbNext /\ UNCHANGED <<txDb, historyQueue, history, fgOwnVars, historyOwnVars, cronOwnVars>>
  <2>1. \A g \in grants : \E x \in grants' : x.tx = g.tx
    BY <1>6, DbKeeps DEF CursorInv
  <2>2. HistoryKeys' = HistoryKeys
    BY <1>6 DEF HistoryKeys
  <2>3. (\A h : Handled(h) => Handled(h)') /\ WorkMadeGrants'
    BY <1>6, <2>1, <2>2, KeptLemma DEF CursorInv
  <2> QED
    BY <1>1, <1>2, <1>6, <2>3 DEF CursorInv
<1>7. CASE UNCHANGED fgAllVars
  <2>1. UNCHANGED <<txDb, historyQueue, fgOwnVars, historyOwnVars>> /\ grants' = grants /\ HistoryKeys' = HistoryKeys
    BY <1>7 DEF fgAllVars, HistoryKeys
  <2>2. (\A h : Handled(h) => Handled(h)') /\ WorkMadeGrants'
    BY <2>1, KeptLemma DEF CursorInv
  <2> QED
    BY <1>1, <1>2, <2>1, <2>2 DEF CursorInv
<1> QED
  BY <1>3, <1>4, <1>5, <1>6, <1>7 DEF FeegrantNext

\* The invariant says of the cursor what the property says.
LEMMA CursorLemma == CursorInv => CursorSkipsNone
<1> SUFFICES ASSUME CursorInv
             PROVE  CursorSkipsNone
  OBVIOUS
<1>1. \A h \in txDb : TxOf[h].height \in Int
  BY FeegrantAssumption DEF CursorInv, FeegrantTypes, FgTypes
<1>2. \A h \in txDb : TxOf[h].height <= fgCursor => TxOf[h].height <= Passed
  BY <1>1, PassedLemma DEF CursorInv, FeegrantTypes
<1>3. NoneSkipped
  BY <1>2 DEF CursorInv, NoneSkipped, PassedIsHandled, Handled
<1>4. CursorWithinDb
  BY DEF CursorInv, CursorWithinDb, RangeWithinDb
<1> QED
  BY <1>3, <1>4 DEF CursorSkipsNone

\* The cursor of the handler skips no transaction, be it behind it or still to come.
THEOREM FeegrantCursorSkipsNone == FeegrantSpec => []CursorSkipsNone
<1>1. CursorInv /\ [FeegrantNext]_fgAllVars => CursorInv'
  BY NextCursorInv
<1> QED
  BY <1>1, InitCursorInv, CursorLemma, PTL DEF FeegrantSpec

-----------------------------------------------------------------------------
(* Sums.                                                                       *)

\* The sums over the first numbers of a list.
Sums(s) ==
    {f \in [0 .. Len(s) -> Nat] : f[0] = 0 /\ \A i \in 1 .. Len(s) : f[i] = f[i - 1] + s[i]}

\* The sum of a list of numbers.
Total(s) == CHOOSE x : \E f \in Sums(s) : x = f[Len(s)]

\* There is one such sum.
LEMMA TotalLemma ==
    ASSUME NEW s \in Seq(Nat)
    PROVE  /\ Total(s) \in Nat
           /\ Sums(s) # {}
           /\ \A f \in Sums(s) : Total(s) = f[Len(s)]
<1> DEFINE n == Len(s)
           G == [p \in (1 .. n) \X Nat |-> p[2] + s[p[1]]]
<1>1. n \in Nat /\ \A i \in 1 .. n : s[i] \in Nat
  OBVIOUS
<1>2. \A i \in 1 .. n, v \in Nat : G[<<i, v>>] = v + s[i]
  OBVIOUS
<1>3. n = Len(s)
  OBVIOUS
<1> HIDE DEF G, n
<1>4. ASSUME NEW i \in 1 .. n, NEW v \in Nat PROVE G[<<i, v>>] \in Nat
  <2>1. s[i] \in Nat /\ G[<<i, v>>] = v + s[i]
    BY <1>1, <1>2, <1>3
  <2>2. \A c \in Nat : v + c \in Nat
    OBVIOUS
  <2> QED
    BY <2>1, <2>2
<1>5. PICK h \in [0 .. n -> Nat] : h[0] = 0 /\ \A i \in 1 .. n : h[i] = G[<<i, h[i - 1]>>]
  <2>1. StepsOf(Nat, n, 0, G) # {}
    BY <1>1, <1>4, StepsLemma
  <2> QED
    BY <2>1 DEF StepsOf
<1>6. h \in Sums(s)
  <2>1. \A i \in 1 .. n : i - 1 \in 0 .. n
    BY <1>1
  <2>2. \A i \in 1 .. n : h[i] = h[i - 1] + s[i]
    BY <1>2, <1>5, <2>1
  <2> QED
    BY <1>3, <1>5, <2>2 DEF Sums
<1>7. ASSUME NEW f \in Sums(s) PROVE f[n] = h[n]
  <2> DEFINE S == {i \in 0 .. n : f[i] = h[i]}
  <2>1. 0 \in S
    BY <1>1, <1>5, <1>7 DEF Sums
  <2>2. ASSUME NEW i \in 1 .. n, i - 1 \in S PROVE i \in S
    <3>1. f[i] = f[i - 1] + s[i] /\ h[i] = h[i - 1] + s[i]
      BY <1>3, <1>6 DEF Sums
    <3> QED
      BY <1>1, <2>2, <3>1
  <2> HIDE DEF S
  <2>3. 0 .. n \subseteq S
    BY <1>1, <2>1, <2>2, SweepLemma
  <2>4. n \in S
    BY <1>1, <2>3
  <2> QED
    BY <2>4 DEF S
<1>8. Total(s) = h[n]
  <2>1. \E x : \E f \in Sums(s) : x = f[Len(s)]
    BY <1>6
  <2> QED
    BY <1>3, <1>7, <2>1 DEF Total
<1>9. h[n] \in Nat
  BY <1>1, <1>5
<1> QED
  BY <1>3, <1>6, <1>7, <1>8, <1>9

\* The sum of two lists, of one number and of none.
LEMMA TotalOfLemma ==
    /\ Total(<<>>) = 0
    /\ \A x \in Nat : Total(<<x>>) = x
    /\ \A s, u \in Seq(Nat) : Total(s \o u) = Total(s) + Total(u)
<1>1. Total(<<>>) = 0
  <2> DEFINE f == [i \in 0 .. 0 |-> 0]
  <2>1. <<>> \in Seq(Nat) /\ Len(<<>>) = 0 /\ 1 .. 0 = {}
    OBVIOUS
  <2>2. f \in [0 .. 0 -> Nat] /\ f[0] = 0
    OBVIOUS
  <2> HIDE DEF f
  <2>3. f \in Sums(<<>>)
    BY <2>1, <2>2 DEF Sums
  <2> QED
    BY <2>1, <2>2, <2>3, TotalLemma
<1>2. ASSUME NEW x \in Nat PROVE Total(<<x>>) = x
  <2> DEFINE f == [i \in 0 .. 1 |-> IF i = 0 THEN 0 ELSE x]
             s == <<x>>
  <2>1. s \in Seq(Nat) /\ Len(s) = 1 /\ s[1] = x
    OBVIOUS
  <2>2. f \in [0 .. 1 -> Nat] /\ f[0] = 0 /\ f[1] = x
    OBVIOUS
  <2>3. \A i \in 1 .. 1 : i = 1
    OBVIOUS
  <2> HIDE DEF f, s
  <2>4. f[1] = f[1 - 1] + s[1]
    BY <2>1, <2>2
  <2>5. f \in Sums(s)
    BY <2>1, <2>2, <2>3, <2>4 DEF Sums
  <2>6. Total(s) = x
    BY <2>1, <2>2, <2>5, TotalLemma
  <2> QED
    BY <2>6 DEF s
<1>3. ASSUME NEW s \in Seq(Nat), NEW u \in Seq(Nat) PROVE Total(s \o u) = Total(s) + Total(u)
  <2> DEFINE m == Len(s)
             n == Len(u)
             w == s \o u
  <2>1. /\ m \in Nat /\ n \in Nat /\ w \in Seq(Nat) /\ Len(w) = m + n
        /\ \A i \in 1 .. m : w[i] = s[i] /\ s[i] \in Nat
        /\ \A i \in 1 .. n : w[m + i] = u[i] /\ u[i] \in Nat
    OBVIOUS
  <2>2. PICK f \in Sums(s) : TRUE
    BY TotalLemma
  <2>3. PICK g \in Sums(u) : TRUE
    BY TotalLemma
  <2> DEFINE h == [i \in 0 .. m + n |-> IF i <= m THEN f[i] ELSE f[m] + g[i - m]]
  <2>4. /\ f \in [0 .. m -> Nat] /\ f[0] = 0 /\ \A i \in 1 .. m : f[i] = f[i - 1] + s[i]
        /\ g \in [0 .. n -> Nat] /\ g[0] = 0 /\ \A i \in 1 .. n : g[i] = g[i - 1] + u[i]
    BY <2>2, <2>3 DEF Sums
  <2>5. m = Len(s) /\ n = Len(u)
    OBVIOUS
  <2> HIDE DEF w, m, n
  <2>6. f[m] \in Nat /\ g[n] \in Nat
    BY <2>1, <2>4
  <2>7. /\ \A i \in 0 .. m : h[i] = f[i] /\ h[i] \in Nat
        /\ \A i \in 0 .. n : h[m + i] = f[m] + g[i] /\ h[m + i] \in Nat
    <3>1. \A i \in 0 .. m : i \in 0 .. m + n /\ i <= m /\ f[i] \in Nat
      BY <2>1, <2>4
    <3>2. \A i \in 0 .. n : m + i \in 0 .. m + n /\ (m + i) - m = i /\ (m + i <= m => i = 0 /\ m + i = m) /\ g[i] \in Nat
      BY <2>1, <2>4
    <3>3. \A i \in 0 .. n : h[m + i] = f[m] + g[i]
      <4> SUFFICES ASSUME NEW i \in 0 .. n PROVE h[m + i] = f[m] + g[i]
        OBVIOUS
      <4>1. CASE i = 0
        BY <2>1, <2>4, <2>6, <3>2, <4>1
      <4>2. CASE i # 0
        BY <3>2, <4>2
      <4> QED
        BY <4>1, <4>2
    <3> HIDE DEF h
    <3>4. \A i \in 0 .. n : f[m] + g[i] \in Nat
      BY <2>6, <3>2
    <3> QED
      BY <3>1, <3>3, <3>4 DEF h
  <2>8. h \in [0 .. m + n -> Nat]
    <3>1. ASSUME NEW i \in 0 .. m + n PROVE h[i] \in Nat
      <4>1. CASE i <= m
        <5>1. i \in 0 .. m
          BY <2>1, <4>1
        <5> QED
          BY <2>7, <5>1
      <4>2. CASE ~(i <= m)
        <5>1. i - m \in 0 .. n /\ m + (i - m) = i
          BY <2>1, <4>2
        <5> HIDE DEF h
        <5> QED
          BY <2>7, <5>1
      <4> QED
        BY <4>1, <4>2
    <3>2. h = [i \in 0 .. m + n |-> h[i]]
      OBVIOUS
    <3> HIDE DEF h
    <3> QED
      BY <3>1, <3>2
  <2> HIDE DEF h
  <2>9. ASSUME NEW i \in 1 .. m + n PROVE h[i] = h[i - 1] + w[i]
    <3>1. CASE i <= m
      <4>1. i \in 1 .. m /\ i \in 0 .. m /\ i - 1 \in 0 .. m
        BY <2>1, <3>1
      <4> QED
        BY <2>1, <2>4, <2>7, <4>1
    <3>2. CASE ~(i <= m)
      <4> DEFINE j == i - m
      <4>1. j \in 1 .. n /\ j \in 0 .. n /\ j - 1 \in 0 .. n /\ i = m + j /\ i - 1 = m + (j - 1)
        BY <2>1, <3>2
      <4> HIDE DEF j
      <4>2. h[i] = f[m] + g[j] /\ h[i - 1] = f[m] + g[j - 1] /\ g[j] = g[j - 1] + u[j] /\ w[i] = u[j]
        BY <2>1, <2>4, <2>7, <4>1
      <4>3. g[j - 1] \in Nat /\ u[j] \in Nat
        BY <2>1, <2>4, <4>1
      <4> QED
        BY <2>6, <4>2, <4>3
    <3> QED
      BY <3>1, <3>2
  <2>10. h \in Sums(w)
    BY <2>1, <2>4, <2>7, <2>8, <2>9 DEF Sums
  <2>11. h[m + n] = f[m] + g[n]
    BY <2>1, <2>7
  <2>12. Total(w) = h[m + n] /\ Total(s) = f[m] /\ Total(u) = g[n]
    BY <2>1, <2>2, <2>3, <2>5, <2>10, TotalLemma
  <2> QED
    BY <2>11, <2>12 DEF w
<1> QED
  BY <1>1, <1>2, <1>3

\* What the elements of a list weigh together, each as f says.
Weights(f, s) == [i \in DOMAIN s |-> f[s[i]]]

Weight(f, s) == Total(Weights(f, s))

\* Lists of things that weigh something have weights, and so do two lists in one.
LEMMA WeightsLemma ==
    ASSUME NEW D, NEW f \in [D -> Nat]
    PROVE  /\ Weights(f, <<>>) = <<>>
           /\ \A x \in D : Weights(f, <<x>>) = <<f[x]>>
           /\ \A s \in Seq(D) : Weights(f, s) \in Seq(Nat)
           /\ \A s, u \in Seq(D) : Weights(f, s \o u) = Weights(f, s) \o Weights(f, u)
<1>1. Weights(f, <<>>) = <<>>
  BY DEF Weights
<1>2. \A x \in D : Weights(f, <<x>>) = <<f[x]>>
  BY DEF Weights
<1>3. ASSUME NEW s \in Seq(D) PROVE Weights(f, s) \in Seq(Nat)
  <2> DEFINE n == Len(s)
  <2>1. n \in Nat /\ DOMAIN s = 1 .. n /\ \A i \in 1 .. n : s[i] \in D
    OBVIOUS
  <2> HIDE DEF n
  <2>2. Weights(f, s) \in [1 .. n -> Nat]
    BY <2>1 DEF Weights
  <2> QED
    BY <2>1, <2>2, ListLemma
<1>4. ASSUME NEW s \in Seq(D), NEW u \in Seq(D)
      PROVE  Weights(f, s \o u) = Weights(f, s) \o Weights(f, u)
  <2> DEFINE m == Len(s)
             n == Len(u)
             w == s \o u
             a == Weights(f, s)
             b == Weights(f, u)
  <2>1. /\ m \in Nat /\ n \in Nat /\ w \in Seq(D) /\ Len(w) = m + n /\ DOMAIN w = 1 .. m + n
        /\ DOMAIN s = 1 .. m /\ DOMAIN u = 1 .. n
        /\ \A i \in 1 .. m + n : w[i] = IF i <= m THEN s[i] ELSE u[i - m]
    OBVIOUS
  <2>2. /\ a \in Seq(Nat) /\ b \in Seq(Nat) /\ DOMAIN a = 1 .. m /\ DOMAIN b = 1 .. n
        /\ \A i \in 1 .. m : a[i] = f[s[i]]
        /\ \A i \in 1 .. n : b[i] = f[u[i]]
    BY <1>3, <2>1 DEF Weights
  <2> HIDE DEF a, b, m, n
  <2>3. Len(a) = m /\ Len(b) = n
    BY <2>1, <2>2
  <2>4. /\ a \o b \in Seq(Nat) /\ Len(a \o b) = m + n
        /\ \A i \in 1 .. m + n : (a \o b)[i] = IF i <= m THEN a[i] ELSE b[i - m]
    <3>1. /\ a \o b \in Seq(Nat) /\ Len(a \o b) = Len(a) + Len(b)
          /\ \A i \in 1 .. Len(a) + Len(b) :
                (a \o b)[i] = IF i <= Len(a) THEN a[i] ELSE b[i - Len(a)]
      BY <2>2, ConcatProperties
    <3> QED
      BY <2>3, <3>1
  <2>5. /\ Weights(f, w) \in Seq(Nat) /\ DOMAIN Weights(f, w) = 1 .. m + n
        /\ \A i \in 1 .. m + n : Weights(f, w)[i] = f[w[i]]
    BY <1>3, <2>1 DEF Weights
  <2>6. \A i \in 1 .. m + n : f[w[i]] = IF i <= m THEN a[i] ELSE b[i - m]
    <3> SUFFICES ASSUME NEW i \in 1 .. m + n
                 PROVE  f[w[i]] = IF i <= m THEN a[i] ELSE b[i - m]
      OBVIOUS
    <3>1. CASE i <= m
      <4>1. i \in 1 .. m
        BY <2>1, <3>1
      <4> QED
        BY <2>1, <2>2, <3>1, <4>1
    <3>2. CASE ~(i <= m)
      <4>1. i - m \in 1 .. n
        BY <2>1, <3>2
      <4> QED
        BY <2>1, <2>2, <3>2, <4>1
    <3> QED
      BY <3>1, <3>2
  <2> DEFINE c == Weights(f, w)
  <2> HIDE DEF c
  <2>7. c \in Seq(Nat) /\ Len(c) = m + n /\ \A i \in 1 .. m + n : c[i] = (a \o b)[i]
    <3>1. c \in Seq(Nat) /\ DOMAIN c = 1 .. m + n /\ m + n \in Nat
      BY <2>1, <2>5 DEF c
    <3>2. Len(c) = m + n
      BY <3>1
    <3> QED
      BY <2>4, <2>5, <2>6, <3>1, <3>2 DEF c
  <2>8. c = a \o b
    BY <2>4, <2>7, SeqEqual
  <2> QED
    BY <2>8 DEF a, b, c
<1> QED
  BY <1>1, <1>2, <1>3, <1>4

\* How the weight of a list changes with it.
LEMMA WeightLemma ==
    ASSUME NEW D, NEW f \in [D -> Nat]
    PROVE  /\ Weight(f, <<>>) = 0
           /\ \A s \in Seq(D) : Weight(f, s) \in Nat
           /\ \A s, u \in Seq(D) : Weight(f, s \o u) = Weight(f, s) + Weight(f, u)
           /\ \A s \in Seq(D), x \in D : Weight(f, Append(s, x)) = Weight(f, s) + f[x]
           /\ \A s \in Seq(D) : s # <<>> => Weight(f, s) = f[Head(s)] + Weight(f, Tail(s))
           /\ \A s \in Seq(D) : \A i \in DOMAIN s : Weight(f, s) = Weight(f, RemoveAt(s, i)) + f[s[i]]
           /\ \A s \in Seq(D), x \in D : \A i \in DOMAIN s :
                 Weight(f, [s EXCEPT ![i] = x]) = Weight(f, RemoveAt(s, i)) + f[x]
<1>1. Weight(f, <<>>) = 0
  BY WeightsLemma, TotalOfLemma DEF Weight
<1>2. \A s \in Seq(D) : Weight(f, s) \in Nat
  BY WeightsLemma, TotalLemma DEF Weight
<1>3. \A s, u \in Seq(D) : Weight(f, s \o u) = Weight(f, s) + Weight(f, u)
  <2> SUFFICES ASSUME NEW s \in Seq(D), NEW u \in Seq(D)
               PROVE  Weight(f, s \o u) = Weight(f, s) + Weight(f, u)
    OBVIOUS
  <2>1. Weights(f, s) \in Seq(Nat) /\ Weights(f, u) \in Seq(Nat)
    BY WeightsLemma
  <2>2. Weights(f, s \o u) = Weights(f, s) \o Weights(f, u)
    BY WeightsLemma
  <2> QED
    BY <2>1, <2>2, TotalOfLemma DEF Weight
<1>4. ASSUME NEW x \in D PROVE Weight(f, <<x>>) = f[x] /\ <<x>> \in Seq(D) /\ f[x] \in Nat
  <2>1. Weights(f, <<x>>) = <<f[x]>> /\ f[x] \in Nat
    BY WeightsLemma
  <2> QED
    BY <2>1, TotalOfLemma DEF Weight
<1>5. ASSUME NEW s \in Seq(D), NEW x \in D PROVE Weight(f, Append(s, x)) = Weight(f, s) + f[x]
  <2>1. Append(s, x) = s \o <<x>>
    OBVIOUS
  <2> QED
    BY <1>3, <1>4, <2>1
<1>6. ASSUME NEW s \in Seq(D), s # <<>> PROVE Weight(f, s) = f[Head(s)] + Weight(f, Tail(s))
  <2>1. Head(s) \in D /\ Tail(s) \in Seq(D) /\ s = <<Head(s)>> \o Tail(s)
    BY <1>6, HeadTailProperties
  <2> QED
    BY <1>3, <1>4, <2>1
<1>7. ASSUME NEW s \in Seq(D), NEW i \in DOMAIN s, NEW x \in D
      PROVE  Weight(f, [s EXCEPT ![i] = x]) = Weight(f, RemoveAt(s, i)) + f[x]
  <2> DEFINE front == SubSeq(s, 1, i - 1)
             back == SubSeq(s, i + 1, Len(s))
  <2>1. i \in 1 .. Len(s) /\ Len(s) \in Nat
    OBVIOUS
  <2>2. /\ front \in Seq(D) /\ Len(front) = i - 1 /\ \A j \in 1 .. i - 1 : front[j] = s[j]
        /\ back \in Seq(D) /\ Len(back) = Len(s) - i /\ \A j \in 1 .. Len(s) - i : back[j] = s[i + j]
    <3>1. front \in Seq(D) /\ Len(front) = i - 1 /\ \A j \in 1 .. i - 1 : front[j] = s[j]
      BY <2>1
    <3>2. back \in Seq(D) /\ Len(back) = Len(s) - i /\ \A j \in 1 .. Len(s) - i : back[j] = s[i + j]
      BY <2>1
    <3> QED
      BY <3>1, <3>2
  <2>3. [s EXCEPT ![i] = x] = (front \o <<x>>) \o back
    <3> DEFINE t == [s EXCEPT ![i] = x]
               r == front \o <<x>>
               u == r \o back
    <3>1. t \in Seq(D) /\ Len(t) = Len(s) /\ \A j \in 1 .. Len(s) : t[j] = IF j = i THEN x ELSE s[j]
      OBVIOUS
    <3> HIDE DEF front, back
    <3>2. /\ r \in Seq(D) /\ Len(r) = i
          /\ \A j \in 1 .. i : r[j] = IF j = i THEN x ELSE s[j]
      <4>1. /\ r \in Seq(D) /\ Len(r) = Len(front) + 1
            /\ \A j \in 1 .. Len(front) + 1 : r[j] = IF j <= Len(front) THEN front[j] ELSE x
        BY <2>2
      <4>2. \A j \in 1 .. i : IF j = i THEN ~(j <= i - 1) ELSE j <= i - 1 /\ j \in 1 .. i - 1
        BY <2>1
      <4>3. Len(front) + 1 = i
        BY <2>1, <2>2
      <4> HIDE DEF r
      <4> QED
        BY <2>2, <4>1, <4>2, <4>3
    <3> HIDE DEF r
    <3>3. /\ u \in Seq(D) /\ Len(u) = Len(s)
          /\ \A j \in 1 .. Len(s) : u[j] = IF j <= i THEN r[j] ELSE back[j - i]
      <4>1. i + (Len(s) - i) = Len(s)
        BY <2>1
      <4>2. /\ u \in Seq(D) /\ Len(u) = Len(r) + Len(back)
            /\ \A j \in 1 .. Len(r) + Len(back) : u[j] = IF j <= Len(r) THEN r[j] ELSE back[j - Len(r)]
        BY <2>2, <3>2, ConcatProperties
      <4> HIDE DEF u
      <4> QED
        BY <2>2, <3>2, <4>1, <4>2
    <3> HIDE DEF t, u
    <3>4. ASSUME NEW j \in 1 .. Len(s) PROVE t[j] = u[j]
      <4>1. CASE j <= i
        <5>1. j \in 1 .. i
          BY <2>1, <4>1
        <5> QED
          BY <3>1, <3>2, <3>3, <4>1, <5>1
      <4>2. CASE ~(j <= i)
        <5>1. j - i \in 1 .. Len(s) - i /\ i + (j - i) = j /\ j # i
          BY <2>1, <4>2
        <5> QED
          BY <2>2, <3>1, <3>3, <4>2, <5>1
      <4> QED
        BY <4>1, <4>2
    <3>5. t = u
      BY <3>1, <3>3, <3>4, SeqEqual
    <3> QED
      BY <3>5 DEF r, t, u
  <2>4. RemoveAt(s, i) = front \o back
    BY DEF RemoveAt
  <2> HIDE DEF front, back
  <2>5. Weight(f, (front \o <<x>>) \o back) = Weight(f, front) + f[x] + Weight(f, back)
    <3>1. front \o <<x>> \in Seq(D) /\ <<x>> \in Seq(D)
      BY <1>4, <2>2, ConcatProperties
    <3>2. Weight(f, (front \o <<x>>) \o back) = Weight(f, front \o <<x>>) + Weight(f, back)
      BY <1>3, <2>2, <3>1
    <3>3. Weight(f, front \o <<x>>) = Weight(f, front) + f[x]
      BY <1>3, <1>4, <2>2, <3>1
    <3> QED
      BY <3>2, <3>3
  <2>6. Weight(f, front \o back) = Weight(f, front) + Weight(f, back)
    BY <1>3, <2>2
  <2>7. Weight(f, front) \in Nat /\ Weight(f, back) \in Nat /\ f[x] \in Nat
    BY <1>2, <2>2
  <2>8. \A a, b, c \in Nat : a + b + c = a + c + b
    OBVIOUS
  <2>9. Weight(f, front) + f[x] + Weight(f, back) = Weight(f, front) + Weight(f, back) + f[x]
    BY <2>7, <2>8
  <2> QED
    BY <2>3, <2>4, <2>5, <2>6, <2>9
<1>8. ASSUME NEW s \in Seq(D), NEW i \in DOMAIN s
      PROVE  Weight(f, s) = Weight(f, RemoveAt(s, i)) + f[s[i]]
  <2>1. s[i] \in D /\ [s EXCEPT ![i] = s[i]] = s
    OBVIOUS
  <2> QED
    BY <1>7, <2>1
<1> QED
  BY <1>1, <1>2, <1>3, <1>5, <1>6, <1>7, <1>8

\* In particular, of one that has a new last element...
LEMMA WeightAppend ==
    ASSUME NEW D, NEW f \in [D -> Nat], NEW s \in Seq(D), NEW x \in D
    PROVE  Weight(f, Append(s, x)) = Weight(f, s) + f[x]
BY WeightLemma

\* ... or another element at one place.
LEMMA WeightReplace ==
    ASSUME NEW D, NEW f \in [D -> Nat], NEW s \in Seq(D), NEW x \in D, NEW i \in DOMAIN s
    PROVE  Weight(f, [s EXCEPT ![i] = x]) = Weight(f, RemoveAt(s, i)) + f[x]
BY WeightLemma

\* What a list takes from a grant is what its records take.
Takes(t) == [e \in Matched |-> Charge(e, t)]

\* So what a list takes is a weight.
LEMMA TakesLemma ==
    ASSUME NEW t
    PROVE  Takes(t) \in [Matched -> Nat] /\ \A list \in Seq(Matched) : Spent(list, t) = Weight(Takes(t), list)
<1>1. Takes(t) \in [Matched -> Nat]
  BY ChargeLemma DEF Takes
<1>2. ASSUME NEW list \in Seq(Matched) PROVE Spent(list, t) = Weight(Takes(t), list)
  <2> DEFINE n == Len(list)
             w == Weights(Takes(t), list)
  <2>1. n \in Nat /\ DOMAIN list = 1 .. n /\ \A i \in 1 .. n : list[i] \in Matched
    BY ElementsLemma
  <2>2. w \in Seq(Nat)
    BY <1>1, WeightsLemma
  <2>3. DOMAIN w = 1 .. n /\ \A i \in 1 .. n : w[i] = Charge(list[i], t)
    BY <2>1 DEF Weights, Takes
  <2> HIDE DEF w
  <2>4. Len(w) = n
    BY <2>1, <2>2, <2>3
  <2>5. PICK f \in SumsOf(list, t) : Spent(list, t) = f[Len(list)]
    BY SpentLemma
  <2>6. f \in Sums(w)
    BY <2>3, <2>4, <2>5 DEF Sums, SumsOf
  <2> QED
    BY <2>2, <2>4, <2>5, <2>6, TotalLemma DEF Weight, w
<1> QED
  BY <1>1, <1>2

-----------------------------------------------------------------------------
(* How often a record is sent to feegrant.db.                                  *)

\* How often list s, of matched records, holds record r.
Times(s, r) == Cardinality({i \in DOMAIN s : s[i].rec = r})

\* So many times, which is a number.
LEMMA TimesType == \A s \in Seq(Matched) : \A r : Times(s, r) \in Nat
<1> SUFFICES ASSUME NEW s \in Seq(Matched), NEW r
             PROVE  Times(s, r) \in Nat
  OBVIOUS
<1>1. Len(s) \in Int /\ 1 \in Int /\ DOMAIN s = 1 .. Len(s)
  OBVIOUS
<1>2. IsFiniteSet(DOMAIN s)
  BY <1>1, FS_Interval
<1>3. IsFiniteSet({i \in DOMAIN s : s[i].rec = r})
  BY <1>2, FS_Subset
<1> QED
  BY <1>3, FS_CardinalityType DEF Times

\* A list that holds a record at most once adds at most one; a list without it, nothing.
LEMMA TimesLemma ==
    ASSUME NEW s \in Seq(Matched), NEW u \in Seq(Matched), NEW r,
           \A i, j \in DOMAIN u : u[i].rec = u[j].rec => i = j
    PROVE  /\ Times(s, r) \in Nat
           /\ Times(s \o u, r) <= Times(s, r) + 1
           /\ (\A i \in DOMAIN u : u[i].rec # r) => Times(s \o u, r) = Times(s, r)
<1> DEFINE m == Len(s)
           n == Len(u)
           w == s \o u
           A == {i \in DOMAIN s : s[i].rec = r}
           B == {i \in DOMAIN w : w[i].rec = r}
<1>1. /\ m \in Nat /\ n \in Nat /\ DOMAIN s = 1 .. m /\ DOMAIN u = 1 .. n /\ DOMAIN w = 1 .. m + n
      /\ \A i \in 1 .. m + n : w[i] = IF i <= m THEN s[i] ELSE u[i - m]
  OBVIOUS
<1> HIDE DEF w, m, n
<1>2. IsFiniteSet(A)
  <2>0. 1 \in Int /\ m \in Int
    BY <1>1
  <2>1. IsFiniteSet(1 .. m)
    BY <2>0, FS_Interval
  <2> QED
    BY <1>1, <2>1, FS_Subset
<1>3. Cardinality(A) \in Nat
  BY <1>2, FS_CardinalityType
<1>4. \A i \in 1 .. m + n : i \in 1 .. m \/ (~(i <= m) /\ i - m \in 1 .. n)
  BY <1>1
<1>5. \A i \in 1 .. m : i \in 1 .. m + n /\ i <= m
  BY <1>1
<1>6. CASE \A i \in DOMAIN u : u[i].rec # r
  <2>0. \A i \in B : i \in A
    BY <1>1, <1>4, <1>6
  <2>1. B = A
    BY <1>1, <1>5, <2>0
  <2> HIDE DEF A, B
  <2>2. Cardinality(B) = Cardinality(A) /\ Cardinality(B) <= Cardinality(A) + 1
    BY <1>3, <2>1
  <2> QED
    BY <1>3, <2>2 DEF Times, w, A, B
<1>7. CASE \E k \in DOMAIN u : u[k].rec = r
  <2>1. PICK k \in 1 .. n : u[k].rec = r
    BY <1>1, <1>7
  <2>2. m + k \in 1 .. m + n /\ ~(m + k <= m) /\ (m + k) - m = k
    BY <1>1
  <2>3. w[m + k] = u[k]
    BY <1>1, <2>2
  <2>4. \A i \in 1 .. m + n : ~(i <= m) /\ i - m = k => i = m + k
    BY <1>1
  <2>5. B = A \union {m + k}
    <3>1. \A i \in B : i \in A \/ i = m + k
      <4> SUFFICES ASSUME NEW i \in B PROVE i \in A \/ i = m + k
        OBVIOUS
      <4>1. CASE i \in 1 .. m
        BY <1>1, <1>5, <4>1
      <4>2. CASE ~(i <= m) /\ i - m \in 1 .. n
        <5>1. u[i - m].rec = r
          BY <1>1, <4>2
        <5>2. i - m = k
          BY <1>1, <2>1, <4>2, <5>1
        <5> QED
          BY <1>1, <2>4, <4>2, <5>2
      <4> QED
        BY <1>1, <1>4, <4>1, <4>2
    <3>2. \A i \in A : i \in B
      BY <1>1, <1>5
    <3>3. m + k \in B
      BY <1>1, <2>1, <2>2, <2>3
    <3> QED
      BY <3>1, <3>2, <3>3
  <2> HIDE DEF A, B
  <2>6. Cardinality(B) = Cardinality(A) \/ Cardinality(B) = Cardinality(A) + 1
    BY <1>2, <2>5, FS_AddElement
  <2>7. Cardinality(B) <= Cardinality(A) + 1
    BY <1>3, <2>6
  <2> QED
    BY <1>3, <1>7, <2>7 DEF Times, w, A, B
<1> QED
  BY <1>6, <1>7

\* The unique index of the history: no two records have the same key.
HistoryOnce ==
    \A i, j \in DOMAIN history : KeyOf(history[i].rec) = KeyOf(history[j].rec) => i = j

InHistory(r) == \E i \in DOMAIN history : history[i].rec = r

\* The origin of record r is written down.
Marked(r) == \E i \in DOMAIN history : history[i].rec = r /\ history[i].origin # NoHash

\* What the job found and matched is in the history, once, and found without an origin.
CronLists ==
    /\ cronStep # "match" => listUnprocess = <<>>
    /\ cronStep # "write" => bulkUpdate = <<>>
    /\ \A i, j \in DOMAIN listUnprocess : listUnprocess[i] = listUnprocess[j] => i = j
    /\ \A i, j \in DOMAIN bulkUpdate : bulkUpdate[i].rec = bulkUpdate[j].rec => i = j
    /\ \A i \in DOMAIN listUnprocess : InHistory(listUnprocess[i]) /\ ~Marked(listUnprocess[i])
    /\ \A i \in DOMAIN bulkUpdate : InHistory(bulkUpdate[i].rec)

Matches(r) == \E i \in DOMAIN bulkUpdate : bulkUpdate[i].rec = r

\* A record that is neither marked nor about to be was only ever sent by jobs that failed.
SentAsFailed ==
    /\ cronFailures \in Nat
    /\ \A r \in AllRecords :
          /\ Times(forwarded, r) <= 1 + cronFailures
          /\ Marked(r) \/ Matches(r) \/ Times(forwarded, r) <= cronFailures

OnceInv == HistoryOnce /\ CronLists /\ SentAsFailed

\* Initially nothing was sent.
LEMMA InitOnce == FeegrantInit => OnceInv
<1> SUFFICES ASSUME FeegrantInit
             PROVE  OnceInv
  OBVIOUS
<1>1. /\ history = <<>> /\ listUnprocess = <<>> /\ bulkUpdate = <<>> /\ forwarded = <<>>
      /\ cronFailures = 0
  BY DEF FeegrantInit, HistoryInit, CronInit
<1>2. DOMAIN <<>> = {}
  OBVIOUS
<1>3. Times(forwarded, NoHash) = 0 /\ \A r : Times(forwarded, r) = 0
  <2>1. \A r : {i \in DOMAIN forwarded : forwarded[i].rec = r} = {}
    BY <1>1, <1>2
  <2> QED
    BY <2>1, FS_EmptySet DEF Times
<1> QED
  BY <1>1, <1>2, <1>3 DEF OnceInv, HistoryOnce, CronLists, SentAsFailed

\* Where the job does nothing, and the records it has in hand keep their entries, nothing
\* changes.
LEMMA OnceKept ==
    ASSUME OnceInv, UNCHANGED <<cronStep, listUnprocess, bulkUpdate, forwarded, cronFailures>>,
           HistoryOnce',
           \A r \in AllRecords : InHistory(r) => InHistory(r)',
           \A r \in AllRecords : Marked(r) => Marked(r)',
           \A r \in AllRecords : InHistory(r) /\ Marked(r)' => Marked(r),
           listUnprocess \in Seq(AllRecords), bulkUpdate \in Seq(Matched)
    PROVE  OnceInv'
<1>1. \A i \in DOMAIN listUnprocess : listUnprocess[i] \in AllRecords
  BY ElementsLemma
<1>2. \A i \in DOMAIN bulkUpdate : bulkUpdate[i].rec \in AllRecords
  <2>1. \A i \in DOMAIN bulkUpdate : bulkUpdate[i] \in Matched
    BY ElementsLemma
  <2> QED
    BY <2>1 DEF Matched
<1>3. \A r : Matches(r)' = Matches(r)
  BY DEF Matches
<1>4. SentAsFailed'
  BY <1>3 DEF OnceInv, SentAsFailed
<1>5. CronLists'
  <2>1. \A i \in DOMAIN listUnprocess : \E r : r = listUnprocess[i] /\ InHistory(r)' /\ ~Marked(r)'
    BY <1>1 DEF OnceInv, CronLists
  <2>2. \A i \in DOMAIN bulkUpdate : \E r : r = bulkUpdate[i].rec /\ InHistory(r)'
    BY <1>2 DEF OnceInv, CronLists
  <2> QED
    BY <2>1, <2>2 DEF OnceInv, CronLists, InHistory, Marked
<1> QED
  BY <1>4, <1>5 DEF OnceInv

\* Only records with new keys enter the history.
LEMMA HistoryOnceStep ==
    ASSUME FeegrantTypes, OnceInv, HistoryNext, UNCHANGED cronOwnVars
    PROVE  OnceInv'
<1>0. /\ UNCHANGED <<cronStep, listUnprocess, bulkUpdate, forwarded, cronFailures>>
      /\ listUnprocess \in Seq(AllRecords) /\ bulkUpdate \in Seq(Matched)
      /\ history \in Seq(Entries) /\ historyWork \in Seq(HistoryJobs)
  BY DEF cronOwnVars, FeegrantTypes, CronTypes, HistoryTypes
<1>1. CASE history' = history
  <2>1. HistoryOnce' /\ \A r : InHistory(r)' = InHistory(r) /\ Marked(r)' = Marked(r)
    BY <1>1 DEF OnceInv, HistoryOnce, InHistory, Marked
  <2> QED
    BY <1>0, <2>1, OnceKept
<1>2. ASSUME NEW i \in DOMAIN historyWork, InsertRecords(i), history' # history
      PROVE  OnceInv'
  <2> DEFINE new == NewRecords(HistoryKeys, RecordsOfList(historyWork[i].list))
             entries == [j \in DOMAIN new |-> Entry(new[j])]
             m == Len(history)
             n == Len(entries)
  <2>1. historyWork[i].list \in Seq(Hashes)
    BY <1>0, HistoryWorkLemma
  <2>2. new \in Seq(AllRecords)
    BY <2>1, RecordsOfListLemma, NewRecordsLemma
  <2>3. history' = history \o entries
    BY <1>2 DEF InsertRecords
  <2>4. /\ \A y, z \in DOMAIN new : KeyOf(new[y]) = KeyOf(new[z]) => y = z
        /\ \A y \in DOMAIN new : KeyOf(new[y]) \notin HistoryKeys
    BY <2>1, RecordsOfListLemma, NewKeysLemma
  <2> HIDE DEF new
  <2>5. entries \in Seq(Entries) /\ DOMAIN entries = DOMAIN new
        /\ \A j \in DOMAIN new : entries[j].rec = new[j]
    BY <2>2, EntriesLemma DEF Entry
  <2> HIDE DEF entries
  <2>6. /\ m \in Nat /\ n \in Nat /\ DOMAIN history = 1 .. m /\ DOMAIN new = 1 .. n
        /\ DOMAIN history' = 1 .. m + n
        /\ \A j \in 1 .. m + n : history'[j] = IF j <= m THEN history[j] ELSE entries[j - m]
    BY <1>0, <2>3, <2>5
  <2> HIDE DEF m, n
  <2>7. \A j \in 1 .. m + n : \/ j \in 1 .. m /\ history'[j] = history[j]
                              \/ /\ j - m \in 1 .. n /\ history'[j].rec = new[j - m]
                                 /\ KeyOf(history'[j].rec) \notin HistoryKeys
    <3>1. \A j \in 1 .. m + n : (j \in 1 .. m /\ j <= m) \/ (~(j <= m) /\ j - m \in 1 .. n)
      BY <2>6
    <3> QED
      BY <2>4, <2>5, <2>6, <3>1
  <2>8. \A j \in 1 .. m : j \in 1 .. m + n /\ history'[j] = history[j] /\ KeyOf(history[j].rec) \in HistoryKeys
    BY <2>6 DEF HistoryKeys
  <2>9. HistoryOnce'
    <3> SUFFICES ASSUME NEW x \in 1 .. m + n, NEW y \in 1 .. m + n,
                        KeyOf(history'[x].rec) = KeyOf(history'[y].rec)
                 PROVE  x = y
      BY <2>6 DEF HistoryOnce, KeyOf
    <3>1. CASE x \in 1 .. m /\ y \in 1 .. m
      BY <2>6, <2>8, <3>1 DEF OnceInv, HistoryOnce
    <3>2. CASE x \in 1 .. m /\ y \notin 1 .. m
      BY <2>7, <2>8, <3>2
    <3>3. CASE x \notin 1 .. m /\ y \in 1 .. m
      BY <2>7, <2>8, <3>3
    <3>4. CASE x \notin 1 .. m /\ y \notin 1 .. m
      <4>1. /\ x - m \in 1 .. n /\ history'[x].rec = new[x - m]
            /\ y - m \in 1 .. n /\ history'[y].rec = new[y - m]
        BY <2>7, <3>4
      <4>2. x - m = y - m
        BY <2>4, <2>6, <4>1
      <4> QED
        BY <2>6, <4>2
    <3> QED
      BY <3>1, <3>2, <3>3, <3>4
  <2>10. \A r : InHistory(r) => InHistory(r)'
    BY <2>6, <2>8 DEF InHistory
  <2>11. \A r : Marked(r) => Marked(r)'
    BY <2>6, <2>8 DEF Marked
  <2>12. \A r : InHistory(r) /\ Marked(r)' => Marked(r)
    <3> SUFFICES ASSUME NEW r, InHistory(r), Marked(r)'
                 PROVE  Marked(r)
      OBVIOUS
    <3>1. PICK j \in 1 .. m + n : history'[j].rec = r /\ history'[j].origin # NoHash
      BY <2>6 DEF Marked
    <3>2. KeyOf(r) \in HistoryKeys
      BY DEF InHistory, HistoryKeys
    <3>3. j \in 1 .. m /\ history'[j] = history[j]
      BY <2>7, <3>1, <3>2
    <3> QED
      BY <2>6, <3>1, <3>3 DEF Marked
  <2> QED
    BY <1>0, <2>9, <2>10, <2>11, <2>12, OnceKept
<1> QED
  BY <1>1, <1>2 DEF HistoryNext, StartHistoryJob, InsertGrants, CrashHistory

\* The job finds records that are not marked, each once.
LEMMA FindOnce ==
    ASSUME FeegrantTypes, OnceInv, FindUnprocessed
    PROVE  OnceInv'
<1> DEFINE k == Min({MaxUnprocessed, Len(Unprocessed)})
           I == {i \in DOMAIN history : history[i].origin = NoHash /\ history[i].rec.result}
           found == Selected(history, I)
<1>1. history \in Seq(Entries)
  BY DEF FeegrantTypes, HistoryTypes
<1>2. Unprocessed = found /\ \A i \in I : history[i].origin = NoHash
  BY DEF Unprocessed
<1> HIDE DEF I
<1>3. found \in Seq(Entries)
  BY <1>1, SelectedLemma
<1>4. PICK pos \in [DOMAIN found -> DOMAIN history] :
         /\ \A y \in DOMAIN found : pos[y] \in I /\ found[y] = history[pos[y]]
         /\ \A y, z \in DOMAIN found : y < z => pos[y] < pos[z]
  <2>1. PICK pos \in Places(history, I) : TRUE
    BY <1>1, SelectedOrder
  <2>2. /\ pos \in [DOMAIN found -> DOMAIN history]
        /\ \A y \in DOMAIN found : pos[y] \in I /\ found[y] = history[pos[y]]
        /\ \A y, z \in DOMAIN found : y < z => pos[y] < pos[z]
    BY <2>1 DEF Places
  <2> QED
    BY <2>2
<1> HIDE DEF found
<1>5. k \in Nat /\ k <= Len(found)
  <2>1. Len(found) \in Nat /\ MaxUnprocessed \in Nat
    BY <1>3, CronjobAssumption
  <2>2. \E x \in {MaxUnprocessed, Len(found)} : \A y \in {MaxUnprocessed, Len(found)} : x <= y
    BY <2>1
  <2>3. k = Min({MaxUnprocessed, Len(found)})
    BY <1>2
  <2> HIDE DEF k
  <2>4. k \in {MaxUnprocessed, Len(found)} /\ k <= Len(found)
    BY <2>2, <2>3 DEF Min
  <2> QED
    BY <2>1, <2>4
<1>6. DOMAIN listUnprocess' = 1 .. k /\ \A i \in 1 .. k : listUnprocess'[i] = found[i].rec
  BY <1>2 DEF FindUnprocessed
<1> HIDE DEF k
<1>7. \A i \in 1 .. k : i \in Nat /\ i \in DOMAIN found
  BY <1>3, <1>5, ElementsLemma
<1>8. \A i \in 1 .. k : /\ pos[i] \in DOMAIN history /\ history[pos[i]].origin = NoHash
                        /\ listUnprocess'[i] = history[pos[i]].rec
  BY <1>2, <1>4, <1>6, <1>7
<1>9. \A i, j \in DOMAIN listUnprocess' : listUnprocess'[i] = listUnprocess'[j] => i = j
  <2> SUFFICES ASSUME NEW i \in 1 .. k, NEW j \in 1 .. k, listUnprocess'[i] = listUnprocess'[j]
               PROVE  i = j
    BY <1>6
  <2>1. pos[i] = pos[j] /\ pos[i] \in Nat
    <3>1. KeyOf(history[pos[i]].rec) = KeyOf(history[pos[j]].rec)
      BY <1>8
    <3>2. DOMAIN history \subseteq Nat
      BY <1>1, ElementsLemma
    <3> QED
      BY <1>8, <3>1, <3>2 DEF OnceInv, HistoryOnce
  <2>2. ~(i < j) /\ ~(j < i)
    BY <1>4, <1>7, <2>1
  <2> QED
    BY <1>7, <2>2
<1>10. \A i \in DOMAIN listUnprocess' : InHistory(listUnprocess'[i]) /\ ~Marked(listUnprocess'[i])
  <2> SUFFICES ASSUME NEW i \in 1 .. k
               PROVE  InHistory(listUnprocess'[i]) /\ ~Marked(listUnprocess'[i])
    BY <1>6
  <2>1. \A j \in DOMAIN history : history[j].rec = listUnprocess'[i] => j = pos[i]
    BY <1>8 DEF OnceInv, HistoryOnce
  <2> QED
    BY <1>8, <2>1 DEF InHistory, Marked
<1>11. UNCHANGED <<history, bulkUpdate, forwarded, cronFailures>> /\ cronStep = "idle" /\ cronStep' = "match"
  BY DEF FindUnprocessed
<1>12. \A r : InHistory(r)' = InHistory(r) /\ Marked(r)' = Marked(r) /\ Matches(r)' = Matches(r)
  BY <1>11 DEF InHistory, Marked, Matches
<1>13. bulkUpdate' = <<>> /\ DOMAIN bulkUpdate' = {}
  BY <1>11 DEF OnceInv, CronLists
<1>14. CronLists'
  BY <1>9, <1>10, <1>11, <1>12, <1>13 DEF CronLists
<1>15. HistoryOnce' /\ SentAsFailed'
  BY <1>11, <1>12 DEF OnceInv, HistoryOnce, SentAsFailed
<1> QED
  BY <1>14, <1>15 DEF OnceInv

\* What is sent is unmarked, so that only failed jobs sent it before.
LEMMA MatchOnce ==
    ASSUME FeegrantTypes, OnceInv, MatchOrigins
    PROVE  OnceInv'
<1> DEFINE I == {i \in DOMAIN listUnprocess : Origins(listUnprocess[i]) # {}}
           matched == Selected(listUnprocess, I)
<1>1. /\ listUnprocess \in Seq(AllRecords) /\ forwarded \in Seq(Matched)
      /\ bulkUpdate = <<>>
  BY DEF FeegrantTypes, CronTypes, OnceInv, CronLists, MatchOrigins
<1>2. PICK origin \in [ToSet(matched) -> Hashes] :
            bulkUpdate' = [i \in DOMAIN matched |-> [rec |-> matched[i], origin |-> origin[matched[i]]]]
  BY DEF MatchOrigins
<1> HIDE DEF I
<1>3. matched \in Seq(AllRecords)
  BY <1>1, SelectedLemma
<1>4. PICK pos \in [DOMAIN matched -> DOMAIN listUnprocess] :
         /\ \A y \in DOMAIN matched : matched[y] = listUnprocess[pos[y]]
         /\ \A y, z \in DOMAIN matched : y < z => pos[y] < pos[z]
  <2>1. PICK pos \in Places(listUnprocess, I) : TRUE
    BY <1>1, SelectedOrder
  <2>2. /\ pos \in [DOMAIN matched -> DOMAIN listUnprocess]
        /\ \A y \in DOMAIN matched : matched[y] = listUnprocess[pos[y]]
        /\ \A y, z \in DOMAIN matched : y < z => pos[y] < pos[z]
    BY <2>1 DEF Places
  <2> QED
    BY <2>2
<1> HIDE DEF matched
<1>5. DOMAIN bulkUpdate' = DOMAIN matched /\ \A i \in DOMAIN matched : bulkUpdate'[i].rec = matched[i]
  BY <1>2
<1>6. \A i, j \in DOMAIN bulkUpdate' : bulkUpdate'[i].rec = bulkUpdate'[j].rec => i = j
  <2> SUFFICES ASSUME NEW i \in DOMAIN matched, NEW j \in DOMAIN matched, matched[i] = matched[j]
               PROVE  i = j
    BY <1>5
  <2>1. pos[i] = pos[j] /\ pos[i] \in Nat
    <3>1. DOMAIN listUnprocess \subseteq Nat
      BY <1>1, ElementsLemma
    <3> QED
      BY <1>4, <3>1 DEF OnceInv, CronLists
  <2>2. i \in Nat /\ j \in Nat
    BY <1>3, ElementsLemma
  <2>3. ~(i < j) /\ ~(j < i)
    BY <1>4, <2>1
  <2> QED
    BY <2>2, <2>3
<1>7. \A i \in DOMAIN bulkUpdate' : InHistory(bulkUpdate'[i].rec) /\ ~Marked(bulkUpdate'[i].rec)
  BY <1>4, <1>5 DEF OnceInv, CronLists
<1>8. bulkUpdate' \in Seq(Matched) /\ forwarded' = forwarded \o bulkUpdate'
  <2>1. CronNext
    BY DEF CronNext
  <2>2. CronTypes'
    BY <2>1, CronTypeStep DEF FeegrantTypes
  <2> QED
    BY <2>2 DEF CronTypes, MatchOrigins
<1>9. UNCHANGED <<history, cronFailures>> /\ cronStep' = "write" /\ listUnprocess' = <<>> /\ DOMAIN listUnprocess' = {}
  BY DEF MatchOrigins
<1>10. \A r : InHistory(r)' = InHistory(r) /\ Marked(r)' = Marked(r)
  BY <1>9 DEF InHistory, Marked
<1>11. CronLists'
  BY <1>6, <1>7, <1>9, <1>10 DEF CronLists
<1>12. SentAsFailed'
  <2> SUFFICES ASSUME NEW r \in AllRecords
               PROVE  /\ Times(forwarded', r) <= 1 + cronFailures
                      /\ Marked(r) \/ Matches(r)' \/ Times(forwarded', r) <= cronFailures
    BY <1>9, <1>10 DEF OnceInv, SentAsFailed
  <2>1. /\ Times(forwarded, r) \in Nat
        /\ Times(forwarded', r) <= Times(forwarded, r) + 1
        /\ (\A i \in DOMAIN bulkUpdate' : bulkUpdate'[i].rec # r) => Times(forwarded', r) = Times(forwarded, r)
    <3> DEFINE u == bulkUpdate'
    <3>1. u \in Seq(Matched) /\ \A i, j \in DOMAIN u : u[i].rec = u[j].rec => i = j
      BY <1>6, <1>8
    <3>2. forwarded' = forwarded \o u
      BY <1>8
    <3> HIDE DEF u
    <3>3. /\ Times(forwarded, r) \in Nat
          /\ Times(forwarded \o u, r) <= Times(forwarded, r) + 1
          /\ (\A i \in DOMAIN u : u[i].rec # r) => Times(forwarded \o u, r) = Times(forwarded, r)
      BY <1>1, <3>1, TimesLemma
    <3> QED
      BY <3>2, <3>3 DEF u
  <2>2. ~Matches(r)
    BY <1>1 DEF Matches
  <2>3. /\ Times(forwarded, r) <= 1 + cronFailures /\ cronFailures \in Nat
        /\ Marked(r) \/ Times(forwarded, r) <= cronFailures
    BY <2>2 DEF OnceInv, SentAsFailed
  <2>4. CASE \A i \in DOMAIN bulkUpdate' : bulkUpdate'[i].rec # r
    BY <2>1, <2>3, <2>4
  <2>5. CASE \E i \in DOMAIN bulkUpdate' : bulkUpdate'[i].rec = r
    <3>1. ~Marked(r) /\ Matches(r)'
      BY <1>7, <2>5 DEF Matches
    <3>2. Times(forwarded', r) \in Nat
      <4>1. forwarded \o bulkUpdate' \in Seq(Matched)
        BY <1>1, <1>8, SendLemma
      <4> QED
        BY <1>8, <4>1, TimesType
    <3>3. \A a, b, c \in Nat : a <= b + 1 /\ b <= c => a <= 1 + c
      OBVIOUS
    <3> QED
      BY <2>1, <2>3, <3>1, <3>2, <3>3
  <2> QED
    BY <2>4, <2>5
<1>13. HistoryOnce'
  BY <1>9 DEF OnceInv, HistoryOnce
<1> QED
  BY <1>11, <1>12, <1>13 DEF OnceInv

\* What was matched is marked.
LEMMA WriteOnce ==
    ASSUME FeegrantTypes, OnceInv, WriteOrigins
    PROVE  OnceInv'
<1>1. /\ bulkUpdate \in Seq(Matched) /\ history \in Seq(Entries)
      /\ listUnprocess = <<>>
  BY DEF FeegrantTypes, CronTypes, HistoryTypes, OnceInv, CronLists, WriteOrigins
<1>2. /\ DOMAIN history' = DOMAIN history
      /\ cronStep' = "idle" /\ bulkUpdate' = <<>> /\ UNCHANGED <<listUnprocess, forwarded, cronFailures>>
  BY DEF WriteOrigins
<1>3. \A i \in DOMAIN history :
         /\ history'[i].rec = history[i].rec
         /\ history'[i].origin \in Hashes \/ (history'[i] = history[i] /\ ~Matches(history[i].rec))
  <2> SUFFICES ASSUME NEW i \in DOMAIN history
               PROVE  /\ history'[i].rec = history[i].rec
                      /\ history'[i].origin \in Hashes \/ (history'[i] = history[i] /\ ~Matches(history[i].rec))
    OBVIOUS
  <2>1. history'[i] = IF \E e \in ToSet(bulkUpdate) : e.rec = history[i].rec
                      THEN CHOOSE e \in ToSet(bulkUpdate) : e.rec = history[i].rec
                      ELSE history[i]
    BY DEF WriteOrigins
  <2>2. CASE \E e \in ToSet(bulkUpdate) : e.rec = history[i].rec
    <3>1. history'[i] \in ToSet(bulkUpdate) /\ history'[i].rec = history[i].rec
      BY <2>1, <2>2
    <3>2. history'[i] \in Matched
      BY <1>1, <3>1, ElementsLemma
    <3> QED
      BY <3>1, <3>2 DEF Matched
  <2>3. CASE ~\E e \in ToSet(bulkUpdate) : e.rec = history[i].rec
    <3>1. history'[i] = history[i]
      BY <2>1, <2>3
    <3>2. ~Matches(history[i].rec)
      BY <2>3 DEF Matches, ToSet
    <3> QED
      BY <3>1, <3>2
  <2> QED
    BY <2>2, <2>3
<1>4. \A r : Marked(r) => Marked(r)'
  BY <1>2, <1>3, NoValueAssumption DEF Marked
<1>5. \A r : Matches(r) => Marked(r)'
  <2>1. \A r : Matches(r) => InHistory(r)
    BY DEF OnceInv, CronLists, Matches
  <2> QED
    BY <1>2, <1>3, <2>1, NoValueAssumption DEF Marked, InHistory
<1>6. HistoryOnce'
  <2> SUFFICES ASSUME NEW x \in DOMAIN history, NEW y \in DOMAIN history,
                      KeyOf(history'[x].rec) = KeyOf(history'[y].rec)
               PROVE  x = y
    BY <1>2 DEF HistoryOnce, KeyOf
  <2> QED
    BY <1>3 DEF OnceInv, HistoryOnce
<1>7. SentAsFailed'
  BY <1>2, <1>4, <1>5 DEF OnceInv, SentAsFailed
<1>8. CronLists'
  <2>1. DOMAIN <<>> = {}
    OBVIOUS
  <2> QED
    BY <1>1, <1>2, <2>1 DEF CronLists
<1> QED
  BY <1>6, <1>7, <1>8 DEF OnceInv

\* A job that failed may have its records sent once more.
LEMMA FailOnce ==
    ASSUME FeegrantTypes, OnceInv,
           history' = history, forwarded' = forwarded, cronFailures' = cronFailures + 1,
           listUnprocess' = <<>>, bulkUpdate' = <<>>
    PROVE  OnceInv'
<1>1. DOMAIN listUnprocess' = {} /\ DOMAIN bulkUpdate' = {}
  OBVIOUS
<1>2. HistoryOnce' /\ CronLists'
  BY <1>1 DEF OnceInv, HistoryOnce, CronLists
<1>3. forwarded \in Seq(Matched)
  BY DEF FeegrantTypes, CronTypes
<1>4. \A r : Times(forwarded, r) \in Nat
  BY <1>3, TimesType
<1>5. SentAsFailed'
  <2>1. \A a, c \in Nat : a <= 1 + c => a <= 1 + (c + 1) /\ a <= c + 1 /\ c + 1 \in Nat
    OBVIOUS
  <2>2. cronFailures \in Nat /\ \A r \in AllRecords : Times(forwarded, r) <= 1 + cronFailures
    BY DEF OnceInv, SentAsFailed
  <2>3. \A r \in AllRecords : Times(forwarded, r) <= 1 + (cronFailures + 1) /\ Times(forwarded, r) <= cronFailures + 1
    BY <1>4, <2>1, <2>2
  <2> QED
    BY <2>1, <2>2, <2>3 DEF SentAsFailed
<1> QED
  BY <1>2, <1>5 DEF OnceInv

\* Every step of the services keeps the invariant.
LEMMA NextOnce ==
    ASSUME FeegrantTypes, OnceInv, [FeegrantNext]_fgAllVars
    PROVE  OnceInv'
<1>1. CASE UNCHANGED <<history, cronOwnVars>>
  BY <1>1 DEF cronOwnVars, OnceInv, HistoryOnce, CronLists, SentAsFailed, InHistory, Marked, Matches
<1>2. CASE HistoryNext /\ UNCHANGED cronOwnVars
  BY <1>2, HistoryOnceStep
<1>3. CASE CronNext
  <2>1. CASE FindUnprocessed
    BY <2>1, FindOnce
  <2>2. CASE MatchOrigins
    BY <2>2, MatchOnce
  <2>3. CASE WriteOrigins
    BY <2>3, WriteOnce
  <2>4. CASE CronFails
    BY <2>4, FailOnce DEF CronFails
  <2>5. CASE DbJobLands
    BY <2>5 DEF DbJobLands, OnceInv, HistoryOnce, CronLists, SentAsFailed, InHistory, Marked, Matches
  <2>6. CASE CrashCron
    BY <2>6, FailOnce DEF CrashCron
  <2> QED
    BY <1>3, <2>1, <2>2, <2>3, <2>4, <2>5, <2>6 DEF CronNext
<1> QED
  BY <1>1, <1>2, <1>3 DEF FeegrantNext, fgAllVars

\* It says of the records sent what the property says.
LEMMA OnceLemma == OnceInv => ForwardedOnce
BY DEF OnceInv, SentAsFailed, ForwardedOnce, Times

-----------------------------------------------------------------------------
(* What a transaction grants.                                                  *)

\* Its first create record says it.
LEMMA GivenLemma ==
    ASSUME NEW h \in Hashes, NEW j \in DOMAIN RecordsOf[h], RecordsOf[h][j].action = "create",
           \A l \in 1 .. j - 1 : RecordsOf[h][l].action # "create"
    PROVE  Given(h) = RecordsOf[h][j].amount
<1> DEFINE C == {i \in DOMAIN RecordsOf[h] : RecordsOf[h][i].action = "create"}
<1>1. DOMAIN RecordsOf[h] = 1 .. Len(RecordsOf[h]) /\ Len(RecordsOf[h]) \in Nat
  BY RecordsLemma, ElementsLemma
<1>2. j \in C /\ C \subseteq Nat /\ \A i \in C : j <= i
  <2>1. \A i \in DOMAIN RecordsOf[h] : i \in Nat /\ (i < j => i \in 1 .. j - 1)
    BY <1>1
  <2>2. \A i \in C : i \in Nat /\ ~(i < j)
    BY <2>1
  <2> QED
    BY <1>1, <2>2
<1>3. Given(h) = RecordsOf[h][Min(C)].amount
  BY DEF Given
<1> HIDE DEF C
<1>4. Min(C) = j
  <2>0. \E x \in C : \A y \in C : x <= y
    BY <1>2
  <2>1. Min(C) \in C /\ \A i \in C : Min(C) <= i
    BY <2>0 DEF Min
  <2>2. j <= Min(C) /\ Min(C) <= j /\ j \in Nat /\ Min(C) \in Nat
    BY <1>2, <2>1
  <2> QED
    BY <2>2
<1> QED
  BY <1>3, <1>4

\* The create records of a list of transactions that are new under the unique index of the
\* grants are the first of their transactions.
LEMMA NewGivenLemma ==
    ASSUME NEW list \in Seq(Hashes), NEW keys
    PROVE  LET all == RecordsOfList(list)
               creates == Selected(all, {j \in DOMAIN all : all[j].action = "create"})
           IN \A r \in ToSet(NewRecords(keys, creates)) :
                 r.tx \in Hashes /\ r.amount \in Amount /\ r.amount = Given(r.tx)
<1> DEFINE s == [k \in DOMAIN list |-> RecordsOf[list[k]]]
           all == RecordsOfList(list)
           I == {j \in DOMAIN all : all[j].action = "create"}
           creates == Selected(all, I)
           new == NewRecords(keys, creates)
<1>1. /\ DOMAIN list = 1 .. Len(list) /\ Len(list) \in Nat
      /\ \A k \in DOMAIN list : list[k] \in Hashes
  BY ElementsLemma
<1>2. \A h \in Hashes : RecordsOf[h] \in Seq(AllRecords)
  <2> SUFFICES ASSUME NEW h \in Hashes
               PROVE  RecordsOf[h] \in Seq(AllRecords)
    OBVIOUS
  <2>1. RecordsOf[h] \in Seq(RecordSet(h))
    BY RecordsLemma
  <2>2. \A i \in DOMAIN RecordsOf[h] : RecordsOf[h][i] \in AllRecords
    BY DEF AllRecords, ToSet
  <2> QED
    BY <2>1, <2>2
<1>3. s \in Seq(Seq(AllRecords)) /\ all = FlattenSeq(s)
  <2> DEFINE Lists == Seq(AllRecords)
             n == Len(list)
  <2>1. n \in Nat /\ DOMAIN list = 1 .. n /\ \A k \in 1 .. n : RecordsOf[list[k]] \in Lists
    BY <1>1, <1>2
  <2> HIDE DEF Lists, n
  <2>2. s \in [1 .. n -> Lists]
    BY <2>1
  <2> HIDE DEF s
  <2>3. s \in Seq(Lists)
    BY <2>1, <2>2, ListLemma
  <2> QED
    BY <2>3 DEF Lists, RecordsOfList, s
<1>4. all \in Seq(AllRecords)
  BY RecordsOfListLemma
<1>5. \A x : x \in I <=> x \in DOMAIN all /\ all[x].action = "create"
  OBVIOUS
<1>6. DOMAIN s = DOMAIN list /\ \A k \in DOMAIN list : s[k] = RecordsOf[list[k]]
  OBVIOUS
<1> HIDE DEF I, all, s
<1>7. creates \in Seq(AllRecords)
  BY <1>4, SelectedOrder
<1>8. PICK pos \in Places(all, I) : TRUE
  BY <1>4, SelectedOrder
<1>9. /\ pos \in [DOMAIN creates -> DOMAIN all]
      /\ \A y \in DOMAIN creates : pos[y] \in I /\ creates[y] = all[pos[y]]
      /\ \A y, z \in DOMAIN creates : y < z => pos[y] < pos[z]
  BY <1>8 DEF Places
<1>10. \A x \in I : \E y \in DOMAIN creates : pos[y] = x
  <2>1. I \intersect DOMAIN all = I
    BY <1>5
  <2> QED
    BY <1>8, <2>1 DEF Places
<1> HIDE DEF creates
<1>11. \A y \in DOMAIN new : \E i \in DOMAIN creates :
          new[y] = creates[i] /\ \A j \in 1 .. i - 1 : KeyOf(creates[j]) # KeyOf(creates[i])
  BY <1>7, NewKeysLemma
<1> HIDE DEF new
<1>12. ASSUME NEW r \in ToSet(new)
       PROVE  r.tx \in Hashes /\ r.amount \in Amount /\ r.amount = Given(r.tx)
  <2>1. PICK i \in DOMAIN creates :
            r = creates[i] /\ \A j \in 1 .. i - 1 : KeyOf(creates[j]) # KeyOf(creates[i])
    BY <1>11 DEF ToSet
  <2> DEFINE x == pos[i]
  <2>2. x \in DOMAIN all /\ r = all[x] /\ r.action = "create" /\ r \in AllRecords
    BY <1>4, <1>5, <1>9, <2>1, ElementsLemma
  <2>3. PICK k \in DOMAIN s : \E j \in DOMAIN s[k] :
            /\ all[x] = s[k][j]
            /\ \A l \in 1 .. j - 1 : \E y \in 1 .. x - 1 : all[y] = s[k][l]
    <3> HIDE DEF x
    <3>1. x \in DOMAIN FlattenSeq(s)
      BY <1>3, <2>2
    <3>2. \E k \in DOMAIN s : \E j \in DOMAIN s[k] :
             /\ FlattenSeq(s)[x] = s[k][j]
             /\ \A l \in 1 .. j - 1 : \E y \in 1 .. x - 1 : FlattenSeq(s)[y] = s[k][l]
      BY <1>3, <3>1, FlattenOrder, Zenon
    <3> QED
      BY <1>3, <3>2, Zenon
  <2> DEFINE h == list[k]
  <2>4. h \in Hashes /\ s[k] = RecordsOf[h] /\ RecordsOf[h] \in Seq(RecordSet(h))
    BY <1>1, <1>6, <2>3, RecordsLemma
  <2> HIDE DEF h
  <2>5. PICK j \in DOMAIN RecordsOf[h] :
            /\ r = RecordsOf[h][j]
            /\ \A l \in 1 .. j - 1 : \E y \in 1 .. x - 1 : all[y] = RecordsOf[h][l]
    BY <2>2, <2>3, <2>4
  <2>6. \A l \in DOMAIN RecordsOf[h] : RecordsOf[h][l].tx = h
    <3>1. \A l \in DOMAIN RecordsOf[h] : RecordsOf[h][l] \in RecordSet(h)
      BY <2>4, ElementsLemma
    <3> QED
      BY <3>1 DEF RecordSet
  <2>7. \A l \in DOMAIN RecordsOf[h] :
            RecordsOf[h][l].action = "create" => KeyOf(RecordsOf[h][l]) = <<h, "create", CreateStatus(h)>>
    <3>1. \A l \in DOMAIN RecordsOf[h] : RecordsOf[h][l] \in RecordSet(h)
      BY <2>4, ElementsLemma
    <3> QED
      BY <3>1 DEF RecordSet, KeyOf
  <2>8. ASSUME NEW l \in 1 .. j - 1, RecordsOf[h][l].action = "create" PROVE FALSE
    <3>1. l \in DOMAIN RecordsOf[h]
      <4>1. DOMAIN RecordsOf[h] = 1 .. Len(RecordsOf[h]) /\ Len(RecordsOf[h]) \in Nat
        BY <2>4, ElementsLemma
      <4> QED
        BY <2>5, <4>1
    <3>2. PICK y \in 1 .. x - 1 : all[y] = RecordsOf[h][l]
      BY <2>5
    <3>3. x \in Nat /\ y < x /\ y \in DOMAIN all
      <4>1. DOMAIN all = 1 .. Len(all) /\ Len(all) \in Nat
        BY <1>4, ElementsLemma
      <4> QED
        BY <2>2, <4>1
    <3>4. PICK z \in DOMAIN creates : pos[z] = y
      <4>1. y \in I
        BY <1>5, <2>8, <3>2, <3>3
      <4> QED
        BY <1>10, <4>1
    <3>5. z \in 1 .. i - 1
      <4>1. DOMAIN creates = 1 .. Len(creates) /\ Len(creates) \in Nat
        BY <1>7, ElementsLemma
      <4>2. ~(i < z) /\ i # z
        BY <1>9, <3>3, <3>4
      <4> QED
        BY <4>1, <4>2
    <3>6. creates[z] = RecordsOf[h][l]
      BY <1>9, <3>2, <3>4
    <3>7. KeyOf(creates[z]) = KeyOf(creates[i])
      BY <2>1, <2>2, <2>5, <2>7, <2>8, <3>1, <3>6
    <3> QED
      BY <2>1, <3>5, <3>7
  <2>9. Given(h) = RecordsOf[h][j].amount
    BY <2>2, <2>4, <2>5, <2>8, GivenLemma
  <2>10. r.tx = h
    BY <2>5, <2>6
  <2> QED
    BY <2>2, <2>4, <2>5, <2>9, <2>10, RecordLemma
<1> QED
  BY <1>12 DEF new, creates, I, all

-----------------------------------------------------------------------------
(* What the grants are charged.                                                *)

\* What is still to be taken from grant t for a list on its way, a waiting job or a running
\* one, which has not read what the grant has left.
SpentIn(t) == [list \in Seq(Matched) |-> Spent(list, t)]
SpentBy(t) == [job \in JobOf(Seq(Matched)) |-> Spent(job.data, t)]
SpentAt(t) == [work \in DbJobs |-> IF work.step = "read" THEN Spent(work.list, t) ELSE 0]

\* They are numbers.
LEMMA SpentFunctions ==
    ASSUME NEW t
    PROVE  /\ SpentIn(t) \in [Seq(Matched) -> Nat]
           /\ SpentBy(t) \in [JobOf(Seq(Matched)) -> Nat]
           /\ SpentAt(t) \in [DbJobs -> Nat]
<1>1. \A list \in Seq(Matched) : Spent(list, t) \in Nat
  BY SpentType
<1>2. \A job \in JobOf(Seq(Matched)) : job.data \in Seq(Matched)
  BY DEF JobOf
<1>3. \A work \in DbJobs : work.list \in Seq(Matched)
  BY DEF DbJobs
<1> QED
  BY <1>1, <1>2, <1>3 DEF SpentIn, SpentBy, SpentAt

\* What grant t is still to be charged for, of what was sent...
Pending(t) == Weight(SpentIn(t), dbSends) + Weight(SpentBy(t), dbQueue) + Weight(SpentAt(t), dbWork)

\* ... and what it may have been charged for.
Charged(t) == Spent(forwarded, t) - Pending(t)

\* An amount that fits a grant which was charged c at most.
Fits(t, amount, c) ==
    \/ amount = NoLimit /\ Given(t) = NoLimit
    \/ amount \in Int /\ Given(t) \in Nat /\ amount >= Given(t) - c

\* What grants have left, and are about to be written to have.
Amounts ==
    {<<g.tx, g.amount>> : g \in grants}
        \union UNION {{<<u.tx, u.amount>> : u \in InFlight(work.writes)} : work \in InFlight(dbWork)}

\* That is, now and after a step.
LEMMA AmountsLemma ==
    /\ \A p : p \in Amounts <=>
                 \/ \E g \in grants : p = <<g.tx, g.amount>>
                 \/ \E work \in InFlight(dbWork) : \E u \in InFlight(work.writes) : p = <<u.tx, u.amount>>
    /\ \A p : p \in Amounts' <=>
                 \/ \E g \in grants' : p = <<g.tx, g.amount>>
                 \/ \E work \in InFlight(dbWork') : \E u \in InFlight(work.writes) : p = <<u.tx, u.amount>>
BY DEF Amounts

\* Nothing on its way was not sent, and every amount fits.
ChargeInv ==
    /\ \A t \in Hashes : Charged(t) >= 0
    /\ \A p \in Amounts : Fits(p[1], p[2], Charged(p[1]))

\* All of these are numbers, and a list on its way, a waiting job and a running one take
\* what they take.
LEMMA PendingLemma ==
    ASSUME NEW t,
           NEW sends \in Seq(Seq(Matched)), NEW queue \in Seq(JobOf(Seq(Matched))),
           NEW work \in Seq(DbJobs), NEW sent \in Seq(Matched)
    PROVE  /\ Weight(SpentIn(t), sends) \in Nat /\ Weight(SpentBy(t), queue) \in Nat
           /\ Weight(SpentAt(t), work) \in Nat /\ Spent(sent, t) \in Nat
BY SpentFunctions, WeightLemma, SpentType

\* So they are now, and after a step.
LEMMA ChargedLemma ==
    /\ FeegrantTypes =>
          \A t : /\ Weight(SpentIn(t), dbSends) \in Nat /\ Weight(SpentBy(t), dbQueue) \in Nat
                 /\ Weight(SpentAt(t), dbWork) \in Nat /\ Spent(forwarded, t) \in Nat
                 /\ Pending(t) \in Nat /\ Charged(t) \in Int
    /\ FeegrantTypes' =>
          \A t : /\ Weight(SpentIn(t), dbSends') \in Nat /\ Weight(SpentBy(t), dbQueue') \in Nat
                 /\ Weight(SpentAt(t), dbWork') \in Nat /\ Spent(forwarded', t) \in Nat
                 /\ Pending(t)' \in Nat /\ Charged(t)' \in Int
<1>1. \A a, b, c, d \in Nat : a + b + c \in Nat /\ d - (a + b + c) \in Int
  OBVIOUS
<1>2. ASSUME FeegrantTypes
      PROVE  \A t : /\ Weight(SpentIn(t), dbSends) \in Nat /\ Weight(SpentBy(t), dbQueue) \in Nat
                    /\ Weight(SpentAt(t), dbWork) \in Nat /\ Spent(forwarded, t) \in Nat
  BY <1>2, PendingLemma DEF FeegrantTypes, CronTypes, DbTypes
<1>3. ASSUME FeegrantTypes'
      PROVE  \A t : /\ Weight(SpentIn(t), dbSends') \in Nat /\ Weight(SpentBy(t), dbQueue') \in Nat
                    /\ Weight(SpentAt(t), dbWork') \in Nat /\ Spent(forwarded', t) \in Nat
  BY <1>3, PendingLemma DEF FeegrantTypes, CronTypes, DbTypes
<1>4. ASSUME FeegrantTypes PROVE \A t : Pending(t) \in Nat /\ Charged(t) \in Int
  BY <1>1, <1>2, <1>4 DEF Pending, Charged
<1>5. ASSUME FeegrantTypes' PROVE \A t : Pending(t)' \in Nat /\ Charged(t)' \in Int
  BY <1>1, <1>3, <1>5 DEF Pending, Charged
<1> QED
  BY <1>2, <1>3, <1>4, <1>5

\* What fits a grant fits it when it was charged more.
LEMMA FitsLemma ==
    ASSUME NEW t, NEW amount, NEW c \in Int, NEW d \in Int, c <= d, Fits(t, amount, c)
    PROVE  Fits(t, amount, d)
<1>1. \A a \in Int, n \in Nat : a >= n - c => a >= n - d
  OBVIOUS
<1> QED
  BY <1>1 DEF Fits

\* Amounts are kept when no grant is charged less and only fitting ones are new.
LEMMA ChargeKept ==
    ASSUME FeegrantTypes, FeegrantTypes', ChargeInv,
           \A t \in Hashes : Charged(t) <= Charged(t)',
           \A p \in Amounts' : p \in Amounts \/ Fits(p[1], p[2], Charged(p[1])')
    PROVE  ChargeInv'
<1>1. \A t \in Hashes : Charged(t) \in Int /\ Charged(t)' \in Int
  BY ChargedLemma
<1>2. \A t \in Hashes : Charged(t)' >= 0
  <2>1. \A a, b \in Int : a >= 0 /\ a <= b => b >= 0
    OBVIOUS
  <2> QED
    BY <1>1, <2>1 DEF ChargeInv
<1>3. \A p \in Amounts : p[1] \in Hashes
  <2>1. \A g \in grants : g.tx \in Hashes
    BY DEF FeegrantTypes, GrantTypes, GrantSet
  <2>2. \A work \in InFlight(dbWork) : \A u \in InFlight(work.writes) : u.tx \in Hashes
    <3> SUFFICES ASSUME NEW work \in InFlight(dbWork), NEW u \in InFlight(work.writes)
                 PROVE  u.tx \in Hashes
      OBVIOUS
    <3>0. work \in DbJobs
      BY ElementsLemma DEF FeegrantTypes, DbTypes
    <3>1. work.writes \in Seq(Updates)
      BY <3>0 DEF DbJobs
    <3>2. u \in Updates
      BY <3>1, ElementsLemma
    <3> QED
      BY <3>2 DEF Updates
  <2> QED
    BY <2>1, <2>2 DEF Amounts
<1>4. \A p \in Amounts : Fits(p[1], p[2], Charged(p[1])')
  BY <1>1, <1>3, FitsLemma DEF ChargeInv
<1>5. \A p \in Amounts' : Fits(p[1], p[2], Charged(p[1])')
  BY <1>4
<1>6. \A p \in Amounts' : Fits(p[1], p[2], Charged(p[1]))'
  BY <1>5 DEF Fits, Charged, Pending
<1> QED
  BY <1>2, <1>6 DEF ChargeInv

\* What two lists take, and what none takes.
LEMMA SpentOfLemma ==
    ASSUME NEW t
    PROVE  /\ Spent(<<>>, t) = 0
           /\ \A s, u \in Seq(Matched) : Spent(s \o u, t) = Spent(s, t) + Spent(u, t)
<1>1. <<>> \in Seq(Matched) /\ \A s, u \in Seq(Matched) : s \o u \in Seq(Matched)
  BY EmptyLemma, SendLemma
<1>2. \A s \in Seq(Matched) : Spent(s, t) = Weight(Takes(t), s)
  BY TakesLemma
<1>3. /\ Weight(Takes(t), <<>>) = 0
      /\ \A s, u \in Seq(Matched) : Weight(Takes(t), s \o u) = Weight(Takes(t), s) + Weight(Takes(t), u)
  BY TakesLemma, WeightLemma
<1> QED
  BY <1>1, <1>2, <1>3

\* Initially nothing is charged and nothing sent.
LEMMA InitCharge == FeegrantInit => ChargeInv
<1> SUFFICES ASSUME FeegrantInit
             PROVE  ChargeInv
  OBVIOUS
<1>1. grants = {} /\ dbWork = <<>> /\ dbQueue = <<>> /\ dbSends = <<>> /\ forwarded = <<>>
  BY DEF FeegrantInit, HistoryInit, CronInit, DbInit
<1>2. \A t : Charged(t) = 0
  <2>1. \A t : Weight(SpentIn(t), <<>>) = 0 /\ Weight(SpentBy(t), <<>>) = 0 /\ Weight(SpentAt(t), <<>>) = 0
    BY SpentFunctions, WeightLemma
  <2>2. \A t : Spent(<<>>, t) = 0
    BY SpentOfLemma
  <2> QED
    BY <1>1, <2>1, <2>2 DEF Charged, Pending
<1>3. Amounts = {}
  BY <1>1 DEF Amounts, InFlight
<1> QED
  BY <1>2, <1>3 DEF ChargeInv

\* A new grant has what its transaction gives.
LEMMA HistoryCharge ==
    ASSUME FeegrantTypes, FeegrantTypes', ChargeInv, HistoryNext,
           UNCHANGED <<dbQueue, cronOwnVars, dbOwnVars>>
    PROVE  ChargeInv'
<1>1. \A t : Charged(t)' = Charged(t)
  BY DEF cronOwnVars, dbOwnVars, Charged, Pending
<1>2. \A t \in Hashes : Charged(t) \in Int
  BY ChargedLemma
<1>3. \A t \in Hashes : Charged(t) <= Charged(t)'
  BY <1>1, <1>2
<1>4. dbWork' = dbWork
  BY DEF dbOwnVars
<1>5. CASE grants' = grants
  <2>1. Amounts' = Amounts
    BY <1>4, <1>5 DEF Amounts
  <2> QED
    BY <1>3, <2>1, ChargeKept
<1>6. ASSUME NEW i \in DOMAIN historyWork, InsertGrants(i), grants' # grants
      PROVE  ChargeInv'
  <2> DEFINE all == RecordsOfList(historyWork[i].list)
             creates == Selected(all, {j \in DOMAIN all : all[j].action = "create"})
             new == NewRecords(GrantKeys, creates)
  <2>1. historyWork[i].list \in Seq(Hashes)
    BY HistoryWorkLemma DEF FeegrantTypes, HistoryTypes
  <2>2. \A r \in ToSet(new) : r.tx \in Hashes /\ r.amount \in Amount /\ r.amount = Given(r.tx)
    BY <2>1, NewGivenLemma
  <2>3. grants' = grants \union {NewGrant(r) : r \in ToSet(new)}
    BY <1>6 DEF InsertGrants
  <2> HIDE DEF new
  <2>4. \A p \in Amounts' : p \in Amounts \/ \E r \in ToSet(new) : p = <<r.tx, r.amount>>
    BY <1>4, <2>3 DEF Amounts, NewGrant
  <2>5. \A r \in ToSet(new) : Fits(r.tx, r.amount, Charged(r.tx))
    <3> SUFFICES ASSUME NEW r \in ToSet(new)
                 PROVE  Fits(r.tx, r.amount, Charged(r.tx))
      OBVIOUS
    <3>1. r.tx \in Hashes /\ r.amount = Given(r.tx) /\ (r.amount \in Nat \/ r.amount = NoLimit)
      BY <2>2 DEF Amount
    <3>2. Charged(r.tx) \in Int /\ Charged(r.tx) >= 0
      BY <1>2, <3>1 DEF ChargeInv
    <3>3. \A a \in Nat, c \in Int : c >= 0 => a \in Int /\ a >= a - c
      OBVIOUS
    <3> QED
      BY <3>1, <3>2, <3>3 DEF Fits
  <2>6. \A p \in Amounts' : p \in Amounts \/ Fits(p[1], p[2], Charged(p[1])')
    BY <1>1, <2>4, <2>5
  <2> QED
    BY <1>3, <2>6, ChargeKept
<1> QED
  BY <1>5, <1>6 DEF HistoryNext, StartHistoryJob, InsertRecords, CrashHistory

\* What is sent is on its way, until it is lost or waits.
LEMMA CronCharge ==
    ASSUME FeegrantTypes, FeegrantTypes', ChargeInv, CronNext, UNCHANGED dbOwnVars
    PROVE  ChargeInv'
<1>1. grants' = grants /\ dbWork' = dbWork
  BY DEF dbOwnVars, CronNext, FindUnprocessed, MatchOrigins, WriteOrigins, CronFails, DbJobLands, CrashCron
<1>2. Amounts' = Amounts
  BY <1>1 DEF Amounts
<1>3. \A t : /\ Weight(SpentIn(t), dbSends) \in Nat /\ Weight(SpentBy(t), dbQueue) \in Nat
             /\ Weight(SpentAt(t), dbWork) \in Nat /\ Spent(forwarded, t) \in Nat
             /\ Charged(t) \in Int
  BY ChargedLemma
<1>4. /\ dbSends \in Seq(Seq(Matched)) /\ dbQueue \in Seq(JobOf(Seq(Matched)))
      /\ forwarded \in Seq(Matched) /\ bulkUpdate' \in Seq(Matched)
  BY DEF FeegrantTypes, CronTypes
<1>5. ASSUME UNCHANGED <<dbSends, dbQueue, forwarded>> PROVE \A t : Charged(t) <= Charged(t)'
  BY <1>1, <1>3, <1>5 DEF Charged, Pending
<1>6. ASSUME MatchOrigins, NEW t PROVE Charged(t) <= Charged(t)'
  <2> DEFINE bulk == bulkUpdate'
  <2>1. /\ forwarded' = forwarded \o bulk /\ dbQueue' = dbQueue
        /\ dbSends' = Append(dbSends, bulk) \/ (dbSends' = dbSends /\ bulk = <<>>)
    <3> DEFINE matched == Selected(listUnprocess, {i \in DOMAIN listUnprocess : Origins(listUnprocess[i]) # {}})
    <3>1. /\ forwarded' = forwarded \o bulk /\ dbQueue' = dbQueue
          /\ dbSends' = IF matched = <<>> THEN dbSends ELSE Append(dbSends, bulk)
      BY <1>6 DEF MatchOrigins
    <3>2. PICK origin \in [ToSet(matched) -> Hashes] :
              bulk = [i \in DOMAIN matched |-> [rec |-> matched[i], origin |-> origin[matched[i]]]]
      BY <1>6 DEF MatchOrigins
    <3> HIDE DEF matched, bulk
    <3>3. matched = <<>> => bulk = <<>>
      <4>1. matched = <<>> => DOMAIN matched = {}
        OBVIOUS
      <4>2. \A f : DOMAIN matched = {} => [i \in DOMAIN matched |-> f[i]] = <<>>
        OBVIOUS
      <4> QED
        BY <3>2, <4>1, <4>2
    <3> QED
      BY <3>1, <3>3
  <2>2. bulk \in Seq(Matched)
    BY <1>4
  <2> HIDE DEF bulk
  <2>3. Spent(forwarded', t) = Spent(forwarded, t) + Spent(bulk, t) /\ Spent(bulk, t) \in Nat
    BY <1>4, <2>1, <2>2, SpentOfLemma, SpentType
  <2>4. Weight(SpentIn(t), dbSends') = Weight(SpentIn(t), dbSends) + Spent(bulk, t)
    <3>1. SpentIn(t)[bulk] = Spent(bulk, t) /\ (bulk = <<>> => Spent(bulk, t) = 0)
      BY <2>2, SpentOfLemma DEF SpentIn
    <3>2. CASE dbSends' = Append(dbSends, bulk)
      <4> DEFINE Lists == Seq(Matched)
                 f == SpentIn(t)
      <4>1. f \in [Lists -> Nat] /\ dbSends \in Seq(Lists) /\ bulk \in Lists
        BY <1>4, <2>2, SpentFunctions
      <4> HIDE DEF Lists, f
      <4>2. Weight(f, Append(dbSends, bulk)) = Weight(f, dbSends) + f[bulk]
        BY <4>1, WeightLemma
      <4> QED
        BY <3>1, <3>2, <4>2 DEF f
    <3>3. CASE dbSends' = dbSends /\ bulk = <<>>
      BY <1>3, <3>1, <3>3
    <3> QED
      BY <2>1, <3>2, <3>3
  <2>5. \A a, b, c, d, x \in Nat : (d + x) - ((a + x) + b + c) = d - (a + b + c)
    OBVIOUS
  <2>6. Charged(t)' = Charged(t)
    BY <1>1, <1>3, <2>1, <2>3, <2>4, <2>5 DEF Charged, Pending
  <2> QED
    BY <1>3, <2>6
<1>7. ASSUME DbJobLands, NEW t PROVE Charged(t) <= Charged(t)'
  <2> DEFINE Lists == Seq(Matched)
             Jobs == JobOf(Seq(Matched))
             first == Head(dbSends)
             job == NewJob(first)
             f == SpentIn(t)
             g == SpentBy(t)
  <2>1. /\ f \in [Lists -> Nat] /\ g \in [Jobs -> Nat] /\ dbSends \in Seq(Lists)
        /\ dbSends # <<>> /\ dbSends' = Tail(dbSends)
        /\ dbQueue' = Append(dbQueue, job) /\ dbQueue \in Seq(Jobs) /\ forwarded' = forwarded
    BY <1>4, <1>7, SpentFunctions DEF DbJobLands, Add
  <2>2. first \in Lists
    BY <2>1
  <2>3. job \in Jobs /\ g[job] = Spent(first, t) /\ f[first] = Spent(first, t) /\ Spent(first, t) \in Nat
    BY <2>2, SpentType DEF NewJob, JobOf, SpentIn, SpentBy
  <2> HIDE DEF Lists, Jobs, job, f, g
  <2>4. Weight(f, dbSends) = f[first] + Weight(f, dbSends')
    BY <2>1, WeightLemma
  <2>5. Weight(g, dbQueue') = Weight(g, dbQueue) + g[job]
    <3>1. g \in [Jobs -> Nat] /\ dbQueue \in Seq(Jobs) /\ job \in Jobs
      BY <2>1, <2>3
    <3>2. Weight(g, Append(dbQueue, job)) = Weight(g, dbQueue) + g[job]
      BY <3>1, WeightAppend
    <3> QED
      BY <2>1, <3>2
  <2>6. Weight(f, dbSends') \in Nat
    BY ChargedLemma DEF f
  <2> HIDE DEF first
  <2>7. \A a, b, c, d, x \in Nat : d - (a + (b + x) + c) = d - ((x + a) + b + c)
    OBVIOUS
  <2>8. Charged(t)' = Charged(t)
    BY <1>1, <1>3, <2>1, <2>3, <2>4, <2>5, <2>6, <2>7 DEF Charged, Pending, f, g
  <2> QED
    BY <1>3, <2>8
<1>8. ASSUME CrashCron, NEW t PROVE Charged(t) <= Charged(t)'
  <2>1. dbSends' = <<>> /\ dbQueue' = dbQueue /\ forwarded' = forwarded
    BY <1>8 DEF CrashCron
  <2>2. Weight(SpentIn(t), dbSends') = 0
    BY <2>1, SpentFunctions, WeightLemma
  <2>3. \A a, b, c, d \in Nat : d - (a + b + c) <= d - (0 + b + c)
    OBVIOUS
  <2> QED
    BY <1>1, <1>3, <2>1, <2>2, <2>3 DEF Charged, Pending
<1>9. \A t : Charged(t) <= Charged(t)'
  BY <1>5, <1>6, <1>7, <1>8 DEF CronNext, FindUnprocessed, WriteOrigins, CronFails
<1> QED
  BY <1>2, <1>9, ChargeKept

\* What a running job is about to write, and what it takes from a grant, when it goes on as
\* another.
LEMMA DbWorkChanges ==
    ASSUME DbTypes, NEW i \in DOMAIN dbWork, NEW job \in DbJobs,
           dbWork' = [dbWork EXCEPT ![i] = job]
    PROVE  /\ \A work \in InFlight(dbWork') : work \in InFlight(dbWork) \/ work = job
           /\ \A t : /\ Weight(SpentAt(t), RemoveAt(dbWork, i)) \in Nat
                     /\ Weight(SpentAt(t), dbWork) = Weight(SpentAt(t), RemoveAt(dbWork, i)) + SpentAt(t)[dbWork[i]]
                     /\ Weight(SpentAt(t), dbWork') = Weight(SpentAt(t), RemoveAt(dbWork, i)) + SpentAt(t)[job]
<1>1. dbWork \in Seq(DbJobs) /\ RemoveAt(dbWork, i) \in Seq(DbJobs)
  BY DbWorkLemma DEF DbTypes
<1>2. \A work \in InFlight(dbWork') : work \in InFlight(dbWork) \/ work = job
  <2>1. DOMAIN dbWork' = DOMAIN dbWork /\ \A j \in DOMAIN dbWork : dbWork'[j] = dbWork[j] \/ dbWork'[j] = job
    OBVIOUS
  <2> QED
    BY <2>1 DEF InFlight
<1>3. \A t : /\ Weight(SpentAt(t), RemoveAt(dbWork, i)) \in Nat
             /\ Weight(SpentAt(t), dbWork) = Weight(SpentAt(t), RemoveAt(dbWork, i)) + SpentAt(t)[dbWork[i]]
             /\ Weight(SpentAt(t), [dbWork EXCEPT ![i] = job]) = Weight(SpentAt(t), RemoveAt(dbWork, i)) + SpentAt(t)[job]
  <2> SUFFICES ASSUME NEW t
               PROVE  /\ Weight(SpentAt(t), RemoveAt(dbWork, i)) \in Nat
                      /\ Weight(SpentAt(t), dbWork) = Weight(SpentAt(t), RemoveAt(dbWork, i)) + SpentAt(t)[dbWork[i]]
                      /\ Weight(SpentAt(t), [dbWork EXCEPT ![i] = job]) = Weight(SpentAt(t), RemoveAt(dbWork, i)) + SpentAt(t)[job]
    OBVIOUS
  <2> DEFINE f == SpentAt(t)
  <2>1. f \in [DbJobs -> Nat]
    BY SpentFunctions
  <2> HIDE DEF f
  <2>2. Weight(f, RemoveAt(dbWork, i)) \in Nat
    BY <1>1, <2>1, WeightLemma
  <2>3. Weight(f, dbWork) = Weight(f, RemoveAt(dbWork, i)) + f[dbWork[i]]
    BY <1>1, <2>1, WeightLemma
  <2>4. Weight(f, [dbWork EXCEPT ![i] = job]) = Weight(f, RemoveAt(dbWork, i)) + f[job]
    BY <1>1, <2>1, WeightReplace
  <2> QED
    BY <2>2, <2>3, <2>4 DEF f
<1> QED
  BY <1>2, <1>3

\* A job that starts will take what it took while it waited.
LEMMA StartCharge ==
    ASSUME FeegrantTypes, FeegrantTypes', ChargeInv, StartDbJob, UNCHANGED cronOwnVars
    PROVE  ChargeInv'
<1> DEFINE Jobs == JobOf(Seq(Matched))
           first == Head(dbQueue)
           job == [list |-> first.data, step |-> "read", writes |-> <<>>]
<1>1. /\ grants' = grants /\ dbQueue # <<>> /\ dbQueue' = Tail(dbQueue) /\ dbQueue \in Seq(Jobs)
      /\ dbWork' = Append(dbWork, job) /\ dbWork \in Seq(DbJobs)
      /\ dbSends' = dbSends /\ forwarded' = forwarded
  BY DEF StartDbJob, FeegrantTypes, CronTypes, DbTypes, cronOwnVars
<1>2. first \in Jobs
  BY <1>1
<1>3. job \in DbJobs /\ job.writes = <<>> /\ first.data \in Seq(Matched)
  BY <1>2, EmptyLemma DEF JobOf, DbJobs
<1>4. \A t : SpentBy(t)[first] = Spent(first.data, t) /\ SpentAt(t)[job] = Spent(first.data, t)
             /\ Spent(first.data, t) \in Nat
  BY <1>2, <1>3, SpentType DEF SpentBy, SpentAt
<1> HIDE DEF job
<1>5. \A work \in InFlight(dbWork') : work \in InFlight(dbWork) \/ work = job
  <2>1. InFlight(dbWork') = InFlight(dbWork) \union {job}
    BY <1>1, <1>3, SendOneLemma
  <2> QED
    BY <2>1
<1>6. \A p \in Amounts' : p \in Amounts
  <2>1. InFlight(job.writes) = {}
    BY <1>3 DEF InFlight
  <2>2. \A work \in InFlight(dbWork') : \A u \in InFlight(work.writes) : work \in InFlight(dbWork)
    BY <1>5, <2>1
  <2> QED
    BY <1>1, <2>2, AmountsLemma
<1> HIDE DEF Jobs, first
<1>7. ASSUME NEW t PROVE Charged(t) <= Charged(t)'
  <2> DEFINE f == SpentBy(t)
             g == SpentAt(t)
  <2>1. f \in [Jobs -> Nat] /\ g \in [DbJobs -> Nat]
    BY SpentFunctions DEF Jobs
  <2> HIDE DEF f, g
  <2>2. Weight(f, dbQueue) = f[first] + Weight(f, dbQueue')
    BY <1>1, <2>1, WeightLemma DEF first
  <2>3. Weight(g, dbWork') = Weight(g, dbWork) + g[job]
    BY <1>1, <1>3, <2>1, WeightLemma
  <2>4. /\ Weight(SpentIn(t), dbSends) \in Nat /\ Weight(f, dbQueue') \in Nat
        /\ Weight(g, dbWork) \in Nat /\ Spent(forwarded, t) \in Nat /\ Charged(t) \in Int
    BY ChargedLemma DEF f, g
  <2>5. \A a, b, c, d, x \in Nat : d - (a + b + (c + x)) = d - (a + (x + b) + c)
    OBVIOUS
  <2>6. f[first] = Spent(first.data, t) /\ g[job] = Spent(first.data, t) /\ Spent(first.data, t) \in Nat
    BY <1>4 DEF f, g
  <2>7. Charged(t)' = Charged(t)
    BY <1>1, <2>2, <2>3, <2>4, <2>5, <2>6 DEF Charged, Pending, f, g
  <2> QED
    BY <2>4, <2>7
<1> QED
  BY <1>6, <1>7, ChargeKept

\* A job that has read what the grants have left is about to write that less its uses, which
\* they now may have been charged for.
LEMMA ReadCharge ==
    ASSUME FeegrantTypes, FeegrantTypes', ChargeInv, NEW i \in DOMAIN dbWork, ReadGrants(i),
           UNCHANGED cronOwnVars
    PROVE  ChargeInv'
<1> DEFINE list == dbWork[i].list
           read == {g \in grants : g.tx \in OriginsOf(list)}
<1>1. PICK order \in SetToSeqs(read) :
          dbWork' = [dbWork EXCEPT
              ![i].step = "write",
              ![i].writes = [j \in DOMAIN order |-> UpdateOf(order[j], list)]]
  BY DEF ReadGrants
<1> DEFINE writes == [j \in DOMAIN order |-> UpdateOf(order[j], list)]
           job == [dbWork[i] EXCEPT !.step = "write", !.writes = writes]
<1>2. read \subseteq grants /\ IsFiniteSet(read) /\ grants \subseteq GrantSet
  BY FS_Subset DEF FeegrantTypes, GrantTypes
<1> HIDE DEF read
<1>3. order \in Seq(read)
  BY <1>2, OrderLemma
<1>4. \A j \in DOMAIN order : order[j] \in grants
  BY <1>2, <1>3, ElementsLemma
<1>5. /\ dbWork[i] \in DbJobs /\ list \in Seq(Matched) /\ dbWork[i].step = "read"
      /\ grants' = grants /\ dbQueue' = dbQueue /\ dbSends' = dbSends /\ forwarded' = forwarded
  BY DbWorkLemma DEF FeegrantTypes, ReadGrants, cronOwnVars
<1>6. dbWork' = [dbWork EXCEPT ![i] = job] /\ job.writes = writes /\ job.step = "write"
  BY <1>1, <1>5 DEF DbJobs
<1>7. job \in DbJobs
  <2>1. dbWork' \in Seq(DbJobs)
    BY DEF FeegrantTypes, DbTypes
  <2>2. dbWork \in Seq(DbJobs)
    BY DEF FeegrantTypes, DbTypes
  <2>3. DOMAIN dbWork' = DOMAIN dbWork /\ dbWork'[i] = job
    BY <1>6, <2>2
  <2> HIDE DEF job
  <2> QED
    BY <2>1, <2>3, ElementsLemma
<1>8. \A u \in InFlight(job.writes) : \E g \in grants : u = UpdateOf(g, list)
  <2>1. \A j \in DOMAIN order : writes[j] = UpdateOf(order[j], list)
    OBVIOUS
  <2>2. DOMAIN writes = DOMAIN order
    OBVIOUS
  <2> HIDE DEF writes
  <2> QED
    BY <1>4, <1>6, <2>1, <2>2 DEF InFlight
<1>9. \A t : SpentAt(t)[dbWork[i]] = Spent(list, t) /\ SpentAt(t)[job] = 0 /\ Spent(list, t) \in Nat
  <2> HIDE DEF job, list
  <2> QED
    BY <1>5, <1>6, <1>7, SpentType DEF SpentAt, list
<1> HIDE DEF job, list
<1>10. /\ \A work \in InFlight(dbWork') : work \in InFlight(dbWork) \/ work = job
       /\ \A t : /\ Weight(SpentAt(t), RemoveAt(dbWork, i)) \in Nat
                 /\ Weight(SpentAt(t), dbWork) = Weight(SpentAt(t), RemoveAt(dbWork, i)) + SpentAt(t)[dbWork[i]]
                 /\ Weight(SpentAt(t), dbWork') = Weight(SpentAt(t), RemoveAt(dbWork, i)) + SpentAt(t)[job]
  BY <1>6, <1>7, DbWorkChanges DEF FeegrantTypes
<1>11. ASSUME NEW t PROVE Charged(t) \in Int /\ Charged(t)' = Charged(t) + Spent(list, t)
  <2>1. /\ Weight(SpentIn(t), dbSends) \in Nat /\ Weight(SpentBy(t), dbQueue) \in Nat
        /\ Spent(forwarded, t) \in Nat /\ Charged(t) \in Int
    BY ChargedLemma
  <2>2. \A a, b, c, d, x \in Nat : d - (a + b + (c + 0)) = (d - (a + b + (c + x))) + x
    OBVIOUS
  <2>3. /\ Weight(SpentAt(t), RemoveAt(dbWork, i)) \in Nat /\ Spent(list, t) \in Nat
        /\ Weight(SpentAt(t), dbWork) = Weight(SpentAt(t), RemoveAt(dbWork, i)) + Spent(list, t)
        /\ Weight(SpentAt(t), dbWork') = Weight(SpentAt(t), RemoveAt(dbWork, i)) + 0
    BY <1>9, <1>10
  <2> QED
    BY <1>5, <2>1, <2>2, <2>3 DEF Charged, Pending
<1>12. \A t : Charged(t) <= Charged(t)'
  <2>1. \A c \in Int, x \in Nat : c <= c + x
    OBVIOUS
  <2> QED
    BY <1>9, <1>11, <2>1
<1>13. \A g \in grants : /\ UpdateOf(g, list).tx = g.tx
                         /\ Fits(g.tx, UpdateOf(g, list).amount, Charged(g.tx)')
  <2> SUFFICES ASSUME NEW g \in grants
               PROVE  /\ UpdateOf(g, list).tx = g.tx
                      /\ Fits(g.tx, UpdateOf(g, list).amount, Charged(g.tx)')
    OBVIOUS
  <2> DEFINE t == g.tx
             c == Charged(t)
             x == Spent(list, t)
  <2>1. Fits(t, g.amount, c)
    <3>1. <<g.tx, g.amount>> \in Amounts
      BY DEF Amounts
    <3> QED
      BY <3>1 DEF ChargeInv
  <2>2. c \in Int /\ x \in Nat /\ Charged(t)' = c + x
    BY <1>9, <1>11
  <2>3. UpdateOf(g, list).tx = t /\ UpdateOf(g, list).amount = IF g.amount = NoLimit THEN NoLimit ELSE g.amount - x
    BY DEF UpdateOf
  <2> HIDE DEF t, c, x
  <2>4. \A a \in Int, n \in Nat : a >= n - c => a - x \in Int /\ a - x >= n - (c + x)
    BY <2>2
  <2>5. ASSUME g.amount = NoLimit, Given(t) = NoLimit
        PROVE  Fits(t, UpdateOf(g, list).amount, c + x)
    <3>1. UpdateOf(g, list).amount = NoLimit
      BY <2>3, <2>5
    <3> QED
      BY <2>5, <3>1 DEF Fits
  <2>6. ASSUME g.amount \in Int, Given(t) \in Nat, g.amount >= Given(t) - c
        PROVE  Fits(t, UpdateOf(g, list).amount, c + x)
    <3>1. UpdateOf(g, list).amount = g.amount - x
      BY <2>3, <2>6, NoValueAssumption
    <3>2. g.amount - x \in Int /\ g.amount - x >= Given(t) - (c + x)
      BY <2>4, <2>6
    <3> QED
      BY <2>6, <3>1, <3>2 DEF Fits
  <2>7. Fits(t, UpdateOf(g, list).amount, c + x)
    BY <2>1, <2>5, <2>6 DEF Fits
  <2> QED
    BY <2>2, <2>3, <2>7 DEF t
<1>14. \A p \in Amounts' : p \in Amounts \/ \E u \in InFlight(job.writes) : p = <<u.tx, u.amount>>
  BY <1>5, <1>10, AmountsLemma
<1>15. \A p \in Amounts' : p \in Amounts \/ Fits(p[1], p[2], Charged(p[1])')
  <2>1. \A u \in InFlight(job.writes) : Fits(u.tx, u.amount, Charged(u.tx)')
    BY <1>8, <1>13
  <2> QED
    BY <1>14, <2>1
<1> QED
  BY <1>12, <1>15, ChargeKept

\* A process of feegrant.db that ends takes its charges with it.
LEMMA DieCharge ==
    ASSUME FeegrantTypes, FeegrantTypes', ChargeInv, grants' = grants, dbWork' = <<>>,
           dbQueue' = dbQueue, UNCHANGED cronOwnVars
    PROVE  ChargeInv'
<1>1. dbSends' = dbSends /\ forwarded' = forwarded
  BY DEF cronOwnVars
<1>2. ASSUME NEW t PROVE Charged(t) <= Charged(t)'
  <2>1. /\ Weight(SpentIn(t), dbSends) \in Nat /\ Weight(SpentBy(t), dbQueue) \in Nat
        /\ Weight(SpentAt(t), dbWork) \in Nat /\ Spent(forwarded, t) \in Nat
    BY ChargedLemma
  <2>2. Weight(SpentAt(t), dbWork') = 0
    BY SpentFunctions, WeightLemma
  <2>3. \A a, b, c, d \in Nat : d - (a + b + c) <= d - (a + b + 0)
    OBVIOUS
  <2> QED
    BY <1>1, <2>1, <2>2, <2>3 DEF Charged, Pending
<1>3. \A p \in Amounts' : p \in Amounts
  <2>1. InFlight(dbWork') = {}
    BY DEF InFlight
  <2> QED
    BY <2>1, AmountsLemma
<1> QED
  BY <1>2, <1>3, ChargeKept

\* A grant that is written has what was about to be written.
LEMMA WriteCharge ==
    ASSUME FeegrantTypes, FeegrantTypes', ChargeInv, NEW i \in DOMAIN dbWork, WriteGrant(i),
           UNCHANGED cronOwnVars
    PROVE  ChargeInv'
<1> DEFINE next == Head(dbWork[i].writes)
           job == [dbWork[i] EXCEPT !.writes = Tail(dbWork[i].writes)]
<1>1. /\ dbWork[i] \in DbJobs /\ dbWork[i] \in InFlight(dbWork)
      /\ dbWork[i].writes \in Seq(Updates) /\ dbWork[i].writes # <<>>
  BY DbWorkLemma DEF FeegrantTypes, WriteGrant, InFlight
<1>2. /\ InFlight(dbWork[i].writes) = {next} \union InFlight(Tail(dbWork[i].writes))
      /\ next \in Updates /\ Tail(dbWork[i].writes) \in Seq(Updates)
  BY <1>1, ArriveLemma
<1>3. job \in DbJobs /\ job.writes = Tail(dbWork[i].writes) /\ job.step = dbWork[i].step /\ job.list = dbWork[i].list
  BY <1>1, <1>2 DEF DbJobs
<1>4. dbQueue' = dbQueue /\ dbSends' = dbSends /\ forwarded' = forwarded
  BY DEF WriteGrant, cronOwnVars
<1>5. PICK g \in grants :
         /\ g.tx = next.tx
         /\ \/ dbWork' = <<>> /\ grants' = grants
            \/ /\ grants' = (grants \ {g}) \union {[g EXCEPT !.amount = next.amount, !.status = next.status]}
               /\ dbWork' = [dbWork EXCEPT ![i].writes = Tail(@)]
  BY DEF WriteGrant
<1> DEFINE new == [g EXCEPT !.amount = next.amount, !.status = next.status]
<1>6. new.tx = next.tx /\ new.amount = next.amount
  <2>1. g \in GrantSet
    BY DEF FeegrantTypes, GrantTypes
  <2> HIDE DEF next
  <2> QED
    BY <1>5, <2>1 DEF GrantSet
<1>7. CASE dbWork' = <<>> /\ grants' = grants
  BY <1>4, <1>7, DieCharge
<1>8. CASE /\ grants' = (grants \ {g}) \union {new}
           /\ dbWork' = [dbWork EXCEPT ![i].writes = Tail(@)]
  <2>1. dbWork' = [dbWork EXCEPT ![i] = job]
    BY <1>8
  <2>2. \A x \in grants' : x \in grants \/ x = new
    BY <1>8
  <2> HIDE DEF job, new, next
  <2>3. /\ \A work \in InFlight(dbWork') : work \in InFlight(dbWork) \/ work = job
        /\ \A t : /\ Weight(SpentAt(t), RemoveAt(dbWork, i)) \in Nat
                  /\ Weight(SpentAt(t), dbWork) = Weight(SpentAt(t), RemoveAt(dbWork, i)) + SpentAt(t)[dbWork[i]]
                  /\ Weight(SpentAt(t), dbWork') = Weight(SpentAt(t), RemoveAt(dbWork, i)) + SpentAt(t)[job]
    BY <1>3, <2>1, DbWorkChanges DEF FeegrantTypes
  <2>4. \A t : SpentAt(t)[job] = SpentAt(t)[dbWork[i]]
    BY <1>1, <1>3 DEF SpentAt
  <2>5. \A t : Charged(t)' = Charged(t) /\ Charged(t) \in Int
    <3>1. \A t : Weight(SpentAt(t), dbWork') = Weight(SpentAt(t), dbWork)
      BY <2>3, <2>4
    <3> QED
      BY <1>4, <3>1, ChargedLemma DEF Charged, Pending
  <2>6. \A x \in grants' : <<x.tx, x.amount>> \in Amounts
    <3>1. <<next.tx, next.amount>> \in Amounts
      BY <1>1, <1>2, AmountsLemma
    <3>2. \A x \in grants : <<x.tx, x.amount>> \in Amounts
      BY AmountsLemma
    <3> QED
      BY <1>6, <2>2, <3>1, <3>2
  <2>7. \A work \in InFlight(dbWork') : \A u \in InFlight(work.writes) : <<u.tx, u.amount>> \in Amounts
    <3>1. \A u \in InFlight(job.writes) : <<u.tx, u.amount>> \in Amounts
      BY <1>1, <1>2, <1>3, AmountsLemma
    <3>2. \A work \in InFlight(dbWork) : \A u \in InFlight(work.writes) : <<u.tx, u.amount>> \in Amounts
      BY AmountsLemma
    <3> QED
      BY <2>3, <3>1, <3>2
  <2>8. \A p \in Amounts' : p \in Amounts
    BY <2>6, <2>7, AmountsLemma
  <2>9. \A t : Charged(t) <= Charged(t)'
    BY <2>5
  <2> QED
    BY <2>8, <2>9, ChargeKept
<1> QED
  BY <1>5, <1>7, <1>8 DEF new

\* A job that ends has charged what it took.
LEMMA RevokesCharge ==
    ASSUME FeegrantTypes, FeegrantTypes', ChargeInv, NEW i \in DOMAIN dbWork, WriteRevokes(i),
           UNCHANGED cronOwnVars
    PROVE  ChargeInv'
<1>1. /\ dbWork[i] \in DbJobs /\ dbWork[i].step = "write" /\ dbWork \in Seq(DbJobs)
      /\ dbWork' = RemoveAt(dbWork, i)
      /\ dbQueue' = dbQueue /\ dbSends' = dbSends /\ forwarded' = forwarded
  BY DbWorkLemma DEF FeegrantTypes, DbTypes, WriteRevokes, cronOwnVars
<1>2. \A x \in grants' : \E g \in grants : x.tx = g.tx /\ x.amount = g.amount
  <2> DEFINE revokes == {e \in ToSet(dbWork[i].list) : e.rec.action = "revoke" /\ e.rec.status = "Revoked"}
  <2>1. PICK revoker \in [{e.origin : e \in revokes} -> {e.rec.tx : e \in revokes}] :
           grants' = {IF g.tx \in DOMAIN revoker
                      THEN [g EXCEPT !.revokedBy = revoker[g.tx]] ELSE g : g \in grants}
    BY DEF WriteRevokes
  <2>2. \A g \in grants : \A h : LET new == [g EXCEPT !.revokedBy = h]
                                 IN new.tx = g.tx /\ new.amount = g.amount
    <3>1. \A g \in grants : g \in GrantSet
      BY DEF FeegrantTypes, GrantTypes
    <3> QED
      BY <3>1 DEF GrantSet
  <2> HIDE DEF revokes
  <2> SUFFICES ASSUME NEW x \in grants'
               PROVE  \E g \in grants : x.tx = g.tx /\ x.amount = g.amount
    OBVIOUS
  <2>3. PICK g \in grants : x = IF g.tx \in DOMAIN revoker
                               THEN [g EXCEPT !.revokedBy = revoker[g.tx]] ELSE g
    BY <2>1
  <2>4. x.tx = g.tx /\ x.amount = g.amount
    <3>1. CASE g.tx \in DOMAIN revoker
      BY <2>2, <2>3, <3>1
    <3>2. CASE g.tx \notin DOMAIN revoker
      BY <2>3, <3>2
    <3> QED
      BY <3>1, <3>2
  <2> QED
    BY <2>4
<1>3. \A work \in InFlight(dbWork') : work \in InFlight(dbWork)
  BY <1>1, RemoveLemma
<1>4. \A p \in Amounts' : p \in Amounts
  BY <1>2, <1>3, AmountsLemma
<1>5. ASSUME NEW t PROVE Charged(t) <= Charged(t)'
  <2>1. SpentAt(t)[dbWork[i]] = 0
    BY <1>1 DEF SpentAt
  <2>2. Weight(SpentAt(t), dbWork) = Weight(SpentAt(t), dbWork') + 0 /\ Weight(SpentAt(t), dbWork') \in Nat
    <3> DEFINE f == SpentAt(t)
    <3>1. f \in [DbJobs -> Nat] /\ f[dbWork[i]] = 0
      BY <2>1, SpentFunctions
    <3> HIDE DEF f
    <3>2. Weight(f, dbWork) = Weight(f, RemoveAt(dbWork, i)) + f[dbWork[i]]
      BY <1>1, <3>1, WeightLemma
    <3>3. Weight(f, dbWork') \in Nat
      BY ChargedLemma DEF f
    <3> QED
      BY <1>1, <3>1, <3>2, <3>3 DEF f
  <2>3. Charged(t)' = Charged(t) /\ Charged(t) \in Int
    BY <1>1, <2>2, ChargedLemma DEF Charged, Pending
  <2> QED
    BY <2>3
<1> QED
  BY <1>4, <1>5, ChargeKept

\* Every step of the services keeps the invariant.
LEMMA NextCharge ==
    ASSUME FeegrantTypes, FeegrantTypes', ChargeInv, [FeegrantNext]_fgAllVars
    PROVE  ChargeInv'
<1>1. CASE UNCHANGED <<grants, dbQueue, cronOwnVars, dbOwnVars>>
  BY <1>1 DEF cronOwnVars, dbOwnVars, ChargeInv, Charged, Pending, Amounts
<1>2. CASE HistoryNext /\ UNCHANGED <<dbQueue, cronOwnVars, dbOwnVars>>
  BY <1>2, HistoryCharge
<1>3. CASE CronNext /\ UNCHANGED dbOwnVars
  BY <1>3, CronCharge
<1>4. CASE DbNext /\ UNCHANGED cronOwnVars
  <2>1. CASE StartDbJob
    BY <1>4, <2>1, StartCharge
  <2>2. ASSUME NEW i \in DOMAIN dbWork, ReadGrants(i) PROVE ChargeInv'
    BY <1>4, <2>2, ReadCharge
  <2>3. ASSUME NEW i \in DOMAIN dbWork, WriteGrant(i) PROVE ChargeInv'
    BY <1>4, <2>3, WriteCharge
  <2>4. ASSUME NEW i \in DOMAIN dbWork, WriteRevokes(i) PROVE ChargeInv'
    BY <1>4, <2>4, RevokesCharge
  <2>5. CASE CrashDb
    BY <1>4, <2>5, DieCharge DEF CrashDb
  <2> QED
    BY <1>4, <2>1, <2>2, <2>3, <2>4, <2>5 DEF DbNext
<1> QED
  BY <1>1, <1>2, <1>3, <1>4 DEF FeegrantNext, fgAllVars

\* It says of the grants what the property says.
LEMMA ChargeLimit == FeegrantTypes /\ ChargeInv => NeverOvercharged
<1> SUFFICES ASSUME FeegrantTypes, ChargeInv, NEW g \in grants, g.amount # NoLimit
             PROVE  g.amount >= Left(g, forwarded)
  BY DEF NeverOvercharged
<1>1. Fits(g.tx, g.amount, Charged(g.tx))
  <2>1. <<g.tx, g.amount>> \in Amounts
    BY AmountsLemma
  <2> QED
    BY <2>1 DEF ChargeInv
<1>2. g.amount \in Int /\ Given(g.tx) \in Nat /\ g.amount >= Given(g.tx) - Charged(g.tx)
  BY <1>1 DEF Fits
<1>3. Spent(forwarded, g.tx) \in Nat /\ Pending(g.tx) \in Nat
  BY ChargedLemma
<1>4. \A a \in Int, n, s, p \in Nat : a >= n - (s - p) => a >= n - s
  OBVIOUS
<1> QED
  BY <1>2, <1>3, <1>4 DEF Charged, Left

\* A use is charged once, however often its record is sent and wherever the jobs on the way
\* fail; only a cron job that failed has it sent again.
THEOREM FeegrantChargedAsSent == FeegrantSpec => []ChargedAsSent
<1>1. FeegrantInit => OnceInv /\ ChargeInv
  BY InitOnce, InitCharge
<1>2. /\ FeegrantTypes /\ FeegrantTypes' /\ OnceInv /\ ChargeInv
      /\ [FeegrantNext]_fgAllVars
      => OnceInv' /\ ChargeInv'
  BY NextOnce, NextCharge
<1>3. FeegrantTypes /\ OnceInv /\ ChargeInv => ChargedAsSent
  BY OnceLemma, ChargeLimit DEF ChargedAsSent
<1> QED
  BY <1>1, <1>2, <1>3, TypesInvariant, PTL DEF FeegrantSpec
=============================================================================
