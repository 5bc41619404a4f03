------------------------ MODULE RevisionThrottlerProofs ------------------------
(***************************************************************************)
(* Machine-checked proofs about the throttler of a revision, for any pods, *)
(* requests, updates and limits: how the pods are divided among the        *)
(* activators, and what requests find while updates are applied.           *)
(***************************************************************************)
EXTENDS RevisionThrottler, FiniteSetTheorems, FunctionTheorems, SequenceTheorems, TLAPS

------------------------------------------------------------------------------
(* Division. *)

\* What Go's / and % yield for numbers that are not negative.
LEMMA DivMod ==
  ASSUME NEW n \in Nat, NEW m \in Nat \ {0}
  PROVE  /\ n \div m \in Nat /\ n % m \in 0 .. m - 1
         /\ n = m * (n \div m) + (n % m)
  OBVIOUS

\* Quotient and remainder are determined by the number.
LEMMA DivModUnique ==
  ASSUME NEW m \in Nat \ {0}, NEW q1 \in Int, NEW q2 \in Int,
         NEW r1 \in 0 .. m - 1, NEW r2 \in 0 .. m - 1, m * q1 + r1 = m * q2 + r2
  PROVE  q1 = q2 /\ r1 = r2
  OBVIOUS

\* Two factors that are not zero.
LEMMA ProductPositive ==
  ASSUME NEW a \in Nat, NEW b \in Nat
  PROVE  a * b \in Nat /\ (a * b = 0 <=> a = 0 \/ b = 0)
  OBVIOUS

------------------------------------------------------------------------------
(* Sorted: the activators agree on the order of the pods. *)

Rank(S, a) == Cardinality({b \in S : b < a})

\* The rank of an address is its index in the sorted list.
LEMMA RankBijective ==
  ASSUME NEW S \in SUBSET Nat, IsFiniteSet(S)
  PROVE  /\ Cardinality(S) \in Nat
         /\ \A a \in S : Rank(S, a) \in 0 .. Cardinality(S) - 1
         /\ \A a, b \in S : Rank(S, a) = Rank(S, b) => a = b
         /\ \A i \in 0 .. Cardinality(S) - 1 : \E a \in S : Rank(S, a) = i
<1> DEFINE n == Cardinality(S)
           below(a) == {b \in S : b < a}
           rank == [a \in S |-> Rank(S, a)]
<1>1. n \in Nat
  BY FS_CardinalityType
<1>2. ASSUME NEW B \in SUBSET S, NEW A \in SUBSET B, A # B
      PROVE  Cardinality(A) \in Nat /\ Cardinality(B) \in Nat /\ Cardinality(A) < Cardinality(B)
  <2>1. IsFiniteSet(B) /\ IsFiniteSet(A)
    BY FS_Subset
  <2>2. Cardinality(A) <= Cardinality(B) /\ Cardinality(B) # Cardinality(A)
    BY <1>2, <2>1, FS_Subset
  <2>3. Cardinality(A) \in Nat /\ Cardinality(B) \in Nat
    BY <2>1, FS_CardinalityType
  <2>4. QED BY <2>2, <2>3
<1>3. ASSUME NEW a \in S
      PROVE  Rank(S, a) \in 0 .. n - 1
  <2> DEFINE A == below(a)
  <2>1. A \in SUBSET S /\ A # S
    OBVIOUS
  <2>2. Rank(S, a) = Cardinality(A)
    BY DEF Rank
  <2> HIDE DEF A
  <2>3. Cardinality(A) \in Nat /\ Cardinality(A) < Cardinality(S)
    BY <1>2, <2>1
  <2>4. QED BY <1>1, <2>2, <2>3
<1>4. \A a, b \in S : Rank(S, a) = Rank(S, b) => a = b
  <2>1. ASSUME NEW a \in S, NEW b \in S, a < b
        PROVE  Rank(S, a) < Rank(S, b)
    <3> DEFINE A == below(a)
               B == below(b)
    <3>1. A \in SUBSET B /\ B \in SUBSET S
      <4>1. ASSUME NEW x \in A PROVE x \in B
        <5>1. x \in Nat /\ a \in Nat /\ b \in Nat /\ x < a
          OBVIOUS
        <5>2. QED BY <2>1, <5>1
      <4>2. QED BY <4>1
    <3>2. a \in B /\ a \notin A
      BY <2>1
    <3>3. Rank(S, a) = Cardinality(A) /\ Rank(S, b) = Cardinality(B)
      BY DEF Rank
    <3> HIDE DEF A, B
    <3>4. A # B
      BY <3>2
    <3>5. Cardinality(A) < Cardinality(B)
      BY <1>2, <3>1, <3>4
    <3>6. QED BY <3>3, <3>5
  <2>2. ASSUME NEW a \in S, NEW b \in S, Rank(S, a) = Rank(S, b), a # b PROVE FALSE
    <3>1. a < b \/ b < a
      BY <2>2
    <3>2. Rank(S, a) \in Int /\ Rank(S, b) \in Int
      BY <1>3
    <3>3. QED BY <2>1, <2>2, <3>1, <3>2
  <2>3. QED BY <2>2
<1>5. rank \in Injection(S, 0 .. n - 1)
  BY <1>3, <1>4 DEF Injection, IsInjective
<1>6. IsFiniteSet(0 .. n - 1) /\ Cardinality(0 .. n - 1) = n
  <2> HIDE DEF n
  <2>1. 0 \in Int /\ n - 1 \in Int
    BY <1>1
  <2>2. /\ IsFiniteSet(0 .. n - 1)
        /\ Cardinality(0 .. n - 1) = IF 0 > n - 1 THEN 0 ELSE n - 1 - 0 + 1
    BY <2>1, FS_Interval
  <2>3. QED BY <1>1, <2>2
<1>7. rank \in Surjection(S, 0 .. n - 1)
  <2> DEFINE T == 0 .. n - 1
  <2>1. rank \in Injection(S, T) /\ IsFiniteSet(T) /\ Cardinality(T) = Cardinality(S)
    BY <1>5, <1>6
  <2> HIDE DEF T, rank
  <2>2. rank \in Surjection(S, T)
    BY <2>1, FS_Injection
  <2>3. QED BY <2>2 DEF T
<1>8. \A i \in 0 .. n - 1 : \E a \in S : Rank(S, a) = i
  BY <1>7 DEF Surjection
<1>9. QED BY <1>1, <1>3, <1>4, <1>8

\* Sorted lists every address once.
LEMMA SortedBijective ==
  ASSUME NEW S \in SUBSET Nat, IsFiniteSet(S)
  PROVE  /\ Cardinality(S) \in Nat
         /\ Sorted(S) \in Seq(S) /\ Len(Sorted(S)) = Cardinality(S)
         /\ \A a \in S : \E i \in 1 .. Cardinality(S) : Sorted(S)[i] = a
         /\ \A i, j \in 1 .. Cardinality(S) : Sorted(S)[i] = Sorted(S)[j] => i = j
<1> DEFINE n == Cardinality(S)
<1>1. n \in Nat
  BY RankBijective
<1>2. Sorted(S) = [i \in 1 .. n |-> CHOOSE a \in S : Rank(S, a) = i - 1]
  BY DEF Sorted, Rank
<1>3. ASSUME NEW i \in 1 .. n
      PROVE  Sorted(S)[i] \in S /\ Rank(S, Sorted(S)[i]) = i - 1
  <2>1. i - 1 \in 0 .. n - 1
    BY <1>1
  <2>2. \E a \in S : Rank(S, a) = i - 1
    BY <2>1, RankBijective
  <2>3. QED BY <1>2, <2>2
<1>4. Sorted(S) \in [1 .. n -> S]
  BY <1>2, <1>3
<1>5. Sorted(S) \in Seq(S) /\ Len(Sorted(S)) = n
  BY <1>1, <1>4, SeqDef, LenProperties
<1>6. ASSUME NEW a \in S
      PROVE  \E i \in 1 .. n : Sorted(S)[i] = a
  <2>1. Rank(S, a) \in 0 .. n - 1
    BY RankBijective
  <2>2. PICK i \in 1 .. n : i = Rank(S, a) + 1
    BY <1>1, <2>1
  <2>3. Sorted(S)[i] \in S /\ Rank(S, Sorted(S)[i]) = Rank(S, a)
    BY <1>3, <2>1, <2>2
  <2>4. \A b, c \in S : Rank(S, b) = Rank(S, c) => b = c
    BY RankBijective
  <2>5. QED BY <2>3, <2>4
<1>7. ASSUME NEW i \in 1 .. n, NEW j \in 1 .. n, Sorted(S)[i] = Sorted(S)[j]
      PROVE  i = j
  <2>1. i - 1 = j - 1
    BY <1>3, <1>7
  <2>2. QED BY <1>1, <2>1
<1>8. QED BY <1>1, <1>5, <1>6, <1>7

------------------------------------------------------------------------------
(* assignSlice. *)

\* The 1-based positions, among n pods, of the slice of activator i of na.
Positions(n, i, na) ==
  IF n <= 1 \/ na = 1 THEN 1 .. n
  ELSE IF na > n THEN {(i % n) + 1}
  ELSE {k \in 1 .. n : \/ k \in i * (n \div na) + 1 .. i * (n \div na) + (n \div na)
                       \/ i < n % na /\ k = n - (n % na) + i + 1}

\* The whole part of the pods is divided evenly, within the list.
LEMMA WholePart ==
  ASSUME NEW n \in Nat, NEW na \in Nat \ {0}, NEW i \in 0 .. na - 1
  PROVE  /\ i * (n \div na) \in Nat
         /\ i * (n \div na) + (n \div na) <= n - (n % na)
<1>1. n \div na \in Nat /\ n = na * (n \div na) + (n % na) /\ n % na \in 0 .. na - 1
  BY DivMod
<1> DEFINE q == n \div na
<1>2. q \in Nat /\ n - (n % na) = na * q
  BY <1>1
<1> HIDE DEF q
<1>3. i * q \in Nat /\ i * q + q <= na * q
  BY <1>2
<1>4. QED BY <1>2, <1>3 DEF q

\* assignSlice takes the trackers at those positions.
LEMMA SliceAtPositions ==
  ASSUME NEW S, NEW s \in Seq(S), NEW na \in Nat \ {0}, NEW i \in 0 .. na - 1
  PROVE  ToSet(assignSlice(s, i, na)) = {s[k] : k \in Positions(Len(s), i, na)}
<1> DEFINE n == Len(s)
<1>0. n \in Nat /\ DOMAIN s = 1 .. n /\ \A k \in 1 .. n : s[k] \in S
  BY LenProperties, ElementOfSeq
<1>1. CASE n <= 1 \/ na = 1
  BY <1>0, <1>1 DEF assignSlice, Positions, ToSet
<1>2. CASE ~(n <= 1) /\ na # 1 /\ na > n
  <2> DEFINE b == i % n
             t == SubSeq(s, b + 1, b + 1)
  <2>1. b \in 0 .. n - 1
    BY <1>0, <1>2
  <2>2. assignSlice(s, i, na) = t \o <<>>
    BY <1>0, <1>2 DEF assignSlice, pickIndices
  <2> HIDE DEF b
  <2>3. t \in Seq(S) /\ Len(t) = 1 /\ t[1] = s[b + 1]
    <3>1. \A k \in b + 1 .. b + 1 : s[k] \in S
      BY <1>0, <2>1
    <3>2. /\ t \in Seq(S)
          /\ Len(t) = IF b + 1 <= b + 1 THEN b + 1 - (b + 1) + 1 ELSE 0
          /\ \A k \in 1 .. b + 1 - (b + 1) + 1 : t[k] = s[b + 1 + k - 1]
      BY <2>1, <3>1, SubSeqProperties
    <3>3. QED BY <2>1, <3>2
  <2> HIDE DEF t
  <2>4. assignSlice(s, i, na) = t
    BY <2>2, <2>3, ConcatEmptySeq
  <2>5. ToSet(t) = {s[b + 1]}
    BY <2>3, LenProperties DEF ToSet
  <2>6. Positions(n, i, na) = {b + 1}
    BY <1>2 DEF Positions, b
  <2>7. QED BY <2>4, <2>5, <2>6
<1>3. CASE ~(n <= 1) /\ na # 1 /\ ~(na > n)
  <2> DEFINE q == n \div na
             m == n % na
             b == i * q
             t == SubSeq(s, b + 1, b + q)
             u == IF m > i THEN <<s[n - m + i + 1]>> ELSE <<>>
             P == Positions(n, i, na)
  <2>1. q \in Nat /\ m \in 0 .. na - 1 /\ b \in Nat /\ b + q <= n - m /\ n = na * q + m
    BY <1>0, DivMod, WholePart
  <2>2. assignSlice(s, i, na) = t \o u
    <3>1. pickIndices(n, i, na) = [beginIndex |-> b, endIndex |-> b + q, remnants |-> m]
      BY <1>3 DEF pickIndices
    <3>2. i # -1
      OBVIOUS
    <3> HIDE DEF b, q, m
    <3>3. assignSlice(s, i, na) =
            SubSeq(s, pickIndices(n, i, na).beginIndex + 1, pickIndices(n, i, na).endIndex) \o
            IF pickIndices(n, i, na).remnants > i
            THEN <<s[n - pickIndices(n, i, na).remnants + i + 1]>> ELSE <<>>
      BY <1>3, <3>2 DEF assignSlice
    <3>4. /\ pickIndices(n, i, na).beginIndex = b
          /\ pickIndices(n, i, na).endIndex = b + q
          /\ pickIndices(n, i, na).remnants = m
      BY <3>1
    <3> HIDE DEF n
    <3>5. assignSlice(s, i, na) =
            SubSeq(s, b + 1, b + q) \o IF m > i THEN <<s[n - m + i + 1]>> ELSE <<>>
      BY <3>3, <3>4
    <3>6. QED BY <3>5
  <2>3. P = {k \in 1 .. n : k \in b + 1 .. b + q \/ (i < m /\ k = n - m + i + 1)}
    BY <1>3 DEF Positions
  <2> HIDE DEF q, m, b, P
  <2>4. t \in Seq(S) /\ Len(t) = q /\ \A k \in 1 .. q : t[k] = s[b + k]
    <3>1. \A k \in b + 1 .. b + q : s[k] \in S
      BY <1>0, <2>1
    <3>2. /\ t \in Seq(S)
          /\ Len(t) = IF b + 1 <= b + q THEN b + q - (b + 1) + 1 ELSE 0
          /\ \A k \in 1 .. b + q - (b + 1) + 1 : t[k] = s[b + 1 + k - 1]
      BY <2>1, <3>1, SubSeqProperties
    <3> HIDE DEF t
    <3>3. b + q - (b + 1) + 1 = q /\ (IF b + 1 <= b + q THEN q ELSE 0) = q
      BY <2>1
    <3>4. \A k \in 1 .. q : t[k] = s[b + 1 + k - 1] /\ b + 1 + k - 1 = b + k
      BY <2>1, <3>2, <3>3
    <3>5. QED BY <3>2, <3>3, <3>4
  <2>5. m > i => n - m + i + 1 \in 1 .. n
    BY <1>0, <2>1
  <2>6. u \in Seq(S) /\ Len(u) = (IF m > i THEN 1 ELSE 0) /\ (m > i => u[1] = s[n - m + i + 1])
    BY <1>0, <2>5
  <2> HIDE DEF t, u
  <2>7. /\ Len(t \o u) = q + Len(u) /\ DOMAIN (t \o u) = 1 .. q + Len(u)
        /\ \A k \in 1 .. q + Len(u) : (t \o u)[k] = IF k <= q THEN t[k] ELSE u[k - q]
    <3>1. t \o u \in Seq(S)
      BY <2>4, <2>6, ConcatProperties
    <3>2. /\ Len(t \o u) = Len(t) + Len(u)
          /\ \A k \in 1 .. Len(t) + Len(u) :
               (t \o u)[k] = IF k <= Len(t) THEN t[k] ELSE u[k - Len(t)]
      BY <2>4, <2>6, ConcatProperties
    <3>3. QED BY <2>4, <3>1, <3>2, LenProperties
  <2>8. ASSUME NEW k \in 1 .. q + Len(u) PROVE \E p \in P : (t \o u)[k] = s[p]
    <3>1. CASE k <= q
      <4>1. b + k \in P /\ (t \o u)[k] = s[b + k]
        BY <1>0, <2>1, <2>3, <2>4, <2>6, <2>7, <3>1
      <4>2. QED BY <4>1
    <3>2. CASE k > q
      <4>1. m > i /\ k = q + 1
        BY <2>1, <2>6, <3>2
      <4>2. n - m + i + 1 \in P /\ (t \o u)[k] = s[n - m + i + 1]
        BY <2>1, <2>3, <2>5, <2>6, <2>7, <4>1
      <4>3. QED BY <4>2
    <3>3. k <= q \/ k > q
      <4>1. Len(u) \in Int
        BY <2>6
      <4>2. k \in Int /\ q \in Int
        BY <2>1, <4>1
      <4>3. QED BY <4>2
    <3>4. QED BY <3>1, <3>2, <3>3
  <2>9. ASSUME NEW p \in P PROVE \E k \in 1 .. q + Len(u) : (t \o u)[k] = s[p]
    <3>1. CASE p \in b + 1 .. b + q
      <4>1. PICK k \in 1 .. q : p = b + k
        BY <2>1, <3>1
      <4>2. k \in 1 .. q + Len(u) /\ (t \o u)[k] = s[p]
        BY <2>1, <2>4, <2>6, <2>7, <4>1
      <4>3. QED BY <4>2
    <3>2. CASE i < m /\ p = n - m + i + 1
      <4>1. Len(u) = 1 /\ u[1] = s[p]
        BY <2>1, <2>6, <3>2
      <4>2. q + 1 \in 1 .. q + Len(u) /\ ~(q + 1 <= q) /\ q + 1 - q = 1
        BY <2>1, <4>1
      <4>3. PICK k \in 1 .. q + Len(u) : k = q + 1
        BY <4>2
      <4>4. (t \o u)[k] = IF k <= q THEN t[k] ELSE u[k - q]
        BY <2>7
      <4>5. (t \o u)[k] = s[p]
        BY <2>1, <4>1, <4>3, <4>4
      <4>6. QED BY <4>5
    <3>3. QED BY <2>3, <3>1, <3>2
  <2>10. ToSet(t \o u) = {(t \o u)[k] : k \in 1 .. q + Len(u)}
    BY <2>7 DEF ToSet
  <2>11. ToSet(t \o u) = {s[p] : p \in P}
    <3> DEFINE w == t \o u
               K == 1 .. q + Len(u)
    <3>1. /\ \A k \in K : \E p \in P : w[k] = s[p]
          /\ \A p \in P : \E k \in K : w[k] = s[p]
          /\ ToSet(w) = {w[k] : k \in K}
      BY <2>8, <2>9, <2>10
    <3> HIDE DEF w, K
    <3>2. ASSUME NEW x PROVE x \in ToSet(w) <=> x \in {s[p] : p \in P}
      BY <3>1
    <3>3. ToSet(w) = {s[p] : p \in P}
      BY <3>2
    <3>4. QED BY <3>3 DEF w
  <2>12. QED BY <2>2, <2>11 DEF P
<1>4. QED BY <1>1, <1>2, <1>3

\* No slice is empty while there are pods.
LEMMA PositionsExist ==
  ASSUME NEW n \in Nat \ {0}, NEW na \in Nat \ {0}, NEW i \in 0 .. na - 1
  PROVE  \E k \in 1 .. n : k \in Positions(n, i, na)
<1>1. CASE n <= 1 \/ na = 1
  BY <1>1 DEF Positions
<1>2. CASE ~(n <= 1 \/ na = 1) /\ na > n
  <2>1. i % n \in 0 .. n - 1
    BY DivMod
  <2>2. (i % n) + 1 \in 1 .. n
    BY <2>1
  <2>3. QED BY <1>2, <2>2 DEF Positions
<1>3. CASE ~(n <= 1 \/ na = 1) /\ ~(na > n)
  <2> DEFINE q == n \div na
             b == i * q
  <2>1. q \in Nat /\ n = na * q + (n % na) /\ n % na \in 0 .. na - 1
    BY DivMod
  <2>2. b \in Nat /\ b + q <= n - (n % na)
    BY WholePart
  <2>3. Positions(n, i, na) =
          {k \in 1 .. n : k \in b + 1 .. b + q \/ (i < n % na /\ k = n - (n % na) + i + 1)}
    BY <1>3 DEF Positions
  <2>4. q # 0
    <3>1. q = 0 => n = n % na
      BY <2>1
    <3>2. QED BY <1>3, <2>1, <3>1
  <2> HIDE DEF q, b
  <2>5. b + 1 \in 1 .. n /\ b + 1 \in b + 1 .. b + q
    BY <2>1, <2>2, <2>4
  <2>6. QED BY <2>3, <2>5
<1>4. QED BY <1>1, <1>2, <1>3

\* Every pod is in a slice; in one alone if there are enough of them.
LEMMA PositionsCover ==
  ASSUME NEW n \in Nat, NEW na \in Nat \ {0}, NEW k \in 1 .. n
  PROVE  \E i \in 0 .. na - 1 : k \in Positions(n, i, na)
<1>1. CASE n <= 1 \/ na = 1
  <2>1. 0 \in 0 .. na - 1 /\ k \in Positions(n, 0, na)
    BY <1>1 DEF Positions
  <2>2. QED BY <2>1
<1>2. CASE ~(n <= 1 \/ na = 1) /\ na > n
  <2>1. k - 1 \in 0 .. na - 1 /\ (k - 1) % n = k - 1
    BY <1>2
  <2>2. Positions(n, k - 1, na) = {((k - 1) % n) + 1}
    BY <1>2 DEF Positions
  <2>3. k \in Positions(n, k - 1, na)
    BY <2>1, <2>2
  <2>4. QED BY <2>1, <2>3
<1>3. CASE ~(n <= 1 \/ na = 1) /\ ~(na > n)
  <2> DEFINE q == n \div na
             m == n % na
  <2>1. q \in Nat /\ n = na * q + m /\ m \in 0 .. na - 1
    BY DivMod
  <2>2. q # 0
    <3>1. q = 0 => n = m
      BY <2>1
    <3>2. QED BY <1>3, <2>1, <3>1
  <2>3. ASSUME NEW i \in 0 .. na - 1
        PROVE  Positions(n, i, na) =
                 {h \in 1 .. n : h \in i * q + 1 .. i * q + q \/ (i < m /\ h = n - m + i + 1)}
    BY <1>3 DEF Positions
  <2> HIDE DEF q, m
  <2>4. CASE k <= n - m
    <3> DEFINE i == (k - 1) \div q
               r == (k - 1) % q
    <3>1. i \in Nat /\ r \in 0 .. q - 1 /\ k - 1 = q * i + r
      <4>1. k - 1 \in Nat /\ q \in Nat \ {0}
        BY <2>1, <2>2
      <4>2. QED BY <4>1, DivMod
    <3> HIDE DEF i, r
    <3>2. i < na
      <4>1. q * i < q * na
        BY <2>1, <2>4, <3>1
      <4>2. QED BY <2>1, <2>2, <3>1, <4>1
    <3>3. k \in i * q + 1 .. i * q + q
      BY <2>1, <3>1
    <3>4. i \in 0 .. na - 1 /\ k \in Positions(n, i, na)
      BY <2>3, <3>1, <3>2, <3>3
    <3>5. QED BY <3>4
  <2>5. CASE k > n - m
    <3>1. PICK i \in 0 .. na - 1 : k = n - m + i + 1 /\ i < m
      BY <2>1, <2>5
    <3>2. k \in Positions(n, i, na)
      BY <2>3, <3>1
    <3>3. QED BY <3>2
  <2>6. QED BY <2>1, <2>4, <2>5
<1>4. QED BY <1>1, <1>2, <1>3

\* throttler.go:364-382: while there are pods enough the activators' positions do not overlap.
LEMMA PositionsDisjoint ==
  ASSUME NEW n \in Nat, n > 1, NEW na \in Nat \ {0}, na <= n, NEW k \in 1 .. n,
         NEW i \in 0 .. na - 1, NEW j \in 0 .. na - 1,
         k \in Positions(n, i, na), k \in Positions(n, j, na)
  PROVE  i = j
<1>1. CASE na = 1
  BY <1>1
<1>2. CASE na # 1
  <2> DEFINE q == n \div na
             m == n % na
  <2>1. q \in Nat /\ n = na * q + m /\ m \in 0 .. na - 1
    BY DivMod
  <2>2. i * q + q <= n - m /\ j * q + q <= n - m /\ i * q \in Nat /\ j * q \in Nat
    BY WholePart
  <2>3. /\ k \in i * q + 1 .. i * q + q \/ (i < m /\ k = n - m + i + 1)
        /\ k \in j * q + 1 .. j * q + q \/ (j < m /\ k = n - m + j + 1)
    BY <1>2 DEF Positions
  <2> HIDE DEF q, m
  <2>4. CASE k \in i * q + 1 .. i * q + q /\ k \in j * q + 1 .. j * q + q
    <3>1. q # 0
      BY <2>1, <2>2, <2>4
    <3>2. k - 1 - i * q \in 0 .. q - 1 /\ k - 1 - j * q \in 0 .. q - 1
      BY <2>1, <2>2, <2>4
    <3>3. q * i + (k - 1 - i * q) = q * j + (k - 1 - j * q)
      BY <2>1, <2>2
    <3>4. QED BY <2>1, <3>1, <3>2, <3>3, DivModUnique
  <2>5. CASE k = n - m + i + 1 /\ k = n - m + j + 1
    BY <2>1, <2>5
  <2>6. CASE ~(k \in i * q + 1 .. i * q + q /\ k \in j * q + 1 .. j * q + q)
             /\ ~(k = n - m + i + 1 /\ k = n - m + j + 1)
    BY <2>1, <2>2, <2>3, <2>6
  <2>7. QED BY <2>4, <2>5, <2>6
<1>3. QED BY <1>1, <1>2

\* A one-to-one image is as large as what it is the image of.
LEMMA ImageCardinality ==
  ASSUME NEW K, IsFiniteSet(K), NEW f, \A k, l \in K : f[k] = f[l] => k = l
  PROVE  IsFiniteSet({f[k] : k \in K}) /\ Cardinality({f[k] : k \in K}) = Cardinality(K)
<1> DEFINE T == {f[k] : k \in K}
           g == [k \in K |-> f[k]]
<1>1. g \in [K -> T] /\ \A t \in T : \E k \in K : g[k] = t
  OBVIOUS
<1>2. g \in Surjection(K, T)
  BY <1>1 DEF Surjection
<1>3. g \in Injection(K, T)
  BY <1>1 DEF Injection, IsInjective
<1> HIDE DEF T, g
<1>4. IsFiniteSet(T) /\ Cardinality(T) = Cardinality(K)
  BY <1>2, <1>3, FS_Surjection
<1>5. QED BY <1>4 DEF T

\* What a one-to-one function maps into a finite set is at most as large.
LEMMA InjectionCardinality ==
  ASSUME NEW A, NEW B, IsFiniteSet(B), NEW f, \A a \in A : f[a] \in B,
         \A a, b \in A : f[a] = f[b] => a = b
  PROVE  IsFiniteSet(A) /\ Cardinality(A) <= Cardinality(B)
<1> DEFINE g == [a \in A |-> f[a]]
<1>1. g \in Injection(A, B)
  BY DEF Injection, IsInjective
<1> HIDE DEF g
<1>2. QED BY <1>1, FS_Injection

\* The slices have the whole part each, and one pod more or not.
LEMMA PositionsEven ==
  ASSUME NEW n \in Nat, n > 1, NEW na \in Nat \ {0}, NEW i \in 0 .. na - 1
  PROVE  /\ IsFiniteSet(Positions(n, i, na))
         /\ na = 1 => Cardinality(Positions(n, i, na)) = n
         /\ na > n => Cardinality(Positions(n, i, na)) = 1
         /\ na # 1 /\ na <= n => Cardinality(Positions(n, i, na)) \in {n \div na, (n \div na) + 1}
<1>1. CASE na = 1
  <2>1. Positions(n, i, na) = 1 .. n
    BY <1>1 DEF Positions
  <2>2. IsFiniteSet(1 .. n) /\ Cardinality(1 .. n) = IF 1 > n THEN 0 ELSE n - 1 + 1
    BY FS_Interval
  <2>3. QED BY <1>1, <2>1, <2>2
<1>2. CASE na # 1 /\ na > n
  <2>1. Positions(n, i, na) = {(i % n) + 1}
    BY <1>2 DEF Positions
  <2>2. IsFiniteSet({(i % n) + 1}) /\ Cardinality({(i % n) + 1}) = 1
    BY FS_Singleton
  <2>3. QED BY <1>2, <2>1, <2>2
<1>3. CASE na # 1 /\ na <= n
  <2> DEFINE q == n \div na
             m == n % na
             W == i * q + 1 .. i * q + q
             P == Positions(n, i, na)
  <2>1. q \in Nat /\ n = na * q + m /\ m \in 0 .. na - 1
    BY DivMod
  <2>2. i * q \in Nat /\ i * q + q <= n - m
    BY WholePart
  <2>3. P = {k \in 1 .. n : k \in W \/ (i < m /\ k = n - m + i + 1)}
    BY <1>3 DEF Positions
  <2> HIDE DEF q, m, P
  <2>4. IsFiniteSet(W) /\ Cardinality(W) = q
    <3>1. /\ IsFiniteSet(W)
          /\ Cardinality(W) = IF i * q + 1 > i * q + q THEN 0 ELSE i * q + q - (i * q + 1) + 1
      BY <2>1, <2>2, FS_Interval
    <3>2. QED BY <2>1, <2>2, <3>1
  <2>5. P = W \/ P = W \cup {n - m + i + 1}
    <3>1. W \subseteq 1 .. n
      BY <2>1, <2>2
    <3>2. CASE i < m
      <4>1. n - m + i + 1 \in 1 .. n
        BY <2>1, <3>2
      <4>2. P = W \cup {n - m + i + 1}
        BY <2>3, <3>1, <3>2, <4>1
      <4>3. QED BY <4>2
    <3>3. CASE ~(i < m)
      BY <2>3, <3>1, <3>3
    <3>4. QED BY <3>2, <3>3
  <2> HIDE DEF W
  <2>6. IsFiniteSet(P) /\ Cardinality(P) \in {q, q + 1}
    <3> DEFINE e == n - m + i + 1
    <3>1. P = W \/ P = W \cup {e}
      BY <2>5
    <3> HIDE DEF e
    <3>2. IsFiniteSet(W \cup {e}) /\ Cardinality(W \cup {e}) = IF e \in W THEN q ELSE q + 1
      BY <2>4, FS_AddElement
    <3>3. QED BY <2>4, <3>1, <3>2
  <2>7. QED BY <1>3, <2>6 DEF P, q
<1>4. QED BY <1>1, <1>2, <1>3

\* With more activators than pods, no pod has two activators more than another.
LEMMA SharersEven ==
  ASSUME NEW n \in Nat \ {0}, NEW na \in Nat \ {0}, NEW c \in 0 .. n - 1, NEW d \in 0 .. n - 1
  PROVE  LET C == {i \in 0 .. na - 1 : i % n = c}
             D == {i \in 0 .. na - 1 : i % n = d}
         IN  Cardinality(C) <= Cardinality(D) + 1
<1> DEFINE C == {i \in 0 .. na - 1 : i % n = c}
           D == {i \in 0 .. na - 1 : i % n = d}
           f == [i \in Int |-> i - c + d - n]
<1>1. ASSUME NEW i \in C \ {c}
      PROVE  f[i] \in D
  <2> DEFINE t == i \div n
  <2>1. i \in 0 .. na - 1 /\ i % n = c
    OBVIOUS
  <2>2. t \in Nat /\ i = n * t + c
    BY <2>1, DivMod
  <2> HIDE DEF t
  <2>3. t # 0
    BY <2>1, <2>2
  <2> DEFINE u == t - 1
  <2>4. u \in Nat /\ n * t = n * u + n
    BY <2>2, <2>3
  <2> HIDE DEF u
  <2>5. f[i] = n * u + d /\ f[i] \in 0 .. na - 1
    BY <2>1, <2>2, <2>4
  <2>6. (n * u + d) % n = d
    <3>1. n * u + d \in Nat
      BY <2>4
    <3> DEFINE v == (n * u + d) \div n
               w == (n * u + d) % n
    <3>2. v \in Nat /\ w \in 0 .. n - 1 /\ n * u + d = n * v + w
      BY <3>1, DivMod
    <3> HIDE DEF v, w
    <3>3. u \in Int /\ v \in Int
      BY <2>4, <3>2
    <3>4. u = v /\ d = w
      BY <3>2, <3>3, DivModUnique
    <3>5. QED BY <3>4 DEF w
  <2>7. QED BY <2>5, <2>6
<1>2. IsFiniteSet(C) /\ IsFiniteSet(D)
  <2>1. IsFiniteSet(0 .. na - 1)
    BY FS_Interval
  <2>2. C \in SUBSET (0 .. na - 1) /\ D \in SUBSET (0 .. na - 1)
    OBVIOUS
  <2> HIDE DEF C, D
  <2>3. QED BY <2>1, <2>2, FS_Subset
<1>3. \A i, j \in C \ {c} : f[i] = f[j] => i = j
  OBVIOUS
<1> HIDE DEF C, D, f
<1>4. IsFiniteSet(C \ {c}) /\ Cardinality(C \ {c}) <= Cardinality(D)
  BY <1>1, <1>2, <1>3, InjectionCardinality
<1>5. Cardinality(C \ {c}) = IF c \in C THEN Cardinality(C) - 1 ELSE Cardinality(C)
  BY <1>2, FS_RemoveElement
<1>6. Cardinality(C) \in Nat /\ Cardinality(D) \in Nat
  BY <1>2, FS_CardinalityType
<1>7. Cardinality(C) <= Cardinality(D) + 1
  BY <1>4, <1>5, <1>6
<1>8. QED BY <1>7 DEF C, D

------------------------------------------------------------------------------
(* The slices of the pods that are listed. *)

Pods == {t.dest : t \in podTrackers}

\* The addresses of the trackers are finitely many.
LEMMA ListedPods ==
  ASSUME podTrackers \in SUBSET Tracker
  PROVE  /\ Pods \in SUBSET Pod /\ Pods \in SUBSET Nat /\ IsFiniteSet(Pods)
         /\ Cardinality(Pods) \in Nat
         /\ Cardinality(Pods) = 0 <=> podTrackers = {}
<1>1. Pods \in SUBSET Pod
  BY DEF Pods, Tracker
<1>2. IsFiniteSet(Pods) /\ Pods \in SUBSET Nat
  BY <1>1, FS_Subset, ThrottlerAssumption
<1>3. Cardinality(Pods) \in Nat /\ (Cardinality(Pods) = 0 <=> Pods = {})
  BY <1>2, FS_CardinalityType, FS_EmptySet
<1>4. Pods = {} <=> podTrackers = {}
  BY DEF Pods
<1>5. QED BY <1>1, <1>2, <1>3, <1>4

\* throttler.go:384: an activator's slice is what stands at its positions.
LEMMA SliceAt ==
  ASSUME podTrackers \in SUBSET Tracker, numActivators \in Nat \ {0},
         NEW i \in 0 .. numActivators - 1
  PROVE  Slice(i) = {Sorted(Pods)[k] : k \in Positions(Cardinality(Pods), i, numActivators)}
<1>1. Sorted(Pods) \in Seq(Pods) /\ Len(Sorted(Pods)) = Cardinality(Pods)
  BY ListedPods, SortedBijective
<1>2. ToSet(assignSlice(Sorted(Pods), i, numActivators))
        = {Sorted(Pods)[k] : k \in Positions(Len(Sorted(Pods)), i, numActivators)}
  BY <1>1, SliceAtPositions
<1>3. QED BY <1>1, <1>2 DEF Slice, Pods

\* throttler.go:364: which are positions of pods.
LEMMA PositionsInRange ==
  ASSUME NEW n \in Nat, NEW na \in Nat \ {0}, NEW i \in 0 .. na - 1
  PROVE  Positions(n, i, na) \in SUBSET (1 .. n)
<1>1. CASE na > n /\ n > 1
  <2>1. i % n \in 0 .. n - 1
    BY <1>1, DivMod
  <2>2. QED BY <1>1, <2>1 DEF Positions
<1>2. CASE ~(na > n /\ n > 1)
  BY <1>2 DEF Positions
<1>3. QED BY <1>1, <1>2

\* The slices of all indices cover the pods and share them evenly.
LEMMA SlicesDividePods ==
  ASSUME podTrackers \in SUBSET Tracker, numActivators \in Nat \ {0}
  PROVE  LET indices  == 0 .. numActivators - 1
             slice    == [i \in indices |-> Slice(i)]
             Users(p) == {i \in indices : p \in slice[i]}
         IN  /\ UNION {slice[i] : i \in indices} = Pods
             /\ 1 < Cardinality(Pods) =>
                  /\ numActivators <= Cardinality(Pods) => \A p \in Pods : Cardinality(Users(p)) = 1
                  /\ \A i, j \in indices : Cardinality(slice[i]) <= Cardinality(slice[j]) + 1
                  /\ \A p, q \in Pods : Cardinality(Users(p)) <= Cardinality(Users(q)) + 1
<1> DEFINE na == numActivators
           n == Cardinality(Pods)
           s == Sorted(Pods)
           indices == 0 .. na - 1
           slice == [i \in indices |-> Slice(i)]
           Users(p) == {i \in indices : p \in slice[i]}
           Owners(k) == {i \in indices : k \in Positions(n, i, na)}
<1> SUFFICES /\ UNION {slice[i] : i \in indices} = Pods
             /\ 1 < n =>
                  /\ na <= n => \A p \in Pods : Cardinality(Users(p)) = 1
                  /\ \A i, j \in indices : Cardinality(slice[i]) <= Cardinality(slice[j]) + 1
                  /\ \A p, q \in Pods : Cardinality(Users(p)) <= Cardinality(Users(q)) + 1
  OBVIOUS
<1>1. na \in Nat \ {0} /\ n \in Nat
  BY ListedPods
<1>2. /\ \A k \in 1 .. n : s[k] \in Pods
      /\ \A p \in Pods : \E k \in 1 .. n : s[k] = p
      /\ \A k, l \in 1 .. n : s[k] = s[l] => k = l
  <2>1. s \in Seq(Pods) /\ Len(s) = n
    BY ListedPods, SortedBijective
  <2>2. \A k \in 1 .. n : s[k] \in Pods
    BY <2>1, ElementOfSeq
  <2>3. QED BY <2>2, ListedPods, SortedBijective
<1>3. \A i \in indices : /\ Positions(n, i, na) \in SUBSET (1 .. n)
                         /\ slice[i] = {s[k] : k \in Positions(n, i, na)}
  BY <1>1, SliceAt, PositionsInRange
<1> HIDE DEF na, n, s, slice
<1>4. \A k \in 1 .. n : Users(s[k]) = Owners(k)
  <2>1. ASSUME NEW k \in 1 .. n, NEW i \in indices
        PROVE  s[k] \in slice[i] <=> k \in Positions(n, i, na)
    BY <1>2, <1>3
  <2>2. QED BY <2>1
<1>5. UNION {slice[i] : i \in indices} = Pods
  <2>1. ASSUME NEW i \in indices, NEW p \in slice[i] PROVE p \in Pods
    BY <1>2, <1>3
  <2>2. ASSUME NEW p \in Pods PROVE \E i \in indices : p \in slice[i]
    <3>1. PICK k \in 1 .. n : s[k] = p
      BY <1>2
    <3>2. PICK i \in indices : k \in Positions(n, i, na)
      BY <1>1, PositionsCover
    <3>3. QED BY <1>3, <3>1, <3>2
  <2>3. QED BY <2>1, <2>2
<1>6. ASSUME 1 < n, na <= n, NEW p \in Pods PROVE Cardinality(Users(p)) = 1
  <2>1. PICK k \in 1 .. n : s[k] = p
    BY <1>2
  <2>2. PICK i \in indices : k \in Positions(n, i, na)
    BY <1>1, PositionsCover
  <2>3. \A j \in indices : k \in Positions(n, j, na) => j = i
    BY <1>1, <1>6, <2>2, PositionsDisjoint
  <2>4. Owners(k) = {i}
    BY <2>2, <2>3
  <2>5. Users(p) = {i}
    BY <1>4, <2>1, <2>4
  <2>6. QED BY <2>5, FS_Singleton
<1>7. ASSUME 1 < n, NEW i \in indices, NEW j \in indices
      PROVE  Cardinality(slice[i]) <= Cardinality(slice[j]) + 1
  <2>1. ASSUME NEW h \in indices
        PROVE  Cardinality(slice[h]) = Cardinality(Positions(n, h, na))
    <3> DEFINE K == Positions(n, h, na)
    <3>1. IsFiniteSet(K)
      BY <1>1, <1>7, PositionsEven
    <3>2. \A k, l \in K : s[k] = s[l] => k = l
      BY <1>2, <1>3
    <3> HIDE DEF K
    <3>3. Cardinality({s[k] : k \in K}) = Cardinality(K)
      BY <3>1, <3>2, ImageCardinality
    <3>4. QED BY <1>3, <3>3 DEF K
  <2>2. \A h \in indices :
          /\ na = 1 => Cardinality(Positions(n, h, na)) = n
          /\ na > n => Cardinality(Positions(n, h, na)) = 1
          /\ na # 1 /\ na <= n => Cardinality(Positions(n, h, na)) \in {n \div na, (n \div na) + 1}
    BY <1>1, <1>7, PositionsEven
  <2>3. n \div na \in Nat
    BY <1>1, DivMod
  <2>4. na = 1 \/ na > n \/ (na # 1 /\ na <= n)
    BY <1>1
  <2>5. QED BY <1>1, <2>1, <2>2, <2>3, <2>4
<1>8. ASSUME 1 < n, NEW p \in Pods, NEW q \in Pods
      PROVE  Cardinality(Users(p)) <= Cardinality(Users(q)) + 1
  <2>1. CASE na <= n
    <3>1. Cardinality(Users(p)) = 1 /\ Cardinality(Users(q)) = 1
      BY <1>6, <1>8, <2>1
    <3>2. QED BY <3>1
  <2>2. CASE na > n
    <3>1. PICK k \in 1 .. n : s[k] = p
      BY <1>2
    <3>2. PICK l \in 1 .. n : s[l] = q
      BY <1>2
    <3>3. ASSUME NEW h \in 1 .. n
          PROVE  Users(s[h]) = {i \in 0 .. na - 1 : i % n = h - 1}
      <4>1. ASSUME NEW i \in indices PROVE h \in Positions(n, i, na) <=> i % n = h - 1
        <5>1. i % n \in 0 .. n - 1
          BY <1>1, <1>8, DivMod
        <5>2. Positions(n, i, na) = {(i % n) + 1}
          BY <1>1, <1>8, <2>2 DEF Positions
        <5>3. QED BY <5>1, <5>2
      <4>2. Owners(h) = {i \in 0 .. na - 1 : i % n = h - 1}
        BY <4>1
      <4>3. QED BY <1>4, <4>2
    <3>4. k - 1 \in 0 .. n - 1 /\ l - 1 \in 0 .. n - 1 /\ n \in Nat \ {0}
      BY <1>1, <1>8
    <3>5. Cardinality({i \in 0 .. na - 1 : i % n = k - 1})
            <= Cardinality({i \in 0 .. na - 1 : i % n = l - 1}) + 1
      BY <1>1, <3>4, SharersEven
    <3>6. QED BY <3>1, <3>2, <3>3, <3>5
  <2>3. QED BY <1>1, <2>1, <2>2
<1>9. QED BY <1>5, <1>6, <1>7, <1>8

\* throttler.go:660-675: an activator of an endpoints list finds its index in it, and no
\* two find the same.
LEMMA IndexBijective ==
  ASSUME NEW eps \in SUBSET Nat, IsFiniteSet(eps)
  PROVE  /\ Cardinality(eps) \in Nat
         /\ \A a \in eps : inferIndex(eps, a) \in 0 .. Cardinality(eps) - 1
         /\ \A a, b \in eps : inferIndex(eps, a) = inferIndex(eps, b) => a = b
         /\ \A i \in 0 .. Cardinality(eps) - 1 : \E a \in eps : inferIndex(eps, a) = i
<1>1. \A a \in eps : inferIndex(eps, a) = Rank(eps, a)
  BY DEF inferIndex, Rank
<1>2. QED BY <1>1, RankBijective

\* Hence the activators, each of which knows its index only, divide the pods.
LEMMA ActivatorsDividePods ==
  ASSUME podTrackers \in SUBSET Tracker
  PROVE  SlicesPartition
<1> SUFFICES ASSUME NEW eps \in Endpoints, numActivators > 0, Cardinality(eps) = numActivators
             PROVE  LET slice    == [a \in eps |-> Slice(inferIndex(eps, a))]
                        Users(p) == {a \in eps : p \in slice[a]}
                    IN  /\ UNION {slice[a] : a \in eps} = Pods
                        /\ 1 < Cardinality(Pods) =>
                             /\ numActivators <= Cardinality(Pods)
                                  => \A p \in Pods : Cardinality(Users(p)) = 1
                             /\ \A a, b \in eps : Cardinality(slice[a]) <= Cardinality(slice[b]) + 1
                             /\ \A p, q \in Pods : Cardinality(Users(p)) <= Cardinality(Users(q)) + 1
  BY DEF SlicesPartition, Pods
<1> DEFINE indices == 0 .. numActivators - 1
           part == [i \in indices |-> Slice(i)]
           slice == [a \in eps |-> Slice(inferIndex(eps, a))]
           index == [a \in eps |-> inferIndex(eps, a)]
           Places(p) == {i \in indices : p \in part[i]}
           Users(p) == {a \in eps : p \in slice[a]}
<1>1. eps \in SUBSET Nat /\ IsFiniteSet(eps)
  BY ThrottlerAssumption
<1>2. numActivators \in Nat \ {0}
  BY <1>1, IndexBijective
<1>3. /\ \A a \in eps : index[a] \in indices
      /\ \A a, b \in eps : index[a] = index[b] => a = b
      /\ \A i \in indices : \E a \in eps : index[a] = i
  BY <1>1, IndexBijective
<1>4. /\ UNION {part[i] : i \in indices} = Pods
      /\ 1 < Cardinality(Pods) =>
           /\ numActivators <= Cardinality(Pods) => \A p \in Pods : Cardinality(Places(p)) = 1
           /\ \A i, j \in indices : Cardinality(part[i]) <= Cardinality(part[j]) + 1
           /\ \A p, q \in Pods : Cardinality(Places(p)) <= Cardinality(Places(q)) + 1
  BY <1>2, SlicesDividePods
<1>5. \A a \in eps : slice[a] = part[index[a]]
  BY <1>3
<1> HIDE DEF indices, part, slice, index
<1>6. ASSUME NEW p PROVE Cardinality(Users(p)) = Cardinality(Places(p))
  <2> DEFINE K == Users(p)
  <2>1. K \in SUBSET eps /\ IsFiniteSet(K)
    BY <1>1, FS_Subset
  <2>2. \A a, b \in K : index[a] = index[b] => a = b
    BY <1>3, <2>1
  <2>3. Places(p) = {index[a] : a \in K}
    BY <1>3, <1>5
  <2> HIDE DEF K
  <2>4. Cardinality({index[a] : a \in K}) = Cardinality(K)
    BY <2>1, <2>2, ImageCardinality
  <2>5. QED BY <2>3, <2>4 DEF K
<1>7. UNION {slice[a] : a \in eps} = Pods
  <2>1. {slice[a] : a \in eps} = {part[i] : i \in indices}
    BY <1>3, <1>5
  <2>2. QED BY <1>4, <2>1
<1>8. \A a, b \in eps : 1 < Cardinality(Pods) => Cardinality(slice[a]) <= Cardinality(slice[b]) + 1
  BY <1>3, <1>4, <1>5
<1> HIDE DEF Users, Places
<1>9. QED BY <1>4, <1>6, <1>7, <1>8 DEF slice, Users

------------------------------------------------------------------------------
(* This activator's slice, and the capacity for it. *)

\* What the type invariant says of the sizes of the sets.
LEMMA TypeFacts ==
  ASSUME TypeOK
  PROVE  /\ containerConcurrency \in Nat /\ numActivators \in Nat /\ activatorIndex \in Int
         /\ podTrackers \in SUBSET Tracker /\ assigned \in SUBSET Tracker
         /\ Cardinality(Pod) \in Nat
         /\ backendCount \in Nat /\ backends \in Nat /\ numTrackers \in Nat
<1>1. \A eps \in Endpoints : Cardinality(eps) \in Nat /\ inferIndex(eps, SelfIP) \in Int
  <2>1. ASSUME NEW eps \in Endpoints
        PROVE  Cardinality(eps) \in Nat /\ inferIndex(eps, SelfIP) \in Int
    <3>1. eps \in SUBSET Nat /\ IsFiniteSet(eps)
      BY ThrottlerAssumption
    <3>2. Cardinality(eps) \in Nat
      BY <3>1, IndexBijective
    <3>3. CASE SelfIP \in eps
      BY <3>1, <3>2, <3>3, IndexBijective
    <3>4. CASE SelfIP \notin eps
      BY <3>2, <3>4 DEF inferIndex
    <3>5. QED BY <3>3, <3>4
  <2>2. QED BY <2>1
<1>2. numActivators \in Nat /\ activatorIndex \in Int
  BY <1>1 DEF TypeOK
<1>3. containerConcurrency \in Nat
  BY ThrottlerAssumption DEF TypeOK
<1>4. Cardinality(Pod) \in Nat
  BY FS_CardinalityType, ThrottlerAssumption
<1>5. QED BY <1>2, <1>3, <1>4 DEF TypeOK

\* The slice is part of the listed trackers, and not empty unless they are.
LEMMA MySliceListed ==
  ASSUME TypeOK, PlaceKnown
  PROVE  MySlice \in SUBSET podTrackers /\ (MySlice = {} <=> podTrackers = {})
<1>1. /\ podTrackers \in SUBSET Tracker /\ numActivators \in Nat
      /\ containerConcurrency \in Nat
  BY TypeFacts
<1>2. MySlice \in SUBSET podTrackers
  BY DEF MySlice
<1>3. ASSUME podTrackers # {} PROVE MySlice # {}
  <2> DEFINE n == Cardinality(Pods)
             s == Sorted(Pods)
  <2>1. n \in Nat \ {0}
    BY <1>1, <1>3, ListedPods
  <2>2. s \in Seq(Pods) /\ Len(s) = n
    BY <1>1, ListedPods, SortedBijective
  <2>3. \A k \in 1 .. n : s[k] \in Pods /\ \E t \in podTrackers : t.dest = s[k]
    <3>1. \A k \in 1 .. n : s[k] \in Pods
      BY <2>2, ElementOfSeq
    <3>2. QED BY <3>1 DEF Pods
  <2>4. \E k \in 1 .. n : s[k] \in Slice(activatorIndex)
    <3>1. CASE activatorIndex = -1
      <4>1. Slice(activatorIndex) = ToSet(s)
        BY <3>1 DEF Slice, assignSlice, Pods
      <4>2. DOMAIN s = 1 .. n
        BY <2>2, LenProperties
      <4>3. 1 \in 1 .. n /\ s[1] \in ToSet(s)
        BY <2>1, <4>2 DEF ToSet
      <4>4. QED BY <4>1, <4>3
    <3>2. CASE activatorIndex \in 0 .. numActivators - 1
      <4>1. numActivators \in Nat \ {0}
        BY <1>1, <3>2
      <4>2. Slice(activatorIndex) = {s[k] : k \in Positions(n, activatorIndex, numActivators)}
        BY <1>1, <3>2, <4>1, SliceAt
      <4>3. \E k \in 1 .. n : k \in Positions(n, activatorIndex, numActivators)
        BY <2>1, <3>2, <4>1, PositionsExist
      <4>4. QED BY <4>2, <4>3
    <3>3. QED BY <3>1, <3>2 DEF PlaceKnown
  <2>5. \E t \in podTrackers : t.dest \in Slice(activatorIndex)
    BY <2>3, <2>4
  <2>6. QED BY <1>3, <2>5 DEF MySlice
<1>4. QED BY <1>2, <1>3

\* There are no more trackers in it than pods.
LEMMA MySliceSize ==
  ASSUME TypeOK, PlaceKnown, TrackerPerPod
  PROVE  /\ Cardinality(MySlice) \in 0 .. Cardinality(Pod)
         /\ Cardinality(MySlice) = 0 <=> podTrackers = {}
<1> DEFINE f == [t \in Tracker |-> t.dest]
<1>1. MySlice \in SUBSET podTrackers /\ podTrackers \in SUBSET Tracker
  BY MySliceListed, TypeFacts
<1>2. \A t \in MySlice : f[t] \in Pod
  BY <1>1 DEF Tracker
<1>3. \A t, u \in MySlice : f[t] = f[u] => t = u
  BY <1>1 DEF TrackerPerPod
<1>4. IsFiniteSet(Pod)
  BY ThrottlerAssumption
<1> HIDE DEF f
<1>5. IsFiniteSet(MySlice) /\ Cardinality(MySlice) <= Cardinality(Pod)
  BY <1>2, <1>3, <1>4, InjectionCardinality
<1>6. Cardinality(MySlice) \in Nat /\ Cardinality(Pod) \in Nat
      /\ (Cardinality(MySlice) = 0 <=> MySlice = {})
  BY <1>4, <1>5, FS_CardinalityType, FS_EmptySet
<1>7. QED BY <1>5, <1>6, MySliceListed

\* The capacity is within the limits, and zero only without backends.
LEMMA CapacityValue ==
  ASSUME containerConcurrency \in Nat, NEW b \in Nat, NEW t \in Nat, NEW a \in Nat,
         t > 0 => b > 0
  PROVE  /\ calculateCapacity(b, t, a) \in 0 .. RevisionMaxConcurrency
         /\ calculateCapacity(b, t, a) = 0 <=> b = 0
         /\ containerConcurrency > 0 /\ (t = 0 => b = 0) =>
              LET slots == containerConcurrency * t IN
              calculateCapacity(b, t, a) =
                IF slots > RevisionMaxConcurrency THEN RevisionMaxConcurrency ELSE slots
<1> DEFINE cc == containerConcurrency
           shared == cc * b
           slots == cc * t
           part == minOneOrValue(shared \div minOneOrValue(a))
           target == IF t > 0 THEN slots ELSE IF shared > 0 THEN part ELSE 0
<1>1. /\ shared \in Nat /\ (shared = 0 <=> cc = 0 \/ b = 0)
      /\ slots \in Nat /\ (slots = 0 <=> cc = 0 \/ t = 0)
  BY ProductPositive
<1>2. part \in Nat \ {0}
  <2>1. minOneOrValue(a) \in Nat \ {0}
    BY DEF minOneOrValue
  <2> HIDE DEF shared
  <2>2. shared \div minOneOrValue(a) \in Nat
    BY <1>1, <2>1, DivMod
  <2>3. QED BY <2>2 DEF minOneOrValue
<1>3. RevisionMaxConcurrency \in Nat \ {0}
  BY ThrottlerAssumption
<1>4. calculateCapacity(b, t, a) =
        IF b > 0 /\ (cc = 0 \/ target > RevisionMaxConcurrency) THEN RevisionMaxConcurrency
        ELSE target
  BY DEF calculateCapacity
<1> HIDE DEF shared, slots, part
<1>5. QED BY <1>1, <1>2, <1>3, <1>4 DEF slots

------------------------------------------------------------------------------
(* The requests. *)

USE DEF setup, throttlerVars, updaterVars

\* newRevisionThrottler makes a consistent throttler.
LEMMA InitThrottler == Init => ThrottlerInv
<1> SUFFICES ASSUME Init PROVE ThrottlerInv
  OBVIOUS
<1>1. PICK x \in Setups : containerConcurrency = x[1] /\ lbPolicy = x[2]
  BY DEF Init
<1>2. <<containerConcurrency, lbPolicy>> \in Setups
  <2>1. x \in Nat \X {"simpleRandomChoice2Policy", "firstAvailableLBPolicy"}
    BY ThrottlerAssumption
  <2>2. <<x[1], x[2]>> = x
    BY <2>1
  <2>3. QED BY <1>1, <2>2
<1>3. TypeOK
  <2>1. Cardinality(Pod) \in Nat /\ MaxUpdates \in Nat /\ RevisionMaxConcurrency \in Nat
    BY ThrottlerAssumption, FS_CardinalityType
  <2>2. 0 \in 0 .. Cardinality(Pod) /\ 0 \in 0 .. MaxUpdates /\ 0 \in 0 .. RevisionMaxConcurrency
    BY <2>1
  <2>3. QED BY <1>2, <2>2 DEF Init, TypeOK
<1>4. PlaceKnown /\ TrackerPerPod /\ BackendsCounted /\ ScansAssigned
  BY DEF Init, PlaceKnown, TrackerPerPod, BackendsCounted, ScansAssigned
<1>5. MySlice = {} /\ assigned = {}
  BY DEF Init, MySlice
<1>6. SliceApplied /\ AssignedBeforeAdmitted
  BY <1>5 DEF Init, SliceApplied, AssignedBeforeAdmitted, InBreaker
<1>7. Settled
  <2>1. containerConcurrency \in Nat /\ RevisionMaxConcurrency \in Nat
    BY <1>3, TypeFacts, ThrottlerAssumption
  <2>2. Cardinality({}) = 0 /\ containerConcurrency * 0 = 0
    BY <2>1, FS_EmptySet
  <2>3. capacity = 0 /\ backendCount = 0
    BY DEF Init
  <2>4. QED BY <1>5, <2>1, <2>2, <2>3 DEF Settled
<1>8. ListedOrDropped
  BY <1>5, ThrottlerAssumption DEF Init, ListedOrDropped
<1>9. SlotsKept
  <2>1. \A t : Taken(t) = {}
    BY DEF Init, Taken
  <2>2. Cardinality({}) = 0
    BY FS_EmptySet
  <2>3. QED BY <1>3, <2>1, <2>2, TypeFacts DEF SlotsKept
<1>10. QED BY <1>3, <1>4, <1>6, <1>7, <1>8, <1>9 DEF ThrottlerInv

\* A request leaves to the updates what is theirs.
LEMMA RequestLeavesUpdates ==
  ASSUME ThrottlerInv, UNCHANGED <<setup, throttlerVars, capacity, updaterVars>>
  PROVE  PlaceKnown' /\ TrackerPerPod' /\ BackendsCounted' /\ SliceApplied' /\ Settled'
<1>1. MySlice' = MySlice
  BY DEF MySlice, Slice
<1>2. PlaceKnown' /\ TrackerPerPod' /\ BackendsCounted'
  BY DEF ThrottlerInv, PlaceKnown, TrackerPerPod, BackendsCounted
<1>3. SliceApplied' /\ Settled'
  BY <1>1 DEF ThrottlerInv, SliceApplied, Settled
<1>4. QED BY <1>2, <1>3

\* The slots of the breakers of the trackers: what one request can change.
LEMMA SlotsOfRequest ==
  ASSUME ThrottlerInv, UNCHANGED setup, NEW r \in Req,
         \A q \in Req \ {r} : call'[q] = call[q] /\ dest'[q] = dest[q],
         \A t \in Tracker :
           r \in Taken(t)' => \/ r \in Taken(t)
                             \/ lbPolicy # "firstAvailableLBPolicy"
                             \/ containerConcurrency = 0
                             \/ Cardinality(Taken(t)) < containerConcurrency
  PROVE  SlotsKept'
<1> SUFFICES ASSUME lbPolicy = "firstAvailableLBPolicy", containerConcurrency > 0,
                    NEW t \in Tracker
             PROVE  Cardinality(Taken(t)') <= containerConcurrency
  BY DEF SlotsKept
<1>1. containerConcurrency \in Nat
  BY TypeFacts DEF ThrottlerInv
<1>2. Cardinality(Taken(t)) <= containerConcurrency
  BY DEF ThrottlerInv, SlotsKept
<1> DEFINE A == Taken(t)
           B == Taken(t)'
<1>3. B \in SUBSET (A \cup {r}) /\ A \in SUBSET Req
  BY DEF Taken
<1>4. r \in B => r \in A \/ Cardinality(A) < containerConcurrency
  <2>1. r \in Taken(t)' => \/ r \in Taken(t)
                          \/ lbPolicy # "firstAvailableLBPolicy"
                          \/ containerConcurrency = 0
                          \/ Cardinality(Taken(t)) < containerConcurrency
    OBVIOUS
  <2>2. QED BY <1>1, <2>1
<1> HIDE DEF A, B
<1>5. IsFiniteSet(A) /\ Cardinality(A) \in Nat
  <2>1. IsFiniteSet(A)
    BY <1>3, ThrottlerAssumption, FS_Subset
  <2>2. QED BY <2>1, FS_CardinalityType
<1>6. Cardinality(B) <= containerConcurrency
  <2>1. CASE r \in B /\ r \notin A
    <3>1. IsFiniteSet(A \cup {r}) /\ Cardinality(A \cup {r}) = Cardinality(A) + 1
      BY <1>5, <2>1, FS_AddElement
    <3>2. Cardinality(B) <= Cardinality(A) + 1 /\ IsFiniteSet(B)
      BY <1>3, <3>1, FS_Subset
    <3>3. Cardinality(B) \in Nat
      BY <3>2, FS_CardinalityType
    <3>4. QED BY <1>1, <1>4, <1>5, <2>1, <3>2, <3>3
  <2>2. CASE ~(r \in B /\ r \notin A)
    <3>1. B \in SUBSET A
      BY <1>3, <2>2
    <3>2. Cardinality(B) <= Cardinality(A) /\ IsFiniteSet(B)
      BY <1>5, <3>1, FS_Subset
    <3>3. Cardinality(B) \in Nat
      BY <3>2, FS_CardinalityType
    <3>4. QED BY <1>1, <1>2, <1>5, <3>2, <3>3 DEF A
  <2>3. QED BY <2>1, <2>2
<1>7. QED BY <1>6 DEF B

\* A request goes on to call c, with tracker d and the targets u left to try.
LEMMA RequestStep ==
  ASSUME ThrottlerInv, NEW r \in Req,
         NEW c \in {"idle", "waiting", "admitted", "scanning", "acquired", "calling", "returned"},
         NEW d \in Tracker \cup {ClusterIP, Nil}, NEW u \in SUBSET Tracker,
         UNCHANGED <<setup, throttlerVars, capacity, updaterVars, panic>>,
         call' = [call EXCEPT ![r] = c],
         dest' = [dest EXCEPT ![r] = d],
         untried' = [untried EXCEPT ![r] = u],
         c = "scanning" => ~clusterIP /\ u \subseteq assigned,
         c \in {"admitted", "scanning", "acquired", "calling"} => r \in InBreaker \/ capacity # 0,
         d \in Tracker => d = dest[r] \/ d \in assigned,
         c \in {"acquired", "calling"} /\ d \in Tracker =>
           \/ r \in Taken(d)
           \/ lbPolicy # "firstAvailableLBPolicy"
           \/ containerConcurrency = 0
           \/ Cardinality(Taken(d)) < containerConcurrency
  PROVE  ThrottlerInv'
<1>1. PlaceKnown' /\ TrackerPerPod' /\ BackendsCounted' /\ SliceApplied' /\ Settled'
  BY RequestLeavesUpdates
<1>2. TypeOK
  BY DEF ThrottlerInv
<1>3. /\ call'[r] = c /\ dest'[r] = d /\ untried'[r] = u
      /\ \A q \in Req \ {r} : call'[q] = call[q] /\ dest'[q] = dest[q] /\ untried'[q] = untried[q]
  BY <1>2 DEF TypeOK
<1>4. TypeOK'
  BY <1>2 DEF TypeOK
<1>5. ScansAssigned'
  BY <1>3 DEF ThrottlerInv, ScansAssigned
<1>6. AssignedBeforeAdmitted'
  <2>1. InBreaker' \subseteq InBreaker \cup {r} /\ (r \in InBreaker' => r \in InBreaker \/ capacity # 0)
    BY <1>3 DEF InBreaker
  <2>2. QED BY <2>1 DEF ThrottlerInv, AssignedBeforeAdmitted
<1>7. ListedOrDropped'
  BY <1>3 DEF ThrottlerInv, ListedOrDropped
<1>8. SlotsKept'
  <2>1. \A t \in Tracker :
          r \in Taken(t)' => \/ r \in Taken(t)
                            \/ lbPolicy # "firstAvailableLBPolicy"
                            \/ containerConcurrency = 0
                            \/ Cardinality(Taken(t)) < containerConcurrency
    BY <1>3 DEF Taken
  <2>2. QED BY <1>3, <2>1, SlotsOfRequest
<1>9. QED BY <1>1, <1>4, <1>5, <1>6, <1>7, <1>8 DEF ThrottlerInv

\* Every step of a request keeps the invariant.
LEMMA TryKeeps ==
  ASSUME ThrottlerInv, NEW r \in Req, Try(r)
  PROVE  ThrottlerInv'
<1>1. TypeOK
  BY DEF ThrottlerInv
<1>2. /\ dest[r] \in Tracker \cup {ClusterIP, Nil} /\ untried[r] \in SUBSET Tracker
      /\ dest = [dest EXCEPT ![r] = dest[r]] /\ untried = [untried EXCEPT ![r] = untried[r]]
      /\ call = [call EXCEPT ![r] = call[r]]
      /\ assigned \in SUBSET Tracker
  BY <1>1 DEF TypeOK
<1>3. ClusterIP \notin Tracker /\ Nil \notin Tracker
  BY ThrottlerAssumption
<1>4. CASE TryStarts(r)
  BY <1>2, <1>4, RequestStep DEF TryStarts
<1>5. CASE Admitted(r)
  <2>1. capacity # 0
    <3>1. IsFiniteSet(InBreaker)
      BY ThrottlerAssumption, FS_Subset DEF InBreaker
    <3>2. Cardinality(InBreaker) \in Nat
      BY <3>1, FS_CardinalityType
    <3>3. QED BY <1>5, <3>2 DEF Admitted
  <2>2. QED BY <1>2, <1>5, <2>1, RequestStep DEF Admitted, Taken
<1>6. CASE GivesUp(r)
  BY <1>2, <1>6, RequestStep DEF GivesUp
<1>7. CASE AcquiresDest(r)
  <2>1. r \in InBreaker
    BY <1>7 DEF AcquiresDest, InBreaker
  <2>2. CASE clusterIP
    BY <1>2, <1>3, <1>7, <2>1, <2>2, RequestStep DEF AcquiresDest
  <2>3. CASE ~clusterIP /\ lbPolicy = "simpleRandomChoice2Policy" /\ assigned # {}
    <3>1. PICK t \in assigned : dest' = [dest EXCEPT ![r] = t]
      BY <1>7, <2>3 DEF AcquiresDest, simpleRandomChoice2Policy
    <3>2. /\ call' = [call EXCEPT ![r] = "acquired"]
          /\ UNCHANGED <<setup, throttlerVars, capacity, updaterVars, untried, panic>>
      BY <1>7, <2>3 DEF AcquiresDest, simpleRandomChoice2Policy
    <3>3. QED BY <1>2, <2>1, <2>3, <3>1, <3>2, RequestStep
  <2>4. CASE ~clusterIP /\ lbPolicy = "simpleRandomChoice2Policy" /\ assigned = {}
    <3>1. UNCHANGED <<setup, throttlerVars, capacity, updaterVars, call, dest, untried>> /\ panic' = TRUE
      BY <1>7, <2>4 DEF AcquiresDest, simpleRandomChoice2Policy
    <3>2. ~direct
      BY <2>1, <2>4 DEF ThrottlerInv, AssignedBeforeAdmitted
    <3>3. PlaceKnown' /\ TrackerPerPod' /\ BackendsCounted' /\ SliceApplied' /\ Settled'
      BY <3>1, RequestLeavesUpdates
    <3>4. TypeOK' /\ ScansAssigned' /\ ListedOrDropped'
      BY <1>1, <3>1 DEF TypeOK, ThrottlerInv, ScansAssigned, ListedOrDropped
    <3>5. AssignedBeforeAdmitted'
      BY <3>1, <3>2 DEF AssignedBeforeAdmitted
    <3>6. SlotsKept'
      BY <3>1 DEF ThrottlerInv, SlotsKept, Taken
    <3>7. QED BY <3>3, <3>4, <3>5, <3>6 DEF ThrottlerInv
  <2>5. CASE ~clusterIP /\ lbPolicy = "firstAvailableLBPolicy"
    <3>1. /\ call' = [call EXCEPT ![r] = "scanning"]
          /\ untried' = [untried EXCEPT ![r] = assigned]
          /\ UNCHANGED <<setup, throttlerVars, capacity, updaterVars, dest, panic>>
      BY <1>7, <2>5 DEF AcquiresDest
    <3>2. QED BY <1>2, <2>1, <2>5, <3>1, RequestStep
  <2>6. QED BY <1>7, <2>2, <2>3, <2>4, <2>5 DEF AcquiresDest
<1>8. CASE Reserve(r)
  <2>1. r \in InBreaker /\ ~clusterIP /\ untried[r] \subseteq assigned
    BY <1>8 DEF Reserve, InBreaker, ThrottlerInv, ScansAssigned
  <2>2. PICK t \in untried[r] :
          IF containerConcurrency = 0 \/ Cardinality(Taken(t)) < containerConcurrency
          THEN /\ dest' = [dest EXCEPT ![r] = t]
               /\ call' = [call EXCEPT ![r] = "acquired"]
               /\ untried' = [untried EXCEPT ![r] = {}]
          ELSE /\ untried' = [untried EXCEPT ![r] = @ \ {t}]
               /\ UNCHANGED <<call, dest>>
    BY <1>8 DEF Reserve
  <2>3. UNCHANGED <<setup, throttlerVars, capacity, updaterVars, panic>> /\ call[r] = "scanning"
    BY <1>8 DEF Reserve
  <2>4. CASE containerConcurrency = 0 \/ Cardinality(Taken(t)) < containerConcurrency
    <3>1. t \in Tracker /\ t \in assigned
      BY <1>2, <2>1
    <3>2. {} \in SUBSET Tracker
      OBVIOUS
    <3>3. /\ dest' = [dest EXCEPT ![r] = t]
          /\ call' = [call EXCEPT ![r] = "acquired"]
          /\ untried' = [untried EXCEPT ![r] = {}]
      BY <2>2, <2>4
    <3>4. QED BY <2>1, <2>3, <2>4, <3>1, <3>2, <3>3, RequestStep
  <2>5. CASE ~(containerConcurrency = 0 \/ Cardinality(Taken(t)) < containerConcurrency)
    <3> DEFINE left == untried[r] \ {t}
    <3>1. left \in SUBSET Tracker /\ left \subseteq assigned
      BY <1>2, <2>1
    <3>2. untried' = [untried EXCEPT ![r] = left] /\ UNCHANGED <<call, dest>>
      BY <2>2, <2>5
    <3> HIDE DEF left
    <3>3. QED BY <1>2, <2>1, <2>3, <3>1, <3>2, RequestStep
  <2>6. QED BY <2>4, <2>5
<1>9. CASE Reenqueues(r)
  BY <1>2, <1>9, RequestStep DEF Reenqueues
<1>10. CASE CallsFunction(r)
  <2>1. r \in InBreaker
    BY <1>10 DEF CallsFunction, InBreaker
  <2>2. r \in Taken(dest[r])
    BY <1>10 DEF CallsFunction, Taken
  <2>3. QED BY <1>2, <1>10, <2>1, <2>2, RequestStep DEF CallsFunction
<1>11. CASE FunctionReturns(r)
  BY <1>2, <1>3, <1>11, RequestStep DEF FunctionReturns
<1>12. QED BY <1>4, <1>5, <1>6, <1>7, <1>8, <1>9, <1>10, <1>11 DEF Try
------------------------------------------------------------------------------
(* The updates. *)

\* An update lists the pods of dests, each once, and the trackers of the others are gone.
LEMMA ListOfUpdate ==
  ASSUME TypeOK, TrackerPerPod, UpdateArrives, NEW dests \in SUBSET Pod
  PROVE  /\ TrackersOf(dests) \in SUBSET Tracker
         /\ \A t, u \in TrackersOf(dests) : t.dest = u.dest => t = u
         /\ TrackersOf(dests) = {} <=> dests = {}
         /\ \A t \in podTrackers : t.dest \in dests => t \in TrackersOf(dests)
<1> DEFINE reused == {t \in podTrackers : t.dest \in dests}
           fresh  == [dest : dests \ {t.dest : t \in reused}, made : {updates'}]
<1>1. TrackersOf(dests) = reused \cup fresh
  BY DEF TrackersOf
<1>2. updates' \in 1 .. MaxUpdates
  BY ThrottlerAssumption DEF TypeOK, UpdateArrives
<1>3. fresh \in SUBSET Tracker /\ reused \in SUBSET Tracker
  BY <1>2 DEF Tracker, TypeOK
<1>4. \A t \in fresh : t.dest \in dests /\ t.made = updates' /\ \A v \in reused : t.dest # v.dest
  OBVIOUS
<1>5. \A t, u \in fresh : t.dest = u.dest => t = u
  OBVIOUS
<1>6. \A t, u \in reused : t.dest = u.dest => t = u
  BY DEF TrackerPerPod
<1>7. \A t, u \in TrackersOf(dests) : t.dest = u.dest => t = u
  <2> HIDE DEF reused, fresh
  <2>1. QED BY <1>1, <1>4, <1>5, <1>6
<1>8. ASSUME NEW p \in dests PROVE \E t \in reused \cup fresh : t.dest = p
  <2>1. CASE \E t \in reused : t.dest = p
    BY <2>1
  <2>2. CASE ~\E t \in reused : t.dest = p
    <3>1. [dest |-> p, made |-> updates'] \in fresh
      BY <2>2
    <3>2. [dest |-> p, made |-> updates'].dest = p
      OBVIOUS
    <3> HIDE DEF reused, fresh
    <3>3. QED BY <3>1, <3>2
  <2>3. QED BY <2>1, <2>2
<1>9. \A t \in reused \cup fresh : t.dest \in dests
  <2>1. \A t \in reused : t.dest \in dests
    OBVIOUS
  <2> HIDE DEF reused, fresh
  <2>2. QED BY <1>4, <2>1
<1>10. TrackersOf(dests) = {} <=> dests = {}
  <2> HIDE DEF reused, fresh
  <2>1. QED BY <1>1, <1>8, <1>9
<1>11. QED BY <1>1, <1>3, <1>7, <1>10

\* throttler.go:416-457: an update of the backends keeps it consistent.
LEMMA handleUpdateKeeps ==
  ASSUME ThrottlerInv, NEW update \in Updates, handleUpdate(update)
  PROVE  ThrottlerInv'
<1> DEFINE via == update.viaClusterIP
           dests == update.dests
           trackers == IF via THEN {} ELSE TrackersOf(dests)
<1>1. dests \in SUBSET Pod /\ via \in BOOLEAN
  BY ThrottlerAssumption
<1>2. /\ UpdateArrives
      /\ NoReaders /\ podTrackers' = trackers /\ clusterIP' = via /\ updater' = "assign"
      /\ backends' = IF via \/ trackers # {} THEN Cardinality(dests) ELSE 0
      /\ direct' = (direct /\ dests # {} /\ ~via)
      /\ dropped' = dropped \cup {t.dest : t \in {u \in podTrackers : via \/ u.dest \notin dests}}
      /\ UNCHANGED <<setup, assigned, numActivators, activatorIndex, backendCount>>
      /\ UNCHANGED <<capacity, numTrackers, call, dest, untried, panic>>
  BY DEF handleUpdate, updateThrottlerState, Remember
<1>3. TypeOK /\ TrackerPerPod
  BY DEF ThrottlerInv
<1>4. /\ trackers \in SUBSET Tracker
      /\ \A t, u \in trackers : t.dest = u.dest => t = u
      /\ ~via => (trackers = {} <=> dests = {})
      /\ ~via => \A t \in podTrackers : t.dest \in dests => t \in trackers
  BY <1>1, <1>2, <1>3, ListOfUpdate
<1>5. /\ Cardinality(dests) \in 0 .. Cardinality(Pod)
      /\ Cardinality(dests) = 0 <=> dests = {}
  <2> HIDE DEF dests
  <2>1. IsFiniteSet(dests) /\ Cardinality(dests) <= Cardinality(Pod)
    BY <1>1, ThrottlerAssumption, FS_Subset
  <2>2. QED BY <2>1, ThrottlerAssumption, FS_CardinalityType, FS_EmptySet
<1> HIDE DEF via, dests, trackers
<1>6. updates' \in 0 .. MaxUpdates
  BY <1>2, <1>3, ThrottlerAssumption DEF UpdateArrives, TypeOK
<1>7. TypeOK'
  <2>1. dropped' \subseteq Pod
    BY <1>2, <1>3 DEF TypeOK, Tracker
  <2>2. backends' \in 0 .. Cardinality(Pod)
    BY <1>2, <1>3, <1>5, TypeFacts
  <2>3. QED BY <1>1, <1>2, <1>3, <1>4, <1>6, <2>1, <2>2 DEF TypeOK
<1>8. PlaceKnown'
  BY <1>2 DEF ThrottlerInv, PlaceKnown
<1>9. TrackerPerPod'
  BY <1>2, <1>4 DEF TrackerPerPod, trackers
<1>10. BackendsCounted'
  BY <1>2, <1>4, <1>5 DEF BackendsCounted
<1>11. SliceApplied' /\ Settled'
  BY <1>2 DEF SliceApplied, Settled
<1>12. ScansAssigned'
  BY <1>2 DEF ScansAssigned, NoReaders
<1>13. AssignedBeforeAdmitted'
  BY <1>1, <1>2, <1>4 DEF ThrottlerInv, AssignedBeforeAdmitted, InBreaker
<1>14. ListedOrDropped'
  <2>1. \A t \in podTrackers : t \in podTrackers' \/ t.dest \in dropped'
    BY <1>2, <1>4
  <2>2. QED BY <1>2, <2>1 DEF ThrottlerInv, ListedOrDropped
<1>15. SlotsKept'
  BY <1>2 DEF ThrottlerInv, SlotsKept, Taken
<1>16. QED BY <1>7, <1>8, <1>9, <1>10, <1>11, <1>12, <1>13, <1>14, <1>15 DEF ThrottlerInv

\* throttler.go:631-658: an update of the activators does.
LEMMA handlePubEpsUpdateKeeps ==
  ASSUME ThrottlerInv, NEW eps \in Endpoints, handlePubEpsUpdate(eps)
  PROVE  ThrottlerInv'
<1>1. /\ UpdateArrives
      /\ inferIndex(eps, SelfIP) # -1
      /\ numActivators' = Cardinality(eps) /\ activatorIndex' = inferIndex(eps, SelfIP)
      /\ backends' = backendCount /\ updater' = "assign"
      /\ UNCHANGED <<setup, podTrackers, clusterIP, assigned, backendCount>>
      /\ UNCHANGED <<capacity, numTrackers, direct, dropped, call, dest, untried, panic>>
  BY DEF handlePubEpsUpdate
<1>2. TypeOK
  BY DEF ThrottlerInv
<1>3. updates' \in 0 .. MaxUpdates
  BY <1>1, <1>2, ThrottlerAssumption DEF UpdateArrives, TypeOK
<1>4. TypeOK'
  BY <1>1, <1>2, <1>3 DEF TypeOK
<1>5. PlaceKnown'
  <2>1. SelfIP \in eps /\ eps \in SUBSET Nat /\ IsFiniteSet(eps)
    BY <1>1, ThrottlerAssumption DEF inferIndex
  <2>2. QED BY <1>1, <2>1, IndexBijective DEF PlaceKnown
<1>6. BackendsCounted'
  BY <1>1 DEF ThrottlerInv, BackendsCounted, UpdateArrives
<1>7. SliceApplied' /\ Settled'
  BY <1>1 DEF SliceApplied, Settled
<1>8. TrackerPerPod' /\ ScansAssigned' /\ AssignedBeforeAdmitted' /\ ListedOrDropped'
  BY <1>1 DEF ThrottlerInv, TrackerPerPod, ScansAssigned, AssignedBeforeAdmitted, InBreaker,
              ListedOrDropped
<1>9. SlotsKept'
  BY <1>1 DEF ThrottlerInv, SlotsKept, Taken
<1>10. QED BY <1>4, <1>5, <1>6, <1>7, <1>8, <1>9 DEF ThrottlerInv

\* throttler.go:304-326: calling Lock keeps it, for it only stops new readers.
LEMMA CallsLockKeeps ==
  ASSUME ThrottlerInv, CallsLock
  PROVE  ThrottlerInv'
<1>1. MySlice' = MySlice
  BY DEF CallsLock, MySlice, Slice
<1>2. TypeOK'
  <2>1. 0 \in 0 .. Cardinality(Pod)
    BY TypeFacts DEF ThrottlerInv
  <2>2. QED BY <2>1 DEF ThrottlerInv, TypeOK, CallsLock
<1>3. PlaceKnown' /\ TrackerPerPod' /\ BackendsCounted'
  BY DEF ThrottlerInv, PlaceKnown, TrackerPerPod, BackendsCounted, CallsLock
<1>4. SliceApplied' /\ Settled'
  BY DEF SliceApplied, Settled, CallsLock
<1>5. ScansAssigned' /\ AssignedBeforeAdmitted' /\ ListedOrDropped'
  BY DEF ThrottlerInv, ScansAssigned, AssignedBeforeAdmitted, InBreaker, ListedOrDropped, CallsLock
<1>6. SlotsKept'
  BY DEF ThrottlerInv, SlotsKept, Taken, CallsLock
<1>7. QED BY <1>2, <1>3, <1>4, <1>5, <1>6 DEF ThrottlerInv

\* throttler.go:319-330: assigning the slice keeps it consistent.
LEMMA AssignTrackersKeeps ==
  ASSUME ThrottlerInv, AssignTrackers
  PROVE  ThrottlerInv'
<1>1. MySlice' = MySlice
  BY DEF AssignTrackers, MySlice, Slice
<1>2. /\ MySlice \in SUBSET podTrackers
      /\ MySlice = {} <=> podTrackers = {}
      /\ Cardinality(MySlice) \in 0 .. Cardinality(Pod)
  BY MySliceListed, MySliceSize DEF ThrottlerInv
<1>3. /\ updater = "lock" /\ updater' = "capacity" /\ NoReaders
      /\ assigned' = MySlice /\ numTrackers' = Cardinality(MySlice)
      /\ UNCHANGED <<setup, podTrackers, clusterIP, numActivators, activatorIndex, backendCount>>
      /\ UNCHANGED <<capacity, backends, updates, direct, dropped, call, dest, untried, panic>>
  BY DEF AssignTrackers
<1>4. podTrackers \in SUBSET Tracker
  BY TypeFacts DEF ThrottlerInv
<1>5. TypeOK'
  BY <1>2, <1>3, <1>4 DEF ThrottlerInv, TypeOK
<1>6. PlaceKnown' /\ TrackerPerPod' /\ BackendsCounted'
  BY <1>3 DEF ThrottlerInv, PlaceKnown, TrackerPerPod, BackendsCounted
<1>7. SliceApplied'
  <2>1. clusterIP => Cardinality(MySlice) = 0
    BY MySliceSize DEF ThrottlerInv, TrackerPerPod
  <2>2. QED BY <1>1, <1>3, <2>1 DEF SliceApplied
<1>8. Settled' /\ ScansAssigned'
  BY <1>3 DEF Settled, ScansAssigned, NoReaders
<1>9. AssignedBeforeAdmitted'
  BY <1>2, <1>3 DEF ThrottlerInv, AssignedBeforeAdmitted, InBreaker
<1>10. ListedOrDropped'
  BY <1>2, <1>3 DEF ThrottlerInv, ListedOrDropped
<1>11. SlotsKept'
  BY <1>3 DEF ThrottlerInv, SlotsKept, Taken
<1>12. QED BY <1>5, <1>6, <1>7, <1>8, <1>9, <1>10, <1>11 DEF ThrottlerInv

\* throttler.go:332-338: setting the capacity does.
LEMMA UpdateConcurrencyKeeps ==
  ASSUME ThrottlerInv, UpdateConcurrency
  PROVE  ThrottlerInv'
<1> DEFINE value == calculateCapacity(backends, numTrackers, numActivators)
<1>1. MySlice' = MySlice
  BY DEF UpdateConcurrency, MySlice, Slice
<1>2. /\ updater = "capacity" /\ updater' = "idle"
      /\ backendCount' = backends /\ capacity' = value
      /\ UNCHANGED <<setup, podTrackers, clusterIP, assigned, numActivators, activatorIndex>>
      /\ UNCHANGED <<backends, numTrackers, updates, direct, dropped, call, dest, untried, panic>>
  BY DEF UpdateConcurrency
<1>3. /\ containerConcurrency \in Nat /\ numActivators \in Nat
      /\ backends \in Nat /\ numTrackers \in Nat
  BY TypeFacts DEF ThrottlerInv
<1>4. /\ MySlice = {} <=> podTrackers = {}
      /\ Cardinality(MySlice) = 0 <=> podTrackers = {}
  BY MySliceListed, MySliceSize DEF ThrottlerInv
<1>5. /\ clusterIP => numTrackers = 0
      /\ ~clusterIP => /\ numTrackers = Cardinality(assigned) /\ assigned = MySlice
                       /\ numTrackers = 0 <=> backends = 0
  BY <1>2, <1>4 DEF ThrottlerInv, SliceApplied, BackendsCounted
<1>6. numTrackers > 0 => backends > 0
  BY <1>3, <1>5
<1>7. /\ value \in 0 .. RevisionMaxConcurrency
      /\ value = 0 <=> backends = 0
      /\ containerConcurrency > 0 /\ (numTrackers = 0 => backends = 0) =>
           LET slots == containerConcurrency * numTrackers IN
           value = IF slots > RevisionMaxConcurrency THEN RevisionMaxConcurrency ELSE slots
  BY <1>3, <1>6, CapacityValue
<1> HIDE DEF value
<1>8. TypeOK'
  BY <1>2, <1>7 DEF ThrottlerInv, TypeOK
<1>9. PlaceKnown' /\ TrackerPerPod' /\ BackendsCounted'
  BY <1>2 DEF ThrottlerInv, PlaceKnown, TrackerPerPod, BackendsCounted
<1>10. SliceApplied'
  BY <1>1, <1>2, <1>5 DEF SliceApplied
<1>11. Settled'
  BY <1>1, <1>2, <1>5, <1>7 DEF Settled
<1>12. ScansAssigned' /\ ListedOrDropped'
  BY <1>2 DEF ThrottlerInv, ScansAssigned, ListedOrDropped
<1>13. AssignedBeforeAdmitted'
  <2>1. direct /\ assigned = {} => value = 0
    BY <1>4, <1>5, <1>7 DEF ThrottlerInv, AssignedBeforeAdmitted
  <2>2. QED BY <1>2, <2>1 DEF ThrottlerInv, AssignedBeforeAdmitted, InBreaker
<1>14. SlotsKept'
  BY <1>2 DEF ThrottlerInv, SlotsKept, Taken
<1>15. QED BY <1>8, <1>9, <1>10, <1>11, <1>12, <1>13, <1>14 DEF ThrottlerInv

\* Every step of requests and updates keeps the throttler consistent.
LEMMA ThrottlerStep == ThrottlerInv /\ [Next]_vars => ThrottlerInv'
<1> SUFFICES ASSUME ThrottlerInv, [Next]_vars PROVE ThrottlerInv'
  OBVIOUS
<1>1. CASE run
  BY <1>1, handleUpdateKeeps, handlePubEpsUpdateKeeps, CallsLockKeeps, AssignTrackersKeeps,
     UpdateConcurrencyKeeps DEF run, updateCapacity
<1>2. CASE \E r \in Req : Try(r)
  BY <1>2, TryKeeps
<1>3. CASE UNCHANGED vars
  <2>1. PlaceKnown' /\ TrackerPerPod' /\ BackendsCounted' /\ SliceApplied' /\ Settled'
    BY <1>3, RequestLeavesUpdates DEF vars
  <2>2. QED BY <1>3, <2>1 DEF ThrottlerInv, TypeOK, ScansAssigned, AssignedBeforeAdmitted, InBreaker,
                             ListedOrDropped, SlotsKept, Taken, vars
<1>4. QED BY <1>1, <1>2, <1>3 DEF Next

\* The state of a revision throttler is consistent, whatever updates arrive and however
\* requests run between the steps of one.
THEOREM ThrottlerConsistent == Spec => []ThrottlerInv
<1>1. QED BY InitThrottler, ThrottlerStep, PTL DEF Spec

\* throttler.go:165-290: the variables of the throttler and of its requests have the
\* types that the code gives them; the capacity never exceeds the maximum, nor the
\* number of trackers the number of pods.
THEOREM ThrottlerTypeCorrect == Spec => []TypeOK
<1>1. ThrottlerInv => TypeOK
  BY DEF ThrottlerInv
<1>2. QED BY <1>1, ThrottlerConsistent, PTL

\* throttler.go:302, 657 and 255: between two updates the slice and the capacity are
\* those of the last one.
THEOREM UpdatesSettle == Spec => []Settled
<1>1. ThrottlerInv => Settled
  BY DEF ThrottlerInv
<1>2. QED BY <1>1, ThrottlerConsistent, PTL

\* throttler.go:344: as the capacity follows the trackers, no policy panics over an
\* empty list while every update lists a pod to reach directly.
THEOREM DirectNeverPanics == Spec => []DirectFindsATracker
<1>1. ThrottlerInv => DirectFindsATracker
  BY DEF ThrottlerInv, AssignedBeforeAdmitted, DirectFindsATracker
<1>2. QED BY <1>1, ThrottlerConsistent, PTL

\* throttler.go:384-400: the slices divide the pods evenly, for any number of activators
\* and of pods and after every update.
THEOREM SlicesAlwaysPartition == Spec => []SlicesPartition
<1>1. TypeOK => SlicesPartition
  BY TypeFacts, ActivatorsDividePods
<1>2. QED BY <1>1, ThrottlerTypeCorrect, PTL

\* throttler.go:245: the slots that firstAvailableLBPolicy reserves suffice: no pod that
\* stays listed gets more requests than it takes.
THEOREM NoPodOverbooked == Spec => []PodsNotOverbooked
<1>1. ThrottlerInv => PodsNotOverbooked
  <2> SUFFICES ASSUME ThrottlerInv,
                      lbPolicy = "firstAvailableLBPolicy" /\ containerConcurrency > 0,
                      NEW p \in Pod \ dropped
               PROVE  Cardinality({r \in Req : Address(dest[r]) = p /\ call[r] \in {"acquired", "calling"}})
                        <= containerConcurrency
    BY DEF PodsNotOverbooked
  <2> DEFINE served == {r \in Req : Address(dest[r]) = p /\ call[r] \in {"acquired", "calling"}}
  <2>1. containerConcurrency \in Nat
    BY TypeFacts DEF ThrottlerInv
  <2>2. CASE served = {}
    BY <2>1, <2>2, FS_EmptySet
  <2>3. CASE served # {}
    <3>1. ASSUME NEW r \in served
          PROVE  dest[r] \in podTrackers /\ dest[r].dest = p
      <4>1. Address(dest[r]) = p /\ p \in Pod /\ p \notin dropped
        OBVIOUS
      <4>2. dest[r] \in Tracker \cup {ClusterIP, Nil}
        BY DEF ThrottlerInv, TypeOK
      <4>3. dest[r] \notin {ClusterIP, Nil}
        BY <4>1, ThrottlerAssumption DEF Address
      <4>4. dest[r] \in Tracker /\ dest[r].dest = p
        BY <4>1, <4>2, <4>3 DEF Address
      <4>5. QED BY <4>1, <4>4 DEF ThrottlerInv, ListedOrDropped
    <3>2. PICK q \in served : TRUE
      BY <2>3
    <3>3. \A r \in served : dest[r] = dest[q]
      BY <3>1, <3>2 DEF ThrottlerInv, TrackerPerPod
    <3>4. served \in SUBSET Taken(dest[q])
      BY <3>3 DEF Taken
    <3>5. dest[q] \in Tracker
      BY <3>1, <3>2, TypeFacts DEF ThrottlerInv
    <3>6. Cardinality(Taken(dest[q])) <= containerConcurrency
      BY <3>5 DEF ThrottlerInv, SlotsKept
    <3>7. IsFiniteSet(Taken(dest[q]))
      BY ThrottlerAssumption, FS_Subset DEF Taken
    <3> HIDE DEF served
    <3>8. Cardinality(served) <= Cardinality(Taken(dest[q])) /\ IsFiniteSet(served)
      BY <3>4, <3>7, FS_Subset
    <3>9. Cardinality(served) \in Nat /\ Cardinality(Taken(dest[q])) \in Nat
      BY <3>7, <3>8, FS_CardinalityType
    <3>10. QED BY <2>1, <3>6, <3>8, <3>9 DEF served
  <2>4. QED BY <2>2, <2>3
<1>2. QED BY <1>1, ThrottlerConsistent, PTL

\* throttler.go:425-456: a request that chooses a pod when no update is being applied
\* chooses one that the last update lists, by the tracker it has now.
THEOREM NoDestIsStale == Spec => NoStaleDest
<1> DEFINE Fresh == \A r \in Req :
             call[r] # "acquired" /\ call'[r] = "acquired" /\ updater \notin {"assign", "lock"} =>
               IF clusterIP THEN dest'[r] = ClusterIP ELSE dest'[r] \in podTrackers
<1>1. ThrottlerInv /\ [Next]_vars => [Fresh]_vars
  <2> SUFFICES ASSUME ThrottlerInv, Next, NEW r \in Req,
                      call[r] # "acquired", call'[r] = "acquired", updater \notin {"assign", "lock"}
               PROVE  IF clusterIP THEN dest'[r] = ClusterIP ELSE dest'[r] \in podTrackers
    OBVIOUS
  <2>1. /\ call \in [Req -> {"idle", "waiting", "admitted", "scanning", "acquired", "calling", "returned"}]
        /\ dest \in [Req -> Tracker \cup {ClusterIP, Nil}]
        /\ updater \in {"idle", "assign", "lock", "capacity"}
    BY DEF ThrottlerInv, TypeOK
  <2>2. ~clusterIP => assigned \in SUBSET podTrackers
    <3>1. MySlice \in SUBSET podTrackers
      BY MySliceListed DEF ThrottlerInv
    <3>2. QED BY <2>1, <3>1 DEF ThrottlerInv, SliceApplied
  <2>3. call[r] = "scanning" => ~clusterIP /\ untried[r] \subseteq assigned
    BY DEF ThrottlerInv, ScansAssigned
  <2>4. ~run
    BY <2>1 DEF run, handleUpdate, handlePubEpsUpdate, updateCapacity, CallsLock, AssignTrackers,
                UpdateConcurrency
  <2>5. PICK q \in Req : Try(q)
    BY <2>4 DEF Next
  <2>6. AcquiresDest(q) \/ Reserve(q)
    BY <2>1, <2>5 DEF Try, TryStarts, Admitted, GivesUp, Reenqueues, CallsFunction, FunctionReturns
  <2>7. q = r
    BY <2>1, <2>6 DEF AcquiresDest, Reserve, simpleRandomChoice2Policy
  <2>8. CASE AcquiresDest(r)
    <3>1. CASE clusterIP
      BY <2>1, <2>8, <3>1 DEF AcquiresDest
    <3>2. CASE ~clusterIP
      <4>1. lbPolicy = "simpleRandomChoice2Policy" /\ simpleRandomChoice2Policy(r, assigned)
        BY <2>1, <2>8, <3>2 DEF AcquiresDest
      <4>2. PICK t \in assigned : dest' = [dest EXCEPT ![r] = t]
        BY <4>1 DEF simpleRandomChoice2Policy
      <4>3. QED BY <2>1, <2>2, <3>2, <4>2
    <3>3. QED BY <3>1, <3>2
  <2>9. CASE Reserve(r)
    <3>1. PICK t \in untried[r] : dest' = [dest EXCEPT ![r] = t]
      BY <2>9 DEF Reserve
    <3>2. QED BY <2>1, <2>2, <2>3, <2>9, <3>1 DEF Reserve
  <2>10. QED BY <2>6, <2>7, <2>8, <2>9
<1>2. QED BY <1>1, ThrottlerConsistent, PTL DEF Spec, NoStaleDest

==============================================================================
