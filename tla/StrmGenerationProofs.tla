------------------------ MODULE StrmGenerationProofs ------------------------
(***************************************************************************)
(* Proofs about StrmGeneration, for every set of tasks and files, every    *)
(* directory and sync path, and every value of the bounds.                 *)
(***************************************************************************)
EXTENDS StrmGeneration, SequenceTheorems, FiniteSetTheorems,
        FunctionTheorems, TLAPS

-----------------------------------------------------------------------------
(* Sequences in which nothing comes twice, and their parts.                *)

Once(seq) == \A i, j \in DOMAIN seq : seq[i] = seq[j] => i = j

Rank(K, i) == Cardinality({j \in K : j <= i})

LEMMA RankProperties ==
  ASSUME NEW K, K \subseteq Nat, IsFiniteSet(K)
  PROVE  /\ \A i \in K : Rank(K, i) \in 1 .. Cardinality(K)
         /\ \A i, j \in K : i < j => Rank(K, i) < Rank(K, j)
<1>1. ASSUME NEW i \in K
      PROVE  /\ IsFiniteSet({j \in K : j <= i})
             /\ Rank(K, i) \in 1 .. Cardinality(K)
  <2>1. {j \in K : j <= i} \in SUBSET K
    OBVIOUS
  <2>2. /\ IsFiniteSet({j \in K : j <= i})
        /\ Cardinality({j \in K : j <= i}) <= Cardinality(K)
    BY <2>1, FS_Subset
  <2>3. Cardinality({j \in K : j <= i}) \in Nat /\ Cardinality(K) \in Nat
    BY <2>2, FS_CardinalityType
  <2>4. i \in {j \in K : j <= i}
    OBVIOUS
  <2>5. Cardinality({j \in K : j <= i}) # 0
    BY <2>2, <2>4, FS_EmptySet
  <2> QED
    BY <2>2, <2>3, <2>5 DEF Rank
<1>2. ASSUME NEW i \in K, NEW j \in K, i < j
      PROVE  Rank(K, i) < Rank(K, j)
  <2> DEFINE A == {k \in K : k <= i}
  <2> DEFINE B == {k \in K : k <= j}
  <2>1. A \in SUBSET B /\ j \in B /\ j \notin A
    <3>1. i \in Nat /\ j \in Nat /\ \A k \in K : k \in Nat /\ (k <= i => k <= j)
      BY <1>2
    <3>2. ~(j <= i) /\ j <= j
      BY <1>2, <3>1
    <3> QED
      BY <3>1, <3>2
  <2>2. IsFiniteSet(A) /\ IsFiniteSet(B)
    BY <1>1
  <2>3. Cardinality(A) \in Nat /\ Cardinality(B) \in Nat
    BY <2>2, FS_CardinalityType
  <2> HIDE DEF A, B
  <2>4. Cardinality(A) <= Cardinality(B) /\ Cardinality(A) # Cardinality(B)
    BY <2>1, <2>2, FS_Subset
  <2> QED
    BY <2>3, <2>4 DEF A, B, Rank
<1> QED
  BY <1>1, <1>2

\* Place enumerates a finite set of numbers in their order.
LEMMA PlaceProperties ==
  ASSUME NEW K, K \subseteq Nat, IsFiniteSet(K)
  PROVE  /\ \A n \in 1 .. Cardinality(K) : Place(K, n) \in K /\ Rank(K, Place(K, n)) = n
         /\ \A i \in K : Place(K, Rank(K, i)) = i
<1> DEFINE f == [i \in K |-> Rank(K, i)]
<1> DEFINE N == 1 .. Cardinality(K)
<1>1. Cardinality(K) \in Nat
  BY FS_CardinalityType
<1>2. IsFiniteSet(N) /\ Cardinality(N) = Cardinality(K)
  BY <1>1, FS_Interval
<1>3. \A i, j \in K : Rank(K, i) = Rank(K, j) => i = j
  <2>1. \A i, j \in K : i < j => Rank(K, i) < Rank(K, j)
    BY RankProperties
  <2>2. \A i \in K : Rank(K, i) \in Nat
    <3>1. \A i \in K : Rank(K, i) \in 1 .. Cardinality(K)
      BY RankProperties
    <3> QED
      BY <1>1, <3>1
  <2>3. \A i \in K : i \in Nat
    OBVIOUS
  <2> QED
    BY <2>1, <2>2, <2>3
<1>4. f \in [K -> N] /\ \A i, j \in K : f[i] = f[j] => i = j
  BY <1>3, RankProperties
<1> HIDE DEF f, N
<1>5. f \in Injection(K, N)
  BY <1>4, Fun_IsInj
<1>6. f \in Surjection(K, N)
  BY <1>2, <1>5, FS_Injection
<1>7. \A n \in N : \E i \in K : Rank(K, i) = n
  <2>1. \A n \in N : \E i \in K : f[i] = n
    BY <1>6, Fun_SurjectionProperties
  <2> QED
    BY <2>1 DEF f
<1>8. \A n \in N : Place(K, n) \in K /\ Rank(K, Place(K, n)) = n
  BY <1>7 DEF Place, Rank
<1>9. \A i \in K : Rank(K, i) \in N
  BY RankProperties DEF N
<1> QED
  BY <1>3, <1>8, <1>9 DEF N

LEMMA PlaceIncreases ==
  ASSUME NEW K, K \subseteq Nat, IsFiniteSet(K),
         NEW m \in 1 .. Cardinality(K), NEW n \in 1 .. Cardinality(K), m < n
  PROVE  Place(K, m) < Place(K, n)
<1>1. /\ Place(K, m) \in K /\ Rank(K, Place(K, m)) = m
      /\ Place(K, n) \in K /\ Rank(K, Place(K, n)) = n
  BY PlaceProperties
<1>2. Place(K, n) < Place(K, m) => n < m
  BY <1>1, RankProperties
<1>3. Place(K, m) # Place(K, n)
  BY <1>1
<1>4. Cardinality(K) \in Nat /\ Place(K, m) \in Nat /\ Place(K, n) \in Nat
  BY <1>1, FS_CardinalityType
<1> HIDE DEF Place
<1>5. ~(n < m)
  BY <1>4
<1> QED
  BY <1>2, <1>3, <1>4, <1>5

LEMMA AmongProperties ==
  ASSUME NEW X, NEW seq \in Seq(X), NEW S
  PROVE  /\ Among(seq, S) \in Seq(X)
         /\ ToSet(Among(seq, S)) = ToSet(seq) \cap S
         /\ Once(seq) => Once(Among(seq, S))
         /\ \A a, b : Precedes(Among(seq, S), a, b) => Precedes(seq, a, b)
<1> DEFINE K == {i \in DOMAIN seq : seq[i] \in S}
<1>1. Len(seq) \in Nat /\ DOMAIN seq = 1 .. Len(seq)
  BY LenProperties
<1>2. K \in SUBSET (1 .. Len(seq)) /\ K \subseteq Nat
  BY <1>1
<1>3. IsFiniteSet(K) /\ Cardinality(K) \in Nat
  <2>1. IsFiniteSet(1 .. Len(seq))
    BY <1>1, FS_Interval
  <2> HIDE DEF K
  <2>2. IsFiniteSet(K)
    BY <1>2, <2>1, FS_Subset
  <2> QED
    BY <2>2, FS_CardinalityType
<1>4. Among(seq, S) = [n \in 1 .. Cardinality(K) |-> seq[Place(K, n)]]
  BY DEF Among
<1>5. \A i \in K : i \in DOMAIN seq /\ seq[i] \in S /\ seq[i] \in X
  BY <1>1, ElementOfSeq
<1>6. \A i \in DOMAIN seq : seq[i] \in S => i \in K
  OBVIOUS
<1> HIDE DEF K
<1>7. \A n \in 1 .. Cardinality(K) : Place(K, n) \in K
  BY <1>2, <1>3, PlaceProperties
<1>8. \A i \in K : Rank(K, i) \in 1 .. Cardinality(K) /\ Place(K, Rank(K, i)) = i
  BY <1>2, <1>3, PlaceProperties, RankProperties
<1>9. \A m, n \in 1 .. Cardinality(K) : m < n => Place(K, m) < Place(K, n)
  BY <1>2, <1>3, PlaceIncreases
<1>10. Among(seq, S) \in Seq(X)
  BY <1>3, <1>4, <1>5, <1>7
<1>11. /\ DOMAIN Among(seq, S) = 1 .. Cardinality(K)
       /\ \A n \in 1 .. Cardinality(K) : Among(seq, S)[n] = seq[Place(K, n)]
  BY <1>4
<1>12. ToSet(Among(seq, S)) = ToSet(seq) \cap S
  <2>1. ToSet(Among(seq, S)) \subseteq ToSet(seq) \cap S
    BY <1>5, <1>7, <1>11 DEF ToSet
  <2>2. ASSUME NEW x \in ToSet(seq) \cap S
        PROVE  x \in ToSet(Among(seq, S))
    <3>1. PICK i \in DOMAIN seq : seq[i] = x
      BY DEF ToSet
    <3>2. i \in K
      BY <1>6, <3>1
    <3> QED
      BY <1>8, <1>11, <3>1, <3>2 DEF ToSet
  <2> QED
    BY <2>1, <2>2
<1>13. ASSUME Once(seq)
       PROVE  Once(Among(seq, S))
  <2>1. \A m, n \in 1 .. Cardinality(K) : Place(K, m) = Place(K, n) => m = n
    <3>1. \A n \in 1 .. Cardinality(K) : Rank(K, Place(K, n)) = n
      BY <1>2, <1>3, PlaceProperties
    <3> QED
      BY <3>1
  <2> QED
    BY <1>5, <1>7, <1>11, <1>13, <2>1 DEF Once
<1>14. ASSUME NEW a, NEW b, Precedes(Among(seq, S), a, b)
       PROVE  Precedes(seq, a, b)
  BY <1>5, <1>7, <1>9, <1>11, <1>14 DEF Precedes
<1> QED
  BY <1>10, <1>12, <1>13, <1>14

LEMMA WithoutProperties ==
  ASSUME NEW X, NEW seq \in Seq(X), NEW S
  PROVE  /\ Without(seq, S) \in Seq(X)
         /\ ToSet(Without(seq, S)) = ToSet(seq) \ S
         /\ Once(seq) => Once(Without(seq, S))
         /\ \A a, b : Precedes(Without(seq, S), a, b) => Precedes(seq, a, b)
<1> DEFINE R == ToSet(seq) \ S
<1>1. ToSet(seq) \cap R = ToSet(seq) \ S
  OBVIOUS
<1>2. Without(seq, S) = Among(seq, R)
  BY DEF Without
<1> HIDE DEF R
<1>3. /\ Among(seq, R) \in Seq(X)
      /\ ToSet(Among(seq, R)) = ToSet(seq) \cap R
      /\ Once(seq) => Once(Among(seq, R))
      /\ \A a, b : Precedes(Among(seq, R), a, b) => Precedes(seq, a, b)
  BY AmongProperties
<1> QED
  BY <1>1, <1>2, <1>3

LEMMA ConcatOnce ==
  ASSUME NEW X, NEW s \in Seq(X), NEW u \in Seq(X)
  PROVE  /\ s \o u \in Seq(X)
         /\ ToSet(s \o u) = ToSet(s) \cup ToSet(u)
         /\ Once(s) /\ Once(u) /\ ToSet(s) \cap ToSet(u) = {} => Once(s \o u)
         /\ \A a, b : Precedes(s \o u, a, b) /\ b \notin ToSet(u) => Precedes(s, a, b)
<1> DEFINE m == Len(s)
<1> DEFINE n == Len(u)
<1> DEFINE w == s \o u
<1>1. m \in Nat /\ n \in Nat /\ DOMAIN s = 1 .. m /\ DOMAIN u = 1 .. n
  BY LenProperties
<1>2. /\ w \in Seq(X) /\ Len(w) = m + n
      /\ \A i \in 1 .. m + n : w[i] = IF i <= m THEN s[i] ELSE u[i - m]
  BY ConcatProperties
<1>3. DOMAIN w = 1 .. m + n
  BY <1>1, <1>2, LenProperties
<1> HIDE DEF m, n, w
<1>4. \A i \in 1 .. m + n : \/ i \in 1 .. m /\ w[i] = s[i]
                            \/ i - m \in 1 .. n /\ w[i] = u[i - m] /\ ~(i \in 1 .. m)
  BY <1>1, <1>2
<1>5. \A i \in 1 .. m : i \in 1 .. m + n /\ w[i] = s[i]
  BY <1>1, <1>2
<1>6. \A i \in 1 .. n : i + m \in 1 .. m + n /\ w[i + m] = u[i]
  <2>1. \A i \in 1 .. n : i + m \in 1 .. m + n /\ ~(i + m <= m) /\ (i + m) - m = i
    BY <1>1
  <2> QED
    BY <1>2, <2>1
<1>7. ToSet(w) = ToSet(s) \cup ToSet(u)
  <2>1. ASSUME NEW x \in ToSet(w)
        PROVE  x \in ToSet(s) \cup ToSet(u)
    <3>1. PICK i \in 1 .. m + n : w[i] = x
      BY <1>3 DEF ToSet
    <3> QED
      BY <1>1, <1>4, <3>1 DEF ToSet
  <2>2. ASSUME NEW x \in ToSet(s)
        PROVE  x \in ToSet(w)
    <3>1. PICK i \in 1 .. m : s[i] = x
      BY <1>1 DEF ToSet
    <3> QED
      BY <1>3, <1>5, <3>1 DEF ToSet
  <2>3. ASSUME NEW x \in ToSet(u)
        PROVE  x \in ToSet(w)
    <3>1. PICK i \in 1 .. n : u[i] = x
      BY <1>1 DEF ToSet
    <3> QED
      BY <1>3, <1>6, <3>1 DEF ToSet
  <2> QED
    BY <2>1, <2>2, <2>3
<1>8. ASSUME Once(s), Once(u), ToSet(s) \cap ToSet(u) = {}
      PROVE  Once(w)
  <2>1. ASSUME NEW i \in 1 .. m + n, NEW j \in 1 .. m + n, w[i] = w[j]
        PROVE  i = j
    <3>1. CASE i \in 1 .. m /\ j \in 1 .. m
      BY <1>1, <1>5, <1>8, <2>1, <3>1 DEF Once
    <3>2. CASE ~(i \in 1 .. m) /\ ~(j \in 1 .. m)
      <4>1. i - m \in 1 .. n /\ j - m \in 1 .. n /\ u[i - m] = u[j - m]
        BY <1>4, <2>1, <3>2
      <4>2. i - m = j - m
        BY <1>1, <1>8, <4>1 DEF Once
      <4> QED
        BY <1>1, <4>2
    <3>3. ASSUME NEW k \in 1 .. m, NEW l \in 1 .. n, s[k] = u[l]
          PROVE  FALSE
      <4>1. s[k] \in ToSet(s) /\ u[l] \in ToSet(u)
        BY <1>1 DEF ToSet
      <4> QED
        BY <1>8, <3>3, <4>1
    <3> QED
      BY <1>4, <2>1, <3>1, <3>2, <3>3
  <2> QED
    BY <1>3, <2>1 DEF Once
<1>9. ASSUME NEW a, NEW b, Precedes(w, a, b), b \notin ToSet(u)
      PROVE  Precedes(s, a, b)
  <2>1. PICK i \in 1 .. m + n, j \in 1 .. m + n : i < j /\ w[i] = a /\ w[j] = b
    BY <1>3, <1>9 DEF Precedes
  <2>2. j \in 1 .. m
    BY <1>1, <1>4, <1>9, <2>1 DEF ToSet
  <2>3. i \in 1 .. m
    BY <1>1, <2>1, <2>2
  <2> QED
    BY <1>1, <1>5, <2>1, <2>2, <2>3 DEF Precedes
<1> QED
  BY <1>2, <1>7, <1>8, <1>9 DEF w

LEMMA SingletonOnce ==
  ASSUME NEW X, NEW x \in X
  PROVE  <<x>> \in Seq(X) /\ ToSet(<<x>>) = {x} /\ Once(<<x>>)
<1>1. <<x>> \in Seq(X) /\ DOMAIN <<x>> = {1} /\ <<x>>[1] = x
  OBVIOUS
<1> QED
  BY <1>1 DEF ToSet, Once

LEMMA EmptyOnce ==
  ASSUME NEW X
  PROVE  << >> \in Seq(X) /\ ToSet(<< >>) = {} /\ Once(<< >>)
<1>1. << >> \in Seq(X) /\ DOMAIN << >> = {}
  OBVIOUS
<1> QED
  BY <1>1 DEF ToSet, Once

LEMMA AppendOnce ==
  ASSUME NEW X, NEW s \in Seq(X), NEW x \in X
  PROVE  /\ Append(s, x) \in Seq(X)
         /\ ToSet(Append(s, x)) = ToSet(s) \cup {x}
         /\ Once(s) /\ x \notin ToSet(s) => Once(Append(s, x))
<1>1. Append(s, x) = s \o <<x>>
  BY AppendIsConcat
<1>2. <<x>> \in Seq(X) /\ ToSet(<<x>>) = {x} /\ Once(<<x>>)
  BY SingletonOnce
<1> DEFINE u == <<x>>
<1> HIDE DEF u
<1>3. /\ s \o u \in Seq(X)
      /\ ToSet(s \o u) = ToSet(s) \cup ToSet(u)
      /\ Once(s) /\ Once(u) /\ ToSet(s) \cap ToSet(u) = {} => Once(s \o u)
  <2>1. u \in Seq(X)
    BY <1>2 DEF u
  <2> QED
    BY <2>1, ConcatOnce
<1> QED
  BY <1>1, <1>2, <1>3 DEF u

\* A set in some order.
LEMMA SetToSeqOnce ==
  ASSUME NEW S, IsFiniteSet(S)
  PROVE  SetToSeq(S) \in Seq(S) /\ ToSet(SetToSeq(S)) = S /\ Once(SetToSeq(S))
<1> DEFINE N == 1 .. Cardinality(S)
<1> DEFINE f == SetToSeq(S)
<1>1. Cardinality(S) \in Nat /\ ExistsBijection(N, S)
  BY FS_CardinalityType
<1>2. PICK g \in Bijection(N, S) : TRUE
  BY <1>1 DEF ExistsBijection
<1>3. g \in [N -> S] /\ \A i, j \in N : g[i] = g[j] => i = j
  BY <1>2, Fun_BijectionProperties
<1>4. \E h \in [N -> S] : IsInjective(h)
  <2>1. DOMAIN g = N
    BY <1>3
  <2> QED
    BY <1>3, <2>1 DEF IsInjective
<1>5. f = CHOOSE h \in [N -> S] : IsInjective(h)
  BY DEF SetToSeq
<1> HIDE DEF f
<1>6. f \in [N -> S] /\ IsInjective(f)
  BY <1>4, <1>5
<1>7. DOMAIN f = N /\ f \in Seq(S)
  BY <1>1, <1>6
<1>8. \A i, j \in N : f[i] = f[j] => i = j
  BY <1>6, <1>7 DEF IsInjective
<1>9. IsFiniteSet(N) /\ Cardinality(N) = Cardinality(S)
  BY <1>1, FS_Interval
<1>10. f \in Surjection(N, S)
  <2> HIDE DEF N
  <2>1. f \in Injection(N, S)
    BY <1>6, <1>8, Fun_IsInj
  <2> QED
    BY <1>9, <2>1, FS_Injection
<1>11. \A x \in S : \E i \in N : f[i] = x
  <2> HIDE DEF N
  <2> QED
    BY <1>10, Fun_SurjectionProperties
<1>12. ToSet(f) = S
  BY <1>6, <1>7, <1>11 DEF ToSet
<1> QED
  BY <1>7, <1>8, <1>12 DEF Once, f

\* The beginning of a sequence.
LEMMA PrefixOnce ==
  ASSUME NEW X, NEW s \in Seq(X), NEW n \in 0 .. Len(s)
  PROVE  /\ SubSeq(s, 1, n) \in Seq(X)
         /\ ToSet(SubSeq(s, 1, n)) \subseteq ToSet(s)
         /\ Once(s) => Once(SubSeq(s, 1, n))
         /\ n > 0 => SubSeq(s, 1, n) # << >>
<1>1. Len(s) \in Nat /\ DOMAIN s = 1 .. Len(s)
  BY LenProperties
<1>2. n \in Nat /\ n <= Len(s)
  BY <1>1
<1>3. \A i \in 1 .. n : s[i] \in X
  BY <1>1, <1>2, ElementOfSeq
<1>4. /\ SubSeq(s, 1, n) \in Seq(X)
      /\ Len(SubSeq(s, 1, n)) = IF 1 <= n THEN n - 1 + 1 ELSE 0
      /\ \A i \in 1 .. n - 1 + 1 : SubSeq(s, 1, n)[i] = s[1 + i - 1]
  BY <1>2, <1>3, SubSeqProperties
<1>5. Len(SubSeq(s, 1, n)) = n
  BY <1>2, <1>4
<1>6. DOMAIN SubSeq(s, 1, n) = 1 .. n
  BY <1>4, <1>5, LenProperties
<1>7. \A i \in 1 .. n : SubSeq(s, 1, n)[i] = s[i] /\ i \in DOMAIN s
  BY <1>1, <1>2, <1>4
<1>8. ToSet(SubSeq(s, 1, n)) \subseteq ToSet(s)
  BY <1>6, <1>7 DEF ToSet
<1>9. Once(s) => Once(SubSeq(s, 1, n))
  BY <1>6, <1>7 DEF Once
<1> QED
  BY <1>4, <1>5, <1>8, <1>9

LEMMA HeadOnce ==
  ASSUME NEW X, NEW s \in Seq(X), s # << >>, Once(s)
  PROVE  /\ Head(s) \in X
         /\ Tail(s) \in Seq(X)
         /\ Head(s) \in ToSet(s)
         /\ ToSet(Tail(s)) = ToSet(s) \ {Head(s)}
         /\ Once(Tail(s))
<1> DEFINE n == Len(s)
<1>1. n \in Nat /\ n # 0 /\ DOMAIN s = 1 .. n
  BY LenProperties, EmptySeq
<1>2. /\ Head(s) = s[1] /\ Head(s) \in X
      /\ Tail(s) \in Seq(X) /\ Len(Tail(s)) = n - 1
      /\ \A i \in 1 .. Len(Tail(s)) : Tail(s)[i] = s[i + 1]
  BY HeadTailProperties
<1>3. DOMAIN Tail(s) = 1 .. n - 1
  BY <1>1, <1>2, LenProperties
<1> HIDE DEF n
<1>4. \A i \in 1 .. n - 1 : Tail(s)[i] = s[i + 1] /\ i + 1 \in 1 .. n /\ i + 1 # 1
  BY <1>1, <1>2
<1>5. \A i \in 1 .. n : i # 1 => i - 1 \in 1 .. n - 1 /\ Tail(s)[i - 1] = s[i]
  BY <1>1, <1>2
<1>6. 1 \in 1 .. n
  BY <1>1
<1>7. ToSet(Tail(s)) \subseteq ToSet(s) \ {s[1]}
  <2>1. \A i \in 1 .. n : s[i] = s[1] => i = 1
    BY <1>1, <1>6 DEF Once
  <2> QED
    BY <1>1, <1>3, <1>4, <2>1 DEF ToSet
<1>8. ASSUME NEW x \in ToSet(s), x # s[1]
      PROVE  x \in ToSet(Tail(s))
  <2>1. PICK i \in 1 .. n : s[i] = x
    BY <1>1 DEF ToSet
  <2> QED
    BY <1>3, <1>5, <1>8, <2>1 DEF ToSet
<1>9. Once(Tail(s))
  <2>1. ASSUME NEW i \in 1 .. n - 1, NEW j \in 1 .. n - 1, Tail(s)[i] = Tail(s)[j]
        PROVE  i = j
    <3>1. i + 1 = j + 1
      BY <1>1, <1>4, <2>1 DEF Once
    <3> QED
      BY <1>1, <3>1
  <2> QED
    BY <1>3, <2>1 DEF Once
<1>10. s[1] \in ToSet(s)
  BY <1>1, <1>6 DEF ToSet
<1> QED
  BY <1>2, <1>7, <1>8, <1>9, <1>10

LEMMA OnceIsCounted ==
  ASSUME NEW X, NEW s \in Seq(X), Once(s)
  PROVE  /\ IsFiniteSet(ToSet(s))
         /\ Len(s) = Cardinality(ToSet(s))
<1>1. Len(s) \in Nat /\ DOMAIN s = 1 .. Len(s)
  BY LenProperties
<1> DEFINE D == 1 .. Len(s)
<1>2. s \in [D -> ToSet(s)]
  <2>1. s = [i \in D |-> s[i]]
    BY <1>1, LenProperties
  <2>2. \A i \in D : s[i] \in ToSet(s)
    BY <1>1 DEF ToSet
  <2> QED
    BY <2>1, <2>2
<1>3. \A i, j \in D : s[i] = s[j] => i = j
  BY <1>1 DEF Once
<1>4. \A x \in ToSet(s) : \E i \in D : s[i] = x
  BY <1>1 DEF ToSet
<1>5. IsFiniteSet(D) /\ Cardinality(D) = Len(s)
  BY <1>1, FS_Interval, SMTT(40)
<1> HIDE DEF D
<1>6. s \in Bijection(D, ToSet(s))
  BY <1>2, <1>3, <1>4, Fun_IsBij
<1>7. ExistsBijection(D, ToSet(s))
  BY <1>6, Fun_ExistsBij
<1> QED
  BY <1>5, <1>7, FS_Bijection

-----------------------------------------------------------------------------
(* The counters of a parent.                                               *)

Items == [total : Nat, accepted : Nat, failed : Nat, skipped : Nat,
          changed : BOOLEAN, submitted : BOOLEAN]

LEMMA MaxOfTwo ==
  ASSUME NEW a \in Nat, NEW b \in Nat
  PROVE  Max({a, b}) \in Nat /\ Max({a, b}) = IF a >= b THEN a ELSE b
<1>1. \E x \in {a, b} : \A y \in {a, b} : x >= y
  <2>1. CASE a >= b
    BY <2>1
  <2>2. CASE ~(a >= b)
    BY <2>2
  <2> QED
    BY <2>1, <2>2
<1>2. Max({a, b}) \in {a, b} /\ \A y \in {a, b} : Max({a, b}) >= y
  BY <1>1 DEF Max
<1> QED
  BY <1>2

LEMMA RaisedItems ==
  ASSUME NEW r \in Items
  PROVE  /\ Raised(r) \in Items
         /\ Raised(r).total = IF r.total >= Processed(r) THEN r.total ELSE Processed(r)
         /\ Raised(r).accepted = r.accepted
         /\ Raised(r).failed = r.failed
         /\ Raised(r).skipped = r.skipped
         /\ Raised(r).changed = r.changed
         /\ Raised(r).submitted = r.submitted
<1> DEFINE m == Max({r.total, Processed(r)})
<1>1. Processed(r) \in Nat /\ r.total \in Nat
  BY DEF Processed, Items
<1>2. m \in Nat /\ m = IF r.total >= Processed(r) THEN r.total ELSE Processed(r)
  BY <1>1, MaxOfTwo
<1> HIDE DEF m
<1>3. Raised(r) = [r EXCEPT !.total = m]
  BY DEF Raised, m
<1> QED
  BY <1>2, <1>3 DEF Items

\* n results of one kind.
LEMMA AddAccepted ==
  ASSUME NEW r \in Items, NEW n \in Nat, NEW changed \in BOOLEAN,
         NEW s, s = Add(r, "accepted", n, changed)
  PROVE  /\ s \in Items
         /\ s.accepted = r.accepted + n /\ s.failed = r.failed /\ s.skipped = r.skipped
         /\ s.total = IF r.total >= Processed(r) + n THEN r.total ELSE Processed(r) + n
         /\ Processed(s) = Processed(r) + n
         /\ s.changed = (r.changed \/ changed)
         /\ s.submitted = r.submitted
<1> DEFINE v == r["accepted"] + n
<1> DEFINE c == r.changed \/ changed
<1> DEFINE u == [r EXCEPT !["accepted"] = v, !.changed = c]
<1>1. /\ u \in Items /\ u.total = r.total
      /\ u.accepted = r.accepted + n /\ u.failed = r.failed /\ u.skipped = r.skipped
      /\ u.changed = c
      /\ u.submitted = r.submitted
  <2>1. v \in Nat /\ v = r.accepted + n /\ c \in BOOLEAN
    BY DEF Items
  <2> HIDE DEF v, c
  <2> QED
    BY <2>1 DEF Items
<1>2. s = Raised(u)
  BY DEF Add
<1> HIDE DEF u, v
<1>3. /\ s \in Items
      /\ s.total = IF u.total >= Processed(u) THEN u.total ELSE Processed(u)
      /\ s.accepted = u.accepted /\ s.failed = u.failed /\ s.skipped = u.skipped
      /\ s.changed = u.changed /\ s.submitted = u.submitted
  BY <1>1, <1>2, RaisedItems
<1>4. r.accepted \in Nat /\ r.failed \in Nat /\ r.skipped \in Nat /\ r.total \in Nat
  BY DEF Items
<1>5. Processed(u) = Processed(r) + n
  BY <1>1, <1>4 DEF Processed
<1>6. Processed(s) = Processed(u)
  BY <1>3 DEF Processed
<1> QED
  BY <1>1, <1>3, <1>5, <1>6

LEMMA AddFailed ==
  ASSUME NEW r \in Items, NEW n \in Nat, NEW changed \in BOOLEAN,
         NEW s, s = Add(r, "failed", n, changed)
  PROVE  /\ s \in Items
         /\ s.accepted = r.accepted /\ s.failed = r.failed + n /\ s.skipped = r.skipped
         /\ s.total = IF r.total >= Processed(r) + n THEN r.total ELSE Processed(r) + n
         /\ Processed(s) = Processed(r) + n
         /\ s.changed = (r.changed \/ changed)
         /\ s.submitted = r.submitted
<1> DEFINE v == r["failed"] + n
<1> DEFINE c == r.changed \/ changed
<1> DEFINE u == [r EXCEPT !["failed"] = v, !.changed = c]
<1>1. /\ u \in Items /\ u.total = r.total
      /\ u.accepted = r.accepted /\ u.failed = r.failed + n /\ u.skipped = r.skipped
      /\ u.changed = c
      /\ u.submitted = r.submitted
  <2>1. v \in Nat /\ v = r.failed + n /\ c \in BOOLEAN
    BY DEF Items
  <2> HIDE DEF v, c
  <2> QED
    BY <2>1 DEF Items
<1>2. s = Raised(u)
  BY DEF Add
<1> HIDE DEF u, v
<1>3. /\ s \in Items
      /\ s.total = IF u.total >= Processed(u) THEN u.total ELSE Processed(u)
      /\ s.accepted = u.accepted /\ s.failed = u.failed /\ s.skipped = u.skipped
      /\ s.changed = u.changed /\ s.submitted = u.submitted
  BY <1>1, <1>2, RaisedItems
<1>4. r.accepted \in Nat /\ r.failed \in Nat /\ r.skipped \in Nat /\ r.total \in Nat
  BY DEF Items
<1>5. Processed(u) = Processed(r) + n
  BY <1>1, <1>4 DEF Processed
<1>6. Processed(s) = Processed(u)
  BY <1>3 DEF Processed
<1> QED
  BY <1>1, <1>3, <1>5, <1>6

LEMMA AddSkipped ==
  ASSUME NEW r \in Items, NEW n \in Nat, NEW changed \in BOOLEAN,
         NEW s, s = Add(r, "skipped", n, changed)
  PROVE  /\ s \in Items
         /\ s.accepted = r.accepted /\ s.failed = r.failed /\ s.skipped = r.skipped + n
         /\ s.total = IF r.total >= Processed(r) + n THEN r.total ELSE Processed(r) + n
         /\ Processed(s) = Processed(r) + n
         /\ s.changed = (r.changed \/ changed)
         /\ s.submitted = r.submitted
<1> DEFINE v == r["skipped"] + n
<1> DEFINE c == r.changed \/ changed
<1> DEFINE u == [r EXCEPT !["skipped"] = v, !.changed = c]
<1>1. /\ u \in Items /\ u.total = r.total
      /\ u.accepted = r.accepted /\ u.failed = r.failed /\ u.skipped = r.skipped + n
      /\ u.changed = c
      /\ u.submitted = r.submitted
  <2>1. v \in Nat /\ v = r.skipped + n /\ c \in BOOLEAN
    BY DEF Items
  <2> HIDE DEF v, c
  <2> QED
    BY <2>1 DEF Items
<1>2. s = Raised(u)
  BY DEF Add
<1> HIDE DEF u, v
<1>3. /\ s \in Items
      /\ s.total = IF u.total >= Processed(u) THEN u.total ELSE Processed(u)
      /\ s.accepted = u.accepted /\ s.failed = u.failed /\ s.skipped = u.skipped
      /\ s.changed = u.changed /\ s.submitted = u.submitted
  BY <1>1, <1>2, RaisedItems
<1>4. r.accepted \in Nat /\ r.failed \in Nat /\ r.skipped \in Nat /\ r.total \in Nat
  BY DEF Items
<1>5. Processed(u) = Processed(r) + n
  BY <1>1, <1>4 DEF Processed
<1>6. Processed(s) = Processed(u)
  BY <1>3 DEF Processed
<1> QED
  BY <1>1, <1>3, <1>5, <1>6

\* Failures change nothing on the disk.
LEMMA AddFailures ==
  ASSUME NEW r \in Items, NEW n \in Nat
  PROVE  /\ Add(r, "failed", n, FALSE) \in Items
         /\ Add(r, "failed", n, FALSE).accepted = r.accepted
         /\ Add(r, "failed", n, FALSE).failed = r.failed + n
         /\ Add(r, "failed", n, FALSE).skipped = r.skipped
         /\ Add(r, "failed", n, FALSE).total =
              IF r.total >= Processed(r) + n THEN r.total ELSE Processed(r) + n
         /\ Processed(Add(r, "failed", n, FALSE)) = Processed(r) + n
         /\ Add(r, "failed", n, FALSE).changed = r.changed
         /\ Add(r, "failed", n, FALSE).submitted = r.submitted
<1>1. PICK c \in BOOLEAN : c = FALSE
  OBVIOUS
<1>2. PICK s : s = Add(r, "failed", n, c)
  OBVIOUS
<1>3. /\ s \in Items
      /\ s.accepted = r.accepted /\ s.failed = r.failed + n /\ s.skipped = r.skipped
      /\ s.total = IF r.total >= Processed(r) + n THEN r.total ELSE Processed(r) + n
      /\ Processed(s) = Processed(r) + n
      /\ s.changed = (r.changed \/ c)
      /\ s.submitted = r.submitted
  BY <1>2, AddFailed
<1>4. (r.changed \/ c) = r.changed
  <2>1. r.changed \in BOOLEAN
    BY DEF Items
  <2> QED
    BY <1>1, <2>1
<1>5. s = Add(r, "failed", n, FALSE)
  BY <1>1, <1>2
<1> QED
  BY <1>3, <1>4, <1>5

-----------------------------------------------------------------------------
(* Tasks and their parents.                                                *)

LEMMA Families ==
  /\ Task = Root \cup Child /\ Root \cap Child = {}
  /\ Parent \subseteq Root /\ Scan \subseteq Parent /\ Bundle \subseteq Parent
  /\ Single \subseteq Root /\ Single \cap Parent = {} /\ Scan \cap Bundle = {}
  /\ \A t \in Child : /\ RootOf(t) \in Parent /\ RootOf(t) \in Task
                      /\ RootOf(t) \notin Child /\ t \notin Root /\ t \in Task
                      /\ t[2] \in File /\ t = <<RootOf(t), t[2]>>
  /\ \A t \in Root : RootOf(t) = t /\ t \notin Child /\ t \in Task
  /\ \A t \in Task : SyncPathOf(t) \in SyncPath
<1>1. ASSUME NEW t \in Child
      PROVE  t[1] \in Parent /\ t[2] \in File /\ t = <<t[1], t[2]>>
  BY DEF Child
<1>2. Root \cap Child = {} /\ Parent \cap Single = {} /\ Scan \cap Bundle = {}
  BY TaskAssumption
<1>3. \A t \in Root : PathOf[t] \in SyncPath
  BY TaskAssumption
<1> QED
  BY <1>1, <1>2, <1>3 DEF Task, Root, Parent, RootOf, SyncPathOf

LEMMA FilesOf ==
  ASSUME NEW p \in Parent
  PROVE  /\ ChildrenOf(p) \subseteq Child
         /\ \A t \in Child : t \in ChildrenOf(p) <=> RootOf(t) = p
         /\ \A t \in ChildrenOf(p) : RootOf(t) = p /\ SyncPathOf(t) = PathOf[p]
         /\ IsFiniteSet(ChildrenOf(p))
         /\ Cardinality(ChildrenOf(p)) = Cardinality(File)
<1>1. /\ ChildrenOf(p) \subseteq Child
      /\ \A f \in File : <<p, f>> \in ChildrenOf(p)
      /\ \A t \in ChildrenOf(p) : t[1] = p /\ t[2] \in File /\ t = <<p, t[2]>>
  BY DEF ChildrenOf, Child
<1>2. \A t \in Child : t \in ChildrenOf(p) <=> RootOf(t) = p
  BY DEF ChildrenOf, Child, RootOf
<1>3. \A t \in ChildrenOf(p) : RootOf(t) = p /\ SyncPathOf(t) = PathOf[p]
  BY <1>1, <1>2 DEF SyncPathOf
<1> DEFINE g == [f \in File |-> <<p, f>>]
<1>4. g \in Bijection(File, ChildrenOf(p))
  <2>1. g \in [File -> ChildrenOf(p)]
    BY <1>1
  <2>2. \A a, b \in File : g[a] = g[b] => a = b
    OBVIOUS
  <2>3. \A t \in ChildrenOf(p) : \E f \in File : g[f] = t
    BY <1>1
  <2> HIDE DEF g
  <2> QED
    BY <2>1, <2>2, <2>3, Fun_IsBij
<1>5. IsFiniteSet(ChildrenOf(p)) /\ Cardinality(ChildrenOf(p)) = Cardinality(File)
  <2>1. IsFiniteSet(File)
    BY TaskAssumption
  <2>2. ExistsBijection(File, ChildrenOf(p))
    BY <1>4, Fun_ExistsBij
  <2> QED
    BY <2>1, <2>2, FS_Bijection
<1> QED
  BY <1>1, <1>2, <1>3, <1>5

-----------------------------------------------------------------------------
(* What the rows and the worker are, whatever fails and however often the  *)
(* process ends.                                                           *)

Open(st) == {t \in Task : st[t] \in {Pending, Running, Finalizing}}

InLine(seq, st) == seq \in Seq(Task) /\ Once(seq) /\ ToSet(seq) = Open(st)

RowInv ==
  /\ status \in [Task -> Status \cup {NoRow}]
  /\ items \in [Parent -> Items]
  /\ InLine(created, status)
  /\ InLine(line, status)
  /\ \A b \in Bundle : b \notin Open(status)
  /\ \A k \in Child : status[RootOf(k)] = NoRow => status[k] = NoRow

MarkInv ==
  /\ backoff \subseteq retried
  /\ retried \cup skipping \subseteq {t \in Task : status[t] = Finalizing}
  /\ moved \subseteq Open(status)
  /\ missing \subseteq SyncPath
  /\ requested \subseteq Parent

Busy == {"work", "expand", "finish", "mark", "complete"}

Worker0 == [pc : {"down", "select", "next"} \cup Busy, task : Task \cup {NoRow},
            batch : Seq(Task), waits : SUBSET (Task \X SyncPath),
            left : SUBSET File, total : Nat]

WorkerInv ==
  /\ worker \in Worker0
  /\ Once(worker.batch) /\ ToSet(worker.batch) \subseteq Open(status)
  /\ worker.pc \in {"down", "select"} => worker.batch = << >>
  /\ worker.pc = "next" => worker.batch # << >>
  /\ worker.pc \in Busy => worker.task \in Task /\ worker.task \notin ToSet(worker.batch)
  /\ worker.pc \in {"work", "expand"} => status[worker.task] = Running
  /\ worker.pc = "expand" => worker.task \in Scan
  /\ worker.pc \in {"finish", "mark", "complete"} =>
       \/ status[worker.task] = Finalizing
       \/ status[worker.task] = Running /\ worker.task \in Single
  /\ worker.pc \in {"mark", "complete"} => worker.task \in Child

ShapeInv == RowInv /\ MarkInv /\ WorkerInv

-----------------------------------------------------------------------------
(* The queue after a step.                                                 *)

LEMMA LeaveLine ==
  ASSUME NEW seq, NEW st, NEW st2, NEW S,
         InLine(seq, st), Open(st2) = Open(st) \ S
  PROVE  InLine(Without(seq, S), st2)
BY WithoutProperties DEF InLine

LEMMA EnterLine ==
  ASSUME NEW seq, NEW st, NEW st2, NEW more \in Seq(Task),
         InLine(seq, st), Once(more), ToSet(more) \cap Open(st) = {},
         Open(st2) = Open(st) \cup ToSet(more)
  PROVE  InLine(seq \o more, st2)
BY ConcatOnce DEF InLine

LEMMA MoveToEnd ==
  ASSUME NEW seq, NEW st, NEW t \in Open(st), InLine(seq, st)
  PROVE  InLine(Append(Without(seq, {t}), t), st)
<1> DEFINE rest == Without(seq, {t})
<1>1. rest \in Seq(Task) /\ Once(rest) /\ ToSet(rest) = Open(st) \ {t}
  BY WithoutProperties DEF InLine
<1>2. t \in Task
  BY DEF Open
<1> HIDE DEF rest
<1>3. /\ Append(rest, t) \in Seq(Task)
      /\ ToSet(Append(rest, t)) = ToSet(rest) \cup {t}
      /\ Once(Append(rest, t))
  BY <1>1, <1>2, AppendOnce
<1> QED
  BY <1>1, <1>3 DEF InLine, rest

LEMMA SameLine ==
  ASSUME NEW seq, NEW st, NEW st2, InLine(seq, st), Open(st2) = Open(st)
  PROVE  InLine(seq, st2)
BY DEF InLine

LEMMA StatusNames ==
  /\ {Pending, Running, Finalizing, WaitingChildren, Completed, Skipped, Failed} \subseteq Status
  /\ Active = {Pending, Running, Finalizing, WaitingChildren}
  /\ NoRow \notin Status
BY DEF Status, Active, NoRow, Pending, Running, Finalizing, WaitingChildren, Completed,
       Skipped, Failed

\* The worker leaves a task and goes on, or drops its batch.
LEMMA ContinueWorker ==
  ASSUME worker \in Worker0, Continue
  PROVE  /\ worker' \in Worker0
         /\ worker'.pc = IF worker.batch = << >> THEN "select" ELSE "next"
         /\ worker'.batch = worker.batch /\ worker'.waits = worker.waits
         /\ worker'.task = NoRow /\ worker'.left = {} /\ worker'.total = 0
<1> DEFINE to == IF worker.batch = << >> THEN "select" ELSE "next"
<1>1. to \in {"select", "next"} /\ worker' = [Down EXCEPT !.pc = to, !.batch = worker.batch, !.waits = worker.waits]
  BY DEF Continue
<1>2. worker.batch \in Seq(Task) /\ worker.waits \in SUBSET (Task \X SyncPath)
  BY DEF Worker0
<1> HIDE DEF to
<1>3. worker' = [pc |-> to, task |-> NoRow, batch |-> worker.batch, waits |-> worker.waits,
                 left |-> {}, total |-> 0]
  BY <1>1 DEF Down
<1>4. worker' \in Worker0
  BY <1>1, <1>2, <1>3 DEF Worker0
<1> QED
  BY <1>3, <1>4 DEF to

LEMMA AbandonWorker ==
  ASSUME worker' = [Down EXCEPT !.pc = "select"] \/ worker' = Down
  PROVE  /\ worker' \in Worker0
         /\ worker'.pc \in {"select", "down"}
         /\ worker'.batch = << >>
<1>1. << >> \in Seq(Task) /\ {} \in SUBSET (Task \X SyncPath) /\ {} \in SUBSET File
  OBVIOUS
<1>2. \E to \in {"select", "down"} :
        worker' = [pc |-> to, task |-> NoRow, batch |-> << >>, waits |-> {}, left |-> {}, total |-> 0]
  BY DEF Down
<1> QED
  BY <1>1, <1>2 DEF Worker0

LEMMA WorkerContinues ==
  ASSUME WorkerInv, Continue, ToSet(worker.batch) \subseteq Open(status')
  PROVE  WorkerInv'
<1>1. /\ worker' \in Worker0
      /\ worker'.pc = IF worker.batch = << >> THEN "select" ELSE "next"
      /\ worker'.batch = worker.batch
  BY ContinueWorker DEF WorkerInv
<1>2. worker'.pc \notin Busy /\ worker'.pc # "down"
  BY <1>1 DEF Busy
<1> QED
  BY <1>1, <1>2 DEF WorkerInv, Busy

LEMMA WorkerAbandons ==
  ASSUME worker' = [Down EXCEPT !.pc = "select"] \/ worker' = Down
  PROVE  WorkerInv'
<1>1. /\ worker' \in Worker0
      /\ worker'.pc \in {"select", "down"}
      /\ worker'.batch = << >>
  BY AbandonWorker
<1>2. ToSet(<< >>) = {} /\ Once(<< >>)
  BY EmptyOnce
<1> QED
  BY <1>1, <1>2 DEF WorkerInv, Busy

\* Nothing that the worker knows of changes.
LEMMA WorkerStays ==
  ASSUME WorkerInv, UNCHANGED worker,
         \A t \in Open(status) : status'[t] = status[t]
  PROVE  WorkerInv'
<1>1. Open(status) \subseteq Open(status')
  BY DEF Open
<1>2. worker.pc \in Busy /\ worker.pc \in {"work", "expand"} => worker.task \in Open(status)
  BY DEF WorkerInv, Open
<1>3. worker.pc \in {"finish", "mark", "complete"} => worker.task \in Open(status)
  BY DEF WorkerInv, Open, Busy
<1> QED
  BY <1>1, <1>2, <1>3 DEF WorkerInv, Busy

\* Nothing happens to the rows.
LEMMA RowsStay ==
  ASSUME RowInv, UNCHANGED <<status, created, line>>, items' \in [Parent -> Items]
  PROVE  RowInv'
BY DEF RowInv, Open

\* Tasks change, and the queue stays.
LEMMA RowsInLine ==
  ASSUME RowInv, UNCHANGED <<created, line>>, items' \in [Parent -> Items],
         status' \in [Task -> Status \cup {NoRow}],
         Open(status') = Open(status),
         \A t \in Task : status'[t] = NoRow <=> status[t] = NoRow
  PROVE  RowInv'
<1>1. \A k \in Child : k \in Task /\ RootOf(k) \in Task
  BY Families
<1>2. \A k \in Child : status'[RootOf(k)] = NoRow => status'[k] = NoRow
  BY <1>1 DEF RowInv
<1>3. InLine(created, status') /\ InLine(line, status')
  BY SameLine DEF RowInv
<1> QED
  BY <1>2, <1>3 DEF RowInv

LEMMA MarksStay ==
  ASSUME MarkInv, UNCHANGED <<retried, backoff, skipping, moved>>,
         missing' \subseteq SyncPath, requested' \subseteq Parent,
         \A t \in Task : status[t] = Finalizing => status'[t] = Finalizing,
         Open(status) \subseteq Open(status')
  PROVE  MarkInv'
BY DEF MarkInv

\* Tasks leave the queue.
LEMMA SomeLeave ==
  ASSUME RowInv, MarkInv, NEW S, Leave(S), items' \in [Parent -> Items],
         UNCHANGED <<missing, requested>>,
         status' \in [Task -> Status \cup {NoRow}],
         Open(status') = Open(status) \ S,
         \A t \in Open(status) \ S : status'[t] = status[t],
         \A t \in Task : status'[t] = NoRow <=> status[t] = NoRow
  PROVE  RowInv' /\ MarkInv'
<1>1. \A k \in Child : k \in Task /\ RootOf(k) \in Task
  BY Families
<1>2. \A k \in Child : status'[RootOf(k)] = NoRow => status'[k] = NoRow
  BY <1>1 DEF RowInv
<1>3. InLine(created', status') /\ InLine(line', status')
  <2>1. InLine(created, status) /\ InLine(line, status)
    BY DEF RowInv
  <2>2. InLine(Without(created, S), status') /\ InLine(Without(line, S), status')
    BY <2>1, LeaveLine
  <2> QED
    BY <2>2 DEF Leave
<1>4. RowInv'
  BY <1>2, <1>3 DEF RowInv
<1>5. \A t \in retried' \cup skipping' : t \in Task /\ status'[t] = Finalizing
  <2>1. \A t \in retried \cup skipping : t \in Open(status) /\ status[t] = Finalizing /\ t \in Task
    BY DEF MarkInv, Open
  <2> QED
    BY <2>1 DEF Leave
<1>6. MarkInv'
  BY <1>5 DEF MarkInv, Leave
<1> QED
  BY <1>4, <1>6

\* One task changes its status.
LEMMA OneStatus ==
  ASSUME RowInv, NEW t \in Task, NEW s \in Status, status' = [status EXCEPT ![t] = s]
  PROVE  /\ status' \in [Task -> Status \cup {NoRow}]
         /\ status'[t] = s
         /\ \A u \in Task \ {t} : status'[u] = status[u]
         /\ s \in {Pending, Running, Finalizing} => Open(status') = Open(status) \cup {t}
         /\ s \notin {Pending, Running, Finalizing} => Open(status') = Open(status) \ {t}
<1>1. /\ status' \in [Task -> Status \cup {NoRow}]
      /\ status'[t] = s
      /\ \A u \in Task \ {t} : status'[u] = status[u]
  BY DEF RowInv
<1> QED
  BY <1>1 DEF Open

LEMMA GoWorker ==
  ASSUME worker \in Worker0, NEW to \in {"next", "select"} \cup Busy, Go(to)
  PROVE  /\ worker' \in Worker0
         /\ worker'.pc = to /\ worker'.task = worker.task
         /\ worker'.batch = worker.batch /\ worker'.waits = worker.waits
         /\ worker'.left = worker.left /\ worker'.total = worker.total
BY DEF Worker0, Go

-----------------------------------------------------------------------------
(* Every step keeps them: the process and the requests.                    *)

LEMMA BootShape ==
  ASSUME ShapeInv, Boot
  PROVE  ShapeInv'
<1>1. /\ status' \in [Task -> Status \cup {NoRow}]
      /\ \A t \in Task : status'[t] = IF status[t] = Running THEN Pending ELSE status[t]
  BY StatusNames DEF Boot, ShapeInv, RowInv
<1>2. Open(status') = Open(status)
  BY <1>1 DEF Open, Pending, Running, Finalizing
<1>3. \A t \in Task : status'[t] = NoRow <=> status[t] = NoRow
  BY <1>1 DEF NoRow, Pending, Running
<1>4. \A t \in Task : status[t] = Finalizing => status'[t] = Finalizing
  BY <1>1 DEF Finalizing, Running
<1>5. RowInv'
  BY <1>1, <1>2, <1>3, RowsInLine DEF Boot, ShapeInv, RowInv, queueVars
<1>6. MarkInv'
  <2>1. UNCHANGED <<retried, backoff, skipping, moved, missing, requested>>
    BY DEF Boot, queueVars
  <2> QED
    BY <1>2, <1>4, <2>1, MarksStay DEF ShapeInv, MarkInv
<1>7. WorkerInv'
  BY WorkerAbandons DEF Boot, Abandon
<1> QED
  BY <1>5, <1>6, <1>7 DEF ShapeInv

\* Steps in which the worker only lets go of what it has.
LEMMA LetGoShape ==
  ASSUME ShapeInv, BootWithoutReset \/ Crash \/ SaveError
  PROVE  ShapeInv'
<1>1. /\ UNCHANGED <<status, items, queueVars, missing, requested>>
      /\ worker' = [Down EXCEPT !.pc = "select"] \/ worker' = Down
  BY DEF BootWithoutReset, Crash, SaveError, Abandon
<1>2. RowInv'
  BY <1>1, RowsStay DEF ShapeInv, RowInv, queueVars
<1>3. MarkInv'
  BY <1>1 DEF ShapeInv, MarkInv, Open, queueVars
<1>4. WorkerInv'
  BY <1>1, WorkerAbandons
<1> QED
  BY <1>2, <1>3, <1>4 DEF ShapeInv

LEMMA EnqueueShape ==
  ASSUME ShapeInv, NEW t \in Scan \cup Single, EnqueueStrmGenerationTask(t)
  PROVE  ShapeInv'
<1>1. t \in Task /\ t \notin Bundle /\ t \notin Child
  BY Families
<1>2. /\ status[t] = NoRow /\ t \notin Open(status)
      /\ status' = [status EXCEPT ![t] = Pending] /\ Pending \in Status
  BY StatusNames DEF EnqueueStrmGenerationTask, Open, NoRow, Pending, Running, Finalizing
<1>3. /\ status' \in [Task -> Status \cup {NoRow}]
      /\ status'[t] = Pending
      /\ \A u \in Task \ {t} : status'[u] = status[u]
      /\ Open(status') = Open(status) \cup {t}
  BY <1>1, <1>2, OneStatus DEF ShapeInv
<1>4. /\ created' = created \o <<t>> /\ line' = line \o <<t>>
      /\ UNCHANGED <<items, retried, backoff, skipping, moved, missing, requested, worker>>
  BY DEF EnqueueStrmGenerationTask, Enter
<1>5. InLine(created', status') /\ InLine(line', status')
  <2> DEFINE more == <<t>>
  <2>1. more \in Seq(Task) /\ Once(more) /\ ToSet(more) = {t}
    BY <1>1, SingletonOnce
  <2>2. InLine(created, status) /\ InLine(line, status)
    BY DEF ShapeInv, RowInv
  <2>3. created' = created \o more /\ line' = line \o more
    BY <1>4
  <2> HIDE DEF more
  <2>4. ToSet(more) \cap Open(status) = {} /\ Open(status') = Open(status) \cup ToSet(more)
    BY <1>2, <1>3, <2>1
  <2>5. InLine(created \o more, status') /\ InLine(line \o more, status')
    BY <2>1, <2>2, <2>4, EnterLine
  <2> QED
    BY <2>3, <2>5
<1>6. \A k \in Child : status'[RootOf(k)] = NoRow => status'[k] = NoRow
  <2>1. \A k \in Child : k \in Task /\ k # t /\ RootOf(k) \in Task
    BY <1>1, Families
  <2>2. status'[t] # NoRow
    BY <1>3 DEF Pending, NoRow
  <2> QED
    BY <1>3, <2>1, <2>2 DEF ShapeInv, RowInv
<1>7. RowInv'
  BY <1>1, <1>3, <1>4, <1>5, <1>6 DEF ShapeInv, RowInv
<1>8. MarkInv'
  BY <1>2, <1>3, <1>4, MarksStay DEF ShapeInv, MarkInv, NoRow, Finalizing
<1>9. WorkerInv'
  BY <1>2, <1>3, <1>4, WorkerStays DEF ShapeInv, Open
<1> QED
  BY <1>7, <1>8, <1>9 DEF ShapeInv

LEMMA EnqueueBatchShape ==
  ASSUME ShapeInv, NEW b \in Bundle, NEW S \in SUBSET File, EnqueueStrmWebhookBatch(b, S)
  PROVE  ShapeInv'
<1> DEFINE new == {b} \X S
<1>1. b \in Task /\ b \in Parent /\ b \notin Child /\ new \subseteq Child /\ new \subseteq Task
  BY Families DEF Child
<1>2. /\ status[b] = NoRow
      /\ \A k \in new : status[k] = NoRow
  <2>1. status[b] = NoRow
    BY DEF EnqueueStrmWebhookBatch
  <2>2. \A k \in new : k \in Child /\ RootOf(k) = b
    BY <1>1 DEF RootOf
  <2> QED
    BY <2>1, <2>2 DEF ShapeInv, RowInv
<1>3. /\ status' \in [Task -> Status \cup {NoRow}]
      /\ status'[b] = WaitingChildren
      /\ \A k \in new : status'[k] = Pending
      /\ \A t \in Task : t # b /\ t \notin new => status'[t] = status[t]
  <2>1. status' = [t \in Task |-> IF t = b THEN WaitingChildren
                                  ELSE IF t \in new THEN Pending ELSE status[t]]
    BY DEF EnqueueStrmWebhookBatch
  <2>2. b \notin new
    BY <1>1
  <2>3. status \in [Task -> Status \cup {NoRow}] /\ {Pending, WaitingChildren} \subseteq Status
    BY StatusNames DEF ShapeInv, RowInv
  <2> HIDE DEF new
  <2> QED
    BY <1>1, <2>1, <2>2, <2>3
<1> HIDE DEF new
<1>4. Open(status') = Open(status) \cup new
  BY <1>1, <1>2, <1>3 DEF Open, NoRow, Pending, Running, Finalizing, WaitingChildren
<1>5. new \cap Open(status) = {} /\ b \notin Open(status)
  BY <1>2 DEF Open, NoRow, Pending, Running, Finalizing
<1>6. /\ created' = created \o SetToSeq(new) /\ line' = line \o SetToSeq(new)
      /\ UNCHANGED <<retried, backoff, skipping, moved, missing, requested, worker>>
  BY DEF EnqueueStrmWebhookBatch, Enter, new
<1>7. IsFiniteSet(S) /\ Cardinality(S) \in Nat
  BY TaskAssumption, FS_Subset, FS_CardinalityType
<1>8. SetToSeq(new) \in Seq(Task) /\ ToSet(SetToSeq(new)) = new /\ Once(SetToSeq(new))
  <2>1. IsFiniteSet(ChildrenOf(b)) /\ new \in SUBSET ChildrenOf(b)
    BY <1>1, FilesOf DEF ChildrenOf, new
  <2>2. IsFiniteSet(new)
    BY <2>1, FS_Subset
  <2>3. SetToSeq(new) \in Seq(new) /\ ToSet(SetToSeq(new)) = new /\ Once(SetToSeq(new))
    BY <2>2, SetToSeqOnce
  <2> QED
    BY <1>1, <2>3, SeqMonotonic
<1>9. InLine(created', status') /\ InLine(line', status')
  <2>1. InLine(created, status) /\ InLine(line, status)
    BY DEF ShapeInv, RowInv
  <2>2. InLine(created \o SetToSeq(new), status') /\ InLine(line \o SetToSeq(new), status')
    BY <1>4, <1>5, <1>8, <2>1, EnterLine
  <2> QED
    BY <1>6, <2>2
<1>10. items' \in [Parent -> Items]
  <2>1. items' = [items EXCEPT ![b] = [items[b] EXCEPT !.total = Cardinality(S)]]
    BY DEF EnqueueStrmWebhookBatch
  <2>2. items[b] \in Items
    BY <1>1 DEF ShapeInv, RowInv
  <2>3. [items[b] EXCEPT !.total = Cardinality(S)] \in Items
    BY <1>7, <2>2 DEF Items
  <2> QED
    BY <2>1, <2>3 DEF ShapeInv, RowInv
<1>11. \A k \in Child : status'[RootOf(k)] = NoRow => status'[k] = NoRow
  <2>1. ASSUME NEW k \in Child, status'[RootOf(k)] = NoRow
        PROVE  status'[k] = NoRow
    <3>1. RootOf(k) \in Task /\ k \in Task /\ RootOf(k) \notin Child /\ k # b
      BY <1>1, Families
    <3>2. RootOf(k) # b
      BY <1>3, <2>1 DEF WaitingChildren, NoRow
    <3>3. k \notin new
      BY <3>2 DEF new, RootOf
    <3>4. status'[RootOf(k)] = status[RootOf(k)] /\ status'[k] = status[k]
      BY <1>1, <1>3, <3>1, <3>2, <3>3
    <3> QED
      BY <2>1, <3>4 DEF ShapeInv, RowInv
  <2> QED
    BY <2>1
<1>12. \A c \in Bundle : c \notin Open(status')
  BY <1>1, <1>4, Families DEF ShapeInv, RowInv
<1>13. RowInv'
  BY <1>3, <1>9, <1>10, <1>11, <1>12 DEF RowInv
<1>14. \A t \in Open(status) : status'[t] = status[t]
  BY <1>3, <1>5 DEF Open
<1>15. MarkInv'
  <2>1. \A t \in Task : status[t] = Finalizing => status'[t] = Finalizing
    BY <1>14 DEF Open
  <2> QED
    BY <1>4, <1>6, <2>1, MarksStay DEF ShapeInv, MarkInv
<1>16. WorkerInv'
  BY <1>6, <1>14, WorkerStays DEF ShapeInv
<1> QED
  BY <1>13, <1>15, <1>16 DEF ShapeInv

LEMMA QuietShape ==
  ASSUME ShapeInv, (\E q \in SyncPath : DeleteSyncPathByID(q)) \/ (\E t \in Task : BackoffElapses(t))
  PROVE  ShapeInv'
<1>1. /\ UNCHANGED <<status, items, created, line, retried, skipping, moved, requested, worker>>
      /\ backoff' \subseteq backoff /\ missing' \subseteq missing \cup SyncPath
  BY DEF DeleteSyncPathByID, BackoffElapses, queueVars
<1>2. RowInv'
  BY <1>1, RowsStay DEF ShapeInv, RowInv
<1>3. MarkInv'
  BY <1>1 DEF ShapeInv, MarkInv, Open
<1>4. WorkerInv'
  BY <1>1, WorkerStays DEF ShapeInv
<1> QED
  BY <1>2, <1>3, <1>4 DEF ShapeInv

-----------------------------------------------------------------------------
(* Every step keeps them: the selection and the work.                      *)

LEMMA RetireShape ==
  ASSUME ShapeInv, NEW q, NEW st,
         st \in [Task -> Status \cup {NoRow}],
         Open(st) = Open(status),
         \A t \in Task : st[t] = Finalizing <=> status[t] = Finalizing,
         \A t \in Task : st[t] = NoRow <=> status[t] = NoRow,
         Retire(q, st)
  PROVE  ShapeInv'
<1> DEFINE hit == {t \in Task : st[t] \in Active /\ SyncPathOf(t) = q}
<1>1. /\ \A t \in Task : status'[t] = IF t \in hit \/ (t \in Parent /\ hit \cap ChildrenOf(t) # {})
                                       THEN Failed ELSE st[t]
      /\ status' = [t \in Task |-> IF t \in hit \/ (t \in Parent /\ hit \cap ChildrenOf(t) # {})
                                    THEN Failed ELSE st[t]]
      /\ Leave(hit)
      /\ UNCHANGED <<missing, requested>>
      /\ worker' = [Down EXCEPT !.pc = "select"]
  BY DEF Retire, Abandon
<1>2. status' \in [Task -> Status \cup {NoRow}]
  BY <1>1, StatusNames
<1>3. ASSUME NEW t \in Open(st), t \notin hit
      PROVE  status'[t] = st[t]
  <2>1. t \in Task /\ st[t] \in Active
    BY <1>3, StatusNames DEF Open
  <2>2. SyncPathOf(t) # q
    BY <1>3, <2>1
  <2>3. ASSUME t \in Parent, NEW k \in hit, k \in ChildrenOf(t)
        PROVE  FALSE
    <3>1. SyncPathOf(k) = PathOf[t] /\ SyncPathOf(k) = q
      BY <2>3, FilesOf
    <3>2. SyncPathOf(t) = PathOf[t]
      BY <2>3, Families DEF SyncPathOf
    <3> QED
      BY <2>2, <3>1, <3>2
  <2> QED
    BY <1>1, <1>3, <2>1, <2>3
<1>4. Open(status') = Open(status) \ hit
  <2>1. \A t \in hit : status'[t] = Failed
    BY <1>1
  <2>2. ASSUME NEW t \in Open(status')
        PROVE  t \in Open(st) /\ t \notin hit
    BY <1>1, <2>1, <2>2 DEF Open, Failed, Pending, Running, Finalizing
  <2>3. \A t \in Open(st) : t \notin hit => t \in Open(status')
    BY <1>3 DEF Open
  <2> QED
    BY <2>2, <2>3
<1>5. \A t \in Task : status'[t] = NoRow <=> status[t] = NoRow
  <2>1. \A t \in Task : t \in hit => st[t] # NoRow
    BY StatusNames DEF NoRow, Pending, Running, Finalizing, WaitingChildren
  <2>2. ASSUME NEW t \in Parent, hit \cap ChildrenOf(t) # {}
        PROVE  st[t] # NoRow
    <3>1. PICK k \in hit : k \in ChildrenOf(t)
      BY <2>2
    <3>2. k \in Child /\ RootOf(k) = t /\ k \in Task /\ status[k] # NoRow
      BY <2>1, <3>1, FilesOf
    <3> QED
      BY <3>2, Families DEF ShapeInv, RowInv
  <2> QED
    BY <1>1, <2>1, <2>2 DEF Failed, NoRow
<1>6. items' \in [Parent -> Items]
  <2>1. items' = [p \in Parent |-> Add(items[p], "failed", Cardinality(Lost(p, q, st)), FALSE)]
    BY DEF Retire
  <2>2. ASSUME NEW p \in Parent
        PROVE  Add(items[p], "failed", Cardinality(Lost(p, q, st)), FALSE) \in Items
    <3> DEFINE n == Cardinality(Lost(p, q, st))
    <3>1. n \in Nat
      <4>1. Lost(p, q, st) \in SUBSET ChildrenOf(p) /\ IsFiniteSet(ChildrenOf(p))
        BY FilesOf DEF Lost
      <4> QED
        BY <4>1, FS_Subset, FS_CardinalityType
    <3>2. items[p] \in Items
      BY DEF ShapeInv, RowInv
    <3> HIDE DEF n
    <3>3. Add(items[p], "failed", n, FALSE) \in Items
      BY <3>1, <3>2, AddFailures
    <3> QED
      BY <3>3 DEF n
  <2> QED
    BY <2>1, <2>2
<1> HIDE DEF hit
<1>7. RowInv' /\ MarkInv'
  <2> DEFINE Fin == {t \in Task : status[t] = Finalizing}
  <2>1. \A t \in Open(st) \ hit : status'[t] = st[t]
    BY <1>3
  <2>2. InLine(created', status') /\ InLine(line', status')
    <3>1. InLine(created, status) /\ InLine(line, status)
      BY DEF ShapeInv, RowInv
    <3>2. InLine(Without(created, hit), status') /\ InLine(Without(line, hit), status')
      BY <1>4, <3>1, LeaveLine
    <3> QED
      BY <1>1, <3>2 DEF Leave
  <2>3. \A k \in Child : k \in Task /\ RootOf(k) \in Task
    BY Families
  <2>4. RowInv'
    BY <1>2, <1>4, <1>5, <1>6, <2>2, <2>3 DEF ShapeInv, RowInv
  <2>5. \A t \in retried \cup skipping : t \in Open(st) /\ t \in Task /\ st[t] = Finalizing
    BY DEF ShapeInv, MarkInv, Open
  <2>6. \A t \in retried' \cup skipping' : t \in Task /\ status'[t] = Finalizing
    BY <1>1, <2>1, <2>5 DEF Leave
  <2>7. MarkInv'
    BY <1>1, <1>4, <2>6 DEF ShapeInv, MarkInv, Leave
  <2> QED
    BY <2>4, <2>7
<1>8. WorkerInv'
  BY <1>1, WorkerAbandons
<1> QED
  BY <1>7, <1>8 DEF ShapeInv

LEMMA RetireSteps ==
  ASSUME ShapeInv, RetireMissing \/ RetireAtWork \/ RetireAtFinish
  PROVE  ShapeInv'
<1>1. status \in [Task -> Status \cup {NoRow}]
  BY DEF ShapeInv, RowInv
<1>2. CASE \E q \in SyncPath : Retire(q, status)
  BY <1>1, <1>2, RetireShape
<1>3. CASE /\ Working
           /\ \E q \in missing \cap PathsToWaitFor :
                Retire(q, [status EXCEPT ![Current] = Pending])
  <2> DEFINE st == [status EXCEPT ![Current] = Pending]
  <2>1. Current \in Task /\ status[Current] = Running
    BY <1>3 DEF Working, At, Current, ShapeInv, WorkerInv, Busy
  <2>2. st \in [Task -> Status \cup {NoRow}]
    BY <1>1, StatusNames
  <2>3. st[Current] = Pending /\ \A t \in Task \ {Current} : st[t] = status[t]
    BY <1>1, <2>1
  <2>4. PICK q : Retire(q, st)
    BY <1>3
  <2> HIDE DEF st
  <2>5. Open(st) = Open(status)
    BY <2>1, <2>3 DEF Open, Pending, Running
  <2>6. /\ \A t \in Task : st[t] = Finalizing <=> status[t] = Finalizing
        /\ \A t \in Task : st[t] = NoRow <=> status[t] = NoRow
    BY <2>1, <2>3 DEF Pending, Running, Finalizing, NoRow
  <2> QED
    BY <2>2, <2>4, <2>5, <2>6, RetireShape
<1>4. missing \subseteq SyncPath
  BY DEF ShapeInv, MarkInv
<1>5. MissingPaths \subseteq SyncPath
  BY <1>4 DEF MissingPaths
<1>6. CASE RetireMissing
  BY <1>2, <1>5, <1>6 DEF RetireMissing
<1>7. CASE RetireAtWork
  BY <1>2, <1>3, <1>4, <1>7 DEF RetireAtWork
<1>8. CASE RetireAtFinish
  BY <1>2, <1>4, <1>8 DEF RetireAtFinish
<1> QED
  BY <1>6, <1>7, <1>8

\* The last result settles a parent, and nothing else does.
Final(p, r) == items[p].total > 0 /\ Processed(r) >= r.total /\ status[p] = WaitingChildren

LEMMA SettledCases ==
  ASSUME NEW p, NEW r \in Items
  PROVE  /\ ~Final(p, r) => Settled(p, r) = status[p]
         /\ Final(p, r) /\ r.failed > 0 => Settled(p, r) = Failed
         /\ Final(p, r) /\ r.failed = 0 /\ r.accepted > 0 => Settled(p, r) = Completed
         /\ Final(p, r) /\ r.failed = 0 /\ r.accepted = 0 => Settled(p, r) = Skipped
         /\ Final(p, r) => status[p] = WaitingChildren /\ Settled(p, r) \in {Failed, Completed, Skipped}
<1>1. r.failed \in Nat /\ r.accepted \in Nat
  BY DEF Items
<1>2. CASE ~Final(p, r)
  BY <1>2 DEF Settled, Final
<1>3. CASE Final(p, r)
  <2>1. Settled(p, r) = CASE r.failed > 0                      -> Failed
                          [] r.failed = 0 /\ r.accepted > 0    -> Completed
                          [] r.failed = 0 /\ r.accepted = 0    -> Skipped
    BY <1>3 DEF Settled, Final
  <2>2. CASE r.failed > 0
    BY <1>1, <1>3, <2>1, <2>2 DEF Final
  <2>3. CASE r.failed = 0 /\ r.accepted > 0
    BY <1>1, <1>3, <2>1, <2>3 DEF Final
  <2>4. CASE r.failed = 0 /\ r.accepted = 0
    BY <1>1, <1>3, <2>1, <2>4 DEF Final
  <2> QED
    BY <1>1, <2>2, <2>3, <2>4
<1> QED
  BY <1>2, <1>3

\* A child in the queue and its parent, in one transaction.
LEMMA RecordRows ==
  ASSUME RowInv, NEW t \in Child, t \in Open(status), NEW s \in {Finalizing, Failed},
         NEW r \in Items,
         status' = [status EXCEPT ![t] = s, ![RootOf(t)] = Settled(RootOf(t), r)],
         items' = [items EXCEPT ![RootOf(t)] = r]
  PROVE  /\ status' \in [Task -> Status \cup {NoRow}]
         /\ items' \in [Parent -> Items]
         /\ status'[t] = s /\ status'[RootOf(t)] = Settled(RootOf(t), r)
         /\ items'[RootOf(t)] = r
         /\ \A u \in Task \ {t, RootOf(t)} : status'[u] = status[u]
         /\ \A p \in Parent \ {RootOf(t)} : items'[p] = items[p]
         /\ \A u \in Open(status) \ {t} : status'[u] = status[u]
         /\ s = Finalizing => Open(status') = Open(status)
         /\ s = Failed => Open(status') = Open(status) \ {t}
         /\ \A u \in Task : status'[u] = NoRow <=> status[u] = NoRow
<1> DEFINE p == RootOf(t)
<1> DEFINE v == Settled(p, r)
<1>1. p \in Parent /\ p \in Task /\ t \in Task /\ p # t
  BY Families
<1>2. v = status[p] \/ (status[p] = WaitingChildren /\ v \in {Failed, Completed, Skipped})
  BY SettledCases
<1>3. v \in Status \cup {NoRow} /\ s \in Status
  BY <1>1, <1>2, StatusNames DEF RowInv
<1> HIDE DEF p, v
<1>4. status' = [status EXCEPT ![t] = s, ![p] = v] /\ items' = [items EXCEPT ![p] = r]
  BY DEF p, v
<1>5. /\ status' \in [Task -> Status \cup {NoRow}]
      /\ items' \in [Parent -> Items]
      /\ status'[t] = s /\ status'[p] = v
      /\ items'[p] = r
      /\ \A u \in Task \ {t, p} : status'[u] = status[u]
      /\ \A u \in Parent \ {p} : items'[u] = items[u]
  BY <1>1, <1>3, <1>4, ZenonT(40) DEF RowInv
<1>6. p \in Open(status) => v = status[p]
  BY <1>2 DEF Open, WaitingChildren, Pending, Running, Finalizing
<1>7. p \notin Open(status) => p \notin Open(status')
  BY <1>1, <1>2, <1>5 DEF Open, Failed, Completed, Skipped, Pending, Running, Finalizing
<1>8. \A u \in Open(status) \ {t} : status'[u] = status[u]
  BY <1>1, <1>5, <1>6 DEF Open
<1>9. s = Finalizing => t \in Open(status')
  BY <1>1, <1>5 DEF Open
<1>10. s = Failed => t \notin Open(status')
  BY <1>5 DEF Open, Failed, Pending, Running, Finalizing
<1>11. \A u \in Task \ {t} : u \in Open(status) <=> u \in Open(status')
  BY <1>5, <1>7, <1>8 DEF Open
<1>12. \A u \in Task : status'[u] = NoRow <=> status[u] = NoRow
  <2>1. s # NoRow /\ status[t] # NoRow
    BY DEF Open, NoRow, Pending, Running, Finalizing, Failed
  <2>2. v = NoRow <=> status[p] = NoRow
    BY <1>2 DEF NoRow, WaitingChildren, Failed, Completed, Skipped
  <2> QED
    BY <1>5, <2>1, <2>2
<1>13. Open(status) \subseteq Task /\ Open(status') \subseteq Task
  BY DEF Open
<1>14. s = Finalizing => Open(status') = Open(status)
  <2>1. s = Finalizing => \A u \in Task : u \in Open(status) <=> u \in Open(status')
    BY <1>9, <1>11
  <2> QED
    BY <1>13, <2>1
<1>15. s = Failed => Open(status') = Open(status) \ {t}
  <2>1. s = Failed => \A u \in Task : u \in Open(status') <=> u \in Open(status) /\ u # t
    BY <1>10, <1>11
  <2> QED
    BY <1>13, <2>1
<1> QED
  BY <1>5, <1>8, <1>12, <1>14, <1>15 DEF p, v

\* A selection is made of tasks that are open and that nothing blocks.
LEMMA SelectionProperties ==
  ASSUME ShapeInv
  PROVE  /\ SelectGenerationTasks \in Seq(Task) /\ Once(SelectGenerationTasks)
         /\ \A t \in ToSet(SelectGenerationTasks) :
              t \in Open(status) /\ Claimable(t) /\ ~GenerationTaskBlocked(t)
<1> DEFINE fit == {t \in ToSet(line) : Claimable(t) /\ ~GenerationTaskBlocked(t)}
<1> DEFINE free == Among(line, fit)
<1> DEFINE n == Min({BatchLimit, Len(free)})
<1> DEFINE batch == SelectGenerationTasks
<1>1. line \in Seq(Task) /\ Once(line) /\ ToSet(line) = Open(status)
  BY DEF ShapeInv, RowInv, InLine
<1>2. /\ free \in Seq(Task) /\ Once(free)
      /\ \A t \in ToSet(free) :
           t \in Open(status) /\ Claimable(t) /\ ~GenerationTaskBlocked(t)
  <2>1. \A t \in fit : t \in Open(status) /\ Claimable(t) /\ ~GenerationTaskBlocked(t)
    BY <1>1
  <2> HIDE DEF fit
  <2>2. free \in Seq(Task) /\ Once(free) /\ ToSet(free) = ToSet(line) \cap fit
    BY <1>1, AmongProperties
  <2> QED
    BY <2>1, <2>2
<1>3. batch = SubSeq(free, 1, n)
  BY DEF SelectGenerationTasks
<1> HIDE DEF free, batch
<1>4. n \in 0 .. Len(free)
  <2>1. Len(free) \in Nat /\ BatchLimit \in Nat
    BY <1>2, LenProperties, BoundAssumption
  <2>2. n \in {BatchLimit, Len(free)} /\ n <= Len(free)
    <3>1. \E x \in {BatchLimit, Len(free)} : \A y \in {BatchLimit, Len(free)} : x =< y
      BY <2>1
    <3>2. Min({BatchLimit, Len(free)}) \in {BatchLimit, Len(free)}
          /\ \A y \in {BatchLimit, Len(free)} : Min({BatchLimit, Len(free)}) =< y
      BY <3>1 DEF Min
    <3> QED
      BY <3>2
  <2> HIDE DEF n
  <2> QED
    BY <2>1, <2>2
<1> HIDE DEF n
<1>5. /\ SubSeq(free, 1, n) \in Seq(Task) /\ Once(SubSeq(free, 1, n))
      /\ ToSet(SubSeq(free, 1, n)) \subseteq ToSet(free)
  BY <1>2, <1>4, PrefixOnce
<1> QED
  BY <1>2, <1>3, <1>5 DEF batch

LEMMA SelectShape ==
  ASSUME ShapeInv, Select
  PROVE  ShapeInv'
<1> DEFINE batch == SelectGenerationTasks
<1>1. batch # << >>
  BY DEF Select
<1>2. batch \in Seq(Task) /\ Once(batch) /\ ToSet(batch) \subseteq Open(status)
  BY SelectionProperties
<1> HIDE DEF batch
<1>3. /\ UNCHANGED <<status, items, queueVars, missing, requested>>
      /\ \E waits \in SUBSET (Task \X SyncPath) :
           worker' = [Down EXCEPT !.pc = "next", !.batch = batch, !.waits = waits]
  <2>1. \A x \in ToSet(batch) \X SyncPath : x \in Task \X SyncPath
    BY <1>2 DEF Open
  <2> QED
    BY <2>1 DEF Select, batch
<1>4. /\ worker' \in Worker0 /\ worker'.pc = "next" /\ worker'.batch = batch
  <2>1. PICK waits \in SUBSET (Task \X SyncPath) :
          worker' = [Down EXCEPT !.pc = "next", !.batch = batch, !.waits = waits]
    BY <1>3
  <2>2. worker' = [pc |-> "next", task |-> NoRow, batch |-> batch, waits |-> waits,
                   left |-> {}, total |-> 0]
    BY <2>1 DEF Down
  <2>3. {} \in SUBSET File /\ NoRow \in Task \cup {NoRow}
    OBVIOUS
  <2> QED
    BY <1>2, <2>2, <2>3 DEF Worker0
<1>5. RowInv' /\ MarkInv'
  <2>1. RowInv'
    BY <1>3, RowsStay DEF ShapeInv, RowInv, queueVars
  <2>2. MarkInv'
    BY <1>3 DEF ShapeInv, MarkInv, Open, queueVars
  <2> QED
    BY <2>1, <2>2
<1>6. WorkerInv'
  <2>1. Open(status') = Open(status)
    BY <1>3 DEF Open
  <2> QED
    BY <1>1, <1>2, <1>4, <2>1 DEF WorkerInv, Busy
<1> QED
  BY <1>5, <1>6 DEF ShapeInv

\* The worker has a task, which is in the queue, and which no later task of
\* the batch is.
LEMMA BusyWorker ==
  ASSUME ShapeInv, worker.pc \in Busy
  PROVE  /\ Current \in Task /\ Current \in Open(status)
         /\ Current \notin ToSet(worker.batch)
         /\ Current \notin Bundle
         /\ ToSet(worker.batch) \subseteq Open(status) \ {Current}
<1>1. Current \in Task /\ Current \notin ToSet(worker.batch)
  BY DEF ShapeInv, WorkerInv, Current
<1>2. Current \in Open(status)
  BY <1>1 DEF ShapeInv, WorkerInv, Current, Busy, Open
<1> QED
  BY <1>1, <1>2 DEF ShapeInv, RowInv, WorkerInv

LEMMA BeginShape ==
  ASSUME ShapeInv, Begin
  PROVE  ShapeInv'
<1> DEFINE t == Head(worker.batch)
<1>1. worker.pc = "next" /\ worker.batch # << >> /\ worker.batch \in Seq(Task) /\ Once(worker.batch)
  BY DEF Begin, At, ShapeInv, WorkerInv, Worker0
<1>2. /\ t \in Task /\ t \in ToSet(worker.batch)
      /\ Tail(worker.batch) \in Seq(Task)
      /\ ToSet(Tail(worker.batch)) = ToSet(worker.batch) \ {t}
      /\ Once(Tail(worker.batch))
  BY <1>1, HeadOnce
<1>3. t \in Open(status) /\ t \notin Bundle
  BY <1>2 DEF ShapeInv, WorkerInv, RowInv
<1>4. /\ worker' = [worker EXCEPT !.pc = IF status[t] = Finalizing THEN "finish" ELSE "work",
                                  !.task = t, !.batch = Tail(worker.batch)]
      /\ status' = IF status[t] = Finalizing THEN status ELSE [status EXCEPT ![t] = Running]
      /\ UNCHANGED <<items, queueVars, missing, requested>>
  BY DEF Begin
<1> HIDE DEF t
<1>5. /\ worker'.pc = IF status[t] = Finalizing THEN "finish" ELSE "work"
      /\ worker'.task = t /\ worker'.batch = Tail(worker.batch)
      /\ worker' \in Worker0
  BY <1>2, <1>4 DEF ShapeInv, WorkerInv, Worker0, Busy
<1>6. /\ status' \in [Task -> Status \cup {NoRow}]
      /\ \A u \in Task \ {t} : status'[u] = status[u]
      /\ status'[t] = IF status[t] = Finalizing THEN Finalizing ELSE Running
      /\ Open(status') = Open(status)
  <2>1. CASE status[t] = Finalizing
    BY <1>4, <2>1 DEF ShapeInv, RowInv
  <2>2. CASE status[t] # Finalizing
    <3>1. status' = [status EXCEPT ![t] = Running] /\ Running \in Status
      BY <1>4, <2>2, StatusNames
    <3>2. /\ status' \in [Task -> Status \cup {NoRow}]
          /\ status'[t] = Running
          /\ \A u \in Task \ {t} : status'[u] = status[u]
          /\ Open(status') = Open(status) \cup {t}
      BY <1>2, <3>1, OneStatus DEF ShapeInv
    <3> QED
      BY <1>3, <2>2, <3>2
  <2> QED
    BY <2>1, <2>2
<1>7. \A u \in Task : status'[u] = NoRow <=> status[u] = NoRow
  BY <1>3, <1>6 DEF Open, NoRow, Pending, Running, Finalizing
<1>8. RowInv'
  BY <1>4, <1>6, <1>7, RowsInLine DEF ShapeInv, RowInv, queueVars
<1>9. MarkInv'
  <2>1. \A u \in Task : status[u] = Finalizing => status'[u] = Finalizing
    BY <1>6
  <2>2. UNCHANGED <<retried, backoff, skipping, moved, missing, requested>>
    BY <1>4 DEF queueVars
  <2> QED
    BY <1>6, <2>1, <2>2, MarksStay DEF ShapeInv, MarkInv
<1>10. WorkerInv'
  <2>1. ToSet(worker'.batch) \subseteq Open(status') /\ t \notin ToSet(worker'.batch) /\ Once(worker'.batch)
    BY <1>2, <1>5, <1>6 DEF ShapeInv, WorkerInv
  <2> QED
    BY <1>2, <1>5, <1>6, <2>1 DEF WorkerInv, Busy
<1> QED
  BY <1>8, <1>9, <1>10 DEF ShapeInv

\* The worker goes on with its task, whose status fits the place.
LEMMA WorkerGoes ==
  ASSUME ShapeInv, worker.pc \in Busy, NEW to \in Busy, Go(to),
         Open(status) \ {Current} \subseteq Open(status'),
         to = "work" => status'[Current] = Running,
         to \notin {"work", "expand"},
         to \in {"finish", "mark", "complete"} =>
           status'[Current] = Finalizing \/ (status'[Current] = Running /\ Current \in Single),
         to \in {"mark", "complete"} => Current \in Child
  PROVE  WorkerInv'
<1>1. /\ worker' \in Worker0
      /\ worker'.pc = to /\ worker'.task = worker.task
      /\ worker'.batch = worker.batch
  BY GoWorker DEF ShapeInv, WorkerInv
<1>2. /\ Current \in Task /\ Current \notin ToSet(worker.batch)
      /\ ToSet(worker.batch) \subseteq Open(status) \ {Current}
  BY BusyWorker
<1>3. to # "down" /\ to # "select" /\ to # "next"
  BY DEF Busy
<1> QED
  BY <1>1, <1>2, <1>3 DEF ShapeInv, WorkerInv, Current, Busy

LEMMA GenerateShape ==
  ASSUME ShapeInv, NEW changed \in BOOLEAN, Generate(changed)
  PROVE  ShapeInv'
<1>1. /\ worker.pc = "work" /\ worker.pc \in Busy /\ status[Current] = Running /\ Go("finish")
      /\ Current \notin Scan
      /\ UNCHANGED <<queueVars, missing, requested>>
  BY DEF Generate, Working, At, Busy, ShapeInv, WorkerInv, Current
<1>2. /\ Current \in Task /\ Current \in Open(status) /\ Current \notin Bundle
  BY <1>1, BusyWorker
<1>3. UNCHANGED <<created, line, retried, backoff, skipping, moved, missing, requested>>
  BY <1>1 DEF queueVars
<1>4. CASE Current \in Child
  <2> DEFINE p == RootOf(Current)
  <2>1. items[p] \in Items
    BY <1>4, Families DEF ShapeInv, RowInv
  <2>2. PICK r : r = Add(items[p], "accepted", 1, changed)
    OBVIOUS
  <2>3. r \in Items
    <3>1. PICK old \in Items, n \in Nat : old = items[p] /\ n = 1
      BY <2>1
    <3>2. r = Add(old, "accepted", n, changed)
      BY <2>2, <3>1
    <3> QED
      BY <3>2, AddAccepted
  <2>4. /\ status' = [status EXCEPT ![Current] = Finalizing, ![RootOf(Current)] = Settled(RootOf(Current), r)]
        /\ items' = [items EXCEPT ![RootOf(Current)] = r]
    BY <1>4, <2>2 DEF Generate, Record
  <2> HIDE DEF p
  <2>5. PICK t \in Child : t = Current
    BY <1>4
  <2>6. /\ status' \in [Task -> Status \cup {NoRow}]
        /\ items' \in [Parent -> Items]
        /\ status'[t] = Finalizing
        /\ \A u \in Open(status) \ {t} : status'[u] = status[u]
        /\ Open(status') = Open(status)
        /\ \A u \in Task : status'[u] = NoRow <=> status[u] = NoRow
    BY <1>2, <2>3, <2>4, <2>5, RecordRows DEF ShapeInv
  <2>7. RowInv'
    BY <1>3, <2>6, RowsInLine DEF ShapeInv
  <2>8. MarkInv'
    <3>1. \A u \in Task : status[u] = Finalizing => status'[u] = Finalizing
      BY <2>6 DEF Open
    <3> QED
      BY <1>3, <2>6, <3>1, MarksStay DEF ShapeInv, MarkInv
  <2>9. WorkerInv'
    <3>1. "finish" \in Busy
      BY DEF Busy
    <3> QED
      BY <1>1, <2>5, <2>6, <3>1, WorkerGoes
  <2> QED
    BY <2>7, <2>8, <2>9 DEF ShapeInv
<1>5. CASE Current \notin Child
  <2>1. UNCHANGED <<status, items>>
    BY <1>5 DEF Generate
  <2>2. Current \in Single
    BY <1>1, <1>2, <1>5 DEF Task, Root, Parent
  <2>3. RowInv'
    BY <1>3, <2>1, RowsStay DEF ShapeInv, RowInv
  <2>4. MarkInv'
    BY <1>3, <2>1 DEF ShapeInv, MarkInv, Open
  <2>5. WorkerInv'
    <3>1. "finish" \in Busy
      BY DEF Busy
    <3> QED
      BY <1>1, <2>1, <2>2, <3>1, WorkerGoes
  <2> QED
    BY <2>3, <2>4, <2>5 DEF ShapeInv
<1> QED
  BY <1>4, <1>5

LEMMA SkipShape ==
  ASSUME ShapeInv, Skip
  PROVE  ShapeInv'
<1>1. /\ worker.pc = "work" /\ worker.pc \in Busy /\ status[Current] = Running /\ Go("finish")
      /\ skipping' = skipping \cup {Current}
      /\ UNCHANGED <<created, line, retried, backoff, moved, missing, requested>>
  BY DEF Skip, Working, At, Busy, ShapeInv, WorkerInv, Current
<1>2. /\ Current \in Task /\ Current \in Open(status)
  BY <1>1, BusyWorker
<1>3. /\ status' \in [Task -> Status \cup {NoRow}]
      /\ items' \in [Parent -> Items]
      /\ status'[Current] = Finalizing
      /\ \A u \in Open(status) \ {Current} : status'[u] = status[u]
      /\ Open(status') = Open(status)
      /\ \A u \in Task : status'[u] = NoRow <=> status[u] = NoRow
  <2>1. CASE Current \in Child
    <3>1. PICK old \in Items, n \in Nat, c \in BOOLEAN :
            old = items[RootOf(Current)] /\ n = 1 /\ c = FALSE
      BY <2>1, Families DEF ShapeInv, RowInv
    <3>2. PICK r : r = Add(old, "skipped", n, c)
      OBVIOUS
    <3>3. r \in Items
      BY <3>2, AddSkipped
    <3>4. /\ status' = [status EXCEPT ![Current] = Finalizing, ![RootOf(Current)] = Settled(RootOf(Current), r)]
          /\ items' = [items EXCEPT ![RootOf(Current)] = r]
      BY <2>1, <3>1, <3>2 DEF Skip, Record
    <3>5. PICK t \in Child : t = Current
      BY <2>1
    <3> QED
      BY <1>2, <3>3, <3>4, <3>5, RecordRows DEF ShapeInv
  <2>2. CASE Current \notin Child
    <3>1. status' = [status EXCEPT ![Current] = Finalizing] /\ Finalizing \in Status /\ UNCHANGED items
      BY <2>2, StatusNames DEF Skip
    <3>2. PICK t \in Task : t = Current
      BY <1>2
    <3>3. /\ status' \in [Task -> Status \cup {NoRow}]
          /\ status'[t] = Finalizing
          /\ \A u \in Task \ {t} : status'[u] = status[u]
          /\ Open(status') = Open(status) \cup {t}
      BY <3>1, <3>2, OneStatus DEF ShapeInv
    <3>4. status[t] # NoRow
      BY <1>1, <3>2 DEF NoRow, Running
    <3>5. \A u \in Task : status'[u] = NoRow <=> status[u] = NoRow
      BY <3>3, <3>4 DEF NoRow, Finalizing
    <3>6. \A u \in Open(status) \ {Current} : status'[u] = status[u]
      BY <3>2, <3>3 DEF Open
    <3>7. Open(status') = Open(status)
      <4>1. Open(status) \cup {t} = Open(status)
        BY <1>2, <3>2
      <4> QED
        BY <3>3, <4>1
    <3>8. items' \in [Parent -> Items]
      BY <3>1 DEF ShapeInv, RowInv
    <3>9. status'[Current] = Finalizing
      BY <3>2, <3>3
    <3> QED
      BY <3>3, <3>5, <3>6, <3>7, <3>8, <3>9
  <2> QED
    BY <2>1, <2>2
<1>4. RowInv'
  BY <1>1, <1>3, RowsInLine DEF ShapeInv
<1>5. MarkInv'
  <2>1. \A u \in Task : status[u] = Finalizing => status'[u] = Finalizing
    BY <1>3 DEF Open
  <2> QED
    BY <1>1, <1>2, <1>3, <2>1 DEF ShapeInv, MarkInv
<1>6. WorkerInv'
  <2>1. "finish" \in Busy
    BY DEF Busy
  <2> QED
    BY <1>1, <1>3, <2>1, WorkerGoes
<1> QED
  BY <1>4, <1>5, <1>6 DEF ShapeInv

LEMMA FailShape ==
  ASSUME ShapeInv, Fail
  PROVE  ShapeInv'
<1>1. /\ worker.pc = "work" /\ worker.pc \in Busy /\ status[Current] = Running
      /\ Leave({Current}) /\ Continue
      /\ UNCHANGED <<missing, requested>>
  BY DEF Fail, Working, At, Busy, ShapeInv, WorkerInv, Current
<1>2. /\ Current \in Task /\ Current \in Open(status)
      /\ ToSet(worker.batch) \subseteq Open(status) \ {Current}
  BY <1>1, BusyWorker
<1>3. /\ status' \in [Task -> Status \cup {NoRow}]
      /\ items' \in [Parent -> Items]
      /\ \A u \in Open(status) \ {Current} : status'[u] = status[u]
      /\ Open(status') = Open(status) \ {Current}
      /\ \A u \in Task : status'[u] = NoRow <=> status[u] = NoRow
  <2>1. CASE Current \in Child
    <3>1. PICK old \in Items, n \in Nat, c \in BOOLEAN :
            old = items[RootOf(Current)] /\ n = 1 /\ c = FALSE
      BY <2>1, Families DEF ShapeInv, RowInv
    <3>2. PICK r : r = Add(old, "failed", n, c)
      OBVIOUS
    <3>3. r \in Items
      BY <3>2, AddFailed
    <3>4. /\ status' = [status EXCEPT ![Current] = Failed, ![RootOf(Current)] = Settled(RootOf(Current), r)]
          /\ items' = [items EXCEPT ![RootOf(Current)] = r]
      BY <2>1, <3>1, <3>2 DEF Fail, Record
    <3>5. PICK t \in Child : t = Current
      BY <2>1
    <3> QED
      BY <1>2, <3>3, <3>4, <3>5, RecordRows DEF ShapeInv
  <2>2. CASE Current \notin Child
    <3>1. status' = [status EXCEPT ![Current] = Failed] /\ Failed \in Status /\ UNCHANGED items
      BY <2>2, StatusNames DEF Fail
    <3>2. PICK t \in Task : t = Current
      BY <1>2
    <3>3. Failed \notin {Pending, Running, Finalizing}
      BY DEF Failed, Pending, Running, Finalizing
    <3>4. /\ status' \in [Task -> Status \cup {NoRow}]
          /\ status'[t] = Failed
          /\ \A u \in Task \ {t} : status'[u] = status[u]
          /\ Open(status') = Open(status) \ {t}
      BY <3>1, <3>2, <3>3, OneStatus DEF ShapeInv
    <3>5. status[t] # NoRow
      BY <1>1, <3>2 DEF NoRow, Running
    <3>6. \A u \in Task : status'[u] = NoRow <=> status[u] = NoRow
      BY <3>4, <3>5 DEF NoRow, Failed
    <3>7. \A u \in Open(status) \ {Current} : status'[u] = status[u]
      BY <3>2, <3>4 DEF Open
    <3> QED
      BY <1>2, <3>1, <3>2, <3>4, <3>6, <3>7 DEF ShapeInv, RowInv
  <2> QED
    BY <2>1, <2>2
<1>4. RowInv' /\ MarkInv'
  <2>1. PICK S : S = {Current}
    OBVIOUS
  <2>2. Leave(S) /\ Open(status') = Open(status) \ S /\ \A u \in Open(status) \ S : status'[u] = status[u]
    BY <1>1, <1>3, <2>1
  <2> QED
    BY <1>1, <1>3, <2>2, SomeLeave DEF ShapeInv
<1>5. WorkerInv'
  BY <1>1, <1>2, <1>3, WorkerContinues DEF ShapeInv
<1> QED
  BY <1>4, <1>5 DEF ShapeInv

\* A task is pending again.
LEMMA WaitShape ==
  ASSUME ShapeInv, DependencyWait \/ DependencyCheckFails
  PROVE  ShapeInv'
<1>1. /\ worker.pc = "work" /\ worker.pc \in Busy /\ status[Current] = Running
      /\ status' = [status EXCEPT ![Current] = Pending]
      /\ moved' \subseteq moved \cup {Current}
      /\ UNCHANGED <<items, created, line, retried, backoff, skipping, missing, requested>>
      /\ Continue \/ worker' = [Down EXCEPT !.pc = "select"]
  BY DEF DependencyWait, DependencyCheckFails, Working, At, Abandon, queueVars, Busy,
         ShapeInv, WorkerInv, Current
<1>2. /\ Current \in Task /\ Current \in Open(status)
      /\ ToSet(worker.batch) \subseteq Open(status) \ {Current}
  BY <1>1, BusyWorker
<1>3. PICK t \in Task : t = Current
  BY <1>2
<1>4. status' = [status EXCEPT ![t] = Pending] /\ Pending \in Status
  BY <1>1, <1>3, StatusNames
<1>5. /\ status' \in [Task -> Status \cup {NoRow}]
      /\ status'[t] = Pending
      /\ \A u \in Task \ {t} : status'[u] = status[u]
      /\ Open(status') = Open(status) \cup {t}
  BY <1>4, OneStatus DEF ShapeInv
<1>6. Open(status') = Open(status) /\ status[t] = Running
  <2>1. t \in Open(status) /\ status[t] = Running
    BY <1>1, <1>2, <1>3
  <2>2. Open(status) \cup {t} = Open(status)
    BY <2>1
  <2> QED
    BY <1>5, <2>1, <2>2
<1>7. \A u \in Task : status'[u] = NoRow <=> status[u] = NoRow
  BY <1>5, <1>6 DEF NoRow, Pending, Running
<1>8. RowInv'
  BY <1>1, <1>5, <1>6, <1>7, RowsInLine DEF ShapeInv, RowInv
<1>9. MarkInv'
  <2>1. \A u \in Task : status[u] = Finalizing => status'[u] = Finalizing
    BY <1>5, <1>6 DEF Running, Finalizing
  <2> QED
    BY <1>1, <1>2, <1>6, <2>1 DEF ShapeInv, MarkInv
<1>10. WorkerInv'
  BY <1>1, <1>2, <1>6, WorkerContinues, WorkerAbandons DEF ShapeInv
<1> QED
  BY <1>8, <1>9, <1>10 DEF ShapeInv

-----------------------------------------------------------------------------
(* Every step keeps them: expansions and ends.                             *)

\* A task is settled.
LEMMA TaskLeaves ==
  ASSUME ShapeInv, NEW t \in Open(status), NEW s \in {WaitingChildren, Completed, Skipped, Failed},
         status' = [status EXCEPT ![t] = s], Leave({t}),
         items' \in [Parent -> Items], UNCHANGED <<missing, requested>>
  PROVE  /\ RowInv' /\ MarkInv'
         /\ status'[t] = s
         /\ \A u \in Task \ {t} : status'[u] = status[u]
         /\ Open(status') = Open(status) \ {t}
<1>1. t \in Task /\ s \in Status /\ s \notin {Pending, Running, Finalizing}
  BY StatusNames DEF Open, WaitingChildren, Completed, Skipped, Failed, Pending, Running, Finalizing
<1>2. /\ status' \in [Task -> Status \cup {NoRow}]
      /\ status'[t] = s
      /\ \A u \in Task \ {t} : status'[u] = status[u]
      /\ Open(status') = Open(status) \ {t}
  BY <1>1, OneStatus DEF ShapeInv
<1>3. status[t] # NoRow /\ status'[t] # NoRow
  BY <1>1, <1>2, StatusNames DEF Open
<1>4. \A u \in Task : status'[u] = NoRow <=> status[u] = NoRow
  BY <1>2, <1>3
<1>5. RowInv' /\ MarkInv'
  <2>1. PICK S : S = {t}
    OBVIOUS
  <2>2. \A u \in Open(status) \ {t} : status'[u] = status[u]
    BY <1>2 DEF Open
  <2>3. Leave(S) /\ Open(status') = Open(status) \ S /\ \A u \in Open(status) \ S : status'[u] = status[u]
    BY <1>2, <2>1, <2>2
  <2> QED
    BY <1>2, <1>4, <2>3, SomeLeave DEF ShapeInv
<1> QED
  BY <1>2, <1>5

LEMMA StartExpandShape ==
  ASSUME ShapeInv, StartExpand
  PROVE  ShapeInv'
<1>1. /\ worker.pc = "work" /\ worker.pc \in Busy /\ status[Current] = Running /\ Current \in Scan
      /\ UNCHANGED <<status, items, queueVars, missing, requested>>
  BY DEF StartExpand, Working, At, Busy, ShapeInv, WorkerInv, Current
<1>2. PICK listing \in Listings[Current] :
        worker' = [worker EXCEPT !.pc = "expand", !.left = listing, !.total = 0]
  BY DEF StartExpand
<1>3. listing \in SUBSET File
  BY <1>1, TaskAssumption
<1>4. /\ worker' \in Worker0 /\ worker'.pc = "expand" /\ worker'.task = worker.task
      /\ worker'.batch = worker.batch
  BY <1>2, <1>3 DEF ShapeInv, WorkerInv, Worker0, Busy
<1>5. RowInv'
  BY <1>1, RowsStay DEF ShapeInv, RowInv, queueVars
<1>6. MarkInv'
  BY <1>1 DEF ShapeInv, MarkInv, Open, queueVars
<1>7. WorkerInv'
  <2>1. Open(status') = Open(status)
    BY <1>1 DEF Open
  <2> QED
    BY <1>1, <1>4, <2>1 DEF ShapeInv, WorkerInv, Current, Busy
<1> QED
  BY <1>5, <1>6, <1>7 DEF ShapeInv

LEMMA EnqueueChildShape ==
  ASSUME ShapeInv, NEW f \in File, EnqueueChild(f)
  PROVE  ShapeInv'
<1>1. /\ worker.pc = "expand" /\ worker.pc \in Busy /\ status[Current] = Running /\ Current \in Scan
      /\ worker' = [worker EXCEPT !.left = worker.left \ {f}, !.total = worker.total + 1]
      /\ UNCHANGED <<items, missing, requested>>
  BY DEF EnqueueChild, At, Busy, ShapeInv, WorkerInv, Current
<1>2. PICK t : t = <<Current, f>>
  OBVIOUS
<1>3. t \in Child /\ t \in Task /\ RootOf(t) = Current /\ t # Current
  BY <1>1, <1>2, Families DEF Child, RootOf
<1>4. /\ worker' \in Worker0 /\ worker'.pc = "expand" /\ worker'.task = worker.task
      /\ worker'.batch = worker.batch
  <2> DEFINE rest == worker.left \ {f}
  <2> DEFINE more == worker.total + 1
  <2>1. PICK files \in SUBSET File, n \in Nat : files = rest /\ n = more
    <3>1. worker.left \in SUBSET File /\ worker.total \in Nat
      BY DEF ShapeInv, WorkerInv, Worker0
    <3>2. rest \in SUBSET File /\ more \in Nat
      BY <3>1
    <3> HIDE DEF rest, more
    <3> QED
      BY <3>2
  <2>2. worker' = [worker EXCEPT !.left = files, !.total = n]
    BY <1>1, <2>1
  <2> QED
    BY <1>1, <2>2 DEF ShapeInv, WorkerInv, Worker0
<1>5. CASE status[t] \in Active
  <2>1. UNCHANGED <<status, created, line, retried, backoff, skipping, moved>>
    BY <1>2, <1>5 DEF EnqueueChild, queueVars
  <2>2. RowInv'
    BY <1>1, <2>1, RowsStay DEF ShapeInv, RowInv
  <2>3. MarkInv'
    BY <1>1, <2>1 DEF ShapeInv, MarkInv, Open
  <2>4. WorkerInv'
    <3>1. Open(status') = Open(status)
      BY <2>1 DEF Open
    <3> QED
      BY <1>1, <1>4, <2>1, <3>1 DEF ShapeInv, WorkerInv, Current, Busy
  <2> QED
    BY <2>2, <2>3, <2>4 DEF ShapeInv
<1>6. CASE status[t] \notin Active
  <2>1. /\ status' = [status EXCEPT ![t] = Pending] /\ Pending \in Status
        /\ created' = created \o <<t>> /\ line' = line \o <<t>>
        /\ UNCHANGED <<retried, backoff, skipping, moved>>
    BY <1>2, <1>6, StatusNames DEF EnqueueChild, Enter
  <2>2. /\ status' \in [Task -> Status \cup {NoRow}]
        /\ status'[t] = Pending
        /\ \A u \in Task \ {t} : status'[u] = status[u]
        /\ Open(status') = Open(status) \cup {t}
    BY <1>3, <2>1, OneStatus DEF ShapeInv
  <2>3. t \notin Open(status)
    BY <1>6, StatusNames DEF Open
  <2>4. InLine(created', status') /\ InLine(line', status')
    <3> DEFINE more == <<t>>
    <3>1. more \in Seq(Task) /\ Once(more) /\ ToSet(more) = {t}
      BY <1>3, SingletonOnce
    <3>2. InLine(created, status) /\ InLine(line, status)
      BY DEF ShapeInv, RowInv
    <3>3. created' = created \o more /\ line' = line \o more
      BY <2>1
    <3> HIDE DEF more
    <3>4. ToSet(more) \cap Open(status) = {} /\ Open(status') = Open(status) \cup ToSet(more)
      BY <2>2, <2>3, <3>1
    <3>5. InLine(created \o more, status') /\ InLine(line \o more, status')
      BY <3>1, <3>2, <3>4, EnterLine
    <3> QED
      BY <3>3, <3>5
  <2>5. \A k \in Child : status'[RootOf(k)] = NoRow => status'[k] = NoRow
    <3>1. \A k \in Child : k \in Task /\ RootOf(k) \in Task /\ RootOf(k) # t
      BY <1>3, Families
    <3>2. status'[RootOf(t)] # NoRow
      <4>1. Current \in Task /\ Current # t
        BY <1>1, <1>3, BusyWorker
      <4>2. status'[Current] = Running
        BY <1>1, <2>2, <4>1
      <4> QED
        BY <1>3, <4>2 DEF Running, NoRow
    <3> QED
      BY <2>2, <3>1, <3>2 DEF ShapeInv, RowInv
  <2>6. t \notin Bundle
    BY <1>3, Families
  <2>7. RowInv'
    BY <1>1, <2>2, <2>4, <2>5, <2>6 DEF ShapeInv, RowInv
  <2>8. MarkInv'
    <3>1. \A u \in Task : status[u] = Finalizing => status'[u] = Finalizing
      BY <2>2, <2>3 DEF Open
    <3> QED
      BY <1>1, <2>1, <2>2, <3>1, MarksStay DEF ShapeInv, MarkInv
  <2>9. WorkerInv'
    <3>1. Current \in Task /\ Current # t /\ Current \notin ToSet(worker.batch)
      BY <1>1, <1>3, BusyWorker
    <3>2. status'[Current] = Running
      BY <1>1, <2>2, <3>1
    <3> QED
      BY <1>1, <1>4, <2>2, <3>1, <3>2 DEF ShapeInv, WorkerInv, Current, Busy
  <2> QED
    BY <2>7, <2>8, <2>9 DEF ShapeInv
<1> QED
  BY <1>5, <1>6

LEMMA ExpandedShape ==
  ASSUME ShapeInv, ExpandFails \/ MarkDirectoryScanExpanded
  PROVE  ShapeInv'
<1>1. /\ worker.pc = "expand" /\ worker.pc \in Busy /\ Current \in Scan
      /\ Leave({Current}) /\ Continue
      /\ UNCHANGED <<missing, requested>>
  BY DEF ExpandFails, MarkDirectoryScanExpanded, At, Busy, ShapeInv, WorkerInv, Current
<1>2. PICK t \in Open(status) : t = Current
  BY <1>1, BusyWorker
<1>3. \E s \in {WaitingChildren, Completed, Failed} : status' = [status EXCEPT ![t] = s]
  BY <1>2 DEF ExpandFails, MarkDirectoryScanExpanded
<1>4. items' \in [Parent -> Items]
  <2>1. CASE ExpandFails
    BY <2>1 DEF ExpandFails, ShapeInv, RowInv
  <2>2. CASE MarkDirectoryScanExpanded
    <3> DEFINE r == [NoItems EXCEPT !.total = worker.total, !.submitted = items[Current].submitted]
    <3>1. items' = [items EXCEPT ![Current] = r]
      BY <2>2 DEF MarkDirectoryScanExpanded
    <3>2. items[Current] \in Items /\ worker.total \in Nat
      BY <1>1, Families DEF ShapeInv, RowInv, WorkerInv, Worker0
    <3>3. r \in Items
      BY <3>2 DEF NoItems, Items
    <3> HIDE DEF r
    <3> QED
      BY <3>1, <3>3 DEF ShapeInv, RowInv
  <2> QED
    BY <2>1, <2>2
<1>5. PICK s \in {WaitingChildren, Completed, Skipped, Failed} : status' = [status EXCEPT ![t] = s]
  BY <1>3
<1>6. /\ RowInv' /\ MarkInv'
      /\ Open(status') = Open(status) \ {t}
  BY <1>1, <1>2, <1>4, <1>5, TaskLeaves
<1>7. WorkerInv'
  <2>1. ToSet(worker.batch) \subseteq Open(status')
    BY <1>1, <1>2, <1>6, BusyWorker
  <2> QED
    BY <1>1, <2>1, WorkerContinues DEF ShapeInv
<1> QED
  BY <1>6, <1>7 DEF ShapeInv

LEMMA RefreshShape ==
  ASSUME ShapeInv, SubmitRefresh \/ MarkRefreshSubmitted
  PROVE  ShapeInv'
<1>1. /\ worker.pc \in {"finish", "mark"} /\ worker.pc \in Busy
      /\ UNCHANGED <<status, created, line, retried, backoff, skipping, moved, missing>>
      /\ Current \in Child
      /\ Go("mark") \/ Go("complete")
  BY DEF SubmitRefresh, MarkRefreshSubmitted, RefreshDue, At, Busy, ShapeInv, WorkerInv, Current, queueVars
<1>2. RootOf(Current) \in Parent
  BY <1>1, Families
<1>3. items' \in [Parent -> Items] /\ requested' \subseteq Parent
  <2>1. CASE SubmitRefresh
    BY <1>2, <2>1 DEF SubmitRefresh, ShapeInv, RowInv, MarkInv
  <2>2. CASE MarkRefreshSubmitted
    <3> DEFINE p == RootOf(Current)
    <3>1. items' = [items EXCEPT ![p] = [items[p] EXCEPT !.submitted = TRUE]] /\ UNCHANGED requested
      BY <2>2 DEF MarkRefreshSubmitted
    <3>2. p \in Parent /\ items[p] \in Items
      BY <1>2 DEF ShapeInv, RowInv
    <3> HIDE DEF p
    <3>3. [items[p] EXCEPT !.submitted = TRUE] \in Items
      BY <3>2 DEF Items
    <3> QED
      BY <3>1, <3>2, <3>3 DEF ShapeInv, RowInv, MarkInv
  <2> QED
    BY <2>1, <2>2
<1>4. RowInv'
  BY <1>1, <1>3, RowsStay DEF ShapeInv
<1>5. Open(status') = Open(status)
  BY <1>1 DEF Open
<1>6. MarkInv'
  BY <1>1, <1>3, <1>5 DEF ShapeInv, MarkInv
<1>7. WorkerInv'
  <2>1. PICK to \in {"mark", "complete"} : Go(to)
    BY <1>1
  <2>2. to \in Busy /\ to \notin {"work", "expand"}
    BY <2>1 DEF Busy
  <2>3. status'[Current] = Finalizing \/ (status'[Current] = Running /\ Current \in Single)
    BY <1>1 DEF ShapeInv, WorkerInv, Current
  <2> QED
    BY <1>1, <1>5, <2>1, <2>2, <2>3, WorkerGoes
<1> QED
  BY <1>4, <1>6, <1>7 DEF ShapeInv

LEMMA CompletedShape ==
  ASSUME ShapeInv, MarkCompleted
  PROVE  ShapeInv'
<1>1. /\ worker.pc \in Busy /\ Leave({Current}) /\ Continue
      /\ UNCHANGED <<items, missing, requested>>
  BY DEF MarkCompleted, Complete, At, Busy
<1>2. PICK t \in Open(status) : t = Current
  BY <1>1, BusyWorker
<1>3. PICK s \in {WaitingChildren, Completed, Skipped, Failed} : status' = [status EXCEPT ![t] = s]
  BY <1>2 DEF MarkCompleted, Complete
<1>4. items' \in [Parent -> Items]
  BY <1>1 DEF ShapeInv, RowInv
<1>5. /\ RowInv' /\ MarkInv'
      /\ Open(status') = Open(status) \ {t}
  BY <1>1, <1>2, <1>3, <1>4, TaskLeaves
<1>6. WorkerInv'
  <2>1. ToSet(worker.batch) \subseteq Open(status')
    BY <1>1, <1>2, <1>5, BusyWorker
  <2> QED
    BY <1>1, <2>1, WorkerContinues DEF ShapeInv
<1> QED
  BY <1>5, <1>6 DEF ShapeInv

LEMMA FinishFailsShape ==
  ASSUME ShapeInv, FinishFails
  PROVE  ShapeInv'
<1>1. /\ worker.pc \in Busy /\ worker' = [Down EXCEPT !.pc = "select"]
      /\ UNCHANGED <<items, missing, requested>>
  BY DEF FinishFails, Abandon, Busy
<1>2. PICK t \in Open(status) : t = Current
  BY <1>1, BusyWorker
<1>3. WorkerInv'
  BY <1>1, WorkerAbandons
<1>4. items' \in [Parent -> Items]
  BY <1>1 DEF ShapeInv, RowInv
<1>5. CASE /\ status[Current] = Finalizing
           /\ retried' = retried \cup {Current}
           /\ backoff' = backoff \cup {Current}
           /\ line' = Append(Without(line, {Current}), Current)
           /\ UNCHANGED <<status, created, skipping, moved>>
  <2>1. InLine(line', status)
    <3>1. InLine(line, status)
      BY DEF ShapeInv, RowInv
    <3>2. InLine(Append(Without(line, {t}), t), status)
      BY <1>2, <3>1, MoveToEnd
    <3> QED
      BY <1>2, <1>5, <3>2
  <2>2. InLine(created, status)
    BY DEF ShapeInv, RowInv
  <2>3. InLine(line', status') /\ InLine(created', status') /\ Open(status') = Open(status)
    BY <1>5, <2>1, <2>2 DEF InLine, Open
  <2>4. RowInv'
    BY <1>4, <1>5, <2>3 DEF ShapeInv, RowInv
  <2>5. Current \in Task
    BY <1>2 DEF Open
  <2>6. MarkInv'
    BY <1>1, <1>5, <2>3, <2>5 DEF ShapeInv, MarkInv
  <2> QED
    BY <1>3, <2>4, <2>6 DEF ShapeInv
<1>6. CASE /\ status[Current] = Running
           /\ status' = [status EXCEPT ![Current] = Failed]
           /\ Leave({Current})
  <2>1. PICK s \in {WaitingChildren, Completed, Skipped, Failed} : s = Failed
    OBVIOUS
  <2>2. status' = [status EXCEPT ![t] = s] /\ Leave({t})
    BY <1>2, <1>6, <2>1
  <2>3. RowInv' /\ MarkInv'
    BY <1>1, <1>4, <2>2, TaskLeaves
  <2> QED
    BY <1>3, <2>3 DEF ShapeInv
<1> QED
  BY <1>5, <1>6 DEF FinishFails

LEMMA InitShape ==
  ASSUME Init
  PROVE  ShapeInv
<1>1. Open(status) = {}
  BY DEF Init, Open, NoRow, Pending, Running, Finalizing
<1>2. << >> \in Seq(Task) /\ ToSet(<< >>) = {} /\ Once(<< >>)
  BY EmptyOnce
<1>3. NoItems \in Items
  BY DEF NoItems, Items
<1>4. RowInv
  <2>1. items \in [Parent -> Items] /\ status \in [Task -> Status \cup {NoRow}]
    BY <1>3 DEF Init
  <2>2. InLine(created, status) /\ InLine(line, status)
    BY <1>1, <1>2 DEF Init, InLine
  <2>3. \A k \in Child : status[k] = NoRow
    BY Families DEF Init
  <2> QED
    BY <1>1, <2>1, <2>2, <2>3 DEF RowInv
<1>5. MarkInv
  BY <1>1 DEF Init, MarkInv
<1>6. WorkerInv
  BY <1>1, <1>2 DEF Init, Down, WorkerInv, Worker0, Busy
<1> QED
  BY <1>4, <1>5, <1>6 DEF ShapeInv

LEMMA StillShape ==
  ASSUME ShapeInv, UNCHANGED vars
  PROVE  ShapeInv'
<1>1. UNCHANGED <<status, items, created, line, retried, backoff, skipping, moved, missing,
                  requested, worker>>
  BY DEF vars, queueVars
<1>2. RowInv'
  BY <1>1, RowsStay DEF ShapeInv, RowInv
<1>3. MarkInv'
  BY <1>1 DEF ShapeInv, MarkInv, Open
<1>4. WorkerInv'
  BY <1>1, WorkerStays DEF ShapeInv
<1> QED
  BY <1>2, <1>3, <1>4 DEF ShapeInv

\* The steps by the variables they leave alone and the proofs they share.
LEMMA Steps ==
  ASSUME [Next]_vars
  PROVE  \/ \E t \in Scan \cup Single : EnqueueStrmGenerationTask(t)
         \/ \E b \in Bundle, S \in SUBSET File : EnqueueStrmWebhookBatch(b, S)
         \/ (\E q \in SyncPath : DeleteSyncPathByID(q)) \/ (\E t \in Task : BackoffElapses(t))
         \/ Boot
         \/ RetireMissing \/ RetireAtWork \/ RetireAtFinish
         \/ Select \/ Begin
         \/ \E changed \in BOOLEAN : Generate(changed)
         \/ Skip \/ Fail
         \/ DependencyWait \/ DependencyCheckFails
         \/ StartExpand \/ (\E f \in File : EnqueueChild(f))
         \/ ExpandFails \/ MarkDirectoryScanExpanded
         \/ SubmitRefresh \/ MarkRefreshSubmitted \/ MarkCompleted
         \/ FinishFails
         \/ BootWithoutReset \/ Crash \/ SaveError
         \/ UNCHANGED vars
BY Zenon DEF Next, Request, Worker, Fault

LEMMA StepShape ==
  ASSUME ShapeInv, [Next]_vars
  PROVE  ShapeInv'
<1>1. CASE \E t \in Scan \cup Single : EnqueueStrmGenerationTask(t)
  BY <1>1, EnqueueShape
<1>2. CASE \E b \in Bundle, S \in SUBSET File : EnqueueStrmWebhookBatch(b, S)
  BY <1>2, EnqueueBatchShape
<1>3. CASE (\E q \in SyncPath : DeleteSyncPathByID(q)) \/ (\E t \in Task : BackoffElapses(t))
  BY <1>3, QuietShape
<1>4. CASE Boot
  BY <1>4, BootShape
<1>5. CASE RetireMissing \/ RetireAtWork \/ RetireAtFinish
  BY <1>5, RetireSteps
<1>6. CASE Select \/ Begin
  BY <1>6, SelectShape, BeginShape
<1>7. CASE \E changed \in BOOLEAN : Generate(changed)
  BY <1>7, GenerateShape
<1>8. CASE Skip \/ Fail
  BY <1>8, SkipShape, FailShape
<1>9. CASE DependencyWait \/ DependencyCheckFails
  BY <1>9, WaitShape
<1>10. CASE StartExpand \/ (\E f \in File : EnqueueChild(f))
  BY <1>10, StartExpandShape, EnqueueChildShape
<1>11. CASE ExpandFails \/ MarkDirectoryScanExpanded
  BY <1>11, ExpandedShape
<1>12. CASE SubmitRefresh \/ MarkRefreshSubmitted
  BY <1>12, RefreshShape
<1>13. CASE MarkCompleted \/ FinishFails
  BY <1>13, CompletedShape, FinishFailsShape
<1>14. CASE BootWithoutReset \/ Crash \/ SaveError
  BY <1>14, LetGoShape
<1>15. CASE UNCHANGED vars
  BY <1>15, StillShape
<1> QED
  BY <1>1, <1>2, <1>3, <1>4, <1>5, <1>6, <1>7, <1>8, <1>9, <1>10, <1>11, <1>12, <1>13,
     <1>14, <1>15, Steps

\* The queue holds exactly the tasks to be worked on, each once; those to be
\* repeated or skipped are finalizing; and the worker has in its hands a task
\* in the status that its place asks for, and a batch of other open tasks.
THEOREM RowsFitTheWorker ==
  Spec => []ShapeInv
<1>1. Init => ShapeInv
  BY InitShape
<1>2. ShapeInv /\ [Next]_vars => ShapeInv'
  BY StepShape
<1> QED
  BY <1>1, <1>2, PTL DEF Spec

-----------------------------------------------------------------------------
(* The order of the tasks.                                                 *)

\* A child, its result, and what its parent is afterwards.
LEMMA Recorded ==
  ASSUME ShapeInv, Current \in Child,
         (\E changed \in BOOLEAN : Generate(changed)) \/ Skip \/ Fail
  PROVE  \E r \in Items, s \in {Finalizing, Failed}, old \in Items :
           /\ old = items[RootOf(Current)]
           /\ status' = [status EXCEPT ![Current] = s, ![RootOf(Current)] = Settled(RootOf(Current), r)]
           /\ items' = [items EXCEPT ![RootOf(Current)] = r]
           /\ s = Failed <=> Fail
           /\ Processed(r) = Processed(old) + 1
           /\ r.total = IF old.total >= Processed(old) + 1 THEN old.total ELSE Processed(old) + 1
           /\ r.failed = IF s = Failed THEN old.failed + 1 ELSE old.failed
           /\ r.submitted = old.submitted
<1>1. PICK old \in Items, n \in Nat, c \in BOOLEAN :
        old = items[RootOf(Current)] /\ n = 1 /\ c = FALSE
  BY Families DEF ShapeInv, RowInv
<1>2. Failed # Finalizing
  BY DEF Failed, Finalizing
<1>3. At("work") /\ (Fail => worker'.pc \in {"select", "next"}) /\ (Go("finish") => worker'.pc = "finish")
  <2>1. worker \in Worker0 /\ "finish" \in Busy
    BY DEF ShapeInv, WorkerInv, Busy
  <2>2. Fail => Continue
    BY DEF Fail
  <2> QED
    BY <2>1, <2>2, ContinueWorker, GoWorker DEF Generate, Skip, Fail, Working
<1>4. CASE \E changed \in BOOLEAN : Generate(changed)
  <2>1. PICK changed \in BOOLEAN : Generate(changed)
    BY <1>4
  <2>2. PICK r : r = Add(old, "accepted", n, changed)
    OBVIOUS
  <2>3. /\ r \in Items /\ r.failed = old.failed /\ r.submitted = old.submitted
        /\ r.total = IF old.total >= Processed(old) + n THEN old.total ELSE Processed(old) + n
        /\ Processed(r) = Processed(old) + n
    BY <2>2, AddAccepted
  <2>4. /\ status' = [status EXCEPT ![Current] = Finalizing, ![RootOf(Current)] = Settled(RootOf(Current), r)]
        /\ items' = [items EXCEPT ![RootOf(Current)] = r]
    BY <1>1, <2>1, <2>2 DEF Generate, Record
  <2>5. ~Fail
    BY <1>3, <2>1 DEF Generate
  <2> QED
    BY <1>1, <1>2, <2>3, <2>4, <2>5
<1>5. CASE Skip
  <2>1. PICK r : r = Add(old, "skipped", n, c)
    OBVIOUS
  <2>2. /\ r \in Items /\ r.failed = old.failed /\ r.submitted = old.submitted
        /\ r.total = IF old.total >= Processed(old) + n THEN old.total ELSE Processed(old) + n
        /\ Processed(r) = Processed(old) + n
    BY <2>1, AddSkipped
  <2>3. /\ status' = [status EXCEPT ![Current] = Finalizing, ![RootOf(Current)] = Settled(RootOf(Current), r)]
        /\ items' = [items EXCEPT ![RootOf(Current)] = r]
    BY <1>1, <1>5, <2>1 DEF Skip, Record
  <2>4. ~Fail
    BY <1>3, <1>5 DEF Skip
  <2> QED
    BY <1>1, <1>2, <2>2, <2>3, <2>4
<1>6. CASE Fail
  <2>1. PICK r : r = Add(old, "failed", n, c)
    OBVIOUS
  <2>2. /\ r \in Items /\ r.failed = old.failed + n /\ r.submitted = old.submitted
        /\ r.total = IF old.total >= Processed(old) + n THEN old.total ELSE Processed(old) + n
        /\ Processed(r) = Processed(old) + n
    BY <2>1, AddFailed
  <2>3. /\ status' = [status EXCEPT ![Current] = Failed, ![RootOf(Current)] = Settled(RootOf(Current), r)]
        /\ items' = [items EXCEPT ![RootOf(Current)] = r]
    BY <1>1, <1>6, <2>1 DEF Fail, Record
  <2> QED
    BY <1>1, <1>2, <1>6, <2>2, <2>3
<1> QED
  BY <1>4, <1>5, <1>6

\* No task of the batch is blocked when its turn comes.
BatchFree ==
  \A t \in ToSet(worker.batch) : status[t] = Pending => ~GenerationTaskBlocked(t)

NoneBegins == \A u \in Task : status'[u] = Running => status[u] = Running

BatchKept ==
  \/ worker'.batch = << >>
  \/ /\ worker'.batch = worker.batch /\ retried' \subseteq retried
     /\ \A u \in ToSet(worker.batch) : status'[u] = status[u] /\ (u \in moved' => u \in moved)
     /\ \/ created' = created
        \/ \E more \in Seq(Task) : created' = created \o more /\ ToSet(more) \cap Open(status) = {}
        \/ \E S : created' = Without(created, S)

LEMMA KeptIsFree ==
  ASSUME ShapeInv, BatchFree, BatchKept
  PROVE  BatchFree'
<1>1. CASE worker'.batch = << >>
  BY <1>1, EmptyOnce DEF BatchFree
<1>2. CASE worker'.batch # << >>
  <2>1. /\ worker'.batch = worker.batch /\ retried' \subseteq retried
        /\ \A u \in ToSet(worker.batch) : status'[u] = status[u] /\ (u \in moved' => u \in moved)
        /\ \/ created' = created
           \/ \E more \in Seq(Task) : created' = created \o more /\ ToSet(more) \cap Open(status) = {}
           \/ \E S : created' = Without(created, S)
    BY <1>2 DEF BatchKept
  <2>2. created \in Seq(Task) /\ ToSet(worker.batch) \subseteq Open(status)
    BY DEF ShapeInv, RowInv, InLine, WorkerInv
  <2>3. ASSUME NEW r, NEW t \in ToSet(worker.batch), Precedes(created', r, t)
        PROVE  Precedes(created, r, t)
    <3>1. CASE created' = created
      BY <2>3, <3>1
    <3>2. CASE \E more \in Seq(Task) : created' = created \o more /\ ToSet(more) \cap Open(status) = {}
      <4>1. PICK more \in Seq(Task) : created' = created \o more /\ ToSet(more) \cap Open(status) = {}
        BY <3>2
      <4>2. t \notin ToSet(more)
        BY <2>2, <4>1
      <4> QED
        BY <2>2, <2>3, <4>1, <4>2, ConcatOnce
    <3>3. CASE \E S : created' = Without(created, S)
      BY <2>2, <2>3, <3>3, WithoutProperties
    <3> QED
      BY <2>1, <3>1, <3>2, <3>3
  <2>4. ASSUME NEW t \in ToSet(worker.batch), status'[t] = Pending, GenerationTaskBlocked(t)'
        PROVE  FALSE
    <3>1. PICK r \in retried' : Precedes(created', r, t) /\ (Overlaps(r, t) \/ t \in moved')
      BY <2>4 DEF GenerationTaskBlocked
    <3>2. r \in retried /\ Precedes(created, r, t) /\ (Overlaps(r, t) \/ t \in moved)
      BY <2>1, <2>3, <3>1
    <3>3. GenerationTaskBlocked(t) /\ status[t] = Pending
      BY <2>1, <2>4, <3>2 DEF GenerationTaskBlocked
    <3> QED
      BY <3>3 DEF BatchFree
  <2> QED
    BY <2>1, <2>4 DEF BatchFree
<1> QED
  BY <1>1, <1>2

\* One task gets a status that is not running.
LEMMA OneNotBegun ==
  ASSUME NEW t, NEW s, s # Running, status' = [status EXCEPT ![t] = s],
         status \in [Task -> Status \cup {NoRow}]
  PROVE  NoneBegins /\ \A u \in Task \ {t} : status'[u] = status[u]
BY DEF NoneBegins

LEMMA NotRunning ==
  Running \notin {Pending, Finalizing, WaitingChildren, Completed, Skipped, Failed, NoRow}
BY DEF Pending, Running, Finalizing, WaitingChildren, Completed, Skipped, Failed, NoRow

LEMMA RequestsKeepBatch ==
  ASSUME ShapeInv,
         \/ \E t \in Scan \cup Single : EnqueueStrmGenerationTask(t)
         \/ \E b \in Bundle, S \in SUBSET File : EnqueueStrmWebhookBatch(b, S)
         \/ \E q \in SyncPath : DeleteSyncPathByID(q)
         \/ \E t \in Task : BackoffElapses(t)
  PROVE  NoneBegins /\ BatchKept
<1>1. status \in [Task -> Status \cup {NoRow}] /\ ToSet(worker.batch) \subseteq Open(status)
  BY DEF ShapeInv, RowInv, WorkerInv
<1>2. ASSUME NEW t \in Scan \cup Single, EnqueueStrmGenerationTask(t)
      PROVE  NoneBegins /\ BatchKept
  <2>1. /\ status[t] = NoRow /\ status' = [status EXCEPT ![t] = Pending]
        /\ created' = created \o <<t>> /\ UNCHANGED <<retried, moved, worker>>
    BY <1>2 DEF EnqueueStrmGenerationTask, Enter
  <2>2. NoneBegins /\ \A u \in Task \ {t} : status'[u] = status[u]
    BY <1>1, <2>1, OneNotBegun, NotRunning
  <2>3. t \notin Open(status) /\ t \in Task
    BY <2>1, Families, StatusNames DEF Open
  <2>4. <<t>> \in Seq(Task) /\ ToSet(<<t>>) = {t}
    BY <2>3, SingletonOnce
  <2>5. \A u \in ToSet(worker.batch) : status'[u] = status[u]
    BY <1>1, <2>2, <2>3 DEF Open
  <2>6. \E more \in Seq(Task) : created' = created \o more /\ ToSet(more) \cap Open(status) = {}
    <3>1. PICK more : more = <<t>>
      OBVIOUS
    <3>2. more \in Seq(Task) /\ created' = created \o more /\ ToSet(more) = {t}
      BY <2>1, <2>4, <3>1
    <3> QED
      BY <2>3, <3>2
  <2> QED
    BY <2>1, <2>2, <2>5, <2>6 DEF BatchKept
<1>3. ASSUME NEW b \in Bundle, NEW S \in SUBSET File, EnqueueStrmWebhookBatch(b, S)
      PROVE  NoneBegins /\ BatchKept
  <2> DEFINE new == {b} \X S
  <2>1. /\ status[b] = NoRow
        /\ status' = [t \in Task |-> IF t = b THEN WaitingChildren
                                     ELSE IF t \in new THEN Pending ELSE status[t]]
        /\ created' = created \o SetToSeq(new) /\ UNCHANGED <<retried, moved, worker>>
    BY <1>3 DEF EnqueueStrmWebhookBatch, Enter
  <2>2. b \in Parent /\ \A k \in new : k \in Child /\ RootOf(k) = b /\ k \in ChildrenOf(b)
    BY Families DEF Child, RootOf, ChildrenOf
  <2>3. \A k \in new : status[k] = NoRow
    BY <2>1, <2>2 DEF ShapeInv, RowInv
  <2>4. SetToSeq(new) \in Seq(Task) /\ ToSet(SetToSeq(new)) = new
    <3>1. IsFiniteSet(ChildrenOf(b)) /\ new \in SUBSET ChildrenOf(b)
      BY <2>2, FilesOf DEF ChildrenOf
    <3> HIDE DEF new
    <3>2. IsFiniteSet(new) /\ new \subseteq Task
      BY <2>2, <3>1, FS_Subset, Families
    <3>3. SetToSeq(new) \in Seq(new) /\ ToSet(SetToSeq(new)) = new
      BY <3>2, SetToSeqOnce
    <3> QED
      BY <3>2, <3>3, SeqMonotonic
  <2> HIDE DEF new
  <2>5. NoneBegins
    BY <2>1, NotRunning DEF NoneBegins
  <2>6. \A u \in Open(status) : u # b /\ u \notin new /\ status'[u] = status[u]
    BY <2>1, <2>3, StatusNames DEF Open
  <2>7. \E more \in Seq(Task) : created' = created \o more /\ ToSet(more) \cap Open(status) = {}
    BY <2>1, <2>4, <2>6
  <2> QED
    BY <1>1, <2>1, <2>5, <2>6, <2>7 DEF BatchKept
<1>4. CASE (\E q \in SyncPath : DeleteSyncPathByID(q)) \/ (\E t \in Task : BackoffElapses(t))
  <2>1. UNCHANGED <<status, created, retried, moved, worker>>
    BY <1>4 DEF DeleteSyncPathByID, BackoffElapses, queueVars
  <2> QED
    BY <2>1 DEF NoneBegins, BatchKept
<1> QED
  BY <1>2, <1>3, <1>4

LEMMA AbandonsKeepBatch ==
  ASSUME ShapeInv,
         \/ Boot \/ BootWithoutReset \/ Crash \/ SaveError
         \/ RetireMissing \/ RetireAtWork \/ RetireAtFinish
         \/ DependencyCheckFails \/ FinishFails
  PROVE  NoneBegins /\ BatchKept
<1>1. status \in [Task -> Status \cup {NoRow}]
  BY DEF ShapeInv, RowInv
<1>2. worker' = [Down EXCEPT !.pc = "select"] \/ worker' = Down
  BY DEF Boot, BootWithoutReset, Crash, SaveError, RetireMissing, RetireAtWork, RetireAtFinish,
         DependencyCheckFails, FinishFails, Retire, Abandon
<1>3. BatchKept
  BY <1>2, AbandonWorker DEF BatchKept
<1> SUFFICES NoneBegins
  BY <1>3
<1>4. CASE Boot
  BY <1>4, NotRunning DEF Boot, NoneBegins
<1>5. CASE BootWithoutReset \/ Crash \/ SaveError
  BY <1>5 DEF BootWithoutReset, Crash, SaveError, NoneBegins
<1>6. ASSUME NEW q, NEW st, Retire(q, st), \A u \in Task : st[u] = Running => status[u] = Running
      PROVE  NoneBegins
  <2>1. \A u \in Task : status'[u] = Failed \/ status'[u] = st[u]
    BY <1>6 DEF Retire
  <2> QED
    BY <1>6, <2>1, NotRunning DEF NoneBegins
<1>7. CASE RetireMissing \/ RetireAtWork \/ RetireAtFinish
  <2>1. CASE \E q : Retire(q, status)
    BY <1>6, <2>1
  <2>2. CASE \E q : Retire(q, [status EXCEPT ![Current] = Pending])
    <3>1. PICK st : st = [status EXCEPT ![Current] = Pending]
      OBVIOUS
    <3>2. \A u \in Task : st[u] = Running => status[u] = Running
      BY <1>1, <3>1, NotRunning
    <3>3. PICK q : Retire(q, st)
      BY <2>2, <3>1
    <3> QED
      BY <1>6, <3>2, <3>3
  <2> QED
    BY <1>7, <2>1, <2>2 DEF RetireMissing, RetireAtWork, RetireAtFinish
<1>8. CASE DependencyCheckFails
  BY <1>1, <1>8, OneNotBegun, NotRunning DEF DependencyCheckFails
<1>9. CASE FinishFails
  <2>1. UNCHANGED status \/ status' = [status EXCEPT ![Current] = Failed]
    BY <1>9 DEF FinishFails
  <2> QED
    BY <1>1, <2>1, OneNotBegun, NotRunning DEF NoneBegins
<1> QED
  BY <1>4, <1>5, <1>7, <1>8, <1>9

\* The steps that settle, or give back, the worker's task and go on.
LEMMA GoingOnKeepsBatch ==
  ASSUME ShapeInv, Fail \/ DependencyWait \/ ExpandFails \/ MarkDirectoryScanExpanded \/ MarkCompleted
  PROVE  NoneBegins /\ BatchKept
<1>1. /\ worker.pc \in Busy /\ Continue /\ retried' \subseteq retried
      /\ moved' \subseteq moved \cup {Current}
      /\ created' = created \/ created' = Without(created, {Current})
  BY DEF Fail, DependencyWait, ExpandFails, MarkDirectoryScanExpanded, MarkCompleted, Complete,
         Working, At, Leave, Busy
<1>2. status \in [Task -> Status \cup {NoRow}]
  BY DEF ShapeInv, RowInv
<1>3. worker'.batch = worker.batch /\ ToSet(worker.batch) \subseteq Open(status) \ {Current}
  BY <1>1, ContinueWorker, BusyWorker DEF ShapeInv, WorkerInv
<1>4. NoneBegins /\ \A u \in Open(status) \ {Current} : status'[u] = status[u]
  <2>1. CASE Fail /\ Current \in Child
    <3>1. PICK r \in Items, s \in {Finalizing, Failed} :
            /\ status' = [status EXCEPT ![Current] = s, ![RootOf(Current)] = Settled(RootOf(Current), r)]
            /\ items' = [items EXCEPT ![RootOf(Current)] = r]
      BY <2>1, Recorded
    <3>2. PICK t \in Child : t = Current /\ t \in Open(status)
      BY <1>1, <2>1, BusyWorker
    <3>3. /\ status'[t] = s /\ status'[RootOf(t)] = Settled(RootOf(t), r)
          /\ \A u \in Task \ {t, RootOf(t)} : status'[u] = status[u]
          /\ \A u \in Open(status) \ {t} : status'[u] = status[u]
      <4>1. /\ status' = [status EXCEPT ![t] = s, ![RootOf(t)] = Settled(RootOf(t), r)]
            /\ items' = [items EXCEPT ![RootOf(t)] = r]
        BY <3>1, <3>2
      <4>2. RowInv /\ t \in Open(status)
        BY <3>2 DEF ShapeInv
      <4>3. /\ status' \in [Task -> Status \cup {NoRow}]
            /\ items' \in [Parent -> Items]
            /\ status'[t] = s /\ status'[RootOf(t)] = Settled(RootOf(t), r)
            /\ items'[RootOf(t)] = r
            /\ \A u \in Task \ {t, RootOf(t)} : status'[u] = status[u]
            /\ \A p \in Parent \ {RootOf(t)} : items'[p] = items[p]
            /\ \A u \in Open(status) \ {t} : status'[u] = status[u]
        BY <4>1, <4>2, RecordRows
      <4> QED
        BY <4>3
    <3>4. Settled(RootOf(t), r) = Running => status[RootOf(t)] = Running
      BY SettledCases, NotRunning
    <3>5. NoneBegins
      BY <3>3, <3>4, NotRunning DEF NoneBegins
    <3> QED
      BY <3>2, <3>3, <3>5
  <2>2. CASE ~(Fail /\ Current \in Child)
    <3>1. \E s \in {Pending, WaitingChildren, Completed, Skipped, Failed} :
            status' = [status EXCEPT ![Current] = s]
      BY <2>2 DEF Fail, DependencyWait, ExpandFails, MarkDirectoryScanExpanded, MarkCompleted, Complete
    <3>2. NoneBegins /\ \A u \in Task \ {Current} : status'[u] = status[u]
      BY <1>2, <3>1, OneNotBegun, NotRunning
    <3> QED
      BY <3>2 DEF Open
  <2> QED
    BY <2>1, <2>2
<1>5. created' = created \/ \E S : created' = Without(created, S)
  BY <1>1
<1> QED
  BY <1>1, <1>3, <1>4, <1>5 DEF BatchKept

\* The steps in which the worker keeps its task.
LEMMA WorkKeepsBatch ==
  ASSUME ShapeInv,
         \/ (\E changed \in BOOLEAN : Generate(changed)) \/ Skip
         \/ StartExpand \/ (\E f \in File : EnqueueChild(f))
         \/ SubmitRefresh \/ MarkRefreshSubmitted
  PROVE  NoneBegins /\ BatchKept
<1>1. /\ worker.pc \in Busy /\ worker'.batch = worker.batch /\ UNCHANGED <<retried, moved>>
  BY DEF Generate, Skip, StartExpand, EnqueueChild, SubmitRefresh, MarkRefreshSubmitted,
         Working, At, Busy, Go, Enter, queueVars, ShapeInv, WorkerInv, Worker0
<1>2. status \in [Task -> Status \cup {NoRow}]
  BY DEF ShapeInv, RowInv
<1>3. ToSet(worker.batch) \subseteq Open(status) \ {Current} /\ Current \in Task
  BY <1>1, BusyWorker
<1>4. CASE (\E changed \in BOOLEAN : Generate(changed)) \/ Skip
  <2>1. created' = created
    BY <1>4 DEF Generate, Skip, queueVars
  <2>2. NoneBegins /\ \A u \in Open(status) \ {Current} : status'[u] = status[u]
    <3>1. CASE Current \in Child
      <4>1. PICK r \in Items, s \in {Finalizing, Failed} :
              /\ status' = [status EXCEPT ![Current] = s, ![RootOf(Current)] = Settled(RootOf(Current), r)]
              /\ items' = [items EXCEPT ![RootOf(Current)] = r]
        BY <1>4, <3>1, Recorded
      <4>2. PICK t \in Child : t = Current /\ t \in Open(status)
        BY <1>1, <3>1, BusyWorker
      <4>3. /\ status'[t] = s /\ status'[RootOf(t)] = Settled(RootOf(t), r)
            /\ \A u \in Task \ {t, RootOf(t)} : status'[u] = status[u]
            /\ \A u \in Open(status) \ {t} : status'[u] = status[u]
        <5>1. /\ status' = [status EXCEPT ![t] = s, ![RootOf(t)] = Settled(RootOf(t), r)]
              /\ items' = [items EXCEPT ![RootOf(t)] = r]
          BY <4>1, <4>2
        <5>2. RowInv /\ t \in Open(status)
          BY <4>2 DEF ShapeInv
        <5>3. /\ status' \in [Task -> Status \cup {NoRow}]
              /\ items' \in [Parent -> Items]
              /\ status'[t] = s /\ status'[RootOf(t)] = Settled(RootOf(t), r)
              /\ items'[RootOf(t)] = r
              /\ \A u \in Task \ {t, RootOf(t)} : status'[u] = status[u]
              /\ \A p \in Parent \ {RootOf(t)} : items'[p] = items[p]
              /\ \A u \in Open(status) \ {t} : status'[u] = status[u]
          BY <5>1, <5>2, RecordRows
        <5> QED
          BY <5>3
      <4>4. Settled(RootOf(t), r) = Running => status[RootOf(t)] = Running
        BY SettledCases, NotRunning
      <4>5. NoneBegins
        BY <4>3, <4>4, NotRunning DEF NoneBegins
      <4> QED
        BY <4>2, <4>3, <4>5
    <3>2. CASE Current \notin Child
      <4>1. UNCHANGED status \/ status' = [status EXCEPT ![Current] = Finalizing]
        BY <1>4, <3>2 DEF Generate, Skip
      <4>2. NoneBegins /\ \A u \in Task \ {Current} : status'[u] = status[u]
        BY <1>2, <4>1, OneNotBegun, NotRunning DEF NoneBegins
      <4> QED
        BY <4>2 DEF Open
    <3> QED
      BY <3>1, <3>2
  <2> QED
    BY <1>1, <1>3, <2>1, <2>2 DEF BatchKept
<1>5. CASE StartExpand \/ SubmitRefresh \/ MarkRefreshSubmitted
  <2>1. UNCHANGED <<status, created>>
    BY <1>5 DEF StartExpand, SubmitRefresh, MarkRefreshSubmitted, queueVars
  <2> QED
    BY <1>1, <2>1 DEF NoneBegins, BatchKept
<1>6. ASSUME NEW f \in File, EnqueueChild(f)
      PROVE  NoneBegins /\ BatchKept
  <2>1. PICK t : t = <<Current, f>>
    OBVIOUS
  <2>2. CASE status[t] \in Active
    <3>1. UNCHANGED <<status, created>>
      BY <1>6, <2>1, <2>2 DEF EnqueueChild, queueVars
    <3> QED
      BY <1>1, <3>1 DEF NoneBegins, BatchKept
  <2>3. CASE status[t] \notin Active
    <3>1. status' = [status EXCEPT ![t] = Pending] /\ created' = created \o <<t>>
      BY <1>6, <2>1, <2>3 DEF EnqueueChild, Enter
    <3>2. NoneBegins /\ \A u \in Task \ {t} : status'[u] = status[u]
      BY <1>2, <3>1, OneNotBegun, NotRunning
    <3>3. t \notin Open(status)
      BY <2>3, StatusNames DEF Open
    <3>4. t \in Task
      <4>1. Current \in Scan
        BY <1>6 DEF EnqueueChild, At, ShapeInv, WorkerInv, Current
      <4> QED
        BY <2>1, <4>1, Families DEF Child
    <3>5. PICK more : more = <<t>>
      OBVIOUS
    <3>6. more \in Seq(Task) /\ ToSet(more) = {t} /\ created' = created \o more
      BY <3>1, <3>4, <3>5, SingletonOnce
    <3>7. \A u \in ToSet(worker.batch) : status'[u] = status[u]
      BY <1>3, <3>2, <3>3 DEF Open
    <3> QED
      BY <1>1, <3>2, <3>3, <3>6, <3>7 DEF BatchKept
  <2> QED
    BY <2>2, <2>3
<1> QED
  BY <1>4, <1>5, <1>6

\* A selection is free, and the rest of a batch is.
LEMMA SelectFree ==
  ASSUME ShapeInv, Select
  PROVE  NoneBegins /\ BatchFree'
<1>1. UNCHANGED <<status, created, retried, moved>> /\ worker'.batch = SelectGenerationTasks
  BY DEF Select, queueVars, Down
<1>2. \A t \in ToSet(SelectGenerationTasks) : ~GenerationTaskBlocked(t)
  BY SelectionProperties
<1>3. \A t : GenerationTaskBlocked(t)' <=> GenerationTaskBlocked(t)
  BY <1>1 DEF GenerationTaskBlocked
<1>4. NoneBegins
  BY <1>1 DEF NoneBegins
<1> QED
  BY <1>1, <1>2, <1>3, <1>4 DEF BatchFree

LEMMA BeginFree ==
  ASSUME ShapeInv, BatchFree, Begin
  PROVE  /\ BatchFree'
         /\ \A t \in Task : status[t] = Pending /\ status'[t] = Running => ~GenerationTaskBlocked(t)
<1> DEFINE h == Head(worker.batch)
<1>1. worker.pc = "next" /\ worker.batch # << >> /\ worker.batch \in Seq(Task) /\ Once(worker.batch)
  BY DEF Begin, At, ShapeInv, WorkerInv, Worker0
<1>2. h \in Task /\ h \in ToSet(worker.batch) /\ ToSet(Tail(worker.batch)) = ToSet(worker.batch) \ {h}
  BY <1>1, HeadOnce
<1>3. /\ worker'.batch = Tail(worker.batch)
      /\ status' = IF status[h] = Finalizing THEN status ELSE [status EXCEPT ![h] = Running]
      /\ UNCHANGED <<created, retried, moved>>
  BY DEF Begin, queueVars, ShapeInv, WorkerInv, Worker0
<1> HIDE DEF h
<1>4. \A u \in Task \ {h} : status'[u] = status[u]
  BY <1>3 DEF ShapeInv, RowInv
<1>5. \A t : GenerationTaskBlocked(t)' <=> GenerationTaskBlocked(t)
  BY <1>3 DEF GenerationTaskBlocked
<1>6. ToSet(worker.batch) \subseteq Task
  BY DEF ShapeInv, WorkerInv, Open
<1>7. \A t \in ToSet(worker'.batch) : t \in ToSet(worker.batch) /\ status'[t] = status[t]
  BY <1>2, <1>3, <1>4, <1>6
<1>8. BatchFree'
  BY <1>5, <1>7 DEF BatchFree
<1>9. \A t \in Task : status[t] = Pending /\ status'[t] = Running => ~GenerationTaskBlocked(t)
  BY <1>2, <1>4, NotRunning DEF BatchFree
<1> QED
  BY <1>8, <1>9

LEMMA StepKeepsOrder ==
  ASSUME ShapeInv, BatchFree, [Next]_vars
  PROVE  /\ BatchFree'
         /\ \A t \in Task : status[t] = Pending /\ status'[t] = Running => ~GenerationTaskBlocked(t)
<1>1. CASE Begin
  BY <1>1, BeginFree
<1>2. CASE Select
  BY <1>2, SelectFree, NotRunning DEF NoneBegins
<1>3. CASE NoneBegins /\ BatchKept
  BY <1>3, KeptIsFree, NotRunning DEF NoneBegins
<1>4. CASE UNCHANGED vars
  <2>1. UNCHANGED <<status, created, retried, moved, worker>>
    BY <1>4 DEF vars, queueVars
  <2>2. NoneBegins /\ BatchKept
    BY <2>1 DEF NoneBegins, BatchKept
  <2> QED
    BY <1>3, <2>2
<1> QED
  BY <1>1, <1>2, <1>3, <1>4, Steps, RequestsKeepBatch, AbandonsKeepBatch, GoingOnKeepsBatch,
     WorkKeepsBatch

\* A task is not begun while an older one whose files it may write has to
\* repeat its finalization, through crashes, failures and whatever is requested
\* between the selection of a batch and the turn of each of its tasks.
THEOREM OrderIsKept ==
  Spec => OrderKept
<1> DEFINE Inv == ShapeInv /\ BatchFree
<1> DEFINE Step == \A t \in Task :
       status[t] = Pending /\ status'[t] = Running => ~GenerationTaskBlocked(t)
<1>1. Init => Inv
  <2>1. ASSUME Init PROVE BatchFree
    BY <2>1, EmptyOnce DEF Init, Down, BatchFree
  <2> QED
    BY <2>1, InitShape
<1>2. Inv /\ [Next]_vars => Inv'
  BY StepShape, StepKeepsOrder
<1>3. Inv /\ [Next]_vars => [Step]_vars
  BY StepKeepsOrder
<1> HIDE DEF Inv
<1>4. Spec => [][Step]_vars
  BY <1>1, <1>2, <1>3, PTL DEF Spec
<1> QED
  BY <1>4 DEF OrderKept

-----------------------------------------------------------------------------
(* The refresh that is due.                                                *)

DueInv ==
  /\ RefreshNotLost
  /\ \A p \in Parent : items[p].total >= Processed(items[p])
  /\ \A p \in Parent : status[p] = NoRow => Processed(items[p]) = 0
  /\ \A s \in Scan : status[s] = Finalizing => s \in skipping
  /\ worker.pc = "complete" => items[RootOf(worker.task)].submitted

\* No parent's counters change, none becomes completed, and no child stops
\* finalizing while its parent's refresh is due.
LEMMA SameCounters ==
  ASSUME ShapeInv, DueInv, UNCHANGED items,
         \A p \in Parent : status'[p] = Completed => status[p] = Completed,
         \A p \in Parent : status'[p] = NoRow => status[p] = NoRow,
         \A k \in Child : status[k] = Finalizing =>
            status'[k] = Finalizing \/ ~IsReadyToSubmitRefresh(RootOf(k)),
         \A s \in Scan : status'[s] = Finalizing =>
            s \in skipping' \/ (status[s] = Finalizing /\ skipping \subseteq skipping'),
         worker'.pc = "complete" => UNCHANGED worker
  PROVE  DueInv'
<1>1. RefreshNotLost'
  <2>1. ASSUME NEW p \in Parent, IsReadyToSubmitRefresh(p)'
        PROVE  \E k \in Existing(p)' : status'[k] = Finalizing
    <3>1. IsReadyToSubmitRefresh(p)
      BY <2>1 DEF IsReadyToSubmitRefresh
    <3>2. PICK k \in ChildrenOf(p) : status[k] = Finalizing
      BY <3>1 DEF DueInv, RefreshNotLost, Existing
    <3>3. k \in Child /\ RootOf(k) = p
      BY FilesOf
    <3>4. status'[k] = Finalizing
      BY <3>1, <3>2, <3>3
    <3>5. k \in Existing(p)'
      BY <3>4 DEF Existing, Finalizing, NoRow
    <3> QED
      BY <3>4, <3>5
  <2> QED
    BY <2>1 DEF RefreshNotLost
<1>2. \A s \in Scan : status'[s] = Finalizing => s \in skipping'
  BY DEF DueInv
<1>3. worker'.pc = "complete" => items'[RootOf(worker'.task)].submitted
  BY DEF DueInv
<1> QED
  BY <1>1, <1>2, <1>3 DEF DueInv

LEMMA OneOther ==
  ASSUME ShapeInv, DueInv, UNCHANGED items, NEW t \in Task, NEW s,
         status' = [status EXCEPT ![t] = s], s # NoRow,
         t \in Parent => s # Completed,
         t \in Child /\ status[t] = Finalizing => ~IsReadyToSubmitRefresh(RootOf(t)),
         t \in Scan /\ s = Finalizing => t \in skipping',
         skipping \ {t} \subseteq skipping',
         worker'.pc = "complete" => UNCHANGED worker
  PROVE  DueInv'
<1>1. status'[t] = s /\ \A u \in Task \ {t} : status'[u] = status[u]
  BY DEF ShapeInv, RowInv
<1>2. \A p \in Parent : status'[p] = Completed => status[p] = Completed
  BY <1>1, Families
<1>3. \A p \in Parent : status'[p] = NoRow => status[p] = NoRow
  BY <1>1, Families
<1>4. \A k \in Child : status[k] = Finalizing =>
         status'[k] = Finalizing \/ ~IsReadyToSubmitRefresh(RootOf(k))
  BY <1>1, Families
<1>5. \A u \in Scan : status'[u] = Finalizing => u \in skipping'
  <2>1. ASSUME NEW u \in Scan, status'[u] = Finalizing
        PROVE  u \in skipping'
    <3>1. CASE u = t
      BY <1>1, <2>1, <3>1
    <3>2. CASE u # t
      BY <1>1, <2>1, <3>2, Families DEF DueInv
    <3> QED
      BY <3>1, <3>2
  <2> QED
    BY <2>1
<1> QED
  BY <1>2, <1>3, <1>4, <1>5, SameCounters

LEMMA NoneOther ==
  ASSUME ShapeInv, DueInv, UNCHANGED <<status, items, skipping>>,
         worker'.pc = "complete" => UNCHANGED worker
  PROVE  DueInv'
BY SameCounters

\* The statuses are different strings.
LEMMA Distinct ==
  /\ Pending \notin {Running, Finalizing, WaitingChildren, Completed, Skipped, Failed, NoRow}
  /\ Running \notin {Finalizing, WaitingChildren, Completed, Skipped, Failed, NoRow}
  /\ Finalizing \notin {WaitingChildren, Completed, Skipped, Failed, NoRow}
  /\ WaitingChildren \notin {Completed, Skipped, Failed, NoRow}
  /\ Completed \notin {Skipped, Failed, NoRow}
  /\ Skipped \notin {Failed, NoRow} /\ Failed # NoRow
BY DEF Pending, Running, Finalizing, WaitingChildren, Completed, Skipped, Failed, NoRow

\* Steps that leave rows and counters alone.
LEMMA DueUntouched ==
  ASSUME ShapeInv, DueInv,
         \/ \E q \in SyncPath : DeleteSyncPathByID(q)
         \/ \E t \in Task : BackoffElapses(t)
         \/ BootWithoutReset \/ Crash \/ SaveError \/ Select \/ StartExpand \/ SubmitRefresh
         \/ UNCHANGED vars
  PROVE  DueInv'
<1>1. worker \in Worker0
  BY DEF ShapeInv, WorkerInv
<1>2. UNCHANGED <<status, items, skipping>>
  BY DEF DeleteSyncPathByID, BackoffElapses, BootWithoutReset, Crash, SaveError, Select,
         StartExpand, SubmitRefresh, vars, queueVars
<1>3. worker'.pc = "complete" => UNCHANGED worker
  <2>1. CASE BootWithoutReset \/ Crash \/ SaveError
    BY <2>1 DEF BootWithoutReset, Crash, SaveError, Abandon, Down
  <2>2. CASE Select
    BY <2>2 DEF Select, Down
  <2>3. CASE StartExpand \/ SubmitRefresh
    BY <1>1, <2>3 DEF StartExpand, SubmitRefresh, Go, Worker0
  <2>4. CASE \/ \E q \in SyncPath : DeleteSyncPathByID(q)
             \/ \E t \in Task : BackoffElapses(t)
             \/ UNCHANGED vars
    BY <2>4 DEF DeleteSyncPathByID, BackoffElapses, vars
  <2> QED
    BY <2>1, <2>2, <2>3, <2>4
<1> QED
  BY <1>2, <1>3, NoneOther

\* Steps that change the status of one task, and no counter.
LEMMA DueOneStatus ==
  ASSUME ShapeInv, DueInv, Current \in Child => ~(Fail \/ Skip),
         \/ \E t \in Scan \cup Single : EnqueueStrmGenerationTask(t)
         \/ Skip \/ Fail \/ DependencyWait \/ DependencyCheckFails
         \/ ExpandFails \/ MarkCompleted \/ FinishFails
  PROVE  DueInv'
<1>1. worker \in Worker0
  BY DEF ShapeInv, WorkerInv
<1>2. ASSUME NEW t \in Scan \cup Single, EnqueueStrmGenerationTask(t)
      PROVE  DueInv'
  <2>1. status' = [status EXCEPT ![t] = Pending] /\ UNCHANGED <<items, skipping, worker>>
    BY <1>2 DEF EnqueueStrmGenerationTask, Enter
  <2>2. t \in Task /\ t \notin Child
    BY Families
  <2> QED
    BY <2>1, <2>2, Distinct, OneOther
<1>3. Skip => /\ worker.pc \in Busy /\ status[Current] = Running
              /\ status' = [status EXCEPT ![Current] = Finalizing]
              /\ UNCHANGED items /\ skipping' = skipping \cup {Current}
              /\ worker'.pc = "finish"
  <2>1. ASSUME Skip PROVE worker'.pc = "finish" /\ At("work")
    BY <1>1, <2>1 DEF Skip, Go, Worker0, Working
  <2> QED
    BY <2>1 DEF Skip, At, Busy, ShapeInv, WorkerInv, Current
<1>4. CASE Skip
  <2>1. PICK t \in Task : t = Current
    BY <1>3, <1>4, BusyWorker
  <2>2. status' = [status EXCEPT ![t] = Finalizing] /\ t \in skipping' /\ skipping \subseteq skipping'
    BY <1>3, <1>4, <2>1
  <2>3. t \in Child /\ status[t] = Finalizing => ~IsReadyToSubmitRefresh(RootOf(t))
    BY <1>4, <2>1
  <2> QED
    BY <1>3, <1>4, <2>2, <2>3, Distinct, OneOther
<1>5. ASSUME Fail \/ DependencyWait \/ DependencyCheckFails \/ ExpandFails
      PROVE  DueInv'
  <2>1. /\ worker.pc \in Busy /\ status[Current] = Running
        /\ \E s \in {Pending, Failed} : status' = [status EXCEPT ![Current] = s]
        /\ UNCHANGED items /\ skipping \ {Current} \subseteq skipping'
        /\ Continue \/ worker' = [Down EXCEPT !.pc = "select"]
    BY <1>5 DEF Fail, DependencyWait, DependencyCheckFails, ExpandFails, Working, At, Busy, Leave,
                Abandon, queueVars, ShapeInv, WorkerInv, Current
  <2>2. worker'.pc # "complete"
    BY <1>1, <2>1, ContinueWorker, AbandonWorker
  <2>3. PICK t \in Task : t = Current
    BY <2>1, BusyWorker
  <2>4. PICK s \in {Pending, Failed} : status' = [status EXCEPT ![t] = s]
    BY <2>1, <2>3
  <2>5. status[t] # Finalizing /\ skipping \ {t} \subseteq skipping' /\ UNCHANGED items
    BY <2>1, <2>3, Distinct
  <2> QED
    BY <2>2, <2>4, <2>5, Distinct, OneOther
<1>6. CASE MarkCompleted
  <2>1. /\ worker.pc \in Busy /\ Continue /\ UNCHANGED items /\ skipping \ {Current} \subseteq skipping'
        /\ status' = [status EXCEPT ![Current] = IF Current \in skipping THEN Skipped ELSE Completed]
        /\ \/ At("complete")
           \/ At("finish") /\ ~RefreshDue
    BY <1>6 DEF MarkCompleted, Complete, At, Busy, Leave
  <2>2. worker'.pc # "complete"
    BY <1>1, <2>1, ContinueWorker
  <2>3. PICK t \in Task : t = Current
    BY <2>1, BusyWorker
  <2>4. t \in Child => ~IsReadyToSubmitRefresh(RootOf(t))
    <3>1. CASE At("complete")
      BY <2>3, <3>1 DEF DueInv, At, Current, IsReadyToSubmitRefresh
    <3>2. CASE ~RefreshDue
      BY <2>3, <3>2 DEF RefreshDue
    <3> QED
      BY <2>1, <3>1, <3>2
  <2>5. PICK s \in {Skipped, Completed} : status' = [status EXCEPT ![t] = s] /\ (t \in skipping => s = Skipped)
    BY <2>1, <2>3
  <2>6. t \in Parent => s # Completed
    <3>1. ASSUME t \in Parent PROVE t \in skipping
      <4>1. t \in Scan
        BY <2>1, <2>3, <3>1, BusyWorker DEF Parent
      <4>2. worker.pc \in {"finish", "complete"}
        BY <2>1 DEF At
      <4>3. status[t] = Finalizing
        BY <2>3, <3>1, <4>2, Families DEF ShapeInv, WorkerInv, Current
      <4> QED
        BY <4>1, <4>3 DEF DueInv
    <3> QED
      BY <2>5, <3>1, Distinct
  <2>7. skipping \ {t} \subseteq skipping' /\ UNCHANGED items
    BY <2>1, <2>3
  <2> QED
    BY <2>2, <2>4, <2>5, <2>6, <2>7, Distinct, OneOther
<1>7. CASE FinishFails
  <2>1. worker' = [Down EXCEPT !.pc = "select"] /\ UNCHANGED items /\ worker.pc \in Busy
    BY <1>7 DEF FinishFails, Abandon, Busy
  <2>2. worker'.pc # "complete"
    BY <2>1, AbandonWorker
  <2>3. CASE UNCHANGED <<status, skipping>>
    BY <2>1, <2>2, <2>3, NoneOther
  <2>4. CASE /\ status[Current] = Running
             /\ status' = [status EXCEPT ![Current] = Failed]
             /\ Leave({Current})
    <3>1. PICK t \in Task : t = Current
      BY <2>1, BusyWorker
    <3>2. status[t] # Finalizing /\ skipping \ {t} \subseteq skipping' /\ status' = [status EXCEPT ![t] = Failed]
      BY <2>4, <3>1, Distinct DEF Leave
    <3> QED
      BY <2>1, <2>2, <3>2, Distinct, OneOther
  <2> QED
    BY <1>7, <2>3, <2>4 DEF FinishFails
<1> QED
  BY <1>2, <1>4, <1>5, <1>6, <1>7

\* The process starts, a task begins, a single file is written, a child of a
\* scan is made.
LEMMA DueSeveral ==
  ASSUME ShapeInv, DueInv,
         \/ Boot \/ Begin \/ (\E f \in File : EnqueueChild(f))
         \/ Current \notin Child /\ \E changed \in BOOLEAN : Generate(changed)
  PROVE  DueInv'
<1>1. worker \in Worker0 /\ status \in [Task -> Status \cup {NoRow}]
  BY DEF ShapeInv, WorkerInv, RowInv
<1>2. CASE Boot
  <2>1. /\ \A t \in Task : status'[t] = IF status[t] = Running THEN Pending ELSE status[t]
        /\ UNCHANGED <<items, skipping>> /\ worker'.pc # "complete"
    BY <1>2 DEF Boot, Abandon, Down, queueVars
  <2>2. \A k \in Child : status[k] = Finalizing => status'[k] = Finalizing
    BY <2>1, Distinct, Families
  <2>3. \A p \in Parent : /\ status'[p] = Completed => status[p] = Completed
                          /\ status'[p] = NoRow => status[p] = NoRow
                          /\ status'[p] = Finalizing => status[p] = Finalizing
    BY <2>1, Distinct, Families
  <2>4. Scan \subseteq Parent
    BY Families
  <2> QED
    BY <2>1, <2>2, <2>3, <2>4, SameCounters
<1>3. CASE Begin
  <2>1. /\ UNCHANGED <<items, skipping>> /\ worker'.pc # "complete"
        /\ \/ UNCHANGED status
           \/ /\ status[Head(worker.batch)] # Finalizing
              /\ status' = [status EXCEPT ![Head(worker.batch)] = Running]
    BY <1>1, <1>3 DEF Begin, queueVars, Worker0
  <2>2. CASE UNCHANGED status
    BY <2>1, <2>2, NoneOther
  <2>3. CASE /\ status[Head(worker.batch)] # Finalizing
             /\ status' = [status EXCEPT ![Head(worker.batch)] = Running]
    <3>1. worker.batch # << >> /\ worker.batch \in Seq(Task) /\ Once(worker.batch)
      BY <1>3 DEF Begin, At, ShapeInv, WorkerInv, Worker0
    <3>2. PICK t \in Task : t = Head(worker.batch)
      BY <3>1, HeadOnce
    <3>3. status' = [status EXCEPT ![t] = Running] /\ status[t] # Finalizing
      BY <2>3, <3>2
    <3> QED
      BY <2>1, <3>3, Distinct, OneOther
  <2> QED
    BY <2>1, <2>2, <2>3
<1>4. ASSUME NEW f \in File, EnqueueChild(f)
      PROVE  DueInv'
  <2>1. PICK t : t = <<Current, f>>
    OBVIOUS
  <2>2. Current \in Scan /\ UNCHANGED items /\ worker'.pc # "complete"
    BY <1>1, <1>4 DEF EnqueueChild, At, ShapeInv, WorkerInv, Current, Worker0
  <2>3. t \in Child /\ t \in Task
    BY <2>1, <2>2, Families DEF Child
  <2>4. CASE status[t] \in Active
    <3>1. UNCHANGED <<status, skipping>>
      BY <1>4, <2>1, <2>4 DEF EnqueueChild, queueVars
    <3> QED
      BY <2>2, <3>1, NoneOther
  <2>5. CASE status[t] \notin Active
    <3>1. status' = [status EXCEPT ![t] = Pending] /\ UNCHANGED skipping
      BY <1>4, <2>1, <2>5 DEF EnqueueChild, Enter
    <3>2. status[t] # Finalizing
      BY <2>5, StatusNames
    <3>3. t \notin Parent
      BY <2>3, Families
    <3> QED
      BY <2>2, <2>3, <3>1, <3>2, <3>3, Distinct, OneOther
  <2> QED
    BY <2>4, <2>5
<1>5. CASE Current \notin Child /\ \E changed \in BOOLEAN : Generate(changed)
  <2>1. UNCHANGED <<status, items, skipping>> /\ worker'.pc # "complete"
    BY <1>1, <1>5 DEF Generate, Go, queueVars, Worker0
  <2> QED
    BY <2>1, NoneOther
<1> QED
  BY <1>2, <1>3, <1>4, <1>5

\* A child's result.  The child itself is there to ask for the refresh, and a
\* failed one rules it out.
LEMMA DueRecord ==
  ASSUME ShapeInv, DueInv, Current \in Child,
         (\E changed \in BOOLEAN : Generate(changed)) \/ Skip \/ Fail
  PROVE  DueInv'
<1> DEFINE p == RootOf(Current)
<1>1. worker.pc \in Busy /\ status[Current] = Running /\ worker \in Worker0
  BY DEF Generate, Skip, Fail, Working, At, Busy, ShapeInv, WorkerInv, Current
<1>2. PICK t \in Child : t = Current /\ t \in Open(status)
  BY <1>1, BusyWorker
<1>3. PICK r \in Items, s \in {Finalizing, Failed}, old \in Items :
           /\ old = items[RootOf(t)]
           /\ status' = [status EXCEPT ![t] = s, ![RootOf(t)] = Settled(RootOf(t), r)]
           /\ items' = [items EXCEPT ![RootOf(t)] = r]
           /\ Processed(r) = Processed(old) + 1
           /\ r.total = IF old.total >= Processed(old) + 1 THEN old.total ELSE Processed(old) + 1
           /\ r.failed = IF s = Failed THEN old.failed + 1 ELSE old.failed
           /\ r.submitted = old.submitted
  BY <1>2, Recorded
<1>4. /\ status'[t] = s /\ status'[RootOf(t)] = Settled(RootOf(t), r)
      /\ items'[RootOf(t)] = r
      /\ \A u \in Task \ {t, RootOf(t)} : status'[u] = status[u]
      /\ \A u \in Parent \ {RootOf(t)} : items'[u] = items[u]
      /\ \A u \in Open(status) \ {t} : status'[u] = status[u]
      /\ \A u \in Task : status'[u] = NoRow <=> status[u] = NoRow
  <2>1. RowInv /\ t \in Open(status)
    BY <1>2 DEF ShapeInv
  <2>2. /\ status' = [status EXCEPT ![t] = s, ![RootOf(t)] = Settled(RootOf(t), r)]
        /\ items' = [items EXCEPT ![RootOf(t)] = r]
    BY <1>3
  <2>3. /\ status' \in [Task -> Status \cup {NoRow}]
        /\ items' \in [Parent -> Items]
        /\ status'[t] = s /\ status'[RootOf(t)] = Settled(RootOf(t), r)
        /\ items'[RootOf(t)] = r
        /\ \A u \in Task \ {t, RootOf(t)} : status'[u] = status[u]
        /\ \A u \in Parent \ {RootOf(t)} : items'[u] = items[u]
        /\ \A u \in Open(status) \ {t} : status'[u] = status[u]
        /\ \A u \in Task : status'[u] = NoRow <=> status[u] = NoRow
    BY <2>1, <2>2, RecordRows
  <2> QED
    BY <2>3
<1>5. RootOf(t) \in Parent /\ t \in ChildrenOf(RootOf(t))
  BY FilesOf, Families
<1>6. Processed(old) \in Nat /\ old.total \in Nat /\ old.failed \in Nat
  BY DEF Processed, Items
<1>7. RefreshNotLost'
  <2>1. ASSUME NEW u \in Parent, IsReadyToSubmitRefresh(u)'
        PROVE  \E k \in Existing(u)' : status'[k] = Finalizing
    <3>1. CASE u = RootOf(t)
      <4>1. r.failed = 0
        BY <1>4, <2>1, <3>1 DEF IsReadyToSubmitRefresh
      <4>2. s = Finalizing
        BY <1>3, <1>6, <4>1
      <4> QED
        BY <1>4, <1>5, <3>1, <4>2, Distinct DEF Existing
    <3>2. CASE u # RootOf(t)
      <4>1. u \in Task /\ u # t
        BY Families
      <4>2. IsReadyToSubmitRefresh(u)
        BY <1>4, <2>1, <3>2, <4>1 DEF IsReadyToSubmitRefresh
      <4>3. PICK k \in ChildrenOf(u) : status[k] = Finalizing
        BY <4>2 DEF DueInv, RefreshNotLost, Existing
      <4>4. k \in Child /\ RootOf(k) = u /\ k \in Task
        BY FilesOf, Families
      <4>5. k \in Open(status) /\ k # t
        BY <3>2, <4>3, <4>4 DEF Open
      <4>6. status'[k] = Finalizing
        BY <1>4, <4>3, <4>5
      <4> QED
        BY <4>6, Distinct DEF Existing
    <3> QED
      BY <3>1, <3>2
  <2> QED
    BY <2>1 DEF RefreshNotLost
<1>8. \A u \in Parent : items'[u].total >= Processed(items'[u])
  <2>1. r.total >= Processed(r)
    BY <1>3, <1>6
  <2> QED
    BY <1>4, <2>1 DEF DueInv
<1>9. \A u \in Parent : status'[u] = NoRow => Processed(items'[u]) = 0
  <2>1. ASSUME NEW u \in Parent, status'[u] = NoRow
        PROVE  Processed(items'[u]) = 0
    <3>1. u \in Task /\ status[u] = NoRow
      BY <1>4, <2>1, Families
    <3>2. u # RootOf(t)
      <4>1. status[t] # NoRow
        BY <1>1, <1>2, Distinct
      <4> QED
        BY <3>1, <4>1 DEF ShapeInv, RowInv
    <3> QED
      BY <1>4, <3>1, <3>2 DEF DueInv
  <2> QED
    BY <2>1
<1>10. \A u \in Scan : status'[u] = Finalizing => u \in skipping'
  <2>1. ASSUME NEW u \in Scan, status'[u] = Finalizing
        PROVE  u \in skipping'
    <3>1. u \in Task /\ u # t /\ u \in Parent
      BY Families
    <3>2. status[u] = Finalizing
      BY <1>4, <2>1, <3>1, SettledCases, Distinct
    <3>3. skipping \ {t} \subseteq skipping'
      BY <1>2 DEF Generate, Skip, Fail, Leave, queueVars
    <3> QED
      BY <3>1, <3>2, <3>3 DEF DueInv
  <2> QED
    BY <2>1
<1>11. worker'.pc # "complete"
  <2>1. Fail => Continue
    BY DEF Fail
  <2> QED
    BY <1>1, <2>1, ContinueWorker DEF Generate, Skip, Go, Worker0
<1> QED
  BY <1>7, <1>8, <1>9, <1>10, <1>11 DEF DueInv

LEMMA DueBatch ==
  ASSUME ShapeInv, DueInv, NEW b \in Bundle, NEW S \in SUBSET File, EnqueueStrmWebhookBatch(b, S)
  PROVE  DueInv'
<1> DEFINE new == {b} \X S
<1>1. /\ b \in Parent /\ status[b] = NoRow
      /\ \A t \in Task : status'[t] = IF t = b THEN WaitingChildren
                                      ELSE IF t \in new THEN Pending ELSE status[t]
      /\ UNCHANGED <<skipping, worker>>
  BY Families DEF EnqueueStrmWebhookBatch, Enter
<1>2. \A k \in new : k \in Child /\ RootOf(k) = b /\ status[k] = NoRow
  <2>1. \A k \in new : k \in Child /\ RootOf(k) = b
    BY <1>1 DEF Child, RootOf
  <2> QED
    BY <1>1, <2>1 DEF ShapeInv, RowInv
<1> HIDE DEF new
<1>3. PICK n \in Nat : n = Cardinality(S)
  BY TaskAssumption, FS_Subset, FS_CardinalityType
<1>4. /\ items'[b] = [items[b] EXCEPT !.total = n]
      /\ \A p \in Parent \ {b} : items'[p] = items[p]
      /\ items[b] \in Items
  BY <1>1, <1>3 DEF EnqueueStrmWebhookBatch, ShapeInv, RowInv
<1>5. /\ items'[b].total = n /\ Processed(items'[b]) = Processed(items[b])
      /\ items'[b].submitted = items[b].submitted
  BY <1>4 DEF Items, Processed
<1>6. RefreshNotLost'
  <2>1. ASSUME NEW p \in Parent, IsReadyToSubmitRefresh(p)'
        PROVE  \E k \in Existing(p)' : status'[k] = Finalizing
    <3>1. p # b /\ p \in Task /\ p \notin new
      BY <1>1, <1>2, <2>1, Distinct, Families DEF IsReadyToSubmitRefresh
    <3>2. IsReadyToSubmitRefresh(p)
      BY <1>1, <1>4, <2>1, <3>1 DEF IsReadyToSubmitRefresh
    <3>3. PICK k \in ChildrenOf(p) : status[k] = Finalizing
      BY <3>2 DEF DueInv, RefreshNotLost, Existing
    <3>4. k \in Task /\ k # b /\ k \notin new
      BY <1>1, <1>2, <3>3, Distinct, FilesOf, Families
    <3> QED
      BY <1>1, <3>3, <3>4, Distinct DEF Existing
  <2> QED
    BY <2>1 DEF RefreshNotLost
<1>7. \A p \in Parent : items'[p].total >= Processed(items'[p])
  <2>1. Processed(items'[b]) = 0
    BY <1>1, <1>5 DEF DueInv
  <2>2. items'[b].total >= Processed(items'[b])
    BY <1>5, <2>1
  <2>3. \A p \in Parent \ {b} : items'[p].total >= Processed(items'[p])
    BY <1>4 DEF DueInv
  <2> QED
    BY <2>2, <2>3
<1>8. \A p \in Parent : status'[p] = NoRow => Processed(items'[p]) = 0
  <2>1. ASSUME NEW p \in Parent, status'[p] = NoRow
        PROVE  p # b /\ status[p] = NoRow
    BY <1>1, <2>1, Distinct, Families
  <2> QED
    BY <1>4, <2>1 DEF DueInv
<1>9. \A s \in Scan : status'[s] = Finalizing => s \in skipping'
  <2>1. \A s \in Scan : s \in Task /\ s # b /\ s \notin new
    BY <1>2, Families
  <2> QED
    BY <1>1, <2>1 DEF DueInv
<1>10. worker'.pc = "complete" => items'[RootOf(worker'.task)].submitted
  <2>1. ASSUME worker.pc = "complete"
        PROVE  RootOf(worker.task) \in Parent /\ items[RootOf(worker.task)].submitted
    BY <2>1, Families DEF ShapeInv, WorkerInv, DueInv
  <2> QED
    BY <1>1, <1>4, <1>5, <2>1
<1> QED
  BY <1>6, <1>7, <1>8, <1>9, <1>10 DEF DueInv

\* A parent whose tasks have all been retired with it has failed; any other
\* keeps its counters and its children.
LEMMA DueRetire ==
  ASSUME ShapeInv, DueInv, NEW q, NEW st, Retire(q, st),
         \/ st = status
         \/ Current \in Task /\ status[Current] = Running /\ st = [status EXCEPT ![Current] = Pending]
  PROVE  DueInv'
<1> DEFINE hit == {t \in Task : st[t] \in Active /\ SyncPathOf(t) = q}
<1>1. /\ \A t \in Task : status'[t] = IF t \in hit \/ (t \in Parent /\ hit \cap ChildrenOf(t) # {})
                                       THEN Failed ELSE st[t]
      /\ skipping' = skipping \ hit
      /\ worker'.pc # "complete"
  BY DEF Retire, Leave, Abandon, Down
<1>2. \A t \in Task : /\ st[t] = Finalizing <=> status[t] = Finalizing
                      /\ st[t] = Completed <=> status[t] = Completed
                      /\ st[t] = NoRow <=> status[t] = NoRow
  <2>1. CASE st = status
    BY <2>1
  <2>2. CASE Current \in Task /\ status[Current] = Running /\ st = [status EXCEPT ![Current] = Pending]
    <3>1. st[Current] = Pending /\ \A t \in Task \ {Current} : st[t] = status[t]
      BY <2>2 DEF ShapeInv, RowInv
    <3> QED
      BY <2>2, <3>1, Distinct
  <2> QED
    BY <2>1, <2>2
<1>3. ASSUME NEW p \in Parent
      PROVE  \E n \in Nat :
               /\ n > 0 => hit \cap ChildrenOf(p) # {}
               /\ Processed(items'[p]) = Processed(items[p]) + n
               /\ items'[p].failed = items[p].failed + n
               /\ items'[p].total = IF items[p].total >= Processed(items[p]) + n THEN items[p].total
                                    ELSE Processed(items[p]) + n
               /\ items'[p].changed = items[p].changed
               /\ items'[p].submitted = items[p].submitted
  <2> DEFINE lost == Lost(p, q, st)
  <2>1. IsFiniteSet(ChildrenOf(p)) /\ lost \in SUBSET ChildrenOf(p)
    BY FilesOf DEF Lost
  <2>2. lost \subseteq hit
    <3>1. ASSUME NEW k \in lost
          PROVE  k \in Task /\ st[k] \in Active /\ SyncPathOf(k) = q
      <4>1. k \in ChildrenOf(p) /\ PathOf[p] = q /\ st[k] \in {Pending, Running}
        BY DEF Lost
      <4> QED
        BY <4>1, FilesOf, Families, StatusNames
    <3> HIDE DEF lost
    <3> QED
      BY <3>1
  <2>3. items'[p] = Add(items[p], "failed", Cardinality(lost), FALSE)
    BY DEF Retire
  <2> HIDE DEF lost, hit
  <2>4. Cardinality(lost) \in Nat /\ (Cardinality(lost) > 0 => lost # {})
    BY <2>1, FS_Subset, FS_CardinalityType, FS_EmptySet
  <2>5. PICK n \in Nat, old \in Items : n = Cardinality(lost) /\ old = items[p]
    BY <2>4 DEF ShapeInv, RowInv
  <2>6. items'[p] = Add(old, "failed", n, FALSE)
    BY <2>3, <2>5
  <2>7. /\ Processed(items'[p]) = Processed(old) + n
        /\ items'[p].failed = old.failed + n
        /\ items'[p].total = IF old.total >= Processed(old) + n THEN old.total ELSE Processed(old) + n
        /\ items'[p].changed = old.changed
        /\ items'[p].submitted = old.submitted
    BY <2>6, AddFailures, ZenonT(40)
  <2>8. n > 0 => hit \cap ChildrenOf(p) # {}
    BY <2>1, <2>2, <2>4, <2>5
  <2> QED
    BY <2>5, <2>7, <2>8
<1>4. \A p \in Parent : /\ items[p] \in Items /\ Processed(items[p]) \in Nat
                        /\ items[p].total \in Nat /\ items[p].failed \in Nat
  BY DEF ShapeInv, RowInv, Items, Processed
<1>5. \A p \in Parent : items'[p].total >= Processed(items'[p])
  <2>1. ASSUME NEW p \in Parent
        PROVE  items'[p].total >= Processed(items'[p])
    BY <1>3, <1>4
  <2> QED
    BY <2>1
<1>6. ASSUME NEW p \in Parent, hit \cap ChildrenOf(p) = {}
      PROVE  /\ Processed(items'[p]) = Processed(items[p])
             /\ items'[p].failed = items[p].failed
             /\ items'[p].total = items[p].total
             /\ items'[p].changed = items[p].changed
             /\ items'[p].submitted = items[p].submitted
  <2> HIDE DEF hit
  <2>1. PICK n \in Nat :
               /\ n > 0 => hit \cap ChildrenOf(p) # {}
               /\ Processed(items'[p]) = Processed(items[p]) + n
               /\ items'[p].failed = items[p].failed + n
               /\ items'[p].total = IF items[p].total >= Processed(items[p]) + n THEN items[p].total
                                    ELSE Processed(items[p]) + n
               /\ items'[p].changed = items[p].changed
               /\ items'[p].submitted = items[p].submitted
    BY <1>3
  <2>2. n = 0
    BY <1>6, <2>1
  <2>3. items[p].total >= Processed(items[p])
    BY DEF DueInv
  <2> QED
    BY <1>4, <2>1, <2>2, <2>3
<1>7. RefreshNotLost'
  <2>1. ASSUME NEW p \in Parent, IsReadyToSubmitRefresh(p)'
        PROVE  \E k \in Existing(p)' : status'[k] = Finalizing
    <3>1. p \in Task /\ status'[p] = Completed
      BY <2>1, Families DEF IsReadyToSubmitRefresh
    <3>2. hit \cap ChildrenOf(p) = {} /\ st[p] = Completed
      BY <1>1, <3>1, Distinct
    <3>3. IsReadyToSubmitRefresh(p)
      BY <1>2, <1>6, <2>1, <3>1, <3>2 DEF IsReadyToSubmitRefresh
    <3>4. PICK k \in ChildrenOf(p) : status[k] = Finalizing
      BY <3>3 DEF DueInv, RefreshNotLost, Existing
    <3>5. k \in Task /\ k \notin Parent /\ k \notin hit
      BY <3>2, <3>4, FilesOf, Families
    <3>6. status'[k] = Finalizing
      BY <1>1, <1>2, <3>4, <3>5
    <3> QED
      BY <3>6, Distinct DEF Existing
  <2> QED
    BY <2>1 DEF RefreshNotLost
<1>8. \A p \in Parent : status'[p] = NoRow => Processed(items'[p]) = 0
  <2>1. ASSUME NEW p \in Parent, status'[p] = NoRow
        PROVE  Processed(items'[p]) = 0
    <3>1. p \in Task
      BY Families
    <3>2. hit \cap ChildrenOf(p) = {} /\ status[p] = NoRow
      BY <1>1, <1>2, <2>1, <3>1, Distinct
    <3> QED
      BY <1>6, <3>2 DEF DueInv
  <2> QED
    BY <2>1
<1>9. \A s \in Scan : status'[s] = Finalizing => s \in skipping'
  <2>1. ASSUME NEW s \in Scan, status'[s] = Finalizing
        PROVE  s \in skipping'
    <3>1. s \in Task
      BY Families
    <3>2. s \notin hit /\ st[s] = Finalizing
      BY <1>1, <2>1, <3>1, Distinct
    <3> QED
      BY <1>1, <1>2, <3>1, <3>2 DEF DueInv
  <2> QED
    BY <2>1
<1> QED
  BY <1>1, <1>5, <1>7, <1>8, <1>9 DEF DueInv

LEMMA DueRetireSteps ==
  ASSUME ShapeInv, DueInv, RetireMissing \/ RetireAtWork \/ RetireAtFinish
  PROVE  DueInv'
<1>1. CASE \E q : Retire(q, status)
  BY <1>1, DueRetire
<1>2. CASE Working /\ \E q : Retire(q, [status EXCEPT ![Current] = Pending])
  <2>1. Current \in Task /\ status[Current] = Running
    BY <1>2 DEF Working, At, Current, ShapeInv, WorkerInv, Busy
  <2>2. PICK st : st = [status EXCEPT ![Current] = Pending]
    OBVIOUS
  <2>3. PICK q : Retire(q, st)
    BY <1>2, <2>2
  <2> QED
    BY <2>1, <2>2, <2>3, DueRetire
<1> QED
  BY <1>1, <1>2 DEF RetireMissing, RetireAtWork, RetireAtFinish

\* What an expansion leaves behind has nothing to refresh.
LEMMA DueExpanded ==
  ASSUME ShapeInv, DueInv, MarkDirectoryScanExpanded
  PROVE  DueInv'
<1> DEFINE v == [NoItems EXCEPT !.total = worker.total, !.submitted = items[Current].submitted]
<1>1. /\ worker.pc = "expand" /\ Current \in Scan /\ worker \in Worker0 /\ Continue
      /\ status[Current] = Running
      /\ items' = [items EXCEPT ![Current] = v]
      /\ skipping' = skipping \ {Current}
      /\ \E s \in {Completed, WaitingChildren} : status' = [status EXCEPT ![Current] = s]
  BY DEF MarkDirectoryScanExpanded, At, Leave, ShapeInv, WorkerInv, Current
<1>2. v.changed = FALSE /\ v.total = worker.total /\ Processed(v) = 0 /\ v.submitted = items[Current].submitted
  BY DEF NoItems, Processed
<1> HIDE DEF v
<1>3. PICK p \in Scan : p = Current
  BY <1>1
<1>4. p \in Parent /\ p \in Task /\ worker.total \in Nat
  BY <1>1, Families DEF Worker0
<1>5. PICK s \in {Completed, WaitingChildren} : status' = [status EXCEPT ![p] = s]
  BY <1>1, <1>3
<1>6. /\ status'[p] = s /\ \A u \in Task \ {p} : status'[u] = status[u]
      /\ items'[p] = v /\ \A u \in Parent \ {p} : items'[u] = items[u]
  <2>1. items' = [items EXCEPT ![p] = v]
    BY <1>1, <1>3
  <2> QED
    BY <1>4, <1>5, <2>1 DEF ShapeInv, RowInv
<1>7. RefreshNotLost'
  <2>1. ASSUME NEW u \in Parent, IsReadyToSubmitRefresh(u)'
        PROVE  \E k \in Existing(u)' : status'[k] = Finalizing
    <3>1. u # p /\ u \in Task
      BY <1>2, <1>6, <2>1, Families DEF IsReadyToSubmitRefresh
    <3>2. IsReadyToSubmitRefresh(u)
      BY <1>6, <2>1, <3>1 DEF IsReadyToSubmitRefresh
    <3>3. PICK k \in ChildrenOf(u) : status[k] = Finalizing
      BY <3>2 DEF DueInv, RefreshNotLost, Existing
    <3>4. k \in Task /\ k # p
      BY <1>4, FilesOf, Families
    <3> QED
      BY <1>6, <3>3, <3>4, Distinct DEF Existing
  <2> QED
    BY <2>1 DEF RefreshNotLost
<1>8. \A u \in Parent : items'[u].total >= Processed(items'[u])
  BY <1>2, <1>4, <1>6 DEF DueInv
<1>9. \A u \in Parent : status'[u] = NoRow => Processed(items'[u]) = 0
  <2>1. s # NoRow
    BY <1>5, Distinct
  <2> QED
    BY <1>6, <2>1, Families DEF DueInv
<1>10. \A u \in Scan : status'[u] = Finalizing => u \in skipping'
  <2>1. s # Finalizing
    BY <1>5, Distinct
  <2> QED
    BY <1>1, <1>3, <1>6, <2>1, Families DEF DueInv
<1>11. worker'.pc # "complete"
  BY <1>1, ContinueWorker
<1> QED
  BY <1>7, <1>8, <1>9, <1>10, <1>11 DEF DueInv

LEMMA DueSubmitted ==
  ASSUME ShapeInv, DueInv, MarkRefreshSubmitted
  PROVE  DueInv'
<1> DEFINE p == RootOf(Current)
<1>1. /\ worker.pc = "mark" /\ Current \in Child /\ worker \in Worker0 /\ p \in Parent
      /\ items' = [items EXCEPT ![p] = [items[p] EXCEPT !.submitted = TRUE]]
      /\ worker' = [worker EXCEPT !.pc = "complete"]
      /\ UNCHANGED <<status, skipping>>
  BY Families DEF MarkRefreshSubmitted, At, ShapeInv, WorkerInv, Current, queueVars, Go
<1>2. worker'.task = Current /\ items[p] \in Items
  BY <1>1 DEF Worker0, Current, ShapeInv, RowInv
<1> HIDE DEF p
<1>3. /\ items'[p] = [items[p] EXCEPT !.submitted = TRUE]
      /\ \A u \in Parent \ {p} : items'[u] = items[u]
  BY <1>1 DEF ShapeInv, RowInv
<1>4. /\ items'[p].submitted /\ items'[p].total = items[p].total
      /\ Processed(items'[p]) = Processed(items[p])
  BY <1>2, <1>3 DEF Items, Processed
<1>5. RefreshNotLost'
  <2>1. ASSUME NEW u \in Parent, IsReadyToSubmitRefresh(u)'
        PROVE  \E k \in Existing(u)' : status'[k] = Finalizing
    <3>1. u # p
      BY <1>4, <2>1 DEF IsReadyToSubmitRefresh
    <3>2. IsReadyToSubmitRefresh(u)
      BY <1>1, <1>3, <2>1, <3>1 DEF IsReadyToSubmitRefresh
    <3> QED
      BY <1>1, <3>2 DEF DueInv, RefreshNotLost, Existing
  <2> QED
    BY <2>1 DEF RefreshNotLost
<1>6. /\ \A u \in Parent : items'[u].total >= Processed(items'[u])
      /\ \A u \in Parent : status'[u] = NoRow => Processed(items'[u]) = 0
  BY <1>1, <1>3, <1>4 DEF DueInv
<1>7. items'[RootOf(worker'.task)].submitted
  BY <1>2, <1>4 DEF p
<1> QED
  BY <1>1, <1>5, <1>6, <1>7 DEF DueInv

LEMMA InitDue ==
  ASSUME Init
  PROVE  DueInv
<1>1. \A p \in Parent : status[p] = NoRow /\ items[p] = NoItems /\ p \in Task
  BY Families DEF Init
<1>2. NoItems.total = 0 /\ Processed(NoItems) = 0
  BY DEF NoItems, Processed
<1>3. RefreshNotLost
  BY <1>1, Distinct DEF RefreshNotLost, IsReadyToSubmitRefresh
<1>4. \A s \in Scan : status[s] # Finalizing
  BY <1>1, Distinct, Families
<1>5. worker.pc # "complete"
  BY DEF Init, Down
<1> QED
  BY <1>1, <1>2, <1>3, <1>4, <1>5 DEF DueInv

LEMMA StepDue ==
  ASSUME ShapeInv, DueInv, [Next]_vars
  PROVE  DueInv'
<1>1. CASE \E t \in Scan \cup Single : EnqueueStrmGenerationTask(t)
  <2>1. CASE Current \in Child => ~(Fail \/ Skip)
    BY <1>1, <2>1, DueOneStatus
  <2>2. CASE Current \in Child /\ (Fail \/ Skip)
    BY <2>2, DueRecord
  <2> QED
    BY <2>1, <2>2
<1>2. CASE \E b \in Bundle, S \in SUBSET File : EnqueueStrmWebhookBatch(b, S)
  BY <1>2, DueBatch
<1>3. CASE (\E q \in SyncPath : DeleteSyncPathByID(q)) \/ (\E t \in Task : BackoffElapses(t))
  BY <1>3, DueUntouched
<1>4. CASE Boot \/ Begin \/ (\E f \in File : EnqueueChild(f))
  BY <1>4, DueSeveral
<1>5. CASE RetireMissing \/ RetireAtWork \/ RetireAtFinish
  BY <1>5, DueRetireSteps
<1>6. CASE Select \/ StartExpand \/ SubmitRefresh
  BY <1>6, DueUntouched
<1>7. CASE \E changed \in BOOLEAN : Generate(changed)
  BY <1>7, DueSeveral, DueRecord
<1>8. CASE Skip \/ Fail
  BY <1>8, DueOneStatus, DueRecord
<1>9. CASE DependencyWait \/ DependencyCheckFails \/ ExpandFails \/ MarkCompleted \/ FinishFails
  <2>1. CASE Current \in Child => ~(Fail \/ Skip)
    BY <1>9, <2>1, DueOneStatus
  <2>2. CASE Current \in Child /\ (Fail \/ Skip)
    BY <2>2, DueRecord
  <2> QED
    BY <2>1, <2>2
<1>10. CASE MarkDirectoryScanExpanded
  BY <1>10, DueExpanded
<1>11. CASE MarkRefreshSubmitted
  BY <1>11, DueSubmitted
<1>12. CASE BootWithoutReset \/ Crash \/ SaveError \/ UNCHANGED vars
  BY <1>12, DueUntouched
<1> QED
  BY <1>1, <1>2, <1>3, <1>4, <1>5, <1>6, <1>7, <1>8, <1>9, <1>10, <1>11, <1>12, Steps

\* A refresh that is due is not forgotten, whatever fails and however often the
\* process ends: until it is recorded as submitted, a child of the parent is
\* still finalizing, and its finalization will ask for the refresh.
THEOREM RefreshIsNotLost ==
  Spec => []RefreshNotLost
<1>1. Init => ShapeInv /\ DueInv
  BY InitShape, InitDue
<1>2. ShapeInv /\ DueInv /\ [Next]_vars => (ShapeInv /\ DueInv)'
  BY StepShape, StepDue
<1>3. DueInv => RefreshNotLost
  BY DEF DueInv
<1> QED
  BY <1>1, <1>2, <1>3, PTL DEF Spec

-----------------------------------------------------------------------------
(* Counting the children of a parent.                                      *)

Number(st, p, S) == Cardinality({k \in ChildrenOf(p) : st[k] \in S})

LEMMA NumberBound ==
  ASSUME NEW st, NEW p \in Parent, NEW S
  PROVE  /\ Number(st, p, S) \in Nat /\ Number(st, p, S) <= Cardinality(File)
         /\ IsFiniteSet({k \in ChildrenOf(p) : st[k] \in S})
         /\ Cardinality(File) \in Nat
<1>1. IsFiniteSet(ChildrenOf(p)) /\ Cardinality(ChildrenOf(p)) = Cardinality(File)
  BY FilesOf
<1>2. {k \in ChildrenOf(p) : st[k] \in S} \in SUBSET ChildrenOf(p)
  OBVIOUS
<1> QED
  BY <1>1, <1>2, FS_Subset, FS_CardinalityType DEF Number

LEMMA NumberSame ==
  ASSUME NEW st, NEW st2, NEW p, NEW S,
         \A k \in ChildrenOf(p) : st2[k] \in S <=> st[k] \in S
  PROVE  Number(st2, p, S) = Number(st, p, S)
<1>1. {k \in ChildrenOf(p) : st2[k] \in S} = {k \in ChildrenOf(p) : st[k] \in S}
  OBVIOUS
<1> QED
  BY <1>1 DEF Number

LEMMA NumberMore ==
  ASSUME NEW st, NEW st2, NEW p \in Parent, NEW S, NEW t \in ChildrenOf(p),
         st[t] \notin S, st2[t] \in S,
         \A k \in ChildrenOf(p) \ {t} : st2[k] = st[k]
  PROVE  Number(st2, p, S) = Number(st, p, S) + 1
<1> DEFINE A == {k \in ChildrenOf(p) : st[k] \in S}
<1>1. {k \in ChildrenOf(p) : st2[k] \in S} = A \cup {t}
  <2>1. \A k \in ChildrenOf(p) : st2[k] \in S <=> (k \in A \/ k = t)
    OBVIOUS
  <2> QED
    BY <2>1
<1>2. t \notin A /\ IsFiniteSet(A)
  BY NumberBound
<1> HIDE DEF A
<1>3. Cardinality(A \cup {t}) = Cardinality(A) + 1
  BY <1>2, FS_AddElement
<1> QED
  BY <1>1, <1>3 DEF Number, A

\* S and more, by the children in L.
LEMMA NumberPlus ==
  ASSUME NEW st, NEW st2, NEW p \in Parent, NEW S, NEW L \in SUBSET ChildrenOf(p),
         \A k \in L : st[k] \notin S,
         \A k \in ChildrenOf(p) : st2[k] \in S <=> (st[k] \in S \/ k \in L)
  PROVE  Number(st2, p, S) = Number(st, p, S) + Cardinality(L)
<1> DEFINE A == {k \in ChildrenOf(p) : st[k] \in S}
<1>1. {k \in ChildrenOf(p) : st2[k] \in S} = A \cup L
  OBVIOUS
<1>2. A \cap L = {} /\ IsFiniteSet(A) /\ IsFiniteSet(L)
  BY NumberBound, FilesOf, FS_Subset
<1> HIDE DEF A
<1>3. Cardinality(A \cup L) = Cardinality(A) + Cardinality(L)
  <2>1. Cardinality(A \cap L) = 0
    BY <1>2, FS_EmptySet
  <2>2. Cardinality(A \cup L) = Cardinality(A) + Cardinality(L) - Cardinality(A \cap L)
    BY <1>2, FS_Union
  <2>3. Cardinality(A) \in Nat /\ Cardinality(L) \in Nat
    BY <1>2, FS_CardinalityType
  <2> QED
    BY <2>1, <2>2, <2>3
<1> QED
  BY <1>1, <1>3 DEF Number, A

Rows == {Pending, Running, Finalizing, WaitingChildren, Completed, Skipped, Failed}

LEMMA NumberOfRows ==
  ASSUME ShapeInv, NEW p \in Parent
  PROVE  /\ \A k \in ChildrenOf(p) : status[k] # NoRow <=> status[k] \in Rows
         /\ Existing(p) = {k \in ChildrenOf(p) : status[k] \in Rows}
         /\ Cardinality(Existing(p)) = Number(status, p, Rows)
         /\ \A S : NoRow \notin S =>
              Cardinality({k \in Existing(p) : status[k] \in S}) = Number(status, p, S)
<1>1. Rows = Status
  BY DEF Rows, Status, Active
<1>2. \A k \in ChildrenOf(p) : status[k] \in Status \cup {NoRow}
  BY FilesOf, Families DEF ShapeInv, RowInv
<1>3. \A k \in ChildrenOf(p) : status[k] # NoRow <=> status[k] \in Rows
  BY <1>1, <1>2, StatusNames
<1>4. Existing(p) = {k \in ChildrenOf(p) : status[k] \in Rows}
  BY <1>3 DEF Existing
<1>5. ASSUME NEW S, NoRow \notin S
      PROVE  {k \in Existing(p) : status[k] \in S} = {k \in ChildrenOf(p) : status[k] \in S}
  BY <1>5 DEF Existing
<1> QED
  BY <1>3, <1>4, <1>5 DEF Number

LEMMA FullNumber ==
  ASSUME NEW st, NEW p \in Parent, Number(st, p, Counted) >= Number(st, p, Rows)
  PROVE  \A k \in ChildrenOf(p) : st[k] \in Rows => st[k] \in Counted
<1> DEFINE A == {k \in ChildrenOf(p) : st[k] \in Counted}
<1> DEFINE B == {k \in ChildrenOf(p) : st[k] \in Rows}
<1>1. A \subseteq B
  BY DEF Rows, Counted
<1>2. IsFiniteSet(B) /\ Cardinality(A) >= Cardinality(B)
  BY NumberBound DEF Number
<1> HIDE DEF A, B
<1>3. Cardinality(A) <= Cardinality(B) /\ Cardinality(A) \in Nat /\ Cardinality(B) \in Nat
  BY <1>1, <1>2, FS_Subset, FS_CardinalityType
<1>4. Cardinality(A) = Cardinality(B)
  BY <1>2, <1>3
<1>5. A = B
  BY <1>1, <1>2, <1>4, FS_Subset
<1> QED
  BY <1>5 DEF A, B

LEMMA FewerNumber ==
  ASSUME NEW st, NEW p \in Parent
  PROVE  Number(st, p, Counted) <= Number(st, p, Rows)
<1> DEFINE A == {k \in ChildrenOf(p) : st[k] \in Counted}
<1> DEFINE B == {k \in ChildrenOf(p) : st[k] \in Rows}
<1>1. A \in SUBSET B
  BY DEF Rows, Counted
<1>2. IsFiniteSet(B)
  BY NumberBound
<1> HIDE DEF A, B
<1>3. Cardinality(A) <= Cardinality(B)
  BY <1>1, <1>2, FS_Subset
<1> QED
  BY <1>3 DEF Number, A, B

\* Children whose files are in L.
LEMMA FilesCounted ==
  ASSUME NEW p \in Parent, NEW L \in SUBSET File
  PROVE  Cardinality({k \in ChildrenOf(p) : k[2] \in L}) = Cardinality(L)
<1> DEFINE g == [f \in L |-> <<p, f>>]
<1> DEFINE K == {k \in ChildrenOf(p) : k[2] \in L}
<1>1. /\ \A f \in L : <<p, f>> \in K
      /\ \A t \in K : t[2] \in L /\ t = <<p, t[2]>>
  BY DEF ChildrenOf
<1>2. g \in Bijection(L, K)
  <2> HIDE DEF K
  <2>1. g \in [L -> K]
    BY <1>1
  <2>2. \A a, b \in L : g[a] = g[b] => a = b
    OBVIOUS
  <2>3. \A t \in K : \E f \in L : g[f] = t
    BY <1>1
  <2> HIDE DEF g
  <2> QED
    BY <2>1, <2>2, <2>3, Fun_IsBij
<1> HIDE DEF g, K
<1>3. IsFiniteSet(L)
  BY TaskAssumption, FS_Subset
<1>4. ExistsBijection(L, K)
  BY <1>2, Fun_ExistsBij
<1>5. Cardinality(K) = Cardinality(L)
  BY <1>3, <1>4, FS_Bijection
<1> QED
  BY <1>5 DEF K

-----------------------------------------------------------------------------
(* Steps that give no child a result.                                      *)

\* What counts of a child stays, no parent begins to wait or is completed, and
\* no number of its counters changes.
Gentle ==
  /\ \A k \in Child : /\ status'[k] \in Counted <=> status[k] \in Counted
                      /\ status'[k] = Failed <=> status[k] = Failed
                      /\ status'[k] = NoRow <=> status[k] = NoRow
                      /\ status'[k] = WaitingChildren => status[k] = WaitingChildren
  /\ \A p \in Parent : /\ status'[p] = WaitingChildren => status[p] = WaitingChildren
                       /\ status'[p] = Completed <=> status[p] = Completed
                       /\ items'[p].total = items[p].total
                       /\ items'[p].failed = items[p].failed
                       /\ Processed(items'[p]) = Processed(items[p])

LEMMA NoneGentle ==
  ASSUME UNCHANGED <<status, items>>
  PROVE  Gentle
BY DEF Gentle

LEMMA OneGentle ==
  ASSUME ShapeInv, UNCHANGED items, NEW t \in Task, NEW s,
         status' = [status EXCEPT ![t] = s],
         t \in Child => /\ s \in Counted <=> status[t] \in Counted
                        /\ s # Failed /\ status[t] # Failed
                        /\ s # NoRow /\ status[t] # NoRow
                        /\ s # WaitingChildren,
         t \in Parent => s \notin {WaitingChildren, Completed} /\ status[t] # Completed
  PROVE  Gentle
<1>1. status'[t] = s /\ \A u \in Task \ {t} : status'[u] = status[u]
  BY DEF ShapeInv, RowInv
<1>2. \A k \in Child : k \in Task
  BY Families
<1>3. \A p \in Parent : p \in Task
  BY Families
<1>4. ASSUME NEW k \in Child
      PROVE  /\ status'[k] \in Counted <=> status[k] \in Counted
             /\ status'[k] = Failed <=> status[k] = Failed
             /\ status'[k] = NoRow <=> status[k] = NoRow
             /\ status'[k] = WaitingChildren => status[k] = WaitingChildren
  <2>1. CASE k = t
    BY <1>1, <2>1
  <2>2. CASE k # t
    BY <1>1, <1>2, <2>2
  <2> QED
    BY <2>1, <2>2
<1>5. ASSUME NEW p \in Parent
      PROVE  /\ status'[p] = WaitingChildren => status[p] = WaitingChildren
             /\ status'[p] = Completed <=> status[p] = Completed
  <2>1. CASE p = t
    BY <1>1, <2>1
  <2>2. CASE p # t
    BY <1>1, <1>3, <2>2
  <2> QED
    BY <2>1, <2>2
<1> QED
  BY <1>4, <1>5 DEF Gentle

LEMMA CountedNames ==
  /\ {Pending, Running, NoRow, WaitingChildren} \cap Counted = {}
  /\ {Finalizing, Completed, Skipped, Failed} = Counted
BY Distinct DEF Counted

GentleStep ==
  \/ \E t \in Scan \cup Single : EnqueueStrmGenerationTask(t)
  \/ (\E q \in SyncPath : DeleteSyncPathByID(q)) \/ (\E t \in Task : BackoffElapses(t))
  \/ Boot \/ BootWithoutReset \/ Crash \/ SaveError
  \/ Select \/ Begin
  \/ Current \notin Child /\ ((\E changed \in BOOLEAN : Generate(changed)) \/ Skip \/ Fail)
  \/ DependencyWait \/ DependencyCheckFails \/ StartExpand \/ ExpandFails
  \/ SubmitRefresh \/ MarkRefreshSubmitted \/ MarkCompleted \/ FinishFails
  \/ UNCHANGED vars

LEMMA CurrentGentle ==
  ASSUME ShapeInv, DueInv,
         \/ Current \notin Child /\ ((\E changed \in BOOLEAN : Generate(changed)) \/ Skip \/ Fail)
         \/ DependencyWait \/ DependencyCheckFails \/ ExpandFails \/ MarkCompleted \/ FinishFails
  PROVE  Gentle
<1>1. worker.pc \in Busy /\ UNCHANGED items
  BY DEF Generate, Skip, Fail, DependencyWait, DependencyCheckFails, ExpandFails, MarkCompleted,
         FinishFails, Complete, Working, At, Busy, queueVars
<1>2. PICK t \in Task : t = Current
  BY <1>1, BusyWorker
<1>3. CASE Current \notin Child /\ \E changed \in BOOLEAN : Generate(changed)
  BY <1>3, NoneGentle DEF Generate
<1>4. CASE \/ Current \notin Child /\ (Skip \/ Fail)
           \/ DependencyWait \/ DependencyCheckFails \/ ExpandFails
  <2>1. /\ status[t] = Running
        /\ \/ t \notin Child /\ \E s \in {Finalizing, Failed} : status' = [status EXCEPT ![t] = s]
           \/ status' = [status EXCEPT ![t] = Pending]
    <3>1. status[Current] = Running /\ (ExpandFails => Current \notin Child)
      <4>1. At("work") \/ At("expand")
        BY <1>4 DEF Skip, Fail, DependencyWait, DependencyCheckFails, ExpandFails, Working
      <4>2. At("expand") => Current \in Scan
        BY DEF ShapeInv, WorkerInv, At, Current
      <4>3. Current \in Scan => Current \notin Child
        BY Families
      <4>4. status[Current] = Running
        BY <4>1 DEF ShapeInv, WorkerInv, At, Current
      <4>5. ExpandFails => At("expand")
        BY DEF ExpandFails
      <4> QED
        BY <4>2, <4>3, <4>4, <4>5
    <3>2. CASE Current \notin Child /\ (Skip \/ Fail)
      BY <1>2, <3>1, <3>2 DEF Skip, Fail
    <3>3. CASE DependencyWait \/ DependencyCheckFails
      BY <1>2, <3>1, <3>3 DEF DependencyWait, DependencyCheckFails
    <3>4. CASE ExpandFails
      BY <1>2, <3>1, <3>4 DEF ExpandFails
    <3> QED
      BY <1>4, <3>2, <3>3, <3>4
  <2>2. CASE t \notin Child /\ \E s \in {Finalizing, Failed} : status' = [status EXCEPT ![t] = s]
    BY <1>1, <2>1, <2>2, Distinct, OneGentle
  <2>3. CASE status' = [status EXCEPT ![t] = Pending]
    <3>1. Pending \notin Counted /\ Running \notin Counted
      BY CountedNames
    <3> QED
      BY <1>1, <2>1, <2>3, <3>1, Distinct, OneGentle
  <2> QED
    BY <2>1, <2>2, <2>3
<1>5. CASE MarkCompleted
  <2>1. /\ status' = [status EXCEPT ![t] = IF t \in skipping THEN Skipped ELSE Completed]
        /\ worker.pc \in {"finish", "complete"}
    BY <1>2, <1>5 DEF MarkCompleted, Complete, At
  <2>2. status[t] = Finalizing \/ (status[t] = Running /\ t \in Single)
    BY <1>2, <2>1 DEF ShapeInv, WorkerInv, Current
  <2>3. PICK s \in {Skipped, Completed} : status' = [status EXCEPT ![t] = s] /\ (t \in skipping => s = Skipped)
    BY <2>1
  <2>4. t \in Child => status[t] = Finalizing
    BY <2>2, Families
  <2>5. t \in Parent => s = Skipped /\ status[t] = Finalizing
    <3>1. t \in Parent => t \in Scan
      BY <1>1, <1>2, BusyWorker DEF Parent
    <3>2. t \in Parent => status[t] = Finalizing
      BY <2>2, Families
    <3> QED
      BY <2>3, <3>1, <3>2 DEF DueInv
  <2>6. {Skipped, Completed, Finalizing} \subseteq Counted
    BY CountedNames
  <2> QED
    BY <1>1, <2>3, <2>4, <2>5, <2>6, Distinct, OneGentle
<1>6. CASE FinishFails
  <2>1. CASE UNCHANGED status
    BY <1>1, <2>1, NoneGentle
  <2>2. CASE /\ status[Current] = Running
             /\ status' = [status EXCEPT ![Current] = Failed]
    <3>1. worker.pc \in {"finish", "mark", "complete"}
      BY <1>6 DEF FinishFails
    <3>2. Current \in Single
      BY <2>2, <3>1, Distinct DEF ShapeInv, WorkerInv, Current
    <3>3. t \notin Child /\ t \notin Parent
      BY <1>2, <3>2, Families
    <3>4. status' = [status EXCEPT ![t] = Failed]
      BY <1>2, <2>2
    <3> QED
      BY <1>1, <3>3, <3>4, OneGentle
  <2> QED
    BY <1>6, <2>1, <2>2 DEF FinishFails
<1> QED
  BY <1>3, <1>4, <1>5, <1>6

LEMMA GentleSteps ==
  ASSUME ShapeInv, DueInv, GentleStep
  PROVE  Gentle
<1>1. ASSUME NEW t \in Scan \cup Single, EnqueueStrmGenerationTask(t)
      PROVE  Gentle
  <2>1. status' = [status EXCEPT ![t] = Pending] /\ UNCHANGED items /\ status[t] = NoRow
    BY <1>1 DEF EnqueueStrmGenerationTask
  <2>2. t \in Task /\ t \notin Child
    BY Families
  <2> QED
    BY <2>1, <2>2, Distinct, OneGentle
<1>2. CASE \/ (\E q \in SyncPath : DeleteSyncPathByID(q)) \/ (\E t \in Task : BackoffElapses(t))
           \/ BootWithoutReset \/ Crash \/ SaveError \/ Select \/ StartExpand \/ SubmitRefresh
           \/ UNCHANGED vars
  <2>1. UNCHANGED <<status, items>>
    BY <1>2 DEF DeleteSyncPathByID, BackoffElapses, BootWithoutReset, Crash, SaveError, Select,
                StartExpand, SubmitRefresh, vars
  <2> QED
    BY <2>1, NoneGentle
<1>3. CASE Boot
  <2>1. /\ \A t \in Task : status'[t] = IF status[t] = Running THEN Pending ELSE status[t]
        /\ UNCHANGED items
    BY <1>3 DEF Boot
  <2>2. \A k \in Child : k \in Task
    BY Families
  <2>3. \A p \in Parent : p \in Task
    BY Families
  <2> QED
    BY <2>1, <2>2, <2>3, Distinct, CountedNames DEF Gentle
<1>4. CASE Begin
  <2>1. worker.batch # << >> /\ worker.batch \in Seq(Task) /\ Once(worker.batch)
    BY <1>4 DEF Begin, At, ShapeInv, WorkerInv, Worker0
  <2>2. PICK t \in Task : t = Head(worker.batch) /\ t \in Open(status)
    BY <2>1, HeadOnce DEF ShapeInv, WorkerInv
  <2>3. /\ UNCHANGED items
        /\ UNCHANGED status \/ (status[t] # Finalizing /\ status' = [status EXCEPT ![t] = Running])
    BY <1>4, <2>2 DEF Begin
  <2>4. status[t] \in {Pending, Running, Finalizing}
    BY <2>2 DEF Open
  <2>5. CASE status[t] # Finalizing /\ status' = [status EXCEPT ![t] = Running]
    <3>1. status[t] \notin Counted /\ Running \notin Counted
      BY <2>4, <2>5, CountedNames
    <3> QED
      BY <2>3, <2>4, <2>5, <3>1, Distinct, OneGentle
  <2> QED
    BY <2>3, <2>5, NoneGentle
<1>5. CASE MarkRefreshSubmitted
  <2> DEFINE p == RootOf(Current)
  <2>1. UNCHANGED status /\ items' = [items EXCEPT ![p] = [items[p] EXCEPT !.submitted = TRUE]]
    BY <1>5 DEF MarkRefreshSubmitted
  <2>2. p \in Parent /\ items[p] \in Items
    <3>1. Current \in Child
      BY <1>5 DEF MarkRefreshSubmitted, At, ShapeInv, WorkerInv, Current
    <3> QED
      BY <3>1, Families DEF ShapeInv, RowInv
  <2> HIDE DEF p
  <2>3. /\ items'[p] = [items[p] EXCEPT !.submitted = TRUE]
        /\ \A u \in Parent \ {p} : items'[u] = items[u]
    BY <2>1, <2>2 DEF ShapeInv, RowInv
  <2>4. /\ items'[p].total = items[p].total /\ items'[p].failed = items[p].failed
        /\ Processed(items'[p]) = Processed(items[p])
    BY <2>2, <2>3 DEF Items, Processed
  <2> QED
    BY <2>1, <2>3, <2>4 DEF Gentle
<1>6. CASE \/ Current \notin Child /\ ((\E changed \in BOOLEAN : Generate(changed)) \/ Skip \/ Fail)
           \/ DependencyWait \/ DependencyCheckFails \/ ExpandFails \/ MarkCompleted \/ FinishFails
  BY <1>6, CurrentGentle
<1> QED
  BY <1>1, <1>2, <1>3, <1>4, <1>5, <1>6 DEF GentleStep

\* All the other steps.
LEMMA GentleOrNot ==
  ASSUME [Next]_vars
  PROVE  \/ GentleStep
         \/ \E b \in Bundle, S \in SUBSET File : EnqueueStrmWebhookBatch(b, S)
         \/ RetireMissing \/ RetireAtWork \/ RetireAtFinish
         \/ Current \in Child /\ ((\E changed \in BOOLEAN : Generate(changed)) \/ Skip \/ Fail)
         \/ \E f \in File : EnqueueChild(f)
         \/ MarkDirectoryScanExpanded
BY Steps DEF GentleStep

\* An expansion goes on only through steps that leave the children alone.
LEMMA ExpandGentle ==
  ASSUME ShapeInv, GentleStep, worker'.pc = "expand"
  PROVE  StartExpand \/ (UNCHANGED worker /\ \A k \in Child : status'[k] = status[k])
<1>1. worker \in Worker0
  BY DEF ShapeInv, WorkerInv
<1>2. ASSUME NEW t \in Scan \cup Single, EnqueueStrmGenerationTask(t)
      PROVE  UNCHANGED worker /\ \A k \in Child : status'[k] = status[k]
  <2>1. status' = [status EXCEPT ![t] = Pending] /\ UNCHANGED worker
    BY <1>2 DEF EnqueueStrmGenerationTask
  <2>2. t \notin Child /\ Child \subseteq Task
    BY Families
  <2> QED
    BY <2>1, <2>2 DEF ShapeInv, RowInv
<1>3. CASE (\E q \in SyncPath : DeleteSyncPathByID(q)) \/ (\E t \in Task : BackoffElapses(t)) \/ UNCHANGED vars
  BY <1>3 DEF DeleteSyncPathByID, BackoffElapses, vars
<1>4. ~(Boot \/ BootWithoutReset \/ Crash \/ SaveError \/ DependencyCheckFails \/ FinishFails \/ Select)
  <2>1. Boot \/ BootWithoutReset \/ Crash \/ SaveError \/ DependencyCheckFails \/ FinishFails =>
          worker'.pc \in {"select", "down"}
    BY AbandonWorker DEF Boot, BootWithoutReset, Crash, SaveError, DependencyCheckFails, FinishFails, Abandon
  <2>2. Select => worker'.pc = "next"
    BY DEF Select, Down
  <2> QED
    BY <2>1, <2>2
<1>5. ~(Fail \/ DependencyWait \/ ExpandFails \/ MarkCompleted)
  <2>1. Fail \/ DependencyWait \/ ExpandFails \/ MarkCompleted => Continue
    BY DEF Fail, DependencyWait, ExpandFails, MarkCompleted, Complete
  <2>2. Continue => worker'.pc \in {"select", "next"}
    BY <1>1, ContinueWorker
  <2> QED
    BY <2>1, <2>2
<1>6. ~(Begin \/ (\E changed \in BOOLEAN : Generate(changed)) \/ Skip \/ SubmitRefresh \/ MarkRefreshSubmitted)
  BY <1>1 DEF Begin, Generate, Skip, SubmitRefresh, MarkRefreshSubmitted, Go, Worker0
<1> QED
  BY <1>2, <1>3, <1>4, <1>5, <1>6 DEF GentleStep

\* A child's result, what it does to the numbers, and that nothing else is
\* touched.
LEMMA RecordFacts ==
  ASSUME ShapeInv, Current \in Child,
         (\E changed \in BOOLEAN : Generate(changed)) \/ Skip \/ Fail
  PROVE  \E t \in Child, p \in Parent, r \in Items, s \in {Finalizing, Failed}, old \in Items :
           /\ p = RootOf(t) /\ t \in ChildrenOf(p) /\ old = items[p] /\ status[t] = Running
           /\ status'[t] = s /\ status'[p] = Settled(p, r) /\ items'[p] = r
           /\ \A u \in Task \ {t, p} : status'[u] = status[u]
           /\ \A u \in Parent \ {p} : items'[u] = items[u]
           /\ Processed(r) = Processed(old) + 1
           /\ r.total = IF old.total >= Processed(old) + 1 THEN old.total ELSE Processed(old) + 1
           /\ r.failed = IF s = Failed THEN old.failed + 1 ELSE old.failed
           /\ worker'.pc # "expand" /\ (worker'.pc = "work" => FALSE) /\ worker'.pc # "down"
           /\ UNCHANGED <<missing, requested, faults>>
<1>1. worker.pc \in Busy /\ status[Current] = Running /\ worker \in Worker0
  BY DEF Generate, Skip, Fail, Working, At, Busy, ShapeInv, WorkerInv, Current
<1>2. PICK t \in Child : t = Current /\ t \in Open(status) /\ status[t] = Running
  BY <1>1, BusyWorker
<1>3. PICK r \in Items, s \in {Finalizing, Failed}, old \in Items :
           /\ old = items[RootOf(t)]
           /\ status' = [status EXCEPT ![t] = s, ![RootOf(t)] = Settled(RootOf(t), r)]
           /\ items' = [items EXCEPT ![RootOf(t)] = r]
           /\ Processed(r) = Processed(old) + 1
           /\ r.total = IF old.total >= Processed(old) + 1 THEN old.total ELSE Processed(old) + 1
           /\ r.failed = IF s = Failed THEN old.failed + 1 ELSE old.failed
           /\ r.submitted = old.submitted
  BY <1>2, Recorded
<1>4. /\ status'[t] = s /\ status'[RootOf(t)] = Settled(RootOf(t), r)
      /\ items'[RootOf(t)] = r
      /\ \A u \in Task \ {t, RootOf(t)} : status'[u] = status[u]
      /\ \A u \in Parent \ {RootOf(t)} : items'[u] = items[u]
  <2>1. RowInv /\ t \in Open(status)
    BY <1>2 DEF ShapeInv
  <2>2. /\ status' = [status EXCEPT ![t] = s, ![RootOf(t)] = Settled(RootOf(t), r)]
        /\ items' = [items EXCEPT ![RootOf(t)] = r]
    BY <1>3
  <2>3. /\ status' \in [Task -> Status \cup {NoRow}]
        /\ items' \in [Parent -> Items]
        /\ status'[t] = s /\ status'[RootOf(t)] = Settled(RootOf(t), r)
        /\ items'[RootOf(t)] = r
        /\ \A u \in Task \ {t, RootOf(t)} : status'[u] = status[u]
        /\ \A u \in Parent \ {RootOf(t)} : items'[u] = items[u]
        /\ \A u \in Open(status) \ {t} : status'[u] = status[u]
        /\ \A u \in Task : status'[u] = NoRow <=> status[u] = NoRow
    BY <2>1, <2>2, RecordRows
  <2> QED
    BY <2>3
<1>5. PICK p \in Parent : p = RootOf(t) /\ t \in ChildrenOf(p)
  BY FilesOf, Families
<1>6. /\ worker'.pc # "expand" /\ (worker'.pc = "work" => FALSE) /\ worker'.pc # "down"
      /\ UNCHANGED <<missing, requested, faults>>
  <2>1. Fail => Continue
    BY DEF Fail
  <2>2. Continue => worker'.pc \in {"select", "next"}
    BY <1>1, ContinueWorker
  <2> QED
    BY <1>1, <2>1, <2>2 DEF Generate, Skip, Fail, Go, Worker0
<1>7. /\ old = items[p] /\ status'[p] = Settled(p, r) /\ items'[p] = r
      /\ \A u \in Task \ {t, p} : status'[u] = status[u]
      /\ \A u \in Parent \ {p} : items'[u] = items[u]
  BY <1>3, <1>4, <1>5
<1> WITNESS t \in Child, p \in Parent, r \in Items, s \in {Finalizing, Failed}, old \in Items
<1> QED
  BY <1>2, <1>3, <1>4, <1>5, <1>6, <1>7

LEMMA RowsOf ==
  ASSUME NEW st \in [Task -> Status \cup {NoRow}], NEW p \in Parent
  PROVE  \A k \in ChildrenOf(p) : st[k] # NoRow <=> st[k] \in Rows
<1>1. Rows = Status /\ NoRow \notin Status
  BY StatusNames DEF Rows, Status, Active
<1>2. \A k \in ChildrenOf(p) : st[k] \in Status \cup {NoRow}
  BY FilesOf, Families
<1> QED
  BY <1>1, <1>2

\* A sync path that is gone takes the active tasks with it, and their parents.
\* Whoever has not failed is as he was; and what children had not been counted
\* is counted now.
LEMMA RetireFacts ==
  ASSUME ShapeInv, DueInv, NEW q, NEW st, Retire(q, st),
         \/ st = status
         \/ Current \in Task /\ status[Current] = Running /\ st = [status EXCEPT ![Current] = Pending]
  PROVE  /\ \A k \in Child : status'[k] = NoRow <=> status[k] = NoRow
         /\ \A t \in Task : status'[t] = Pending => status[t] = Pending \/ t = Current
         /\ \A t \in Task : status'[t] \notin {Pending, Failed} => status'[t] = status[t]
         /\ \A p \in Parent : status'[p] # Failed =>
              /\ status'[p] # Pending => status'[p] = status[p]
              /\ items'[p].total = items[p].total
              /\ items'[p].failed = items[p].failed
              /\ Processed(items'[p]) = Processed(items[p])
              /\ \A k \in ChildrenOf(p) :
                   status'[k] = status[k] \/ (status[k] = Running /\ status'[k] = Pending)
         /\ \A p \in Parent : status[p] = Completed => status'[p] = Completed \/ PathOf[p] = q
<1> DEFINE hit == {t \in Task : st[t] \in Active /\ SyncPathOf(t) = q}
<1>1. \A t \in Task : status'[t] = IF t \in hit \/ (t \in Parent /\ hit \cap ChildrenOf(t) # {})
                                    THEN Failed ELSE st[t]
  BY DEF Retire
<1>2. \A t \in Task : \/ st[t] = status[t]
                      \/ t = Current /\ status[t] = Running /\ st[t] = Pending
  <2>1. CASE st = status
    BY <2>1
  <2>2. CASE Current \in Task /\ status[Current] = Running /\ st = [status EXCEPT ![Current] = Pending]
    BY <2>2 DEF ShapeInv, RowInv
  <2> QED
    BY <2>1, <2>2
<1>3. \A t \in hit : st[t] \in Active /\ SyncPathOf(t) = q /\ t \in Task
  OBVIOUS
<1>4. ASSUME NEW p \in Parent, hit \cap ChildrenOf(p) = {}
      PROVE  /\ items'[p].total = items[p].total
             /\ items'[p].failed = items[p].failed
             /\ Processed(items'[p]) = Processed(items[p])
  <2>1. \A k \in ChildrenOf(p) : k \in Task /\ SyncPathOf(k) = PathOf[p]
    BY FilesOf, Families
  <2>2. Lost(p, q, st) = {}
    BY <1>4, <2>1, StatusNames DEF Lost
  <2>3. items'[p] = Add(items[p], "failed", Cardinality(Lost(p, q, st)), FALSE)
    BY DEF Retire
  <2> HIDE DEF hit
  <2>4. Cardinality(Lost(p, q, st)) = 0
    BY <2>2, FS_EmptySet
  <2>5. PICK n \in Nat, old \in Items : n = 0 /\ old = items[p]
    BY DEF ShapeInv, RowInv
  <2>6. items'[p] = Add(old, "failed", n, FALSE)
    BY <2>3, <2>4, <2>5
  <2>7. /\ Processed(items'[p]) = Processed(old) + n
        /\ items'[p].failed = old.failed + n
        /\ items'[p].total = IF old.total >= Processed(old) + n THEN old.total ELSE Processed(old) + n
    BY <2>6, AddFailures
  <2>8. old.total >= Processed(old)
    BY <2>5 DEF DueInv
  <2>9. Processed(old) \in Nat /\ old.failed \in Nat
    BY DEF Items, Processed
  <2> QED
    BY <2>5, <2>7, <2>8, <2>9
<1> HIDE DEF hit
<1>5. \A k \in Child : status'[k] = NoRow <=> status[k] = NoRow
  <2>1. \A k \in Child : k \in Task /\ k \notin Parent
    BY Families
  <2>2. \A k \in hit : st[k] # NoRow
    BY <1>3, StatusNames, Distinct
  <2> QED
    BY <1>1, <1>2, <2>1, <2>2, Distinct
<1>6. \A t \in Task : status'[t] = Pending => status[t] = Pending \/ t = Current
  BY <1>1, <1>2, Distinct
<1>7. \A t \in Task : status'[t] \notin {Pending, Failed} => status'[t] = status[t]
  BY <1>1, <1>2
<1>8. ASSUME NEW p \in Parent, status'[p] # Failed
      PROVE  /\ status'[p] # Pending => status'[p] = status[p]
             /\ items'[p].total = items[p].total
             /\ items'[p].failed = items[p].failed
             /\ Processed(items'[p]) = Processed(items[p])
             /\ \A k \in ChildrenOf(p) :
                  status'[k] = status[k] \/ (status[k] = Running /\ status'[k] = Pending)
  <2>1. p \in Task
    BY Families
  <2>2. hit \cap ChildrenOf(p) = {}
    BY <1>1, <1>8, <2>1
  <2>3. \A k \in ChildrenOf(p) : k \in Task /\ k \notin Parent /\ k \notin hit
    BY <2>2, FilesOf, Families
  <2>4. \A k \in ChildrenOf(p) :
                  status'[k] = status[k] \/ (status[k] = Running /\ status'[k] = Pending)
    BY <1>1, <1>2, <2>3
  <2> QED
    BY <1>4, <1>7, <1>8, <2>1, <2>2, <2>4
<1>9. ASSUME NEW p \in Parent, status[p] = Completed
      PROVE  status'[p] = Completed \/ PathOf[p] = q
  <2>1. p \in Task /\ st[p] = Completed /\ SyncPathOf(p) = PathOf[p]
    BY <1>2, <1>9, Distinct, Families DEF SyncPathOf
  <2>2. CASE hit \cap ChildrenOf(p) # {}
    <3>1. PICK k \in ChildrenOf(p) : k \in hit
      BY <2>2
    <3> QED
      BY <1>3, <3>1, FilesOf
  <2>3. CASE p \in hit
    BY <1>3, <2>1, <2>3
  <2>4. CASE p \notin hit /\ hit \cap ChildrenOf(p) = {}
    BY <1>1, <2>1, <2>4
  <2> QED
    BY <2>2, <2>3, <2>4
<1> QED
  BY <1>5, <1>6, <1>7, <1>8, <1>9

\* The three places the worker retires tasks at.
LEMMA Retires ==
  ASSUME ShapeInv, RetireMissing \/ RetireAtWork \/ RetireAtFinish
  PROVE  \E q \in missing, st \in [Task -> Status \cup {NoRow}] :
           /\ Retire(q, st)
           /\ \/ st = status
              \/ /\ Current \in Task /\ status[Current] = Running /\ worker.pc = "work"
                 /\ st = [status EXCEPT ![Current] = Pending]
<1>0. status \in [Task -> Status \cup {NoRow}]
  BY DEF ShapeInv, RowInv
<1>1. CASE \E q \in missing : Retire(q, status)
  BY <1>0, <1>1
<1>2. CASE Working /\ \E q \in missing : Retire(q, [status EXCEPT ![Current] = Pending])
  <2>1. Current \in Task /\ status[Current] = Running /\ worker.pc = "work"
    BY <1>2 DEF Working, At, Current, ShapeInv, WorkerInv, Busy
  <2>2. PICK st \in [Task -> Status \cup {NoRow}] : st = [status EXCEPT ![Current] = Pending]
    BY <1>0, <2>1, StatusNames
  <2>3. PICK q \in missing : Retire(q, st)
    BY <1>2, <2>2
  <2> QED
    BY <2>1, <2>2, <2>3
<1> QED
  BY <1>1, <1>2 DEF RetireMissing, RetireAtWork, RetireAtFinish, MissingPaths

-----------------------------------------------------------------------------
(* The parents whose refresh is asked for, where directories do not change. *)

SameListing == \A s \in Scan : \A L, M \in Listings[s] : L = M

\* A parent that waits has not been told more than happened, and a completed
\* one has nothing left to wait for.
LateOf(st, it, p) ==
  /\ st[p] = WaitingChildren =>
       /\ Processed(it[p]) <= Number(st, p, Counted)
       /\ it[p].failed = 0 => \A k \in ChildrenOf(p) : st[k] # Failed
       /\ it[p].total = Number(st, p, Rows)
  /\ st[p] = Completed =>
       \A k \in ChildrenOf(p) : st[k] # NoRow => st[k] \in Counted /\ st[k] # Failed

\* The children of a scan are files of its directory, and an expansion knows
\* what of it remains.
Listed ==
  /\ \A s \in Scan : \A k \in ChildrenOf(s) :
       status[k] # NoRow => \A L \in Listings[s] : k[2] \in L
  /\ worker.pc = "expand" =>
       \E L \in Listings[worker.task] :
         /\ worker.left \subseteq L
         /\ worker.total = Cardinality(L \ worker.left)
         /\ \A f \in L \ worker.left : status[<<worker.task, f>>] \in Active

Asked == \A p \in requested : PathOf[p] \in missing \/ status[p] = Completed

LateInv == (\A p \in Parent : LateOf(status, items, p)) /\ Listed /\ Asked

Typed(st) == st \in [Task -> Status \cup {NoRow}]

LEMMA LateSame ==
  ASSUME NEW st, NEW st2, NEW it, NEW it2, NEW p \in Parent,
         Typed(st), Typed(st2), LateOf(st, it, p),
         st2[p] \in {WaitingChildren, Completed} => st2[p] = st[p],
         \A k \in ChildrenOf(p) : /\ st2[k] \in Counted <=> st[k] \in Counted
                                  /\ st2[k] = Failed <=> st[k] = Failed
                                  /\ st2[k] = NoRow <=> st[k] = NoRow,
         st2[p] = WaitingChildren =>
           /\ it2[p].total = it[p].total
           /\ it2[p].failed = it[p].failed
           /\ Processed(it2[p]) = Processed(it[p])
  PROVE  LateOf(st2, it2, p)
<1>1. /\ \A k \in ChildrenOf(p) : st[k] # NoRow <=> st[k] \in Rows
      /\ \A k \in ChildrenOf(p) : st2[k] # NoRow <=> st2[k] \in Rows
  BY RowsOf DEF Typed
<1>2. Number(st2, p, Counted) = Number(st, p, Counted)
  BY NumberSame
<1>3. \A k \in ChildrenOf(p) : st2[k] \in Rows <=> st[k] \in Rows
  BY <1>1
<1>4. Number(st2, p, Rows) = Number(st, p, Rows)
  BY <1>3, NumberSame
<1> QED
  BY <1>2, <1>4 DEF LateOf

\* What the result of child t of p does to the numbers of p.
LEMMA OneMoreCounted ==
  ASSUME Typed(status), Typed(status'), NEW p \in Parent, NEW t \in ChildrenOf(p),
         NEW s \in {Finalizing, Failed}, status[t] = Running, status'[t] = s,
         \A u \in Task \ {t, p} : status'[u] = status[u]
  PROVE  /\ \A k \in ChildrenOf(p) \ {t} : status'[k] = status[k]
         /\ Number(status', p, Counted) = Number(status, p, Counted) + 1
         /\ Number(status', p, Rows) = Number(status, p, Rows)
         /\ Number(status', p, Counted) <= Number(status', p, Rows)
         /\ Number(status, p, Counted) \in Nat /\ Number(status, p, Rows) \in Nat
<1>1. \A k \in ChildrenOf(p) \ {t} : status'[k] = status[k]
  <2>1. \A k \in ChildrenOf(p) : k \in Task /\ k # p
    BY FilesOf, Families
  <2> QED
    BY <2>1
<1>2. status[t] \notin Counted /\ status'[t] \in Counted /\ status'[t] # NoRow /\ status[t] # NoRow
  BY CountedNames, Distinct
<1>3. PICK st : st = status'
  OBVIOUS
<1>4. Number(st, p, Counted) = Number(status, p, Counted) + 1
  BY <1>1, <1>2, <1>3, NumberMore
<1>5. \A k \in ChildrenOf(p) : st[k] \in Rows <=> status[k] \in Rows
  <2>1. /\ \A k \in ChildrenOf(p) : st[k] # NoRow <=> st[k] \in Rows
        /\ \A k \in ChildrenOf(p) : status[k] # NoRow <=> status[k] \in Rows
    BY <1>3, RowsOf DEF Typed
  <2> QED
    BY <1>1, <1>2, <1>3, <2>1
<1>6. Number(st, p, Rows) = Number(status, p, Rows)
  BY <1>5, NumberSame
<1>7. Number(st, p, Counted) <= Number(st, p, Rows)
  BY FewerNumber
<1> QED
  BY <1>1, <1>3, <1>4, <1>6, <1>7, NumberBound

LEMMA OthersRecord ==
  ASSUME NEW p \in Parent, NEW t \in ChildrenOf(p),
         \A u \in Task \ {t, p} : status'[u] = status[u],
         \A u \in Parent \ {p} : items'[u] = items[u],
         NEW u \in Parent \ {p}
  PROVE  /\ status'[u] = status[u] /\ items'[u] = items[u]
         /\ \A k \in ChildrenOf(u) : status'[k] = status[k]
<1>1. u \in Task /\ u # t
  BY FilesOf, Families
<1>2. \A k \in ChildrenOf(u) : k \in Task /\ k # p /\ k # t
  BY FilesOf, Families
<1> QED
  BY <1>1, <1>2

LEMMA LateRecord ==
  ASSUME ShapeInv, LateInv, Typed(status'), Current \in Child,
         (\E changed \in BOOLEAN : Generate(changed)) \/ Skip \/ Fail
  PROVE  LateInv'
<1>0. Typed(status)
  BY DEF Typed, ShapeInv, RowInv
<1>1. PICK t \in Child, p \in Parent, r \in Items, s \in {Finalizing, Failed}, old \in Items :
           /\ p = RootOf(t) /\ t \in ChildrenOf(p) /\ old = items[p] /\ status[t] = Running
           /\ status'[t] = s /\ status'[p] = Settled(p, r) /\ items'[p] = r
           /\ \A u \in Task \ {t, p} : status'[u] = status[u]
           /\ \A u \in Parent \ {p} : items'[u] = items[u]
           /\ Processed(r) = Processed(old) + 1
           /\ r.total = IF old.total >= Processed(old) + 1 THEN old.total ELSE Processed(old) + 1
           /\ r.failed = IF s = Failed THEN old.failed + 1 ELSE old.failed
           /\ worker'.pc # "expand" /\ (worker'.pc = "work" => FALSE) /\ worker'.pc # "down"
           /\ UNCHANGED <<missing, requested, faults>>
  BY RecordFacts
<1>2. /\ \A k \in ChildrenOf(p) \ {t} : status'[k] = status[k]
      /\ Number(status', p, Counted) = Number(status, p, Counted) + 1
      /\ Number(status', p, Rows) = Number(status, p, Rows)
      /\ Number(status', p, Counted) <= Number(status', p, Rows)
      /\ Number(status, p, Counted) \in Nat /\ Number(status, p, Rows) \in Nat
  BY <1>0, <1>1, OneMoreCounted
<1>3. LateOf(status, items, p)
  BY DEF LateInv
<1>4. Processed(old) \in Nat /\ old.failed \in Nat /\ Processed(r) \in Nat
  BY DEF Processed, Items
<1>5. status[t] \notin Counted /\ status[t] # NoRow
  BY <1>1, CountedNames, Distinct
<1>6. status[p] # Completed
  BY <1>1, <1>3, <1>5 DEF LateOf
<1>7. LateOf(status', items', p)
  <2>1. CASE Final(p, r)
    <3>1. /\ status[p] = WaitingChildren /\ Processed(r) >= r.total
          /\ status'[p] \in {Failed, Completed, Skipped}
          /\ status'[p] = Completed => r.failed = 0
      <4>1. r.failed \in Nat
        BY DEF Items
      <4> QED
        BY <1>1, <2>1, <4>1, SettledCases, Distinct DEF Final
    <3>2. CASE status'[p] = Completed
      <4>1. /\ Processed(old) <= Number(status, p, Counted)
            /\ old.total = Number(status, p, Rows)
            /\ old.failed = 0 => \A k \in ChildrenOf(p) : status[k] # Failed
        BY <1>1, <1>3, <3>1 DEF LateOf
      <4>2. r.total = old.total /\ Number(status', p, Counted) >= Number(status', p, Rows)
        BY <1>1, <1>2, <1>4, <3>1, <4>1
      <4>3. s # Failed /\ old.failed = 0
        BY <1>1, <1>4, <3>1, <3>2
      <4>4. \A k \in ChildrenOf(p) : status'[k] # Failed
        BY <1>1, <1>2, <4>1, <4>3
      <4>5. PICK st : st = status'
        OBVIOUS
      <4>6. \A k \in ChildrenOf(p) : st[k] \in Rows => st[k] \in Counted
        BY <4>2, <4>5, FullNumber
      <4>7. \A k \in ChildrenOf(p) : st[k] # NoRow <=> st[k] \in Rows
        BY <1>1, <4>5, RowsOf DEF Typed
      <4> QED
        BY <3>2, <4>4, <4>5, <4>6, <4>7, Distinct DEF LateOf
    <3> QED
      BY <3>1, <3>2, Distinct DEF LateOf
  <2>2. CASE ~Final(p, r)
    <3>1. status'[p] = status[p]
      BY <1>1, <2>2, SettledCases
    <3>2. CASE status[p] = WaitingChildren
      <4>1. /\ Processed(old) <= Number(status, p, Counted)
            /\ old.total = Number(status, p, Rows)
            /\ old.failed = 0 => \A k \in ChildrenOf(p) : status[k] # Failed
        BY <1>1, <1>3, <3>2 DEF LateOf
      <4>2. Processed(r) <= Number(status', p, Counted) /\ r.total = Number(status', p, Rows)
        BY <1>1, <1>2, <1>4, <4>1
      <4>3. r.failed = 0 => s # Failed /\ old.failed = 0
        BY <1>1, <1>4
      <4>4. r.failed = 0 => \A k \in ChildrenOf(p) : status'[k] # Failed
        BY <1>1, <1>2, <4>1, <4>3
      <4> QED
        BY <1>1, <3>1, <3>2, <4>2, <4>4, Distinct DEF LateOf
    <3> QED
      BY <1>6, <3>1, <3>2 DEF LateOf
  <2> QED
    BY <2>1, <2>2
<1>8. ASSUME NEW u \in Parent \ {p}
      PROVE  LateOf(status', items', u)
  <2>1. /\ status'[u] = status[u] /\ items'[u] = items[u]
        /\ \A k \in ChildrenOf(u) : status'[k] = status[k]
    BY <1>1, OthersRecord
  <2>2. LateOf(status, items, u)
    BY DEF LateInv
  <2>3. PICK st, it : st = status' /\ it = items'
    OBVIOUS
  <2>4. LateOf(st, it, u)
    BY <1>0, <2>1, <2>2, <2>3, LateSame
  <2> QED
    BY <2>3, <2>4
<1>9. Listed'
  <2>1. ASSUME NEW v \in Scan, NEW k \in ChildrenOf(v), status'[k] # NoRow
        PROVE  status[k] # NoRow
    <3>1. k \in Task /\ k # p
      BY FilesOf, Families
    <3> QED
      BY <1>1, <1>5, <2>1, <3>1
  <2> QED
    BY <1>1, <2>1 DEF LateInv, Listed
<1>10. Asked'
  <2>1. ASSUME NEW u \in requested, PathOf[u] \notin missing
        PROVE  status'[u] = Completed
    <3>1. status[u] = Completed /\ u \in Parent /\ u \in Task
      BY <2>1, Families DEF LateInv, Asked, ShapeInv, MarkInv
    <3>2. u # p /\ u # t
      BY <1>6, <3>1, Families
    <3> QED
      BY <1>1, <3>1, <3>2
  <2> QED
    BY <1>1, <2>1 DEF Asked
<1> QED
  BY <1>7, <1>8, <1>9, <1>10 DEF LateInv

LEMMA GentleAsks ==
  ASSUME GentleStep
  PROVE  missing \subseteq missing' /\ (SubmitRefresh \/ requested' = requested)
<1>1. \/ \E t \in Scan \cup Single : EnqueueStrmGenerationTask(t)
      \/ \E t \in Task : BackoffElapses(t)
      \/ \E changed \in BOOLEAN : Generate(changed)
      => UNCHANGED <<missing, requested>>
  BY DEF EnqueueStrmGenerationTask, BackoffElapses, Generate
<1>2. (\E q \in SyncPath : DeleteSyncPathByID(q)) => missing \subseteq missing' /\ requested' = requested
  BY DEF DeleteSyncPathByID
<1>3. Boot \/ BootWithoutReset \/ Crash \/ SaveError \/ Select \/ Begin => UNCHANGED <<missing, requested>>
  BY DEF Boot, BootWithoutReset, Crash, SaveError, Select, Begin
<1>4. Skip \/ Fail \/ DependencyWait \/ DependencyCheckFails \/ StartExpand \/ ExpandFails
      => UNCHANGED <<missing, requested>>
  BY DEF Skip, Fail, DependencyWait, DependencyCheckFails, StartExpand, ExpandFails
<1>5. MarkRefreshSubmitted \/ MarkCompleted \/ FinishFails \/ UNCHANGED vars => UNCHANGED <<missing, requested>>
  BY DEF MarkRefreshSubmitted, MarkCompleted, Complete, FinishFails, vars
<1>6. SubmitRefresh => UNCHANGED missing
  BY DEF SubmitRefresh
<1> QED
  BY <1>1, <1>2, <1>3, <1>4, <1>5, <1>6 DEF GentleStep

LEMMA LateGentle ==
  ASSUME ShapeInv, DueInv, LateInv, Typed(status'), GentleStep
  PROVE  LateInv'
<1>0. Typed(status) /\ Gentle
  BY GentleSteps DEF Typed, ShapeInv, RowInv
<1>1. ASSUME NEW p \in Parent
      PROVE  LateOf(status', items', p)
  <2>1. PICK st, it : st = status' /\ it = items'
    OBVIOUS
  <2>2. LateOf(status, items, p)
    BY DEF LateInv
  <2>3. \A k \in ChildrenOf(p) : k \in Child
    BY FilesOf
  <2>4. /\ st[p] \in {WaitingChildren, Completed} => st[p] = status[p]
        /\ it[p].total = items[p].total
        /\ it[p].failed = items[p].failed
        /\ Processed(it[p]) = Processed(items[p])
    BY <1>0, <2>1 DEF Gentle
  <2>5. \A k \in ChildrenOf(p) : /\ st[k] \in Counted <=> status[k] \in Counted
                                 /\ st[k] = Failed <=> status[k] = Failed
                                 /\ st[k] = NoRow <=> status[k] = NoRow
    BY <1>0, <2>1, <2>3 DEF Gentle
  <2>6. Typed(st)
    BY <2>1
  <2>7. LateOf(st, it, p)
    BY <1>0, <2>2, <2>4, <2>5, <2>6, LateSame
  <2> QED
    BY <2>1, <2>7
<1>2. \A s \in Scan : \A k \in ChildrenOf(s) : status'[k] # NoRow => status[k] # NoRow
  <2>1. \A s \in Scan : \A k \in ChildrenOf(s) : k \in Child
    BY FilesOf, Families
  <2> QED
    BY <1>0, <2>1 DEF Gentle
<1>3. ASSUME worker'.pc = "expand"
      PROVE  \E L \in Listings[worker'.task] :
               /\ worker'.left \subseteq L
               /\ worker'.total = Cardinality(L \ worker'.left)
               /\ \A f \in L \ worker'.left : status'[<<worker'.task, f>>] \in Active
  <2>1. CASE StartExpand
    <3>1. PICK L \in Listings[Current] :
            worker' = [worker EXCEPT !.pc = "expand", !.left = L, !.total = 0]
      BY <2>1 DEF StartExpand
    <3>2. worker'.left = L /\ worker'.total = 0 /\ worker'.task = Current
      BY <3>1 DEF ShapeInv, WorkerInv, Worker0, Current
    <3>3. L \ worker'.left = {} /\ Cardinality({}) = 0
      BY <3>2, FS_EmptySet
    <3> QED
      BY <3>1, <3>2, <3>3
  <2>2. CASE UNCHANGED worker /\ \A k \in Child : status'[k] = status[k]
    <3>1. worker.pc = "expand" /\ worker.task \in Scan
      BY <1>3, <2>2 DEF ShapeInv, WorkerInv
    <3>2. PICK L \in Listings[worker.task] :
                 /\ worker.left \subseteq L
                 /\ worker.total = Cardinality(L \ worker.left)
                 /\ \A f \in L \ worker.left : status[<<worker.task, f>>] \in Active
      BY <3>1 DEF LateInv, Listed
    <3>3. L \subseteq File
      BY <3>1, TaskAssumption
    <3>4. \A f \in L : <<worker.task, f>> \in Child
      BY <3>1, <3>3, Families DEF Child
    <3> QED
      BY <2>2, <3>2, <3>4, ZenonT(40)
  <2> QED
    BY <1>3, <2>1, <2>2, ExpandGentle
<1>4. Listed'
  BY <1>2, <1>3 DEF LateInv, Listed
<1>5. Asked'
  <2>1. ASSUME NEW p \in requested', PathOf[p] \notin missing'
        PROVE  status'[p] = Completed
    <3>1. CASE p \in requested
      <4>1. status[p] = Completed /\ p \in Parent
        BY <2>1, <3>1, GentleAsks DEF LateInv, Asked, ShapeInv, MarkInv
      <4> QED
        BY <1>0, <4>1 DEF Gentle
    <3>2. CASE p \notin requested
      <4>1. SubmitRefresh /\ p = RootOf(Current)
        BY <2>1, <3>2, GentleAsks DEF SubmitRefresh
      <4>2. status[p] = Completed /\ UNCHANGED status
        BY <4>1 DEF SubmitRefresh, RefreshDue, IsReadyToSubmitRefresh
      <4> QED
        BY <4>2
    <3> QED
      BY <3>1, <3>2
  <2> QED
    BY <2>1 DEF Asked
<1> QED
  BY <1>1, <1>4, <1>5 DEF LateInv

LEMMA LateRetire ==
  ASSUME ShapeInv, DueInv, LateInv, Typed(status'), RetireMissing \/ RetireAtWork \/ RetireAtFinish
  PROVE  LateInv'
<1>0. Typed(status)
  BY DEF Typed, ShapeInv, RowInv
<1>1. PICK q \in missing, st \in [Task -> Status \cup {NoRow}] :
           /\ Retire(q, st)
           /\ \/ st = status
              \/ /\ Current \in Task /\ status[Current] = Running /\ worker.pc = "work"
                 /\ st = [status EXCEPT ![Current] = Pending]
  BY Retires
<1>2. /\ \A k \in Child : status'[k] = NoRow <=> status[k] = NoRow
      /\ \A p \in Parent : status'[p] # Failed =>
              /\ status'[p] # Pending => status'[p] = status[p]
              /\ items'[p].total = items[p].total
              /\ items'[p].failed = items[p].failed
              /\ Processed(items'[p]) = Processed(items[p])
              /\ \A k \in ChildrenOf(p) :
                   status'[k] = status[k] \/ (status[k] = Running /\ status'[k] = Pending)
      /\ \A p \in Parent : status[p] = Completed => status'[p] = Completed \/ PathOf[p] = q
  BY <1>1, RetireFacts
<1>3. worker'.pc # "expand" /\ UNCHANGED <<missing, requested>>
  <2>1. worker' = [Down EXCEPT !.pc = "select"] /\ UNCHANGED <<missing, requested>>
    BY <1>1 DEF Retire, Abandon
  <2> QED
    BY <2>1, AbandonWorker
<1>4. ASSUME NEW p \in Parent
      PROVE  LateOf(status', items', p)
  <2>1. PICK st2, it2 : st2 = status' /\ it2 = items'
    OBVIOUS
  <2>2. CASE st2[p] \notin {WaitingChildren, Completed}
    BY <2>1, <2>2 DEF LateOf
  <2>3. CASE st2[p] \in {WaitingChildren, Completed}
    <3>1. /\ st2[p] = status[p]
          /\ it2[p].total = items[p].total
          /\ it2[p].failed = items[p].failed
          /\ Processed(it2[p]) = Processed(items[p])
          /\ \A k \in ChildrenOf(p) :
               st2[k] = status[k] \/ (status[k] = Running /\ st2[k] = Pending)
      BY <1>2, <2>1, <2>3, Distinct
    <3>2. \A k \in ChildrenOf(p) : /\ st2[k] \in Counted <=> status[k] \in Counted
                                   /\ st2[k] = Failed <=> status[k] = Failed
                                   /\ st2[k] = NoRow <=> status[k] = NoRow
      BY <3>1, CountedNames, Distinct
    <3>3. LateOf(status, items, p) /\ Typed(st2)
      BY <2>1 DEF LateInv
    <3>4. LateOf(st2, it2, p)
      BY <1>0, <3>1, <3>2, <3>3, LateSame
    <3> QED
      BY <2>1, <3>4
  <2> QED
    BY <2>2, <2>3
<1>5. Listed'
  <2>1. \A s \in Scan : \A k \in ChildrenOf(s) : k \in Child
    BY FilesOf, Families
  <2> QED
    BY <1>2, <1>3, <2>1 DEF LateInv, Listed
<1>6. Asked'
  <2>1. \A p \in requested : p \in Parent /\ (PathOf[p] \in missing \/ status[p] = Completed)
    BY DEF LateInv, Asked, ShapeInv, MarkInv
  <2> QED
    BY <1>2, <1>3, <2>1 DEF Asked
<1> QED
  BY <1>4, <1>5, <1>6 DEF LateInv

\* A batch of files comes with its children.
LEMMA BatchFacts ==
  ASSUME ShapeInv, DueInv, NEW b \in Bundle, NEW S \in SUBSET File, EnqueueStrmWebhookBatch(b, S)
  PROVE  /\ b \in Parent /\ b \in Task /\ status[b] = NoRow /\ status'[b] = WaitingChildren
         /\ S # {} /\ Cardinality(S) \in Nat /\ Cardinality(S) > 0
         /\ \A k \in ChildrenOf(b) : status[k] = NoRow
         /\ \A k \in ChildrenOf(b) : status'[k] = IF k[2] \in S THEN Pending ELSE NoRow
         /\ \A p \in Parent \ {b} : /\ status'[p] = status[p] /\ items'[p] = items[p]
                                    /\ \A k \in ChildrenOf(p) : status'[k] = status[k]
         /\ items'[b].total = Cardinality(S) /\ items'[b].failed = 0
         /\ Processed(items'[b]) = 0
         /\ UNCHANGED <<missing, requested, worker, faults>>
<1> DEFINE new == {b} \X S
<1>1. /\ b \in Parent /\ b \in Task /\ status[b] = NoRow /\ S # {}
      /\ \A t \in Task : status'[t] = IF t = b THEN WaitingChildren
                                      ELSE IF t \in new THEN Pending ELSE status[t]
      /\ UNCHANGED <<missing, requested, worker, faults>>
  BY Families DEF EnqueueStrmWebhookBatch
<1>2. \A p \in Parent : \A k \in ChildrenOf(p) : k \in new <=> p = b /\ k[2] \in S
  BY DEF ChildrenOf
<1> HIDE DEF new
<1>3. \A p \in Parent : \A k \in ChildrenOf(p) : k \in Task /\ k # b
  BY <1>1, FilesOf, Families
<1>4. \A k \in ChildrenOf(b) : status[k] = NoRow
  <2>1. \A k \in ChildrenOf(b) : k \in Child /\ RootOf(k) = b
    BY <1>1, FilesOf
  <2> QED
    BY <1>1, <2>1 DEF ShapeInv, RowInv
<1>5. \A k \in ChildrenOf(b) : status'[k] = IF k[2] \in S THEN Pending ELSE NoRow
  BY <1>1, <1>2, <1>3, <1>4
<1>6. PICK n \in Nat : n = Cardinality(S) /\ n > 0
  <2>1. IsFiniteSet(S)
    BY TaskAssumption, FS_Subset
  <2> QED
    BY <1>1, <2>1, FS_EmptySet, FS_CardinalityType
<1>7. /\ items'[b] = [items[b] EXCEPT !.total = n]
      /\ \A p \in Parent \ {b} : items'[p] = items[p]
      /\ items[b] \in Items /\ Processed(items[b]) = 0
  BY <1>1, <1>6 DEF EnqueueStrmWebhookBatch, ShapeInv, RowInv, DueInv
<1>8. /\ items'[b].total = n /\ Processed(items'[b]) = 0 /\ items'[b].failed = 0
  BY <1>7 DEF Items, Processed
<1>9. ASSUME NEW p \in Parent \ {b}
      PROVE  /\ status'[p] = status[p] /\ items'[p] = items[p]
             /\ \A k \in ChildrenOf(p) : status'[k] = status[k]
  <2>1. p \in Task /\ p \notin new
    BY <1>1, Families DEF new, Child
  <2> QED
    BY <1>1, <1>2, <1>3, <1>7, <2>1
<1> QED
  BY <1>1, <1>4, <1>5, <1>6, <1>8, <1>9

\* The rows of a batch.
LEMMA BatchNumbers ==
  ASSUME NEW st, NEW b \in Parent, NEW S \in SUBSET File,
         \A k \in ChildrenOf(b) : st[k] = IF k[2] \in S THEN Pending ELSE NoRow
  PROVE  /\ Number(st, b, Rows) = Cardinality(S)
         /\ Number(st, b, Counted) = 0
         /\ Number(st, b, {Failed}) = 0
<1>1. \A k \in ChildrenOf(b) : st[k] \in Rows <=> k[2] \in S
  BY Distinct DEF Rows
<1>2. {k \in ChildrenOf(b) : st[k] \in Rows} = {k \in ChildrenOf(b) : k[2] \in S}
  BY <1>1
<1>3. Number(st, b, Rows) = Cardinality(S)
  BY <1>2, FilesCounted DEF Number
<1>4. {k \in ChildrenOf(b) : st[k] \in Counted} = {} /\ {k \in ChildrenOf(b) : st[k] \in {Failed}} = {}
  BY Distinct, CountedNames
<1>5. Cardinality({}) = 0
  BY FS_EmptySet
<1> QED
  BY <1>3, <1>4, <1>5 DEF Number

\* A child of a scan is made.
LEMMA ChildFacts ==
  ASSUME ShapeInv, NEW f \in File, EnqueueChild(f)
  PROVE  \E s \in Scan, t \in Child :
           /\ s = worker.task /\ s \in Parent /\ status[s] = Running /\ worker.pc = "expand"
           /\ t = <<s, f>> /\ t \in ChildrenOf(s) /\ t \in Task /\ f \in worker.left
           /\ worker'.pc = "expand" /\ worker'.task = s /\ worker'.left = worker.left \ {f}
           /\ worker'.total = worker.total + 1 /\ worker'.batch = worker.batch
           /\ \A u \in Task \ {t} : status'[u] = status[u]
           /\ status'[t] = IF status[t] \in Active THEN status[t] ELSE Pending
           /\ UNCHANGED <<items, missing, requested, faults>>
<1>1. /\ worker.pc = "expand" /\ worker.task \in Scan /\ status[worker.task] = Running
      /\ worker \in Worker0 /\ f \in worker.left
  BY DEF EnqueueChild, At, ShapeInv, WorkerInv
<1>2. PICK s \in Scan : s = worker.task
  BY <1>1
<1>3. PICK t \in Child : t = <<s, f>>
  BY Families DEF Child
<1>4. s \in Parent /\ t \in ChildrenOf(s) /\ t \in Task
  BY <1>3, Families DEF ChildrenOf
<1>5. /\ worker' = [worker EXCEPT !.left = worker.left \ {f}, !.total = worker.total + 1]
      /\ UNCHANGED <<items, missing, requested, faults>>
      /\ IF status[t] \in Active THEN UNCHANGED status ELSE status' = [status EXCEPT ![t] = Pending]
  BY <1>2, <1>3 DEF EnqueueChild, Current
<1>6. /\ worker'.pc = "expand" /\ worker'.task = s /\ worker'.left = worker.left \ {f}
      /\ worker'.total = worker.total + 1 /\ worker'.batch = worker.batch
  BY <1>1, <1>2, <1>5 DEF Worker0
<1>7. /\ \A u \in Task \ {t} : status'[u] = status[u]
      /\ status'[t] = IF status[t] \in Active THEN status[t] ELSE Pending
  BY <1>4, <1>5 DEF ShapeInv, RowInv
<1> WITNESS s \in Scan, t \in Child
<1> QED
  BY <1>1, <1>2, <1>3, <1>4, <1>5, <1>6, <1>7

\* An expansion ends.
LEMMA ExpandedFacts ==
  ASSUME ShapeInv, MarkDirectoryScanExpanded
  PROVE  \E p \in Scan :
           /\ p = worker.task /\ p \in Parent /\ p \in Task /\ status[p] = Running
           /\ worker.pc = "expand" /\ worker.left = {} /\ worker.total \in Nat
           /\ status'[p] = IF worker.total = 0 THEN Completed ELSE WaitingChildren
           /\ \A u \in Task \ {p} : status'[u] = status[u]
           /\ items'[p].total = worker.total /\ items'[p].failed = 0
           /\ Processed(items'[p]) = 0
           /\ \A u \in Parent \ {p} : items'[u] = items[u]
           /\ worker'.pc \in {"select", "next"} /\ worker'.batch = worker.batch
           /\ UNCHANGED <<missing, requested, faults>>
<1> DEFINE v == [NoItems EXCEPT !.total = worker.total, !.submitted = items[Current].submitted]
<1>1. /\ worker.pc = "expand" /\ Current \in Scan /\ worker \in Worker0 /\ Continue
      /\ status[Current] = Running /\ worker.left = {}
      /\ items' = [items EXCEPT ![Current] = v]
      /\ status' = [status EXCEPT ![Current] = IF worker.total = 0 THEN Completed ELSE WaitingChildren]
      /\ UNCHANGED <<missing, requested, faults>>
  BY DEF MarkDirectoryScanExpanded, At, ShapeInv, WorkerInv, Current
<1>2. v.total = worker.total /\ Processed(v) = 0 /\ v.failed = 0
  BY DEF NoItems, Processed
<1> HIDE DEF v
<1>3. PICK p \in Scan : p = Current
  BY <1>1
<1>4. p \in Parent /\ p \in Task /\ worker.total \in Nat
  BY <1>1, Families DEF Worker0
<1>5. PICK x : x = IF worker.total = 0 THEN Completed ELSE WaitingChildren
  OBVIOUS
<1>6. /\ status'[p] = x /\ \A u \in Task \ {p} : status'[u] = status[u]
      /\ items'[p] = v /\ \A u \in Parent \ {p} : items'[u] = items[u]
  <2>1. items' = [items EXCEPT ![p] = v] /\ status' = [status EXCEPT ![p] = x]
    BY <1>1, <1>3, <1>5
  <2> QED
    BY <1>4, <2>1 DEF ShapeInv, RowInv
<1>7. worker'.pc \in {"select", "next"} /\ worker'.batch = worker.batch
  BY <1>1, ContinueWorker
<1> WITNESS p \in Scan
<1> QED
  BY <1>1, <1>2, <1>3, <1>4, <1>5, <1>6, <1>7 DEF Current

LEMMA LateBatch ==
  ASSUME ShapeInv, DueInv, LateInv, Typed(status'),
         NEW b \in Bundle, NEW S \in SUBSET File, EnqueueStrmWebhookBatch(b, S)
  PROVE  LateInv'
<1>0. Typed(status)
  BY DEF Typed, ShapeInv, RowInv
<1>1. /\ b \in Parent /\ b \in Task /\ status[b] = NoRow /\ status'[b] = WaitingChildren
      /\ \A k \in ChildrenOf(b) : status'[k] = IF k[2] \in S THEN Pending ELSE NoRow
      /\ \A p \in Parent \ {b} : /\ status'[p] = status[p] /\ items'[p] = items[p]
                                 /\ \A k \in ChildrenOf(p) : status'[k] = status[k]
      /\ items'[b].total = Cardinality(S) /\ items'[b].failed = 0
      /\ Processed(items'[b]) = 0
      /\ UNCHANGED <<missing, requested, worker, faults>>
  BY BatchFacts
<1>2. PICK st, it : st = status' /\ it = items'
  OBVIOUS
<1>3. LateOf(st, it, b)
  <2>1. Number(st, b, Rows) = Cardinality(S) /\ Number(st, b, Counted) = 0
    BY <1>1, <1>2, BatchNumbers
  <2>2. \A k \in ChildrenOf(b) : st[k] # Failed
    BY <1>1, <1>2, Distinct
  <2> QED
    BY <1>1, <1>2, <2>1, <2>2, Distinct DEF LateOf
<1>4. ASSUME NEW p \in Parent \ {b}
      PROVE  LateOf(st, it, p)
  <2>1. LateOf(status, items, p)
    BY DEF LateInv
  <2>2. /\ st[p] = status[p] /\ it[p] = items[p] /\ \A k \in ChildrenOf(p) : st[k] = status[k]
        /\ Typed(st)
    BY <1>1, <1>2
  <2> QED
    BY <1>0, <2>1, <2>2, LateSame
<1>5. \A s \in Scan : s \in Parent \ {b}
  BY Families
<1>6. Listed'
  <2>1. \A s \in Scan : \A k \in ChildrenOf(s) : status'[k] = status[k]
    BY <1>1, <1>5
  <2>2. ASSUME worker.pc = "expand"
        PROVE  \E L \in Listings[worker.task] :
                 /\ worker.left \subseteq L
                 /\ worker.total = Cardinality(L \ worker.left)
                 /\ \A f \in L \ worker.left : status'[<<worker.task, f>>] \in Active
    <3>1. worker.task \in Scan
      BY <2>2 DEF ShapeInv, WorkerInv
    <3>2. PICK L \in Listings[worker.task] :
                 /\ worker.left \subseteq L
                 /\ worker.total = Cardinality(L \ worker.left)
                 /\ \A f \in L \ worker.left : status[<<worker.task, f>>] \in Active
      BY <2>2 DEF LateInv, Listed
    <3>3. L \subseteq File
      BY <3>1, TaskAssumption
    <3>4. \A f \in L : <<worker.task, f>> \in ChildrenOf(worker.task)
      BY <3>3 DEF ChildrenOf
    <3> QED
      BY <2>1, <3>1, <3>2, <3>4
  <2> QED
    BY <1>1, <2>1, <2>2 DEF LateInv, Listed
<1>7. Asked'
  <2>1. \A p \in requested : p \in Parent /\ (PathOf[p] \in missing \/ status[p] = Completed)
    BY DEF LateInv, Asked, ShapeInv, MarkInv
  <2> QED
    BY <1>1, <2>1, Distinct DEF Asked
<1> QED
  BY <1>2, <1>3, <1>4, <1>6, <1>7 DEF LateInv

LEMMA LateChild ==
  ASSUME SameListing, ShapeInv, LateInv, Typed(status'), NEW f \in File, EnqueueChild(f)
  PROVE  LateInv'
<1>0. Typed(status)
  BY DEF Typed, ShapeInv, RowInv
<1>1. PICK s \in Scan, t \in Child :
           /\ s = worker.task /\ s \in Parent /\ status[s] = Running /\ worker.pc = "expand"
           /\ t = <<s, f>> /\ t \in ChildrenOf(s) /\ t \in Task /\ f \in worker.left
           /\ worker'.pc = "expand" /\ worker'.task = s /\ worker'.left = worker.left \ {f}
           /\ worker'.total = worker.total + 1 /\ worker'.batch = worker.batch
           /\ \A u \in Task \ {t} : status'[u] = status[u]
           /\ status'[t] = IF status[t] \in Active THEN status[t] ELSE Pending
           /\ UNCHANGED <<items, missing, requested, faults>>
  BY ChildFacts
<1>2. \A p \in Parent : p \in Task /\ p # t
  BY Families
<1>3. status'[t] \in Active
  BY <1>1, StatusNames
<1>4. ASSUME NEW p \in Parent
      PROVE  LateOf(status', items', p)
  <2>1. CASE p = s
    <3>1. status'[p] = Running
      BY <1>1, <1>2, <2>1
    <3> QED
      BY <3>1, Distinct DEF LateOf
  <2>2. CASE p # s
    <3>1. \A k \in ChildrenOf(p) : status'[k] = status[k]
      <4>1. \A k \in ChildrenOf(p) : k \in Task /\ RootOf(k) = p
        BY FilesOf, Families
      <4>2. RootOf(t) = s
        BY <1>1, FilesOf
      <4> QED
        BY <1>1, <2>2, <4>1, <4>2
    <3>2. LateOf(status, items, p)
      BY DEF LateInv
    <3>3. PICK st, it : st = status' /\ it = items'
      OBVIOUS
    <3>4. Typed(st) /\ st[p] = status[p] /\ it = items /\ \A k \in ChildrenOf(p) : st[k] = status[k]
      BY <1>1, <1>2, <3>1, <3>3
    <3>5. LateOf(st, it, p)
      BY <1>0, <3>2, <3>4, LateSame
    <3> QED
      BY <3>3, <3>5
  <2> QED
    BY <2>1, <2>2
<1>5. PICK L \in Listings[s] :
             /\ worker.left \subseteq L
             /\ worker.total = Cardinality(L \ worker.left)
             /\ \A g \in L \ worker.left : status[<<s, g>>] \in Active
  BY <1>1 DEF LateInv, Listed
<1>6. L \in SUBSET File /\ f \in L
  BY <1>1, <1>5, TaskAssumption
<1>7. \A u \in Scan : \A k \in ChildrenOf(u) : status'[k] # NoRow => \A M \in Listings[u] : k[2] \in M
  <2>1. ASSUME NEW u \in Scan, NEW k \in ChildrenOf(u), status'[k] # NoRow, NEW M \in Listings[u]
        PROVE  k[2] \in M
    <3>1. CASE k = t
      <4>1. RootOf(k) = u /\ RootOf(t) = s
        BY <1>1, FilesOf, Families
      <4>2. u = s /\ k[2] = f
        BY <1>1, <3>1, <4>1
      <4>3. M = L
        BY <4>2 DEF SameListing
      <4> QED
        BY <1>6, <4>2, <4>3
    <3>2. CASE k # t
      <4>1. k \in Task
        BY FilesOf, Families
      <4> QED
        BY <1>1, <2>1, <3>2, <4>1 DEF LateInv, Listed
    <3> QED
      BY <3>1, <3>2
  <2> QED
    BY <2>1
<1>8. /\ worker'.left \subseteq L
      /\ worker'.total = Cardinality(L \ worker'.left)
      /\ \A g \in L \ worker'.left : status'[<<s, g>>] \in Active
  <2>1. L \ worker'.left = (L \ worker.left) \cup {f}
    BY <1>1, <1>6
  <2>2. IsFiniteSet(L \ worker.left) /\ f \notin L \ worker.left
    <3>1. L \ worker.left \in SUBSET File
      BY <1>6
    <3> QED
      BY <1>1, <3>1, TaskAssumption, FS_Subset
  <2>3. PICK X : X = L \ worker.left
    OBVIOUS
  <2>4. Cardinality(X \cup {f}) = Cardinality(X) + 1
    BY <2>2, <2>3, FS_AddElement
  <2>5. \A g \in L \ worker'.left : status'[<<s, g>>] \in Active
    <3>1. ASSUME NEW g \in L, g \notin worker.left, g # f
          PROVE  status'[<<s, g>>] \in Active
      <4>1. PICK k : k = <<s, g>>
        OBVIOUS
      <4>2. k \in Task /\ k # t
        BY <1>1, <1>6, <3>1, <4>1, Families DEF Child
      <4> QED
        BY <1>1, <1>5, <3>1, <4>1, <4>2
    <3> QED
      BY <1>1, <1>3, <2>1, <3>1
  <2> QED
    BY <1>1, <1>5, <2>1, <2>3, <2>4, <2>5
<1>9. Listed'
  BY <1>1, <1>5, <1>7, <1>8 DEF Listed
<1>10. Asked'
  <2>1. \A p \in requested : p \in Parent /\ (PathOf[p] \in missing \/ status[p] = Completed)
    BY DEF LateInv, Asked, ShapeInv, MarkInv
  <2> QED
    BY <1>1, <1>2, <2>1 DEF Asked
<1> QED
  BY <1>4, <1>9, <1>10 DEF LateInv

LEMMA LateExpanded ==
  ASSUME ShapeInv, LateInv, Typed(status'), MarkDirectoryScanExpanded
  PROVE  LateInv'
<1>0. Typed(status)
  BY DEF Typed, ShapeInv, RowInv
<1>1. PICK p \in Scan :
           /\ p = worker.task /\ p \in Parent /\ p \in Task /\ status[p] = Running
           /\ worker.pc = "expand" /\ worker.left = {} /\ worker.total \in Nat
           /\ status'[p] = IF worker.total = 0 THEN Completed ELSE WaitingChildren
           /\ \A u \in Task \ {p} : status'[u] = status[u]
           /\ items'[p].total = worker.total /\ items'[p].failed = 0
           /\ Processed(items'[p]) = 0
           /\ \A u \in Parent \ {p} : items'[u] = items[u]
           /\ worker'.pc \in {"select", "next"} /\ worker'.batch = worker.batch
           /\ UNCHANGED <<missing, requested, faults>>
  BY ExpandedFacts
<1>2. PICK L \in Listings[p] :
             /\ worker.total = Cardinality(L)
             /\ \A f \in L : status[<<p, f>>] \in Active
  <2>1. PICK L \in Listings[p] :
             /\ worker.left \subseteq L
             /\ worker.total = Cardinality(L \ worker.left)
             /\ \A f \in L \ worker.left : status[<<p, f>>] \in Active
    BY <1>1 DEF LateInv, Listed
  <2>2. L \ worker.left = L
    BY <1>1
  <2> QED
    BY <2>1, <2>2
<1>3. L \in SUBSET File
  BY <1>1, TaskAssumption
<1>4. \A u \in Parent : \A k \in ChildrenOf(u) : status'[k] = status[k]
  <2>1. \A u \in Parent : \A k \in ChildrenOf(u) : k \in Task /\ k # p
    BY <1>1, FilesOf, Families
  <2> QED
    BY <1>1, <2>1
<1>5. PICK st, it : st = status' /\ it = items'
  OBVIOUS
<1>6. \A k \in ChildrenOf(p) : /\ st[k] \in Rows <=> k[2] \in L
                               /\ k[2] \in L => st[k] \in Active
  <2>1. ASSUME NEW k \in ChildrenOf(p)
        PROVE  /\ st[k] \in Rows <=> k[2] \in L
               /\ k[2] \in L => st[k] \in Active
    <3>1. st[k] = status[k] /\ (status[k] # NoRow <=> status[k] \in Rows)
      BY <1>0, <1>1, <1>4, <1>5, RowsOf DEF Typed
    <3>2. k = <<p, k[2]>>
      BY <1>1, FilesOf DEF ChildrenOf
    <3>3. k[2] \in L => status[k] \in Active
      BY <1>2, <3>2
    <3>4. k[2] \in L => status[k] # NoRow
      BY <3>3, StatusNames, Distinct
    <3>5. status[k] # NoRow => k[2] \in L
      BY DEF LateInv, Listed
    <3> QED
      BY <3>1, <3>3, <3>4, <3>5
  <2> QED
    BY <2>1
<1>7. LateOf(st, it, p)
  <2>1. {k \in ChildrenOf(p) : st[k] \in Rows} = {k \in ChildrenOf(p) : k[2] \in L}
    BY <1>6
  <2>2. Number(st, p, Rows) = Cardinality(L)
    BY <1>1, <1>3, <2>1, FilesCounted DEF Number
  <2>3. Number(st, p, Counted) \in Nat
    BY <1>1, NumberBound
  <2>4. \A k \in ChildrenOf(p) : st[k] # Failed
    <3>1. ASSUME NEW k \in ChildrenOf(p), st[k] = Failed
          PROVE  FALSE
      <4>1. st[k] \in Rows
        BY <3>1 DEF Rows
      <4>2. st[k] \in Active
        BY <1>6, <4>1
      <4> QED
        BY <3>1, <4>2, StatusNames, Distinct
    <3> QED
      BY <3>1
  <2>5. ASSUME st[p] = Completed
        PROVE  \A k \in ChildrenOf(p) : st[k] = NoRow
    <3>1. Cardinality(L) = 0
      BY <1>1, <1>2, <1>5, <2>5, Distinct
    <3>2. L = {}
      <4>1. IsFiniteSet(L)
        BY <1>3, TaskAssumption, FS_Subset
      <4> QED
        BY <3>1, <4>1, FS_EmptySet
    <3>3. \A k \in ChildrenOf(p) : st[k] \notin Rows
      BY <1>6, <3>2
    <3>4. \A k \in ChildrenOf(p) : st[k] # NoRow <=> st[k] \in Rows
      BY <1>1, <1>5, RowsOf DEF Typed
    <3> QED
      BY <3>3, <3>4
  <2> QED
    BY <1>1, <1>2, <1>5, <2>2, <2>3, <2>4, <2>5 DEF LateOf
<1>8. ASSUME NEW u \in Parent \ {p}
      PROVE  LateOf(st, it, u)
  <2>1. LateOf(status, items, u)
    BY DEF LateInv
  <2>2. /\ st[u] = status[u] /\ it[u] = items[u] /\ \A k \in ChildrenOf(u) : st[k] = status[k]
        /\ Typed(st)
    BY <1>1, <1>4, <1>5, Families
  <2> QED
    BY <1>0, <2>1, <2>2, LateSame
<1>9. Listed'
  <2>1. \A s \in Scan : s \in Parent
    BY Families
  <2>2. worker'.pc # "expand"
    BY <1>1
  <2> QED
    BY <1>4, <2>1, <2>2 DEF LateInv, Listed
<1>10. Asked'
  <2>1. \A u \in requested : u \in Task /\ (PathOf[u] \in missing \/ status[u] = Completed)
    BY Families DEF LateInv, Asked, ShapeInv, MarkInv
  <2> QED
    BY <1>1, <2>1, Distinct DEF Asked
<1> QED
  BY <1>5, <1>7, <1>8, <1>9, <1>10 DEF LateInv

LEMMA InitLate ==
  ASSUME Init
  PROVE  LateInv
<1>1. /\ \A p \in Parent : status[p] = NoRow
      /\ \A k \in Child : status[k] = NoRow
      /\ requested = {} /\ worker.pc = "down"
  BY Families DEF Init, Down
<1>2. \A p \in Parent : LateOf(status, items, p)
  BY <1>1, Distinct DEF LateOf
<1>3. Listed
  BY <1>1, FilesOf, Families DEF Listed
<1> QED
  BY <1>1, <1>2, <1>3 DEF LateInv, Asked

LEMMA StepLate ==
  ASSUME SameListing, ShapeInv, DueInv, LateInv, [Next]_vars
  PROVE  LateInv'
<1>1. Typed(status')
  BY StepShape DEF ShapeInv, RowInv, Typed
<1> QED
  BY <1>1, GentleOrNot, LateGentle, LateBatch, LateRetire, LateRecord, LateChild, LateExpanded

LEMMA LateConsequence ==
  ASSUME ShapeInv, LateInv
  PROVE  RefreshAfterLastChild
<1>1. ASSUME NEW p \in requested, NEW k \in Existing(p), PathOf[p] \notin missing
      PROVE  status[k] \in {Finalizing, Completed, Skipped}
  <2>1. status[p] = Completed /\ LateOf(status, items, p)
    BY <1>1 DEF LateInv, Asked, ShapeInv, MarkInv
  <2>2. k \in ChildrenOf(p) /\ status[k] # NoRow
    BY DEF Existing
  <2>3. status[k] \in Counted /\ status[k] # Failed
    BY <2>1, <2>2 DEF LateOf
  <2> QED
    BY <2>3, CountedNames
<1> QED
  BY <1>1 DEF RefreshAfterLastChild

\* As long as the listing of a directory does not change, Emby is asked to
\* refresh for a parent only when each of its children has been generated or
\* skipped: no matter how often an expansion is cut off and repeated, which
\* finalizations fail, and what is deleted.
THEOREM RefreshComesLast ==
  ASSUME SameListing
  PROVE  Spec => []RefreshAfterLastChild
<1>1. Init => ShapeInv /\ DueInv /\ LateInv
  BY InitShape, InitDue, InitLate
<1>2. ShapeInv /\ DueInv /\ LateInv /\ [Next]_vars => (ShapeInv /\ DueInv /\ LateInv)'
  BY StepShape, StepDue, StepLate
<1>3. ShapeInv /\ LateInv => RefreshAfterLastChild
  BY LateConsequence
<1> QED
  BY <1>1, <1>2, <1>3, PTL DEF Spec

-----------------------------------------------------------------------------
(* The counters of a parent, while no scan is expanded a second time.      *)

\* What a parent has been told is what happened.
CountOf(st, it, p) ==
  /\ Processed(it[p]) = Number(st, p, Counted)
  /\ st[p] = WaitingChildren =>
       /\ it[p].total = Number(st, p, Rows)
       /\ it[p].failed = Number(st, p, {Failed})
       /\ it[p].total > Number(st, p, Counted)
  /\ it[p].total <= Cardinality(File)

\* A scan that has not been expanded has no children; the expansion finds none
\* but those it made.
Unexpanded ==
  \A s \in Scan : status[s] \in {NoRow, Pending} \/ (worker.pc = "work" /\ worker.task = s) =>
    \A k \in ChildrenOf(s) : status[k] = NoRow

Expanding ==
  worker.pc = "expand" =>
    /\ worker.total = Number(status, worker.task, Rows)
    /\ \A k \in ChildrenOf(worker.task) :
         status[k] = NoRow \/ (status[k] = Pending /\ k[2] \notin worker.left)

NoScanAtDown == worker.pc = "down" => \A s \in Scan : status[s] # Running

\* What the batch brought is not running yet.
Fresh == \A t \in ToSet(worker.batch) : status[t] # Running

CountInv ==
  /\ \A k \in Child : status[k] # WaitingChildren
  /\ Fresh
  /\ faults \in [crash : Nat, save : Nat, finish : Nat]
  /\ \A p \in Parent : p \in Bundle \/ faults.crash = 0 => CountOf(status, items, p)
  /\ faults.crash = 0 => Unexpanded /\ Expanding /\ NoScanAtDown

LEMMA StepFresh ==
  ASSUME ShapeInv, Fresh, [Next]_vars
  PROVE  Fresh'
<1>1. CASE Begin
  <2> DEFINE h == Head(worker.batch)
  <2>1. worker.batch # << >> /\ worker.batch \in Seq(Task) /\ Once(worker.batch)
    BY <1>1 DEF Begin, At, ShapeInv, WorkerInv, Worker0
  <2>2. h \in Task /\ ToSet(Tail(worker.batch)) = ToSet(worker.batch) \ {h}
    BY <2>1, HeadOnce
  <2>3. /\ worker'.batch = Tail(worker.batch)
        /\ status' = IF status[h] = Finalizing THEN status ELSE [status EXCEPT ![h] = Running]
    BY <1>1 DEF Begin, ShapeInv, WorkerInv, Worker0
  <2> HIDE DEF h
  <2>4. \A u \in Task \ {h} : status'[u] = status[u]
    BY <2>3 DEF ShapeInv, RowInv
  <2>5. ToSet(worker.batch) \subseteq Task
    BY DEF ShapeInv, WorkerInv, Open
  <2> QED
    BY <2>2, <2>3, <2>4, <2>5 DEF Fresh
<1>2. CASE Select
  <2>1. UNCHANGED status /\ worker'.batch = SelectGenerationTasks
    BY <1>2 DEF Select, Down
  <2>2. \A t \in ToSet(SelectGenerationTasks) : status[t] # Running
    BY SelectionProperties, Distinct DEF Claimable
  <2> QED
    BY <2>1, <2>2 DEF Fresh
<1>3. CASE NoneBegins /\ BatchKept
  <2>1. CASE worker'.batch = << >>
    BY <2>1, EmptyOnce DEF Fresh
  <2>2. CASE worker'.batch = worker.batch
    <3>1. ToSet(worker.batch) \subseteq Task
      BY DEF ShapeInv, WorkerInv, Open
    <3> QED
      BY <1>3, <2>2, <3>1 DEF Fresh, NoneBegins
  <2> QED
    BY <1>3, <2>1, <2>2 DEF BatchKept
<1>4. CASE UNCHANGED vars
  BY <1>4 DEF vars, Fresh
<1> QED
  BY <1>1, <1>2, <1>3, <1>4, Steps, RequestsKeepBatch, AbandonsKeepBatch, GoingOnKeepsBatch,
     WorkKeepsBatch

\* How a scan comes to wait for its expansion.
LEMMA ScanStatus ==
  ASSUME ShapeInv, GentleStep, NEW s \in Scan, status'[s] \in {NoRow, Pending}
  PROVE  \/ status[s] \in {NoRow, Pending}
         \/ worker.pc = "work" /\ worker.task = s
         \/ Boot
<1>0. status \in [Task -> Status \cup {NoRow}] /\ s \in Task
  BY Families DEF ShapeInv, RowInv
<1>1. ASSUME NEW t, NEW x, status' = [status EXCEPT ![t] = x],
             x \in {NoRow, Pending} => t # s
      PROVE  status[s] \in {NoRow, Pending}
  BY <1>0, <1>1
<1>2. ASSUME NEW t \in Scan \cup Single, EnqueueStrmGenerationTask(t)
      PROVE  status[s] \in {NoRow, Pending}
  BY <1>0, <1>2 DEF EnqueueStrmGenerationTask
<1>3. CASE \/ (\E q \in SyncPath : DeleteSyncPathByID(q)) \/ (\E t \in Task : BackoffElapses(t))
           \/ BootWithoutReset \/ Crash \/ SaveError \/ Select \/ StartExpand \/ SubmitRefresh
           \/ MarkRefreshSubmitted \/ UNCHANGED vars
  BY <1>3 DEF DeleteSyncPathByID, BackoffElapses, BootWithoutReset, Crash, SaveError, Select,
              StartExpand, SubmitRefresh, MarkRefreshSubmitted, vars
<1>4. CASE Begin
  <2>1. UNCHANGED status \/ status' = [status EXCEPT ![Head(worker.batch)] = Running]
    BY <1>4 DEF Begin
  <2> QED
    BY <1>0, <2>1, Distinct
<1>5. CASE Current \notin Child /\ ((\E changed \in BOOLEAN : Generate(changed)) \/ Skip \/ Fail)
  <2>1. \/ UNCHANGED status
        \/ status' = [status EXCEPT ![Current] = Finalizing]
        \/ status' = [status EXCEPT ![Current] = Failed]
    BY <1>5 DEF Generate, Skip, Fail
  <2> QED
    BY <1>0, <2>1, Distinct
<1>6. CASE ExpandFails \/ MarkCompleted \/ FinishFails
  <2>1. \/ UNCHANGED status
        \/ \E x \in {Failed, Skipped, Completed} : status' = [status EXCEPT ![Current] = x]
    BY <1>6 DEF ExpandFails, MarkCompleted, Complete, FinishFails
  <2> QED
    BY <1>0, <2>1, Distinct
<1>7. CASE DependencyWait \/ DependencyCheckFails
  <2>1. status' = [status EXCEPT ![Current] = Pending] /\ worker.pc = "work"
    BY <1>7 DEF DependencyWait, DependencyCheckFails, Working, At
  <2> QED
    BY <1>0, <2>1 DEF Current
<1> QED
  BY <1>2, <1>3, <1>4, <1>5, <1>6, <1>7 DEF GentleStep

\* How the worker comes to work on a task.
LEMMA WorkStarts ==
  ASSUME ShapeInv, Fresh, GentleStep, worker'.pc = "work"
  PROVE  UNCHANGED worker \/ status[worker'.task] = Pending
<1>1. worker \in Worker0
  BY DEF ShapeInv, WorkerInv
<1>2. ASSUME \/ \E t \in Scan \cup Single : EnqueueStrmGenerationTask(t)
             \/ (\E q \in SyncPath : DeleteSyncPathByID(q)) \/ (\E t \in Task : BackoffElapses(t))
             \/ UNCHANGED vars
      PROVE  UNCHANGED worker
  BY <1>2 DEF EnqueueStrmGenerationTask, DeleteSyncPathByID, BackoffElapses, vars
<1>3. ~(Boot \/ BootWithoutReset \/ Crash \/ SaveError \/ DependencyCheckFails \/ FinishFails \/ Select)
  <2>1. Boot \/ BootWithoutReset \/ Crash \/ SaveError \/ DependencyCheckFails \/ FinishFails =>
          worker'.pc \in {"select", "down"}
    BY AbandonWorker DEF Boot, BootWithoutReset, Crash, SaveError, DependencyCheckFails, FinishFails, Abandon
  <2>2. Select => worker'.pc = "next"
    BY DEF Select, Down
  <2> QED
    BY <2>1, <2>2
<1>4. ~(Fail \/ DependencyWait \/ ExpandFails \/ MarkCompleted)
  <2>1. Fail \/ DependencyWait \/ ExpandFails \/ MarkCompleted => Continue
    BY DEF Fail, DependencyWait, ExpandFails, MarkCompleted, Complete
  <2>2. Continue => worker'.pc \in {"select", "next"}
    BY <1>1, ContinueWorker
  <2> QED
    BY <2>1, <2>2
<1>5. ~((\E changed \in BOOLEAN : Generate(changed)) \/ Skip \/ SubmitRefresh \/ MarkRefreshSubmitted
        \/ StartExpand)
  BY <1>1 DEF Generate, Skip, SubmitRefresh, MarkRefreshSubmitted, StartExpand, Go, Worker0
<1>6. CASE Begin
  <2>1. worker.batch # << >> /\ worker.batch \in Seq(Task) /\ Once(worker.batch)
    BY <1>6 DEF Begin, At, ShapeInv, WorkerInv, Worker0
  <2>2. PICK t \in Task : t = Head(worker.batch) /\ t \in ToSet(worker.batch)
    BY <2>1, HeadOnce
  <2>3. status[t] # Finalizing /\ worker'.task = t
    BY <1>1, <1>6, <2>2 DEF Begin, Worker0
  <2>4. t \in Open(status) /\ status[t] # Running
    BY <2>2 DEF Fresh, ShapeInv, WorkerInv
  <2> QED
    BY <2>3, <2>4 DEF Open
<1> QED
  BY <1>2, <1>3, <1>4, <1>5, <1>6 DEF GentleStep

LEMMA DownStays ==
  ASSUME ShapeInv, GentleStep, worker'.pc = "down"
  PROVE  Crash \/ (UNCHANGED worker /\ NoneBegins)
<1>1. worker \in Worker0
  BY DEF ShapeInv, WorkerInv
<1>2. CASE \/ \E t \in Scan \cup Single : EnqueueStrmGenerationTask(t)
           \/ (\E q \in SyncPath : DeleteSyncPathByID(q)) \/ (\E t \in Task : BackoffElapses(t))
  <2>1. NoneBegins
    BY <1>2, RequestsKeepBatch
  <2>2. UNCHANGED worker
    BY <1>2 DEF EnqueueStrmGenerationTask, DeleteSyncPathByID, BackoffElapses
  <2> QED
    BY <2>1, <2>2
<1>3. CASE UNCHANGED vars
  BY <1>3 DEF vars, NoneBegins
<1>4. ~(Boot \/ BootWithoutReset \/ SaveError \/ DependencyCheckFails \/ FinishFails)
  <2>1. Boot \/ BootWithoutReset \/ SaveError \/ DependencyCheckFails \/ FinishFails =>
          worker' = [Down EXCEPT !.pc = "select"]
    BY DEF Boot, BootWithoutReset, SaveError, DependencyCheckFails, FinishFails, Abandon
  <2> QED
    BY <2>1 DEF Down
<1>5. ~Select
  BY DEF Select, Down
<1>6. ~(Fail \/ DependencyWait \/ ExpandFails \/ MarkCompleted)
  <2>1. Fail \/ DependencyWait \/ ExpandFails \/ MarkCompleted => Continue
    BY DEF Fail, DependencyWait, ExpandFails, MarkCompleted, Complete
  <2>2. Continue => worker'.pc \in {"select", "next"}
    BY <1>1, ContinueWorker
  <2> QED
    BY <2>1, <2>2
<1>7. ~(Begin \/ (\E changed \in BOOLEAN : Generate(changed)) \/ Skip \/ SubmitRefresh
        \/ MarkRefreshSubmitted \/ StartExpand)
  BY <1>1 DEF Begin, Generate, Skip, SubmitRefresh, MarkRefreshSubmitted, StartExpand, Go, Worker0
<1> QED
  BY <1>2, <1>3, <1>4, <1>5, <1>6, <1>7 DEF GentleStep

LEMMA CountSame ==
  ASSUME NEW st, NEW st2, NEW it, NEW it2, NEW p \in Parent,
         Typed(st), Typed(st2), CountOf(st, it, p),
         st2[p] = WaitingChildren => st[p] = WaitingChildren,
         \A k \in ChildrenOf(p) : /\ st2[k] \in Counted <=> st[k] \in Counted
                                  /\ st2[k] = Failed <=> st[k] = Failed
                                  /\ st2[k] = NoRow <=> st[k] = NoRow,
         it2[p].total = it[p].total,
         it2[p].failed = it[p].failed,
         Processed(it2[p]) = Processed(it[p])
  PROVE  CountOf(st2, it2, p)
<1>1. /\ \A k \in ChildrenOf(p) : st[k] # NoRow <=> st[k] \in Rows
      /\ \A k \in ChildrenOf(p) : st2[k] # NoRow <=> st2[k] \in Rows
  BY RowsOf DEF Typed
<1>2. Number(st2, p, Counted) = Number(st, p, Counted)
  BY NumberSame
<1>3. \A k \in ChildrenOf(p) : st2[k] \in Rows <=> st[k] \in Rows
  BY <1>1
<1>4. Number(st2, p, Rows) = Number(st, p, Rows)
  BY <1>3, NumberSame
<1>5. \A k \in ChildrenOf(p) : st2[k] \in {Failed} <=> st[k] \in {Failed}
  OBVIOUS
<1>6. Number(st2, p, {Failed}) = Number(st, p, {Failed})
  BY <1>5, NumberSame
<1> QED
  BY <1>2, <1>4, <1>6 DEF CountOf

\* Only the end of the process is counted as one.
LEMMA CrashCount ==
  ASSUME faults \in [crash : Nat, save : Nat, finish : Nat], [Next]_vars
  PROVE  /\ faults' \in [crash : Nat, save : Nat, finish : Nat]
         /\ faults'.crash = 0 => faults.crash = 0 /\ ~Crash
         /\ faults'.crash = faults.crash \/ Crash
<1>1. CASE Crash
  <2>1. faults' = [faults EXCEPT !.crash = faults.crash + 1]
    BY <1>1 DEF Crash, Count
  <2> QED
    BY <1>1, <2>1
<1>2. CASE ~Crash
  <2>1. \/ faults' = faults
        \/ faults' = [faults EXCEPT !.save = faults.save + 1]
        \/ faults' = [faults EXCEPT !.finish = faults.finish + 1]
    <3>1. BootWithoutReset \/ DependencyCheckFails \/ SaveError =>
            faults' = [faults EXCEPT !.save = faults.save + 1]
      BY DEF BootWithoutReset, DependencyCheckFails, SaveError, Count
    <3>2. ExpandFails \/ FinishFails => faults' = [faults EXCEPT !.finish = faults.finish + 1]
      BY DEF ExpandFails, FinishFails, Count
    <3>3. \/ \E t \in Scan \cup Single : EnqueueStrmGenerationTask(t)
          \/ \E b \in Bundle, S \in SUBSET File : EnqueueStrmWebhookBatch(b, S)
          \/ (\E q \in SyncPath : DeleteSyncPathByID(q)) \/ (\E t \in Task : BackoffElapses(t))
          \/ Boot \/ Select \/ Begin \/ (\E changed \in BOOLEAN : Generate(changed))
          => faults' = faults
      BY DEF EnqueueStrmGenerationTask, EnqueueStrmWebhookBatch, DeleteSyncPathByID,
             BackoffElapses, Boot, Select, Begin, Generate
    <3>4. RetireMissing \/ RetireAtWork \/ RetireAtFinish => faults' = faults
      BY DEF RetireMissing, RetireAtWork, RetireAtFinish, Retire
    <3>5. Skip \/ Fail \/ DependencyWait \/ StartExpand \/ (\E f \in File : EnqueueChild(f))
          \/ MarkDirectoryScanExpanded \/ SubmitRefresh \/ MarkRefreshSubmitted \/ MarkCompleted
          \/ UNCHANGED vars => faults' = faults
      BY DEF Skip, Fail, DependencyWait, StartExpand, EnqueueChild, MarkDirectoryScanExpanded,
             SubmitRefresh, MarkRefreshSubmitted, MarkCompleted, Complete, vars
    <3> QED
      BY <1>2, <3>1, <3>2, <3>3, <3>4, <3>5, Steps
  <2> QED
    BY <1>2, <2>1
<1> QED
  BY <1>1, <1>2

\* The children that had no result are counted as failed.
LEMMA RetireCounts ==
  ASSUME ShapeInv, \A k \in Child : status[k] # WaitingChildren,
         NEW q, NEW st, Retire(q, st),
         \/ st = status
         \/ Current \in Task /\ status[Current] = Running /\ st = [status EXCEPT ![Current] = Pending],
         NEW p \in Parent
  PROVE  \E n \in Nat :
           /\ Processed(items'[p]) = Processed(items[p]) + n
           /\ items'[p].total = IF items[p].total >= Processed(items[p]) + n THEN items[p].total
                                ELSE Processed(items[p]) + n
           /\ Number(status', p, Counted) = Number(status, p, Counted) + n
<1> DEFINE hit == {t \in Task : st[t] \in Active /\ SyncPathOf(t) = q}
<1> DEFINE lost == Lost(p, q, st)
<1>1. \A t \in Task : status'[t] = IF t \in hit \/ (t \in Parent /\ hit \cap ChildrenOf(t) # {})
                                    THEN Failed ELSE st[t]
  BY DEF Retire
<1>2. \A t \in Task : \/ st[t] = status[t]
                      \/ status[t] = Running /\ st[t] = Pending
  <2>1. CASE st = status
    BY <2>1
  <2>2. CASE Current \in Task /\ status[Current] = Running /\ st = [status EXCEPT ![Current] = Pending]
    BY <2>2 DEF ShapeInv, RowInv
  <2> QED
    BY <2>1, <2>2
<1>3. \A k \in ChildrenOf(p) : k \in Child /\ k \in Task /\ k \notin Parent /\ SyncPathOf(k) = PathOf[p]
  BY FilesOf, Families
<1>4. \A k \in ChildrenOf(p) : k \in hit <=> st[k] \in Active /\ PathOf[p] = q
  BY <1>3
<1>5. \A k \in ChildrenOf(p) : k \in lost <=> st[k] \in {Pending, Running} /\ PathOf[p] = q
  BY DEF Lost
<1>6. lost \in SUBSET ChildrenOf(p)
  BY DEF Lost
<1>7. items'[p] = Add(items[p], "failed", Cardinality(lost), FALSE)
  BY DEF Retire
<1> HIDE DEF hit, lost
<1>8. \A k \in lost : status[k] \notin Counted
  BY <1>2, <1>3, <1>5, <1>6, CountedNames
<1>9. \A k \in ChildrenOf(p) : status'[k] \in Counted <=> (status[k] \in Counted \/ k \in lost)
  <2>1. ASSUME NEW k \in ChildrenOf(p)
        PROVE  status'[k] \in Counted <=> (status[k] \in Counted \/ k \in lost)
    <3>1. k \in Child /\ k \in Task /\ k \notin Parent /\ status[k] # WaitingChildren
      BY <1>3
    <3>2. st[k] # WaitingChildren
      BY <1>2, <3>1, Distinct
    <3>3. CASE k \in hit
      <4>1. status'[k] = Failed /\ st[k] \in {Pending, Running, Finalizing} /\ PathOf[p] = q
        BY <1>1, <1>4, <3>1, <3>2, <3>3, StatusNames
      <4>2. st[k] = Finalizing => status[k] = Finalizing
        BY <1>2, <3>1, Distinct
      <4> QED
        BY <1>5, <4>1, <4>2, CountedNames
    <3>4. CASE k \notin hit
      <4>1. status'[k] = st[k] /\ k \notin lost
        BY <1>1, <1>4, <1>5, <3>1, <3>4, StatusNames
      <4> QED
        BY <1>2, <3>1, <4>1, CountedNames
    <3> QED
      BY <3>3, <3>4
  <2> QED
    BY <2>1
<1>10. Cardinality(lost) \in Nat
  BY <1>6, FilesOf, FS_Subset, FS_CardinalityType
<1>11. PICK n \in Nat, old \in Items : n = Cardinality(lost) /\ old = items[p]
  BY <1>10 DEF ShapeInv, RowInv
<1>12. PICK st2 : st2 = status'
  OBVIOUS
<1>13. items'[p] = Add(old, "failed", n, FALSE)
  BY <1>7, <1>11
<1>14. /\ Processed(items'[p]) = Processed(old) + n
       /\ items'[p].total = IF old.total >= Processed(old) + n THEN old.total ELSE Processed(old) + n
  BY <1>13, AddFailures, ZenonT(40)
<1>15. Number(st2, p, Counted) = Number(status, p, Counted) + Cardinality(lost)
  BY <1>6, <1>8, <1>9, <1>12, NumberPlus
<1> QED
  BY <1>11, <1>12, <1>14, <1>15

LEMMA CountGentle ==
  ASSUME ShapeInv, DueInv, CountInv, Typed(status'), GentleStep,
         Fresh', faults' \in [crash : Nat, save : Nat, finish : Nat],
         faults'.crash = 0 => faults.crash = 0 /\ ~Crash
  PROVE  CountInv'
<1>0. Typed(status) /\ Gentle
  BY GentleSteps DEF Typed, ShapeInv, RowInv
<1>1. \A k \in Child : status'[k] # WaitingChildren
  BY <1>0 DEF Gentle, CountInv
<1>2. ASSUME NEW p \in Parent, p \in Bundle \/ faults'.crash = 0
      PROVE  CountOf(status', items', p)
  <2>1. PICK st, it : st = status' /\ it = items'
    OBVIOUS
  <2>2. CountOf(status, items, p)
    BY <1>2 DEF CountInv
  <2>3. \A k \in ChildrenOf(p) : k \in Child
    BY FilesOf
  <2>4. /\ st[p] = WaitingChildren => status[p] = WaitingChildren
        /\ it[p].total = items[p].total
        /\ it[p].failed = items[p].failed
        /\ Processed(it[p]) = Processed(items[p])
    BY <1>0, <2>1 DEF Gentle
  <2>5. \A k \in ChildrenOf(p) : /\ st[k] \in Counted <=> status[k] \in Counted
                                 /\ st[k] = Failed <=> status[k] = Failed
                                 /\ st[k] = NoRow <=> status[k] = NoRow
    BY <1>0, <2>1, <2>3 DEF Gentle
  <2>6. Typed(st)
    BY <2>1
  <2>7. CountOf(st, it, p)
    BY <1>0, <2>2, <2>4, <2>5, <2>6, CountSame
  <2> QED
    BY <2>1, <2>7
<1>3. ASSUME faults'.crash = 0
      PROVE  Unexpanded' /\ Expanding' /\ NoScanAtDown'
  <2>1. Unexpanded /\ Expanding /\ NoScanAtDown /\ ~Crash
    BY <1>3 DEF CountInv
  <2>2. \A s \in Scan : s \in Task /\ \A k \in ChildrenOf(s) : k \in Child
    BY FilesOf, Families
  <2>3. Unexpanded'
    <3>1. ASSUME NEW s \in Scan,
                 status'[s] \in {NoRow, Pending} \/ (worker'.pc = "work" /\ worker'.task = s)
          PROVE  status[s] \in {NoRow, Pending} \/ (worker.pc = "work" /\ worker.task = s)
      <4>1. CASE status'[s] \in {NoRow, Pending} /\ ~Boot
        BY <4>1, ScanStatus
      <4>2. CASE status'[s] \in {NoRow, Pending} /\ Boot
        <5>1. worker.pc = "down" /\ status'[s] = IF status[s] = Running THEN Pending ELSE status[s]
          BY <2>2, <4>2 DEF Boot, At
        <5>2. status[s] # Running
          BY <2>1, <5>1 DEF NoScanAtDown
        <5> QED
          BY <4>2, <5>1, <5>2
      <4>3. CASE worker'.pc = "work" /\ worker'.task = s
        <5>1. UNCHANGED worker \/ status[s] = Pending
          BY <4>3, WorkStarts DEF CountInv
        <5> QED
          BY <4>3, <5>1
      <4> QED
        BY <3>1, <4>1, <4>2, <4>3
    <3> QED
      BY <1>0, <2>1, <2>2, <3>1 DEF Unexpanded, Gentle
  <2>4. Expanding'
    <3>1. SUFFICES ASSUME worker'.pc = "expand"
                   PROVE  /\ worker'.total = Number(status', worker'.task, Rows)
                          /\ \A k \in ChildrenOf(worker'.task) :
                               status'[k] = NoRow \/ (status'[k] = Pending /\ k[2] \notin worker'.left)
      BY DEF Expanding
    <3>2. CASE StartExpand
      <4>1. /\ worker.pc = "work" /\ Current \in Scan /\ UNCHANGED status
            /\ \E L : worker' = [worker EXCEPT !.pc = "expand", !.left = L, !.total = 0]
        BY <3>2 DEF StartExpand, Working, At
      <4>2. worker'.total = 0 /\ worker'.task = Current
        BY <4>1 DEF ShapeInv, WorkerInv, Worker0, Current
      <4>3. \A k \in ChildrenOf(Current) : status[k] = NoRow
        BY <2>1, <4>1 DEF Unexpanded, Current
      <4>4. {k \in ChildrenOf(Current) : status[k] \in Rows} = {}
        BY <4>3, Distinct DEF Rows
      <4>5. Number(status, Current, Rows) = 0
        BY <4>4, FS_EmptySet DEF Number
      <4> QED
        BY <4>1, <4>2, <4>3, <4>5
    <3>3. CASE UNCHANGED worker /\ \A k \in Child : status'[k] = status[k]
      <4>1. worker.pc = "expand"
        BY <3>1, <3>3
      <4>2. PICK s \in Scan : s = worker.task
        BY <4>1 DEF ShapeInv, WorkerInv
      <4>3. \A k \in ChildrenOf(s) : status'[k] = status[k]
        BY <2>2, <3>3
      <4>4. PICK st : st = status'
        OBVIOUS
      <4>5. Number(st, s, Rows) = Number(status, s, Rows)
        BY <4>3, <4>4, NumberSame
      <4>6. /\ worker.total = Number(status, s, Rows)
            /\ \A k \in ChildrenOf(s) :
                 status[k] = NoRow \/ (status[k] = Pending /\ k[2] \notin worker.left)
        BY <2>1, <4>1, <4>2 DEF Expanding
      <4>7. worker'.task = s /\ worker'.total = worker.total /\ worker'.left = worker.left
        BY <3>3, <4>2
      <4> QED
        BY <4>3, <4>4, <4>5, <4>6, <4>7
    <3> QED
      BY <3>1, <3>2, <3>3, ExpandGentle
  <2>5. NoScanAtDown'
    <3>1. SUFFICES ASSUME worker'.pc = "down", NEW s \in Scan, status'[s] = Running
                   PROVE  FALSE
      BY DEF NoScanAtDown
    <3>2. UNCHANGED worker /\ NoneBegins
      BY <2>1, <3>1, DownStays
    <3>3. status[s] = Running
      BY <2>2, <3>1, <3>2 DEF NoneBegins
    <3> QED
      BY <2>1, <3>1, <3>2, <3>3 DEF NoScanAtDown
  <2> QED
    BY <2>3, <2>4, <2>5
<1> QED
  BY <1>1, <1>2, <1>3 DEF CountInv

LEMMA CountRetire ==
  ASSUME ShapeInv, DueInv, CountInv, Typed(status'), RetireMissing \/ RetireAtWork \/ RetireAtFinish,
         Fresh', faults' \in [crash : Nat, save : Nat, finish : Nat],
         faults'.crash = 0 => faults.crash = 0
  PROVE  CountInv'
<1>0. Typed(status)
  BY DEF Typed, ShapeInv, RowInv
<1>1. PICK q \in missing, st \in [Task -> Status \cup {NoRow}] :
           /\ Retire(q, st)
           /\ \/ st = status
              \/ /\ Current \in Task /\ status[Current] = Running /\ worker.pc = "work"
                 /\ st = [status EXCEPT ![Current] = Pending]
  BY Retires
<1>2. /\ \A k \in Child : status'[k] = NoRow <=> status[k] = NoRow
      /\ \A t \in Task : status'[t] = Pending => status[t] = Pending \/ t = Current
      /\ \A t \in Task : status'[t] \notin {Pending, Failed} => status'[t] = status[t]
      /\ \A p \in Parent : status'[p] # Failed =>
              /\ status'[p] # Pending => status'[p] = status[p]
              /\ items'[p].total = items[p].total
              /\ items'[p].failed = items[p].failed
              /\ Processed(items'[p]) = Processed(items[p])
              /\ \A k \in ChildrenOf(p) :
                   status'[k] = status[k] \/ (status[k] = Running /\ status'[k] = Pending)
  BY <1>1, RetireFacts
<1>3. worker'.pc = "select"
  <2>1. worker' = [Down EXCEPT !.pc = "select"]
    BY <1>1 DEF Retire, Abandon
  <2> QED
    BY <2>1 DEF Down
<1>4. \A k \in Child : status'[k] # WaitingChildren
  <2>1. \A k \in Child : k \in Task /\ status[k] # WaitingChildren
    BY Families DEF CountInv
  <2> QED
    BY <1>2, <2>1, Distinct
<1>5. ASSUME NEW p \in Parent, p \in Bundle \/ faults'.crash = 0
      PROVE  CountOf(status', items', p)
  <2>1. PICK st2, it2 : st2 = status' /\ it2 = items'
    OBVIOUS
  <2>2. CountOf(status, items, p) /\ Typed(st2)
    BY <1>5, <2>1 DEF CountInv
  <2>3. CASE st2[p] = WaitingChildren
    <3>1. /\ st2[p] = status[p]
          /\ it2[p].total = items[p].total
          /\ it2[p].failed = items[p].failed
          /\ Processed(it2[p]) = Processed(items[p])
          /\ \A k \in ChildrenOf(p) :
               st2[k] = status[k] \/ (status[k] = Running /\ st2[k] = Pending)
      BY <1>2, <2>1, <2>3, Distinct
    <3>2. \A k \in ChildrenOf(p) : /\ st2[k] \in Counted <=> status[k] \in Counted
                                   /\ st2[k] = Failed <=> status[k] = Failed
                                   /\ st2[k] = NoRow <=> status[k] = NoRow
      BY <3>1, CountedNames, Distinct
    <3>3. CountOf(st2, it2, p)
      BY <1>0, <2>2, <3>1, <3>2, CountSame
    <3> QED
      BY <2>1, <3>3
  <2>4. CASE st2[p] # WaitingChildren
    <3>1. \A k \in Child : status[k] # WaitingChildren
      BY DEF CountInv
    <3>2. PICK n \in Nat :
           /\ Processed(items'[p]) = Processed(items[p]) + n
           /\ items'[p].total = IF items[p].total >= Processed(items[p]) + n THEN items[p].total
                                ELSE Processed(items[p]) + n
           /\ Number(status', p, Counted) = Number(status, p, Counted) + n
      BY <1>1, <3>1, RetireCounts
    <3>3. Number(st2, p, Counted) <= Cardinality(File)
      BY NumberBound
    <3>4. Processed(items[p]) = Number(status, p, Counted) /\ items[p].total <= Cardinality(File)
      BY <2>2 DEF CountOf
    <3> QED
      BY <2>1, <2>4, <3>2, <3>3, <3>4 DEF CountOf
  <2> QED
    BY <2>3, <2>4
<1>6. ASSUME faults'.crash = 0
      PROVE  Unexpanded' /\ Expanding' /\ NoScanAtDown'
  <2>1. Unexpanded
    BY <1>6 DEF CountInv
  <2>2. \A s \in Scan : s \in Task /\ s \in Parent /\ \A k \in ChildrenOf(s) : k \in Child
    BY FilesOf, Families
  <2>3. Expanding' /\ NoScanAtDown'
    BY <1>3 DEF Expanding, NoScanAtDown
  <2>4. Unexpanded'
    <3>1. ASSUME NEW s \in Scan, status'[s] \in {NoRow, Pending}
          PROVE  status[s] \in {NoRow, Pending} \/ (worker.pc = "work" /\ worker.task = s)
      <4>1. status'[s] # Failed
        BY <3>1, Distinct
      <4>2. CASE status'[s] = NoRow
        BY <1>2, <2>2, <4>1, <4>2, Distinct
      <4>3. CASE status'[s] = Pending /\ st = status
        <5>1. status'[s] = st[s] \/ status'[s] = Failed
          BY <1>1, <2>2 DEF Retire
        <5> QED
          BY <3>1, <4>1, <4>3, <5>1
      <4>4. CASE status'[s] = Pending /\ worker.pc = "work"
        BY <1>2, <2>2, <4>4 DEF Current
      <4> QED
        BY <1>1, <3>1, <4>2, <4>3, <4>4
    <3> QED
      BY <1>2, <1>3, <2>1, <2>2, <3>1 DEF Unexpanded
  <2> QED
    BY <2>3, <2>4
<1> QED
  BY <1>4, <1>5, <1>6 DEF CountInv

LEMMA CountRecord ==
  ASSUME ShapeInv, CountInv, Typed(status'), Current \in Child,
         (\E changed \in BOOLEAN : Generate(changed)) \/ Skip \/ Fail,
         Fresh', faults' \in [crash : Nat, save : Nat, finish : Nat],
         faults'.crash = 0 => faults.crash = 0
  PROVE  CountInv'
<1>0. Typed(status)
  BY DEF Typed, ShapeInv, RowInv
<1>1. PICK t \in Child, p \in Parent, r \in Items, s \in {Finalizing, Failed}, old \in Items :
           /\ p = RootOf(t) /\ t \in ChildrenOf(p) /\ old = items[p] /\ status[t] = Running
           /\ status'[t] = s /\ status'[p] = Settled(p, r) /\ items'[p] = r
           /\ \A u \in Task \ {t, p} : status'[u] = status[u]
           /\ \A u \in Parent \ {p} : items'[u] = items[u]
           /\ Processed(r) = Processed(old) + 1
           /\ r.total = IF old.total >= Processed(old) + 1 THEN old.total ELSE Processed(old) + 1
           /\ r.failed = IF s = Failed THEN old.failed + 1 ELSE old.failed
           /\ worker'.pc # "expand" /\ (worker'.pc = "work" => FALSE) /\ worker'.pc # "down"
           /\ UNCHANGED <<missing, requested, faults>>
  BY RecordFacts
<1>2. /\ \A k \in ChildrenOf(p) \ {t} : status'[k] = status[k]
      /\ Number(status', p, Counted) = Number(status, p, Counted) + 1
      /\ Number(status', p, Rows) = Number(status, p, Rows)
      /\ Number(status', p, Counted) <= Number(status', p, Rows)
      /\ Number(status, p, Counted) \in Nat /\ Number(status, p, Rows) \in Nat
  BY <1>0, <1>1, OneMoreCounted
<1>3. PICK st, it : st = status' /\ it = items'
  OBVIOUS
<1>4. Settled(p, r) = status[p] \/ Settled(p, r) \in {Failed, Completed, Skipped}
  BY SettledCases
<1>5. ASSUME CountOf(status, items, p)
      PROVE  CountOf(st, it, p)
  <2>1. Processed(r) = Number(st, p, Counted)
    BY <1>1, <1>2, <1>3, <1>5 DEF CountOf
  <2>2. Number(st, p, Counted) <= Cardinality(File)
    BY NumberBound
  <2>3. r.total <= Cardinality(File)
    BY <1>1, <1>5, <2>1, <2>2 DEF CountOf
  <2>4. ASSUME Settled(p, r) = WaitingChildren
        PROVE  /\ r.total = Number(st, p, Rows)
               /\ r.failed = Number(st, p, {Failed})
               /\ r.total > Number(st, p, Counted)
    <3>1. ~Final(p, r) /\ status[p] = WaitingChildren
      BY <1>4, <2>4, SettledCases, Distinct
    <3>2. /\ old.total = Number(status, p, Rows)
          /\ old.failed = Number(status, p, {Failed})
          /\ old.total > Number(status, p, Counted)
          /\ Processed(old) = Number(status, p, Counted)
      BY <1>1, <1>5, <3>1 DEF CountOf
    <3>3. r.total = old.total /\ old.total > 0
      BY <1>1, <1>2, <3>2
    <3>4. ~(Processed(r) >= r.total)
      BY <1>1, <3>1, <3>3 DEF Final
    <3>5. r.total > Number(st, p, Counted)
      BY <1>2, <1>3, <2>1, <3>2, <3>3, <3>4
    <3>6. r.failed = Number(st, p, {Failed})
      <4>1. CASE s = Failed
        <5>1. st[t] \in {Failed} /\ status[t] \notin {Failed}
          BY <1>1, <1>3, <4>1, Distinct
        <5>2. \A k \in ChildrenOf(p) \ {t} : st[k] = status[k]
          BY <1>2, <1>3
        <5>3. Number(st, p, {Failed}) = Number(status, p, {Failed}) + 1
          BY <1>1, <5>1, <5>2, NumberMore
        <5> QED
          BY <1>1, <3>2, <4>1, <5>3
      <4>2. CASE s = Finalizing
        <5>1. \A k \in ChildrenOf(p) : st[k] \in {Failed} <=> status[k] \in {Failed}
          BY <1>1, <1>2, <1>3, <4>2, Distinct
        <5>2. Number(st, p, {Failed}) = Number(status, p, {Failed})
          BY <5>1, NumberSame
        <5> QED
          BY <1>1, <3>2, <4>2, <5>2, Distinct
      <4> QED
        BY <4>1, <4>2
    <3> QED
      BY <1>2, <1>3, <3>2, <3>3, <3>5, <3>6
  <2> QED
    BY <1>1, <1>3, <2>1, <2>3, <2>4 DEF CountOf
<1>6. ASSUME NEW u \in Parent \ {p}, CountOf(status, items, u)
      PROVE  CountOf(st, it, u)
  <2>1. /\ st[u] = status[u] /\ it[u] = items[u]
        /\ \A k \in ChildrenOf(u) : st[k] = status[k]
    BY <1>1, <1>3, OthersRecord
  <2>2. Typed(st)
    BY <1>3
  <2> QED
    BY <1>0, <1>6, <2>1, <2>2, CountSame
<1>7. \A u \in Parent : u \in Bundle \/ faults'.crash = 0 => CountOf(st, it, u)
  BY <1>5, <1>6 DEF CountInv
<1>8. \A k \in Child : status'[k] # WaitingChildren
  <2>1. \A k \in Child : k \in Task /\ k # p /\ status[k] # WaitingChildren
    BY Families DEF CountInv
  <2> QED
    BY <1>1, <2>1, Distinct
<1>9. ASSUME faults'.crash = 0
      PROVE  Unexpanded'
  <2>1. ASSUME NEW u \in Scan, status'[u] \in {NoRow, Pending}, NEW k \in ChildrenOf(u)
        PROVE  status'[k] = NoRow
    <3>1. u \in Parent /\ Unexpanded
      BY <1>9, Families DEF CountInv
    <3>2. CASE u = p
      <4>1. status[p] \in {NoRow, Pending}
        BY <1>1, <1>4, <2>1, <3>2, Distinct
      <4>2. status[t] = NoRow
        BY <1>1, <3>1, <3>2, <4>1 DEF Unexpanded
      <4> QED
        BY <1>1, <4>2, Distinct
    <3>3. CASE u # p
      <4>1. /\ status'[u] = status[u] /\ \A j \in ChildrenOf(u) : status'[j] = status[j]
        BY <1>1, <3>1, <3>3, OthersRecord
      <4> QED
        BY <2>1, <3>1, <4>1 DEF Unexpanded
    <3> QED
      BY <3>2, <3>3
  <2> QED
    BY <1>1, <2>1 DEF Unexpanded
<1>10. Expanding' /\ NoScanAtDown'
  BY <1>1 DEF Expanding, NoScanAtDown
<1> QED
  BY <1>3, <1>7, <1>8, <1>9, <1>10 DEF CountInv

LEMMA CountBatch ==
  ASSUME ShapeInv, DueInv, CountInv, Typed(status'),
         NEW b \in Bundle, NEW S \in SUBSET File, EnqueueStrmWebhookBatch(b, S),
         Fresh', faults' \in [crash : Nat, save : Nat, finish : Nat],
         faults'.crash = 0 => faults.crash = 0
  PROVE  CountInv'
<1>0. Typed(status)
  BY DEF Typed, ShapeInv, RowInv
<1>1. /\ b \in Parent /\ b \in Task /\ status[b] = NoRow /\ status'[b] = WaitingChildren
      /\ Cardinality(S) \in Nat /\ Cardinality(S) > 0
      /\ \A k \in ChildrenOf(b) : status'[k] = IF k[2] \in S THEN Pending ELSE NoRow
      /\ \A p \in Parent \ {b} : /\ status'[p] = status[p] /\ items'[p] = items[p]
                                 /\ \A k \in ChildrenOf(p) : status'[k] = status[k]
      /\ items'[b].total = Cardinality(S) /\ items'[b].failed = 0
      /\ Processed(items'[b]) = 0
      /\ UNCHANGED <<missing, requested, worker, faults>>
  BY BatchFacts
<1>2. PICK st, it : st = status' /\ it = items'
  OBVIOUS
<1>3. CountOf(st, it, b)
  <2>1. /\ Number(st, b, Rows) = Cardinality(S) /\ Number(st, b, Counted) = 0
        /\ Number(st, b, {Failed}) = 0
    BY <1>1, <1>2, BatchNumbers
  <2>2. Cardinality(S) <= Cardinality(File)
    <3>1. Number(st, b, Rows) <= Cardinality(File)
      BY <1>1, NumberBound
    <3> QED
      BY <2>1, <3>1
  <2> QED
    BY <1>1, <1>2, <2>1, <2>2 DEF CountOf
<1>4. ASSUME NEW p \in Parent \ {b}, CountOf(status, items, p)
      PROVE  CountOf(st, it, p)
  <2>1. /\ st[p] = status[p] /\ it[p] = items[p] /\ \A k \in ChildrenOf(p) : st[k] = status[k]
        /\ Typed(st)
    BY <1>1, <1>2
  <2> QED
    BY <1>0, <1>4, <2>1, CountSame
<1>5. \A p \in Parent : p \in Bundle \/ faults'.crash = 0 => CountOf(st, it, p)
  BY <1>3, <1>4 DEF CountInv
<1>6. \A s \in Scan : s \in Parent \ {b}
  BY Families
<1>7. \A k \in Child : status'[k] # WaitingChildren
  <2>1. ASSUME NEW k \in Child
        PROVE  status'[k] # WaitingChildren
    <3>1. RootOf(k) \in Parent /\ k \in ChildrenOf(RootOf(k))
      BY FilesOf, Families
    <3>2. CASE RootOf(k) = b
      BY <1>1, <3>1, <3>2, Distinct
    <3>3. CASE RootOf(k) # b
      BY <1>1, <3>1, <3>3 DEF CountInv
    <3> QED
      BY <3>2, <3>3
  <2> QED
    BY <2>1
<1>8. ASSUME faults'.crash = 0
      PROVE  Unexpanded' /\ Expanding' /\ NoScanAtDown'
  <2>1. Unexpanded /\ Expanding /\ NoScanAtDown
    BY <1>8 DEF CountInv
  <2>2. \A s \in Scan : status'[s] = status[s] /\ \A k \in ChildrenOf(s) : status'[k] = status[k]
    BY <1>1, <1>6
  <2>3. Unexpanded' /\ NoScanAtDown'
    BY <1>1, <2>1, <2>2 DEF Unexpanded, NoScanAtDown
  <2>4. Expanding'
    <3>1. SUFFICES ASSUME worker.pc = "expand"
                   PROVE  /\ worker.total = Number(status', worker.task, Rows)
                          /\ \A k \in ChildrenOf(worker.task) :
                               status'[k] = NoRow \/ (status'[k] = Pending /\ k[2] \notin worker.left)
      BY <1>1 DEF Expanding
    <3>2. PICK s \in Scan : s = worker.task
      BY <3>1 DEF ShapeInv, WorkerInv
    <3>3. \A k \in ChildrenOf(s) : st[k] = status[k]
      BY <1>2, <2>2
    <3>4. Number(st, s, Rows) = Number(status, s, Rows)
      BY <3>3, NumberSame
    <3> QED
      BY <1>2, <2>1, <2>2, <3>1, <3>2, <3>4 DEF Expanding
  <2> QED
    BY <2>3, <2>4
<1> QED
  BY <1>2, <1>5, <1>7, <1>8 DEF CountInv

LEMMA CountChild ==
  ASSUME ShapeInv, CountInv, Typed(status'), NEW f \in File, EnqueueChild(f),
         Fresh', faults' \in [crash : Nat, save : Nat, finish : Nat],
         faults'.crash = 0 => faults.crash = 0
  PROVE  CountInv'
<1>0. Typed(status)
  BY DEF Typed, ShapeInv, RowInv
<1>1. PICK s \in Scan, t \in Child :
           /\ s = worker.task /\ s \in Parent /\ status[s] = Running /\ worker.pc = "expand"
           /\ t = <<s, f>> /\ t \in ChildrenOf(s) /\ t \in Task /\ f \in worker.left
           /\ worker'.pc = "expand" /\ worker'.task = s /\ worker'.left = worker.left \ {f}
           /\ worker'.total = worker.total + 1 /\ worker'.batch = worker.batch
           /\ \A u \in Task \ {t} : status'[u] = status[u]
           /\ status'[t] = IF status[t] \in Active THEN status[t] ELSE Pending
           /\ UNCHANGED <<items, missing, requested, faults>>
  BY ChildFacts
<1>2. PICK st, it : st = status' /\ it = items'
  OBVIOUS
<1>3. /\ \A p \in Parent : p \in Task /\ p # t
      /\ \A k \in Child : k \in Task
      /\ s \notin Bundle
  BY Families
<1>4. ASSUME NEW p \in Parent \ {s}
      PROVE  \A k \in ChildrenOf(p) : k # t /\ st[k] = status[k]
  <2>1. \A k \in ChildrenOf(p) : k \in Task /\ RootOf(k) = p
    BY FilesOf, Families
  <2>2. RootOf(t) = s
    BY <1>1, FilesOf
  <2> QED
    BY <1>1, <1>2, <2>1, <2>2
<1>5. ASSUME faults'.crash = 0
      PROVE  /\ status[t] = NoRow /\ st[t] = Pending
             /\ worker.total = Number(status, s, Rows)
             /\ \A k \in ChildrenOf(s) \ {t} :
                  /\ st[k] = status[k]
                  /\ status[k] = NoRow \/ (status[k] = Pending /\ k[2] \notin worker.left)
  <2>1. Expanding
    BY <1>5 DEF CountInv
  <2>2. /\ worker.total = Number(status, s, Rows)
        /\ \A k \in ChildrenOf(s) :
             status[k] = NoRow \/ (status[k] = Pending /\ k[2] \notin worker.left)
    BY <1>1, <2>1 DEF Expanding
  <2>3. t[2] \in worker.left
    BY <1>1
  <2>4. status[t] = NoRow
    BY <1>1, <2>2, <2>3
  <2>5. status[t] \notin Active
    BY <2>4, StatusNames
  <2>6. \A k \in ChildrenOf(s) : k \in Task
    BY <1>1, FilesOf, <1>3
  <2> QED
    BY <1>1, <1>2, <2>2, <2>4, <2>5, <2>6
<1>6. ASSUME NEW p \in Parent, p \in Bundle \/ faults'.crash = 0
      PROVE  CountOf(st, it, p)
  <2>1. CountOf(status, items, p) /\ Typed(st)
    BY <1>2, <1>6 DEF CountInv
  <2>2. st[p] = status[p] /\ it[p] = items[p]
    BY <1>1, <1>2, <1>3
  <2>3. \A k \in ChildrenOf(p) : /\ st[k] \in Counted <=> status[k] \in Counted
                                 /\ st[k] = Failed <=> status[k] = Failed
    <3>1. CASE p = s
      <4>1. faults'.crash = 0
        BY <1>3, <1>6, <3>1
      <4>2. \A k \in ChildrenOf(s) : st[k] = status[k] \/ (status[k] = NoRow /\ st[k] = Pending)
        BY <1>5, <4>1
      <4> QED
        BY <3>1, <4>2, Distinct, CountedNames
    <3>2. CASE p # s
      BY <1>4, <3>2
    <3> QED
      BY <3>1, <3>2
  <2>4. CASE p = s
    <3>1. st[p] # WaitingChildren
      BY <1>1, <2>2, <2>4, Distinct
    <3>2. Number(st, p, Counted) = Number(status, p, Counted)
      BY <2>3, NumberSame
    <3> QED
      BY <2>1, <2>2, <3>1, <3>2 DEF CountOf
  <2>5. CASE p # s
    <3>1. \A k \in ChildrenOf(p) : st[k] = status[k]
      BY <1>4, <2>5
    <3> QED
      BY <1>0, <2>1, <2>2, <3>1, CountSame
  <2> QED
    BY <2>4, <2>5
<1>7. \A k \in Child : status'[k] # WaitingChildren
  <2>1. \A k \in Child : status[k] # WaitingChildren
    BY DEF CountInv
  <2> QED
    BY <1>1, <1>3, <2>1, Distinct
<1>8. ASSUME faults'.crash = 0
      PROVE  Unexpanded' /\ Expanding' /\ NoScanAtDown'
  <2>1. NoScanAtDown'
    BY <1>1 DEF NoScanAtDown
  <2>2. Unexpanded'
    <3>1. ASSUME NEW u \in Scan, status'[u] \in {NoRow, Pending}, NEW k \in ChildrenOf(u)
          PROVE  status'[k] = NoRow
      <4>1. u \in Parent /\ status[u] \in {NoRow, Pending}
        BY <1>1, <1>3, <3>1, Families
      <4>2. u # s
        BY <1>1, <4>1, Distinct
      <4>3. status[k] = NoRow
        BY <1>8, <3>1, <4>1 DEF CountInv, Unexpanded
      <4> QED
        BY <1>2, <1>4, <3>1, <4>1, <4>2, <4>3
    <3> QED
      BY <1>1, <3>1 DEF Unexpanded
  <2>3. Expanding'
    <3>1. st[t] \in Rows /\ status[t] \notin Rows
      BY <1>5, <1>8, Distinct DEF Rows
    <3>2. \A k \in ChildrenOf(s) \ {t} : st[k] = status[k]
      BY <1>5, <1>8
    <3>3. Number(st, s, Rows) = Number(status, s, Rows) + 1
      BY <1>1, <3>1, <3>2, NumberMore
    <3>4. worker'.total = Number(st, s, Rows)
      BY <1>1, <1>5, <1>8, <3>3
    <3>5. ASSUME NEW k \in ChildrenOf(s)
          PROVE  st[k] = NoRow \/ (st[k] = Pending /\ k[2] \notin worker'.left)
      <4>1. CASE k = t
        BY <1>1, <1>5, <1>8, <4>1
      <4>2. CASE k # t
        BY <1>1, <1>5, <1>8, <4>2
      <4> QED
        BY <4>1, <4>2
    <3> QED
      BY <1>1, <1>2, <3>4, <3>5 DEF Expanding
  <2> QED
    BY <2>1, <2>2, <2>3
<1> QED
  BY <1>2, <1>6, <1>7, <1>8 DEF CountInv

LEMMA CountExpanded ==
  ASSUME ShapeInv, CountInv, Typed(status'), MarkDirectoryScanExpanded,
         Fresh', faults' \in [crash : Nat, save : Nat, finish : Nat],
         faults'.crash = 0 => faults.crash = 0
  PROVE  CountInv'
<1>0. Typed(status)
  BY DEF Typed, ShapeInv, RowInv
<1>1. PICK p \in Scan :
           /\ p = worker.task /\ p \in Parent /\ p \in Task /\ status[p] = Running
           /\ worker.pc = "expand" /\ worker.left = {} /\ worker.total \in Nat
           /\ status'[p] = IF worker.total = 0 THEN Completed ELSE WaitingChildren
           /\ \A u \in Task \ {p} : status'[u] = status[u]
           /\ items'[p].total = worker.total /\ items'[p].failed = 0
           /\ Processed(items'[p]) = 0
           /\ \A u \in Parent \ {p} : items'[u] = items[u]
           /\ worker'.pc \in {"select", "next"} /\ worker'.batch = worker.batch
           /\ UNCHANGED <<missing, requested, faults>>
  BY ExpandedFacts
<1>2. PICK st, it : st = status' /\ it = items'
  OBVIOUS
<1>3. /\ p \notin Bundle
      /\ \A k \in Child : k \in Task /\ k # p
      /\ \A u \in Parent : \A k \in ChildrenOf(u) : k \in Child
  BY Families, FilesOf
<1>4. \A k \in Child : st[k] = status[k]
  BY <1>1, <1>2, <1>3
<1>5. ASSUME faults'.crash = 0
      PROVE  CountOf(st, it, p)
  <2>1. /\ worker.total = Number(status, p, Rows)
        /\ \A k \in ChildrenOf(p) : status[k] = NoRow \/ status[k] = Pending
    BY <1>1, <1>5 DEF CountInv, Expanding
  <2>2. \A k \in ChildrenOf(p) : st[k] = status[k]
    BY <1>1, <1>3, <1>4
  <2>3. Number(st, p, Rows) = worker.total
    BY <2>1, <2>2, NumberSame
  <2>4. {k \in ChildrenOf(p) : st[k] \in Counted} = {} /\ {k \in ChildrenOf(p) : st[k] \in {Failed}} = {}
    BY <2>1, <2>2, Distinct, CountedNames
  <2>5. Number(st, p, Counted) = 0 /\ Number(st, p, {Failed}) = 0
    BY <2>4, FS_EmptySet DEF Number
  <2>6. Number(st, p, Rows) <= Cardinality(File)
    BY <1>1, NumberBound
  <2>7. st[p] = WaitingChildren => worker.total > 0
    BY <1>1, <1>2, Distinct
  <2> QED
    BY <1>1, <1>2, <2>3, <2>5, <2>6, <2>7 DEF CountOf
<1>6. ASSUME NEW u \in Parent \ {p}, CountOf(status, items, u)
      PROVE  CountOf(st, it, u)
  <2>1. st[u] = status[u] /\ it[u] = items[u] /\ Typed(st)
    BY <1>1, <1>2, Families
  <2>2. \A k \in ChildrenOf(u) : st[k] = status[k]
    BY <1>3, <1>4
  <2> QED
    BY <1>0, <1>6, <2>1, <2>2, CountSame
<1>7. ASSUME NEW u \in Parent, u \in Bundle \/ faults'.crash = 0
      PROVE  CountOf(st, it, u)
  <2>1. CASE u = p
    BY <1>3, <1>5, <1>7, <2>1
  <2>2. CASE u # p
    BY <1>6, <1>7, <2>2 DEF CountInv
  <2> QED
    BY <2>1, <2>2
<1>8. \A k \in Child : status'[k] # WaitingChildren
  BY <1>2, <1>4 DEF CountInv
<1>9. ASSUME faults'.crash = 0
      PROVE  Unexpanded'
  <2>1. ASSUME NEW u \in Scan, status'[u] \in {NoRow, Pending}, NEW k \in ChildrenOf(u)
        PROVE  status'[k] = NoRow
    <3>1. u # p
      BY <1>1, <2>1, Distinct
    <3>2. u \in Parent /\ u \in Task
      BY Families
    <3>3. status[u] \in {NoRow, Pending}
      BY <1>1, <2>1, <3>1, <3>2
    <3>4. status[k] = NoRow
      BY <1>9, <2>1, <3>3 DEF CountInv, Unexpanded
    <3> QED
      BY <1>2, <1>3, <1>4, <2>1, <3>2, <3>4
  <2> QED
    BY <1>1, <2>1 DEF Unexpanded
<1>10. Expanding' /\ NoScanAtDown'
  BY <1>1 DEF Expanding, NoScanAtDown
<1> QED
  BY <1>2, <1>7, <1>8, <1>9, <1>10 DEF CountInv

LEMMA InitCount ==
  ASSUME Init
  PROVE  CountInv
<1>1. /\ \A t \in Task : status[t] = NoRow
      /\ \A p \in Parent : items[p] = NoItems
      /\ worker.pc = "down" /\ worker.batch = << >>
      /\ faults = [crash |-> 0, save |-> 0, finish |-> 0]
  BY DEF Init, Down
<1>2. /\ \A p \in Parent : p \in Task /\ \A k \in ChildrenOf(p) : k \in Child
      /\ \A k \in Child : k \in Task
      /\ \A s \in Scan : s \in Parent
  BY Families, FilesOf
<1>3. ASSUME NEW p \in Parent
      PROVE  CountOf(status, items, p)
  <2>1. \A k \in ChildrenOf(p) : status[k] = NoRow
    BY <1>1, <1>2
  <2>2. {k \in ChildrenOf(p) : status[k] \in Counted} = {}
    BY <2>1, Distinct, CountedNames
  <2>3. Number(status, p, Counted) = 0
    BY <2>2, FS_EmptySet DEF Number
  <2>4. Processed(items[p]) = 0 /\ items[p].total = 0
    BY <1>1 DEF NoItems, Processed
  <2>5. Cardinality(File) \in Nat
    BY NumberBound
  <2>6. status[p] # WaitingChildren
    BY <1>1, <1>2, Distinct
  <2> QED
    BY <2>3, <2>4, <2>5, <2>6 DEF CountOf
<1>4. Fresh
  BY <1>1, EmptyOnce DEF Fresh
<1>5. Unexpanded /\ Expanding /\ NoScanAtDown
  BY <1>1, <1>2, Distinct DEF Unexpanded, Expanding, NoScanAtDown
<1>6. \A k \in Child : status[k] # WaitingChildren
  BY <1>1, <1>2, Distinct
<1> QED
  BY <1>1, <1>3, <1>4, <1>5, <1>6 DEF CountInv

LEMMA StepCount ==
  ASSUME ShapeInv, DueInv, CountInv, [Next]_vars
  PROVE  CountInv'
<1>1. Typed(status')
  BY StepShape DEF ShapeInv, RowInv, Typed
<1>2. Fresh'
  BY StepFresh DEF CountInv
<1>3. /\ faults' \in [crash : Nat, save : Nat, finish : Nat]
      /\ faults'.crash = 0 => faults.crash = 0 /\ ~Crash
  BY CrashCount DEF CountInv
<1>4. faults'.crash = 0 => faults.crash = 0
  BY <1>3
<1>5. CASE GentleStep
  BY <1>1, <1>2, <1>3, <1>5, CountGentle
<1>6. ASSUME NEW b \in Bundle, NEW S \in SUBSET File, EnqueueStrmWebhookBatch(b, S)
      PROVE  CountInv'
  BY <1>1, <1>2, <1>3, <1>4, <1>6, CountBatch
<1>7. CASE RetireMissing \/ RetireAtWork \/ RetireAtFinish
  BY <1>1, <1>2, <1>3, <1>4, <1>7, CountRetire
<1>8. CASE Current \in Child /\ ((\E changed \in BOOLEAN : Generate(changed)) \/ Skip \/ Fail)
  BY <1>1, <1>2, <1>3, <1>4, <1>8, CountRecord
<1>9. ASSUME NEW f \in File, EnqueueChild(f)
      PROVE  CountInv'
  BY <1>1, <1>2, <1>3, <1>4, <1>9, CountChild
<1>10. CASE MarkDirectoryScanExpanded
  BY <1>1, <1>2, <1>3, <1>4, <1>10, CountExpanded
<1> QED
  BY <1>5, <1>6, <1>7, <1>8, <1>9, <1>10, GentleOrNot

\* No scan has been expanded, or could have been, before the process ended.
ExpandedOnce == Scan = {} \/ faults.crash = 0

LEMMA CountConsequence ==
  ASSUME ShapeInv, CountInv, ExpandedOnce
  PROVE  CountsAgree
<1>1. ASSUME NEW p \in Parent
      PROVE  CountOf(status, items, p)
  BY DEF ExpandedOnce, CountInv, Parent
<1>2. ASSUME NEW p \in Parent
      PROVE  /\ Cardinality(Existing(p)) = Number(status, p, Rows)
             /\ Cardinality({k \in Existing(p) : status[k] \in Counted}) = Number(status, p, Counted)
             /\ Cardinality({k \in Existing(p) : status[k] \in {Failed}}) = Number(status, p, {Failed})
  <2>1. NoRow \notin Counted /\ NoRow \notin {Failed}
    BY Distinct, CountedNames
  <2> QED
    BY <2>1, NumberOfRows
<1> QED
  BY <1>1, <1>2 DEF CountsAgree, CountOf

LEMMA TypeConsequence ==
  ASSUME ShapeInv, CountInv, ExpandedOnce
  PROVE  TypeOK
<1>1. ASSUME NEW p \in Parent
      PROVE  items[p] \in [total : 0 .. Cardinality(File), accepted : 0 .. Cardinality(File),
                           failed : 0 .. Cardinality(File), skipped : 0 .. Cardinality(File),
                           changed : BOOLEAN, submitted : BOOLEAN]
  <2>1. CountOf(status, items, p)
    BY DEF ExpandedOnce, CountInv, Parent
  <2>2. items[p] \in Items
    BY DEF ShapeInv, RowInv
  <2>3. /\ Number(status, p, Counted) \in Nat /\ Number(status, p, Counted) <= Cardinality(File)
        /\ Cardinality(File) \in Nat
    BY NumberBound
  <2>4. PICK n \in Nat, m \in Nat : n = Number(status, p, Counted) /\ m = Cardinality(File)
    BY <2>3
  <2>5. /\ items[p].accepted + items[p].failed + items[p].skipped = n
        /\ items[p].total <= m /\ n <= m
    BY <2>1, <2>3, <2>4 DEF CountOf, Processed
  <2>6. PICK r \in Items : r = items[p]
    BY <2>2
  <2>7. /\ r.total \in 0 .. m /\ r.accepted \in 0 .. m /\ r.failed \in 0 .. m /\ r.skipped \in 0 .. m
    BY <2>5, <2>6 DEF Items
  <2>8. r \in [total : 0 .. m, accepted : 0 .. m, failed : 0 .. m, skipped : 0 .. m,
               changed : BOOLEAN, submitted : BOOLEAN]
    BY <2>7 DEF Items
  <2> QED
    BY <2>4, <2>6, <2>8
<1>2. items \in [Parent -> [total : 0 .. Cardinality(File), accepted : 0 .. Cardinality(File),
                            failed : 0 .. Cardinality(File), skipped : 0 .. Cardinality(File),
                            changed : BOOLEAN, submitted : BOOLEAN]]
  <2>1. items = [p \in Parent |-> items[p]]
    BY DEF ShapeInv, RowInv
  <2> QED
    BY <1>1, <2>1
<1>3. ToSet(created) = Open(status) /\ ToSet(line) = Open(status)
  BY DEF ShapeInv, RowInv, InLine
<1>4. /\ Len(created) = Cardinality(ToSet(created))
      /\ Len(line) = Cardinality(ToSet(line))
  BY OnceIsCounted DEF ShapeInv, RowInv, InLine
<1>5. Open(status) = {t \in Task : status[t] \in {Pending, Running, Finalizing}}
  BY DEF Open
<1>6. status \in [Task -> Status \cup {NoRow}]
  BY DEF ShapeInv, RowInv
<1>7. /\ backoff \subseteq retried
      /\ retried \cup skipping \subseteq {t \in Task : status[t] = Finalizing}
      /\ moved \subseteq Open(status) /\ missing \subseteq SyncPath /\ requested \subseteq Parent
  BY DEF ShapeInv, MarkInv
<1>8. ToSet(worker.batch) \subseteq Open(status) /\ worker.left \subseteq File
  BY DEF ShapeInv, WorkerInv, Worker0
<1> QED
  BY <1>2, <1>3, <1>4, <1>5, <1>6, <1>7, <1>8 DEF TypeOK

\* The counters of a parent are the results of its children, each counted once,
\* through failing finalizations and statements and through deletions: for
\* batches no matter how often the process ends, and as long as it has not for
\* scans, whose expansion may then be done again and start the counters anew
\* while children of the first one are still about.
THEOREM CountersAgree == Spec => [](ExpandedOnce => CountsAgree)
<1>1. Init => ShapeInv /\ DueInv /\ CountInv
  BY InitShape, InitDue, InitCount
<1>2. ShapeInv /\ DueInv /\ CountInv /\ [Next]_vars => (ShapeInv /\ DueInv /\ CountInv)'
  BY StepShape, StepDue, StepCount
<1>3. ShapeInv /\ CountInv => (ExpandedOnce => CountsAgree)
  BY CountConsequence
<1> QED
  BY <1>1, <1>2, <1>3, PTL DEF Spec

\* Under the same condition the rows, the queue and what the worker has read fit
\* together, and no parent counts more than its directory has files; without it
\* RowsFitTheWorker says all of this but the bound.
THEOREM TypesAreKept == Spec => [](ExpandedOnce => TypeOK)
<1>1. Init => ShapeInv /\ DueInv /\ CountInv
  BY InitShape, InitDue, InitCount
<1>2. ShapeInv /\ DueInv /\ CountInv /\ [Next]_vars => (ShapeInv /\ DueInv /\ CountInv)'
  BY StepShape, StepDue, StepCount
<1>3. ShapeInv /\ CountInv => (ExpandedOnce => TypeOK)
  BY TypeConsequence
<1> QED
  BY <1>1, <1>2, <1>3, PTL DEF Spec
=============================================================================
