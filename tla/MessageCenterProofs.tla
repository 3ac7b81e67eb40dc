-------------------------- MODULE MessageCenterProofs --------------------------
(***************************************************************************)
(* Proofs about MessageCenter, for every set of statuses, batch size, TTL, *)
(* window and limit, and any number of events, faults, fetches and ticks.  *)
(***************************************************************************)
EXTENDS MessageCenter, FiniteSetTheorems, SequenceTheorems, TLAPS

-----------------------------------------------------------------------------
(* Arithmetic and sequences.                                               *)

LEMMA MinOfTwo ==
    ASSUME NEW a \in Int, NEW b \in Int
    PROVE  Min({a, b}) = IF a <= b THEN a ELSE b
<1> DEFINE m == IF a <= b THEN a ELSE b
<1>1. m \in {a, b} /\ \A y \in {a, b} : m <= y
  OBVIOUS
<1>2. \A x \in {a, b} : (\A y \in {a, b} : x <= y) => x = m
  OBVIOUS
<1> HIDE DEF m
<1>3. Min({a, b}) = m
  BY <1>1, <1>2, Zenon DEF Min
<1> QED BY <1>3 DEF m

LEMMA MaxIs ==
    ASSUME NEW S, S \subseteq Int, NEW m \in S, \A y \in S : y <= m
    PROVE  Max(S) = m
<1>1. \A x \in S : (\A y \in S : x >= y) => x = m
  OBVIOUS
<1>2. \A y \in S : m >= y
  OBVIOUS
<1> QED BY <1>1, <1>2, Zenon DEF Max

-----------------------------------------------------------------------------
(* NewestFirst(S): the elements of S in descending order.                  *)

LEMMA FiniteIds ==
    ASSUME NEW n \in Nat, NEW S, S \subseteq 1 .. n
    PROVE  S \subseteq Nat /\ IsFiniteSet(S)
<1>1. IsFiniteSet(1 .. n)
  BY FS_Interval
<1>2. S \in SUBSET (1 .. n) /\ S \subseteq Nat
  OBVIOUS
<1>3. IsFiniteSet(S)
  BY <1>1, <1>2, FS_Subset, Zenon
<1> QED BY <1>2, <1>3

LEMMA RankRange ==
    ASSUME NEW S, S \subseteq Nat, IsFiniteSet(S), NEW e \in S
    PROVE  Rank(S, e) \in 1 .. Cardinality(S)
<1> DEFINE T == {f \in S : f >= e}
<1>1. T \in SUBSET S /\ e \in T
  OBVIOUS
<1>2. IsFiniteSet(T) /\ Cardinality(T) <= Cardinality(S)
  BY <1>1, FS_Subset
<1>3. Cardinality(T) \in Nat /\ Cardinality(S) \in Nat
  BY <1>2, FS_CardinalityType
<1>4. Cardinality(T) # 0
  BY <1>1, <1>2, FS_EmptySet
<1> HIDE DEF T
<1>5. Cardinality(T) \in 1 .. Cardinality(S)
  BY <1>2, <1>3, <1>4
<1> QED BY <1>5 DEF T, Rank

\* A later element has a smaller rank.
LEMMA RankLess ==
    ASSUME NEW S, S \subseteq Nat, IsFiniteSet(S), NEW e \in S, NEW f \in S, e < f
    PROVE  Rank(S, f) < Rank(S, e)
<1> DEFINE E == {g \in S : g >= e}
           F == {g \in S : g >= f}
<1>0. e \in Nat /\ f \in Nat /\ \A g \in S : g >= f => g >= e
  OBVIOUS
<1>1. E \in SUBSET S /\ F \in SUBSET E /\ e \in E /\ e \notin F
  <2>1. E \in SUBSET S
    OBVIOUS
  <2>2. F \in SUBSET E
    BY <1>0
  <2>3. e \in E /\ e \notin F
    BY <1>0
  <2> QED BY <2>1, <2>2, <2>3
<1>2. IsFiniteSet(E)
  <2> HIDE DEF E, F
  <2> QED BY <1>1, FS_Subset
<1> HIDE DEF E, F
<1>3. IsFiniteSet(F) /\ Cardinality(F) <= Cardinality(E)
      /\ (Cardinality(E) = Cardinality(F) => E = F)
  BY <1>1, <1>2, FS_Subset
<1>4. E # F
  BY <1>1
<1>5. Cardinality(E) \in Nat /\ Cardinality(F) \in Nat
  BY <1>2, <1>3, FS_CardinalityType
<1>6. Cardinality(F) < Cardinality(E)
  BY <1>3, <1>4, <1>5
<1> QED BY <1>6 DEF E, F, Rank

\* No two elements share a rank and every rank is taken.
LEMMA RankBijection ==
    ASSUME NEW S, S \subseteq Nat, IsFiniteSet(S)
    PROVE  /\ \A e, f \in S : Rank(S, e) = Rank(S, f) => e = f
           /\ \A i \in 1 .. Cardinality(S) : \E e \in S : Rank(S, e) = i
<1> DEFINE n == Cardinality(S)
           r == [e \in S |-> Rank(S, e)]
<1>1. \A e \in S : Rank(S, e) \in 1 .. n
  BY RankRange
<1>2. ASSUME NEW e \in S, NEW f \in S, Rank(S, e) = Rank(S, f)
      PROVE  e = f
  <2>1. e \in Nat /\ f \in Nat /\ Rank(S, e) \in Int
    BY <1>1
  <2>2. e < f => Rank(S, f) < Rank(S, e)
    BY RankLess
  <2>3. f < e => Rank(S, e) < Rank(S, f)
    BY RankLess
  <2> QED BY <2>1, <2>2, <2>3, <1>2
<1>3. r \in [S -> 1 .. n]
  BY <1>1
<1>4. IsInjective(r)
  BY <1>2 DEF IsInjective
<1>5. n \in Nat
  BY FS_CardinalityType
<1> HIDE DEF n, r
<1>6. IsFiniteSet(1 .. n) /\ Cardinality(1 .. n) = n
  BY <1>5, FS_Interval
<1>7. r \in Injection(S, 1 .. n)
  BY <1>3, <1>4 DEF Injection, IsInjective
<1>8. r \in Surjection(S, 1 .. n)
  BY <1>6, <1>7, FS_Injection DEF n
<1>9. \A i \in 1 .. n : \E e \in S : r[e] = i
  BY <1>8 DEF Surjection
<1>10. \A i \in 1 .. n : \E e \in S : Rank(S, e) = i
  BY <1>9 DEF r
<1> QED BY <1>2, <1>10 DEF n

LEMMA NewestFirstProperties ==
    ASSUME NEW S, S \subseteq Nat, IsFiniteSet(S)
    PROVE  /\ Cardinality(S) \in Nat
           /\ NewestFirst(S) \in Seq(S)
           /\ Len(NewestFirst(S)) = Cardinality(S)
           /\ \A i \in 1 .. Cardinality(S) : Rank(S, NewestFirst(S)[i]) = i
           /\ \A i, j \in 1 .. Cardinality(S) : i < j => NewestFirst(S)[i] > NewestFirst(S)[j]
           /\ ToSet(NewestFirst(S)) = S
<1> DEFINE n == Cardinality(S)
           s == NewestFirst(S)
<1>1. n \in Nat
  BY FS_CardinalityType
<1>2. ASSUME NEW i \in 1 .. n
      PROVE  s[i] \in S /\ Rank(S, s[i]) = i
  <2>1. s[i] = CHOOSE e \in S : Rank(S, e) = i
    BY DEF NewestFirst
  <2>2. \E e \in S : Rank(S, e) = i
    BY RankBijection
  <2> QED BY <2>1, <2>2, Zenon
<1>3. s \in [1 .. n -> S]
  BY <1>2 DEF NewestFirst
<1> HIDE DEF n, s
<1>4. s \in Seq(S) /\ Len(s) = n /\ DOMAIN s = 1 .. n
  BY <1>1, <1>3
<1>5. ASSUME NEW i \in 1 .. n, NEW j \in 1 .. n, i < j
      PROVE  s[i] > s[j]
  <2>0. s[i] \in S /\ s[j] \in S /\ Rank(S, s[i]) = i /\ Rank(S, s[j]) = j /\ i # j
    BY <1>2, <1>5
  <2>1. s[i] \in Nat /\ s[j] \in Nat /\ s[i] # s[j]
    BY <2>0
  <2>2. s[i] < s[j] => Rank(S, s[j]) < Rank(S, s[i])
    BY <2>0, RankLess
  <2> QED BY <1>1, <1>5, <2>0, <2>1, <2>2
<1>6. ASSUME NEW e \in S PROVE \E i \in 1 .. n : s[i] = e
  <2>1. Rank(S, e) \in 1 .. n
    BY RankRange DEF n
  <2>2. Rank(S, s[Rank(S, e)]) = Rank(S, e) /\ s[Rank(S, e)] \in S
    BY <1>2, <2>1
  <2>3. s[Rank(S, e)] = e
    BY <2>2, RankBijection
  <2> QED BY <2>1, <2>3
<1>7. ToSet(s) = S
  <2>1. ToSet(s) = {s[i] : i \in 1 .. n}
    BY <1>4 DEF ToSet
  <2>2. \A e \in S : \E i \in 1 .. n : s[i] = e
    BY <1>6
  <2> QED BY <1>2, <2>1, <2>2
<1> QED BY <1>1, <1>2, <1>4, <1>5, <1>7 DEF n, s

\* A descending sequence of all the elements of S is NewestFirst(S).
LEMMA NewestFirstUnique ==
    ASSUME NEW S, S \subseteq Nat, IsFiniteSet(S), NEW t \in Seq(S),
           \A e \in S : \E i \in 1 .. Len(t) : t[i] = e,
           \A i, j \in 1 .. Len(t) : i < j => t[i] > t[j]
    PROVE  t = NewestFirst(S)
<1> DEFINE m == Len(t)
           s == NewestFirst(S)
<1>1. m \in Nat /\ t \in [1 .. m -> S] /\ DOMAIN t = 1 .. m
  BY LenProperties
<1>2. \A i \in 1 .. m : t[i] \in S /\ t[i] \in Nat
  BY <1>1
<1>3. \A i, j \in 1 .. m : i < j => t[i] > t[j]
  OBVIOUS
<1>4. \A e \in S : \E i \in 1 .. m : t[i] = e
  OBVIOUS
<1> HIDE DEF m, s
<1>5. ASSUME NEW i \in 1 .. m
      PROVE  Rank(S, t[i]) = i
  <2> DEFINE T == {f \in S : f >= t[i]}
             u == [j \in 1 .. i |-> t[j]]
  <2>1. \A j \in 1 .. i : j \in 1 .. m
    BY <1>1, <1>5
  <2>2. \A j \in 1 .. i : t[j] \in T
    BY <1>2, <1>3, <2>1
  <2>3. \A e \in T : \E j \in 1 .. i : t[j] = e
    <3> TAKE e \in T
    <3>1. PICK j \in 1 .. m : t[j] = e
      BY <1>4
    <3>2. ~ (i < j)
      BY <1>2, <1>3, <1>5, <3>1
    <3> QED BY <1>1, <1>5, <3>1, <3>2
  <2>4. \A j, k \in 1 .. i : t[j] = t[k] => j = k
    BY <1>2, <1>3, <2>1
  <2> HIDE DEF T
  <2>5. u \in [1 .. i -> T]
    BY <2>2
  <2>6. u \in Bijection(1 .. i, T)
    BY <2>3, <2>4, <2>5 DEF Bijection, Injection, Surjection, IsInjective
  <2>7. ExistsBijection(1 .. i, T)
    BY <2>6 DEF ExistsBijection
  <2>8. IsFiniteSet(1 .. i) /\ Cardinality(1 .. i) = i
    BY <1>1, FS_Interval
  <2>9. Cardinality(T) = i
    BY <2>7, <2>8, FS_Bijection
  <2> QED BY <2>9 DEF T, Rank
<1>6. Cardinality(S) = m
  <2>1. \A j, k \in 1 .. m : t[j] = t[k] => j = k
    BY <1>5
  <2>2. t \in Bijection(1 .. m, S)
    BY <1>1, <1>4, <2>1 DEF Bijection, Injection, Surjection, IsInjective
  <2>3. ExistsBijection(1 .. m, S)
    BY <2>2 DEF ExistsBijection
  <2>4. IsFiniteSet(1 .. m) /\ Cardinality(1 .. m) = m
    BY <1>1, FS_Interval
  <2> QED BY <2>3, <2>4, FS_Bijection
<1>7. s \in Seq(S) /\ Len(s) = m /\ \A i \in 1 .. m : s[i] \in S /\ Rank(S, s[i]) = i
  BY <1>1, <1>6, NewestFirstProperties, ElementOfSeq DEF s
<1>8. ASSUME NEW i \in 1 .. m
      PROVE  s[i] = t[i]
  <2>1. s[i] \in S /\ t[i] \in S /\ Rank(S, s[i]) = Rank(S, t[i])
    BY <1>2, <1>5, <1>7
  <2> QED BY <2>1, RankBijection
<1>9. s = t
  BY <1>7, <1>8, SeqEqual DEF m
<1> QED BY <1>9 DEF s

LEMMA NewestFirstConcat ==
    ASSUME NEW A, A \subseteq Nat, IsFiniteSet(A),
           NEW B, B \subseteq Nat, IsFiniteSet(B),
           \A a \in A, b \in B : a > b
    PROVE  NewestFirst(A \cup B) = NewestFirst(A) \o NewestFirst(B)
<1> DEFINE U == A \cup B
           a == NewestFirst(A)
           b == NewestFirst(B)
           m == Cardinality(A)
           n == Cardinality(B)
<1>1. /\ m \in Nat /\ a \in Seq(A) /\ Len(a) = m /\ ToSet(a) = A
      /\ \A i, j \in 1 .. m : i < j => a[i] > a[j]
  BY NewestFirstProperties
<1>2. /\ n \in Nat /\ b \in Seq(B) /\ Len(b) = n /\ ToSet(b) = B
      /\ \A i, j \in 1 .. n : i < j => b[i] > b[j]
  BY NewestFirstProperties
<1>3. U \subseteq Nat /\ IsFiniteSet(U) /\ A \subseteq U /\ B \subseteq U
  <2>1. IsFiniteSet(A \cup B)
    BY FS_Union
  <2> QED BY <2>1
<1>4. \A x \in A, y \in B : x > y
  OBVIOUS
<1> HIDE DEF U, a, b, m, n
<1>5. a \in Seq(U) /\ b \in Seq(U)
  BY <1>1, <1>2, <1>3, SeqMonotonic
<1>6. /\ a \o b \in Seq(U) /\ Len(a \o b) = m + n
      /\ \A i \in 1 .. m + n : (a \o b)[i] = IF i <= m THEN a[i] ELSE b[i - m]
  BY <1>1, <1>2, <1>5
<1>7. (\A i \in 1 .. m : a[i] \in A) /\ (\A i \in 1 .. n : b[i] \in B)
  BY <1>1, <1>2, ElementOfSeq
<1>8. ASSUME NEW e \in U PROVE \E i \in 1 .. m + n : (a \o b)[i] = e
  <2>1. CASE e \in A
    <3>1. PICK i \in 1 .. m : a[i] = e
      BY <1>1, <2>1 DEF ToSet
    <3>2. i \in 1 .. m + n /\ i <= m
      BY <1>1, <1>2
    <3> QED BY <1>6, <3>1, <3>2
  <2>2. CASE e \in B
    <3>1. PICK i \in 1 .. n : b[i] = e
      BY <1>2, <2>2 DEF ToSet
    <3>2. m + i \in 1 .. m + n /\ ~ (m + i <= m) /\ (m + i) - m = i
      BY <1>1, <1>2
    <3> QED BY <1>6, <3>1, <3>2
  <2> QED BY <2>1, <2>2 DEF U
<1>9. ASSUME NEW i \in 1 .. m + n, NEW j \in 1 .. m + n, i < j
      PROVE  (a \o b)[i] > (a \o b)[j]
  <2>1. CASE j <= m
    <3>1. i \in 1 .. m /\ j \in 1 .. m
      BY <1>1, <1>2, <1>9, <2>1
    <3> QED BY <1>1, <1>6, <1>9, <3>1
  <2>2. CASE i <= m /\ ~ (j <= m)
    <3>1. i \in 1 .. m /\ j - m \in 1 .. n
      BY <1>1, <1>2, <1>9, <2>2
    <3>2. a[i] \in A /\ b[j - m] \in B
      BY <1>7, <3>1
    <3> QED BY <1>4, <1>6, <2>2, <3>2
  <2>3. CASE ~ (i <= m)
    <3>1. i - m \in 1 .. n /\ j - m \in 1 .. n /\ i - m < j - m /\ ~ (j <= m)
      BY <1>1, <1>2, <1>9, <2>3
    <3> QED BY <1>2, <1>6, <2>3, <3>1
  <2> QED BY <1>1, <1>9, <2>1, <2>2, <2>3
<1>10. a \o b = NewestFirst(U)
  BY <1>3, <1>6, <1>8, <1>9, NewestFirstUnique, ZenonT(30)
<1> QED BY <1>10 DEF U, a, b

LEMMA NewestFirstOfNone == NewestFirst({}) = <<>>
<1>1. {} \subseteq Nat /\ IsFiniteSet({}) /\ Cardinality({}) = 0
  BY FS_EmptySet
<1>2. NewestFirst({}) \in Seq({}) /\ Len(NewestFirst({})) = 0
  BY <1>1, NewestFirstProperties
<1> QED BY <1>2, EmptySeq

LEMMA ShortRange ==
    ASSUME NEW S, NEW s \in Seq(S)
    PROVE  IsFiniteSet(ToSet(s)) /\ Cardinality(ToSet(s)) \in 0 .. Len(s)
<1> DEFINE T == ToSet(s)
           m == Len(s)
<1>1. m \in Nat /\ s \in [1 .. m -> S] /\ DOMAIN s = 1 .. m
  BY LenProperties
<1>2. T = {s[i] : i \in 1 .. m}
  BY <1>1 DEF ToSet
<1> HIDE DEF T, m
<1>3. s \in Surjection(1 .. m, T)
  BY <1>1, <1>2 DEF Surjection
<1>4. IsFiniteSet(1 .. m) /\ Cardinality(1 .. m) = m
  BY <1>1, FS_Interval
<1>5. IsFiniteSet(T) /\ Cardinality(T) <= m
  BY <1>3, <1>4, FS_Surjection
<1>6. Cardinality(T) \in Nat
  BY <1>5, FS_CardinalityType
<1> QED BY <1>1, <1>5, <1>6 DEF T, m

\* A page of n ids from rank a on: the elements of these ranks.
LEMMA PageByRank ==
    ASSUME NEW S, S \subseteq Nat, IsFiniteSet(S), NEW a \in Nat, NEW n \in Nat,
           NEW p, p = Slice(NewestFirst(S), a, n)
    PROVE  /\ p \in Seq(S) /\ Len(p) \in 0 .. n
           /\ \A e : e \in ToSet(p) <=> e \in S /\ a < Rank(S, e) /\ Rank(S, e) <= a + Len(p)
           /\ Len(p) = n \/ a + Len(p) >= Cardinality(S)
<1> DEFINE s == NewestFirst(S)
           m == Cardinality(S)
           d == IF a + n <= m THEN a + n ELSE m
<1>1. m \in Nat /\ s \in Seq(S) /\ Len(s) = m /\ ToSet(s) = S
      /\ \A i \in 1 .. m : Rank(S, s[i]) = i
  BY NewestFirstProperties
<1>2. \A i \in 1 .. m : s[i] \in S
  BY <1>1, ElementOfSeq
<1>3. \A e \in S : Rank(S, e) \in 1 .. m
  BY RankRange
<1> HIDE DEF s, m
<1>4. d \in Nat /\ d <= m /\ d <= a + n /\ (d = a + n \/ d = m)
  BY <1>1
<1>5. p = SubSeq(s, a + 1, d)
  <2>1. Min({a + n, m}) = d
    BY <1>1, MinOfTwo
  <2> QED BY <1>1, <2>1 DEF Slice, s
<1> HIDE DEF d
<1>6. \A i \in a + 1 .. d : i \in 1 .. m /\ s[i] \in S
  BY <1>1, <1>2, <1>4
<1>7. /\ p \in Seq(S) /\ Len(p) = IF a + 1 <= d THEN d - a ELSE 0
      /\ \A i \in 1 .. d - a : p[i] = s[a + i]
  <2>1. a + 1 \in Int /\ d \in Int /\ d - (a + 1) + 1 = d - a
        /\ \A i \in Int : a + 1 + i - 1 = a + i
    BY <1>4
  <2>2. /\ p \in Seq(S) /\ Len(p) = IF a + 1 <= d THEN d - (a + 1) + 1 ELSE 0
        /\ \A i \in 1 .. d - (a + 1) + 1 : p[i] = s[a + 1 + i - 1]
    BY <1>5, <1>6, <2>1, SubSeqProperties
  <2> QED BY <2>1, <2>2
<1> DEFINE l == Len(p)
<1>8. l \in 0 .. n /\ DOMAIN p = 1 .. l /\ (l = n \/ a + l >= m)
      /\ l = (IF a + 1 <= d THEN d - a ELSE 0)
  BY <1>1, <1>4, <1>7, LenProperties
<1> HIDE DEF l
<1>9. ASSUME NEW i \in 1 .. l
      PROVE  p[i] \in S /\ Rank(S, p[i]) = a + i
  <2>1. i \in 1 .. d - a /\ a + i \in 1 .. m
    BY <1>1, <1>4, <1>8
  <2>2. p[i] = s[a + i]
    BY <1>7, <2>1
  <2> QED BY <1>1, <1>2, <2>1, <2>2
<1>10. ASSUME NEW e \in S, a < Rank(S, e), Rank(S, e) <= a + l
       PROVE  \E i \in 1 .. l : p[i] = e
  <2> DEFINE r == Rank(S, e)
  <2>1. r \in Nat /\ a < r /\ r <= a + l
    BY <1>1, <1>3, <1>10
  <2> HIDE DEF r
  <2>2. r - a \in 1 .. l /\ a + (r - a) = r
    BY <1>8, <2>1
  <2>3. Rank(S, p[r - a]) = r /\ p[r - a] \in S
    BY <1>9, <2>2
  <2>4. p[r - a] = e
    BY <2>3, RankBijection DEF r
  <2> QED BY <2>2, <2>4
<1>11. ToSet(p) = {e \in S : a < Rank(S, e) /\ Rank(S, e) <= a + l}
  <2>1. ToSet(p) = {p[i] : i \in 1 .. l}
    BY <1>8 DEF ToSet
  <2>2. \A i \in 1 .. l : a < a + i /\ a + i <= a + l
    BY <1>8
  <2>3. ASSUME NEW i \in 1 .. l
        PROVE  p[i] \in S /\ a < Rank(S, p[i]) /\ Rank(S, p[i]) <= a + l
    BY <1>9, <2>2
  <2>4. \A e \in S : a < Rank(S, e) /\ Rank(S, e) <= a + l => \E i \in 1 .. l : p[i] = e
    BY <1>10
  <2> QED BY <2>1, <2>3, <2>4
<1> QED BY <1>7, <1>8, <1>11 DEF l, m

\* A slice from the start that is as long as the first of two sequences is that one.
LEMMA SliceOfConcat ==
    ASSUME NEW S, NEW s \in Seq(S), NEW t \in Seq(S), NEW n \in Nat,
           Len(s) = n \/ (Len(s) <= n /\ t = <<>>)
    PROVE  Slice(s \o t, 0, n) = s
<1> DEFINE d == IF 0 + n <= Len(s \o t) THEN 0 + n ELSE Len(s \o t)
<1>1. /\ Len(s) \in Nat /\ Len(t) \in Nat /\ s \o t \in Seq(S)
      /\ Len(s \o t) = Len(s) + Len(t) /\ (t = <<>> => Len(t) = 0)
      /\ \A i \in 1 .. Len(s) : (s \o t)[i] = s[i] /\ s[i] \in S
  OBVIOUS
<1>2. d = Len(s)
  BY <1>1
<1>3. Slice(s \o t, 0, n) = SubSeq(s \o t, 1, Len(s))
  <2>1. Min({0 + n, Len(s \o t)}) = d
    BY <1>1, MinOfTwo
  <2>2. Slice(s \o t, 0, n) = SubSeq(s \o t, 0 + 1, Min({0 + n, Len(s \o t)}))
    BY DEF Slice
  <2> HIDE DEF d
  <2>3. Slice(s \o t, 0, n) = SubSeq(s \o t, 0 + 1, Len(s))
    BY <1>2, <2>1, <2>2, Zenon
  <2> QED BY <2>3
<1> DEFINE u == SubSeq(s \o t, 1, Len(s))
<1>4. u \in Seq(S) /\ Len(u) = Len(s) /\ \A i \in 1 .. Len(s) : u[i] = s[i]
  BY <1>1
<1>5. u = s
  BY <1>4, SeqEqual
<1> QED BY <1>3, <1>5

-----------------------------------------------------------------------------
(* The inductive invariant, part by part.                                  *)

Busy == pc \in {"batch", "exec"}

\* The last event the worker has gone through.
Done == IF Busy THEN pos - 1 ELSE offset

\* Events are published in order of time.
StreamOK ==
    /\ Len(events) <= MaxEvents
    /\ \A e \in Ids : events[e].at <= clock
    /\ \A e, f \in Ids : e <= f => events[e].at <= events[f].at

\* Where the worker is in its batch; unless it replays from 0-0, past the offset.
WorkerOK ==
    /\ ~Busy => pos = 1 /\ upto = 0
    /\ Busy => pos <= upto + 1 /\ (redone # "everything" => pos > offset)
    /\ pc = "exec" => pos <= upto /\ ~Old(pos)

\* What the worker has read from the dedupe key is still what the key says.
PrevOK ==
    prev = IF pc = "exec" /\ dedupe[Status(pos)].expires > clock
           THEN dedupe[Status(pos)].id ELSE 0

\* An item expires when its event is ItemTtl old, or is gone; what is listed was put there.
ItemsOK ==
    /\ \A e \in 1 .. MaxEvents : item[e] # 0 => e \in Ids /\ item[e] = events[e].at + ItemTtl
    /\ \A e \in index : e \in 1 .. MaxEvents /\ item[e] # 0

\* A dedupe key names an event of its status; it lasts for the window or as long as the
\* event's item.
DedupeOK ==
    \A s \in Statuses : LET d == dedupe[s]
                        IN  IF d.id = 0 THEN d.expires = 0
                            ELSE /\ Status(d.id) = s
                                 /\ \/ d.expires >= events[d.id].at + ItemTtl
                                    \/ d.expires >= events[d.id].at + Window

\* An item in the store is the one its dedupe key names, or older than the window.
ToastOK ==
    \A e \in Ids : Live(e) =>
        \/ e = dedupe[Status(e)].id /\ dedupe[Status(e)].expires > clock
        \/ clock - events[e].at >= Window

\* What the worker has gone through is too old, or something as new of its status is shown.
Covered(e) == Old(e) \/ \E f \in Ids : f >= e /\ Status(f) = Status(e) /\ Shown(f)
CoverOK ==
    ~skipped /\ redone # "everything" /\ ~Crossed => \A e \in 1 .. Done : Covered(e)

\* Until a worker goes through events again nothing past Done has an item or has been read,
\* and what a reader found gone stays gone.
FreshOK ==
    redone = "nothing" =>
        /\ \A e \in Ids : item[e] # 0 => e <= Done
        /\ \A e \in ToSet(fetch.ids) \cup fetch.stale : e \in 1 .. Done
        /\ \A e \in fetch.stale : ~Live(e)

FetchOK ==
    /\ fetch.at = "idle" => fetch = NoFetch
    /\ fetches = 0 => fetch.at = "idle"
    /\ fetch.at \in {"page", "get"} => Len(fetch.out) < Limit

SpokenOK == spoken => alive /\ Ids # {} /\ Status(Len(events)) = last

\* The live ones among the newest k ids of the index.
Found(k) == {e \in index : Rank(index, e) <= k /\ Live(e)}

\* What an undisturbed reader has so far.
ReadOK ==
    quiet /\ fetch.at # "idle" =>
        /\ fetch.out = NewestFirst(Found(fetch.start))
        /\ Len(fetch.out) <= Limit
        /\ fetch.at = "get" =>
              fetch.ids = Slice(NewestFirst(index), fetch.start, Limit - Len(fetch.out))
        /\ fetch.at = "zrem" =>
              \/ fetch.start >= Cardinality(index)
              \/ Len(fetch.out) = Limit
              \/ fetch.start >= 4 * Limit

CenterInv ==
    /\ TypeOK /\ StreamOK /\ WorkerOK /\ PrevOK /\ ItemsOK /\ DedupeOK /\ ToastOK
    /\ CoverOK /\ FreshOK /\ FetchOK /\ SpokenOK /\ ItemsAreListed /\ ReadOK

-----------------------------------------------------------------------------
(* What each kind of step leaves alone and the type of what it changes.    *)

Event == [from : Statuses \cup {"unknown"}, to : Statuses, at : Nat]
Fetch == [at : {"idle", "page", "get", "zrem"}, start : Nat, ids : Seq(Nat),
          out : Seq(Nat), stale : SUBSET Nat]

Publishing == (\E s \in Statuses : Update(s)) \/ StartService \/ OpsStop \/ Exit
Moving == Sync \/ ReadDedupe \/ MaterializeFails \/ SaveOffset \/ CrashWorker \/ StartWorker
Reading == FetchStart \/ FetchPage \/ FetchItems

\* The stream is as it was or has one event more, of now.
Grown ==
    \/ events' = events
    \/ /\ Len(events) < MaxEvents
       /\ \E r \in Event : r.at = clock /\ events' = Append(events, r)

ServiceType == alive \in BOOLEAN /\ last \in Statuses \cup {NoStatus} /\ spoken \in BOOLEAN
WorkerType ==
    /\ offset \in 0 .. Len(events)
    /\ pc \in {"down", "idle", "batch", "exec"}
    /\ pos \in 1 .. Len(events) + 1 /\ upto \in 0 .. Len(events) /\ prev \in 0 .. Len(events)
StoreType ==
    /\ item \in [1 .. MaxEvents -> Nat] /\ index \subseteq Ids
    /\ dedupe \in [Statuses -> [id : 0 .. Len(events), expires : Nat]]
HistoryType ==
    /\ skipped \in BOOLEAN /\ redone \in {"nothing", "a batch", "everything"}
    /\ quiet \in BOOLEAN /\ faults \in Nat

LEMMA TypeParts ==
    TypeOK <=> /\ events \in Seq(Event) /\ ServiceType /\ WorkerType /\ StoreType
               /\ fetch \in Fetch /\ HistoryType /\ fetches \in Nat /\ clock \in Nat
BY DEF TypeOK, Event, Fetch, ServiceType, WorkerType, StoreType, HistoryType

LEMMA NextKinds ==
    ASSUME [Next]_centerVars
    PROVE  \/ Publishing \/ Moving \/ Materialize \/ Reading \/ FetchDone \/ Tick
           \/ UNCHANGED centerVars
BY DEF Next, Publishing, Moving, Reading

LEMMA PublishStep ==
    ASSUME NEW from \in Statuses \cup {"unknown"}, NEW to \in Statuses, clock \in Nat,
           faults \in Nat, Publish(from, to)
    PROVE  /\ faults' \in Nat
           /\ \/ UNCHANGED events
              \/ /\ Len(events) < MaxEvents
                 /\ \E r \in Event : /\ r.at = clock /\ r.to = to
                                     /\ events' = Append(events, r)
<1>1. [from |-> from, to |-> to, at |-> clock] \in Event
  BY DEF Event
<1> QED BY <1>1 DEF Publish, Fault

LEMMA PublishingFrame ==
    ASSUME TypeOK, Publishing
    PROVE  /\ Grown /\ ServiceType' /\ faults' \in Nat
           /\ UNCHANGED <<offset, item, index, dedupe, pc, pos, upto, prev, fetch, fetches,
                          skipped, redone, quiet, clock>>
<1>1. ServiceType /\ clock \in Nat /\ faults \in Nat
  BY TypeParts DEF HistoryType
<1>2. {"connected", "disconnected"} \subseteq Statuses
  BY CenterAssumption
<1>3. ASSUME NEW s \in Statuses, Update(s)
      PROVE  Grown /\ ServiceType' /\ faults' \in Nat
  <2>1. CASE last = NoStatus /\ s # "connected"
    BY <1>1, <1>3, <2>1 DEF Update, ServiceType, Grown
  <2>2. CASE ~ (last = NoStatus /\ s # "connected")
    <3> DEFINE f == IF last = NoStatus THEN "unknown" ELSE last
    <3>1. Publish(f, s) /\ spoken' = (events' # events) /\ last' = s /\ UNCHANGED alive
      BY <1>3, <2>2 DEF Update
    <3>2. f \in Statuses \cup {"unknown"}
      BY <1>1 DEF ServiceType
    <3> HIDE DEF f
    <3>3. Grown /\ faults' \in Nat
      BY <1>1, <3>1, <3>2, PublishStep DEF Grown
    <3> QED BY <1>1, <3>1, <3>3 DEF ServiceType
  <2> QED BY <2>1, <2>2
<1>4. StartService \/ Exit => Grown /\ ServiceType' /\ faults' \in Nat
  BY <1>1 DEF StartService, Exit, Grown, ServiceType
<1>5. OpsStop => Grown /\ ServiceType' /\ faults' \in Nat
  <2> SUFFICES ASSUME OpsStop PROVE Grown /\ ServiceType' /\ faults' \in Nat
    OBVIOUS
  <2>1. Publish("connected", "disconnected") /\ UNCHANGED <<alive, last>>
        /\ spoken' = (spoken /\ events' = events)
    BY DEF OpsStop
  <2>2. Grown /\ faults' \in Nat
    BY <1>1, <1>2, <2>1, PublishStep DEF Grown
  <2> QED BY <1>1, <2>1, <2>2 DEF ServiceType
<1>6. UNCHANGED <<offset, item, index, dedupe, pc, pos, upto, prev, fetch, fetches,
                  skipped, redone, quiet, clock>>
  BY DEF Publishing, Update, StartService, OpsStop, Exit, store, worker, reader
<1> QED BY <1>3, <1>4, <1>5, <1>6 DEF Publishing

LEMMA MovingFrame ==
    ASSUME TypeOK, WorkerOK, Moving
    PROVE  /\ WorkerType' /\ skipped' \in BOOLEAN /\ faults' \in Nat
           /\ redone' \in {"nothing", "a batch", "everything"}
           /\ UNCHANGED <<events, alive, last, spoken, item, index, dedupe, fetch, fetches,
                          quiet, clock>>
<1> DEFINE n == Len(events)
           Good == /\ offset' \in 0 .. n /\ pc' \in {"down", "idle", "batch", "exec"}
                   /\ pos' \in 1 .. n + 1 /\ upto' \in 0 .. n /\ prev' \in 0 .. n
                   /\ faults' \in Nat
           Told == skipped' \in BOOLEAN /\ redone' \in {"nothing", "a batch", "everything"}
<1>1. /\ StoreType /\ n \in Nat /\ clock \in Nat
      /\ events \in Seq(Event) /\ Batch \in Nat
  BY TypeParts, CenterAssumption
<1>2. UNCHANGED <<events, alive, last, spoken, item, index, dedupe, fetch, fetches,
                  quiet, clock>>
  BY DEF Moving, Sync, ReadDedupe, MaterializeFails, SaveOffset, CrashWorker, StartWorker,
         service, store, reader
<1>3. /\ offset \in 0 .. n /\ pos \in 1 .. n + 1 /\ upto \in 0 .. n /\ prev \in 0 .. n
      /\ faults \in Nat /\ pc \in {"down", "idle", "batch", "exec"}
  BY TypeParts DEF WorkerType, HistoryType
<1>4. Sync => Good
  <2> SUFFICES ASSUME Sync PROVE Good
    OBVIOUS
  <2>1. PICK from \in {0, offset} :
            /\ from < n /\ pos' = from + 1
            /\ upto' = Min({from + Batch, n})
            /\ (faults' = faults \/ faults' = faults + 1)
    BY DEF Sync, Fault
  <2>2. pc' = "batch" /\ offset' = offset /\ prev' = prev
    BY DEF Sync
  <2> HIDE DEF n
  <2>3. from \in Nat /\ from + Batch \in Nat
    BY <1>1, <1>3, <2>1
  <2>4. upto' = IF from + Batch <= n THEN from + Batch ELSE n
    BY <1>1, <2>1, <2>3, MinOfTwo
  <2>5. upto' \in 0 .. n /\ pos' \in 1 .. n + 1
    BY <1>1, <2>1, <2>3, <2>4
  <2> QED BY <1>3, <2>1, <2>2, <2>5
<1>5. ReadDedupe => Good
  <2> SUFFICES ASSUME ReadDedupe PROVE Good
    OBVIOUS
  <2>1. /\ offset' = offset /\ upto' = upto /\ faults' = faults
        /\ pos <= upto /\ pc = "batch"
        /\ \/ pos' = pos + 1 /\ pc' = pc /\ prev' = prev
           \/ /\ prev' \in {0, dedupe[Status(pos)].id} /\ pc' = "exec"
              /\ pos' = pos
    BY DEF ReadDedupe
  <2>2. pos \in 1 .. n
    BY <1>1, <1>3, <2>1
  <2>3. dedupe[Status(pos)].id \in 0 .. n
    <3>1. events[pos] \in Event
      BY <1>1, <2>2, ElementOfSeq
    <3>2. Status(pos) \in Statuses
      BY <3>1 DEF Status, Event
    <3> QED BY <1>1, <3>2 DEF StoreType
  <2> HIDE DEF n
  <2>4. pos' \in 1 .. n + 1 /\ prev' \in 0 .. n
    BY <1>1, <1>3, <2>1, <2>2, <2>3
  <2> QED BY <1>3, <2>1, <2>4
<1>6. MaterializeFails => Good
  <2> SUFFICES ASSUME MaterializeFails PROVE Good
    OBVIOUS
  <2>1. /\ offset' = offset /\ upto' = upto /\ faults' = faults + 1
        /\ pos' = pos + 1 /\ prev' = 0 /\ pc' = "batch"
    BY DEF MaterializeFails, Fault
  <2>2. pos <= upto
    BY DEF MaterializeFails, WorkerOK
  <2> HIDE DEF n
  <2> QED BY <1>1, <1>3, <2>1, <2>2
<1>7. SaveOffset => Good
  <2> SUFFICES ASSUME SaveOffset PROVE Good
    OBVIOUS
  <2>1. /\ offset' \in {offset, upto} /\ faults' \in {faults, faults + 1}
        /\ pc' = "idle" /\ pos' = 1 /\ upto' = 0 /\ prev' = 0
    BY DEF SaveOffset, BatchOver, BatchUnsaved, Fault
  <2> HIDE DEF n
  <2> QED BY <1>1, <1>3, <2>1
<1>8. CrashWorker => Good
  <2> SUFFICES ASSUME CrashWorker PROVE Good
    OBVIOUS
  <2>1. /\ faults' = faults + 1 /\ offset' = offset
        /\ pc' = "down" /\ pos' = 1 /\ upto' = 0 /\ prev' = 0
    BY DEF CrashWorker, BatchOver, BatchUnsaved, Fault
  <2> HIDE DEF n
  <2> QED BY <1>1, <1>3, <2>1
<1>9. StartWorker => Good
  <2> SUFFICES ASSUME StartWorker PROVE Good
    OBVIOUS
  <2>1. pc' = "idle" /\ UNCHANGED <<offset, pos, upto, prev, faults>>
    BY DEF StartWorker
  <2> HIDE DEF n
  <2> QED BY <1>3, <2>1
<1>10. Told
  <2>1. skipped \in BOOLEAN /\ redone \in {"nothing", "a batch", "everything"}
    BY TypeParts DEF HistoryType
  <2>2. skipped' = skipped \/ skipped' = TRUE
    BY DEF Moving, Sync, ReadDedupe, MaterializeFails, SaveOffset, CrashWorker, StartWorker
  <2>3. redone' = redone \/ redone' = "a batch" \/ redone' = "everything"
    BY DEF Moving, Sync, ReadDedupe, MaterializeFails, SaveOffset, CrashWorker, StartWorker,
           BatchUnsaved
  <2> QED BY <2>1, <2>2, <2>3
<1>11. Good
  BY <1>4, <1>5, <1>6, <1>7, <1>8, <1>9, Zenon DEF Moving
<1>12. WorkerType' /\ faults' \in Nat
  BY <1>2, <1>11 DEF WorkerType
<1> QED BY <1>2, <1>10, <1>12

\* What Materialize does to the store.
Expiry == events[pos].at + ItemTtl
Gone == IF prev \in {0, pos} THEN {} ELSE {prev}

LEMMA MaterializeFrame ==
    ASSUME TypeOK, StreamOK, WorkerOK, Materialize
    PROVE  /\ WorkerType' /\ StoreType'
           /\ pos \in Ids /\ Status(pos) \in Statuses /\ ~Old(pos) /\ Expiry \in Nat
           /\ clock < Expiry
           /\ pc = "exec" /\ pos' = pos + 1 /\ pc' = "batch" /\ prev' = 0 /\ quiet' = FALSE
           /\ index' = (index \ Gone) \cup {pos}
           /\ \A e \in 1 .. MaxEvents : item'[e] = IF e = pos THEN Expiry
                                                   ELSE IF e \in Gone THEN 0 ELSE item[e]
           /\ \A s \in Statuses : dedupe'[s] =
                  IF s # Status(pos) THEN dedupe[s]
                  ELSE [id |-> pos, expires |-> IF clock + Window <= Expiry
                                                THEN clock + Window ELSE Expiry]
           /\ UNCHANGED <<events, alive, last, spoken, offset, upto, fetch, fetches,
                          skipped, redone, faults, clock>>
<1> DEFINE n == Len(events)
           until == Min({clock + Window, Expiry})
<1>1. /\ n \in Nat /\ clock \in Nat /\ events \in Seq(Event)
      /\ item \in [1 .. MaxEvents -> Nat] /\ index \subseteq 1 .. n
      /\ dedupe \in [Statuses -> [id : 0 .. n, expires : Nat]]
  BY TypeParts DEF StoreType, Ids
<1>2. /\ offset \in 0 .. n /\ pos \in 1 .. n + 1 /\ upto \in 0 .. n /\ prev \in 0 .. n
  BY TypeParts DEF WorkerType
<1>3. ItemTtl \in Nat /\ Window \in Nat /\ MaxEvents \in Nat /\ n <= MaxEvents
  BY CenterAssumption DEF StreamOK
<1>4. /\ pc = "exec" /\ pos' = pos + 1 /\ pc' = "batch" /\ prev' = 0 /\ quiet' = FALSE
      /\ UNCHANGED <<events, alive, last, spoken, offset, upto, fetch, fetches,
                     skipped, redone, faults, clock>>
  BY DEF Materialize, PutItem, service, reader
<1>5. pos <= upto /\ ~Old(pos)
  BY <1>4 DEF WorkerOK
<1>6. pos \in 1 .. n /\ pos \in 1 .. MaxEvents
  BY <1>1, <1>2, <1>3, <1>5
<1>7. events[pos] \in Event
  BY <1>1, <1>6, ElementOfSeq
<1>8. Status(pos) \in Statuses /\ events[pos].at \in Nat /\ Expiry \in Nat
  BY <1>3, <1>7 DEF Status, Event, Expiry
<1>9. clock < Expiry
  <2>1. ~ (clock - events[pos].at >= ItemTtl)
    BY <1>5 DEF Old
  <2>2. clock \in Nat /\ ItemTtl \in Nat /\ events[pos].at \in Nat
    BY <1>1, <1>3, <1>8
  <2> QED BY <2>1, <2>2 DEF Expiry
<1>10. until = IF clock + Window <= Expiry THEN clock + Window ELSE Expiry
  <2>1. clock + Window \in Int /\ Expiry \in Int
    BY <1>1, <1>3, <1>8
  <2> QED BY <2>1, MinOfTwo
<1>11. Replaced = Gone
  BY DEF Replaced, Gone
<1>12. /\ index' = (index \ Replaced) \cup {pos}
       /\ item' = [f \in DOMAIN item |-> IF f = pos THEN Expiry
                                        ELSE IF f \in Replaced THEN 0 ELSE item[f]]
       /\ dedupe' = [dedupe EXCEPT ![Status(pos)] = [id |-> pos, expires |-> until]]
  BY DEF Materialize, PutItem, Expiry
<1> HIDE DEF until
<1>13. \A e \in 1 .. MaxEvents : item'[e] = IF e = pos THEN Expiry
                                            ELSE IF e \in Gone THEN 0 ELSE item[e]
  BY <1>1, <1>11, <1>12
<1>14. \A s \in Statuses : dedupe'[s] = IF s # Status(pos) THEN dedupe[s]
                                        ELSE [id |-> pos, expires |-> until]
  BY <1>1, <1>8, <1>12
<1>15. until \in Nat
  BY <1>1, <1>3, <1>8, <1>10
<1>16. /\ item' \in [1 .. MaxEvents -> Nat] /\ index' \subseteq 1 .. n
       /\ dedupe' \in [Statuses -> [id : 0 .. n, expires : Nat]]
  <2>1. item' \in [1 .. MaxEvents -> Nat]
    BY <1>1, <1>8, <1>12
  <2>2. index' \subseteq 1 .. n
    BY <1>1, <1>6, <1>12
  <2>3. [id |-> pos, expires |-> until] \in [id : 0 .. n, expires : Nat]
    BY <1>6, <1>15
  <2>4. dedupe' \in [Statuses -> [id : 0 .. n, expires : Nat]]
    BY <1>1, <1>12, <2>3
  <2> QED BY <2>1, <2>2, <2>4
<1>17. StoreType'
  BY <1>4, <1>16 DEF StoreType, Ids
<1>18. WorkerType'
  BY <1>1, <1>2, <1>4, <1>6 DEF WorkerType
<1>19. \A s \in Statuses : dedupe'[s] =
           IF s # Status(pos) THEN dedupe[s]
           ELSE [id |-> pos, expires |-> IF clock + Window <= Expiry
                                         THEN clock + Window ELSE Expiry]
  BY <1>10, <1>14, Zenon
<1> QED
  BY <1>4, <1>5, <1>6, <1>8, <1>9, <1>11, <1>12, <1>13, <1>17, <1>18, <1>19 DEF Ids

LEMMA LimitType == Limit \in Nat /\ Limit > 0
BY CenterAssumption

LEMMA IndexFinite ==
    ASSUME TypeOK
    PROVE  /\ index \subseteq Nat /\ IsFiniteSet(index)
           /\ Cardinality(index) \in Nat
<1>1. Len(events) \in Nat /\ index \subseteq 1 .. Len(events)
  BY TypeParts DEF StoreType, Ids
<1> QED BY <1>1, FiniteIds, FS_CardinalityType

\* The live ones among the ids a reader has been given.
Hits == {e \in ToSet(fetch.ids) : Live(e)}
Misses == {e \in ToSet(fetch.ids) : ~Live(e)}

LEMMA HitsFinite ==
    ASSUME TypeOK
    PROVE  /\ Hits \subseteq Nat /\ IsFiniteSet(Hits) /\ Misses \subseteq Nat
           /\ Cardinality(Hits) \in 0 .. Len(fetch.ids)
<1> DEFINE T == ToSet(fetch.ids)
           m == Len(fetch.ids)
<1>1. fetch.ids \in Seq(Nat)
  BY TypeParts DEF Fetch
<1>2. m \in Nat /\ IsFiniteSet(T) /\ Cardinality(T) \in 0 .. m
  BY <1>1, ShortRange
<1>3. T \subseteq Nat
  BY <1>1 DEF ToSet
<1> HIDE DEF T, m
<1>4. Hits \in SUBSET T /\ Misses \in SUBSET T
  BY DEF Hits, Misses, T
<1>5. IsFiniteSet(Hits) /\ Cardinality(Hits) <= Cardinality(T)
  BY <1>2, <1>4, FS_Subset
<1>6. Cardinality(Hits) \in Nat
  BY <1>5, FS_CardinalityType
<1> QED BY <1>2, <1>3, <1>4, <1>5, <1>6 DEF m

LEMMA ReadingFrame ==
    ASSUME TypeOK, FetchOK, Reading
    PROVE  /\ fetch' \in Fetch /\ fetches' \in Nat /\ quiet' \in BOOLEAN
           /\ UNCHANGED <<events, alive, last, spoken, offset, item, index, dedupe,
                          pc, pos, upto, prev, skipped, redone, faults, clock>>
           /\ \/ FetchStart /\ fetch' = [NoFetch EXCEPT !.at = "page"] /\ fetches' = fetches + 1
              \/ /\ FetchPage /\ fetch.at = "page" /\ UNCHANGED <<fetches, quiet>>
                 /\ fetch' = [fetch EXCEPT
                        !.ids = Slice(NewestFirst(index), fetch.start, Limit - Len(fetch.out)),
                        !.at = IF fetch'.ids = <<>> THEN "zrem" ELSE "get"]
              \/ /\ FetchItems /\ fetch.at = "get" /\ UNCHANGED <<fetches, quiet>>
                 /\ fetch' = [fetch EXCEPT
                        !.out = fetch.out \o NewestFirst(Hits),
                        !.start = fetch.start + Len(fetch.ids),
                        !.stale = fetch.stale \cup Misses,
                        !.at = IF Len(fetch'.out) < Limit /\ fetch'.start < 4 * Limit
                               THEN "page" ELSE "zrem"]
<1> DEFINE Frame == UNCHANGED <<events, alive, last, spoken, offset, item, index, dedupe,
                                pc, pos, upto, prev, skipped, redone, faults, clock>>
<1>1. /\ fetch \in Fetch /\ fetches \in Nat /\ quiet \in BOOLEAN
  BY TypeParts DEF HistoryType
<1>2. Frame
  BY DEF Reading, FetchStart, FetchPage, FetchItems, service, store, worker
<1>3. CASE FetchStart
  <2>1. fetch' = [NoFetch EXCEPT !.at = "page"] /\ fetches' = fetches + 1 /\ quiet' = TRUE
    BY <1>3 DEF FetchStart
  <2>2. fetch' \in Fetch
    <3>1. <<>> \in Seq(Nat) /\ {} \in SUBSET Nat /\ 0 \in Nat
      BY EmptySeq
    <3>2. fetch' = [at |-> "page", start |-> 0, ids |-> <<>>, out |-> <<>>, stale |-> {}]
      BY <2>1 DEF NoFetch
    <3> QED BY <3>1, <3>2 DEF Fetch
  <2>3. fetches' \in Nat
    BY <1>1, <2>1
  <2> QED BY <1>2, <1>3, <2>1, <2>2, <2>3
<1>4. CASE FetchPage
  <2> DEFINE a == fetch.start
             n == Limit - Len(fetch.out)
             p == Slice(NewestFirst(index), a, n)
  <2>1. fetch.at = "page" /\ UNCHANGED <<fetches, quiet>>
        /\ fetch' = [fetch EXCEPT !.ids = p, !.at = IF p = <<>> THEN "zrem" ELSE "get"]
    BY <1>4 DEF FetchPage
  <2>2. a \in Nat /\ Len(fetch.out) \in Nat /\ Len(fetch.out) < Limit
    BY <1>1, <2>1, LenProperties DEF Fetch, FetchOK
  <2>3. n \in Nat
    BY <2>2, LimitType
  <2> HIDE DEF a, n
  <2>4. index \subseteq Nat /\ IsFiniteSet(index)
    BY IndexFinite
  <2>5. p \in Seq(index)
    <3>1. PICK q : q = p
      OBVIOUS
    <3>2. q \in Seq(index)
      BY <2>2, <2>3, <2>4, <3>1, PageByRank, Zenon
    <3> QED BY <3>1, <3>2
  <2>6. p \in Seq(Nat)
    BY <2>4, <2>5, SeqMonotonic
  <2> HIDE DEF p
  <2>7. fetch' \in Fetch /\ fetch'.ids = p
    BY <1>1, <2>1, <2>6 DEF Fetch
  <2>8. fetch' = [fetch EXCEPT !.ids = p, !.at = IF fetch'.ids = <<>> THEN "zrem" ELSE "get"]
    BY <2>1, <2>7
  <2> QED BY <1>1, <1>2, <1>4, <2>1, <2>7, <2>8 DEF a, n, p
<1>5. CASE FetchItems
  <2> DEFINE out == fetch.out \o NewestFirst(Hits)
             start == fetch.start + Len(fetch.ids)
  <2>1. /\ fetch.at = "get" /\ UNCHANGED <<fetches, quiet>>
        /\ fetch' = [fetch EXCEPT !.out = out, !.start = start,
                !.stale = fetch.stale \cup Misses,
                !.at = IF Len(out) < Limit /\ start < 4 * Limit THEN "page" ELSE "zrem"]
    BY <1>5 DEF FetchItems, Hits, Misses
  <2>2. fetch.out \in Seq(Nat) /\ Len(fetch.ids) \in Nat /\ fetch.start \in Nat
        /\ fetch.stale \subseteq Nat
    BY <1>1, LenProperties DEF Fetch
  <2>3. NewestFirst(Hits) \in Seq(Nat)
    BY HitsFinite, NewestFirstProperties, SeqMonotonic
  <2>4. out \in Seq(Nat) /\ start \in Nat
    BY <2>2, <2>3, ConcatProperties
  <2>5. fetch.stale \cup Misses \in SUBSET Nat
    BY <2>2, HitsFinite
  <2> HIDE DEF out, start
  <2>6. fetch' \in Fetch /\ fetch'.out = out /\ fetch'.start = start
    BY <1>1, <2>1, <2>4, <2>5 DEF Fetch
  <2>7. fetch' = [fetch EXCEPT !.out = out, !.start = start,
                !.stale = fetch.stale \cup Misses,
                !.at = IF Len(fetch'.out) < Limit /\ fetch'.start < 4 * Limit
                       THEN "page" ELSE "zrem"]
    BY <2>1, <2>6
  <2> QED BY <1>1, <1>2, <1>5, <2>1, <2>6, <2>7 DEF out, start
<1> QED BY <1>3, <1>4, <1>5 DEF Reading

LEMMA DoneFrame ==
    ASSUME TypeOK, FetchDone
    PROVE  /\ fetch.at = "zrem" /\ fetch' = NoFetch /\ fetch' \in Fetch /\ quiet' = FALSE
           /\ index' \in {index, index \ fetch.stale} /\ faults' \in Nat
           /\ UNCHANGED <<events, alive, last, spoken, offset, item, dedupe, fetches,
                          pc, pos, upto, prev, skipped, redone, clock>>
<1>1. fetch' = NoFetch /\ NoFetch \in Fetch
  BY DEF FetchDone, NoFetch, Fetch
<1>2. faults \in Nat
  BY TypeParts DEF HistoryType
<1>3. faults' \in Nat
  BY <1>2 DEF FetchDone, Fault
<1> QED BY <1>1, <1>3 DEF FetchDone, service, worker

LEMMA TickFrame ==
    ASSUME TypeOK, Tick
    PROVE  /\ clock' = clock + 1 /\ quiet' = FALSE /\ pc \in {"down", "idle"}
           /\ UNCHANGED <<events, alive, last, spoken, offset, item, index, dedupe, fetch,
                          fetches, pc, pos, upto, prev, skipped, redone, faults>>
BY DEF Tick, service, store, worker, reader

LEMMA StutterFrame ==
    ASSUME UNCHANGED centerVars
    PROVE  UNCHANGED <<events, alive, last, spoken, offset, item, index, dedupe, fetch,
                       fetches, pc, pos, upto, prev, skipped, redone, quiet, faults, clock>>
BY DEF centerVars, service, store, worker, reader



LEMMA GrownFacts ==
    ASSUME events \in Seq(Event), clock \in Nat, Grown
    PROVE  /\ events' \in Seq(Event) /\ Len(events) \in Nat /\ Len(events') \in Nat
           /\ Len(events) <= Len(events') /\ (Len(events) <= MaxEvents => Len(events') <= MaxEvents)
           /\ \A e \in Ids : e \in Ids' /\ events'[e] = events[e]
           /\ \A e \in Ids' : e \notin Ids => e = Len(events') /\ events'[e].at = clock
<1> DEFINE n == Len(events)
<1>1. n \in Nat
  OBVIOUS
<1>2. CASE events' = events
  BY <1>1, <1>2 DEF Ids
<1>3. CASE n < MaxEvents /\ \E r \in Event : r.at = clock /\ events' = Append(events, r)
  <2>1. PICK r \in Event : r.at = clock /\ events' = Append(events, r)
    BY <1>3
  <2>2. /\ events' \in Seq(Event) /\ Len(events') = n + 1
        /\ \A i \in 1 .. n : events'[i] = events[i]
        /\ events'[n + 1] = r
    BY <2>1, AppendProperties
  <2>3. n + 1 <= MaxEvents
    BY <1>1, <1>3, CenterAssumption
  <2> HIDE DEF n
  <2>4. \A e \in 1 .. n + 1 : e \notin 1 .. n => e = n + 1
    BY <1>1
  <2>5. \A e \in 1 .. n : e \in 1 .. n + 1
    BY <1>1
  <2>6. n <= n + 1 /\ n + 1 \in Nat
    BY <1>1
  <2> QED BY <1>1, <2>1, <2>2, <2>3, <2>4, <2>5, <2>6 DEF Ids, n
<1> QED BY <1>2, <1>3 DEF Grown

LEMMA EventTypes ==
    ASSUME TypeOK
    PROVE  /\ Len(events) \in Nat /\ clock \in Nat /\ ItemTtl \in Nat /\ Window \in Nat
           /\ Window > 0 /\ ItemTtl > 0
           /\ \A e \in Ids : e \in Nat /\ events[e].at \in Nat /\ Status(e) \in Statuses
<1>1. events \in Seq(Event) /\ clock \in Nat
  BY TypeParts
<1>2. Len(events) \in Nat
  BY <1>1, LenProperties
<1>3. \A e \in Ids : events[e] \in Event
  BY <1>1, ElementOfSeq DEF Ids
<1>4. \A e \in Ids : events[e].at \in Nat /\ Status(e) \in Statuses
  BY <1>3 DEF Event, Status
<1>5. \A e \in Ids : e \in Nat
  BY <1>2 DEF Ids
<1>6. ItemTtl \in Nat \ {0} /\ Window \in Nat \ {0}
  BY CenterAssumption
<1> QED BY <1>1, <1>2, <1>4, <1>5, <1>6

LEMMA TypeStep ==
    ASSUME TypeOK, StreamOK, WorkerOK, FetchOK, [Next]_centerVars
    PROVE  TypeOK'
<1>1. /\ events \in Seq(Event) /\ ServiceType /\ WorkerType /\ StoreType
      /\ fetch \in Fetch /\ HistoryType /\ fetches \in Nat /\ clock \in Nat
  BY TypeParts
<1>2. TypeOK' <=> /\ (events \in Seq(Event))' /\ ServiceType' /\ WorkerType' /\ StoreType'
                  /\ (fetch \in Fetch)' /\ HistoryType' /\ (fetches \in Nat)' /\ (clock \in Nat)'
  BY DEF TypeOK, Event, Fetch, ServiceType, WorkerType, StoreType, HistoryType
<1>3. CASE Publishing
  <2>1. /\ Grown /\ ServiceType' /\ faults' \in Nat
        /\ UNCHANGED <<offset, item, index, dedupe, pc, pos, upto, prev, fetch, fetches,
                       skipped, redone, quiet, clock>>
    BY <1>3, PublishingFrame
  <2> DEFINE n == Len(events)
             m == Len(events')
  <2>2. events' \in Seq(Event) /\ n \in Nat /\ m \in Nat /\ n <= m
    BY <1>1, <2>1, GrownFacts
  <2>3. /\ offset \in 0 .. n /\ pc \in {"down", "idle", "batch", "exec"}
        /\ pos \in 1 .. n + 1 /\ upto \in 0 .. n /\ prev \in 0 .. n
    BY <1>1 DEF WorkerType
  <2>4. /\ item \in [1 .. MaxEvents -> Nat] /\ index \subseteq 1 .. n
        /\ dedupe \in [Statuses -> [id : 0 .. n, expires : Nat]]
    BY <1>1 DEF StoreType, Ids
  <2> HIDE DEF n, m
  <2>5. \A i \in 0 .. n : i \in 0 .. m
    BY <2>2
  <2>6. WorkerType'
    <3>1. /\ offset \in 0 .. m /\ pos \in 1 .. m + 1 /\ upto \in 0 .. m /\ prev \in 0 .. m
      BY <2>2, <2>3
    <3> QED BY <2>1, <2>3, <3>1 DEF WorkerType, m
  <2>7. StoreType'
    <3>1. index \subseteq 1 .. m
      BY <2>2, <2>4
    <3>2. dedupe \in [Statuses -> [id : 0 .. m, expires : Nat]]
      BY <2>4, <2>5
    <3> QED BY <2>1, <2>4, <3>1, <3>2 DEF StoreType, Ids, m
  <2>8. HistoryType'
    BY <1>1, <2>1 DEF HistoryType
  <2> QED BY <1>1, <1>2, <2>1, <2>2, <2>6, <2>7, <2>8
<1>4. CASE Moving
  <2>1. /\ WorkerType' /\ skipped' \in BOOLEAN /\ faults' \in Nat
        /\ redone' \in {"nothing", "a batch", "everything"}
        /\ UNCHANGED <<events, alive, last, spoken, item, index, dedupe, fetch, fetches,
                       quiet, clock>>
    BY <1>4, MovingFrame
  <2>2. StoreType' /\ ServiceType' /\ HistoryType'
    BY <1>1, <2>1 DEF StoreType, ServiceType, HistoryType, Ids
  <2> QED BY <1>1, <1>2, <2>1, <2>2
<1>5. CASE Materialize
  <2>1. /\ WorkerType' /\ StoreType' /\ quiet' = FALSE
        /\ UNCHANGED <<events, alive, last, spoken, fetch, fetches, skipped, redone, faults,
                       clock>>
    BY <1>5, MaterializeFrame
  <2>2. ServiceType' /\ HistoryType'
    BY <1>1, <2>1 DEF ServiceType, HistoryType
  <2> QED BY <1>1, <1>2, <2>1, <2>2
<1>6. CASE Reading
  <2>1. /\ fetch' \in Fetch /\ fetches' \in Nat /\ quiet' \in BOOLEAN
        /\ UNCHANGED <<events, alive, last, spoken, offset, item, index, dedupe,
                       pc, pos, upto, prev, skipped, redone, faults, clock>>
    BY <1>6, ReadingFrame
  <2>2. WorkerType' /\ StoreType' /\ ServiceType' /\ HistoryType'
    BY <1>1, <2>1 DEF WorkerType, StoreType, ServiceType, HistoryType, Ids
  <2> QED BY <1>1, <1>2, <2>1, <2>2
<1>7. CASE FetchDone
  <2>1. /\ fetch' \in Fetch /\ quiet' = FALSE
        /\ index' \in {index, index \ fetch.stale} /\ faults' \in Nat
        /\ UNCHANGED <<events, alive, last, spoken, offset, item, dedupe, fetches,
                       pc, pos, upto, prev, skipped, redone, clock>>
    BY <1>7, DoneFrame
  <2>2. WorkerType' /\ StoreType' /\ ServiceType' /\ HistoryType'
    BY <1>1, <2>1 DEF WorkerType, StoreType, ServiceType, HistoryType, Ids
  <2> QED BY <1>1, <1>2, <2>1, <2>2
<1>8. CASE Tick
  <2>1. /\ clock' = clock + 1 /\ quiet' = FALSE
        /\ UNCHANGED <<events, alive, last, spoken, offset, item, index, dedupe, fetch,
                       fetches, pc, pos, upto, prev, skipped, redone, faults>>
    BY <1>8, TickFrame
  <2>2. WorkerType' /\ StoreType' /\ ServiceType' /\ HistoryType'
    BY <1>1, <2>1 DEF WorkerType, StoreType, ServiceType, HistoryType, Ids
  <2>3. clock' \in Nat
    BY <1>1, <2>1
  <2> QED BY <1>1, <1>2, <2>1, <2>2, <2>3
<1>9. CASE UNCHANGED centerVars
  BY <1>1, <1>2, <1>9, StutterFrame
     DEF WorkerType, StoreType, ServiceType, HistoryType, Ids
<1> QED BY <1>3, <1>4, <1>5, <1>6, <1>7, <1>8, <1>9, NextKinds

\* What holds of the stream and the clock in every step.
LEMMA TimeStep ==
    ASSUME TypeOK, StreamOK, WorkerOK, FetchOK, [Next]_centerVars
    PROVE  /\ Len(events') \in Nat /\ clock' \in Nat /\ clock <= clock'
           /\ Len(events) <= Len(events') /\ Len(events') <= MaxEvents
           /\ \A e \in Ids : /\ e \in Ids' /\ events'[e] = events[e]
                             /\ Status(e)' = Status(e) /\ (Old(e) => Old(e)')
           /\ \A e \in Ids' : e \notin Ids => /\ e = Len(events') /\ events'[e].at = clock
                                              /\ Publishing
           /\ Publishing \/ UNCHANGED events
           /\ Tick \/ UNCHANGED clock
<1>1. Grown /\ (Publishing \/ UNCHANGED events) /\ ((Tick /\ clock' = clock + 1) \/ UNCHANGED clock)
  <2>1. Publishing => Grown /\ UNCHANGED clock
    BY PublishingFrame
  <2>2. Moving => UNCHANGED <<events, clock>>
    BY MovingFrame
  <2>3. Materialize => UNCHANGED <<events, clock>>
    BY MaterializeFrame
  <2>4. Reading => UNCHANGED <<events, clock>>
    BY ReadingFrame
  <2>5. FetchDone => UNCHANGED <<events, clock>>
    BY DoneFrame
  <2>6. Tick => UNCHANGED events /\ clock' = clock + 1
    BY TickFrame
  <2>7. UNCHANGED centerVars => UNCHANGED <<events, clock>>
    BY StutterFrame
  <2> QED BY <2>1, <2>2, <2>3, <2>4, <2>5, <2>6, <2>7, NextKinds DEF Grown
<1>2. /\ Len(events) \in Nat /\ clock \in Nat /\ ItemTtl \in Nat
      /\ \A e \in Ids : events[e].at \in Nat
  BY EventTypes
<1>3. events \in Seq(Event)
  BY TypeParts
<1>4. /\ Len(events') \in Nat /\ Len(events) <= Len(events') /\ Len(events') <= MaxEvents
      /\ \A e \in Ids : e \in Ids' /\ events'[e] = events[e]
      /\ \A e \in Ids' : e \notin Ids => e = Len(events') /\ events'[e].at = clock
  BY <1>1, <1>2, <1>3, GrownFacts DEF StreamOK
<1>5. clock' \in Nat /\ clock <= clock'
  BY <1>1, <1>2
<1>6. ASSUME NEW e \in Ids
      PROVE  Status(e)' = Status(e) /\ (Old(e) => Old(e)')
  <2>1. events'[e] = events[e] /\ events[e].at \in Nat
    BY <1>2, <1>4, <1>6
  <2>2. Status(e)' = Status(e)
    BY <2>1 DEF Status
  <2>3. Old(e) => Old(e)'
    BY <1>2, <1>5, <2>1 DEF Old
  <2> QED BY <2>2, <2>3
<1>7. ASSUME NEW e \in Ids', e \notin Ids
      PROVE  Publishing
  BY <1>1, <1>7 DEF Ids
<1> QED BY <1>1, <1>4, <1>5, <1>6, <1>7

LEMMA StreamStep ==
    ASSUME TypeOK, StreamOK, WorkerOK, FetchOK, [Next]_centerVars
    PROVE  StreamOK'
<1>1. /\ Len(events') \in Nat /\ clock' \in Nat /\ clock <= clock'
      /\ Len(events') <= MaxEvents
      /\ \A e \in Ids : events'[e] = events[e]
      /\ \A e \in Ids' : e \notin Ids => e = Len(events') /\ events'[e].at = clock
  BY TimeStep
<1>2. /\ clock \in Nat /\ \A e \in Ids : events[e].at \in Nat
  BY EventTypes
<1>3. /\ \A e \in Ids : events[e].at <= clock
      /\ \A e, f \in Ids : e <= f => events[e].at <= events[f].at
  BY DEF StreamOK
<1>4. \A e \in Ids' : e \in Nat /\ e <= Len(events')
  BY <1>1 DEF Ids
<1>5. \A e \in Ids' : events'[e].at \in Nat /\ events'[e].at <= clock
  BY <1>1, <1>2, <1>3
<1>6. ASSUME NEW e \in Ids', NEW f \in Ids', e <= f
      PROVE  events'[e].at <= events'[f].at
  <2>1. CASE e \in Ids /\ f \in Ids
    BY <1>1, <1>3, <1>6, <2>1
  <2>2. CASE e \in Ids /\ f \notin Ids
    BY <1>1, <1>3, <2>2
  <2>3. CASE e \notin Ids
    <3>1. e = Len(events') /\ f <= Len(events') /\ e \in Nat /\ f \in Nat
      BY <1>1, <1>4, <2>3
    <3>2. e = f
      BY <1>6, <3>1
    <3> QED BY <1>5, <3>2
  <2> QED BY <2>1, <2>2, <2>3
<1>7. \A e \in Ids' : events'[e].at <= clock'
  BY <1>1, <1>2, <1>5
<1> QED BY <1>1, <1>6, <1>7 DEF StreamOK

LEMMA WorkerTypes ==
    ASSUME TypeOK
    PROVE  /\ offset \in Nat /\ pos \in Nat /\ upto \in Nat /\ prev \in Nat /\ pos >= 1
           /\ offset <= Len(events) /\ upto <= Len(events) /\ prev <= Len(events)
           /\ pc \in {"down", "idle", "batch", "exec"}
BY TypeParts, EventTypes DEF WorkerType

\* The event the worker is at.
LEMMA PosIsEvent ==
    ASSUME TypeOK, WorkerOK, pc = "exec"
    PROVE  pos \in Ids
BY WorkerTypes, EventTypes DEF WorkerOK, Ids

LEMMA WorkerStep ==
    ASSUME TypeOK, StreamOK, WorkerOK, FetchOK, [Next]_centerVars
    PROVE  WorkerOK'
<1>1. /\ offset \in Nat /\ pos \in Nat /\ upto \in Nat /\ Len(events) \in Nat
      /\ pc \in {"down", "idle", "batch", "exec"} /\ Batch \in Nat
  BY WorkerTypes, EventTypes, CenterAssumption
<1>2. /\ ~Busy => pos = 1 /\ upto = 0
      /\ Busy => pos <= upto + 1
      /\ Busy /\ redone # "everything" => pos > offset
      /\ pc = "exec" => pos <= upto /\ ~Old(pos) /\ pos \in Ids
  BY PosIsEvent DEF WorkerOK
<1>3. ASSUME UNCHANGED <<offset, pc, pos, upto, redone, clock>>, Grown
      PROVE  WorkerOK'
  <2>1. events \in Seq(Event) /\ clock \in Nat
    BY TypeParts
  <2>2. \A e \in Ids : events'[e] = events[e]
    BY <1>3, <2>1, GrownFacts
  <2>3. pc = "exec" => Old(pos)' = Old(pos)
    BY <1>2, <1>3, <2>2 DEF Old
  <2> QED BY <1>3, <2>3 DEF WorkerOK, Busy
<1>4. CASE Publishing
  BY <1>3, <1>4, PublishingFrame
<1>5. CASE Moving
  <2>0. UNCHANGED <<events, clock>>
    BY <1>5, MovingFrame
  <2>1. CASE Sync
    <3>1. PICK from \in {0, offset} :
              /\ from < Len(events) /\ pos' = from + 1
              /\ upto' = Min({from + Batch, Len(events)})
              /\ (from = offset \/ redone' = "everything")
      BY <2>1 DEF Sync
    <3>2. pc' = "batch" /\ offset' = offset
      BY <2>1 DEF Sync
    <3>3. from \in Nat /\ from + Batch \in Nat
      BY <1>1, <3>1
    <3>4. upto' \in Nat /\ from <= upto'
      BY <1>1, <3>1, <3>3, MinOfTwo
    <3>5. pos' <= upto' + 1 /\ (redone' # "everything" => pos' > offset')
      BY <1>1, <3>1, <3>2, <3>3, <3>4
    <3> QED BY <3>2, <3>5 DEF WorkerOK, Busy
  <2>2. CASE ReadDedupe
    <3>1. /\ pc = "batch" /\ pos <= upto /\ offset' = offset /\ upto' = upto /\ redone' = redone
          /\ \/ pos' = pos + 1 /\ pc' = "batch"
             \/ pos' = pos /\ pc' = "exec" /\ ~Old(pos)
      BY <2>2 DEF ReadDedupe
    <3>2. Old(pos)' = Old(pos) \/ pos' # pos
      BY <2>0 DEF Old
    <3>3. pos' <= upto' + 1 /\ (redone' # "everything" => pos' > offset')
      BY <1>1, <1>2, <3>1 DEF Busy
    <3> QED BY <3>1, <3>2, <3>3 DEF WorkerOK, Busy
  <2>3. CASE MaterializeFails
    <3>1. /\ offset' = offset /\ upto' = upto /\ redone' = redone
          /\ pos' = pos + 1 /\ pc' = "batch" /\ Busy /\ pos <= upto
      BY <1>2, <2>3 DEF MaterializeFails, Busy
    <3>2. pos' <= upto' + 1 /\ (redone' # "everything" => pos' > offset')
      BY <1>1, <1>2, <3>1
    <3> QED BY <3>1, <3>2 DEF WorkerOK, Busy
  <2>4. CASE SaveOffset \/ CrashWorker
    <3>1. pc' \in {"idle", "down"} /\ pos' = 1 /\ upto' = 0
      BY <2>4 DEF SaveOffset, CrashWorker, BatchOver
    <3> QED BY <3>1 DEF WorkerOK, Busy
  <2>5. CASE StartWorker
    <3>1. pc = "down" /\ pc' = "idle" /\ pos' = pos /\ upto' = upto
      BY <2>5 DEF StartWorker
    <3> QED BY <1>2, <3>1 DEF WorkerOK, Busy
  <2> QED BY <1>5, <2>1, <2>2, <2>3, <2>4, <2>5 DEF Moving
<1>6. CASE Materialize
  <2>1. /\ pc = "exec" /\ pos' = pos + 1 /\ pc' = "batch"
        /\ UNCHANGED <<offset, upto, redone>>
    BY <1>6, MaterializeFrame
  <2>2. pos' <= upto' + 1 /\ (redone' # "everything" => pos' > offset')
    BY <1>1, <1>2, <2>1 DEF Busy
  <2> QED BY <2>1, <2>2 DEF WorkerOK, Busy
<1>7. CASE Reading
  BY <1>3, <1>7, ReadingFrame DEF Grown
<1>8. CASE FetchDone
  BY <1>3, <1>8, DoneFrame DEF Grown
<1>9. CASE Tick
  <2>1. pc' \in {"down", "idle"} /\ pc \in {"down", "idle"} /\ pos' = pos /\ upto' = upto
    BY <1>9, TickFrame
  <2> QED BY <1>2, <2>1 DEF WorkerOK, Busy
<1>10. CASE UNCHANGED centerVars
  BY <1>3, <1>10, StutterFrame DEF Grown
<1> QED BY <1>4, <1>5, <1>6, <1>7, <1>8, <1>9, <1>10, NextKinds

LEMMA FetchStep ==
    ASSUME TypeOK, StreamOK, WorkerOK, FetchOK, [Next]_centerVars
    PROVE  FetchOK'
<1>1. ASSUME UNCHANGED <<fetch, fetches>> PROVE FetchOK'
  BY <1>1 DEF FetchOK
<1>2. CASE Reading
  <2>1. fetches \in Nat /\ fetch \in Fetch
    BY TypeParts
  <2>2. CASE FetchStart
    <3>1. fetch' = [NoFetch EXCEPT !.at = "page"] /\ fetches' = fetches + 1
      BY <2>2 DEF FetchStart
    <3>2. fetch'.at = "page" /\ fetch'.out = <<>> /\ fetches' # 0
      BY <2>1, <3>1 DEF NoFetch
    <3>3. Len(fetch'.out) < Limit
      BY <3>2, LimitType
    <3> QED BY <3>2, <3>3 DEF FetchOK
  <2>3. CASE FetchPage
    <3>1. /\ fetch.at = "page" /\ fetches' = fetches
          /\ fetch'.at \in {"zrem", "get"} /\ fetch'.out = fetch.out
      BY <2>1, <2>3 DEF FetchPage, Fetch
    <3> QED BY <3>1 DEF FetchOK
  <2>4. CASE FetchItems
    <3>1. /\ fetch.at = "get" /\ fetches' = fetches
          /\ \/ fetch'.at = "page" /\ Len(fetch'.out) < Limit
             \/ fetch'.at = "zrem"
      <4>1. /\ fetch.at = "get" /\ UNCHANGED fetches
            /\ fetch' = [fetch EXCEPT
                    !.out = fetch.out \o NewestFirst(Hits),
                    !.start = fetch.start + Len(fetch.ids),
                    !.stale = fetch.stale \cup Misses,
                    !.at = IF /\ Len(fetch.out \o NewestFirst(Hits)) < Limit
                              /\ fetch.start + Len(fetch.ids) < 4 * Limit
                           THEN "page" ELSE "zrem"]
        BY <2>4 DEF FetchItems, Hits, Misses
      <4>2. PICK o : o = fetch.out \o NewestFirst(Hits)
        OBVIOUS
      <4>3. PICK c : c = (IF /\ Len(o) < Limit
                             /\ fetch.start + Len(fetch.ids) < 4 * Limit
                          THEN "page" ELSE "zrem")
        OBVIOUS
      <4>4. fetch'.out = o /\ fetch'.at = c
        BY <2>1, <4>1, <4>2, <4>3 DEF Fetch
      <4> QED BY <4>1, <4>3, <4>4
    <3> QED BY <3>1 DEF FetchOK
  <2> QED BY <1>2, <2>2, <2>3, <2>4 DEF Reading
<1>3. CASE FetchDone
  <2>1. fetch.at = "zrem" /\ fetch' = NoFetch /\ fetches' = fetches
    BY <1>3, DoneFrame
  <2>2. fetch'.at = "idle"
    BY <2>1 DEF NoFetch
  <2> QED BY <2>1, <2>2 DEF FetchOK
<1>4. CASE Publishing
  BY <1>1, <1>4, PublishingFrame
<1>5. CASE Moving
  BY <1>1, <1>5, MovingFrame
<1>6. CASE Materialize
  BY <1>1, <1>6, MaterializeFrame
<1>7. CASE Tick
  BY <1>1, <1>7, TickFrame
<1>8. CASE UNCHANGED centerVars
  BY <1>1, <1>8, StutterFrame
<1> QED BY <1>2, <1>3, <1>4, <1>5, <1>6, <1>7, <1>8, NextKinds

LEMMA PrevStep ==
    ASSUME TypeOK, StreamOK, WorkerOK, FetchOK, PrevOK, [Next]_centerVars
    PROVE  PrevOK'
<1>1. /\ pc # "exec" => prev = 0
      /\ pc = "exec" => pos \in Ids
  BY PosIsEvent DEF PrevOK
<1>2. ASSUME UNCHANGED <<pc, pos, prev, dedupe, clock>>
      PROVE  PrevOK'
  <2>1. CASE pc = "exec"
    <3>1. Status(pos)' = Status(pos)
      <4>1. \A e \in Ids : Status(e)' = Status(e)
        BY TimeStep
      <4>2. events'[pos] = events[pos]
        BY <1>1, <2>1, TimeStep
      <4> QED BY <1>2, <4>2 DEF Status
    <3> QED BY <1>2, <2>1, <3>1 DEF PrevOK
  <2>2. CASE pc # "exec"
    BY <1>1, <1>2, <2>2 DEF PrevOK
  <2> QED BY <2>1, <2>2
<1>3. CASE Publishing
  BY <1>2, <1>3, PublishingFrame
<1>4. CASE Moving
  <2>0. UNCHANGED <<events, dedupe, clock>>
    BY <1>4, MovingFrame
  <2>1. CASE ReadDedupe
    <3>1. /\ pc = "batch"
          /\ \/ pc' = "batch" /\ prev' = prev
             \/ /\ pc' = "exec" /\ pos' = pos
                /\ prev' = IF dedupe[Status(pos)].expires > clock
                           THEN dedupe[Status(pos)].id ELSE 0
      BY <2>1 DEF ReadDedupe
    <3>2. pos' = pos => Status(pos)' = Status(pos)
      BY <2>0 DEF Status
    <3> QED BY <1>1, <2>0, <3>1, <3>2 DEF PrevOK
  <2>2. CASE ~ ReadDedupe
    <3>1. pc' # "exec" /\ (prev' = 0 \/ (prev' = prev /\ pc # "exec"))
      BY <1>4, <2>2 DEF Moving, Sync, MaterializeFails, SaveOffset, CrashWorker, StartWorker,
                        BatchOver
    <3> QED BY <1>1, <3>1 DEF PrevOK
  <2> QED BY <2>1, <2>2
<1>5. CASE Materialize
  <2>1. pc' = "batch" /\ prev' = 0
    BY <1>5, MaterializeFrame
  <2> QED BY <2>1 DEF PrevOK
<1>6. CASE Reading
  BY <1>2, <1>6, ReadingFrame
<1>7. CASE FetchDone
  BY <1>2, <1>7, DoneFrame
<1>8. CASE Tick
  <2>1. pc' # "exec" /\ pc # "exec" /\ prev' = prev
    BY <1>8, TickFrame
  <2> QED BY <1>1, <2>1 DEF PrevOK
<1>9. CASE UNCHANGED centerVars
  BY <1>2, <1>9, StutterFrame
<1> QED BY <1>3, <1>4, <1>5, <1>6, <1>7, <1>8, <1>9, NextKinds

\* The steps that put nothing into the store.
LEMMA StoreQuiet ==
    ASSUME TypeOK, StreamOK, WorkerOK, FetchOK, [Next]_centerVars, ~ Materialize
    PROVE  UNCHANGED <<item, dedupe>> /\ (index' \subseteq index)
<1>1. Publishing => UNCHANGED <<item, dedupe, index>>
  BY PublishingFrame
<1>2. Moving => UNCHANGED <<item, dedupe, index>>
  BY MovingFrame
<1>3. Reading => UNCHANGED <<item, dedupe, index>>
  BY ReadingFrame
<1>4. FetchDone => UNCHANGED <<item, dedupe>> /\ index' \subseteq index
  BY DoneFrame
<1>5. Tick => UNCHANGED <<item, dedupe, index>>
  BY TickFrame
<1>6. UNCHANGED centerVars => UNCHANGED <<item, dedupe, index>>
  BY StutterFrame
<1> QED BY <1>1, <1>2, <1>3, <1>4, <1>5, <1>6, NextKinds

LEMMA StoreTypes ==
    ASSUME TypeOK
    PROVE  /\ \A e \in 1 .. MaxEvents : item[e] \in Nat
           /\ index \subseteq Ids
           /\ \A s \in Statuses : dedupe[s].id \in 0 .. Len(events) /\ dedupe[s].expires \in Nat
BY TypeParts DEF StoreType

\* The events and the events that can be published.
LEMMA IdsBounded ==
    ASSUME TypeOK, StreamOK
    PROVE  Ids \subseteq 1 .. MaxEvents
BY EventTypes, CenterAssumption DEF StreamOK, Ids

LEMMA ItemsStep ==
    ASSUME TypeOK, StreamOK, WorkerOK, FetchOK, ItemsOK, [Next]_centerVars
    PROVE  ItemsOK'
<1>1. /\ \A e \in 1 .. MaxEvents : item[e] # 0 => e \in Ids /\ item[e] = events[e].at + ItemTtl
      /\ \A e \in index : e \in 1 .. MaxEvents /\ item[e] # 0
  BY DEF ItemsOK
<1>2. \A e \in Ids : e \in Ids' /\ events'[e] = events[e]
  BY TimeStep
<1>3. CASE Materialize
  <2>1. /\ pos \in Ids /\ clock < Expiry /\ Expiry \in Nat
        /\ index' = (index \ Gone) \cup {pos}
        /\ \A e \in 1 .. MaxEvents : item'[e] = IF e = pos THEN Expiry
                                                ELSE IF e \in Gone THEN 0 ELSE item[e]
    BY <1>3, MaterializeFrame
  <2>2. pos \in 1 .. MaxEvents /\ clock \in Nat
    BY <2>1, IdsBounded, EventTypes
  <2>3. Expiry # 0
    BY <2>1, <2>2
  <2>4. \A e \in 1 .. MaxEvents : item'[e] # 0 => e \in Ids /\ item'[e] = events[e].at + ItemTtl
    BY <1>1, <2>1 DEF Expiry
  <2>5. \A e \in index' : e \in 1 .. MaxEvents /\ item'[e] # 0
    BY <1>1, <2>1, <2>2, <2>3
  <2> QED BY <1>2, <2>4, <2>5 DEF ItemsOK
<1>4. CASE ~ Materialize
  <2>1. item' = item /\ index' \subseteq index
    BY <1>4, StoreQuiet
  <2> QED BY <1>1, <1>2, <2>1 DEF ItemsOK
<1> QED BY <1>3, <1>4

LEMMA DedupeStep ==
    ASSUME TypeOK, StreamOK, WorkerOK, FetchOK, DedupeOK, [Next]_centerVars
    PROVE  DedupeOK'
<1> DEFINE OK(d, s, ev) == IF d.id = 0 THEN d.expires = 0
                           ELSE /\ ev[d.id].to = s
                                /\ \/ d.expires >= ev[d.id].at + ItemTtl
                                   \/ d.expires >= ev[d.id].at + Window
<1>1. \A s \in Statuses : OK(dedupe[s], s, events)
  BY DEF DedupeOK, Status
<1>2. /\ \A s \in Statuses : dedupe[s].id \in 0 .. Len(events)
      /\ Len(events) \in Nat
  BY StoreTypes, EventTypes
<1>3. \A e \in Ids : events'[e] = events[e]
  BY TimeStep
<1>4. \A s \in Statuses : OK(dedupe[s], s, events')
  <2> TAKE s \in Statuses
  <2>1. CASE dedupe[s].id = 0
    BY <1>1, <2>1
  <2>2. CASE dedupe[s].id # 0
    <3>1. dedupe[s].id \in Ids
      BY <1>2, <2>2 DEF Ids
    <3>2. events'[dedupe[s].id] = events[dedupe[s].id]
      BY <1>3, <3>1
    <3> QED BY <1>1, <2>2, <3>2
  <2> QED BY <2>1, <2>2
<1>5. CASE Materialize
  <2>1. /\ pos \in Ids /\ Status(pos) \in Statuses /\ events' = events
        /\ \A s \in Statuses : dedupe'[s] =
               IF s # Status(pos) THEN dedupe[s]
               ELSE [id |-> pos, expires |-> IF clock + Window <= Expiry
                                             THEN clock + Window ELSE Expiry]
    BY <1>5, MaterializeFrame
  <2>2. /\ clock \in Nat /\ Window \in Nat /\ events[pos].at \in Nat /\ pos # 0
        /\ events[pos].at <= clock /\ ItemTtl \in Nat
    BY <2>1, EventTypes DEF StreamOK, Ids
  <2> DEFINE until == IF clock + Window <= Expiry THEN clock + Window ELSE Expiry
             d == [id |-> pos, expires |-> until]
  <2>3. \/ until >= events[pos].at + ItemTtl
        \/ until >= events[pos].at + Window
    BY <2>2 DEF Expiry
  <2> HIDE DEF until
  <2>4. OK(d, Status(pos), events)
    BY <2>2, <2>3 DEF Status
  <2> HIDE DEF d
  <2>5. ASSUME NEW s \in Statuses PROVE OK(dedupe'[s], s, events')
    <3>1. dedupe'[s] = IF s # Status(pos) THEN dedupe[s] ELSE d
      BY <2>1 DEF d, until
    <3> HIDE DEF OK
    <3> QED BY <1>1, <2>1, <2>4, <3>1
  <2> QED BY <2>5 DEF DedupeOK, Status
<1>6. CASE ~ Materialize
  <2>1. dedupe' = dedupe
    BY <1>6, StoreQuiet
  <2> QED BY <1>4, <2>1 DEF DedupeOK, Status
<1> QED BY <1>5, <1>6

LEMMA SpokenStep ==
    ASSUME TypeOK, StreamOK, WorkerOK, FetchOK, SpokenOK, [Next]_centerVars
    PROVE  SpokenOK'
<1>0. /\ events \in Seq(Event) /\ Len(events) \in Nat /\ clock \in Nat /\ faults \in Nat
      /\ last \in Statuses \cup {NoStatus} /\ "none" \notin Statuses
      /\ {"connected", "disconnected"} \subseteq Statuses
      /\ \A e \in Ids : Status(e) \in Statuses
  BY TypeParts, EventTypes, CenterAssumption DEF ServiceType, HistoryType
<1>1. Ids # {} => Len(events) \in Ids
  BY <1>0 DEF Ids
<1>2. ASSUME UNCHANGED <<events, alive, last, spoken>> PROVE SpokenOK'
  BY <1>2 DEF SpokenOK, Ids, Status
<1>3. ASSUME NEW s \in Statuses, Update(s) PROVE SpokenOK'
  <2>1. CASE last = NoStatus /\ s # "connected"
    <3>1. spoken' = spoken
      BY <1>3, <2>1 DEF Update
    <3>2. ~ spoken
      BY <1>0, <1>1, <2>1 DEF SpokenOK, NoStatus
    <3> QED BY <3>1, <3>2 DEF SpokenOK
  <2>2. CASE ~ (last = NoStatus /\ s # "connected")
    <3> DEFINE f == IF last = NoStatus THEN "unknown" ELSE last
    <3>1. /\ Publish(f, s) /\ spoken' = (events' # events) /\ last' = s /\ alive' = alive
          /\ alive
      BY <1>3, <2>2 DEF Update
    <3>2. f \in Statuses \cup {"unknown"}
      BY <1>0
    <3> HIDE DEF f
    <3>3. events' # events => \E r \in Event : r.to = s /\ events' = Append(events, r)
      BY <1>0, <3>1, <3>2, PublishStep
    <3>4. ASSUME events' # events
          PROVE  Ids' # {} /\ Status(Len(events))' = s
      <4>1. PICK r \in Event : r.to = s /\ events' = Append(events, r)
        BY <3>3, <3>4
      <4>2. Len(events') = Len(events) + 1 /\ events'[Len(events) + 1] = r
        BY <1>0, <4>1, AppendProperties
      <4>3. Len(events) + 1 \in 1 .. Len(events) + 1
        BY <1>0
      <4> QED BY <4>1, <4>2, <4>3 DEF Ids, Status
    <3> QED BY <3>1, <3>4 DEF SpokenOK
  <2> QED BY <2>1, <2>2
<1>4. CASE Publishing
  <2>1. StartService => SpokenOK'
    BY DEF StartService, SpokenOK
  <2>2. OpsStop => SpokenOK'
    <3> SUFFICES ASSUME OpsStop PROVE SpokenOK'
      OBVIOUS
    <3>1. (spoken' => spoken /\ events' = events) /\ UNCHANGED <<alive, last>>
      BY DEF OpsStop
    <3> QED BY <3>1 DEF SpokenOK, Ids, Status
  <2>3. Exit => SpokenOK'
    BY DEF Exit, SpokenOK
  <2> QED BY <1>3, <1>4, <2>1, <2>2, <2>3 DEF Publishing
<1>5. CASE Moving
  BY <1>2, <1>5, MovingFrame
<1>6. CASE Materialize
  BY <1>2, <1>6, MaterializeFrame
<1>7. CASE Reading
  BY <1>2, <1>7, ReadingFrame
<1>8. CASE FetchDone
  BY <1>2, <1>8, DoneFrame
<1>9. CASE Tick
  BY <1>2, <1>9, TickFrame
<1>10. CASE UNCHANGED centerVars
  BY <1>2, <1>10, StutterFrame
<1> QED BY <1>4, <1>5, <1>6, <1>7, <1>8, <1>9, <1>10, NextKinds

\* An event with a live item.
LEMMA LiveItem ==
    ASSUME TypeOK, StreamOK, ItemsOK, NEW e \in 1 .. MaxEvents, Live(e)
    PROVE  e \in Ids /\ item[e] = events[e].at + ItemTtl
<1>1. item[e] \in Nat /\ clock \in Nat
  BY StoreTypes, EventTypes
<1>2. item[e] # 0
  BY <1>1 DEF Live
<1> QED BY <1>2 DEF ItemsOK

LEMMA ToastStep ==
    ASSUME TypeOK, StreamOK, WorkerOK, FetchOK, PrevOK, ItemsOK, DedupeOK, ToastOK,
           [Next]_centerVars
    PROVE  ToastOK'
<1>1. /\ clock \in Nat /\ clock' \in Nat /\ clock <= clock' /\ Window \in Nat /\ Window > 0
      /\ ItemTtl \in Nat /\ (Tick \/ clock' = clock) /\ Len(events') <= MaxEvents
      /\ Len(events') \in Nat
  BY EventTypes, TimeStep
<1>2. \A e \in Ids' : e \in 1 .. MaxEvents
  BY <1>1, CenterAssumption DEF Ids
<1>3. \A e \in 1 .. MaxEvents : item[e] \in Nat
  BY StoreTypes
<1>4. \A e \in Ids : /\ e \in Nat /\ events'[e] = events[e] /\ Status(e)' = Status(e)
                     /\ events[e].at \in Nat /\ Status(e) \in Statuses
  BY EventTypes, TimeStep
<1>5. \A s \in Statuses : dedupe[s].id \in Nat /\ dedupe[s].expires \in Nat
  BY StoreTypes, EventTypes
<1> DEFINE Ok(e) == \/ e = dedupe[Status(e)].id /\ dedupe[Status(e)].expires > clock
                    \/ clock - events[e].at >= Window
<1>6. \A e \in Ids : Live(e) => Ok(e)
  BY DEF ToastOK
<1>7. CASE Materialize
  <2>1. /\ pos \in Ids /\ Status(pos) \in Statuses /\ clock < Expiry /\ pc = "exec"
        /\ Expiry \in Nat /\ clock' = clock
        /\ \A e \in 1 .. MaxEvents : item'[e] = IF e = pos THEN Expiry
                                                ELSE IF e \in Gone THEN 0 ELSE item[e]
        /\ \A s \in Statuses : dedupe'[s] =
               IF s # Status(pos) THEN dedupe[s]
               ELSE [id |-> pos, expires |-> IF clock + Window <= Expiry
                                             THEN clock + Window ELSE Expiry]
    BY <1>7, MaterializeFrame
  <2>2. prev = IF dedupe[Status(pos)].expires > clock THEN dedupe[Status(pos)].id ELSE 0
    BY <2>1 DEF PrevOK
  <2>3. ASSUME NEW e \in Ids', Live(e)'
        PROVE  \/ e = dedupe'[Status(e)'].id /\ dedupe'[Status(e)'].expires > clock'
               \/ clock' - events'[e].at >= Window
    <3>1. item'[e] > clock /\ e \in 1 .. MaxEvents
      BY <1>2, <2>1, <2>3 DEF Live
    <3>2. CASE e = pos
      <4>1. Status(e)' = Status(pos)
        BY <1>4, <2>1, <3>2
      <4>2. dedupe'[Status(pos)] = [id |-> pos, expires |-> IF clock + Window <= Expiry
                                             THEN clock + Window ELSE Expiry]
        BY <2>1
      <4>3. (IF clock + Window <= Expiry THEN clock + Window ELSE Expiry) > clock
        BY <1>1, <2>1
      <4> QED BY <2>1, <3>2, <4>1, <4>2, <4>3
    <3>3. CASE e # pos
      <4>1. e \notin Gone /\ item[e] > clock
        BY <1>1, <2>1, <3>1, <3>3
      <4>2. e \in Ids /\ Live(e)
        BY <3>1, <4>1, LiveItem DEF Live
      <4>3. Ok(e) /\ events'[e] = events[e] /\ Status(e)' = Status(e) /\ Status(e) \in Statuses
        BY <1>4, <1>6, <4>2
      <4>4. CASE Status(e) = Status(pos) /\ e = dedupe[Status(e)].id
                 /\ dedupe[Status(e)].expires > clock
        <5>1. prev = e /\ e # 0
          BY <2>2, <4>2, <4>4 DEF Ids
        <5> QED BY <3>3, <4>1, <5>1 DEF Gone
      <4>5. CASE Status(e) # Status(pos)
        <5>1. dedupe'[Status(e)] = dedupe[Status(e)]
          BY <2>1, <4>3, <4>5
        <5> QED BY <2>1, <4>3, <5>1
      <4>6. CASE clock - events[e].at >= Window
        BY <2>1, <4>3, <4>6
      <4> QED BY <4>3, <4>4, <4>5, <4>6
    <3> QED BY <3>2, <3>3
  <2> QED BY <2>3 DEF ToastOK
<1>8. CASE ~ Materialize
  <2>1. item' = item /\ dedupe' = dedupe
    BY <1>8, StoreQuiet
  <2>2. ASSUME NEW e \in Ids', Live(e)'
        PROVE  \/ e = dedupe'[Status(e)'].id /\ dedupe'[Status(e)'].expires > clock'
               \/ clock' - events'[e].at >= Window
    <3>1. item[e] > clock' /\ e \in 1 .. MaxEvents
      BY <1>2, <2>1, <2>2 DEF Live
    <3>2. item[e] > clock
      BY <1>1, <1>3, <3>1
    <3>3. e \in Ids /\ Live(e) /\ item[e] = events[e].at + ItemTtl
      BY <3>1, <3>2, LiveItem DEF Live
    <3>4. Ok(e) /\ events'[e] = events[e] /\ Status(e)' = Status(e) /\ Status(e) \in Statuses
          /\ events[e].at \in Nat
      BY <1>4, <1>6, <3>3
    <3>5. CASE clock - events[e].at >= Window
      <4>1. clock' - events[e].at >= Window
        BY <1>1, <3>4, <3>5
      <4> QED BY <3>4, <4>1
    <3>6. CASE e = dedupe[Status(e)].id /\ dedupe[Status(e)].expires > clock
      <4>1. CASE dedupe[Status(e)].expires > clock'
        BY <2>1, <3>4, <3>6, <4>1
      <4>2. CASE ~ (dedupe[Status(e)].expires > clock')
        <5>1. \/ dedupe[Status(e)].expires >= events[e].at + ItemTtl
              \/ dedupe[Status(e)].expires >= events[e].at + Window
          <6>1. dedupe[Status(e)].id # 0
            BY <3>3, <3>6 DEF Ids
          <6> QED BY <3>4, <3>6, <6>1 DEF DedupeOK
        <5>2. PICK x, a, c : x = dedupe[Status(e)].expires /\ a = events[e].at /\ c = clock'
          OBVIOUS
        <5>3. /\ x \in Nat /\ a \in Nat /\ c \in Nat /\ Window \in Nat /\ ItemTtl \in Nat
              /\ c < a + ItemTtl /\ ~(x > c)
          <6>1. c \in Nat /\ Window \in Nat /\ ItemTtl \in Nat
            BY <1>1, <5>2
          <6>2. x \in Nat /\ a \in Nat
            BY <1>5, <3>4, <5>2
          <6>3. c < a + ItemTtl
            BY <3>1, <3>3, <5>2, <6>1, <6>2
          <6> QED BY <4>2, <5>2, <6>1, <6>2, <6>3
        <5>4. x >= a + ItemTtl \/ x >= a + Window
          BY <5>1, <5>2
        <5>5. c - a >= Window
          BY <5>3, <5>4
        <5>6. clock' - events[e].at >= Window
          BY <5>2, <5>5
        <5> QED BY <3>4, <5>6
      <4> QED BY <4>1, <4>2
    <3> QED BY <3>4, <3>5, <3>6
  <2> QED BY <2>2 DEF ToastOK
<1> QED BY <1>7, <1>8

\* The excuses last: what has been skipped, gone through again or read stays so.
LEMMA HistoryStep ==
    ASSUME TypeOK, StreamOK, WorkerOK, FetchOK, [Next]_centerVars
    PROVE  /\ redone' # "everything" => redone # "everything"
           /\ redone' = "nothing" => redone = "nothing"
           /\ skipped => skipped'
           /\ fetches' = 0 => fetches = 0
           /\ redone' # "everything" /\ ~Crossed' => ~Crossed
<1>1. redone' = redone \/ redone' = "everything"
      \/ (redone' = "a batch" /\ redone = "nothing")
  <2>1. Publishing => redone' = redone
    BY PublishingFrame
  <2>2. Moving => \/ redone' = redone \/ redone' = "everything"
                  \/ redone' = "a batch" /\ redone = "nothing"
    BY DEF Moving, Sync, ReadDedupe, MaterializeFails, SaveOffset, CrashWorker, StartWorker,
           BatchUnsaved
  <2>3. Materialize => redone' = redone
    BY MaterializeFrame
  <2>4. Reading => redone' = redone
    BY ReadingFrame
  <2>5. FetchDone \/ Tick => redone' = redone
    BY DoneFrame, TickFrame
  <2>6. UNCHANGED centerVars => redone' = redone
    BY StutterFrame
  <2> QED BY <2>1, <2>2, <2>3, <2>4, <2>5, <2>6, NextKinds
<1>2. skipped' = skipped \/ skipped' = TRUE
  BY DEF Next, centerVars, Update, StartService, OpsStop, Exit, Sync, ReadDedupe, Materialize,
         PutItem, MaterializeFails, SaveOffset, CrashWorker, StartWorker, FetchStart, FetchPage,
         FetchItems, FetchDone, Tick
<1>3. fetches' = fetches \/ (fetches' = fetches + 1 /\ redone' = redone)
  BY DEF Next, centerVars, Update, StartService, OpsStop, Exit, Sync, ReadDedupe, Materialize,
         PutItem, MaterializeFails, SaveOffset, CrashWorker, StartWorker, FetchStart, FetchPage,
         FetchItems, FetchDone, Tick, reader
<1>4. fetches \in Nat
  BY TypeParts
<1>5. fetches' = 0 => fetches = 0
  BY <1>3, <1>4
<1>6. fetches' > 0 \/ ~ (fetches > 0)
  BY <1>3, <1>4
<1>7. redone' # "everything" /\ ~Crossed' => ~Crossed
  BY <1>1, <1>6 DEF Crossed
<1>8. /\ redone' # "everything" => redone # "everything"
      /\ redone' = "nothing" => redone = "nothing"
  BY <1>1
<1>9. skipped => skipped'
  BY <1>2
<1> QED BY <1>5, <1>7, <1>8, <1>9, Zenon

\* How far the worker has come: forward by one event, or back when it starts over.
LEMMA DoneStep ==
    ASSUME TypeOK, StreamOK, WorkerOK, FetchOK, [Next]_centerVars
    PROVE  /\ Done \in Nat /\ Done' \in Nat
           /\ redone' = "nothing" => Done <= Done'
           /\ \/ skipped' \/ redone' = "everything" \/ Done' <= Done
              \/ /\ Done' = pos /\ Done = pos - 1 /\ pos \in Ids
                 /\ Old(pos) \/ Materialize
<1> DEFINE Skips == skipped'
           Again == redone' = "everything"
           Anew == redone' = "nothing"
           Past == Old(pos) \/ Materialize
           Kind == \/ Done' = Done
                   \/ Skips /\ Done' = Done + 1
                   \/ Again /\ ~Anew
                   \/ ~Anew /\ Done' <= Done
                   \/ Done' = pos /\ Done = pos - 1 /\ pos \in Ids /\ Past
<1> HIDE DEF Skips, Again, Anew, Past, Kind
<1>1. /\ offset \in Nat /\ pos \in Nat /\ pos >= 1 /\ upto \in Nat /\ Len(events) \in Nat
      /\ pc \in {"down", "idle", "batch", "exec"} /\ upto <= Len(events)
  BY WorkerTypes, EventTypes
<1>2. /\ Busy => pos <= upto + 1
      /\ Busy /\ redone # "everything" => pos > offset
      /\ pc = "exec" => pos <= upto
  BY DEF WorkerOK
<1>3. redone \in {"nothing", "a batch", "everything"}
  BY TypeParts DEF HistoryType
<1>4. Done \in Nat
  BY <1>1 DEF Done
<1>5. pos <= upto => pos \in Ids
  BY <1>1 DEF Ids
<1>6. ASSUME UNCHANGED <<offset, pc, pos>>
      PROVE  Kind /\ Done' \in Nat
  BY <1>4, <1>6 DEF Done, Busy, Kind
<1>14. SUFFICES Kind /\ Done' \in Nat
  <2>1. SUFFICES ASSUME Kind, Done' \in Nat
                 PROVE  /\ Anew => Done <= Done'
                        /\ \/ Skips \/ Again \/ Done' <= Done
                           \/ Done' = pos /\ Done = pos - 1 /\ pos \in Ids /\ Past
    BY <1>4, Zenon DEF Skips, Again, Anew, Past
  <2> QED BY <1>1, <1>4, <2>1 DEF Kind
<1>7. CASE Publishing
  BY <1>6, <1>7, PublishingFrame
<1>8. CASE Moving
  <2>1. CASE Sync
    <3>1. /\ pc = "idle" /\ pc' = "batch"
          /\ pos' = 1 \/ pos' = offset + 1
          /\ (Again /\ ~Anew) \/ pos' = offset + 1
      <4>1. PICK from \in {0, offset} :
                /\ pos' = from + 1
                /\ IF from = offset THEN redone' = redone ELSE redone' = "everything"
        BY <2>1 DEF Sync
      <4>2. pc = "idle" /\ pc' = "batch"
        BY <2>1 DEF Sync
      <4> QED BY <4>1, <4>2 DEF Again, Anew
    <3>2. Done = offset /\ Done' = pos' - 1
      BY <3>1 DEF Done, Busy
    <3>3. Done' \in Nat /\ ((Again /\ ~Anew) \/ Done' = Done)
      BY <1>1, <3>1, <3>2
    <3> QED BY <3>3 DEF Kind
  <2>2. CASE ReadDedupe
    <3>1. /\ pc = "batch" /\ pos <= upto
          /\ \/ pos' = pos + 1 /\ pc' = "batch" /\ Old(pos)
             \/ pos' = pos /\ pc' = "exec"
      BY <2>2 DEF ReadDedupe
    <3>2. Done = pos - 1 /\ Done' = pos' - 1
      BY <3>1 DEF Done, Busy
    <3>3. /\ Done' \in Nat
          /\ \/ Done' = Done
             \/ Done' = pos /\ Done = pos - 1 /\ Old(pos)
      BY <1>1, <3>1, <3>2
    <3>4. Old(pos) => Past
      BY DEF Past
    <3> QED BY <1>5, <3>1, <3>3, <3>4 DEF Kind
  <2>3. CASE MaterializeFails
    <3>1. Busy /\ pos' = pos + 1 /\ pc' = "batch" /\ Skips
      BY <2>3 DEF MaterializeFails, Busy, Skips
    <3>2. Done = pos - 1 /\ Done' = (pos + 1) - 1
      BY <3>1 DEF Done, Busy
    <3>3. Done' \in Nat /\ Done' = Done + 1
      BY <1>1, <3>2
    <3> QED BY <3>1, <3>3 DEF Kind
  <2>4. CASE SaveOffset
    <3>1. /\ pc = "batch" /\ pos > upto /\ pc' = "idle"
          /\ \/ offset' = upto
             \/ /\ offset' = offset /\ ~Anew
                /\ redone = "everything" => Again
      BY <1>3, <2>4 DEF SaveOffset, BatchUnsaved, Again, Anew
    <3>2. Done = pos - 1 /\ Done' = offset'
      BY <3>1 DEF Done, Busy
    <3>3. pos = upto + 1
      BY <1>1, <1>2, <3>1 DEF Busy
    <3>4. redone # "everything" => offset <= pos - 1
      BY <1>1, <1>2, <3>1 DEF Busy
    <3>5. \/ Done' = Done
          \/ Done' <= Done /\ ~Anew
          \/ Again /\ ~Anew
      BY <1>1, <3>1, <3>2, <3>3, <3>4
    <3>6. Done' \in Nat
      BY <1>1, <3>1, <3>2
    <3> QED BY <3>5, <3>6 DEF Kind
  <2>5. CASE CrashWorker
    <3>1. /\ pc' = "down" /\ offset' = offset /\ pc # "down"
          /\ pc = "idle" \/ (~Anew /\ (redone = "everything" => Again))
      BY <1>3, <2>5 DEF CrashWorker, BatchUnsaved, Again, Anew
    <3>2. Done' = offset
      BY <3>1 DEF Done, Busy
    <3>3. pc = "idle" => Done = offset
      BY DEF Done, Busy
    <3>4. pc # "down" /\ pc # "idle" /\ redone # "everything" => offset <= Done
      BY <1>1, <1>2 DEF Done, Busy
    <3>5. \/ Done' = Done
          \/ Done' <= Done /\ ~Anew
          \/ Again /\ ~Anew
      BY <1>1, <3>1, <3>2, <3>3, <3>4
    <3> QED BY <1>1, <3>2, <3>5 DEF Kind
  <2>6. CASE StartWorker
    <3>1. pc = "down" /\ pc' = "idle" /\ UNCHANGED <<offset, pos>>
      BY <2>6 DEF StartWorker
    <3>2. Done' = Done
      BY <3>1 DEF Done, Busy
    <3> QED BY <1>4, <3>2 DEF Kind
  <2> QED BY <1>8, <2>1, <2>2, <2>3, <2>4, <2>5, <2>6 DEF Moving
<1>9. CASE Materialize
  <2>1. pc = "exec" /\ pos' = pos + 1 /\ pc' = "batch" /\ pos \in Ids
    BY <1>9, MaterializeFrame
  <2>2. Done = pos - 1 /\ Done' = (pos + 1) - 1
    BY <2>1 DEF Done, Busy
  <2>3. Done' = pos /\ Done' \in Nat
    BY <1>1, <2>2
  <2>4. Past
    BY <1>9 DEF Past
  <2> QED BY <2>1, <2>2, <2>3, <2>4 DEF Kind
<1>10. CASE Reading
  BY <1>6, <1>10, ReadingFrame
<1>11. CASE FetchDone
  BY <1>6, <1>11, DoneFrame
<1>12. CASE Tick
  BY <1>6, <1>12, TickFrame
<1>13. CASE UNCHANGED centerVars
  BY <1>6, <1>13, StutterFrame
<1> QED
  BY <1>7, <1>8, <1>9, <1>10, <1>11, <1>12, <1>13, NextKinds, Zenon


\* What the worker has gone through has been published.
LEMMA DoneBound ==
    ASSUME TypeOK, WorkerOK
    PROVE  Done \in Nat /\ Done <= Len(events) /\ 1 .. Done \subseteq Ids
<1>1. /\ offset \in Nat /\ pos \in Nat /\ pos >= 1 /\ upto \in Nat /\ Len(events) \in Nat
      /\ upto <= Len(events) /\ offset <= Len(events)
  BY WorkerTypes, EventTypes
<1>2. Busy => pos <= upto + 1
  BY DEF WorkerOK
<1>3. Done \in Nat /\ Done <= Len(events)
  BY <1>1, <1>2 DEF Done
<1> QED BY <1>1, <1>3 DEF Ids

\* What is covered stays so, if no call failed and no reader crossed a batch.
LEMMA CoveredKept ==
    ASSUME TypeOK, StreamOK, WorkerOK, FetchOK, PrevOK, ItemsOK, DedupeOK, FreshOK,
           [Next]_centerVars, redone' # "everything", ~Crossed',
           NEW e \in 1 .. Done, Covered(e)
    PROVE  Covered(e)'
<1>1. /\ clock \in Nat /\ clock' \in Nat /\ ItemTtl \in Nat
      /\ \A g \in Ids : /\ g \in Nat /\ g \in Ids' /\ events'[g] = events[g]
                        /\ events[g].at \in Nat
                        /\ Status(g)' = Status(g) /\ Status(g) \in Statuses
                        /\ (Old(g) => Old(g)')
      /\ Tick \/ clock' = clock
  BY EventTypes, TimeStep
<1>2. e \in Ids /\ Done \in Nat /\ e <= Done
  BY DoneBound
<1>3. CASE Old(e)
  BY <1>1, <1>2, <1>3 DEF Covered
<1>4. ASSUME NEW f \in Ids, f >= e, Status(f) = Status(e), Shown(f)
      PROVE  Covered(e)'
  <2>1. Shown(f)' => Covered(e)'
    BY <1>1, <1>2, <1>4 DEF Covered
  <2>2. f \in index /\ item[f] > clock
    BY <1>4 DEF Shown, Live
  <2>3. CASE Materialize
    <3>1. /\ pos \in Ids /\ clock < Expiry /\ pc = "exec" /\ clock' = clock
          /\ index' = (index \ Gone) \cup {pos}
          /\ \A g \in 1 .. MaxEvents : item'[g] = IF g = pos THEN Expiry
                                                  ELSE IF g \in Gone THEN 0 ELSE item[g]
      BY <2>3, MaterializeFrame
    <3>2. f \in 1 .. MaxEvents /\ pos \in 1 .. MaxEvents
      BY <3>1, IdsBounded
    <3>3. PICK p \in Ids : p = pos
      BY <3>1
    <3>4. Shown(p)'
      BY <3>1, <3>2, <3>3 DEF Shown, Live
    <3>5. CASE f \in Gone
      <4>1. prev = f /\ prev # 0
        BY <3>5 DEF Gone
      <4>2. f = dedupe[Status(p)].id
        BY <3>1, <3>3, <4>1 DEF PrevOK
      <4>3. Status(f) = Status(p)
        BY <1>1, <4>1, <4>2 DEF DedupeOK
      <4>4. p >= e
        <5>1. Done = p - 1 /\ p \in Nat
          BY <1>1, <3>1, <3>3 DEF Done, Busy
        <5> QED BY <1>2, <5>1
      <4>5. p \in Ids' /\ Status(p)' = Status(e)'
        BY <1>1, <1>2, <1>4, <4>3
      <4> QED BY <3>4, <4>4, <4>5 DEF Covered
    <3>6. CASE f \notin Gone
      <4>1. Shown(f)'
        <5>1. f \in index'
          BY <2>2, <3>1, <3>6
        <5>2. item'[f] > clock'
          BY <2>2, <3>1, <3>2, <3>6
        <5> QED BY <5>1, <5>2 DEF Shown, Live
      <4> QED BY <2>1, <4>1
    <3> QED BY <3>5, <3>6
  <2>4. CASE FetchDone
    <3>1. /\ fetch.at = "zrem" /\ index' \in {index, index \ fetch.stale}
          /\ UNCHANGED <<item, fetches, redone, clock>>
      BY <2>4, DoneFrame
    <3>2. fetches \in Nat /\ redone \in {"nothing", "a batch", "everything"}
      BY TypeParts DEF HistoryType
    <3>3. fetches > 0
      <4>1. fetches = 0 => fetch.at = "idle"
        BY Zenon DEF FetchOK
      <4>2. fetch.at = "zrem"
        BY <3>1
      <4>3. fetches # 0
        BY <4>1, <4>2
      <4>4. fetches \in Nat
        BY TypeParts
      <4> QED BY <4>3, <4>4
    <3>4. redone = "nothing"
      BY <3>1, <3>2, <3>3 DEF Crossed
    <3>5. f \notin fetch.stale
      <4>1. \A g \in fetch.stale : ~ Live(g)
        BY <3>4 DEF FreshOK
      <4>2. Live(f)
        BY <2>2 DEF Live
      <4> QED BY <4>1, <4>2
    <3>6. Shown(f)'
      BY <2>2, <3>1, <3>5 DEF Shown, Live
    <3> QED BY <2>1, <3>6
  <2>5. CASE Tick
    <3>1. UNCHANGED <<events, item, index>>
      BY <2>5, TickFrame
    <3>2. CASE item[f] > clock'
      <4>1. Shown(f)'
        BY <2>2, <3>1, <3>2 DEF Shown, Live
      <4> QED BY <2>1, <4>1
    <3>3. CASE ~ (item[f] > clock')
      <4>1. item[f] = events[f].at + ItemTtl
        <5>1. f \in 1 .. MaxEvents
          BY IdsBounded
        <5> QED BY <2>2, <5>1, LiveItem DEF Live
      <4>2. events[e].at <= events[f].at
        BY <1>2, <1>4 DEF StreamOK
      <4>3. clock' - events[e].at >= ItemTtl
        BY <1>1, <1>2, <3>3, <4>1, <4>2
      <4>4. Old(e)'
        BY <1>1, <1>2, <3>1, <4>3 DEF Old
      <4> QED BY <4>4 DEF Covered
    <3> QED BY <3>2, <3>3
  <2>6. CASE ~ Materialize /\ ~ FetchDone /\ ~ Tick
    <3>1. UNCHANGED <<item, index, clock>>
      <4>1. Publishing => UNCHANGED <<item, index, clock>>
        BY PublishingFrame
      <4>2. Moving => UNCHANGED <<item, index, clock>>
        BY MovingFrame
      <4>3. Reading => UNCHANGED <<item, index, clock>>
        BY ReadingFrame
      <4>4. UNCHANGED centerVars => UNCHANGED <<item, index, clock>>
        BY StutterFrame
      <4> QED BY <2>6, <4>1, <4>2, <4>3, <4>4, NextKinds
    <3>2. Shown(f)'
      BY <2>2, <3>1 DEF Shown, Live
    <3> QED BY <2>1, <3>2
  <2> QED BY <2>3, <2>4, <2>5, <2>6
<1> QED BY <1>3, <1>4 DEF Covered

LEMMA CoverStep ==
    ASSUME TypeOK, StreamOK, WorkerOK, FetchOK, PrevOK, ItemsOK, DedupeOK, FreshOK, CoverOK,
           [Next]_centerVars
    PROVE  CoverOK'
<1> SUFFICES ASSUME ~skipped', redone' # "everything", ~Crossed',
                    NEW e \in 1 .. Done'
             PROVE  Covered(e)'
  BY DEF CoverOK
<1>1. ~skipped
  BY HistoryStep
<1>2. redone # "everything" /\ ~Crossed
  BY HistoryStep
<1>3. \A f \in 1 .. Done : Covered(f)
  BY <1>1, <1>2 DEF CoverOK
<1>4. \A f \in 1 .. Done : Covered(f)'
  BY <1>3, CoveredKept
<1>5. \/ Done' <= Done
      \/ /\ Done' = pos /\ Done = pos - 1 /\ pos \in Ids
         /\ Old(pos) \/ Materialize
  BY DoneStep, Zenon
<1>6. Done \in Nat /\ Done' \in Nat
  BY DoneStep
<1>7. CASE e \in 1 .. Done
  BY <1>4, <1>7
<1>8. CASE e \notin 1 .. Done
  <2>1. e = pos /\ pos \in Ids
    <3>1. ~ (Done' <= Done)
      BY <1>6, <1>8
    <3>2. Done' = pos /\ Done = pos - 1 /\ pos \in Ids
      BY <1>5, <3>1
    <3> QED BY <1>6, <1>8, <3>2
  <2>2. Old(pos) \/ Materialize
    BY <1>5, <1>6, <1>8
  <2>3. Old(e) => Old(e)'
    BY <2>1, TimeStep
  <2>4. CASE Old(pos)
    BY <2>1, <2>3, <2>4 DEF Covered
  <2>5. CASE Materialize
    <3>1. /\ clock < Expiry /\ clock' = clock /\ events' = events
          /\ index' = (index \ Gone) \cup {pos}
          /\ \A g \in 1 .. MaxEvents : item'[g] = IF g = pos THEN Expiry
                                                  ELSE IF g \in Gone THEN 0 ELSE item[g]
      BY <2>5, MaterializeFrame
    <3>2. e \in 1 .. MaxEvents /\ e \in Nat
      BY <2>1, IdsBounded, EventTypes
    <3>3. Shown(e)'
      BY <2>1, <3>1, <3>2 DEF Shown, Live
    <3>4. e \in Ids'
      BY <2>1, <3>1 DEF Ids
    <3>5. e >= e /\ Status(e)' = Status(e)'
      BY <3>2
    <3> QED BY <3>3, <3>4, <3>5 DEF Covered
  <2> QED BY <2>2, <2>4, <2>5
<1> QED BY <1>7, <1>8


\* A step that materializes ends at its event.
LEMMA MaterializeEnds ==
    ASSUME TypeOK, StreamOK, WorkerOK, Materialize
    PROVE  Done' = pos /\ Done = pos - 1 /\ pos \in Ids /\ pos \in Nat
<1>1. pc = "exec" /\ pos' = pos + 1 /\ pc' = "batch" /\ pos \in Ids
  BY MaterializeFrame
<1>2. pos \in Nat
  BY WorkerTypes
<1>3. Done' = (pos + 1) - 1 /\ Done = pos - 1
  BY <1>1 DEF Done, Busy
<1> QED BY <1>1, <1>2, <1>3

\* What becomes of the ids a reader holds.
LEMMA HeldIds ==
    ASSUME TypeOK, StreamOK, WorkerOK, FetchOK, [Next]_centerVars
    PROVE  /\ \A e \in ToSet(fetch'.ids) : e \in ToSet(fetch.ids) \cup index
           /\ \A e \in fetch'.stale : e \in fetch.stale \/ (e \in ToSet(fetch.ids) /\ ~Live(e))
           /\ fetch'.stale = fetch.stale \/ UNCHANGED <<item, clock>>
<1>1. ASSUME UNCHANGED fetch
      PROVE  /\ \A e \in ToSet(fetch'.ids) : e \in ToSet(fetch.ids) \cup index
             /\ \A e \in fetch'.stale : e \in fetch.stale \/ (e \in ToSet(fetch.ids) /\ ~Live(e))
             /\ fetch'.stale = fetch.stale \/ UNCHANGED <<item, clock>>
  BY <1>1
<1>2. ToSet(<<>>) = {}
  BY DEF ToSet
<1>3. CASE Reading
  <2>1. fetch \in Fetch
    BY TypeParts
  <2>2. CASE FetchStart
    <3>1. fetch' = [NoFetch EXCEPT !.at = "page"]
      BY <2>2 DEF FetchStart
    <3>2. fetch'.ids = <<>> /\ fetch'.stale = {}
      BY <3>1 DEF NoFetch
    <3>3. UNCHANGED <<item, clock>>
      BY <1>3, ReadingFrame
    <3> QED BY <1>2, <3>2, <3>3
  <2>3. CASE FetchPage
    <3>1. PICK p : p = Slice(NewestFirst(index), fetch.start, Limit - Len(fetch.out))
      OBVIOUS
    <3>2. fetch.at = "page"
          /\ fetch' = [fetch EXCEPT !.ids = p, !.at = IF p = <<>> THEN "zrem" ELSE "get"]
      BY <2>3, <3>1 DEF FetchPage
    <3>3. fetch'.ids = p /\ fetch'.stale = fetch.stale
      BY <2>1, <3>2 DEF Fetch
    <3>4. fetch.start \in Nat /\ Limit - Len(fetch.out) \in Nat
      <4>1. fetch.start \in Nat /\ Len(fetch.out) \in Nat
        BY <2>1, LenProperties DEF Fetch
      <4>2. Len(fetch.out) < Limit
        BY <3>2 DEF FetchOK
      <4> QED BY <4>1, <4>2, LimitType
    <3>5. \A e \in ToSet(p) : e \in index
      <4> DEFINE a == fetch.start
                 n == Limit - Len(fetch.out)
      <4>1. a \in Nat /\ n \in Nat /\ p = Slice(NewestFirst(index), a, n)
        BY <3>1, <3>4
      <4>2. index \subseteq Nat /\ IsFiniteSet(index)
        BY IndexFinite
      <4> HIDE DEF a, n
      <4>3. \A e : e \in ToSet(p) => e \in index
        BY <4>1, <4>2, PageByRank, Zenon
      <4> QED BY <4>3
    <3> QED BY <3>3, <3>5
  <2>4. CASE FetchItems
    <3>1. PICK o, s, c :
              fetch' = [fetch EXCEPT !.out = o, !.start = s, !.stale = fetch.stale \cup Misses,
                                     !.at = c]
      BY <2>4 DEF FetchItems, Misses
    <3>2. fetch'.ids = fetch.ids /\ fetch'.stale = fetch.stale \cup Misses
      BY <2>1, <3>1 DEF Fetch
    <3>3. UNCHANGED <<item, clock>>
      BY <1>3, ReadingFrame
    <3> QED BY <3>2, <3>3 DEF Misses
  <2> QED BY <1>3, <2>2, <2>3, <2>4 DEF Reading
<1>4. CASE FetchDone
  <2>1. fetch' = NoFetch /\ UNCHANGED <<item, clock>>
    BY <1>4, DoneFrame
  <2>2. fetch'.ids = <<>> /\ fetch'.stale = {}
    BY <2>1 DEF NoFetch
  <2> QED BY <1>2, <2>1, <2>2
<1>5. Publishing => UNCHANGED fetch
  BY PublishingFrame
<1>6. Moving => UNCHANGED fetch
  BY MovingFrame
<1>7. Materialize => UNCHANGED fetch
  BY MaterializeFrame
<1>8. Tick => UNCHANGED fetch
  BY TickFrame
<1>9. UNCHANGED centerVars => UNCHANGED fetch
  BY StutterFrame
<1> QED BY <1>1, <1>3, <1>4, <1>5, <1>6, <1>7, <1>8, <1>9, NextKinds

LEMMA FreshStep ==
    ASSUME TypeOK, StreamOK, WorkerOK, FetchOK, ItemsOK, FreshOK, [Next]_centerVars
    PROVE  FreshOK'
<1> SUFFICES ASSUME redone' = "nothing"
             PROVE  /\ \A e \in Ids' : item'[e] # 0 => e <= Done'
                    /\ \A e \in ToSet(fetch'.ids) \cup fetch'.stale : e \in 1 .. Done'
                    /\ \A e \in fetch'.stale : ~Live(e)'
  BY DEF FreshOK, ToSet
<1>1. redone = "nothing"
  BY HistoryStep
<1>2. Done \in Nat /\ Done' \in Nat /\ Done <= Done'
  BY DoneStep
<1>3. \A e \in Ids : item[e] # 0 => e <= Done
  BY <1>1 DEF FreshOK
<1>4. \A e \in ToSet(fetch.ids) \cup fetch.stale : e \in 1 .. Done
  BY <1>1 DEF FreshOK
<1>5. \A e \in fetch.stale : ~Live(e)
  BY <1>1 DEF FreshOK
<1>6. \A e \in index : e \in 1 .. Done
  <2>1. \A e \in index : e \in 1 .. MaxEvents /\ item[e] # 0
    BY DEF ItemsOK
  <2>2. \A e \in index : e \in Ids /\ e \in Nat /\ e >= 1
    BY StoreTypes, EventTypes DEF Ids
  <2> QED BY <1>2, <1>3, <2>1, <2>2
<1>7. \A e \in ToSet(fetch'.ids) \cup fetch'.stale : e \in 1 .. Done
  BY <1>4, <1>6, HeldIds
<1>8. \A e \in ToSet(fetch'.ids) \cup fetch'.stale : e \in 1 .. Done'
  BY <1>2, <1>7
<1>9. ASSUME NEW e \in Ids', item'[e] # 0
      PROVE  e <= Done'
  <2>0. e \in 1 .. MaxEvents /\ e \in Nat
    <3>1. Len(events') \in Nat /\ Len(events') <= MaxEvents /\ MaxEvents \in Nat
      BY TimeStep, CenterAssumption
    <3> QED BY <3>1 DEF Ids
  <2>1. item[e] # 0 => e <= Done
    BY <1>3, <2>0 DEF ItemsOK
  <2>2. CASE Materialize
    <3>1. e = pos \/ item[e] # 0
      BY <1>9, <2>0, <2>2, MaterializeFrame
    <3>2. Done' = pos /\ pos \in Nat
      BY <2>2, MaterializeEnds
    <3> QED BY <1>2, <2>0, <2>1, <3>1, <3>2
  <2>3. CASE ~ Materialize
    <3>1. item' = item
      BY <2>3, StoreQuiet
    <3> QED BY <1>2, <1>9, <2>0, <2>1, <3>1
  <2> QED BY <2>2, <2>3
<1>10. ASSUME NEW e \in fetch'.stale
       PROVE  ~Live(e)'
  <2>1. ~Live(e) /\ e \in 1 .. Done /\ e \in Nat
    <3>1. ~Live(e)
      BY <1>5, <1>10, HeldIds
    <3> QED BY <1>2, <1>7, <3>1
  <2>2. e \in 1 .. MaxEvents
    BY <2>1, DoneBound, IdsBounded
  <2>3. ~ (item[e] > clock) /\ item[e] \in Nat /\ clock \in Nat /\ clock' \in Nat
        /\ clock <= clock'
    BY <2>1, <2>2, StoreTypes, EventTypes, TimeStep DEF Live
  <2>4. CASE Materialize
    <3>1. clock' = clock /\ (item'[e] = item[e] \/ item'[e] = 0)
      <4>1. Done = pos - 1 /\ pos \in Nat
        BY <2>4, MaterializeEnds
      <4>2. e # pos
        BY <1>2, <2>1, <4>1
      <4> QED BY <2>2, <2>4, <4>2, MaterializeFrame
    <3>2. ~ (item'[e] > clock')
      BY <2>3, <3>1
    <3> QED BY <3>2 DEF Live
  <2>5. CASE ~ Materialize
    <3>1. item' = item
      BY <2>5, StoreQuiet
    <3>2. ~ (item'[e] > clock')
      BY <2>3, <3>1
    <3> QED BY <3>2 DEF Live
  <2> QED BY <2>4, <2>5
<1> QED BY <1>8, <1>9, <1>10


LEMMA ListedStep ==
    ASSUME TypeOK, StreamOK, WorkerOK, FetchOK, ItemsOK, FreshOK, ItemsAreListed,
           [Next]_centerVars
    PROVE  ItemsAreListed'
<1> SUFFICES ASSUME redone' = "nothing" \/ fetches' = 0, NEW e \in Ids', Live(e)'
             PROVE  e \in index'
  BY DEF ItemsAreListed
<1>1. redone = "nothing" \/ fetches = 0
  BY HistoryStep
<1>2. \A f \in Ids : Live(f) => f \in index
  BY <1>1 DEF ItemsAreListed
<1>3. e \in 1 .. MaxEvents
  <2>1. Len(events') \in Nat /\ Len(events') <= MaxEvents /\ MaxEvents \in Nat
    BY TimeStep, CenterAssumption
  <2> QED BY <2>1 DEF Ids
<1>4. item'[e] > clock'
  BY DEF Live
<1>5. /\ clock \in Nat /\ clock' \in Nat /\ clock <= clock' /\ item[e] \in Nat
  BY <1>3, EventTypes, TimeStep, StoreTypes
<1>6. item[e] > clock => e \in Ids /\ e \in index
  BY <1>2, <1>3, LiveItem DEF Live
<1>7. CASE Materialize
  <2>1. /\ clock' = clock
        /\ index' = (index \ Gone) \cup {pos}
        /\ item'[e] = IF e = pos THEN Expiry ELSE IF e \in Gone THEN 0 ELSE item[e]
    BY <1>3, <1>7, MaterializeFrame
  <2>2. e = pos \/ e \notin Gone
    BY <1>4, <1>5, <2>1
  <2>3. e = pos \/ item[e] > clock
    BY <1>4, <1>5, <2>1
  <2> QED BY <1>6, <2>1, <2>2, <2>3
<1>8. CASE ~ Materialize
  <2>1. item' = item
    BY <1>8, StoreQuiet
  <2>2. item[e] > clock
    BY <1>4, <1>5, <2>1
  <2>3. CASE FetchDone
    <3>1. fetch.at = "zrem" /\ index' \in {index, index \ fetch.stale} /\ UNCHANGED fetches
      BY <2>3, DoneFrame
    <3>2. fetches = 0 => fetch.at = "idle"
      BY Zenon DEF FetchOK
    <3>3. fetches # 0
      BY <3>1, <3>2
    <3>4. \A f \in fetch.stale : ~ Live(f)
      BY <1>1, <3>3 DEF FreshOK
    <3>5. Live(e)
      BY <2>2 DEF Live
    <3>6. e \notin fetch.stale
      BY <3>4, <3>5
    <3> QED BY <1>6, <2>2, <3>1, <3>6
  <2>4. CASE ~ FetchDone
    <3>1. Publishing => index' = index
      BY PublishingFrame
    <3>2. Moving => index' = index
      BY MovingFrame
    <3>3. Reading => index' = index
      BY ReadingFrame
    <3>4. Tick => index' = index
      BY TickFrame
    <3>5. UNCHANGED centerVars => index' = index
      BY StutterFrame
    <3>6. index' = index
      BY <1>8, <2>4, <3>1, <3>2, <3>3, <3>4, <3>5, NextKinds
    <3> QED BY <1>6, <2>2, <3>6
  <2> QED BY <2>3, <2>4
<1> QED BY <1>7, <1>8


\* One page more: the live ones among the newest k ids, and those of the page.
LEMMA FoundMore ==
    ASSUME TypeOK, NEW k \in Nat, NEW m \in Nat,
           \A e : e \in ToSet(fetch.ids) <=>
               e \in index /\ k < Rank(index, e) /\ Rank(index, e) <= k + m
    PROVE  NewestFirst(Found(k + m)) = NewestFirst(Found(k)) \o NewestFirst(Hits)
<1>1. index \subseteq Nat /\ IsFiniteSet(index) /\ Cardinality(index) \in Nat
  BY IndexFinite
<1>2. Hits \subseteq Nat /\ IsFiniteSet(Hits)
  BY HitsFinite
<1>3. Found(k) \subseteq Nat /\ IsFiniteSet(Found(k))
  <2>1. Found(k) \in SUBSET index
    BY DEF Found
  <2>2. IsFiniteSet(Found(k))
    BY <1>1, <2>1, FS_Subset, Zenon
  <2> QED BY <1>1, <2>1, <2>2
<1>4. \A e \in index : Rank(index, e) \in Nat
  <2>1. \A e \in index : Rank(index, e) \in 1 .. Cardinality(index)
    BY <1>1, RankRange
  <2> QED BY <1>1, <2>1
<1>5. \A e \in Found(k), f \in Hits : e > f
  <2> TAKE e \in Found(k), f \in Hits
  <2>1. e \in index /\ Rank(index, e) <= k
    BY DEF Found
  <2>2. f \in index /\ k < Rank(index, f)
    BY DEF Hits
  <2>3. e < f => Rank(index, f) < Rank(index, e)
    BY <1>1, <2>1, <2>2, RankLess
  <2>4. e \in Nat /\ f \in Nat /\ Rank(index, e) \in Nat /\ Rank(index, f) \in Nat
    BY <1>1, <1>4, <2>1, <2>2
  <2>5. e # f
    BY <2>1, <2>2, <2>4
  <2>6. ~ (e < f)
    BY <2>1, <2>2, <2>3, <2>4
  <2> QED BY <2>4, <2>5, <2>6
<1>6. Found(k + m) = Found(k) \cup Hits
  <2>1. ASSUME NEW e \in index
        PROVE  Rank(index, e) <= k + m
                   <=> Rank(index, e) <= k \/ (k < Rank(index, e) /\ Rank(index, e) <= k + m)
    <3>1. Rank(index, e) \in Nat
      BY <1>4
    <3> QED BY <3>1
  <2>2. \A e : e \in Hits <=> e \in ToSet(fetch.ids) /\ Live(e)
    BY DEF Hits
  <2>3. \A e : e \in Found(k) <=> e \in index /\ Rank(index, e) <= k /\ Live(e)
    BY DEF Found
  <2>4. \A e : e \in Found(k + m) <=> e \in index /\ Rank(index, e) <= k + m /\ Live(e)
    BY DEF Found
  <2>5. \A e : e \in Found(k + m) <=> e \in Found(k) \/ e \in Hits
    BY <2>1, <2>2, <2>3, <2>4, Zenon
  <2> QED BY <2>5, Zenon
<1>7. NewestFirst(Found(k) \cup Hits) = NewestFirst(Found(k)) \o NewestFirst(Hits)
  BY <1>2, <1>3, <1>5, NewestFirstConcat, Zenon
<1> QED BY <1>6, <1>7

LEMMA FoundNone == ASSUME TypeOK PROVE NewestFirst(Found(0)) = <<>>
<1>1. index \subseteq Nat /\ IsFiniteSet(index) /\ Cardinality(index) \in Nat
  BY IndexFinite
<1>2. \A e \in index : Rank(index, e) \in 1 .. Cardinality(index)
  BY <1>1, RankRange
<1>3. \A e \in index : ~ (Rank(index, e) <= 0)
  <2> TAKE e \in index
  <2>1. Rank(index, e) \in 1 .. Cardinality(index)
    BY <1>2
  <2> QED BY <1>1, <2>1
<1>4. Found(0) = {}
  BY <1>3 DEF Found
<1> QED BY <1>4, NewestFirstOfNone

LEMMA ReadStep ==
    ASSUME TypeOK, StreamOK, WorkerOK, FetchOK, ReadOK, [Next]_centerVars
    PROVE  ReadOK'
<1> DEFINE F(k) == {e \in index' : Rank(index', e) <= k /\ item'[e] > clock'}
           Good == /\ fetch'.out = NewestFirst(F(fetch'.start))
                   /\ Len(fetch'.out) <= Limit
                   /\ fetch'.at = "get" =>
                         fetch'.ids = Slice(NewestFirst(index'), fetch'.start,
                                            Limit - Len(fetch'.out))
                   /\ fetch'.at = "zrem" =>
                         \/ fetch'.start >= Cardinality(index')
                         \/ Len(fetch'.out) = Limit
                         \/ fetch'.start >= 4 * Limit
<1>1. SUFFICES ASSUME quiet' # FALSE, fetch'.at # "idle" PROVE Good
  <2>1. (quiet' /\ fetch'.at # "idle" => Good) => ReadOK'
    BY Zenon DEF ReadOK, Found, Live, NewestFirst, Rank, Slice
  <2>2. quiet' => quiet' # FALSE
    OBVIOUS
  <2> QED BY <2>1, <2>2, Zenon
<1>2. ASSUME UNCHANGED <<index, item, clock>>, NEW k
      PROVE  F(k) = Found(k)
  <2>1. \A e : e \in F(k) <=> e \in Found(k)
    BY <1>2 DEF Found, Live
  <2> HIDE DEF F
  <2> QED BY <2>1, Zenon
<1> HIDE DEF F
<1>3. quiet # FALSE /\ fetch.at # "idle" =>
        /\ fetch.out = NewestFirst(Found(fetch.start))
        /\ Len(fetch.out) <= Limit
        /\ fetch.at = "get" =>
              fetch.ids = Slice(NewestFirst(index), fetch.start, Limit - Len(fetch.out))
        /\ fetch.at = "zrem" =>
              \/ fetch.start >= Cardinality(index)
              \/ Len(fetch.out) = Limit
              \/ fetch.start >= 4 * Limit
  <2>1. quiet \in BOOLEAN
    BY TypeParts DEF HistoryType
  <2>2. quiet # FALSE => quiet
    BY <2>1
  <2> QED BY <2>2, Zenon DEF ReadOK
<1>4. ASSUME UNCHANGED <<fetch, index, item, clock, quiet>>
      PROVE  Good
  BY <1>1, <1>2, <1>3, <1>4, Zenon
<1>5. CASE Reading
  <2>1. /\ fetch \in Fetch /\ Limit \in Nat /\ Limit > 0
    BY TypeParts, LimitType
  <2>2. UNCHANGED <<index, item, clock>> /\ \A k : F(k) = Found(k)
    <3>1. UNCHANGED <<index, item, clock>>
      BY <1>5, ReadingFrame
    <3> QED BY <1>2, <3>1
  <2>3. CASE FetchStart
    <3>1. fetch' = [NoFetch EXCEPT !.at = "page"]
      BY <2>3 DEF FetchStart
    <3>2. fetch'.at = "page" /\ fetch'.out = <<>> /\ fetch'.start = 0
      BY <3>1 DEF NoFetch
    <3>3. NewestFirst(F(fetch'.start)) = <<>>
      BY <2>2, <3>2, FoundNone, Zenon
    <3>4. Len(fetch'.out) <= Limit
      BY <2>1, <3>2
    <3> QED BY <3>2, <3>3, <3>4
  <2>4. CASE FetchPage
    <3> DEFINE a == fetch.start
               n == Limit - Len(fetch.out)
    <3>1. PICK p : p = Slice(NewestFirst(index), a, n)
      OBVIOUS
    <3>2. fetch.at = "page" /\ quiet' = quiet
          /\ fetch' = [fetch EXCEPT !.ids = p, !.at = IF p = <<>> THEN "zrem" ELSE "get"]
      BY <2>4, <3>1 DEF FetchPage
    <3>3. /\ fetch'.ids = p /\ fetch'.start = a /\ fetch'.out = fetch.out
          /\ fetch'.at = IF p = <<>> THEN "zrem" ELSE "get"
      BY <2>1, <3>2 DEF Fetch
    <3>4. fetch.out = NewestFirst(Found(a)) /\ Len(fetch.out) <= Limit
      BY <1>1, <1>3, <3>2
    <3>5. a \in Nat /\ n \in Nat /\ n > 0
      <4>1. a \in Nat /\ Len(fetch.out) \in Nat
        BY <2>1, LenProperties DEF Fetch
      <4>2. Len(fetch.out) < Limit
        BY <3>2 DEF FetchOK
      <4> QED BY <2>1, <4>1, <4>2
    <3>6. p = <<>> => a >= Cardinality(index)
      <4>1. index \subseteq Nat /\ IsFiniteSet(index) /\ Cardinality(index) \in Nat
        BY IndexFinite
      <4> HIDE DEF a, n
      <4>2. Len(p) = n \/ a + Len(p) >= Cardinality(index)
        BY <3>1, <3>5, <4>1, PageByRank, Zenon
      <4>3. p = <<>> => Len(p) = 0
        OBVIOUS
      <4> QED BY <3>5, <4>1, <4>2, <4>3
    <3>7. fetch'.at = "get" => fetch'.ids = Slice(NewestFirst(index'), fetch'.start,
                                                  Limit - Len(fetch'.out))
      BY <2>2, <3>1, <3>3, Zenon
    <3>8. fetch'.out = NewestFirst(F(fetch'.start)) /\ Len(fetch'.out) <= Limit
      BY <2>2, <3>3, <3>4, Zenon
    <3>9. fetch'.at = "zrem" => fetch'.start >= Cardinality(index')
      <4>1. fetch'.at = "zrem" => p = <<>>
        BY <3>3
      <4> QED BY <2>2, <3>3, <3>6, <4>1, Zenon
    <3> QED BY <3>7, <3>8, <3>9, Zenon
  <2>5. CASE FetchItems
    <3> DEFINE a == fetch.start
               m == Len(fetch.ids)
               n == Limit - Len(fetch.out)
    <3>1. PICK o : o = fetch.out \o NewestFirst(Hits)
      OBVIOUS
    <3>2. PICK c : c = IF Len(o) < Limit /\ a + m < 4 * Limit THEN "page" ELSE "zrem"
      OBVIOUS
    <3>3. /\ fetch.at = "get" /\ quiet' = quiet
          /\ fetch' = [fetch EXCEPT !.out = o, !.start = a + m,
                                    !.stale = fetch.stale \cup Misses, !.at = c]
      BY <2>5, <3>1, <3>2 DEF FetchItems, Hits, Misses
    <3>4. fetch'.out = o /\ fetch'.start = a + m /\ fetch'.at = c
      BY <2>1, <3>3 DEF Fetch
    <3>5. /\ fetch.out = NewestFirst(Found(a)) /\ Len(fetch.out) <= Limit
          /\ fetch.ids = Slice(NewestFirst(index), a, n)
      BY <1>1, <1>3, <3>3
    <3>6. a \in Nat /\ Len(fetch.out) \in Nat /\ n \in Nat /\ fetch.out \in Seq(Nat)
      <4>1. a \in Nat /\ Len(fetch.out) \in Nat /\ fetch.out \in Seq(Nat)
        BY <2>1, LenProperties DEF Fetch
      <4> QED BY <2>1, <3>5, <4>1
    <3>7. /\ m \in 0 .. n
          /\ \A e : e \in ToSet(fetch.ids) <=>
                 e \in index /\ a < Rank(index, e) /\ Rank(index, e) <= a + m
      <4>1. index \subseteq Nat /\ IsFiniteSet(index)
        BY IndexFinite
      <4>2. PICK p : p = fetch.ids
        OBVIOUS
      <4> HIDE DEF a, n
      <4>3. /\ Len(p) \in 0 .. n
            /\ \A e : e \in ToSet(p) <=>
                   e \in index /\ a < Rank(index, e) /\ Rank(index, e) <= a + Len(p)
        BY <3>5, <3>6, <4>1, <4>2, PageByRank, Zenon
      <4> QED BY <4>2, <4>3
    <3>8. m \in Nat
      BY <3>6, <3>7
    <3>9. o = NewestFirst(Found(a + m))
      <4> HIDE DEF a, m
      <4>1. NewestFirst(Found(a + m)) = NewestFirst(Found(a)) \o NewestFirst(Hits)
        BY <3>6, <3>7, <3>8, FoundMore, Zenon
      <4> QED BY <3>1, <3>5, <4>1, Zenon
    <3>10. Len(o) \in Nat /\ Len(o) <= Limit
      <4> DEFINE h == NewestFirst(Hits)
      <4>1. h \in Seq(Nat) /\ Len(h) = Cardinality(Hits) /\ Cardinality(Hits) \in 0 .. m
        BY HitsFinite, NewestFirstProperties, SeqMonotonic
      <4> HIDE DEF h, m
      <4>2. Len(fetch.out \o h) = Len(fetch.out) + Len(h)
        BY <3>6, <4>1, ConcatProperties
      <4>3. Len(o) = Len(fetch.out) + Len(h)
        BY <3>1, <4>2 DEF h
      <4> QED BY <2>1, <3>6, <3>7, <3>8, <4>1, <4>3
    <3>11. c # "get" /\ (c = "zrem" => Len(o) = Limit \/ a + m >= 4 * Limit)
      <4> HIDE DEF a, m
      <4>1. (Len(o) < Limit /\ a + m < 4 * Limit) \/ Len(o) = Limit \/ a + m >= 4 * Limit
        BY <2>1, <3>6, <3>8, <3>10
      <4> QED BY <3>2, <4>1
    <3>12. fetch'.out = NewestFirst(F(fetch'.start))
      BY <2>2, <3>4, <3>9, Zenon
    <3> QED BY <3>4, <3>10, <3>11, <3>12, Zenon
  <2> QED BY <1>5, <2>3, <2>4, <2>5 DEF Reading
<1>6. CASE Publishing
  BY <1>4, <1>6, PublishingFrame
<1>7. CASE Moving
  BY <1>4, <1>7, MovingFrame
<1>8. CASE Materialize
  BY <1>1, <1>8, MaterializeFrame
<1>9. CASE FetchDone
  BY <1>1, <1>9, DoneFrame
<1>10. CASE Tick
  BY <1>1, <1>10, TickFrame
<1>11. CASE UNCHANGED centerVars
  BY <1>4, <1>11, StutterFrame
<1> QED BY <1>5, <1>6, <1>7, <1>8, <1>9, <1>10, <1>11, NextKinds


-----------------------------------------------------------------------------
(* The theorems.                                                           *)

LEMMA CenterInit == ASSUME Init PROVE CenterInv
<1>1. /\ events = <<>> /\ Len(events) = 0 /\ Ids = {} /\ <<>> \in Seq(Event)
  BY EmptySeq DEF Init, Ids
<1>2. /\ {"connected", "disconnected"} \subseteq Statuses
      /\ MaxEvents \in Nat /\ Limit \in Nat /\ Limit > 0
  BY CenterAssumption
<1>3. fetch = NoFetch /\ fetch.at = "idle" /\ fetch.ids = <<>> /\ fetch.stale = {}
      /\ NoFetch \in Fetch
  <2>1. <<>> \in Seq(Nat) /\ {} \in SUBSET Nat
    BY EmptySeq
  <2> QED BY <2>1 DEF Init, NoFetch, Fetch
<1>4. ServiceType
  BY DEF Init, ServiceType
<1>5. WorkerType
  BY <1>1 DEF Init, WorkerType
<1>6. StoreType
  BY <1>1 DEF Init, StoreType
<1>7. HistoryType /\ fetches \in Nat /\ clock \in Nat
  BY DEF Init, HistoryType
<1>8. TypeOK
  BY <1>1, <1>3, <1>4, <1>5, <1>6, <1>7, TypeParts
<1>9. StreamOK
  BY <1>1, <1>2 DEF StreamOK
<1>10. WorkerOK /\ PrevOK
  BY DEF Init, WorkerOK, PrevOK, Busy
<1>11. ItemsOK
  BY <1>1 DEF Init, ItemsOK
<1>12. DedupeOK
  BY DEF Init, DedupeOK
<1>13. ToastOK /\ ItemsAreListed
  BY <1>1 DEF ToastOK, ItemsAreListed
<1>14. Done = 0
  BY DEF Init, Done, Busy
<1>15. CoverOK
  BY <1>14 DEF CoverOK
<1>16. FreshOK
  BY <1>1, <1>3 DEF FreshOK, ToSet
<1>17. FetchOK
  BY <1>3 DEF FetchOK
<1>18. SpokenOK
  BY DEF Init, SpokenOK
<1>19. ReadOK
  BY <1>3 DEF ReadOK
<1> QED
  BY <1>8, <1>9, <1>10, <1>11, <1>12, <1>13, <1>15, <1>16, <1>17, <1>18, <1>19
     DEF CenterInv

LEMMA CenterStep == ASSUME CenterInv, [Next]_centerVars PROVE CenterInv'
<1> USE DEF CenterInv
<1>1. TypeOK' /\ StreamOK' /\ WorkerOK' /\ FetchOK'
  BY TypeStep, StreamStep, WorkerStep, FetchStep
<1>2. PrevOK' /\ ItemsOK' /\ DedupeOK' /\ SpokenOK'
  BY PrevStep, ItemsStep, DedupeStep, SpokenStep
<1>3. ToastOK' /\ CoverOK'
  BY ToastStep, CoverStep
<1>4. FreshOK' /\ ItemsAreListed' /\ ReadOK'
  BY FreshStep, ListedStep, ReadStep
<1> QED BY <1>1, <1>2, <1>3, <1>4

\* The inductive invariant of the message center: the stream is in order of time, the
\* worker and its saved offset, the store, the dedupe keys and an undisturbed reader
\* (sync_events_for_consumer, materialize_stream_event, fetch_materialized_messages).
THEOREM CenterInvariant == Spec => []CenterInv
BY CenterInit, CenterStep, PTL DEF Spec

\* Type correctness of the message center in every reachable state.
THEOREM CenterTypes == Spec => []TypeOK
<1>1. CenterInv => TypeOK
  BY DEF CenterInv
<1> QED BY <1>1, CenterInvariant, PTL

\* Two messages of one status are on show together only when the earlier one is past its
\* window, for every batch size, crash and event gone through again
\* (the dedupe key in materialize_stream_event).
THEOREM OneToast == Spec => []OneToastPerWindow
<1>1. CenterInv => OneToastPerWindow
  <2> SUFFICES ASSUME CenterInv, NEW e \in Ids, NEW f \in Ids, e < f, Status(e) = Status(f),
                      Shown(e), Shown(f)
               PROVE  clock - events[e].at >= Window
    BY DEF OneToastPerWindow
  <2>1. TypeOK /\ StreamOK /\ ToastOK
    BY DEF CenterInv
  <2>2. /\ clock \in Nat /\ Window \in Nat /\ e \in Nat /\ f \in Nat
        /\ events[e].at \in Nat /\ events[f].at \in Nat
    BY <2>1, EventTypes
  <2>3. \/ clock - events[e].at >= Window
        \/ clock - events[f].at >= Window
        \/ e = dedupe[Status(e)].id /\ f = dedupe[Status(f)].id
    BY <2>1 DEF ToastOK, Shown
  <2>4. events[e].at <= events[f].at
    BY <2>1, <2>2 DEF StreamOK
  <2> QED BY <2>2, <2>3, <2>4
<1> QED BY <1>1, CenterInvariant, PTL

\* No crash and no offset that was not saved makes an event vanish: what the offset has
\* passed is shown, too old, or gave way to another of its status that is shown
\* (set_consumer_last_id after the batch).
THEOREM NothingIsLost == Spec => []NothingVanishes
<1>1. CenterInv => NothingVanishes
  <2> SUFFICES ASSUME CenterInv, NEW e \in 1 .. offset, ~skipped, redone # "everything",
                      ~Crossed
               PROVE  \/ Shown(e) \/ Old(e)
                      \/ \E f \in Ids : f # e /\ Status(f) = Status(e) /\ Shown(f)
    BY Zenon DEF NothingVanishes
  <2>1. TypeOK /\ WorkerOK /\ CoverOK
    BY DEF CenterInv
  <2>2. offset \in Nat /\ pos \in Nat /\ pos >= 1
    BY <2>1, WorkerTypes
  <2>3. Busy => pos > offset
    BY <2>1 DEF WorkerOK
  <2>4. e \in 1 .. Done
    BY <2>2, <2>3 DEF Done
  <2>5. Covered(e)
    BY <2>1, <2>4 DEF CoverOK
  <2> QED BY <2>5 DEF Covered
<1> QED BY <1>1, CenterInvariant, PTL

\* Once the worker has caught up, the newest message on show tells the status the tracker
\* holds (IbConnectionStatusTracker.update).
THEOREM NewestIsTold == Spec => []NewestTellsStatus
<1>1. CenterInv => NewestTellsStatus
  <2> DEFINE n == Len(events)
             S == {e \in Ids : Shown(e)}
  <2> SUFFICES ASSUME CenterInv, CaughtUp, ~skipped, redone # "everything", ~Crossed,
                      spoken, ~Old(n)
               PROVE  Shown(n) /\ Status(Max(S)) = last
    BY Zenon DEF NewestTellsStatus
  <2>1. TypeOK /\ WorkerOK /\ CoverOK /\ SpokenOK
    BY DEF CenterInv
  <2>2. n \in Nat /\ \A e \in Ids : e \in Nat /\ e <= n
    BY <2>1, EventTypes DEF Ids
  <2>3. Ids # {} /\ Status(n) = last
    BY <2>1, Zenon DEF SpokenOK
  <2>4. n \in Ids /\ n \in 1 .. n
    BY <2>2, <2>3 DEF Ids
  <2>5. Done = n
    BY DEF CaughtUp, Done, Busy
  <2>6. Covered(n)
    BY <2>1, <2>4, <2>5 DEF CoverOK
  <2>7. PICK f \in Ids : f >= n /\ Shown(f)
    BY <2>6 DEF Covered
  <2>8. f = n
    BY <2>2, <2>7
  <2>9. Shown(n)
    BY <2>7, <2>8
  <2>10. Max(S) = n
    <3>1. S \subseteq Int /\ n \in S /\ \A y \in S : y <= n
      BY <2>2, <2>4, <2>9
    <3> HIDE DEF S, n
    <3> QED BY <3>1, MaxIs
  <2> QED BY <2>3, <2>9, <2>10
<1> QED BY <1>1, CenterInvariant, PTL

\* What the store holds stays listed, and a fetch nothing interferes with has the newest
\* messages up to the limit (fetch_materialized_messages).
THEOREM ReaderFinds == Spec => []ReaderFindsAll
<1>1. CenterInv => ReaderFindsAll
  <2> DEFINE a == fetch.start
             L == {e \in index : Live(e)}
             R == {e \in index : Live(e) /\ ~ (Rank(index, e) <= a)}
  <2>1. SUFFICES ASSUME CenterInv, fetch.at = "zrem", quiet,
                        a < 4 * Limit \/ Len(fetch.out) = Limit
                 PROVE  fetch.out = Slice(NewestFirst(L), 0, Limit)
    BY DEF ReaderFindsAll, FetchIsNewest, CenterInv
  <2>2. TypeOK /\ ReadOK
    BY <2>1 DEF CenterInv
  <2>3. /\ fetch.out = NewestFirst(Found(a)) /\ Len(fetch.out) <= Limit
        /\ \/ a >= Cardinality(index)
           \/ Len(fetch.out) = Limit
           \/ a >= 4 * Limit
    <3>1. fetch.at # "idle"
      BY <2>1
    <3> QED BY <2>1, <2>2, <3>1, Zenon DEF ReadOK
  <2>4. a \in Nat /\ Limit \in Nat /\ Len(fetch.out) \in Nat /\ fetch.out \in Seq(Nat)
    <3>1. fetch \in Fetch
      BY <2>2, TypeParts
    <3> QED BY <3>1, LimitType, LenProperties DEF Fetch
  <2>5. /\ index \subseteq Nat /\ IsFiniteSet(index) /\ Cardinality(index) \in Nat
        /\ \A e \in index : Rank(index, e) \in Nat /\ Rank(index, e) <= Cardinality(index)
    <3>1. index \subseteq Nat /\ IsFiniteSet(index) /\ Cardinality(index) \in Nat
      BY <2>2, IndexFinite
    <3>2. \A e \in index : Rank(index, e) \in 1 .. Cardinality(index)
      BY <3>1, RankRange
    <3> QED BY <3>1, <3>2
  <2>6. Found(a) \subseteq Nat /\ IsFiniteSet(Found(a)) /\ R \subseteq Nat /\ IsFiniteSet(R)
    <3>1. Found(a) \in SUBSET index /\ R \in SUBSET index
      BY DEF Found
    <3> HIDE DEF R, a
    <3>2. IsFiniteSet(Found(a)) /\ IsFiniteSet(R)
      BY <2>5, <3>1, FS_Subset, Zenon
    <3> QED BY <2>5, <3>1, <3>2
  <2>7. L = Found(a) \cup R
    <3>1. \A e : e \in L <=> e \in Found(a) \/ e \in R
      BY Zenon DEF Found
    <3> HIDE DEF L, R, a
    <3> QED BY <3>1, Zenon
  <2>8. \A e \in Found(a), f \in R : e > f
    <3> TAKE e \in Found(a), f \in R
    <3>1. e \in index /\ Rank(index, e) <= a /\ f \in index /\ ~ (Rank(index, f) <= a)
      BY DEF Found
    <3>2. e < f => Rank(index, f) < Rank(index, e)
      BY <2>5, <3>1, RankLess
    <3>3. e \in Nat /\ f \in Nat /\ Rank(index, e) \in Nat /\ Rank(index, f) \in Nat
      BY <2>5, <3>1
    <3> HIDE DEF a, R
    <3>4. e # f
      BY <3>1
    <3>5. ~ (e < f)
      BY <2>4, <3>1, <3>2, <3>3
    <3> QED BY <3>3, <3>4, <3>5
  <2>9. NewestFirst(L) = fetch.out \o NewestFirst(R)
    <3> HIDE DEF L, R, a
    <3>1. NewestFirst(Found(a) \cup R) = NewestFirst(Found(a)) \o NewestFirst(R)
      BY <2>6, <2>8, NewestFirstConcat, Zenon
    <3> QED BY <2>3, <2>7, <3>1, Zenon
  <2>10. Len(fetch.out) = Limit \/ R = {}
    <3>1. Len(fetch.out) = Limit \/ a >= Cardinality(index)
      BY <2>1, <2>3, <2>4
    <3>2. a >= Cardinality(index) => \A e \in index : Rank(index, e) <= a
      BY <2>4, <2>5
    <3> QED BY <3>1, <3>2
  <2>11. Len(fetch.out) = Limit \/ (Len(fetch.out) <= Limit /\ NewestFirst(R) = <<>>)
    <3> HIDE DEF R, a
    <3> QED BY <2>3, <2>10, NewestFirstOfNone
  <2>12. NewestFirst(R) \in Seq(Nat)
    <3> HIDE DEF R
    <3> QED BY <2>6, NewestFirstProperties, SeqMonotonic
  <2> HIDE DEF L, R, a
  <2>13. Slice(fetch.out \o NewestFirst(R), 0, Limit) = fetch.out
    <3> DEFINE s == fetch.out
               t == NewestFirst(R)
    <3>1. s \in Seq(Nat) /\ t \in Seq(Nat) /\ Limit \in Nat
          /\ (Len(s) = Limit \/ (Len(s) <= Limit /\ t = <<>>))
      BY <2>4, <2>11, <2>12
    <3> HIDE DEF s, t
    <3>2. Slice(s \o t, 0, Limit) = s
      BY <3>1, SliceOfConcat, Zenon
    <3> QED BY <3>2 DEF s, t
  <2> QED BY <2>9, <2>13, Zenon
<1> QED BY <1>1, CenterInvariant, PTL

===============================================================================
