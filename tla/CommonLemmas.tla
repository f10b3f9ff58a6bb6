---------------------------- MODULE CommonLemmas ----------------------------
(***************************************************************************)
(* Facts about slices, minima and maxima, about orders on finite sets and  *)
(* about subsequences, which the proofs of several components use.         *)
(***************************************************************************)
EXTENDS FiniteSetsExt, Subsequences, SequenceTheorems, FunctionTheorems, FiniteSetTheorems, TLAPS

\* A slice of a sequence that stays inside it.
LEMMA SliceType ==
  ASSUME NEW S, NEW s \in Seq(S), NEW a \in Nat \ {0}, NEW b \in Int, b <= Len(s)
  PROVE  /\ SubSeq(s, a, b) \in Seq(S)
         /\ Len(SubSeq(s, a, b)) = IF a <= b THEN b - a + 1 ELSE 0
<1>1. \A i \in a .. b : s[i] \in S
  BY ElementOfSeq, LenProperties
<1> QED  BY <1>1, SubSeqProperties

\* The smaller of two numbers.
LEMMA MinOfTwo ==
  ASSUME NEW a \in Int, NEW b \in Int
  PROVE  Min({a, b}) \in {a, b} /\ Min({a, b}) <= a /\ Min({a, b}) <= b
<1>1. \E x \in {a, b} : \A y \in {a, b} : x =< y
  <2>1. CASE a <= b  BY <2>1
  <2>2. CASE b <= a  BY <2>2
  <2> QED  BY <2>1, <2>2
<1> QED  BY <1>1 DEF Min

\* The same for the larger one.
LEMMA MaxOfTwo ==
  ASSUME NEW a \in Int, NEW b \in Int
  PROVE  Max({a, b}) \in {a, b} /\ Max({a, b}) >= a /\ Max({a, b}) >= b
<1>1. \E x \in {a, b} : \A y \in {a, b} : x >= y
  <2>1. CASE a >= b  BY <2>1
  <2>2. CASE b >= a  BY <2>2
  <2> QED  BY <2>1, <2>2
<1> QED  BY <1>1 DEF Max

\* The first n elements of a sequence, or all of them.
First(s, n) == SubSeq(s, 1, Min({Len(s), n}))

LEMMA FirstIs ==
  ASSUME NEW S, NEW s \in Seq(S), NEW n \in Nat
  PROVE  /\ First(s, n) \in Seq(S) /\ Len(First(s, n)) = (IF Len(s) > n THEN n ELSE Len(s))
         /\ \A k \in 1 .. Len(First(s, n)) : First(s, n)[k] = s[k]
<1> DEFINE q == Len(s)
           m == Min({q, n})
           f == SubSeq(s, 1, m)
<1>1. q \in Nat /\ q \in Int /\ n \in Int
  BY LenProperties
<1> HIDE DEF q
<1>2. m \in {q, n} /\ m <= q /\ m <= n
  BY <1>1, MinOfTwo
<1> HIDE DEF m
<1>3. m \in Nat /\ m = (IF q > n THEN n ELSE q)
  BY <1>1, <1>2
<1>4. m <= Len(s)
  BY <1>2 DEF q
<1>5. f \in Seq(S) /\ Len(f) = m
  BY <1>3, <1>4, SliceType
<1>6. \A k \in 1 .. m : f[k] = s[k]
  <2>1. \A i \in 1 .. m : s[i] \in S
    BY <1>3, <1>4, ElementOfSeq, LenProperties
  <2>2. \A i \in 1 .. (m - 1) + 1 : f[i] = s[1 + i - 1]
    BY <1>3, <2>1, SubSeqProperties
  <2> QED  BY <1>3, <2>2
<1> QED  BY <1>3, <1>5, <1>6 DEF First, m, q

\* A finite set has an element that nothing in it precedes in a strict order R,
\* given as a set of pairs.
LEMMA MinimalElement ==
  ASSUME NEW S, IsFiniteSet(S), S # {}, NEW R,
         \A x \in S : <<x, x>> \notin R,
         \A x, y, z \in S : <<x, y>> \in R /\ <<y, z>> \in R => <<x, z>> \in R
  PROVE  \E m \in S : \A x \in S : <<x, m>> \notin R
<1> DEFINE Ahead(m) == {x \in S : <<x, m>> \in R}
           All == {Ahead(m) : m \in S}
<1>1. IsWellFoundedOn(StrictSubsetOrdering(S), FiniteSubsetsOf(S))
  BY FS_StrictSubsetOrderingWellFounded
<1>2. All \subseteq FiniteSubsetsOf(S) /\ All # {}
  <2>1. ASSUME NEW m \in S PROVE Ahead(m) \in FiniteSubsetsOf(S)
    <3>1. Ahead(m) \subseteq S
      OBVIOUS
    <3> HIDE DEF Ahead
    <3> QED  BY <3>1, FS_Subset DEF FiniteSubsetsOf
  <2> HIDE DEF Ahead
  <2> QED  BY <2>1
<1>3. PICK a \in All : \A b \in All : <<b, a>> \notin StrictSubsetOrdering(S)
  <2> HIDE DEF All
  <2> QED  BY <1>1, <1>2, WFMin
<1>4. PICK m \in S : a = Ahead(m)
  BY <1>3
<1>5. ASSUME NEW x \in S, <<x, m>> \in R PROVE FALSE
  <2>1. Ahead(x) \subseteq Ahead(m) /\ x \in Ahead(m) /\ x \notin Ahead(x)
    BY <1>5
  <2>2. Ahead(x) \in All /\ Ahead(x) \subseteq S /\ Ahead(m) \subseteq S /\ Ahead(x) # Ahead(m)
    BY <2>1
  <2> HIDE DEF All, Ahead
  <2>3. <<Ahead(x), Ahead(m)>> \in StrictSubsetOrdering(S)
    BY <2>1, <2>2 DEF StrictSubsetOrdering
  <2> QED  BY <1>3, <1>4, <2>2, <2>3
<1> QED  BY <1>5

\* The elements of a finite set of numbers in their order.
LEMMA AscendingIs ==
  ASSUME NEW S \in SUBSET Int, IsFiniteSet(S)
  PROVE  LET n == Cardinality(S)
             a == Ascending(S)
         IN  /\ n \in Nat /\ a \in [1 .. n -> S]
             /\ \A x \in S : \E k \in 1 .. n : a[k] = x
             /\ \A j, k \in 1 .. n : j < k => a[j] < a[k]
<1> DEFINE n == Cardinality(S)
           a == Ascending(S)
           Upto(x) == {y \in S : y <= x}
           rank == [x \in S |-> Cardinality(Upto(x))]
<1>1. n \in Nat
  BY FS_CardinalityType
<1>2. ASSUME NEW x \in S
      PROVE  IsFiniteSet(Upto(x)) /\ rank[x] \in 1 .. n
  <2>1. Upto(x) \subseteq S /\ x \in Upto(x)
    OBVIOUS
  <2> HIDE DEF Upto
  <2>2. IsFiniteSet(Upto(x)) /\ Cardinality(Upto(x)) <= n
    BY <2>1, FS_Subset
  <2>3. Cardinality(Upto(x)) \in Nat /\ Cardinality(Upto(x)) # 0
    BY <2>1, <2>2, FS_CardinalityType, FS_EmptySet
  <2> QED  BY <1>1, <2>2, <2>3
<1>3. ASSUME NEW x \in S, NEW z \in S, x < z
      PROVE  rank[x] < rank[z]
  <2>0. \A y \in S : y \in Int
    OBVIOUS
  <2>1. Upto(x) \subseteq Upto(z) /\ z \in Upto(z) /\ z \notin Upto(x)
    <3>1. x \in Int /\ z \in Int
      BY <2>0
    <3>2. \A y \in S : y <= x => y <= z
      BY <1>3, <2>0, <3>1
    <3>3. z <= z /\ ~ z <= x
      BY <1>3, <3>1
    <3> QED  BY <3>2, <3>3
  <2> HIDE DEF Upto
  <2>2. IsFiniteSet(Upto(z))
    BY <1>2
  <2>3. /\ Cardinality(Upto(x)) <= Cardinality(Upto(z))
        /\ Cardinality(Upto(z)) = Cardinality(Upto(x)) => Upto(z) = Upto(x)
    BY <2>1, <2>2, FS_Subset
  <2>4. rank[x] \in Nat /\ rank[z] \in Nat
    BY <1>2
  <2> QED  BY <2>1, <2>3, <2>4
<1>4. \A x, z \in S : rank[x] = rank[z] => x = z
  <2> SUFFICES ASSUME NEW x \in S, NEW z \in S, rank[x] = rank[z] PROVE x = z
    OBVIOUS
  <2>1. rank[x] \in Int /\ x \in Int /\ z \in Int
    BY <1>2
  <2> HIDE DEF rank
  <2> QED  BY <1>3, <2>1
<1>5. rank \in Surjection(S, 1 .. n)
  <2>1. rank \in Injection(S, 1 .. n)
    BY <1>2, <1>4 DEF Injection, IsInjective
  <2>2. IsFiniteSet(1 .. n) /\ Cardinality(1 .. n) = n
    BY <1>1, FS_Interval
  <2> HIDE DEF rank
  <2> QED  BY <2>1, <2>2, FS_Injection
<1>6. ASSUME NEW k \in 1 .. n
      PROVE  a[k] \in S /\ rank[a[k]] = k
  <2>1. \E x \in S : rank[x] = k
    <3> HIDE DEF rank
    <3> QED  BY <1>5 DEF Surjection
  <2>2. \E x \in S : Cardinality({y \in S : y <= x}) = k
    BY <2>1
  <2>3. a[k] = CHOOSE x \in S : Cardinality({y \in S : y <= x}) = k
    BY DEF Ascending
  <2> QED  BY <2>2, <2>3
<1>7. a \in [1 .. n -> S]
  BY <1>6 DEF Ascending
<1>8. ASSUME NEW x \in S PROVE \E k \in 1 .. n : a[k] = x
  <2>1. rank[x] \in 1 .. n
    BY <1>2
  <2>2. a[rank[x]] \in S /\ rank[a[rank[x]]] = rank[x]
    BY <1>6, <2>1
  <2> HIDE DEF rank, a
  <2> QED  BY <1>4, <2>1, <2>2
<1>9. ASSUME NEW j \in 1 .. n, NEW k \in 1 .. n, j < k
      PROVE  a[j] < a[k]
  <2>1. a[j] \in Int /\ a[k] \in Int /\ rank[a[j]] = j /\ rank[a[k]] = k
        /\ a[j] \in S /\ a[k] \in S
    BY <1>6
  <2> HIDE DEF rank, a
  <2>2. ~ a[k] < a[j]
    BY <1>3, <1>9, <2>1
  <2>3. a[k] # a[j]
    BY <1>9, <2>1
  <2> QED  BY <2>1, <2>2, <2>3
<1> HIDE DEF a, n, rank
<1> QED  BY <1>1, <1>7, <1>8, <1>9 DEF a, n

\* What is kept of a sequence: its elements in P, all of them, in their order.
LEMMA KeepIs ==
  ASSUME NEW E, NEW s \in Seq(E), NEW P
  PROVE  LET k == Keep(s, P)
         IN  /\ k \in Seq(E) /\ Len(k) <= Len(s)
             /\ \A i \in 1 .. Len(k) : k[i] \in P /\ \E a \in 1 .. Len(s) : k[i] = s[a]
             /\ \A a \in 1 .. Len(s) : s[a] \in P => \E i \in 1 .. Len(k) : k[i] = s[a]
             /\ \A i, j \in 1 .. Len(k) : i < j =>
                  \E a, b \in 1 .. Len(s) : a < b /\ k[i] = s[a] /\ k[j] = s[b]
<1> DEFINE I == {i \in DOMAIN s : s[i] \in P}
           p == Ascending(I)
           n == Cardinality(I)
           k == Keep(s, P)
<1>1. Len(s) \in Nat /\ DOMAIN s = 1 .. Len(s) /\ \A i \in 1 .. Len(s) : s[i] \in E
  BY ElementOfSeq, LenProperties
<1>2. IsFiniteSet(1 .. Len(s)) /\ Cardinality(1 .. Len(s)) = Len(s)
  <2>1. IsFiniteSet(1 .. Len(s))
        /\ Cardinality(1 .. Len(s)) = IF 1 > Len(s) THEN 0 ELSE Len(s) - 1 + 1
    BY <1>1, FS_Interval
  <2> QED  BY <1>1, <2>1
<1>3. I \subseteq 1 .. Len(s) /\ I \in SUBSET Int
  BY <1>1
<1>4. IsFiniteSet(I) /\ n <= Len(s)
  BY <1>2, <1>3, FS_Subset
<1> HIDE DEF I
<1>5. /\ n \in Nat /\ p \in [1 .. n -> I]
      /\ \A x \in I : \E i \in 1 .. n : p[i] = x
      /\ \A i, j \in 1 .. n : i < j => p[i] < p[j]
  BY <1>3, <1>4, AscendingIs
<1>6. k = [i \in 1 .. n |-> s[p[i]]]
  BY <1>5 DEF Keep, I
<1> HIDE DEF p, k, n
<1>7. \A i \in 1 .. n : p[i] \in 1 .. Len(s) /\ s[p[i]] \in P
  BY <1>1, <1>3, <1>5 DEF I
<1>8. k \in [1 .. n -> E]
  BY <1>1, <1>6, <1>7
<1>9. k \in Seq(E) /\ Len(k) = n
  BY <1>5, <1>8, SeqDef, LenProperties
<1>10. \A a \in 1 .. Len(s) : s[a] \in P => \E i \in 1 .. n : k[i] = s[a]
  BY <1>1, <1>5, <1>6 DEF I
<1>11. \A i, j \in 1 .. n : i < j =>
         \E a, b \in 1 .. Len(s) : a < b /\ k[i] = s[a] /\ k[j] = s[b]
  BY <1>5, <1>6, <1>7
<1> QED  BY <1>4, <1>6, <1>7, <1>9, <1>10, <1>11 DEF k

\* The elements of a finite set of numbers from the largest to the smallest.
LEMMA DescendingIs ==
  ASSUME NEW S \in SUBSET Int, IsFiniteSet(S)
  PROVE  LET n == Cardinality(S)
             d == Descending(S)
         IN  /\ n \in Nat /\ d \in [1 .. n -> S] /\ Len(d) = n /\ d \in Seq(S)
             /\ \A x \in S : \E k \in 1 .. n : d[k] = x
             /\ \A j, k \in 1 .. n : j < k => d[j] > d[k]
<1> DEFINE n == Cardinality(S)
           a == Ascending(S)
           d == Descending(S)
<1>1. /\ n \in Nat /\ a \in [1 .. n -> S]
      /\ \A x \in S : \E k \in 1 .. n : a[k] = x
      /\ \A j, k \in 1 .. n : j < k => a[j] < a[k]
  BY AscendingIs
<1> HIDE DEF n, a
<1>3. d = [i \in 1 .. n |-> a[(n - i) + 1]]
  BY DEF Descending, n, a
<1> HIDE DEF d
<1>4. \A i \in 1 .. n : (n - i) + 1 \in 1 .. n /\ d[i] = a[(n - i) + 1]
  BY <1>1, <1>3
<1>5. d \in [1 .. n -> S]
  BY <1>1, <1>3, <1>4
<1>6. d \in Seq(S) /\ Len(d) = n
  BY <1>1, <1>5, SeqDef, LenProperties
<1>7. ASSUME NEW x \in S PROVE \E k \in 1 .. n : d[k] = x
  <2>1. PICK k \in 1 .. n : a[k] = x
    BY <1>1
  <2>2. (n - k) + 1 \in 1 .. n /\ (n - ((n - k) + 1)) + 1 = k
    BY <1>1
  <2> QED  BY <1>4, <2>1, <2>2
<1>8. ASSUME NEW j \in 1 .. n, NEW k \in 1 .. n, j < k PROVE d[j] > d[k]
  <2>1. (n - k) + 1 < (n - j) + 1 /\ (n - k) + 1 \in 1 .. n /\ (n - j) + 1 \in 1 .. n
    BY <1>1, <1>8
  <2>2. a[(n - k) + 1] < a[(n - j) + 1] /\ a[(n - k) + 1] \in Int /\ a[(n - j) + 1] \in Int
    BY <1>1, <2>1
  <2> QED  BY <1>4, <2>2
<1> QED  BY <1>1, <1>5, <1>6, <1>7, <1>8 DEF d, a, n

\* The values of a function on a finite set.
LEMMA FiniteValues ==
  ASSUME NEW S, IsFiniteSet(S), NEW f, DOMAIN f = S
  PROVE  IsFiniteSet({f[x] : x \in S})
<1> DEFINE T == {f[x] : x \in S}
           g == [x \in S |-> f[x]]
<1>1. g \in [S -> T] /\ \A t \in T : \E x \in S : g[x] = t
  OBVIOUS
<1>2. g \in Surjection(S, T)
  BY <1>1 DEF Surjection
<1> QED  BY <1>2, FS_Surjection DEF ExistsSurjection

\* Two finite sets without a common element.
LEMMA DisjointSizes ==
  ASSUME NEW S, IsFiniteSet(S), NEW T, IsFiniteSet(T), S \cap T = {}
  PROVE  IsFiniteSet(S \cup T) /\ Cardinality(S \cup T) = Cardinality(S) + Cardinality(T)
<1>1. Cardinality(S) \in Nat /\ Cardinality(T) \in Nat /\ Cardinality(S \cap T) = 0
  BY FS_CardinalityType, FS_EmptySet
<1>2. IsFiniteSet(S \cup T) /\ Cardinality(S \cup T) = Cardinality(S) + Cardinality(T) - Cardinality(S \cap T)
  BY FS_Union, Zenon
<1> QED  BY <1>1, <1>2

\* A finite set is as large as its parts together.
LEMMA SumOfParts ==
  ASSUME NEW D, IsFiniteSet(D), NEW S, NEW part, DOMAIN part = S,
         \A x \in S : part[x] \in SUBSET D,
         \A d \in D : \E x \in S : d \in part[x],
         \A x, y \in S : part[x] \cap part[y] # {} => x = y,
         NEW f, \A x \in S : f[x] = Cardinality(part[x])
  PROVE  SumOver(f, S) = Cardinality(D)
<1> DEFINE Number(x) == Bijection(1 .. f[x], part[x])
           b == [x \in S |-> CHOOSE g : g \in Number(x)]
           U == UNION {{x} \X (1 .. f[x]) : x \in S}
           F == [u \in U |-> b[u[1]][u[2]]]
<1>1. ASSUME NEW x \in S
      PROVE  /\ b[x] \in [1 .. f[x] -> part[x]]
             /\ \A i, j \in 1 .. f[x] : b[x][i] = b[x][j] => i = j
             /\ \A d \in part[x] : \E i \in 1 .. f[x] : b[x][i] = d
  <2>1. IsFiniteSet(part[x])
    BY FS_Subset
  <2>2. Number(x) # {}
    BY <2>1, FS_CardinalityType DEF ExistsBijection
  <2>3. b[x] \in Number(x)
    BY <2>2
  <2> QED  BY <2>3 DEF Bijection, Injection, IsInjective, Surjection
<1> HIDE DEF b
<1>2. \A u : u \in U <=> \E x \in S : \E i \in 1 .. f[x] : u = <<x, i>>
  OBVIOUS
<1> HIDE DEF U
<1>3. ASSUME NEW u \in U
      PROVE  /\ u[1] \in S /\ u[2] \in 1 .. f[u[1]] /\ u = <<u[1], u[2]>>
             /\ F[u] = b[u[1]][u[2]] /\ F[u] \in part[u[1]] /\ F[u] \in D
  <2>1. PICK x \in S : \E i \in 1 .. f[x] : u = <<x, i>>
    BY <1>2
  <2> PICK i \in 1 .. f[x] : u = <<x, i>>
    BY <2>1
  <2>2. F[u] = b[x][i]
    OBVIOUS
  <2>3. b[x][i] \in part[x]
    <3>1. b[x] \in [1 .. f[x] -> part[x]]
      BY <1>1
    <3> QED  BY <3>1, Zenon
  <2> QED  BY <2>2, <2>3
<1>4. F \in [U -> D]
  BY <1>3
<1>5. ASSUME NEW u \in U, NEW v \in U, F[u] = F[v] PROVE u = v
  <2>1. u[1] = v[1]
    BY <1>3, <1>5
  <2>2. u[2] = v[2]
    BY <1>1, <1>3, <1>5, <2>1
  <2> QED  BY <1>3, <2>1, <2>2
<1>6. ASSUME NEW d \in D PROVE \E u \in U : F[u] = d
  <2>1. PICK x \in S : d \in part[x]
    OBVIOUS
  <2>2. PICK i \in 1 .. f[x] : b[x][i] = d
    BY <1>1, <2>1
  <2>3. <<x, i>> \in U
    BY <1>2
  <2>4. F[<<x, i>>] = d
    BY <2>2, <2>3
  <2> QED  BY <2>3, <2>4
<1> HIDE DEF F
<1>7. F \in Bijection(U, D)
  BY <1>4, <1>5, <1>6 DEF Bijection, Injection, IsInjective, Surjection
<1>8. ExistsBijection(D, U)
  <2>1. ExistsBijection(U, D)
    BY <1>7 DEF ExistsBijection
  <2> QED  BY <2>1, Fun_ExistsBijSymmetric
<1>9. Cardinality(U) = Cardinality(D)
  BY <1>8, FS_Bijection
<1> QED  BY <1>9 DEF SumOver, U
=============================================================================
