--------------------------- MODULE FunctionProofs ---------------------------
(***************************************************************************)
(* The pure functions for every input.  The percentiles of any number of   *)
(* samples; the strings and the doubles of json.cpp, which are read back   *)
(* from what is written of them; and the texts that the two scanners of    *)
(* json.cpp take, which are exactly those of JSON.                         *)
(***************************************************************************)
EXTENDS MCPercentile, MCJsonText, SequenceFacts, FiniteSetTheorems, TLAPS

-----------------------------------------------------------------------------
(* Sorting.                                                                *)

\* How many of the positions S hold a value of T.
CountIn(S, y, T) == Cardinality({j \in S : y[j] \in T})

\* A one-to-one renaming of positions that keeps the values keeps how many of them
\* are in a set.
LEMMA SameCount ==
  ASSUME NEW S, NEW U, IsFiniteSet(S), NEW f \in Bijection(S, U), NEW x, NEW y,
         \A j \in S : y[j] = x[f[j]], NEW T
  PROVE  CountIn(S, y, T) = CountIn(U, x, T)
  <1> DEFINE A == {j \in S : y[j] \in T}
             B == {i \in U : x[i] \in T}
             g == [j \in A |-> f[j]]
  <1>1. /\ f \in [S -> U] /\ \A a, b \in S : f[a] = f[b] => a = b
        /\ \A u \in U : \E s \in S : f[s] = u
    BY DEF Bijection, Injection, Surjection, IsInjective
  <1>2. g \in Bijection(A, B)
    <2>1. g \in [A -> B]
      BY <1>1
    <2>2. g \in Injection(A, B)
      BY <1>1, <2>1 DEF Injection, IsInjective
    <2>3. g \in Surjection(A, B)
      BY <1>1, <2>1 DEF Surjection
    <2> QED
      BY <2>2, <2>3 DEF Bijection
  <1>3. IsFiniteSet(A)
    BY FS_Subset
  <1> HIDE DEF A, B, g
  <1>4. ExistsBijection(A, B)
    BY <1>2 DEF ExistsBijection
  <1> QED
    BY <1>3, <1>4, FS_Bijection DEF CountIn, A, B

Sortable(n) ==
    \A x \in [1..n -> Int] : \E p \in Bijection(1..n, 1..n) :
        \A i, j \in 1..n : i < j => x[p[i]] <= x[p[j]]

\* The step of the induction: the last sample goes before the first that is larger.
LEMMA SortableStep ==
  ASSUME NEW m \in Nat \ {0}, Sortable(m - 1)
  PROVE  Sortable(m)
  <1> SUFFICES ASSUME NEW x \in [1..m -> Int]
               PROVE  \E p \in Bijection(1..m, 1..m) :
                         \A i, j \in 1..m : i < j => x[p[i]] <= x[p[j]]
    BY DEF Sortable
  <1> DEFINE n == m - 1
             y == [i \in 1..n |-> x[i]]
  <1>1. /\ n \in Nat /\ m \in Nat /\ m = n + 1 /\ y \in [1..n -> Int]
        /\ \A i \in 1..n : i \in 1..m /\ i # m /\ i \in Nat /\ y[i] = x[i]
        /\ Sortable(n)
    OBVIOUS
  <1> HIDE DEF n, y
  <1>2. PICK p \in Bijection(1..n, 1..n) : \A i, j \in 1..n : i < j => y[p[i]] <= y[p[j]]
    BY <1>1 DEF Sortable
  <1>3. /\ p \in [1..n -> 1..n] /\ \A a, b \in 1..n : p[a] = p[b] => a = b
        /\ \A u \in 1..n : \E s \in 1..n : p[s] = u
    BY DEF Bijection, Injection, Surjection, IsInjective
  <1>4. \A i, j \in 1..n : i < j => x[p[i]] <= x[p[j]]
    <2>1. \A i \in 1..n : p[i] \in 1..n /\ y[p[i]] = x[p[i]]
      BY <1>1, <1>3
    <2>2. ASSUME NEW i \in 1..n, NEW j \in 1..n, i < j PROVE x[p[i]] <= x[p[j]]
      <3>1. y[p[i]] <= y[p[j]]
        BY <1>2, <2>2
      <3>2. y[p[i]] = x[p[i]] /\ y[p[j]] = x[p[j]]
        BY <2>1
      <3> QED
        BY <3>1, <3>2
    <2> QED
      BY <2>2
  <1>0. x[m] \in Int /\ \A i \in 1..n : p[i] \in 1..n /\ p[i] # m /\ x[p[i]] \in Int
    <2>1. m \in 1..m
      BY <1>1
    <2>2. \A i \in 1..m : x[i] \in Int
      OBVIOUS
    <2>3. \A i \in 1..n : p[i] \in 1..n
      BY <1>3
    <2> QED
      BY <1>1, <2>1, <2>2, <2>3, Zenon
  <1> DEFINE Later == {i \in 1..n : x[p[i]] > x[m]} \cup {m}
  <1>5. PICK k \in Later : \A j \in Later : k <= j
    <2>1. Later \subseteq Nat /\ Later # {}
      BY <1>1
    <2> HIDE DEF Later
    <2> QED
      BY <2>1, FirstExists
  <1>6. k \in 1..m
    BY <1>1
  <1>7. \A i \in 1..n : /\ i < k => x[p[i]] <= x[m]
                        /\ k <= i => x[m] <= x[p[i]]
    <2> SUFFICES ASSUME NEW i \in 1..n
                 PROVE  (i < k => x[p[i]] <= x[m]) /\ (k <= i => x[m] <= x[p[i]])
      OBVIOUS
    <2>0. p[i] \in 1..n /\ x[p[i]] \in Int /\ x[m] \in Int /\ i \in Int
      BY <1>0
    <2>1. ASSUME i < k PROVE x[p[i]] <= x[m]
      <3>1. i \notin Later
        BY <1>5, <1>6, <2>0, <2>1
      <3> QED
        BY <2>0, <3>1
    <2>2. ASSUME k <= i PROVE x[m] <= x[p[i]]
      <3>1. k \in 1..n /\ x[p[k]] > x[m] /\ p[k] \in 1..n
        BY <1>0, <1>1, <1>5, <2>2
      <3>2. x[p[k]] \in Int /\ x[p[k]] <= x[p[i]]
        BY <1>0, <1>4, <2>0, <2>2, <3>1
      <3> QED
        BY <2>0, <3>1, <3>2
    <2> QED
      BY <2>1, <2>2
  <1> HIDE DEF Later
  <1> DEFINE q == [i \in 1..m |-> IF i < k THEN p[i] ELSE IF i = k THEN m ELSE p[i - 1]]
  <1>13. DOMAIN q = 1..m /\ q = [i \in 1..m |-> q[i]]
    OBVIOUS
  <1>8. \A i \in 1..m : /\ i < k => i \in 1..n /\ q[i] = p[i]
                        /\ i = k => q[i] = m
                        /\ i > k => i - 1 \in 1..n /\ q[i] = p[i - 1]
    BY <1>1, <1>6
  <1> HIDE DEF q
  <1>9. q \in [1..m -> 1..m]
    <2>1. ASSUME NEW i \in 1..m PROVE q[i] \in 1..m
      <3>1. q[i] \in 1..n \/ q[i] = m
        BY <1>0, <1>6, <1>8
      <3> QED
        BY <1>1, <3>1
    <2> QED
      BY <1>13, <2>1
  <1>10. q \in Injection(1..m, 1..m)
    <2> SUFFICES ASSUME NEW a \in 1..m, NEW b \in 1..m, q[a] = q[b] PROVE a = b
      BY <1>9 DEF Injection, IsInjective
    <2>1. CASE a < k
      <3>1. a \in 1..n /\ q[a] = p[a] /\ q[a] # m
        BY <1>0, <1>8, <2>1
      <3>2. CASE b > k
        <4>1. b - 1 \in 1..n /\ q[b] = p[b - 1]
          BY <1>8, <3>2
        <4>2. a # b - 1
          BY <1>6, <2>1, <3>2
        <4> QED
          BY <1>3, <3>1, <4>1, <4>2
      <3>3. CASE b < k
        <4>1. b \in 1..n /\ q[b] = p[b]
          BY <1>8, <3>3
        <4> QED
          BY <1>3, <3>1, <4>1
      <3>4. CASE b = k
        BY <1>8, <3>1, <3>4
      <3> QED
        BY <1>6, <3>2, <3>3, <3>4
    <2>2. CASE a = k
      <3>1. q[b] = m
        BY <1>8, <2>2
      <3>2. ~(b < k) /\ ~(b > k)
        BY <1>0, <1>8, <3>1
      <3> QED
        BY <1>6, <2>2, <3>2
    <2>3. CASE a > k
      <3>1. a - 1 \in 1..n /\ q[a] = p[a - 1] /\ q[a] # m
        BY <1>0, <1>8, <2>3
      <3>2. CASE b < k
        <4>1. b \in 1..n /\ q[b] = p[b]
          BY <1>8, <3>2
        <4>2. b # a - 1
          BY <1>6, <2>3, <3>2
        <4> QED
          BY <1>3, <3>1, <4>1, <4>2
      <3>3. CASE b > k
        <4>1. b - 1 \in 1..n /\ q[b] = p[b - 1]
          BY <1>8, <3>3
        <4>2. a - 1 = b - 1
          BY <1>3, <3>1, <4>1
        <4> QED
          BY <4>2
      <3>4. CASE b = k
        BY <1>8, <3>1, <3>4
      <3> QED
        BY <1>6, <3>2, <3>3, <3>4
    <2> QED
      BY <1>6, <2>1, <2>2, <2>3
  <1>11. q \in Surjection(1..m, 1..m)
    <2> SUFFICES ASSUME NEW u \in 1..m PROVE \E s \in 1..m : q[s] = u
      BY <1>9 DEF Surjection
    <2>1. CASE u = m
      BY <1>6, <1>8, <2>1
    <2>2. CASE u # m
      <3>0. u \in 1..n
        BY <1>1, <2>2
      <3>1. PICK s \in 1..n : p[s] = u
        BY <1>3, <3>0
      <3>2. CASE s < k
        <4>1. s \in 1..m
          BY <1>1
        <4> QED
          BY <1>8, <3>1, <3>2, <4>1
      <3>3. CASE k <= s
        <4>1. s + 1 \in 1..m /\ s + 1 > k /\ (s + 1) - 1 = s
          BY <1>1, <1>6, <3>3
        <4> QED
          BY <1>8, <3>1, <4>1
      <3> QED
        BY <1>6, <3>2, <3>3
    <2> QED
      BY <2>1, <2>2
  <1>12. ASSUME NEW i \in 1..m, NEW j \in 1..m, i < j PROVE x[q[i]] <= x[q[j]]
    <2>1. CASE j < k
      BY <1>4, <1>6, <1>8, <1>12, <2>1, SMTT(30)
    <2>2. CASE j = k
      BY <1>6, <1>7, <1>8, <1>12, <2>2
    <2>3. CASE j > k /\ i < k
      <3>1. i \in 1..n /\ q[i] = p[i] /\ j - 1 \in 1..n /\ q[j] = p[j - 1]
        BY <1>8, <2>3
      <3>2. i < j - 1
        BY <1>6, <2>3
      <3> QED
        BY <1>4, <3>1, <3>2
    <2>4. CASE i = k
      <3>1. q[i] = m /\ j - 1 \in 1..n /\ q[j] = p[j - 1]
        BY <1>8, <1>12, <2>4
      <3>2. k <= j - 1
        BY <1>6, <1>12, <2>4
      <3> QED
        BY <1>7, <3>1, <3>2
    <2>5. CASE i > k
      <3>0. j > k /\ i - 1 < j - 1
        BY <1>6, <1>12, <2>5
      <3>1. i - 1 \in 1..n /\ q[i] = p[i - 1] /\ j - 1 \in 1..n /\ q[j] = p[j - 1]
        BY <1>8, <2>5, <3>0
      <3> QED
        BY <1>4, <3>0, <3>1
    <2> QED
      BY <1>6, <2>1, <2>2, <2>3, <2>4, <2>5
  <1> QED
    BY <1>10, <1>11, <1>12 DEF Bijection

\* Samples of any number can be sorted.
LEMMA SortableAll == \A n \in Nat : Sortable(n)
  <1> DEFINE Bad == {n \in Nat : ~Sortable(n)}
  <1> SUFFICES Bad = {}
    OBVIOUS
  <1> SUFFICES ASSUME Bad # {} PROVE FALSE
    OBVIOUS
  <1>1. PICK m \in Bad : \A j \in Bad : m <= j
    <2>1. Bad \subseteq Nat
      OBVIOUS
    <2> HIDE DEF Bad
    <2> QED
      BY <2>1, FirstExists
  <1>2. CASE m = 0
    <2> SUFFICES Sortable(0)
      BY <1>2
    <2> SUFFICES ASSUME NEW x \in [1..0 -> Int]
                 PROVE  \E p \in Bijection(1..0, 1..0) :
                           \A i, j \in 1..0 : i < j => x[p[i]] <= x[p[j]]
      BY DEF Sortable
    <2>1. 1..0 = {}
      OBVIOUS
    <2> DEFINE p == [i \in 1..0 |-> i]
    <2>2. p \in Bijection(1..0, 1..0)
      BY <2>1 DEF Bijection, Injection, Surjection, IsInjective
    <2> HIDE DEF p
    <2> QED
      BY <2>1, <2>2
  <1>3. CASE m # 0
    <2>1. m \in Nat \ {0} /\ m - 1 \in Nat /\ ~(m <= m - 1)
      BY <1>3
    <2>2. Sortable(m - 1)
      BY <1>1, <2>1
    <2> QED
      BY <2>1, <2>2, SortableStep
  <1> QED
    BY <1>2, <1>3

\* What std::sort leaves: the samples in order, each of them at one new position.
LEMMA OrderedSorts ==
  ASSUME NEW n \in Nat, NEW x \in [1..n -> Int]
  PROVE  /\ Ordered(x) \in [1..n -> Int]
         /\ \A i, j \in 1..n : i < j => Ordered(x)[i] <= Ordered(x)[j]
         /\ \E p \in Bijection(1..n, 1..n) : \A i \in 1..n : Ordered(x)[i] = x[p[i]]
  <1> DEFINE Sample == Range(x)
             times(s, v) == Cardinality({i \in DOMAIN s : s[i] = v})
             Good(s) == /\ \A i, j \in DOMAIN s : i < j => s[i] <= s[j]
                        /\ \A v \in Sample : times(s, v) = times(x, v)
             s == Ordered(x)
  <1>1. DOMAIN x = 1..n /\ Sample \subseteq Int /\ \A i \in 1..n : x[i] \in Sample
    BY DEF Range
  <1>2. IsFiniteSet(1..n)
    BY FS_Interval
  <1>3. \E t \in [1..n -> Sample] : Good(t)
    <2>1. PICK p \in Bijection(1..n, 1..n) : \A i, j \in 1..n : i < j => x[p[i]] <= x[p[j]]
      BY SortableAll DEF Sortable
    <2> DEFINE t == [i \in 1..n |-> x[p[i]]]
    <2>2. p \in [1..n -> 1..n]
      BY DEF Bijection, Injection
    <2>3. t \in [1..n -> Sample] /\ DOMAIN t = 1..n /\ \A i \in 1..n : t[i] = x[p[i]]
      BY <1>1, <2>2
    <2> HIDE DEF t
    <2>4. \A i, j \in DOMAIN t : i < j => t[i] <= t[j]
      BY <2>1, <2>3
    <2>5. ASSUME NEW v \in Sample PROVE times(t, v) = times(x, v)
      <3> DEFINE T == {v}
      <3>1. Cardinality({j \in 1..n : t[j] \in T}) = Cardinality({i \in 1..n : x[i] \in T})
        <4> DEFINE S == 1..n
        <4>1. IsFiniteSet(S) /\ p \in Bijection(S, S) /\ \A j \in S : t[j] = x[p[j]]
          BY <1>2, <2>3
        <4> HIDE DEF S, T
        <4>2. CountIn(S, t, T) = CountIn(S, x, T)
          BY <4>1, SameCount
        <4> QED
          BY <4>2 DEF CountIn, S
      <3>2. /\ {j \in 1..n : t[j] \in T} = {j \in DOMAIN t : t[j] = v}
            /\ {i \in 1..n : x[i] \in T} = {i \in DOMAIN x : x[i] = v}
        BY <1>1, <2>3
      <3> QED
        BY <3>1, <3>2, Zenon
    <2> QED
      BY <2>3, <2>4, <2>5
  <1>4. s \in [1..n -> Sample] /\ Good(s)
    <2>1. s = CHOOSE t \in [1..n -> Sample] : Good(t)
      BY <1>1 DEF Ordered
    <2> HIDE DEF s, Good, Sample
    <2> QED
      BY <1>3, <2>1
  <1> HIDE DEF s
  <1>5. DOMAIN s = 1..n /\ \A i \in 1..n : s[i] \in Sample
    BY <1>4
  <1> DEFINE A(v) == {i \in 1..n : s[i] = v}
             B(v) == {i \in 1..n : x[i] = v}
             b == [v \in Sample |-> CHOOSE f : f \in Bijection(A(v), B(v))]
             p == [i \in 1..n |-> b[s[i]][i]]
  <1>6. ASSUME NEW v \in Sample PROVE b[v] \in Bijection(A(v), B(v))
    <2>1. IsFiniteSet(A(v)) /\ IsFiniteSet(B(v))
      <3>1. A(v) \subseteq 1..n /\ B(v) \subseteq 1..n
        OBVIOUS
      <3> HIDE DEF A, B
      <3> QED
        BY <1>2, <3>1, FS_Subset
    <2>2. Cardinality(A(v)) = Cardinality(B(v))
      <3>1. times(s, v) = times(x, v)
        BY <1>4
      <3> QED
        BY <1>1, <1>5, <3>1
    <2> HIDE DEF A, B
    <2>3. ExistsBijection(A(v), B(v))
      BY <2>1, <2>2, FS_SameCardinalityBij
    <2>4. \E f : f \in Bijection(A(v), B(v))
      BY <2>3 DEF ExistsBijection
    <2> QED
      BY <2>4
  <1> HIDE DEF b
  <1>7. \A v \in Sample : /\ b[v] \in [A(v) -> B(v)]
                          /\ \A i, j \in A(v) : b[v][i] = b[v][j] => i = j
                          /\ \A k \in B(v) : \E i \in A(v) : b[v][i] = k
    <2> SUFFICES ASSUME NEW v \in Sample
                 PROVE  /\ b[v] \in [A(v) -> B(v)]
                        /\ \A i, j \in A(v) : b[v][i] = b[v][j] => i = j
                        /\ \A k \in B(v) : \E i \in A(v) : b[v][i] = k
      OBVIOUS
    <2> DEFINE f == b[v]
    <2>1. f \in Bijection(A(v), B(v))
      BY <1>6
    <2> HIDE DEF f, A, B
    <2>2. /\ f \in [A(v) -> B(v)] /\ \A i, j \in A(v) : f[i] = f[j] => i = j
          /\ \A k \in B(v) : \E i \in A(v) : f[i] = k
      BY <2>1 DEF Bijection, Injection, Surjection, IsInjective
    <2> QED
      BY <2>2 DEF f
  <1>8. \A i \in 1..n : p[i] = b[s[i]][i] /\ p[i] \in 1..n /\ x[p[i]] = s[i]
    <2> SUFFICES ASSUME NEW i \in 1..n PROVE b[s[i]][i] \in B(s[i])
      OBVIOUS
    <2>1. s[i] \in Sample /\ i \in A(s[i])
      BY <1>5
    <2> HIDE DEF A, B
    <2> QED
      BY <1>7, <2>1
  <1>9. p \in [1..n -> 1..n]
    BY <1>8
  <1> HIDE DEF p
  <1>10. p \in Injection(1..n, 1..n)
    <2> SUFFICES ASSUME NEW i \in 1..n, NEW j \in 1..n, p[i] = p[j] PROVE i = j
      BY <1>9 DEF Injection, IsInjective
    <2>1. s[i] = s[j] /\ s[i] \in Sample
      BY <1>5, <1>8
    <2>2. i \in A(s[i]) /\ j \in A(s[i]) /\ b[s[i]][i] = b[s[i]][j]
      BY <1>8, <2>1
    <2> HIDE DEF A, B
    <2> QED
      BY <1>7, <2>1, <2>2
  <1>11. p \in Surjection(1..n, 1..n)
    <2> SUFFICES ASSUME NEW k \in 1..n PROVE \E i \in 1..n : p[i] = k
      BY <1>9 DEF Surjection
    <2>1. x[k] \in Sample /\ k \in B(x[k])
      BY <1>1
    <2>2. PICK i \in A(x[k]) : b[x[k]][i] = k
      <3> HIDE DEF A, B
      <3> QED
        BY <1>7, <2>1
    <2>3. i \in 1..n /\ s[i] = x[k]
      OBVIOUS
    <2> QED
      BY <1>8, <2>2, <2>3
  <1>12. p \in Bijection(1..n, 1..n)
    BY <1>10, <1>11 DEF Bijection
  <1>13. s \in [1..n -> Int] /\ \A i, j \in 1..n : i < j => s[i] <= s[j]
    BY <1>1, <1>4, <1>5
  <1> QED
    BY <1>8, <1>12, <1>13 DEF s

\* The sample that k others come before in sorted order is the one behind the first
\* k of the sorted samples.
LEMMA OrderStatistic ==
  ASSUME NEW n \in Nat, NEW s \in [1..n -> Int], NEW K, NEW x, NEW q \in Bijection(1..n, K),
         \A i, j \in 1..n : i < j => s[i] <= s[j], \A j \in 1..n : s[j] = x[q[j]],
         NEW k \in 0..(n - 1)
  PROVE  IsOrder(K, x, k, s[k + 1])
  <1> DEFINE v == s[k + 1]
             S == 1..n
             Below == {u \in Int : u < v}
             AtMost == {u \in Int : u <= v}
  <1>1. IsFiniteSet(S)
    BY FS_Interval
  <1>2. k + 1 \in S /\ v \in Int /\ k \in Nat
    OBVIOUS
  <1>3. q \in [S -> K] /\ \A i \in K : \E j \in S : q[j] = i
    BY DEF Bijection, Injection, Surjection
  <1>4. \A i \in K : x[i] \in Int
    BY <1>3
  <1>5. ASSUME NEW T
        PROVE  Cardinality({j \in S : s[j] \in T}) = Cardinality({i \in K : x[i] \in T})
    <2>1. q \in Bijection(S, K) /\ \A j \in S : s[j] = x[q[j]]
      OBVIOUS
    <2> HIDE DEF S
    <2>2. CountIn(S, s, T) = CountIn(K, x, T)
      BY <1>1, <2>1, SameCount
    <2> QED
      BY <2>2 DEF CountIn
  <1>6. /\ {i \in K : x[i] < v} = {i \in K : x[i] \in Below}
        /\ {i \in K : x[i] <= v} = {i \in K : x[i] \in AtMost}
    BY <1>4
  <1>7. Cardinality({j \in S : s[j] \in Below}) <= k
    <2> DEFINE A == {j \in S : s[j] \in Below}
    <2>1. A \subseteq 1..k
      <3> SUFFICES ASSUME NEW j \in S, s[j] < v PROVE j <= k
        OBVIOUS
      <3>1. s[j] \in Int
        OBVIOUS
      <3>2. ~(k + 1 < j) /\ j # k + 1
        BY <1>2, <3>1
      <3> QED
        BY <1>2, <3>2
    <2>2. IsFiniteSet(1..k) /\ Cardinality(1..k) = k
      BY <1>2, FS_Interval
    <2> HIDE DEF A
    <2>3. Cardinality(A) <= Cardinality(1..k)
      BY <2>1, <2>2, FS_Subset
    <2> QED
      BY <2>2, <2>3 DEF A
  <1>8. k < Cardinality({j \in S : s[j] \in AtMost})
    <2> DEFINE A == {j \in S : s[j] \in AtMost}
    <2>1. 1..(k + 1) \subseteq A
      <3> SUFFICES ASSUME NEW j \in 1..(k + 1) PROVE j \in S /\ s[j] <= v
        OBVIOUS
      <3>1. j \in S /\ s[j] \in Int
        OBVIOUS
      <3>2. j < k + 1 \/ j = k + 1
        OBVIOUS
      <3> QED
        BY <1>2, <3>1, <3>2
    <2>2. Cardinality(1..(k + 1)) = k + 1
      BY <1>2, FS_Interval
    <2>3. A \subseteq S
      OBVIOUS
    <2> HIDE DEF A, S
    <2>4. IsFiniteSet(A) /\ Cardinality(A) \in Nat
      BY <1>1, <2>3, FS_Subset, FS_CardinalityType
    <2>5. Cardinality(1..(k + 1)) <= Cardinality(A)
      BY <2>1, <2>4, FS_Subset
    <2> QED
      BY <1>2, <2>2, <2>4, <2>5 DEF A
  <1> HIDE DEF S, Below, AtMost
  <1>9. /\ Cardinality({i \in K : x[i] < v}) = Cardinality({j \in S : s[j] \in Below})
        /\ Cardinality({i \in K : x[i] <= v}) = Cardinality({j \in S : s[j] \in AtMost})
    BY <1>5, <1>6, Zenon
  <1> QED
    BY <1>7, <1>8, <1>9 DEF IsOrder

-----------------------------------------------------------------------------
(* Percentiles.                                                            *)

\* The two positions percentile() reads are inside the sorted samples, and next to
\* each other unless they are one.
LEMMA RankInside ==
  ASSUME NEW n \in Nat \ {0}, NEW p \in 0..99
  PROVE  LET rank == (n - 1) * p
             lo == rank \div 100
             hi == (rank + 99) \div 100
         IN  /\ rank \in Nat /\ lo \in 0..(n - 1) /\ hi \in 0..(n - 1)
             /\ rank % 100 = rank - 100 * lo /\ rank % 100 \in 0..99
             /\ IF rank % 100 = 0 THEN hi = lo ELSE hi = lo + 1
  <1> DEFINE rank == (n - 1) * p
  <1>1. rank \in Nat /\ rank <= 99 * (n - 1)
    <2>1. n - 1 \in Nat /\ p \in Nat /\ p <= 99
      OBVIOUS
    <2>2. \A a, b \in Nat : b <= 99 => a * b \in Nat /\ a * b <= 99 * a
      OBVIOUS
    <2> QED
      BY <2>1, <2>2
  <1> HIDE DEF rank
  <1> QED
    BY <1>1 DEF rank

\* percentile() of sorted samples.
LEMMA InterpolateIsPercentile ==
  ASSUME NEW n \in Nat \ {0}, NEW s \in Seq(Int), Len(s) = n, NEW K, NEW x,
         NEW q \in Bijection(1..n, K), Cardinality(K) = n,
         \A i, j \in 1..n : i < j => s[i] <= s[j], \A j \in 1..n : s[j] = x[q[j]],
         NEW p \in 0..99
  PROVE  IsPercentile(K, x, p, Interpolate(s, p))
  <1> DEFINE rank == (n - 1) * p
             lo == rank \div 100
             hi == (rank + 99) \div 100
             part == rank % 100
  <1>1. /\ rank \in Nat /\ lo \in 0..(n - 1) /\ hi \in 0..(n - 1)
        /\ part = rank - 100 * lo /\ part \in 0..99
        /\ IF part = 0 THEN hi = lo ELSE hi = lo + 1
    BY RankInside, ZenonT(30)
  <1>2. Interpolate(s, p) = IF lo = hi THEN 100 * s[lo + 1]
                            ELSE 100 * s[lo + 1] + (s[hi + 1] - s[lo + 1]) * (rank - 100 * lo)
    BY DEF Interpolate
  <1> HIDE DEF rank, lo, hi, part
  <1>3. lo + 1 \in 1..n /\ hi + 1 \in 1..n
    BY <1>1
  <1>4. /\ q[lo + 1] \in K /\ q[hi + 1] \in K
        /\ x[q[lo + 1]] = s[lo + 1] /\ x[q[hi + 1]] = s[hi + 1]
    BY <1>3 DEF Bijection, Injection
  <1>5. s \in [1..n -> Int] /\ s[lo + 1] \in Int /\ s[hi + 1] \in Int
    BY <1>3
  <1>6. IsOrder(K, x, lo, s[lo + 1]) /\ IsOrder(K, x, hi, s[hi + 1])
    BY <1>1, <1>5, OrderStatistic
  <1>7. Interpolate(s, p) = s[lo + 1] * (100 - part) + s[hi + 1] * part
    <2>1. CASE part = 0
      <3>1. Interpolate(s, p) = 100 * s[lo + 1]
        BY <1>1, <1>2, <2>1
      <3>2. \A a, b \in Int : a * (100 - 0) + b * 0 = 100 * a
        OBVIOUS
      <3> QED
        BY <1>5, <2>1, <3>1, <3>2
    <2>2. CASE part # 0
      <3>1. Interpolate(s, p) = 100 * s[lo + 1] + (s[hi + 1] - s[lo + 1]) * part
        BY <1>1, <1>2, <2>2
      <3>2. \A a, b, c \in Int : 100 * a + (b - a) * c = a * (100 - c) + b * c
        OBVIOUS
      <3> QED
        BY <1>1, <1>5, <3>1, <3>2
    <2> QED
      BY <2>1, <2>2
  <1>8. part # 0 => IsOrder(K, x, lo + 1, s[hi + 1])
    BY <1>1, <1>6
  <1>9. \E i, j \in K :
          /\ IsOrder(K, x, lo, x[i])
          /\ part # 0 => IsOrder(K, x, lo + 1, x[j])
          /\ Interpolate(s, p) = x[i] * (100 - part) + x[j] * part
    BY <1>4, <1>6, <1>7, <1>8, ZenonT(30)
  <1> QED
    BY <1>9 DEF IsPercentile, lo, part, rank

\* from_samples: the samples behind the warm-up, counted and summed up.
LEMMA FromSamplesCorrect ==
  ASSUME NEW l \in Nat, NEW samples \in [1..l -> Int], NEW warmup \in Nat
  PROVE  LET kept == {i \in DOMAIN samples : i > warmup}
             stats == FromSamples(samples, warmup)
         IN  IF kept = {} THEN stats.err = "invalid_argument"
             ELSE /\ stats.err = "none" /\ stats.n = Cardinality(kept)
                  /\ IsPercentile(kept, samples, 50, stats.p50)
                  /\ IsPercentile(kept, samples, 90, stats.p90)
                  /\ IsPercentile(kept, samples, 99, stats.p99)
  <1> DEFINE K == {i \in DOMAIN samples : i > warmup}
             d == IF warmup < Len(samples) THEN warmup ELSE Len(samples)
             kept == SubSeq(samples, d + 1, Len(samples))
             n == l - d
             P(p) == Interpolate(Ordered(kept), p)
  <1>1. samples \in Seq(Int) /\ Len(samples) = l /\ DOMAIN samples = 1..l
    OBVIOUS
  <1>2. d \in 0..l /\ n \in Nat /\ K = (d + 1)..l
    BY <1>1
  <1>3. /\ kept \in Seq(Int) /\ Len(kept) = n /\ kept \in [1..n -> Int]
        /\ \A i \in 1..n : kept[i] = samples[d + i]
    <2>1. \A i \in (d + 1)..Len(samples) : samples[i] \in Int
      BY <1>1, <1>2
    <2>2. d + 1 \in Int /\ Len(samples) \in Int
      BY <1>1, <1>2
    <2> HIDE DEF d
    <2>3. /\ kept \in Seq(Int)
          /\ Len(kept) = IF d + 1 <= Len(samples) THEN Len(samples) - (d + 1) + 1 ELSE 0
          /\ \A i \in 1..(Len(samples) - (d + 1) + 1) : kept[i] = samples[(d + 1) + i - 1]
      BY <2>1, <2>2, SubSeqProperties
    <2> HIDE DEF kept
    <2>4. Len(kept) = n /\ Len(samples) - (d + 1) + 1 = n
      BY <1>1, <1>2, <2>3
    <2>5. \A i \in 1..n : (d + 1) + i - 1 = d + i
      BY <1>2
    <2> QED
      BY <2>3, <2>4, <2>5
  <1>4. FromSamples(samples, warmup) =
          IF kept = << >> THEN [err |-> "invalid_argument"]
          ELSE [err |-> "none", p50 |-> P(50), p90 |-> P(90), p99 |-> P(99),
                n |-> Len(kept), warmup |-> d]
    BY DEF FromSamples
  <1> HIDE DEF d, kept, K
  <1>5. CASE n = 0
    <2>1. K = {} /\ kept = << >>
      BY <1>2, <1>3, <1>5
    <2> QED
      BY <1>4, <2>1 DEF K
  <1>6. CASE n # 0
    <2> DEFINE s == Ordered(kept)
    <2>1. K # {} /\ kept # << >> /\ n \in Nat \ {0}
      <3>1. d + 1 \in K /\ n \in Nat \ {0}
        BY <1>2, <1>6
      <3> QED
        BY <1>3, <3>1
    <2>2. /\ s \in [1..n -> Int] /\ \A i, j \in 1..n : i < j => s[i] <= s[j]
          /\ \E p \in Bijection(1..n, 1..n) : \A i \in 1..n : s[i] = kept[p[i]]
      BY <1>2, <1>3, OrderedSorts
    <2> HIDE DEF s
    <2>3. s \in Seq(Int) /\ Len(s) = n
      BY <1>2, <2>2
    <2>4. PICK p \in Bijection(1..n, 1..n) : \A i \in 1..n : s[i] = kept[p[i]]
      BY <2>2
    <2>5. /\ p \in [1..n -> 1..n] /\ \A i, j \in 1..n : p[i] = p[j] => i = j
          /\ \A k \in 1..n : \E i \in 1..n : p[i] = k
      BY DEF Bijection, Injection, Surjection, IsInjective
    <2> DEFINE q == [i \in 1..n |-> d + p[i]]
    <2>6. \A i \in 1..n : p[i] \in 1..n /\ q[i] = d + p[i] /\ q[i] \in K
      <3>1. \A k \in 1..n : d + k \in K
        BY <1>2
      <3>2. \A i \in 1..n : p[i] \in 1..n
        BY <2>5
      <3> QED
        BY <3>1, <3>2
    <2>7. q \in [1..n -> K]
      BY <2>6
    <2> HIDE DEF q
    <2>8. q \in Injection(1..n, K)
      <3> SUFFICES ASSUME NEW i \in 1..n, NEW j \in 1..n, q[i] = q[j] PROVE i = j
        BY <2>7 DEF Injection, IsInjective
      <3>1. p[i] = p[j]
        BY <1>2, <2>6
      <3> QED
        BY <2>5, <3>1
    <2>9. q \in Surjection(1..n, K)
      <3> SUFFICES ASSUME NEW k \in K PROVE \E i \in 1..n : q[i] = k
        BY <2>7 DEF Surjection
      <3>1. k - d \in 1..n /\ d + (k - d) = k
        BY <1>2
      <3>2. PICK i \in 1..n : p[i] = k - d
        BY <2>5, <3>1
      <3> QED
        BY <2>6, <3>1, <3>2
    <2>10. q \in Bijection(1..n, K)
      BY <2>8, <2>9 DEF Bijection
    <2>11. \A j \in 1..n : s[j] = samples[q[j]]
      BY <1>3, <2>4, <2>6
    <2>12. Cardinality(K) = n
      <3>1. Cardinality((d + 1)..l) = IF d + 1 > l THEN 0 ELSE l - (d + 1) + 1
        BY <1>2, FS_Interval
      <3> QED
        BY <1>2, <1>6, <3>1
    <2>13. ASSUME NEW p100 \in 0..99
           PROVE  IsPercentile(K, samples, p100, Interpolate(s, p100))
      BY <2>1, <2>2, <2>3, <2>10, <2>11, <2>12, InterpolateIsPercentile
    <2>14. /\ IsPercentile(K, samples, 50, P(50)) /\ IsPercentile(K, samples, 90, P(90))
           /\ IsPercentile(K, samples, 99, P(99))
      BY <2>13 DEF s
    <2> HIDE DEF P
    <2>15. FromSamples(samples, warmup) =
             [err |-> "none", p50 |-> P(50), p90 |-> P(90), p99 |-> P(99),
              n |-> n, warmup |-> d]
      BY <1>3, <1>4, <2>1
    <2> QED
      BY <2>1, <2>12, <2>14, <2>15 DEF K
  <1> QED
    BY <1>5, <1>6

\* The inductive invariant: what was returned is the result of the call.
PercentileInv ==
    /\ subject = "from_samples"
    /\ input \in [samples : UNION {[1..n -> Durations] : n \in 0..MaxSamples},
                  warmup : 0..(MaxSamples + 1)]
    /\ output \in {<< >>, <<FromSamples(input.samples, input.warmup)>>}

\* For any number of samples of any size: every percentile that from_samples returns
\* is the interpolation between the two order statistics around its rank, of the
\* samples behind the warm-up and of no others.
THEOREM PercentilesInterpolate == PercentileSpec => []PercentilesAreType7
  <1>1. PercentileInit => PercentileInv
    BY DEF PercentileInit, PercentileInv, Given
  <1>2. PercentileInv /\ [PercentileNext]_callVars => PercentileInv'
    BY DEF PercentileInv, PercentileNext, Call, callVars
  <1>3. PercentileInv => PercentilesAreType7
    <2> SUFFICES ASSUME PercentileInv, NEW stats \in Returned("from_samples")
                 PROVE  LET kept == {i \in DOMAIN input.samples : i > input.warmup}
                        IN  IF kept = {} THEN stats.err = "invalid_argument"
                            ELSE /\ stats.err = "none" /\ stats.n = Cardinality(kept)
                                 /\ IsPercentile(kept, input.samples, 50, stats.p50)
                                 /\ IsPercentile(kept, input.samples, 90, stats.p90)
                                 /\ IsPercentile(kept, input.samples, 99, stats.p99)
      BY DEF PercentilesAreType7
    <2>1. stats = FromSamples(input.samples, input.warmup)
      BY DEF PercentileInv, Returned
    <2>2. PICK l \in 0..MaxSamples : input.samples \in [1..l -> Durations]
      BY DEF PercentileInv
    <2>3. l \in Nat /\ input.warmup \in Nat /\ input.samples \in [1..l -> Int]
      <3>1. \A i \in 1..l : input.samples[i] \in Durations
        BY <2>2
      <3>2. MaxSamples \in Nat /\ \A x \in Durations : x \in Int
        BY SamplesAssumption
      <3>3. input.warmup \in 0..(MaxSamples + 1)
        BY DEF PercentileInv
      <3>4. l \in Nat /\ input.warmup \in Nat
        BY <3>2, <3>3
      <3> QED
        BY <2>2, <3>1, <3>2, <3>4
    <2> QED
      BY <2>1, <2>3, FromSamplesCorrect, ZenonT(30)
  <1> QED
    BY <1>1, <1>2, <1>3, PTL DEF PercentileSpec

-----------------------------------------------------------------------------
(* UTF-8.                                                                  *)

Byte == {b \in Nat : b < 256}
Bytes == Seq(Byte)

\* What the first byte of a sequence says.
LEMMA Leads2 ==
  ASSUME NEW b \in Byte
  PROVE  /\ SequenceLength(b) \in {0, 2, 3, 4}
         /\ SequenceLength(b) # 0 => b \in 194..244
         /\ \A x : x \in SecondBytes(b) => x \in 128..191
  <1>1. SequenceLength(b) \in {0, 2, 3, 4} /\ (SequenceLength(b) # 0 => b \in 194..244)
    BY SMT DEF SequenceLength, Byte
  <1>2. ASSUME NEW x, x \in SecondBytes(b) PROVE x \in 128..191
    BY <1>2, SMT DEF SecondBytes, Byte
  <1> QED
    BY <1>1, <1>2

\* A sequence that validate_utf8_run accepts has two to four bytes, none of them ASCII.
LEMMA Utf8LengthTypes ==
  ASSUME NEW text \in Bytes, NEW i \in 1..Len(text)
  PROVE  /\ Utf8Length(text, i) \in {0, 2, 3, 4}
         /\ Utf8Length(text, i) # 0 =>
               /\ (i + Utf8Length(text, i)) - 1 <= Len(text)
               /\ \A k \in 0..(Utf8Length(text, i) - 1) : text[i + k] \in 128..255
  <1> DEFINE b == text[i]
             n == Utf8Length(text, i)
  <1>1. Len(text) \in Nat /\ b \in Byte
    BY DEF Bytes
  <1>2. n \in {0, 2, 3, 4}
    BY <1>1, Leads2 DEF Utf8Length
  <1>3. ASSUME n # 0
        PROVE  /\ (i + n) - 1 <= Len(text) /\ b \in 194..244
               /\ text[i + 1] \in 128..191
               /\ \A k \in 2..(n - 1) : text[i + k] \in 128..191
    <2>1. /\ n = SequenceLength(b) /\ SequenceLength(b) # 0 /\ Has(text, i, n)
          /\ text[i + 1] \in SecondBytes(b)
          /\ \A k \in 2..(n - 1) : text[i + k] \in 128..191
      BY <1>3 DEF Utf8Length
    <2>2. b \in 194..244 /\ text[i + 1] \in 128..191
      BY <1>1, <2>1, Leads2
    <2>3. (i + n) - 1 <= Len(text)
      BY <1>1, <1>2, <2>1 DEF Has
    <2> QED
      BY <2>1, <2>2, <2>3
  <1> HIDE DEF n
  <1>4. ASSUME n # 0, NEW k \in 0..(n - 1) PROVE text[i + k] \in 128..255
    <2>1. k = 0 \/ k = 1 \/ k \in 2..(n - 1)
      BY <1>2
    <2>2. CASE k = 0
      <3>1. i + k = i
        BY <2>2
      <3> QED
        BY <1>1, <1>3, <1>4, <3>1
    <2>3. CASE k = 1
      BY <1>3, <1>4, <2>3
    <2>4. CASE k \in 2..(n - 1)
      BY <1>3, <1>4, <2>4
    <2> QED
      BY <2>1, <2>2, <2>3, <2>4
  <1> QED
    BY <1>2, <1>3, <1>4 DEF n

\* Whether a sequence is accepted depends on its own bytes only.
LEMMA Utf8LengthLocal ==
  ASSUME NEW text \in Bytes, NEW i \in 1..Len(text), NEW o \in Bytes, NEW j \in 1..Len(o),
         Utf8Length(text, i) # 0, (j + Utf8Length(text, i)) - 1 <= Len(o),
         \A k \in 0..(Utf8Length(text, i) - 1) : o[j + k] = text[i + k]
  PROVE  Utf8Length(o, j) = Utf8Length(text, i)
  <1> DEFINE n == Utf8Length(text, i)
  <1>1. /\ n \in {2, 3, 4} /\ Len(text) \in Nat /\ Len(o) \in Nat
        /\ text[i] \in Byte /\ o[j] \in Byte
    BY Utf8LengthTypes DEF Bytes
  <1>2. 0 \in 0..(n - 1) /\ 1 \in 0..(n - 1) /\ i + 0 = i /\ j + 0 = j
    BY <1>1
  <1>3. o[j] = text[i] /\ o[j + 1] = text[i + 1]
    BY <1>2
  <1>4. ASSUME NEW k \in 2..(n - 1) PROVE o[j + k] = text[i + k]
    <2>1. k \in 0..(n - 1)
      BY <1>1
    <2> QED
      BY <2>1
  <1> HIDE DEF n
  <1>5. n = SequenceLength(text[i]) /\ n # 0 /\ (j + n) - 1 <= Len(o)
        /\ text[i + 1] \in SecondBytes(text[i])
        /\ \A k \in 2..(n - 1) : text[i + k] \in 128..191
    BY <1>1 DEF n, Utf8Length
  <1>6. n = SequenceLength(o[j]) /\ o[j + 1] \in SecondBytes(o[j])
        /\ \A k \in 2..(n - 1) : o[j + k] \in 128..191
    BY <1>3, <1>4, <1>5
  <1>7. Utf8Length(o, j) = n
    BY <1>1, <1>5, <1>6 DEF Utf8Length, Has
  <1> QED
    BY <1>7 DEF n

\* append_utf8 writes one ASCII byte, or a sequence that validate_utf8_run accepts.
LEMMA Utf8Encodes ==
  ASSUME NEW c \in Int, IsScalar(c)
  PROVE  /\ Utf8(c) \in Bytes
         /\ c < 128 => Utf8(c) = <<c>> /\ c \in 0..127
         /\ ~(c < 128) => Len(Utf8(c)) \in 2..4 /\ Utf8Length(Utf8(c), 1) = Len(Utf8(c))
         /\ c < 65536 => Len(Utf8(c)) <= 3
  <1> DEFINE u == Utf8(c)
  <1>1. c \in Nat /\ c <= 1114111 /\ ~(55296 <= c /\ c <= 57343)
    BY SMT DEF IsScalar, IsHigh, IsLow
  <1>2. CASE c < 128
    <2>1. u = <<c>>
      BY <1>1, <1>2, SMT DEF Utf8
    <2>2. c \in Byte
      BY <1>1, <1>2, SMT DEF Byte
    <2> QED
      BY <1>1, <1>2, <2>1, <2>2, SMT DEF Bytes
  <1>3. CASE ~(c < 128) /\ c < 2048
    <2> DEFINE a == 192 + c \div 64
               b == 128 + (c % 64)
    <2>1. u = <<a, b>>
      BY <1>1, <1>3, SMT DEF Utf8
    <2>2. a \in Int /\ 194 <= a /\ a <= 223 /\ b \in Int /\ 128 <= b /\ b <= 191
      BY <1>1, <1>3, SMT
    <2> HIDE DEF a, b, u
    <2>3. a \in Byte /\ b \in Byte
      BY <2>2, SMT DEF Byte
    <2>4. u \in Bytes /\ Len(u) = 2 /\ u[1] = a /\ u[2] = b
      BY <2>1, <2>3, SMT DEF Bytes
    <2>5. SequenceLength(u[1]) = 2 /\ u[2] \in SecondBytes(u[1])
      BY <2>2, <2>4, SMT DEF SequenceLength, SecondBytes
    <2>6. Utf8Length(u, 1) = 2
      BY <2>4, <2>5 DEF Utf8Length, Has
    <2> QED
      BY <1>3, <2>4, <2>6 DEF u
  <1>4. CASE ~(c < 2048) /\ c < 65536
    <2> DEFINE a == 224 + c \div 4096
               b == 128 + ((c \div 64) % 64)
               d == 128 + (c % 64)
    <2>1. u = <<a, b, d>>
      BY <1>1, <1>4, SMT DEF Utf8
    <2>2. /\ a \in Int /\ 224 <= a /\ a <= 239 /\ b \in Int /\ 128 <= b /\ b <= 191
          /\ d \in Int /\ 128 <= d /\ d <= 191
          /\ (a = 224 => 160 <= b) /\ (a = 237 => b <= 159)
      BY <1>1, <1>4, SMT
    <2> HIDE DEF a, b, d, u
    <2>3. a \in Byte /\ b \in Byte /\ d \in Byte /\ d \in 128..191
      BY <2>2, SMT DEF Byte
    <2>4. u \in Bytes /\ Len(u) = 3 /\ u[1] = a /\ u[2] = b /\ u[3] = d
      BY <2>1, <2>3, SMT DEF Bytes
    <2>5. SequenceLength(a) = 3 /\ b \in SecondBytes(a)
      BY <2>2, SMT DEF SequenceLength, SecondBytes
    <2>6. Utf8Length(u, 1) = 3
      <3>1. \A k \in 2..(3 - 1) : u[1 + k] \in 128..191
        BY <2>3, <2>4
      <3> QED
        BY <2>4, <2>5, <3>1 DEF Utf8Length, Has
    <2> QED
      BY <1>4, <2>4, <2>6 DEF u
  <1>5. CASE ~(c < 65536)
    <2> DEFINE a == 240 + c \div 262144
               b == 128 + ((c \div 4096) % 64)
               d == 128 + ((c \div 64) % 64)
               e == 128 + (c % 64)
    <2>1. u = <<a, b, d, e>>
      BY <1>1, <1>5, SMT DEF Utf8
    <2>2. /\ a \in Int /\ 240 <= a /\ a <= 244 /\ b \in Int /\ 128 <= b /\ b <= 191
          /\ d \in Int /\ 128 <= d /\ d <= 191 /\ e \in Int /\ 128 <= e /\ e <= 191
          /\ (a = 240 => 144 <= b) /\ (a = 244 => b <= 143)
      BY <1>1, <1>5, SMT
    <2> HIDE DEF a, b, d, e, u
    <2>3. /\ a \in Byte /\ b \in Byte /\ d \in Byte /\ e \in Byte
          /\ d \in 128..191 /\ e \in 128..191
      BY <2>2, SMT DEF Byte
    <2>4. u \in Bytes /\ Len(u) = 4 /\ u[1] = a /\ u[2] = b /\ u[3] = d /\ u[4] = e
      BY <2>1, <2>3, SMT DEF Bytes
    <2>5. SequenceLength(a) = 4 /\ b \in SecondBytes(a)
      BY <2>2, SMT DEF SequenceLength, SecondBytes
    <2>6. Utf8Length(u, 1) = 4
      <3>1. \A k \in 2..(4 - 1) : u[1 + k] \in 128..191
        BY <2>3, <2>4
      <3> QED
        BY <2>4, <2>5, <3>1 DEF Utf8Length, Has
    <2>7. ~(c < 128)
      BY <1>1, <1>5, SMT
    <2> QED
      BY <1>5, <2>4, <2>6, <2>7 DEF u
  <1> QED
    BY <1>1, <1>2, <1>3, <1>4, <1>5, SMT
-----------------------------------------------------------------------------
(* Sequences of bytes.                                                     *)

\* Two sequences joined, byte by byte.
LEMMA BytesJoined ==
  ASSUME NEW a \in Bytes, NEW b \in Bytes
  PROVE  /\ a \o b \in Bytes /\ Len(a) \in Nat /\ Len(b) \in Nat
         /\ Len(a \o b) = Len(a) + Len(b)
         /\ \A i \in 1..Len(a) : (a \o b)[i] = a[i]
         /\ \A i \in 1..Len(b) : (a \o b)[Len(a) + i] = b[i]
  <1>1. /\ a \o b \in Bytes /\ Len(a \o b) = Len(a) + Len(b)
        /\ \A i \in 1..(Len(a) + Len(b)) :
              (a \o b)[i] = IF i <= Len(a) THEN a[i] ELSE b[i - Len(a)]
    BY ConcatProperties, Zenon DEF Bytes
  <1>2. Len(a) \in Nat /\ Len(b) \in Nat
    BY DEF Bytes
  <1> DEFINE c == a \o b
  <1> HIDE DEF c
  <1>3. /\ Len(c) = Len(a) + Len(b)
        /\ \A i \in 1..(Len(a) + Len(b)) : c[i] = IF i <= Len(a) THEN a[i] ELSE b[i - Len(a)]
    BY <1>1 DEF c
  <1>4. \A i \in 1..Len(a) : c[i] = a[i]
    BY <1>2, <1>3
  <1>5. ASSUME NEW i \in 1..Len(b) PROVE c[Len(a) + i] = b[i]
    <2>1. /\ Len(a) + i \in 1..(Len(a) + Len(b)) /\ ~(Len(a) + i <= Len(a))
          /\ (Len(a) + i) - Len(a) = i
      BY <1>2
    <2> QED
      BY <1>3, <2>1
  <1> QED
    BY <1>1, <1>2, <1>4, <1>5 DEF c

\* The bytes of a sequence are bytes, and the part from m to n.
LEMMA BytesOf ==
  ASSUME NEW s \in Bytes
  PROVE  Len(s) \in Nat /\ \A i \in 1..Len(s) : s[i] \in Byte /\ s[i] \in Nat /\ s[i] < 256
  <1>1. Len(s) \in Nat /\ \A i \in 1..Len(s) : s[i] \in Byte
    BY DEF Bytes
  <1> QED
    BY <1>1 DEF Byte

LEMMA BytesPart ==
  ASSUME NEW s \in Bytes, NEW m \in 1..(Len(s) + 1), NEW n \in (m - 1)..Len(s)
  PROVE  /\ SubSeq(s, m, n) \in Bytes /\ Len(SubSeq(s, m, n)) = (n - m) + 1
         /\ \A i \in 1..((n - m) + 1) : SubSeq(s, m, n)[i] = s[(m + i) - 1]
  <1>1. m \in Int /\ n \in Int /\ Len(s) \in Nat /\ (\A i \in m..n : s[i] \in Byte) /\ s \in Seq(Byte)
    BY DEF Bytes
  <1>2. /\ SubSeq(s, m, n) \in Seq(Byte)
        /\ Len(SubSeq(s, m, n)) = IF m <= n THEN n - m + 1 ELSE 0
        /\ \A i \in 1..(n - m + 1) : SubSeq(s, m, n)[i] = s[m + i - 1]
    BY <1>1, SubSeqProperties
  <1>3. (IF m <= n THEN n - m + 1 ELSE 0) = (n - m) + 1
    BY <1>1
  <1> QED
    BY <1>2, <1>3 DEF Bytes

LEMMA BytesAppended ==
  ASSUME NEW s \in Bytes, NEW b \in Byte
  PROVE  Append(s, b) = s \o <<b>> /\ <<b>> \in Bytes /\ Len(<<b>>) = 1 /\ <<b>>[1] = b
  <1> DEFINE o == <<b>>
             a == Append(s, b)
             c == s \o o
  <1>1. o \in Bytes /\ Len(o) = 1 /\ o[1] = b
    BY DEF Bytes
  <1>2. a \in Bytes /\ Len(a) = Len(s) + 1 /\ a[Len(s) + 1] = b /\ \A i \in 1..Len(s) : a[i] = s[i]
    BY AppendProperties DEF Bytes
  <1> HIDE DEF o, a
  <1>3. /\ c \in Bytes /\ Len(s) \in Nat /\ Len(c) = Len(s) + Len(o)
        /\ \A i \in 1..Len(s) : c[i] = s[i]
        /\ \A i \in 1..Len(o) : c[Len(s) + i] = o[i]
    BY <1>1, BytesJoined, Zenon
  <1> HIDE DEF c
  <1>4. ASSUME NEW i \in 1..Len(a) PROVE a[i] = c[i]
    <2>1. CASE i \in 1..Len(s)
      BY <1>2, <1>3, <2>1
    <2>2. CASE i = Len(s) + 1
      BY <1>1, <1>2, <1>3, <2>2
    <2> QED
      BY <1>2, <1>3, <2>1, <2>2
  <1>5. a = c
    BY <1>1, <1>2, <1>3, <1>4, SeqEqual DEF Bytes
  <1> QED
    BY <1>1, <1>5 DEF a, c, o

-----------------------------------------------------------------------------
(* Escapes.                                                                *)

LEMMA HexValues ==
  ASSUME NEW b \in Byte
  PROVE  HexValue(b) \in -1..15
  BY SMT DEF HexValue, IsDigit, Byte

LEMMA HexRead ==
  ASSUME NEW text \in Bytes, NEW i \in Nat \ {0}
  PROVE  /\ ReadHex4(text, i) \in Int /\ -1 <= ReadHex4(text, i) /\ ReadHex4(text, i) < 65536
         /\ ReadHex4(text, i) # -1 => i + 3 <= Len(text)
  <1>1. CASE Has(text, i, 4)
    <2>1. i + 3 <= Len(text) /\ \A k \in 0..3 : text[i + k] \in Byte
      <3>1. i + 3 <= Len(text) /\ \A k \in 0..3 : i + k \in 1..Len(text)
        BY <1>1, BytesOf DEF Has
      <3> QED
        BY <3>1, BytesOf
    <2>2. \A k \in 0..3 : HexValue(text[i + k]) \in -1..15
      BY <2>1, HexValues
    <2>3. HexValue(text[i + 0]) \in -1..15 /\ HexValue(text[i + 1]) \in -1..15
          /\ HexValue(text[i + 2]) \in -1..15 /\ HexValue(text[i + 3]) \in -1..15
      BY <2>2
    <2>4. CASE \A k \in 0..3 : HexValue(text[i + k]) # -1
      <3>1. HexValue(text[i + 0]) # -1 /\ HexValue(text[i + 1]) # -1
            /\ HexValue(text[i + 2]) # -1 /\ HexValue(text[i + 3]) # -1
        BY <2>4
      <3>2. ReadHex4(text, i) = 4096 * HexValue(text[i + 0]) + 256 * HexValue(text[i + 1])
                                  + 16 * HexValue(text[i + 2]) + HexValue(text[i + 3])
        BY <1>1, <2>4 DEF ReadHex4
      <3> DEFINE p == HexValue(text[i + 0])
                 q == HexValue(text[i + 1])
                 r == HexValue(text[i + 2])
                 s == HexValue(text[i + 3])
      <3> HIDE DEF p, q, r, s
      <3>3. p \in 0..15 /\ q \in 0..15 /\ r \in 0..15 /\ s \in 0..15
        BY <2>3, <3>1 DEF p, q, r, s
      <3>4. ReadHex4(text, i) = 4096 * p + 256 * q + 16 * r + s
        BY <3>2 DEF p, q, r, s
      <3> QED
        BY <2>1, <3>3, <3>4, SMT
    <2>5. CASE ~(\A k \in 0..3 : HexValue(text[i + k]) # -1)
      <3>1. ReadHex4(text, i) = -1
        BY <2>5 DEF ReadHex4
      <3> QED
        BY <3>1, SMT
    <2> QED
      BY <2>4, <2>5
  <1>2. CASE ~Has(text, i, 4)
    <2>1. ReadHex4(text, i) = -1
      BY <1>2 DEF ReadHex4
    <2> QED
      BY <2>1, SMT
  <1> QED
    BY <1>1, <1>2

\* What append_escape reads after a backslash is a byte; what append_string writes for a
\* byte that has a short escape is read back by it.
LEMMA Escapes ==
  ASSUME NEW b \in Byte
  PROVE  /\ EscapeOf(b) # -1 => /\ EscapeOf(b) \in Byte /\ EscapeOf(b) <= 127
                                /\ Len(AppendByte(EscapeOf(b))) <= 2
         /\ ShortEscape(b) # 0 => /\ EscapeOf(ShortEscape(b)) = b /\ ShortEscape(b) # 117
                                  /\ ShortEscape(b) \in Byte /\ b < 128
  <1>1. EscapeOf(b) # -1 => EscapeOf(b) \in {8, 9, 10, 12, 13, 34, 47, 92}
    BY SMT DEF EscapeOf, Quote, Backslash
  <1>2. \A e \in {8, 9, 10, 12, 13, 34, 92} : ShortEscape(e) # 0
    BY SMT DEF ShortEscape, Quote, Backslash
  <1>3. ShortEscape(47) = 0
    BY SMT DEF ShortEscape, Quote, Backslash
  <1>4. \A e \in {8, 9, 10, 12, 13, 34, 47, 92} : Len(AppendByte(e)) <= 2
    BY <1>2, <1>3 DEF AppendByte
  <1>5. ShortEscape(b) # 0 => b \in {8, 9, 10, 12, 13, 34, 92}
    BY SMT DEF ShortEscape, Quote, Backslash
  <1>6. /\ ShortEscape(8) = 98 /\ ShortEscape(9) = 116 /\ ShortEscape(10) = 110
        /\ ShortEscape(12) = 102 /\ ShortEscape(13) = 114 /\ ShortEscape(34) = 34
        /\ ShortEscape(92) = 92
    BY SMT DEF ShortEscape, Quote, Backslash
  <1>7. /\ EscapeOf(98) = 8 /\ EscapeOf(116) = 9 /\ EscapeOf(110) = 10 /\ EscapeOf(102) = 12
        /\ EscapeOf(114) = 13 /\ EscapeOf(34) = 34 /\ EscapeOf(92) = 92
    BY SMT DEF EscapeOf, Quote, Backslash
  <1>8. EscapeOf(b) # -1 => EscapeOf(b) \in Byte /\ EscapeOf(b) <= 127
    BY <1>1 DEF Byte
  <1>9. ShortEscape(b) # 0 => EscapeOf(ShortEscape(b)) = b /\ ShortEscape(b) # 117 /\ b < 128
    BY <1>5, <1>6, <1>7
  <1>10. ShortEscape(b) # 0 => ShortEscape(b) \in Byte
    BY <1>5, <1>6 DEF Byte
  <1> QED
    BY <1>1, <1>4, <1>8, <1>9, <1>10
-----------------------------------------------------------------------------
(* What scan_string returns.                                               *)

ScanState == [err : {"none", "MalformedJson"}, pos : Nat \ {0}, out : Bytes]

\* The n bytes of o at i are one ASCII byte or one sequence.
IsUnit(o, i, n) ==
    /\ n \in 1..4 /\ (i + n) - 1 <= Len(o)
    /\ (n = 1 /\ o[i] <= 127) \/ Utf8Length(o, i) = n

\* The bytes can be cut into units: C is where one ends and the next begins.
CutAtUnits(o, C) ==
    /\ C \subseteq 0..Len(o) /\ 0 \in C /\ Len(o) \in C
    /\ \A c \in C : c < Len(o) => \E n \in 1..4 : c + n \in C /\ IsUnit(o, c + 1, n)

WellFormed(o) == \E C \in SUBSET (0..Len(o)) : CutAtUnits(o, C)

\* A unit depends on its own bytes only.
LEMMA UnitLocal ==
  ASSUME NEW o \in Bytes, NEW i \in 1..Len(o), NEW p \in Bytes, NEW j \in 1..Len(p), NEW n,
         IsUnit(o, i, n), (j + n) - 1 <= Len(p),
         \A k \in 0..(n - 1) : p[j + k] = o[i + k]
  PROVE  IsUnit(p, j, n)
  <1>1. n \in 1..4 /\ ((n = 1 /\ o[i] <= 127) \/ Utf8Length(o, i) = n)
    BY DEF IsUnit
  <1>2. n \in 1..4
    BY DEF IsUnit
  <1>3. CASE n = 1 /\ o[i] <= 127
    <2>1. i + 0 = i /\ j + 0 = j /\ 0 \in 0..(n - 1)
      BY <1>3
    <2>2. p[j] = o[i]
      BY <2>1
    <2> QED
      BY <1>2, <1>3, <2>2 DEF IsUnit
  <1>4. CASE Utf8Length(o, i) = n
    <2>1. Utf8Length(o, i) # 0
      BY <1>2, <1>4
    <2>2. Utf8Length(p, j) = Utf8Length(o, i)
      BY <1>4, <2>1, Utf8LengthLocal, Zenon
    <2> QED
      BY <1>2, <1>4, <2>2 DEF IsUnit
  <1> QED
    BY <1>1, <1>3, <1>4

\* A unit written after well formed bytes leaves them well formed.
LEMMA UnitJoins ==
  ASSUME NEW o \in Bytes, WellFormed(o), NEW u \in Bytes, IsUnit(u, 1, Len(u))
  PROVE  o \o u \in Bytes /\ WellFormed(o \o u)
  <1> DEFINE p == o \o u
             N == Len(o)
             m == Len(u)
  <1>1. PICK C \in SUBSET (0..Len(o)) : CutAtUnits(o, C)
    BY DEF WellFormed
  <1>2. /\ p \in Bytes /\ N \in Nat /\ Len(p) = N + m
        /\ \A i \in 1..N : p[i] = o[i]
        /\ \A i \in 1..m : p[N + i] = u[i]
    BY BytesJoined
  <1>3. m \in 1..4 /\ 1 \in 1..m
    BY SMTT(30) DEF IsUnit
  <1> HIDE DEF p
  <1> DEFINE D == C \cup {N + m}
  <1>4. D \subseteq 0..Len(p) /\ 0 \in D /\ Len(p) \in D
    <2>1. C \subseteq 0..N /\ 0 \in C
      BY <1>1 DEF CutAtUnits
    <2>2. N + m \in 0..Len(p) /\ N + m = Len(p) /\ \A c \in 0..N : c \in 0..Len(p)
      BY <1>2, <1>3
    <2> QED
      BY <2>1, <2>2
  <1>5. ASSUME NEW c \in D, c < Len(p)
        PROVE  \E n \in 1..4 : c + n \in D /\ IsUnit(p, c + 1, n)
    <2>1. c \in C /\ c \in 0..N
      BY <1>1, <1>2, <1>3, <1>5 DEF CutAtUnits
    <2>2. CASE c = N
      <3>1. \A k \in 0..(m - 1) : p[(N + 1) + k] = u[1 + k]
        <4> SUFFICES ASSUME NEW k \in 0..(m - 1) PROVE p[(N + 1) + k] = u[1 + k]
          OBVIOUS
        <4>1. 1 + k \in 1..m /\ (N + 1) + k = N + (1 + k)
          BY <1>2, <1>3
        <4> QED
          BY <1>2, <4>1
      <3>2. N + 1 \in 1..Len(p) /\ ((N + 1) + m) - 1 <= Len(p)
        BY <1>2, <1>3
      <3>3. IsUnit(p, N + 1, m)
        <4> DEFINE i == N + 1
        <4>1. u \in Bytes /\ p \in Bytes /\ 1 \in 1..Len(u) /\ IsUnit(u, 1, m)
          BY <1>2, <1>3
        <4>2. i \in 1..Len(p) /\ (i + m) - 1 <= Len(p) /\ \A k \in 0..(m - 1) : p[i + k] = u[1 + k]
          BY <3>1, <3>2
        <4> HIDE DEF i
        <4>3. IsUnit(p, i, m)
          BY <4>1, <4>2, UnitLocal, ZenonT(30)
        <4> QED
          BY <4>3 DEF i
      <3> QED
        BY <1>3, <2>2, <3>3
    <2>3. CASE c # N
      <3>1. c < N
        BY <2>1, <2>3
      <3>2. PICK n \in 1..4 : c + n \in C /\ IsUnit(o, c + 1, n)
        BY <1>1, <2>1, <3>1 DEF CutAtUnits
      <3>3. /\ c + 1 \in 1..N /\ c + 1 \in 1..Len(p) /\ ((c + 1) + n) - 1 <= Len(p)
            /\ ((c + 1) + n) - 1 <= N
        BY <1>2, <1>3, <2>1, <3>1, <3>2 DEF IsUnit
      <3>4. \A k \in 0..(n - 1) : p[(c + 1) + k] = o[(c + 1) + k]
        <4> SUFFICES ASSUME NEW k \in 0..(n - 1) PROVE p[(c + 1) + k] = o[(c + 1) + k]
          OBVIOUS
        <4>1. (c + 1) + k \in 1..N
          BY <1>2, <2>1, <3>3
        <4> QED
          BY <1>2, <4>1
      <3>5. IsUnit(p, c + 1, n)
        BY <1>2, <3>2, <3>3, <3>4, UnitLocal
      <3> QED
        BY <3>2, <3>5
    <2> QED
      BY <2>2, <2>3
  <1> HIDE DEF D
  <1>6. CutAtUnits(p, D)
    BY <1>4, <1>5 DEF CutAtUnits
  <1>7. WellFormed(p)
    BY <1>4, <1>6 DEF WellFormed
  <1> QED
    BY <1>2, <1>7 DEF p

\* How many bytes append_string needs for a unit at the most: none of its bytes has an
\* escape when there are several.
UnitCost(u) == IF Len(u) = 1 THEN Len(AppendByte(u[1])) ELSE Len(u)

\* A turn that does not fail reads one unit, from no fewer bytes than it is written in.
ReadsUnit(s, r, u) ==
    /\ IsUnit(u, 1, Len(u)) /\ r.out = s.out \o u /\ s.pos + UnitCost(u) <= r.pos

LEMMA CodePointStep ==
  ASSUME NEW text \in Bytes, NEW s \in ScanState, s.err = "none",
         NEW t \in ScanState, t = [s EXCEPT !.pos = @ + 2]
  PROVE  LET r == AppendCodePoint(t, text) IN
         r \in ScanState /\ (r.err = "none" => \E u \in Bytes : ReadsUnit(s, r, u))
  <1> DEFINE unit == ReadHex4(text, t.pos)
             next == t.pos + 4
             low == IF Has(text, next, 2) /\ Slice(text, next, 2) = <<Backslash, 117>>
                    THEN ReadHex4(text, next + 2) ELSE -1
             r == AppendCodePoint(t, text)
             both == 65536 + (unit - 55296) * 1024 + (low - 56320)
  <1>1. /\ t.pos \in Nat \ {0} /\ t.pos = s.pos + 2 /\ t.out = s.out /\ t.out \in Bytes /\ t.err = "none"
        /\ s.pos \in Nat /\ next + 2 \in Nat \ {0} /\ next \in Nat \ {0} /\ next + 6 \in Nat \ {0}
    BY DEF ScanState
  <1>2. unit \in Int /\ -1 <= unit /\ unit < 65536
    <2>1. t.pos \in Nat \ {0}
      BY <1>1
    <2> QED
      BY <2>1, HexRead
  <1>3. low \in Int /\ -1 <= low /\ low < 65536
    BY <1>1, HexRead
  <1>4. r = IF unit = -1 \/ IsLow(unit) THEN Malformed(t)
            ELSE IF ~IsHigh(unit) THEN Scanning(next, t.out \o Utf8(unit))
            ELSE IF ~IsLow(low) THEN Malformed(t)
            ELSE Scanning(next + 6, t.out \o Utf8(both))
    BY DEF AppendCodePoint
  <1> HIDE DEF unit, low, r
  <1>5. CASE r = Malformed(t)
    <2>1. r \in ScanState /\ r.err = "MalformedJson"
      BY <1>5 DEF Malformed, ScanState
    <2> QED
      BY <2>1 DEF r
  <1>6. CASE unit # -1 /\ ~IsLow(unit) /\ ~IsHigh(unit)
    <2> DEFINE u == Utf8(unit)
    <2>1. IsScalar(unit)
      BY <1>2, <1>6, SMT DEF IsScalar
    <2>2. /\ u \in Bytes /\ (unit < 128 => u = <<unit>> /\ unit \in 0..127)
          /\ (~(unit < 128) => Len(u) \in 2..4 /\ Utf8Length(u, 1) = Len(u))
          /\ Len(u) <= 3
      BY <1>2, <2>1, Utf8Encodes, SMT
    <2> HIDE DEF u
    <2>3. IsUnit(u, 1, Len(u)) /\ UnitCost(u) <= 6
      <3>1. CASE unit < 128
        <4>1. u = <<unit>> /\ Len(u) = 1 /\ u[1] = unit /\ unit \in 0..127
          BY <2>2, <3>1
        <4>2. IsUnit(u, 1, Len(u))
          BY <4>1 DEF IsUnit
        <4>3. Len(AppendByte(unit)) <= 6
          BY DEF AppendByte
        <4> QED
          BY <4>1, <4>2, <4>3 DEF UnitCost
      <3>2. CASE ~(unit < 128)
        <4> DEFINE n == Len(u)
        <4>1. n \in 2..4 /\ Utf8Length(u, 1) = n /\ n <= 3
          BY <2>2, <3>2
        <4> HIDE DEF n
        <4>2. n \in 1..4 /\ (1 + n) - 1 <= n /\ n # 1 /\ n <= 6
          BY <4>1
        <4>3. IsUnit(u, 1, n)
          BY <4>1, <4>2 DEF IsUnit, n
        <4>4. UnitCost(u) = n
          BY <4>2 DEF UnitCost, n
        <4> QED
          BY <4>2, <4>3, <4>4 DEF n
      <3> QED
        BY <3>1, <3>2
    <2>4. r = Scanning(next, s.out \o u)
      BY <1>1, <1>4, <1>6 DEF u
    <2>5. s.out \o u \in Bytes
      BY <1>1, <2>2, BytesJoined
    <2>6. r \in ScanState /\ r.out = s.out \o u /\ r.pos = s.pos + 6
      BY <1>1, <2>4, <2>5, SMTT(30) DEF Scanning, ScanState
    <2>7. UnitCost(u) \in Nat
      <3>1. Len(u) \in Nat
        BY <2>2, BytesOf
      <3>2. Len(u) = 1 => Len(AppendByte(u[1])) \in Nat
        BY DEF AppendByte
      <3> QED
        BY <3>1, <3>2 DEF UnitCost
    <2>8. ReadsUnit(s, r, u)
      BY <1>1, <2>3, <2>6, <2>7, SMTT(30) DEF ReadsUnit
    <2> QED
      BY <2>2, <2>6, <2>8 DEF r
  <1>7. CASE unit # -1 /\ ~IsLow(unit) /\ IsHigh(unit) /\ IsLow(low)
    <2> DEFINE u == Utf8(both)
    <2>1. both \in Int /\ IsScalar(both) /\ ~(both < 128)
      BY <1>2, <1>3, <1>7, SMT DEF IsScalar, IsHigh, IsLow
    <2> HIDE DEF both
    <2>2. u \in Bytes /\ Len(u) \in 2..4 /\ Utf8Length(u, 1) = Len(u)
      BY <2>1, Utf8Encodes, SMT
    <2> HIDE DEF u
    <2>3. IsUnit(u, 1, Len(u)) /\ UnitCost(u) <= 4 /\ UnitCost(u) \in Nat
      BY <2>2, SMTT(30) DEF IsUnit, UnitCost
    <2>4. r = Scanning(next + 6, s.out \o u)
      BY <1>1, <1>4, <1>7 DEF u, both
    <2>5. s.out \o u \in Bytes
      BY <1>1, <2>2, BytesJoined
    <2>6. r \in ScanState /\ r.out = s.out \o u /\ r.pos = s.pos + 12
      BY <1>1, <2>4, <2>5, SMTT(30) DEF Scanning, ScanState
    <2>7. ReadsUnit(s, r, u)
      BY <1>1, <2>3, <2>6, SMTT(30) DEF ReadsUnit
    <2> QED
      BY <2>2, <2>6, <2>7 DEF r
  <1> QED
    BY <1>4, <1>5, <1>6, <1>7

LEMMA ScanStepReads ==
  ASSUME NEW text \in Bytes, NEW s \in ScanState, s.err = "none",
         ~(Has(text, s.pos, 1) /\ text[s.pos] = Quote)
  PROVE  LET r == ScanStep(s, text) IN
         r \in ScanState /\ (r.err = "none" => \E u \in Bytes : ReadsUnit(s, r, u))
  <1> DEFINE r == ScanStep(s, text)
             b == text[s.pos]
             n == Utf8Length(text, s.pos)
             t == [s EXCEPT !.pos = @ + 1]
  <1>0. s.pos \in Nat \ {0} /\ s.out \in Bytes
    BY DEF ScanState
  <1>1. CASE ~Has(text, s.pos, 1)
    BY <1>1 DEF ScanStep, Malformed, ScanState
  <1>2. CASE Has(text, s.pos, 1)
    <2>1. s.pos \in 1..Len(text) /\ Len(text) \in Nat
      BY <1>0, <1>2, BytesOf DEF Has
    <2>2. b \in Byte /\ b \in Nat /\ b < 256 /\ b # Quote
      BY <1>2, <2>1, BytesOf
    <2>3. /\ n \in {0, 2, 3, 4}
          /\ n # 0 => /\ (s.pos + n) - 1 <= Len(text)
                      /\ \A k \in 0..(n - 1) : text[s.pos + k] \in 128..255
      BY <2>1, Utf8LengthTypes, ZenonT(30)
    <2>4. t \in ScanState /\ t.pos = s.pos + 1 /\ t.out = s.out /\ t.err = "none" /\ t.pos \in Nat \ {0}
      BY <1>0 DEF ScanState
    <2> HIDE DEF t, n, b
    <2>5. CASE b = Backslash
      <3>0. ~(b < 32) /\ ~(b > 127)
        BY <2>5 DEF Backslash
      <3>1. r = AppendEscape(t, text)
        BY <1>2, <2>5, <3>0 DEF ScanStep, t, b, n
      <3> DEFINE e == text[t.pos]
                 v == [t EXCEPT !.pos = @ + 1]
      <3>2. CASE ~Has(text, t.pos, 1)
        <4>1. r = Malformed(t)
          BY <3>1, <3>2 DEF AppendEscape
        <4> QED
          BY <2>4, <4>1 DEF Malformed, ScanState
      <3>3. CASE Has(text, t.pos, 1)
        <4>1. e \in Byte
          <5>1. t.pos \in 1..Len(text)
            BY <2>1, <2>4, <3>3 DEF Has
          <5> QED
            BY <5>1, BytesOf
        <4> HIDE DEF e
        <4>2. CASE e = 117
          <5>0. EscapeOf(117) = -1
            BY SMT DEF EscapeOf, Quote, Backslash
          <5>1. r = AppendCodePoint(v, text)
            BY <3>1, <3>3, <4>2, <5>0 DEF AppendEscape, e
          <5>2. v \in ScanState /\ v = [s EXCEPT !.pos = @ + 2]
            <6>1. (s.pos + 1) + 1 = s.pos + 2 /\ s.pos + 2 \in Nat \ {0}
              BY <1>0
            <6>2. v = [s EXCEPT !.pos = (s.pos + 1) + 1]
              BY DEF t, ScanState
            <6> QED
              BY <6>1, <6>2 DEF ScanState
          <5> HIDE DEF v, r
          <5>3. r \in ScanState /\ (r.err = "none" => \E u \in Bytes : ReadsUnit(s, r, u))
            BY <5>1, <5>2, CodePointStep
          <5> QED
            BY <5>3 DEF r
        <4>3. CASE e # 117 /\ EscapeOf(e) # -1
          <5> DEFINE x == EscapeOf(e)
                     u == <<x>>
          <5>1. r = Scanning(t.pos + 1, Append(t.out, x))
            BY <3>1, <3>3, <4>3 DEF AppendEscape, e
          <5>2. x \in Byte /\ x <= 127 /\ Len(AppendByte(x)) <= 2
            BY <4>1, <4>3, Escapes
          <5>9. Len(AppendByte(x)) \in Nat
            BY DEF AppendByte
          <5> HIDE DEF x, r
          <5>3. Append(s.out, x) = s.out \o u /\ u \in Bytes /\ Len(u) = 1 /\ u[1] = x
            BY <1>0, <5>2, BytesAppended
          <5>4. s.out \o u \in Bytes
            BY <1>0, <5>3, BytesJoined
          <5> HIDE DEF u
          <5>5. r \in ScanState /\ r.out = s.out \o u /\ r.pos = s.pos + 2
            BY <1>0, <2>4, <5>1, <5>3, <5>4 DEF Scanning, ScanState
          <5>6. IsUnit(u, 1, Len(u))
            BY <5>2, <5>3 DEF IsUnit
          <5>7. s.pos + UnitCost(u) <= r.pos
            BY <1>0, <5>2, <5>3, <5>5, <5>9 DEF UnitCost
          <5>8. ReadsUnit(s, r, u)
            BY <5>5, <5>6, <5>7, SMTT(30) DEF ReadsUnit
          <5> QED
            BY <5>3, <5>5, <5>8 DEF r
        <4>4. CASE e # 117 /\ EscapeOf(e) = -1
          <5>1. r = Malformed(t)
            BY <3>1, <3>3, <4>4 DEF AppendEscape, e
          <5> QED
            BY <2>4, <5>1 DEF Malformed, ScanState
        <4> QED
          BY <4>2, <4>3, <4>4
      <3> QED
        BY <3>2, <3>3
    <2>6. CASE b # Backslash /\ b < 32
      <3>1. r = Malformed(s)
        BY <1>2, <2>2, <2>6 DEF ScanStep, b, n
      <3> QED
        BY <3>1 DEF Malformed, ScanState
    <2>7. CASE b # Backslash /\ 32 <= b /\ b <= 127
      <3> DEFINE u == <<b>>
      <3>1. r = Scanning(s.pos + 1, Append(s.out, b))
        BY <1>2, <2>2, <2>7 DEF ScanStep, b, n
      <3>2. Append(s.out, b) = s.out \o u /\ u \in Bytes /\ Len(u) = 1 /\ u[1] = b
        BY <1>0, <2>2, BytesAppended
      <3>3. s.out \o u \in Bytes
        BY <1>0, <3>2, BytesJoined
      <3>4. ShortEscape(b) = 0
        BY <2>2, <2>7, SMT DEF ShortEscape, Backslash, Quote
      <3>5. Len(AppendByte(b)) = 1
        BY <2>2, <2>7, <3>4 DEF AppendByte
      <3> HIDE DEF u, r
      <3>6. r \in ScanState /\ r.out = s.out \o u /\ r.pos = s.pos + 1
        BY <1>0, <3>1, <3>2, <3>3 DEF Scanning, ScanState
      <3>7. IsUnit(u, 1, Len(u))
        BY <2>7, <3>2 DEF IsUnit
      <3>8. s.pos + UnitCost(u) <= r.pos
        BY <1>0, <3>2, <3>5, <3>6 DEF UnitCost
      <3>9. ReadsUnit(s, r, u)
        BY <3>6, <3>7, <3>8, SMTT(30) DEF ReadsUnit
      <3> QED
        BY <3>2, <3>6, <3>9 DEF r
    <2>8. CASE b # Backslash /\ b > 127 /\ n = 0
      <3>1. r = Malformed(s)
        BY <1>2, <2>2, <2>8 DEF ScanStep, b, n
      <3> QED
        BY <3>1 DEF Malformed, ScanState
    <2>9. CASE b # Backslash /\ b > 127 /\ n # 0
      <3> DEFINE u == Slice(text, s.pos, n)
      <3>1. r = Scanning(s.pos + n, s.out \o u)
        BY <1>2, <2>2, <2>9 DEF ScanStep, b, n
      <3>2. u \in Bytes /\ Len(u) = n /\ \A i \in 1..n : u[i] = text[(s.pos + i) - 1]
        <4>0. n \in 2..4 /\ (s.pos + n) - 1 <= Len(text)
          BY <2>3, <2>9
        <4>1. /\ s.pos \in 1..(Len(text) + 1) /\ s.pos + (n - 1) \in (s.pos - 1)..Len(text)
              /\ ((s.pos + (n - 1)) - s.pos) + 1 = n
          BY <1>0, <2>1, <4>0
        <4>2. /\ SubSeq(text, s.pos, s.pos + (n - 1)) \in Bytes
              /\ Len(SubSeq(text, s.pos, s.pos + (n - 1))) = n
              /\ \A i \in 1..n : SubSeq(text, s.pos, s.pos + (n - 1))[i] = text[(s.pos + i) - 1]
          BY <4>1, BytesPart
        <4>3. u = SubSeq(text, s.pos, s.pos + (n - 1))
          BY Zenon DEF Slice
        <4> QED
          BY <4>2, <4>3
      <3>3. s.out \o u \in Bytes
        BY <1>0, <3>2, BytesJoined
      <3> HIDE DEF u, r
      <3>4. r \in ScanState /\ r.out = s.out \o u /\ r.pos = s.pos + n
        BY <1>0, <2>3, <3>1, <3>3 DEF Scanning, ScanState
      <3>5. IsUnit(u, 1, Len(u))
        <4>1. \A k \in 0..(n - 1) : u[1 + k] = text[s.pos + k]
          <5> SUFFICES ASSUME NEW k \in 0..(n - 1) PROVE u[1 + k] = text[s.pos + k]
            OBVIOUS
          <5>1. 1 + k \in 1..n /\ (s.pos + (1 + k)) - 1 = s.pos + k
            BY <1>0, <2>3
          <5> QED
            BY <3>2, <5>1
        <4>2. 1 \in 1..Len(u) /\ (1 + n) - 1 <= Len(u) /\ n \in 1..4
          BY <2>3, <2>9, <3>2
        <4>3. IsUnit(text, s.pos, n)
          BY <2>3, <2>9, <4>2 DEF IsUnit, n
        <4>4. IsUnit(u, 1, n)
          BY <2>1, <3>2, <4>1, <4>2, <4>3, UnitLocal
        <4> QED
          BY <3>2, <4>4
      <3>6. s.pos + UnitCost(u) <= r.pos
        <4>1. Len(u) # 1
          BY <2>3, <2>9, <3>2
        <4> QED
          BY <1>0, <2>3, <3>2, <3>4, <4>1 DEF UnitCost
      <3>7. ReadsUnit(s, r, u)
        BY <3>4, <3>5, <3>6, SMTT(30) DEF ReadsUnit
      <3> QED
        BY <3>2, <3>4, <3>7 DEF r
    <2> QED
      BY <2>2, <2>5, <2>6, <2>7, <2>8, <2>9
  <1> QED
    BY <1>1, <1>2

\* The turns of the loop, one by one.
LEMMA ScanTurnsExist ==
  ASSUME NEW text \in Bytes
  PROVE  LET turn == ScanTurns(text) IN
         /\ turn[0] = Scanning(2, << >>)
         /\ \A k \in 1..Len(text) :
               turn[k] = IF turn[k - 1].err # "none" THEN turn[k - 1]
                         ELSE IF Has(text, turn[k - 1].pos, 1) /\ text[turn[k - 1].pos] = Quote
                              THEN turn[k - 1]
                         ELSE ScanStep(turn[k - 1], text)
         /\ \A k \in 0..Len(text) : turn[k] \in ScanState
  <1> DEFINE a == Scanning(2, << >>)
             Step(s) == IF s.err # "none" THEN s
                        ELSE IF Has(text, s.pos, 1) /\ text[s.pos] = Quote THEN s
                        ELSE ScanStep(s, text)
             n == Len(text)
             g == [k \in 1..n |-> [s \in ScanState |-> Step(s)]]
  <1>1. n \in Nat /\ a \in ScanState
    BY BytesOf DEF Scanning, ScanState, Bytes
  <1>2. \A s \in ScanState : Step(s) \in ScanState
    <2> SUFFICES ASSUME NEW s \in ScanState PROVE Step(s) \in ScanState
      OBVIOUS
    <2>1. CASE s.err # "none" \/ (Has(text, s.pos, 1) /\ text[s.pos] = Quote)
      BY <2>1
    <2>2. CASE s.err = "none" /\ ~(Has(text, s.pos, 1) /\ text[s.pos] = Quote)
      <3>1. ScanStep(s, text) \in ScanState
        BY <2>2, ScanStepReads
      <3> QED
        BY <2>2, <3>1
    <2> QED
      BY <2>1, <2>2
  <1> HIDE DEF n, a, Step
  <1>3. g \in [1..n -> [ScanState -> ScanState]]
    BY <1>2
  <1>4. \A k \in 1..n, s \in ScanState : g[k][s] = Step(s)
    OBVIOUS
  <1> HIDE DEF g
  <1>11. \E f : Follows(f, n, ScanState, a, g)
    BY <1>1, <1>3, RecursionExists
  <1>5. PICK f \in [0..n -> ScanState] : f[0] = a /\ \A k \in 1..n : f[k] = g[k][f[k - 1]]
    BY <1>11 DEF Follows
  <1>6. f = [k \in 0..n |-> IF k = 0 THEN a ELSE Step(f[k - 1])]
    <2>1. ASSUME NEW k \in 0..n PROVE f[k] = IF k = 0 THEN a ELSE Step(f[k - 1])
      <3>1. CASE k = 0
        BY <1>5, <3>1
      <3>2. CASE k # 0
        <4>1. k \in 1..n /\ k - 1 \in 0..n
          BY <1>1, <3>2
        <4>2. f[k - 1] \in ScanState
          BY <4>1
        <4> QED
          BY <1>4, <1>5, <3>2, <4>1, <4>2
      <3> QED
        BY <3>1, <3>2
    <2> QED
      BY <2>1
  <1> DEFINE turn == ScanTurns(text)
  <1>7. turn = CHOOSE t : t = [k \in 0..n |-> IF k = 0 THEN a ELSE Step(t[k - 1])]
    BY Zenon DEF ScanTurns, n, a, Step
  <1>8. turn = [k \in 0..n |-> IF k = 0 THEN a ELSE Step(turn[k - 1])]
    BY <1>6, <1>7, Zenon
  <1> HIDE DEF turn
  <1>9. turn[0] = a /\ \A k \in 1..n : turn[k] = Step(turn[k - 1])
    <2>1. turn[0] = a
      BY <1>1, <1>8
    <2>2. ASSUME NEW k \in 1..n PROVE turn[k] = Step(turn[k - 1])
      <3>1. k \in 0..n /\ k # 0
        BY <1>1
      <3> QED
        BY <1>8, <3>1
    <2> QED
      BY <2>1, <2>2
  <1>10. \A k \in 0..n : turn[k] \in ScanState
    <2> DEFINE T == {k \in 0..n : turn[k] \in ScanState}
    <2>1. 0 \in T
      BY <1>1, <1>9
    <2>2. ASSUME NEW k \in 1..n, k - 1 \in T PROVE k \in T
      <3>1. turn[k] \in ScanState
        BY <1>2, <1>9, <2>2
      <3> QED
        BY <3>1
    <2> HIDE DEF T
    <2>3. \A k \in 0..n : k \in T
      BY <1>1, <2>1, <2>2, UpTo
    <2> QED
      BY <2>3 DEF T
  <1> QED
    BY <1>9, <1>10 DEF a, Step, n, turn

-----------------------------------------------------------------------------
(* What append_string writes.                                              *)

LEMMA ByteWritten ==
  ASSUME NEW b \in Byte
  PROVE  AppendByte(b) \in Bytes /\ Len(AppendByte(b)) \in Nat \ {0} /\ (b > 127 => AppendByte(b) = <<b>>)
  <1>0. b \in Nat /\ b < 256
    BY DEF Byte
  <1>1. CASE ShortEscape(b) # 0
    <2>1. ShortEscape(b) \in Byte /\ b < 128
      BY <1>1, Escapes
    <2>2. Backslash \in Byte
      BY DEF Backslash, Byte
    <2>3. AppendByte(b) = <<Backslash, ShortEscape(b)>>
      BY <1>1 DEF AppendByte
    <2> QED
      BY <1>0, <2>1, <2>2, <2>3 DEF Bytes
  <1>2. CASE ShortEscape(b) = 0 /\ b < 32
    <2> DEFINE x == HexDigit(b \div 16)
               y == HexDigit(b % 16)
    <2>1. x \in Byte /\ y \in Byte
      BY <1>0, <1>2 DEF HexDigit, Byte
    <2>2. Backslash \in Byte /\ 117 \in Byte /\ 48 \in Byte
      BY DEF Backslash, Byte
    <2>3. AppendByte(b) = <<Backslash, 117, 48, 48, x, y>>
      BY <1>2 DEF AppendByte
    <2> HIDE DEF x, y
    <2> QED
      BY <1>0, <1>2, <2>1, <2>2, <2>3 DEF Bytes
  <1>3. CASE ShortEscape(b) = 0 /\ ~(b < 32)
    <2>1. AppendByte(b) = <<b>>
      BY <1>3 DEF AppendByte
    <2> QED
      BY <2>1 DEF Bytes
  <1> QED
    BY <1>1, <1>2, <1>3

LEMMA WrittenExists ==
  ASSUME NEW o \in Bytes
  PROVE  LET w == Written(o) IN
         /\ w[0] = <<Quote>>
         /\ \A k \in 1..Len(o) : w[k] = w[k - 1] \o AppendByte(o[k])
         /\ \A k \in 0..Len(o) : w[k] \in Bytes
  <1> DEFINE a == <<Quote>>
             n == Len(o)
             g == [k \in 1..n |-> [s \in Bytes |-> s \o AppendByte(o[k])]]
  <1>1. n \in Nat /\ a \in Bytes
    <2>1. Quote \in Byte
      BY DEF Quote, Byte
    <2> QED
      BY <2>1, BytesOf DEF Bytes
  <1>2. \A k \in 1..n : AppendByte(o[k]) \in Bytes
    BY BytesOf, ByteWritten
  <1>3. \A s \in Bytes, k \in 1..n : s \o AppendByte(o[k]) \in Bytes
    BY <1>2, BytesJoined
  <1> HIDE DEF n, a
  <1>4. g \in [1..n -> [Bytes -> Bytes]]
    BY <1>3
  <1>5. \A k \in 1..n, s \in Bytes : g[k][s] = s \o AppendByte(o[k])
    OBVIOUS
  <1> HIDE DEF g
  <1>12. \E f : Follows(f, n, Bytes, a, g)
    BY <1>1, <1>4, RecursionExists
  <1>6. PICK f \in [0..n -> Bytes] : f[0] = a /\ \A k \in 1..n : f[k] = g[k][f[k - 1]]
    BY <1>12 DEF Follows
  <1>7. f = [k \in 0..n |-> IF k = 0 THEN a ELSE f[k - 1] \o AppendByte(o[k])]
    <2>1. ASSUME NEW k \in 0..n PROVE f[k] = IF k = 0 THEN a ELSE f[k - 1] \o AppendByte(o[k])
      <3>1. CASE k = 0
        BY <1>6, <3>1
      <3>2. CASE k # 0
        <4>1. k \in 1..n /\ k - 1 \in 0..n
          BY <1>1, <3>2
        <4>2. f[k - 1] \in Bytes
          BY <4>1
        <4> QED
          BY <1>5, <1>6, <3>2, <4>1, <4>2
      <3> QED
        BY <3>1, <3>2
    <2> QED
      BY <2>1
  <1> DEFINE w == Written(o)
  <1>8. w = CHOOSE t : t = [k \in 0..n |-> IF k = 0 THEN a ELSE t[k - 1] \o AppendByte(o[k])]
    BY Zenon DEF Written, n, a
  <1>9. w = [k \in 0..n |-> IF k = 0 THEN a ELSE w[k - 1] \o AppendByte(o[k])]
    BY <1>7, <1>8, Zenon
  <1> HIDE DEF w
  <1>10. w[0] = a /\ \A k \in 1..n : w[k] = w[k - 1] \o AppendByte(o[k])
    <2>1. w[0] = a
      BY <1>1, <1>9
    <2>2. ASSUME NEW k \in 1..n PROVE w[k] = w[k - 1] \o AppendByte(o[k])
      <3>1. k \in 0..n /\ k # 0
        BY <1>1
      <3> QED
        BY <1>9, <3>1
    <2> QED
      BY <2>1, <2>2
  <1>11. \A k \in 0..n : w[k] \in Bytes
    <2> DEFINE T == {k \in 0..n : w[k] \in Bytes}
    <2>1. 0 \in T
      BY <1>1, <1>10
    <2>2. ASSUME NEW k \in 1..n, k - 1 \in T PROVE k \in T
      <3>1. w[k] \in Bytes
        BY <1>3, <1>10, <2>2
      <3> QED
        BY <3>1
    <2> HIDE DEF T
    <2>3. \A k \in 0..n : k \in T
      BY <1>1, <2>1, <2>2, UpTo
    <2> QED
      BY <2>3 DEF T
  <1> QED
    BY <1>10, <1>11 DEF a, n, w

\* What has been written stays as it is while more is written.
LEMMA WrittenPrefix ==
  ASSUME NEW o \in Bytes, NEW p \in Bytes, Len(o) <= Len(p), \A i \in 1..Len(o) : p[i] = o[i]
  PROVE  \A k \in 0..Len(o) : Written(p)[k] = Written(o)[k]
  <1> DEFINE n == Len(o)
             v == Written(o)
             w == Written(p)
             T == {k \in 0..n : w[k] = v[k]}
  <1>1. n \in Nat /\ Len(p) \in Nat
    BY BytesOf
  <1>2. v[0] = <<Quote>> /\ \A k \in 1..n : v[k] = v[k - 1] \o AppendByte(o[k])
    BY WrittenExists
  <1>3. w[0] = <<Quote>> /\ \A k \in 1..Len(p) : w[k] = w[k - 1] \o AppendByte(p[k])
    BY WrittenExists
  <1> HIDE DEF v, w
  <1>4. 0 \in T
    BY <1>1, <1>2, <1>3
  <1>5. ASSUME NEW k \in 1..n, k - 1 \in T PROVE k \in T
    <2>1. k \in 1..Len(p) /\ k \in 0..n
      BY <1>1
    <2>2. w[k] = v[k]
      BY <1>2, <1>3, <1>5, <2>1
    <2> QED
      BY <2>1, <2>2
  <1> HIDE DEF T
  <1>6. \A k \in 0..n : k \in T
    BY <1>1, <1>4, <1>5, UpTo
  <1> QED
    BY <1>6 DEF T, v, w

\* Up to the k-th byte, and from there on.
LEMMA WrittenLengths ==
  ASSUME NEW o \in Bytes
  PROVE  LET w == Written(o) IN
         /\ \A k \in 0..Len(o) : Len(w[k]) \in Nat
         /\ \A k \in 1..Len(o) : /\ Len(w[k]) = Len(w[k - 1]) + Len(AppendByte(o[k]))
                                 /\ Len(AppendByte(o[k])) \in Nat \ {0}
         /\ \A k \in 0..Len(o) : k < Len(w[k])
  <1> DEFINE w == Written(o)
             n == Len(o)
             T == {k \in 0..n : k < Len(w[k])}
  <1>1. /\ n \in Nat /\ w[0] = <<Quote>>
        /\ \A k \in 1..n : w[k] = w[k - 1] \o AppendByte(o[k])
        /\ \A k \in 0..n : w[k] \in Bytes
    BY BytesOf, WrittenExists
  <1>2. \A k \in 1..n : AppendByte(o[k]) \in Bytes /\ Len(AppendByte(o[k])) \in Nat \ {0}
    BY BytesOf, ByteWritten
  <1> HIDE DEF w, n
  <1>3. \A k \in 0..n : Len(w[k]) \in Nat
    BY <1>1, BytesOf
  <1>4. ASSUME NEW k \in 1..n PROVE Len(w[k]) = Len(w[k - 1]) + Len(AppendByte(o[k]))
    <2>1. k - 1 \in 0..n
      BY <1>1
    <2>2. w[k - 1] \in Bytes
      BY <1>1, <2>1
    <2>3. Len(w[k - 1] \o AppendByte(o[k])) = Len(w[k - 1]) + Len(AppendByte(o[k]))
      BY <1>2, <2>2, BytesJoined
    <2> QED
      BY <1>1, <2>3
  <1>5. 0 \in T
    <2>1. Len(w[0]) = 1 /\ 0 \in 0..n
      BY <1>1
    <2> QED
      BY <2>1
  <1>6. ASSUME NEW k \in 1..n, k - 1 \in T PROVE k \in T
    <2>1. k \in 0..n /\ k - 1 \in 0..n
      BY <1>1
    <2>2. k - 1 < Len(w[k - 1]) /\ Len(w[k - 1]) \in Nat /\ Len(AppendByte(o[k])) \in Nat \ {0}
      BY <1>2, <1>3, <1>6, <2>1
    <2>4. k \in Int
      BY <1>1
    <2> DEFINE x == Len(w[k - 1])
               y == Len(AppendByte(o[k]))
               z == Len(w[k])
    <2>5. z = x + y
      BY <1>4
    <2>6. k - 1 < x /\ x \in Nat /\ y \in Nat \ {0}
      BY <2>2
    <2> HIDE DEF x, y, z
    <2>7. k < z
      BY <2>4, <2>5, <2>6
    <2>3. k < Len(w[k])
      BY <2>7 DEF z
    <2> QED
      BY <2>1, <2>3
  <1> HIDE DEF T
  <1>7. \A k \in 0..n : k \in T
    BY <1>1, <1>5, <1>6, UpTo
  <1> QED
    BY <1>2, <1>3, <1>4, <1>7 DEF T, w, n

\* Bytes that are not ASCII are written as they are.
LEMMA HighWritten ==
  ASSUME NEW o \in Bytes, NEW c \in 0..Len(o), NEW m \in Nat, c + m <= Len(o),
         \A i \in 1..m : o[c + i] > 127
  PROVE  \A k \in 0..m : Len(Written(o)[c + k]) = Len(Written(o)[c]) + k
  <1> DEFINE w == Written(o)
             T == {k \in 0..m : Len(w[c + k]) = Len(w[c]) + k}
  <1>1. /\ Len(o) \in Nat
        /\ \A k \in 0..Len(o) : Len(w[k]) \in Nat
        /\ \A k \in 1..Len(o) : Len(w[k]) = Len(w[k - 1]) + Len(AppendByte(o[k]))
    BY BytesOf, WrittenLengths
  <1> HIDE DEF w
  <1>2. 0 \in T
    <2>1. c + 0 = c /\ Len(w[c]) \in Nat
      BY <1>1
    <2> QED
      BY <2>1
  <1>3. ASSUME NEW k \in 1..m, k - 1 \in T PROVE k \in T
    <2>1. c + k \in 1..Len(o) /\ (c + k) - 1 = c + (k - 1) /\ c \in 0..Len(o)
      BY <1>1
    <2>2. Len(AppendByte(o[c + k])) = 1
      <3>1. o[c + k] \in Byte /\ o[c + k] > 127
        BY <2>1, BytesOf
      <3>2. AppendByte(o[c + k]) = <<o[c + k]>>
        BY <3>1, ByteWritten
      <3> QED
        BY <3>2
    <2>3. Len(w[c + k]) = Len(w[c + (k - 1)]) + 1
      BY <1>1, <2>1, <2>2
    <2>4. Len(w[c + (k - 1)]) = Len(w[c]) + (k - 1) /\ Len(w[c]) \in Nat
      BY <1>1, <1>3, <2>1
    <2>5. Len(w[c + k]) = Len(w[c]) + k
      BY <2>3, <2>4
    <2> QED
      BY <2>5
  <1> HIDE DEF T
  <1>4. \A k \in 0..m : k \in T
    BY <1>2, <1>3, UpTo
  <1> QED
    BY <1>4 DEF T, w

\* The bytes of a unit of several bytes are not ASCII.
LEMMA UnitBytes ==
  ASSUME NEW u \in Bytes, NEW i \in 1..Len(u), NEW n, IsUnit(u, i, n), ~(n = 1 /\ u[i] <= 127)
  PROVE  Utf8Length(u, i) = n /\ n \in 2..4 /\ \A k \in 0..(n - 1) : u[i + k] > 127
  <1>1. Utf8Length(u, i) = n /\ n \in 1..4
    BY DEF IsUnit
  <1>2. /\ n \in {0, 2, 3, 4}
        /\ n # 0 => \A k \in 0..(n - 1) : u[i + k] \in 128..255
    BY <1>1, Utf8LengthTypes
  <1>3. n \in 2..4
    <2>1. n \in {0, 2, 3, 4}
      BY <1>2
    <2> QED
      BY <1>1, <2>1
  <1>4. ASSUME NEW k \in 0..(n - 1) PROVE u[i + k] > 127
    <2>1. n # 0
      BY <1>3
    <2> DEFINE x == u[i + k]
    <2>2. x \in 128..255
      BY <1>2, <2>1
    <2> HIDE DEF x
    <2>3. x > 127
      BY <2>2
    <2> QED
      BY <2>3 DEF x
  <1> QED
    BY <1>1, <1>3, <1>4

\* A unit costs what UnitCost says.
LEMMA UnitWritten ==
  ASSUME NEW o \in Bytes, NEW u \in Bytes, IsUnit(u, 1, Len(u))
  PROVE  /\ UnitCost(u) \in Nat
         /\ Len(Written(o \o u)[Len(o \o u)]) = Len(Written(o)[Len(o)]) + UnitCost(u)
  <1> DEFINE p == o \o u
             N == Len(o)
             m == Len(u)
  <1>1. /\ p \in Bytes /\ N \in Nat /\ m \in Nat /\ Len(p) = N + m
        /\ \A i \in 1..N : p[i] = o[i]
        /\ \A i \in 1..m : p[N + i] = u[i]
    BY BytesJoined
  <1>2. m \in 1..4
    BY DEF IsUnit
  <1> HIDE DEF p, N, m
  <1>3. Written(p)[N] = Written(o)[N]
    <2>1. N <= Len(p) /\ N \in 0..N
      BY <1>1
    <2> QED
      BY <1>1, <2>1, WrittenPrefix DEF N
  <1>4. CASE m = 1 /\ u[1] <= 127
    <2>1. N + 1 \in 1..Len(p) /\ (N + 1) - 1 = N /\ 1 \in 1..m
      BY <1>1, <1>4
    <2>2. p[N + 1] = u[1]
      BY <1>1, <2>1
    <2>3. /\ Len(Written(p)[N + 1]) = Len(Written(p)[N]) + Len(AppendByte(u[1]))
          /\ Len(AppendByte(u[1])) \in Nat \ {0}
      <3>1. \A k \in 1..Len(p) : /\ Len(Written(p)[k]) = Len(Written(p)[k - 1]) + Len(AppendByte(p[k]))
                                 /\ Len(AppendByte(p[k])) \in Nat \ {0}
        BY <1>1, WrittenLengths
      <3> QED
        BY <2>1, <2>2, <3>1
    <2>4. UnitCost(u) = Len(AppendByte(u[1])) /\ Len(p) = N + 1
      BY <1>1, <1>4 DEF UnitCost, m
    <2>5. UnitCost(u) \in Nat /\ Len(Written(p)[Len(p)]) = Len(Written(o)[N]) + UnitCost(u)
      BY <1>3, <2>3, <2>4
    <2> QED
      BY <2>5 DEF p, N
  <1>5. CASE ~(m = 1 /\ u[1] <= 127)
    <2>0. 1 \in 1..Len(u)
      BY <1>2 DEF m
    <2>1. m \in 2..4 /\ \A k \in 0..(m - 1) : u[1 + k] > 127
      BY <1>5, <2>0, UnitBytes DEF m
    <2>2. ASSUME NEW i \in 1..m PROVE p[N + i] > 127
      <3>1. i - 1 \in 0..(m - 1) /\ 1 + (i - 1) = i
        BY <1>1
      <3>2. u[i] > 127
        BY <2>1, <3>1
      <3> QED
        BY <1>1, <3>2
    <2>6. m \in 2..4
      BY <2>1
    <2>3. N \in 0..Len(p) /\ N + m <= Len(p) /\ m \in 0..m /\ m # 1
      BY <1>1, <2>6
    <2>4. Len(Written(p)[N + m]) = Len(Written(p)[N]) + m
      BY <1>1, <2>2, <2>3, HighWritten
    <2>5. UnitCost(u) = m
      BY <2>3 DEF UnitCost, m
    <2>7. UnitCost(u) \in Nat /\ Len(Written(p)[Len(p)]) = Len(Written(o)[N]) + UnitCost(u)
      BY <1>1, <1>3, <2>4, <2>5
    <2> QED
      BY <2>7 DEF p, N
  <1> QED
    BY <1>4, <1>5

\* What scan_string returns is well formed, and append_string writes it in no more bytes
\* than it was read from.
LEMMA ScanReturns ==
  ASSUME NEW text \in Bytes, ScanString(text).err = "none"
  PROVE  LET s == ScanString(text) IN
         /\ s.out \in Bytes /\ WellFormed(s.out) /\ s.pos \in Nat
         /\ Len(Written(s.out)[Len(s.out)]) + 2 <= s.pos
  <1> DEFINE turn == ScanTurns(text)
             N == Len(text)
             W(o) == Len(Written(o)[Len(o)])
             T == {k \in 0..N : turn[k].err = "none" =>
                                  WellFormed(turn[k].out) /\ W(turn[k].out) + 1 <= turn[k].pos}
  <1>1. /\ turn[0] = Scanning(2, << >>)
        /\ \A k \in 1..N : turn[k] = IF turn[k - 1].err # "none" THEN turn[k - 1]
                              ELSE IF Has(text, turn[k - 1].pos, 1) /\ text[turn[k - 1].pos] = Quote
                              THEN turn[k - 1] ELSE ScanStep(turn[k - 1], text)
        /\ \A k \in 0..N : turn[k] \in ScanState
        /\ N \in Nat
    BY ScanTurnsExist, BytesOf
  <1> HIDE DEF turn
  <1>2. \A o \in Bytes : W(o) \in Nat
    <2> SUFFICES ASSUME NEW o \in Bytes PROVE W(o) \in Nat
      OBVIOUS
    <2>1. Len(o) \in 0..Len(o)
      BY BytesOf
    <2> QED
      BY <2>1, WrittenLengths
  <1>3. 0 \in T
    <2>1. << >> \in Bytes /\ Len(<< >>) = 0 /\ 0 \in 0..N
      BY <1>1 DEF Bytes
    <2>2. Written(<< >>)[0] = <<Quote>>
      BY <2>1, WrittenExists
    <2>3. W(<< >>) = 1
      BY <2>1, <2>2
    <2>4. CutAtUnits(<< >>, {0}) /\ {0} \in SUBSET (0..Len(<< >>))
      BY <2>1 DEF CutAtUnits
    <2>5. WellFormed(<< >>)
      BY <2>4 DEF WellFormed
    <2>6. turn[0].out = << >> /\ turn[0].pos = 2
      BY <1>1 DEF Scanning
    <2> HIDE DEF W
    <2> QED
      BY <2>1, <2>3, <2>5, <2>6
  <1>4. ASSUME NEW k \in 1..N, k - 1 \in T PROVE k \in T
    <2> DEFINE s == turn[k - 1]
               r == turn[k]
    <2>1. k \in 0..N /\ k - 1 \in 0..N /\ s \in ScanState /\ r \in ScanState
      BY <1>1
    <2>2. CASE r = s
      BY <1>4, <2>1, <2>2
    <2>3. CASE s.err = "none" /\ ~(Has(text, s.pos, 1) /\ text[s.pos] = Quote)
      <3>1. r = ScanStep(s, text)
        BY <1>1, <2>3
      <3>2. WellFormed(s.out) /\ W(s.out) + 1 <= s.pos
        BY <1>4, <2>3
      <3> HIDE DEF s, r, W
      <3>3. ASSUME r.err = "none" PROVE WellFormed(r.out) /\ W(r.out) + 1 <= r.pos
        <4>1. PICK u \in Bytes : ReadsUnit(s, r, u)
          BY <2>1, <2>3, <3>1, <3>3, ScanStepReads
        <4>2. IsUnit(u, 1, Len(u)) /\ r.out = s.out \o u /\ s.pos + UnitCost(u) <= r.pos
          BY <4>1 DEF ReadsUnit
        <4>3. s.out \in Bytes /\ s.pos \in Nat /\ r.pos \in Nat
          BY <2>1 DEF ScanState
        <4>4. WellFormed(r.out)
          BY <3>2, <4>2, <4>3, UnitJoins
        <4>5. UnitCost(u) \in Nat /\ W(r.out) = W(s.out) + UnitCost(u)
          BY <4>2, <4>3, UnitWritten DEF W
        <4>6. W(s.out) \in Nat
          BY <1>2, <4>3
        <4> QED
          BY <3>2, <4>2, <4>3, <4>4, <4>5, <4>6
      <3> QED
        BY <2>1, <3>3 DEF r
    <2>4. r = s \/ (s.err = "none" /\ ~(Has(text, s.pos, 1) /\ text[s.pos] = Quote))
      BY <1>1
    <2> QED
      BY <2>2, <2>3, <2>4
  <1> HIDE DEF T
  <1>5. \A k \in 0..N : k \in T
    BY <1>1, <1>3, <1>4, UpTo
  <1> DEFINE last == turn[N]
             s == ScanString(text)
  <1>6. last \in ScanState /\ N \in T
    BY <1>1, <1>5
  <1>7. last.err = "none" /\ s = [last EXCEPT !.pos = @ + 1]
    <2>1. ScanString(text) = IF text = << >> \/ text[1] # Quote
                             THEN [Scanning(1, << >>) EXCEPT !.err = "WrongType"]
                             ELSE IF last.err # "none" THEN last ELSE [last EXCEPT !.pos = @ + 1]
      BY DEF ScanString, turn
    <2>2. [Scanning(1, << >>) EXCEPT !.err = "WrongType"].err = "WrongType"
      BY DEF Scanning
    <2> QED
      BY <2>1, <2>2
  <1> HIDE DEF last, s, W
  <1>8. s.out = last.out /\ s.pos = last.pos + 1 /\ last.out \in Bytes /\ last.pos \in Nat
    BY <1>6, <1>7 DEF ScanState
  <1>9. WellFormed(last.out) /\ W(last.out) + 1 <= last.pos
    BY <1>6, <1>7 DEF T, last
  <1>10. W(last.out) \in Nat
    BY <1>2, <1>8
  <1>11. W(s.out) + 2 <= s.pos /\ s.pos \in Nat /\ WellFormed(s.out) /\ s.out \in Bytes
    BY <1>8, <1>9, <1>10
  <1> QED
    BY <1>11 DEF s, W

-----------------------------------------------------------------------------
(* What append_string writes is read back.                                 *)

\* The text of well formed bytes: where each of them is in it.
LEMMA TextOf ==
  ASSUME NEW o \in Bytes
  PROVE  LET w == Written(o)
             text == AppendString(o)
         IN  /\ text \in Bytes /\ Len(text) = Len(w[Len(o)]) + 1
             /\ text[Len(w[Len(o)]) + 1] = Quote /\ text[1] = Quote
             /\ \A k \in 1..Len(o), j \in 1..6 :
                   j <= Len(AppendByte(o[k])) =>
                      /\ Len(w[k - 1]) + j <= Len(text)
                      /\ text[Len(w[k - 1]) + j] = AppendByte(o[k])[j]
  <1> DEFINE w == Written(o)
             n == Len(o)
             text == AppendString(o)
             Same(m) == \A k \in 0..m : Len(w[k]) <= Len(w[m]) /\ \A j \in 1..Len(w[k]) : w[m][j] = w[k][j]
             T == {m \in 0..n : Same(m)}
  <1>1. /\ n \in Nat /\ w[0] = <<Quote>>
        /\ \A k \in 1..n : w[k] = w[k - 1] \o AppendByte(o[k])
        /\ \A k \in 0..n : w[k] \in Bytes
    BY BytesOf, WrittenExists
  <1>2. \A k \in 1..n : AppendByte(o[k]) \in Bytes
    BY BytesOf, ByteWritten
  <1>3. text = Append(w[n], Quote)
    BY DEF AppendString
  <1> HIDE DEF w, text, n
  <1>4. \A k \in 0..n : Len(w[k]) \in Nat
    BY <1>1, BytesOf
  <1>5. ASSUME NEW k \in 1..n
        PROVE  /\ k \in 0..n /\ k - 1 \in 0..n
               /\ Len(w[k]) = Len(w[k - 1]) + Len(AppendByte(o[k]))
               /\ \A j \in 1..Len(w[k - 1]) : w[k][j] = w[k - 1][j]
               /\ \A j \in 1..Len(AppendByte(o[k])) : w[k][Len(w[k - 1]) + j] = AppendByte(o[k])[j]
               /\ Len(AppendByte(o[k])) \in Nat
    <2>1. k \in 0..n /\ k - 1 \in 0..n
      BY <1>1
    <2> DEFINE a == w[k - 1]
               b == AppendByte(o[k])
               c == w[k]
    <2>2. a \in Bytes /\ b \in Bytes /\ c = a \o b
      BY <1>1, <1>2, <2>1
    <2> HIDE DEF a, b, c
    <2>3. /\ Len(c) = Len(a) + Len(b) /\ Len(b) \in Nat
          /\ \A j \in 1..Len(a) : c[j] = a[j]
          /\ \A j \in 1..Len(b) : c[Len(a) + j] = b[j]
      BY <2>2, BytesJoined
    <2> QED
      BY <2>1, <2>3 DEF a, b, c
  <1>6. 0 \in T
    <2>2. 0 \in 0..n /\ 0..0 = {0} /\ Len(w[0]) <= Len(w[0])
      BY <1>1, <1>4
    <2>1. Same(0)
      BY <2>2
    <2> HIDE DEF Same
    <2> QED
      BY <1>1, <2>1
  <1>7. ASSUME NEW m \in 1..n, m - 1 \in T PROVE m \in T
    <2>1. Same(m - 1)
      BY <1>7
    <2>2. ASSUME NEW k \in 0..m
          PROVE  Len(w[k]) <= Len(w[m]) /\ \A j \in 1..Len(w[k]) : w[m][j] = w[k][j]
      <3>1. m \in Int /\ k \in Int /\ Len(w[m]) \in Nat /\ Len(w[m - 1]) \in Nat /\ k \in 0..n
        BY <1>1, <1>4, <1>5
      <3>2. CASE k = m
        BY <3>1, <3>2
      <3>3. CASE k # m
        <4>1. k \in 0..(m - 1) /\ Len(w[k]) \in Nat
          BY <1>4, <3>1, <3>3
        <4>2. Len(w[k]) <= Len(w[m - 1]) /\ \A j \in 1..Len(w[k]) : w[m - 1][j] = w[k][j]
          BY <2>1, <4>1
        <4>3. /\ Len(w[m]) = Len(w[m - 1]) + Len(AppendByte(o[m])) /\ Len(AppendByte(o[m])) \in Nat
              /\ \A j \in 1..Len(w[m - 1]) : w[m][j] = w[m - 1][j]
          BY <1>5
        <4>4. Len(w[k]) <= Len(w[m])
          <5> DEFINE x == Len(w[k])
                     y == Len(w[m - 1])
                     z == Len(w[m])
                     v == Len(AppendByte(o[m]))
          <5>1. x \in Nat /\ y \in Nat /\ v \in Nat /\ x <= y /\ z = y + v
            BY <3>1, <4>1, <4>2, <4>3
          <5> HIDE DEF x, y, z, v
          <5>2. x <= z
            BY <5>1
          <5> QED
            BY <5>2 DEF x, z
        <4>5. ASSUME NEW j \in 1..Len(w[k]) PROVE w[m][j] = w[k][j]
          <5>1. j \in 1..Len(w[m - 1])
            BY <3>1, <4>1, <4>2
          <5> QED
            BY <4>2, <4>3, <5>1
        <4> QED
          BY <4>4, <4>5
      <3> QED
        BY <3>2, <3>3
    <2>3. Same(m)
      BY <2>2
    <2>4. m \in 0..n
      BY <1>5
    <2> HIDE DEF Same
    <2> QED
      BY <2>3, <2>4
  <1>8. \A m \in 0..n : Same(m)
    <2> HIDE DEF Same
    <2> DEFINE U == T
    <2>1. 0 \in U /\ \A k \in 1..n : k - 1 \in U => k \in U
      BY <1>6, <1>7
    <2> HIDE DEF U
    <2>2. \A m \in 0..n : m \in U
      BY <1>1, <2>1, UpTo
    <2> QED
      BY <2>2 DEF U
  <1>9. n \in 0..n /\ 0 \in 0..n /\ w[n] \in Bytes /\ Len(w[n]) \in Nat
    BY <1>1, <1>4
  <1>10. \A k \in 0..n : Len(w[k]) <= Len(w[n]) /\ \A j \in 1..Len(w[k]) : w[n][j] = w[k][j]
    BY <1>8, <1>9
  <1> HIDE DEF Same, T
  <1>11. /\ text \in Bytes /\ Len(text) = Len(w[n]) + 1 /\ text[Len(w[n]) + 1] = Quote
         /\ \A j \in 1..Len(w[n]) : text[j] = w[n][j]
    <2>1. Quote \in Byte
      BY DEF Quote, Byte
    <2> DEFINE a == w[n]
    <2>2. a \in Seq(Byte)
      BY <1>9 DEF Bytes
    <2> HIDE DEF a
    <2>3. /\ Append(a, Quote) \in Seq(Byte) /\ Len(Append(a, Quote)) = Len(a) + 1
          /\ Append(a, Quote)[Len(a) + 1] = Quote
          /\ \A j \in 1..Len(a) : Append(a, Quote)[j] = a[j]
      BY <2>1, <2>2, AppendProperties
    <2> QED
      BY <1>3, <2>3 DEF a, Bytes
  <1>12. text[1] = Quote
    <2>1. 1 \in 1..Len(w[0]) /\ w[0][1] = Quote /\ Len(w[0]) <= Len(w[n]) /\ w[n][1] = w[0][1]
      <3>1. Len(w[0]) = 1 /\ w[0][1] = Quote
        BY <1>1
      <3> QED
        BY <1>9, <1>10, <3>1
    <2>2. 1 \in 1..Len(w[n])
      BY <1>4, <1>9, <2>1
    <2> QED
      BY <1>11, <2>1, <2>2
  <1>13. ASSUME NEW k \in 1..n, NEW j \in 1..6, j <= Len(AppendByte(o[k]))
         PROVE  Len(w[k - 1]) + j <= Len(text) /\ text[Len(w[k - 1]) + j] = AppendByte(o[k])[j]
    <2> DEFINE x == Len(w[k - 1])
               y == Len(AppendByte(o[k]))
               z == Len(w[n])
               v == Len(w[k])
    <2>1. k - 1 \in 0..n /\ k \in 0..n /\ v = x + y /\ y \in Nat
      BY <1>5
    <2>2. x \in Nat /\ z \in Nat /\ v <= z /\ v \in Nat
      BY <1>4, <1>9, <1>10, <2>1
    <2>3. j \in 1..y /\ x + j \in 1..v /\ x + j \in 1..z
      <3>1. j <= y /\ j \in Int /\ 1 <= j
        BY <1>13
      <3> HIDE DEF x, y, z, v
      <3> QED
        BY <2>1, <2>2, <3>1
    <2>4. w[k][x + j] = AppendByte(o[k])[j]
      BY <1>5, <2>3
    <2>5. w[n][x + j] = w[k][x + j]
      BY <1>10, <2>1, <2>3
    <2>6. text[x + j] = w[n][x + j]
      BY <1>11, <2>3
    <2>7. x + j <= Len(text)
      <3>1. Len(text) = z + 1
        BY <1>11
      <3> HIDE DEF x, z
      <3> QED
        BY <2>2, <2>3, <3>1
    <2> QED
      BY <2>4, <2>5, <2>6, <2>7
  <1> QED
    BY <1>11, <1>12, <1>13 DEF w, n, text

\* The text has a at i; no byte is written as more than six.
IsThere(text, i, a) ==
    \A j \in 1..6 : j <= Len(a) => (i - 1) + j <= Len(text) /\ text[(i - 1) + j] = a[j]

\* The scanner at the first byte of what was written for an ASCII byte b.
LEMMA AsciiReadBack ==
  ASSUME NEW text \in Bytes, NEW s \in ScanState, s.err = "none", NEW b \in Byte, b <= 127,
         IsThere(text, s.pos, AppendByte(b))
  PROVE  /\ Has(text, s.pos, 1) /\ text[s.pos] # Quote
         /\ ScanStep(s, text) = Scanning(s.pos + Len(AppendByte(b)), s.out \o <<b>>)
  <1> DEFINE p == s.pos
             a == AppendByte(b)
  <1>0. /\ p \in Nat \ {0} /\ s.out \in Bytes /\ b \in Nat /\ Append(s.out, b) = s.out \o <<b>>
        /\ Len(text) \in Nat
    BY BytesAppended, BytesOf DEF ScanState, Byte
  <1>1. ASSUME NEW j \in 0..5, j + 1 <= Len(a) PROVE p + j <= Len(text) /\ text[p + j] = a[j + 1]
    <2>1. j + 1 \in 1..6 /\ (p - 1) + (j + 1) = p + j
      BY <1>0
    <2>2. (p - 1) + (j + 1) <= Len(text) /\ text[(p - 1) + (j + 1)] = a[j + 1]
      BY <1>1, <2>1 DEF IsThere
    <2> QED
      BY <2>1, <2>2
  <1>2. CASE ShortEscape(b) # 0
    <2> DEFINE e == ShortEscape(b)
               t == [s EXCEPT !.pos = @ + 1]
    <2>1. a = <<Backslash, e>>
      BY <1>2 DEF AppendByte
    <2>2. EscapeOf(e) = b /\ e # 117
      BY <1>2, Escapes
    <2> HIDE DEF e
    <2>3. Len(a) = 2 /\ a[1] = Backslash /\ a[2] = e
      BY <2>1
    <2> HIDE DEF a
    <2>4. p + 0 = p /\ 0 \in 0..5 /\ 1 \in 0..5 /\ 0 + 1 <= Len(a) /\ 1 + 1 <= Len(a) /\ 0 + 1 = 1 /\ 1 + 1 = 2
      BY <1>0, <2>3
    <2>5. p <= Len(text) /\ text[p] = Backslash /\ p + 1 <= Len(text) /\ text[p + 1] = e
      BY <1>1, <2>3, <2>4
    <2>6. Has(text, p, 1) /\ Has(text, p + 1, 1)
      BY <1>0, <2>5 DEF Has
    <2>7. t.pos = p + 1 /\ t.out = s.out
      BY DEF ScanState
    <2>8. ScanStep(s, text) = AppendEscape(t, text)
      <3>1. ~(Backslash < 32) /\ ~(Backslash > 127)
        BY DEF Backslash
      <3> QED
        BY <2>5, <2>6, <3>1 DEF ScanStep
    <2> HIDE DEF t
    <2>9. AppendEscape(t, text) = Scanning(t.pos + 1, Append(t.out, b))
      <3>1. EscapeOf(e) # -1
        BY <1>0, <2>2
      <3> QED
        BY <2>2, <2>5, <2>6, <2>7, <3>1 DEF AppendEscape
    <2>10. (p + 1) + 1 = p + Len(a)
      BY <1>0, <2>3
    <2>11. ScanStep(s, text) = Scanning(p + Len(a), s.out \o <<b>>)
      BY <1>0, <2>7, <2>8, <2>9, <2>10
    <2>12. text[p] # Quote
      BY <2>5 DEF Quote, Backslash
    <2> QED
      BY <2>6, <2>11, <2>12 DEF a
  <1>3. CASE ShortEscape(b) = 0 /\ b < 32
    <2> DEFINE x == HexDigit(b \div 16)
               y == HexDigit(b % 16)
               t == [s EXCEPT !.pos = @ + 1]
               v == [t EXCEPT !.pos = @ + 1]
    <2>1. a = <<Backslash, 117, 48, 48, x, y>>
      BY <1>3 DEF AppendByte
    <2>2. /\ x \in Nat /\ HexValue(x) \in 0..1 /\ y \in Nat /\ HexValue(y) \in 0..15
          /\ 16 * HexValue(x) + HexValue(y) = b
      <3> DEFINE d == b \div 16
                 f == b % 16
      <3>1. d \in 0..1 /\ f \in 0..15 /\ b = 16 * d + f
        BY <1>0, <1>3
      <3> HIDE DEF d, f
      <3>2. HexDigit(d) = 48 + d /\ HexValue(48 + d) = d
        BY <3>1, SMT DEF HexDigit, HexValue, IsDigit
      <3>3. CASE f < 10
        <4>1. HexDigit(f) = 48 + f /\ HexValue(48 + f) = f
          BY <3>1, <3>3, SMT DEF HexDigit, HexValue, IsDigit
        <4> QED
          BY <3>1, <3>2, <4>1 DEF d, f
      <3>4. CASE ~(f < 10)
        <4>1. HexDigit(f) = 87 + f /\ HexValue(87 + f) = f
          BY <3>1, <3>4, SMT DEF HexDigit, HexValue, IsDigit
        <4> QED
          BY <3>1, <3>2, <4>1 DEF d, f
      <3> QED
        BY <3>3, <3>4
    <2> HIDE DEF x, y
    <2>3. Len(a) = 6 /\ a[1] = Backslash /\ a[2] = 117 /\ a[3] = 48 /\ a[4] = 48 /\ a[5] = x /\ a[6] = y
      BY <2>1
    <2> HIDE DEF a
    <2>4. /\ p <= Len(text) /\ text[p] = Backslash
          /\ p + 1 <= Len(text) /\ text[p + 1] = 117
          /\ text[p + 2] = 48 /\ text[p + 3] = 48
          /\ text[p + 4] = x /\ text[p + 5] = y /\ p + 5 <= Len(text)
      <3>1. \A j \in 0..5 : j + 1 <= Len(a)
        BY <2>3
      <3>2. \A j \in 0..5 : p + j <= Len(text) /\ text[p + j] = a[j + 1]
        BY <1>1, <3>1
      <3>3. p + 0 = p
        BY <1>0
      <3>4. /\ p + 0 <= Len(text) /\ text[p + 0] = a[1] /\ p + 1 <= Len(text) /\ text[p + 1] = a[2]
            /\ text[p + 2] = a[3] /\ text[p + 3] = a[4] /\ text[p + 4] = a[5] /\ text[p + 5] = a[6]
            /\ p + 5 <= Len(text)
        BY <3>2
      <3> QED
        BY <2>3, <3>3, <3>4
    <2>15. p <= Len(text) /\ p + 1 <= Len(text) /\ p + 5 <= Len(text) /\ p \in Nat /\ Len(text) \in Nat
      BY <1>0, <2>4, Zenon
    <2>5. Has(text, p, 1) /\ Has(text, p + 1, 1)
      BY <2>15 DEF Has
    <2>6. t.pos = p + 1 /\ t.out = s.out /\ v.pos = p + 2 /\ v.out = s.out
      <3>1. t.pos = p + 1 /\ t.out = s.out /\ v.pos = (p + 1) + 1 /\ v.out = s.out
        BY DEF ScanState
      <3> QED
        BY <1>0, <3>1
    <2>7. ScanStep(s, text) = AppendEscape(t, text)
      <3>1. ~(Backslash < 32) /\ ~(Backslash > 127)
        BY DEF Backslash
      <3> QED
        BY <2>4, <2>5, <3>1 DEF ScanStep
    <2>8. AppendEscape(t, text) = AppendCodePoint(v, text)
      <3>1. EscapeOf(117) = -1
        BY SMT DEF EscapeOf, Quote, Backslash
      <3> HIDE DEF t
      <3> QED
        BY <2>4, <2>5, <2>6, <3>1 DEF AppendEscape
    <2>9. ReadHex4(text, p + 2) = b
      <3> DEFINE q == p + 2
      <3>1. /\ q + 0 = p + 2 /\ q + 1 = p + 3 /\ q + 2 = p + 4 /\ q + 3 = p + 5
            /\ q + (4 - 1) <= Len(text) /\ q \in Nat
        BY <2>15
      <3>2. text[q + 0] = 48 /\ text[q + 1] = 48 /\ text[q + 2] = x /\ text[q + 3] = y
        BY <2>4, <3>1
      <3>3. HexValue(48) = 0
        BY SMT DEF HexValue, IsDigit
      <3> HIDE DEF q
      <3>4. /\ HexValue(text[q + 0]) = 0 /\ HexValue(text[q + 1]) = 0
            /\ HexValue(text[q + 2]) = HexValue(x) /\ HexValue(text[q + 3]) = HexValue(y)
        BY <3>2, <3>3
      <3>5. Has(text, q, 4)
        BY <3>1 DEF Has
      <3>6. \A k \in 0..3 : HexValue(text[q + k]) # -1
        <4>1. HexValue(x) # -1 /\ HexValue(y) # -1 /\ 0 # -1
          BY <2>2
        <4> QED
          BY <3>4, <4>1
      <3>7. ReadHex4(text, q) = 4096 * HexValue(text[q + 0]) + 256 * HexValue(text[q + 1])
                                  + 16 * HexValue(text[q + 2]) + HexValue(text[q + 3])
        BY <3>5, <3>6 DEF ReadHex4
      <3>8. ReadHex4(text, q) = 4096 * 0 + 256 * 0 + 16 * HexValue(x) + HexValue(y)
        BY <3>4, <3>7
      <3>9. ReadHex4(text, q) = b
        BY <2>2, <3>8
      <3> QED
        BY <3>9 DEF q
    <2>10. AppendCodePoint(v, text) = Scanning(v.pos + 4, v.out \o Utf8(b))
      <3>1. b # -1 /\ ~IsLow(b) /\ ~IsHigh(b)
        BY <1>0, <1>3, SMT DEF IsLow, IsHigh
      <3> HIDE DEF v
      <3> QED
        BY <2>6, <2>9, <3>1, SMT DEF AppendCodePoint
    <2>11. Utf8(b) = <<b>>
      BY <1>0, <1>3, SMTT(30) DEF Utf8
    <2>12. (p + 2) + 4 = p + Len(a)
      BY <1>0, <2>3
    <2> HIDE DEF t, v
    <2>13. ScanStep(s, text) = Scanning(p + Len(a), s.out \o <<b>>)
      BY <2>6, <2>7, <2>8, <2>10, <2>11, <2>12
    <2>14. text[p] # Quote
      BY <2>4 DEF Quote, Backslash
    <2> QED
      BY <2>5, <2>13, <2>14 DEF a
  <1>4. CASE ShortEscape(b) = 0 /\ ~(b < 32)
    <2>1. a = <<b>>
      BY <1>4 DEF AppendByte
    <2>2. Len(a) = 1 /\ a[1] = b
      BY <2>1
    <2> HIDE DEF a
    <2>3. p <= Len(text) /\ text[p] = b
      <3>1. p + 0 = p /\ 0 + 1 = 1 /\ 0 \in 0..5 /\ 0 + 1 <= Len(a)
        BY <1>0, <2>2
      <3> QED
        BY <1>1, <2>2, <3>1
    <2>4. b # Quote /\ b # Backslash /\ ~(b > 127) /\ b \in 32..127
      <3>1. b # Quote /\ b # Backslash
        BY <1>4, SMT DEF ShortEscape, Quote, Backslash
      <3> QED
        BY <1>0, <1>4, <3>1
    <2>5. Has(text, p, 1)
      BY <1>0, <2>3 DEF Has
    <2>6. ScanStep(s, text) = Scanning(p + 1, Append(s.out, b))
      BY <1>4, <2>3, <2>4, <2>5 DEF ScanStep
    <2> QED
      BY <1>0, <2>2, <2>3, <2>4, <2>5, <2>6 DEF a
  <1> QED
    BY <1>2, <1>3, <1>4

\* The scanner at the first byte of what was written for a unit reads that unit.
LEMMA UnitReadBack ==
  ASSUME NEW o \in Bytes, NEW c \in 0..Len(o), c < Len(o), NEW n \in 1..4, IsUnit(o, c + 1, n)
  PROVE  LET text == AppendString(o)
             w == Written(o)
             s == Scanning(Len(w[c]) + 1, SubSeq(o, 1, c))
         IN  /\ s \in ScanState /\ ~(Has(text, s.pos, 1) /\ text[s.pos] = Quote)
             /\ ScanStep(s, text) = Scanning(Len(w[c + n]) + 1, SubSeq(o, 1, c + n))
  <1> DEFINE text == AppendString(o)
             w == Written(o)
             s == Scanning(Len(w[c]) + 1, SubSeq(o, 1, c))
             N == Len(o)
  <1>1. N \in Nat /\ c \in Nat /\ c + 1 \in 1..N /\ (c + 1) - 1 = c /\ (c + n) \in 0..N /\ c + n <= N
    <2>1. N \in Nat /\ ((c + 1) + n) - 1 <= N
      BY BytesOf DEF IsUnit
    <2> HIDE DEF N
    <2>2. c < N /\ c \in 0..N
      BY DEF N
    <2> QED
      BY <2>1, <2>2
  <1>2. /\ text \in Bytes
        /\ \A k \in 1..N, j \in 1..6 :
              j <= Len(AppendByte(o[k])) =>
                 Len(w[k - 1]) + j <= Len(text) /\ text[Len(w[k - 1]) + j] = AppendByte(o[k])[j]
    BY TextOf
  <1>3. /\ \A k \in 0..N : Len(w[k]) \in Nat
        /\ \A k \in 1..N : Len(w[k]) = Len(w[k - 1]) + Len(AppendByte(o[k]))
    BY WrittenLengths
  <1>4. SubSeq(o, 1, c) \in Bytes /\ Len(SubSeq(o, 1, c)) = c
    <2>1. 1 \in 1..(Len(o) + 1) /\ c \in (1 - 1)..Len(o) /\ (c - 1) + 1 = c
      BY <1>1
    <2> QED
      BY <2>1, BytesPart
  <1> HIDE DEF text, w, N
  <1>5. s \in ScanState /\ s.pos = Len(w[c]) + 1 /\ s.err = "none" /\ s.out = SubSeq(o, 1, c)
    <2>1. Len(w[c]) \in Nat
      BY <1>3 DEF N
    <2> QED
      BY <1>4, <2>1 DEF Scanning, ScanState
  <1>6. Len(w[c]) \in Nat /\ (s.pos - 1) = Len(w[c])
    <2>1. Len(w[c]) \in Nat
      BY <1>3 DEF N
    <2> DEFINE x == Len(w[c])
    <2>2. s.pos = x + 1 /\ x \in Nat
      BY <1>5, <2>1
    <2> HIDE DEF s, x
    <2>3. (s.pos - 1) = x
      BY <2>2
    <2> QED
      BY <2>1, <2>3 DEF x
  <1> HIDE DEF s
  <1>7. CASE n = 1 /\ o[c + 1] <= 127
    <2> DEFINE b == o[c + 1]
    <2>1. b \in Byte
      BY <1>1, BytesOf DEF N
    <2>2. IsThere(text, s.pos, AppendByte(b))
      <3> SUFFICES ASSUME NEW j \in 1..6, j <= Len(AppendByte(b))
                   PROVE  (s.pos - 1) + j <= Len(text) /\ text[(s.pos - 1) + j] = AppendByte(b)[j]
        BY DEF IsThere
      <3>1. c + 1 \in 1..N /\ (c + 1) - 1 = c
        BY <1>1
      <3>2. /\ Len(w[(c + 1) - 1]) + j <= Len(text)
            /\ text[Len(w[(c + 1) - 1]) + j] = AppendByte(o[c + 1])[j]
        BY <1>2, <3>1
      <3>3. Len(w[(c + 1) - 1]) = s.pos - 1
        BY <1>6, <3>1
      <3> QED
        BY <3>2, <3>3
    <2>3. /\ Has(text, s.pos, 1) /\ text[s.pos] # Quote
          /\ ScanStep(s, text) = Scanning(s.pos + Len(AppendByte(b)), s.out \o <<b>>)
      BY <1>2, <1>5, <1>7, <2>1, <2>2, AsciiReadBack
    <2>4. s.pos + Len(AppendByte(b)) = Len(w[c + n]) + 1
      <3> DEFINE y == Len(AppendByte(b))
                 z == Len(w[c + n])
                 x == Len(w[c])
      <3>1. z = x + y
        BY <1>1, <1>3, <1>7
      <3>2. y \in Nat
        <4>1. AppendByte(b) \in Bytes
          BY <2>1, ByteWritten
        <4> QED
          BY <4>1, BytesOf
      <3>3. x \in Nat /\ s.pos = x + 1
        BY <1>5, <1>6
      <3> HIDE DEF x, y, z
      <3>4. s.pos + y = z + 1
        BY <3>1, <3>2, <3>3
      <3> QED
        BY <3>4 DEF y, z
    <2>5. s.out \o <<b>> = SubSeq(o, 1, c + n)
      <3>1. 1 \in 1..Len(o) /\ c + 1 \in 1..Len(o) /\ o \in Seq(Byte)
        BY <1>1 DEF N, Bytes
      <3>2. SubSeq(o, 1, c + 1) = SubSeq(o, 1, (c + 1) - 1) \o <<o[c + 1]>>
        BY <3>1, SubSeqRecursiveSecond
      <3> QED
        BY <1>1, <1>5, <1>7, <3>2
    <2> QED
      BY <1>5, <2>3, <2>4, <2>5 DEF s, text, w
  <1>8. CASE ~(n = 1 /\ o[c + 1] <= 127)
    <2>1. Utf8Length(o, c + 1) = n /\ n \in 2..4 /\ \A k \in 0..(n - 1) : o[(c + 1) + k] > 127
      BY <1>1, <1>8, UnitBytes DEF N
    <2>2. \A i \in 1..n : o[c + i] > 127
      <3> SUFFICES ASSUME NEW i \in 1..n PROVE o[c + i] > 127
        OBVIOUS
      <3>1. i - 1 \in 0..(n - 1) /\ (c + 1) + (i - 1) = c + i
        BY <1>1
      <3>2. o[(c + 1) + (i - 1)] > 127
        BY <2>1, <3>1
      <3> QED
        BY <3>1, <3>2
    <2>3. \A k \in 0..n : Len(w[c + k]) = Len(w[c]) + k
      <3>1. c + n <= Len(o) /\ n \in Nat
        BY <1>1 DEF N
      <3> QED
        BY <2>2, <3>1, HighWritten DEF w
    <2>4. ASSUME NEW k \in 0..(n - 1)
          PROVE  /\ s.pos + k <= Len(text) /\ text[s.pos + k] = o[(c + 1) + k]
                 /\ (c + 1) + k \in 1..N
      <3> DEFINE i == (c + 1) + k
      <3>1. i \in 1..N /\ i - 1 = c + k /\ k \in 0..n /\ k + 1 \in 1..n /\ c + (k + 1) = i
        BY <1>1
      <3>2. o[i] \in Byte /\ o[i] > 127
        <4>1. o[i] > 127
          BY <2>2, <3>1
        <4> QED
          BY <3>1, <4>1, BytesOf DEF N
      <3>3. AppendByte(o[i]) = <<o[i]>>
        BY <3>2, ByteWritten
      <3>4. Len(AppendByte(o[i])) = 1 /\ AppendByte(o[i])[1] = o[i]
        BY <3>3
      <3>5. Len(w[i - 1]) + 1 <= Len(text) /\ text[Len(w[i - 1]) + 1] = AppendByte(o[i])[1]
        <4>1. 1 \in 1..6 /\ 1 <= Len(AppendByte(o[i]))
          BY <3>4
        <4> HIDE DEF i
        <4> QED
          BY <1>2, <3>1, <4>1
      <3>6. Len(w[i - 1]) + 1 = s.pos + k
        <4>1. Len(w[i - 1]) = Len(w[c]) + k
          BY <2>3, <3>1
        <4>2. Len(w[c]) \in Nat /\ s.pos = Len(w[c]) + 1 /\ k \in Nat
          BY <1>5, <1>6
        <4> DEFINE x == Len(w[c])
                   z == Len(w[i - 1])
        <4>3. z = x + k /\ x \in Nat /\ s.pos = x + 1
          BY <4>1, <4>2
        <4> HIDE DEF x, z
        <4>4. z + 1 = s.pos + k
          BY <4>2, <4>3
        <4> QED
          BY <4>4 DEF z
      <3> QED
        BY <3>1, <3>4, <3>5, <3>6
    <2>5. s.pos \in Nat \ {0} /\ s.pos \in 1..Len(text) /\ Len(text) \in Nat /\ (s.pos + n) - 1 <= Len(text)
      <3>1. s.pos \in Nat \ {0} /\ Len(text) \in Nat
        BY <1>2, <1>5, BytesOf DEF ScanState
      <3>2. 0 \in 0..(n - 1) /\ n - 1 \in 0..(n - 1)
        OBVIOUS
      <3>3. s.pos + 0 <= Len(text) /\ s.pos + (n - 1) <= Len(text)
        BY <2>4, <3>2
      <3> QED
        BY <3>1, <3>3
    <2>6. Utf8Length(text, s.pos) = n
      <3>1. Utf8Length(o, c + 1) # 0
        BY <2>1
      <3>2. c + 1 \in 1..Len(o)
        BY <1>1 DEF N
      <3>3. \A k \in 0..(n - 1) : text[s.pos + k] = o[(c + 1) + k]
        BY <2>4
      <3> QED
        BY <1>2, <2>1, <2>5, <3>1, <3>2, <3>3, Utf8LengthLocal, Zenon
    <2>7. text[s.pos] > 127 /\ text[s.pos] \in Nat
      <3>1. 0 \in 0..(n - 1) /\ s.pos + 0 = s.pos /\ (c + 1) + 0 = c + 1
        BY <1>1, <2>5
      <3>2. text[s.pos] = o[c + 1] /\ o[c + 1] > 127
        BY <2>1, <2>4, <3>1
      <3>3. o[c + 1] \in Nat
        BY <1>1, BytesOf DEF N
      <3> QED
        BY <3>2, <3>3
    <2>8. Has(text, s.pos, 1)
      BY <2>5 DEF Has
    <2>9. /\ text[s.pos] # Quote /\ text[s.pos] # Backslash /\ ~(text[s.pos] < 32)
          /\ ~(text[s.pos] \in 32..127)
      <3> DEFINE x == text[s.pos]
      <3>1. x > 127 /\ x \in Nat
        BY <2>7
      <3> HIDE DEF x
      <3>2. x # Quote /\ x # Backslash /\ ~(x < 32) /\ ~(x \in 32..127)
        BY <3>1 DEF Quote, Backslash
      <3> QED
        BY <3>2 DEF x
    <2>10. ScanStep(s, text) = Scanning(s.pos + n, s.out \o Slice(text, s.pos, n))
      <3>1. n # 0
        OBVIOUS
      <3> QED
        BY <2>6, <2>7, <2>8, <2>9, <3>1 DEF ScanStep
    <2>11. Slice(text, s.pos, n) = SubSeq(o, c + 1, c + n)
      <3> DEFINE q == s.pos
                 e == SubSeq(text, q, q + (n - 1))
                 f == SubSeq(o, c + 1, c + n)
      <3>1. /\ q \in 1..(Len(text) + 1) /\ q + (n - 1) \in (q - 1)..Len(text) /\ ((q + (n - 1)) - q) + 1 = n
            /\ c + 1 \in 1..(Len(o) + 1) /\ c + n \in ((c + 1) - 1)..Len(o)
            /\ ((c + n) - (c + 1)) + 1 = n
        BY <1>1, <2>5, SMTT(30) DEF N
      <3>2. e \in Bytes /\ Len(e) = n /\ \A i \in 1..n : e[i] = text[(q + i) - 1]
        <4> DEFINE r == q + (n - 1)
        <4>1. q \in 1..(Len(text) + 1) /\ r \in (q - 1)..Len(text) /\ (r - q) + 1 = n /\ text \in Bytes
          BY <1>2, <3>1
        <4> HIDE DEF q, r
        <4>2. LET z == SubSeq(text, q, r)
              IN  z \in Bytes /\ Len(z) = n /\ \A i \in 1..n : z[i] = text[(q + i) - 1]
          BY <4>1, BytesPart
        <4> QED
          BY <4>2 DEF r
      <3>3. f \in Bytes /\ Len(f) = n /\ \A i \in 1..n : f[i] = o[((c + 1) + i) - 1]
        BY <3>1, BytesPart, SMTT(30)
      <3> HIDE DEF e, f
      <3>4. ASSUME NEW i \in 1..n PROVE e[i] = f[i]
        <4>1. i - 1 \in 0..(n - 1) /\ (q + i) - 1 = q + (i - 1) /\ ((c + 1) + i) - 1 = (c + 1) + (i - 1)
          BY <1>1, <2>5
        <4> QED
          BY <2>4, <3>2, <3>3, <4>1
      <3>5. e = f
        BY <3>2, <3>3, <3>4, SeqEqual DEF Bytes
      <3> QED
        BY <3>5, Zenon DEF e, f, Slice
    <2>12. s.out \o SubSeq(o, c + 1, c + n) = SubSeq(o, 1, c + n)
      <3>1. 1 \in 1..(Len(o) + 1) /\ c \in (1 - 1)..Len(o) /\ c + n \in c..Len(o) /\ o \in Seq(Byte)
        BY <1>1 DEF N, Bytes
      <3> QED
        BY <1>5, <3>1, ConcatAdjacentSubSeq
    <2>13. s.pos + n = Len(w[c + n]) + 1
      <3>1. n \in 0..n /\ n \in Nat
        OBVIOUS
      <3>2. Len(w[c + n]) = Len(w[c]) + n
        BY <2>3, <3>1
      <3> QED
        BY <1>5, <1>6, <3>1, <3>2
    <2> QED
      BY <1>5, <2>9, <2>10, <2>11, <2>12, <2>13 DEF s, text, w
  <1> QED
    BY <1>7, <1>8

\* scan_string reads well formed bytes back from what append_string writes for them.
LEMMA ReadBack ==
  ASSUME NEW o \in Bytes, WellFormed(o)
  PROVE  ScanString(AppendString(o)) = Scanning(Len(AppendString(o)) + 1, o)
  <1> DEFINE text == AppendString(o)
             w == Written(o)
             N == Len(o)
             M == Len(text)
             turn == ScanTurns(text)
             At(c) == Scanning(Len(w[c]) + 1, SubSeq(o, 1, c))
  <1>1. PICK C \in SUBSET (0..N) : CutAtUnits(o, C)
    BY DEF WellFormed
  <1>2. /\ C \subseteq 0..N /\ 0 \in C /\ N \in C
        /\ \A c \in C : c < N => \E n \in 1..4 : c + n \in C /\ IsUnit(o, c + 1, n)
    BY <1>1 DEF CutAtUnits
  <1>3. text \in Bytes /\ M = Len(w[N]) + 1 /\ text[Len(w[N]) + 1] = Quote /\ text[1] = Quote
    BY TextOf
  <1>4. N \in Nat /\ M \in Nat /\ Len(w[N]) \in Nat /\ N < Len(w[N])
    <2>1. N \in Nat /\ M \in Nat
      BY <1>3, BytesOf
    <2>2. N \in 0..N
      BY <2>1
    <2> QED
      BY <2>1, <2>2, WrittenLengths
  <1>5. /\ turn[0] = Scanning(2, << >>)
        /\ \A k \in 1..M : turn[k] = IF turn[k - 1].err # "none" THEN turn[k - 1]
                              ELSE IF Has(text, turn[k - 1].pos, 1) /\ text[turn[k - 1].pos] = Quote
                              THEN turn[k - 1] ELSE ScanStep(turn[k - 1], text)
    BY <1>3, ScanTurnsExist
  <1>6. \A c \in C : c < N => \E n \in 1..4 :
            /\ c + n \in C /\ ScanStep(At(c), text) = At(c + n)
            /\ ~(Has(text, At(c).pos, 1) /\ text[At(c).pos] = Quote)
    <2> SUFFICES ASSUME NEW c \in C, c < N
                 PROVE  \E n \in 1..4 : /\ c + n \in C /\ ScanStep(At(c), text) = At(c + n)
                                        /\ ~(Has(text, At(c).pos, 1) /\ text[At(c).pos] = Quote)
      OBVIOUS
    <2>1. PICK n \in 1..4 : c + n \in C /\ IsUnit(o, c + 1, n)
      BY <1>2
    <2>2. c \in 0..Len(o)
      BY <1>2
    <2> QED
      BY <2>1, <2>2, UnitReadBack
  <1>7. \A c : At(c).err = "none" /\ At(c).pos = Len(w[c]) + 1 /\ At(c).out = SubSeq(o, 1, c)
    BY DEF Scanning
  <1>8. Has(text, At(N).pos, 1) /\ text[At(N).pos] = Quote
    <2>1. At(N).pos = Len(w[N]) + 1
      BY <1>7
    <2> HIDE DEF w, text
    <2>2. Has(text, Len(w[N]) + 1, 1)
      BY <1>3, <1>4 DEF Has
    <2> HIDE DEF At
    <2> QED
      BY <1>3, <2>1, <2>2
  <1>9. At(0) = Scanning(2, << >>)
    <2>1. w[0] = <<Quote>> /\ SubSeq(o, 1, 0) = << >>
      <3>1. o \in Seq(Byte) /\ Len(SubSeq(o, 1, 0)) = 0 /\ SubSeq(o, 1, 0) \in Seq(Byte)
        BY DEF Bytes
      <3>2. SubSeq(o, 1, 0) = << >>
        BY <3>1, EmptySeq
      <3> QED
        BY <3>2, WrittenExists
    <2>2. Len(w[0]) + 1 = 2
      BY <2>1
    <2> HIDE DEF w
    <2>3. At(0) = Scanning(Len(w[0]) + 1, SubSeq(o, 1, 0))
      OBVIOUS
    <2> HIDE DEF At
    <2> QED
      BY <2>1, <2>2, <2>3
  <1>10. SubSeq(o, 1, N) = o
    BY SubSeqFull DEF Bytes
  <1> HIDE DEF text, w, turn, N, M, At
  <1> DEFINE T == {k \in 0..M : \E c \in C : turn[k] = At(c) /\ (c = N \/ k <= c)}
  <1>11. 0 \in T
    <2>1. 0 \in 0..M /\ 0 <= 0
      BY <1>4
    <2> QED
      BY <1>2, <1>5, <1>9, <2>1
  <1>12. ASSUME NEW k \in 1..M, k - 1 \in T PROVE k \in T
    <2>1. PICK c \in C : turn[k - 1] = At(c) /\ (c = N \/ k - 1 <= c)
      BY <1>12
    <2>2. k \in 0..M /\ k \in Int /\ c \in Int
      BY <1>2, <1>4
    <2>3. CASE c = N
      <3>1. turn[k] = turn[k - 1]
        BY <1>5, <1>8, <2>1, <2>3
      <3> QED
        BY <1>2, <2>1, <2>2, <2>3, <3>1
    <2>4. CASE c # N
      <3>1. c < N /\ k - 1 <= c
        BY <1>2, <1>4, <2>1, <2>2, <2>4
      <3>2. PICK n \in 1..4 : /\ c + n \in C /\ ScanStep(At(c), text) = At(c + n)
                              /\ ~(Has(text, At(c).pos, 1) /\ text[At(c).pos] = Quote)
        BY <1>6, <3>1
      <3>3. turn[k] = At(c + n)
        BY <1>5, <1>7, <2>1, <3>2
      <3>4. k <= c + n
        BY <2>2, <3>1
      <3> QED
        BY <2>2, <3>2, <3>3, <3>4
    <2> QED
      BY <2>3, <2>4
  <1> HIDE DEF T
  <1>13. M \in T
    <2>1. \A k \in 0..M : k \in T
      BY <1>4, <1>11, <1>12, UpTo
    <2> QED
      BY <1>4, <2>1
  <1>14. turn[M] = At(N)
    <2>1. PICK c \in C : turn[M] = At(c) /\ (c = N \/ M <= c)
      BY <1>13 DEF T
    <2>2. ~(M <= c)
      <3> DEFINE x == Len(w[N])
      <3>1. c \in 0..N /\ M = x + 1 /\ N < x /\ x \in Nat
        BY <1>2, <1>3, <1>4
      <3> HIDE DEF x
      <3> QED
        BY <1>4, <3>1
    <2> QED
      BY <2>1, <2>2
  <1>15. ScanString(text) = [At(N) EXCEPT !.pos = @ + 1]
    <2>1. ScanString(text) = IF text = << >> \/ text[1] # Quote
                             THEN [Scanning(1, << >>) EXCEPT !.err = "WrongType"]
                             ELSE IF turn[M].err # "none" THEN turn[M] ELSE [turn[M] EXCEPT !.pos = @ + 1]
      BY DEF ScanString, turn, M
    <2>2. text # << >>
      <3>1. Len(text) # 0
        <4> DEFINE x == Len(w[N])
        <4>1. M = x + 1 /\ x \in Nat
          BY <1>3, <1>4
        <4> HIDE DEF x
        <4>2. M # 0
          BY <4>1
        <4> QED
          BY <4>2 DEF M
      <3> QED
        BY <3>1
    <2> QED
      BY <1>3, <1>7, <1>14, <2>1, <2>2
  <1>16. ScanString(text) = Scanning((Len(w[N]) + 1) + 1, o)
    BY <1>10, <1>15 DEF At, Scanning
  <1> QED
    BY <1>3, <1>16 DEF text, M

\* Both together: what was read off one text is written so that it is read back, in
\* no more bytes.
LEMMA StringReadBack ==
  ASSUME NEW t \in Bytes, ScanString(t).err = "none"
  PROVE  LET s == ScanString(t)
             text == AppendString(s.out)
         IN  ScanString(text) = Scanning(Len(text) + 1, s.out) /\ Len(text) <= s.pos - 1
  <1> DEFINE s == ScanString(t)
             text == AppendString(s.out)
             x == Len(Written(s.out)[Len(s.out)])
  <1>1. s.out \in Bytes /\ WellFormed(s.out) /\ s.pos \in Nat /\ x + 2 <= s.pos
    BY ScanReturns
  <1> HIDE DEF s
  <1>2. Len(text) = x + 1
    BY <1>1, TextOf
  <1>3. x \in Nat
    <2>1. Len(s.out) \in 0..Len(s.out)
      BY <1>1, BytesOf
    <2> QED
      BY <1>1, <2>1, WrittenLengths
  <1>4. ScanString(text) = Scanning(Len(text) + 1, s.out)
    BY <1>1, ReadBack
  <1> HIDE DEF x, text
  <1>5. Len(text) <= s.pos - 1
    BY <1>1, <1>2, <1>3
  <1> QED
    BY <1>4, <1>5 DEF s, text

-----------------------------------------------------------------------------
(* Numbers: where the parts of a text begin and end.                       *)

\* From i on, s is an integer that ends before a, a fraction or none that ends before b,
\* and an exponent or none, the parts as format_double writes them.
Layout(s, i, a, b) ==
    /\ s \in Bytes /\ i \in Nat \ {0} /\ a \in Nat /\ b \in Nat
    /\ i < a /\ a <= b /\ b <= Len(s) + 1
    /\ \A k \in i..(a - 1) : s[k] \in Digits
    /\ s[i] = Zero => a = i + 1
    /\ \/ b = a
       \/ /\ a + 2 <= b /\ s[a] = Dot
          /\ \A k \in (a + 1)..(b - 1) : s[k] \in Digits
    /\ \/ b = Len(s) + 1
       \/ /\ b + 2 <= Len(s) /\ s[b] = 101 /\ s[b + 1] \in {Plus, Minus}
          /\ \A k \in (b + 2)..Len(s) : s[k] \in Digits

\* The characters of a number that are no digits.
LEMMA NoDigits ==
  /\ Dot \notin Digits /\ Plus \notin Digits /\ Minus \notin Digits /\ 101 \notin Digits /\ 69 \notin Digits
  /\ Dot # 101 /\ Dot # 69 /\ Zero \in Digits
  /\ Minus # Dot /\ Minus # Plus
  /\ Digits \subseteq Byte /\ Dot \in Byte /\ Plus \in Byte /\ Minus \in Byte /\ 101 \in Byte
  BY DEF Dot, Plus, Minus, Zero, Digits, Byte

\* A run of digits that something else ends, or the end of the text.
LEMMA AfterDigitsIs ==
  ASSUME NEW text \in Bytes, NEW i \in Nat \ {0}, NEW j \in Nat, i <= j, j <= Len(text) + 1,
         \A k \in i..(j - 1) : text[k] \in Digits, ~IsAt(text, j, Digits)
  PROVE  AfterDigits(text, i) = j
  <1> DEFINE P(m) == (\A k \in i..(m - 1) : text[k] \in Digits) /\ ~IsAt(text, m, Digits)
             n == Len(text)
  <1>1. n \in Nat
    BY BytesOf
  <1>2. j \in i..(n + 1) /\ P(j)
    BY <1>1
  <1>3. ASSUME NEW m \in i..(n + 1), P(m) PROVE m = j
    <2>1. m \in Nat
      BY <1>1
    <2>2. CASE m < j
      <3>1. text[m] \in Digits
        BY <1>1, <2>1, <2>2
      <3>2. Has(text, m, 1)
        BY <1>1, <2>1, <2>2 DEF Has
      <3> QED
        BY <1>3, <3>1, <3>2 DEF IsAt
    <2>3. CASE j < m
      <3>1. text[j] \in Digits
        BY <1>1, <1>3, <2>1, <2>3
      <3>2. Has(text, j, 1)
        BY <1>1, <2>1, <2>3 DEF Has
      <3> QED
        BY <3>1, <3>2 DEF IsAt
    <2> QED
      BY <2>1, <2>2, <2>3
  <1>4. AfterDigits(text, i) = CHOOSE m \in i..(n + 1) : P(m)
    BY Zenon DEF AfterDigits
  <1> HIDE DEF P
  <1> QED
    BY <1>2, <1>3, <1>4

\* What is and what is not at the ends of the parts.
LEMMA LayoutEnds ==
  ASSUME NEW s, NEW i, NEW a, NEW b, Layout(s, i, a, b)
  PROVE  /\ ~IsAt(s, a, Digits) /\ ~IsAt(s, b, Digits) /\ ~IsAt(s, b, {Dot})
         /\ b # Len(s) + 1 => IsAt(s, b, {69, 101})
         /\ b # a => IsAt(s, a, {Dot})
         /\ Len(s) \in Nat /\ \A S : ~IsAt(s, Len(s) + 1, S)
  <1> DEFINE n == Len(s)
  <1>1. n \in Nat
    BY BytesOf DEF Layout
  <1>2. a \in Nat /\ b \in Nat /\ a <= b /\ b <= n + 1 /\ (b = a \/ a + 2 <= b)
    BY DEF Layout
  <1>3. \A j \in Nat : Has(s, j, 1) <=> j <= n
    BY <1>1 DEF Has
  <1>4. \A S : ~IsAt(s, n + 1, S)
    <2>1. ~Has(s, n + 1, 1)
      BY <1>1, <1>3
    <2> QED
      BY <2>1 DEF IsAt
  <1>5. ~IsAt(s, b, Digits) /\ ~IsAt(s, b, {Dot}) /\ (b # n + 1 => IsAt(s, b, {69, 101}))
    <2>1. CASE b = n + 1
      BY <1>4, <2>1
    <2>2. CASE b # n + 1
      <3>1. b <= n
        BY <1>1, <1>2, <2>2
      <3>2. s[b] = 101
        BY <2>2 DEF Layout
      <3>3. Has(s, b, 1)
        BY <1>2, <1>3, <3>1
      <3> QED
        BY <3>2, <3>3, NoDigits DEF IsAt
    <2> QED
      BY <2>1, <2>2
  <1>6. ~IsAt(s, a, Digits) /\ (b # a => IsAt(s, a, {Dot}))
    <2>1. CASE b = a
      BY <1>5, <2>1
    <2>2. CASE b # a
      <3>1. s[a] = Dot
        BY <2>2 DEF Layout
      <3>2. Has(s, a, 1)
        BY <1>1, <1>2, <1>3, <2>2
      <3> QED
        BY <3>1, <3>2, NoDigits DEF IsAt
    <2> QED
      BY <2>1, <2>2
  <1> QED
    BY <1>1, <1>4, <1>5, <1>6

\* scan_number takes all of such a text.
LEMMA LayoutScans ==
  ASSUME NEW text, NEW i, NEW a, NEW b, Layout(text, i, a, b),
         i = 1 \/ (i = 2 /\ text[1] = Minus)
  PROVE  ScanNumber(text) = Scanning(Len(text) + 1, Len(text) + 1 = a)
  <1> DEFINE n == Len(text)
  <1>1. /\ n \in Nat /\ a \in Nat /\ b \in Nat /\ i \in Nat \ {0} /\ i < a /\ a <= b /\ b <= n + 1
        /\ b = a \/ a + 2 <= b
        /\ b = n + 1 \/ b + 2 <= n
    BY LayoutEnds DEF Layout
  <1>2. \A j \in Nat : Has(text, j, 1) <=> j <= n
    BY <1>1 DEF Has
  <1>3. /\ ~IsAt(text, a, Digits) /\ ~IsAt(text, b, Digits) /\ ~IsAt(text, b, {Dot})
        /\ b # n + 1 => IsAt(text, b, {69, 101})
        /\ b # a => IsAt(text, a, {Dot})
        /\ \A S : ~IsAt(text, n + 1, S)
    BY LayoutEnds
  <1>4. text \in Bytes /\ (\A k \in i..(a - 1) : text[k] \in Digits) /\ (text[i] = Zero => a = i + 1)
    BY DEF Layout
  <1>5. IsAt(text, i, Digits)
    <2>1. i \in i..(a - 1) /\ i <= n
      BY <1>1
    <2> QED
      BY <1>1, <1>2, <1>4, <2>1 DEF IsAt
  <1>6. IsAt(text, 1, Digits \cup {Minus}) /\ (IF IsAt(text, 1, {Minus}) THEN 2 ELSE 1) = i
    <2>1. Has(text, 1, 1)
      BY <1>1, <1>2
    <2>2. CASE i = 1
      BY <1>5, <2>1, <2>2, NoDigits DEF IsAt
    <2>3. CASE i = 2 /\ text[1] = Minus
      BY <2>1, <2>3 DEF IsAt
    <2> QED
      BY <2>2, <2>3
  <1>7. AfterInteger(text, i) = a
    <2>1. CASE text[i] # Zero
      <3>1. i <= a /\ a <= Len(text) + 1
        BY <1>1
      <3>2. AfterDigits(text, i) = a
        BY <1>1, <1>3, <1>4, <3>1, AfterDigitsIs
      <3> QED
        BY <2>1, <3>2 DEF AfterInteger
    <2>2. CASE text[i] = Zero
      BY <1>3, <1>4, <2>2 DEF AfterInteger
    <2> QED
      BY <2>1, <2>2
  <1>8. AfterFraction(text, a) = b
    <2>1. CASE b = a
      BY <1>3, <2>1 DEF AfterFraction
    <2>2. CASE b # a
      <3>1. \A k \in (a + 1)..(b - 1) : text[k] \in Digits
        BY <2>2 DEF Layout
      <3>2. a + 1 \in Nat \ {0} /\ a + 1 <= b /\ b <= Len(text) + 1 /\ a + 1 \in (a + 1)..(b - 1) /\ a + 1 <= n
        BY <1>1, <2>2
      <3>3. AfterDigits(text, a + 1) = b
        BY <1>1, <1>3, <1>4, <3>1, <3>2, AfterDigitsIs
      <3>4. IsAt(text, a + 1, Digits)
        BY <1>2, <3>1, <3>2 DEF IsAt
      <3> QED
        BY <1>3, <2>2, <3>3, <3>4 DEF AfterFraction
    <2> QED
      BY <2>1, <2>2
  <1>9. AfterExponent(text, b) = n + 1
    <2>1. CASE b = n + 1
      BY <1>3, <2>1 DEF AfterExponent
    <2>2. CASE b # n + 1
      <3>1. (\A k \in (b + 2)..n : text[k] \in Digits) /\ text[b + 1] \in {Plus, Minus}
        BY <2>2 DEF Layout
      <3>2. /\ b + 2 \in Nat \ {0} /\ b + 2 <= n + 1 /\ n + 1 <= Len(text) + 1 /\ b + 2 <= n /\ b + 1 <= n
            /\ b + 2 \in (b + 2)..n /\ (n + 1) - 1 = n /\ n + 1 \in Nat /\ b + 1 \in Nat
        BY <1>1, <2>2
      <3>3. AfterDigits(text, b + 2) = n + 1
        <4>1. \A k \in (b + 2)..((n + 1) - 1) : text[k] \in Digits
          BY <3>1, <3>2
        <4>2. ~IsAt(text, n + 1, Digits)
          BY <1>3
        <4> HIDE DEF n
        <4>3. n + 1 <= Len(text) + 1
          BY <3>2
        <4> QED
          BY <1>4, <3>2, <4>1, <4>2, <4>3, AfterDigitsIs
      <3>4. IsAt(text, b + 2, Digits) /\ IsAt(text, b + 1, {Plus, Minus})
        BY <1>2, <3>1, <3>2 DEF IsAt
      <3> QED
        BY <1>3, <2>2, <3>3, <3>4 DEF AfterExponent
    <2> QED
      BY <2>1, <2>2
  <1>10. a # 0 /\ b # 0 /\ n + 1 # 0
    BY <1>1
  <1> HIDE DEF n
  <1>11. ScanNumber(text) = Scanning(n + 1, n + 1 = a)
    BY <1>5, <1>6, <1>7, <1>8, <1>9, <1>10 DEF ScanNumber
  <1> QED
    BY <1>11 DEF n

\* What the parts of a split say about the text they are parts of.
LEMMA AllDigitsIs ==
  ASSUME NEW s \in Bytes, NEW m \in Nat \ {0}, NEW n \in Nat, m <= n + 1, n <= Len(s)
  PROVE  /\ Len(SubSeq(s, m, n)) = (n - m) + 1
         /\ m <= n => SubSeq(s, m, n) # << >> /\ SubSeq(s, m, n)[1] = s[m]
         /\ n < m => SubSeq(s, m, n) = << >>
         /\ AllDigits(SubSeq(s, m, n)) <=> (m <= n /\ \A k \in m..n : s[k] \in Digits)
         /\ m <= n => Tail(SubSeq(s, m, n)) = SubSeq(s, m + 1, n)
  <1> DEFINE u == SubSeq(s, m, n)
             l == (n - m) + 1
  <1>1. Len(s) \in Nat /\ l \in Nat
    BY BytesOf
  <1>2. u \in Bytes /\ Len(u) = l /\ \A i \in 1..l : u[i] = s[(m + i) - 1]
    <2>1. m \in 1..(Len(s) + 1) /\ n \in (m - 1)..Len(s)
      BY <1>1
    <2> QED
      BY <2>1, BytesPart
  <1>3. DOMAIN u = 1..l
    BY <1>2 DEF Bytes
  <1>4. u # << >> <=> m <= n
    <2>1. u = << >> <=> Len(u) = 0
      BY <1>2, EmptySeq DEF Bytes
    <2> HIDE DEF u
    <2> QED
      BY <1>2, <2>1
  <1> HIDE DEF u
  <1>5. ASSUME m <= n PROVE u[1] = s[m]
    <2>1. 1 \in 1..l /\ (m + 1) - 1 = m
      BY <1>5
    <2> QED
      BY <1>2, <2>1
  <1>6. (\A i \in 1..l : u[i] \in Digits) <=> (\A k \in m..n : s[k] \in Digits)
    <2>1. ASSUME \A i \in 1..l : u[i] \in Digits, NEW k \in m..n PROVE s[k] \in Digits
      <3>1. (k - m) + 1 \in 1..l /\ (m + ((k - m) + 1)) - 1 = k
        OBVIOUS
      <3>2. u[(k - m) + 1] = s[k]
        BY <1>2, <3>1
      <3> QED
        BY <2>1, <3>1, <3>2
    <2>2. ASSUME \A k \in m..n : s[k] \in Digits, NEW i \in 1..l PROVE u[i] \in Digits
      <3>1. (m + i) - 1 \in m..n
        BY <1>1
      <3> QED
        BY <1>2, <2>2, <3>1
    <2> QED
      BY <2>1, <2>2
  <1>7. AllDigits(u) <=> (m <= n /\ \A k \in m..n : s[k] \in Digits)
    BY <1>3, <1>4, <1>6 DEF AllDigits
  <1>8. ASSUME m <= n PROVE Tail(u) = SubSeq(s, m + 1, n)
    <2> DEFINE t == Tail(u)
               v == SubSeq(s, m + 1, n)
    <2>1. v \in Bytes /\ Len(v) = n - m /\ \A i \in 1..(n - m) : v[i] = s[m + i]
      <3>1. /\ m + 1 \in 1..(Len(s) + 1) /\ n \in ((m + 1) - 1)..Len(s) /\ (n - (m + 1)) + 1 = n - m
            /\ \A i \in 1..(n - m) : ((m + 1) + i) - 1 = m + i
        BY <1>1, <1>8
      <3>2. v \in Bytes /\ Len(v) = n - m /\ \A i \in 1..(n - m) : v[i] = s[((m + 1) + i) - 1]
        BY <3>1, BytesPart
      <3> HIDE DEF v
      <3> QED
        BY <3>1, <3>2
    <2>2. t \in Bytes /\ Len(t) = n - m /\ \A i \in 1..(n - m) : t[i] = u[i + 1]
      <3>1. u \in Seq(Byte) /\ u # << >> /\ Len(u) - 1 = n - m
        BY <1>2, <1>4, <1>8 DEF Bytes
      <3>2. t \in Seq(Byte) /\ Len(t) = Len(u) - 1 /\ \A i \in 1..Len(t) : t[i] = u[i + 1]
        BY <3>1, HeadTailProperties
      <3> QED
        BY <3>1, <3>2 DEF Bytes
    <2> HIDE DEF t, v
    <2>3. ASSUME NEW i \in 1..(n - m) PROVE t[i] = v[i]
      <3>1. i + 1 \in 1..l /\ (m + (i + 1)) - 1 = m + i
        BY <1>8
      <3>2. u[i + 1] = s[m + i]
        BY <1>2, <3>1
      <3> QED
        BY <2>1, <2>2, <3>2
    <2>4. t = v
      BY <2>1, <2>2, <2>3, SeqEqual DEF Bytes
    <2> QED
      BY <2>4 DEF t, v
  <1> QED
    BY <1>2, <1>4, <1>5, <1>7, <1>8 DEF u

\* The split of a text into an integer, a fraction and an exponent, by positions.
PartsAt(s, x, y) ==
  /\ x >= 1 /\ (\A k \in 1..x : s[k] \in Digits) /\ (s[1] = Zero => x = 1)
  /\ \/ x = y
     \/ x + 2 <= y /\ s[x + 1] = Dot /\ \A k \in (x + 2)..y : s[k] \in Digits
  /\ \/ y = Len(s)
     \/ /\ s[y + 1] \in {69, 101}
        /\ \/ y + 2 <= Len(s) /\ \A k \in (y + 2)..Len(s) : s[k] \in Digits
           \/ /\ y + 3 <= Len(s) /\ s[y + 2] \in {Plus, Minus}
              /\ \A k \in (y + 3)..Len(s) : s[k] \in Digits

LEMMA PartsIs ==
  ASSUME NEW s \in Bytes, NEW x \in Nat, NEW y \in Nat, x <= y, y <= Len(s)
  PROVE  <<x, y>> \in Parts(s) <=> PartsAt(s, x, y)
  <1> DEFINE n == Len(s)
             i == SubSeq(s, 1, x)
             f == SubSeq(s, x + 1, y)
             h == SubSeq(s, y + 1, n)
  <1>1. n \in Nat /\ y <= n
    BY BytesOf
  <1>2. <<x, y>> \in Parts(s) <=> IsInteger(i) /\ IsFraction(f) /\ IsExponent(h)
    <2>1. <<x, y>> \in (0..n) \X (0..n) /\ <<x, y>>[1] = x /\ <<x, y>>[2] = y
      BY <1>1
    <2> QED
      BY <2>1 DEF Parts
  <1> HIDE DEF n
  <1>3. IsInteger(i) <=> x >= 1 /\ (\A k \in 1..x : s[k] \in Digits) /\ (s[1] = Zero => x = 1)
    <2>1. /\ Len(i) = (x - 1) + 1 /\ (1 <= x => i[1] = s[1])
          /\ AllDigits(i) <=> (1 <= x /\ \A k \in 1..x : s[k] \in Digits)
      <3>1. 1 \in Nat \ {0} /\ 1 <= x + 1 /\ x <= Len(s)
        BY <1>1 DEF n
      <3> QED
        BY <3>1, AllDigitsIs
    <2>2. Len(i) = x
      BY <2>1
    <2> HIDE DEF i
    <2> QED
      BY <2>1, <2>2 DEF IsInteger
  <1>4. IsFraction(f) <=> \/ x = y
                          \/ x + 2 <= y /\ s[x + 1] = Dot /\ \A k \in (x + 2)..y : s[k] \in Digits
    <2>1. /\ x + 1 <= y => f # << >> /\ f[1] = s[x + 1]
          /\ y < x + 1 => f = << >>
          /\ x + 1 <= y => Tail(f) = SubSeq(s, (x + 1) + 1, y)
      <3>1. x + 1 \in Nat \ {0} /\ x + 1 <= y + 1 /\ y <= Len(s)
        BY <1>1 DEF n
      <3> QED
        BY <3>1, AllDigitsIs
    <2>2. CASE x = y
      BY <2>1, <2>2 DEF IsFraction
    <2>3. CASE x # y
      <3> DEFINE m == (x + 1) + 1
      <3>1. x + 1 <= y /\ m \in Nat \ {0} /\ m <= y + 1 /\ y <= Len(s) /\ m = x + 2
        BY <1>1, <2>3 DEF n
      <3> HIDE DEF m
      <3>2. AllDigits(SubSeq(s, m, y)) <=> (m <= y /\ \A k \in m..y : s[k] \in Digits)
        BY <3>1, AllDigitsIs
      <3>3. Tail(f) = SubSeq(s, m, y) /\ f # << >> /\ f[1] = s[x + 1]
        BY <2>1, <3>1 DEF m
      <3> HIDE DEF f
      <3> QED
        BY <2>3, <3>1, <3>2, <3>3 DEF IsFraction
    <2> QED
      BY <2>2, <2>3
  <1>5. IsExponent(h) <=>
           \/ y = n
           \/ /\ s[y + 1] \in {69, 101}
              /\ \/ y + 2 <= n /\ \A k \in (y + 2)..n : s[k] \in Digits
                 \/ /\ y + 3 <= n /\ s[y + 2] \in {Plus, Minus}
                    /\ \A k \in (y + 3)..n : s[k] \in Digits
    <2>1. /\ y + 1 <= n => h # << >> /\ h[1] = s[y + 1]
          /\ n < y + 1 => h = << >>
          /\ y + 1 <= n => Tail(h) = SubSeq(s, (y + 1) + 1, n)
          /\ Len(h) = (n - (y + 1)) + 1
      <3> DEFINE m == y + 1
      <3>1. m \in Nat \ {0} /\ m <= n + 1 /\ n <= Len(s) /\ n \in Nat
        BY <1>1 DEF n
      <3> HIDE DEF m, n
      <3>2. LET u == SubSeq(s, m, n) IN
            /\ m <= n => u # << >> /\ u[1] = s[m]
            /\ n < m => u = << >>
            /\ m <= n => Tail(u) = SubSeq(s, m + 1, n)
            /\ Len(u) = (n - m) + 1
        BY <3>1, AllDigitsIs, SMTT(30)
      <3> QED
        BY <3>2 DEF m
    <2>2. CASE y = n
      BY <1>1, <2>1, <2>2 DEF IsExponent
    <2>3. CASE y # n
      <3> DEFINE m == y + 2
                 t == SubSeq(s, m, n)
      <3>1. y + 1 <= n /\ m \in Nat \ {0} /\ m <= n + 1 /\ n <= Len(s) /\ m = (y + 1) + 1
        BY <1>1, <2>3 DEF n
      <3>2. Tail(h) = t /\ h # << >> /\ h[1] = s[y + 1] /\ Len(h) = n - y
        BY <1>1, <2>1, <3>1
      <3>3. h \in Bytes /\ (Len(h) >= 2 => h[2] = s[y + 2])
        <4>1. y + 1 \in 1..(Len(s) + 1) /\ n \in ((y + 1) - 1)..Len(s) /\ (n - (y + 1)) + 1 = n - y
          BY <1>1, <3>1 DEF n
        <4>2. h \in Bytes /\ \A k \in 1..(n - y) : h[k] = s[((y + 1) + k) - 1]
          BY <4>1, BytesPart
        <4>3. ASSUME n - y >= 2 PROVE 2 \in 1..(n - y) /\ ((y + 1) + 2) - 1 = y + 2
          BY <1>1, <4>3
        <4> HIDE DEF h
        <4> QED
          BY <3>2, <4>2, <4>3
      <3> HIDE DEF h, m
      <3>4. /\ AllDigits(t) <=> (m <= n /\ \A k \in m..n : s[k] \in Digits)
            /\ m <= n => Tail(t) = SubSeq(s, m + 1, n)
        <4> HIDE DEF n
        <4> QED
          BY <1>1, <3>1, AllDigitsIs, ZenonT(30)
      <3>5. ASSUME m <= n
            PROVE  AllDigits(Tail(t)) <=> (m + 1 <= n /\ \A k \in (m + 1)..n : s[k] \in Digits)
        <4>1. m + 1 \in Nat \ {0} /\ m + 1 <= n + 1 /\ n <= Len(s)
          BY <1>1, <3>1, <3>5
        <4>2. AllDigits(SubSeq(s, m + 1, n)) <=> (m + 1 <= n /\ \A k \in (m + 1)..n : s[k] \in Digits)
          BY <1>1, <4>1, AllDigitsIs
        <4> QED
          BY <3>4, <3>5, <4>2
      <3>6. m = y + 2 /\ m + 1 = y + 3
        BY DEF m
      <3> HIDE DEF t
      <3>7. (Len(h) > 2 <=> m + 1 <= n) /\ (m + 1 <= n => m <= n) /\ (m <= n => Len(h) >= 2)
        BY <1>1, <3>2, <3>6
      <3>8. IsExponent(h) <=> /\ s[y + 1] \in {69, 101}
                              /\ \/ AllDigits(t)
                                 \/ Len(h) > 2 /\ h[2] \in {Plus, Minus} /\ AllDigits(Tail(t))
        BY <3>2 DEF IsExponent
      <3>9. (m + 1 <= n) => h[2] = s[y + 2]
        BY <3>3, <3>7
      <3>10. IsExponent(h) <=> /\ s[y + 1] \in {69, 101}
                               /\ \/ m <= n /\ \A k \in m..n : s[k] \in Digits
                                  \/ /\ m + 1 <= n /\ s[y + 2] \in {Plus, Minus}
                                     /\ \A k \in (m + 1)..n : s[k] \in Digits
        BY <3>4, <3>5, <3>7, <3>8, <3>9
      <3> QED
        BY <2>3, <3>6, <3>10
    <2> QED
      BY <2>2, <2>3
  <1> QED
    BY <1>2, <1>3, <1>4, <1>5 DEF n, PartsAt

\* Such a text has one split.
LEMMA LayoutParts ==
  ASSUME NEW s, NEW a, NEW b, Layout(s, 1, a, b)
  PROVE  (CHOOSE q \in Parts(s) : TRUE) = <<a - 1, b - 1>>
  <1> DEFINE n == Len(s)
  <1>1. /\ s \in Bytes /\ n \in Nat /\ a \in Nat /\ b \in Nat /\ 1 < a /\ a <= b /\ b <= n + 1
        /\ b = a \/ a + 2 <= b
        /\ b = n + 1 \/ b + 2 <= n
    BY LayoutEnds DEF Layout
  <1>2. /\ \A k \in 1..(a - 1) : s[k] \in Digits
        /\ s[1] = Zero => a = 1 + 1
        /\ b # a => s[a] = Dot /\ \A k \in (a + 1)..(b - 1) : s[k] \in Digits
        /\ b # n + 1 => /\ s[b] = 101 /\ s[b + 1] \in {Plus, Minus}
                        /\ \A k \in (b + 2)..n : s[k] \in Digits
    BY DEF Layout
  <1>3. ASSUME NEW x \in Nat, NEW y \in Nat, x <= y, y <= n PROVE <<x, y>> \in Parts(s) <=> PartsAt(s, x, y)
    BY <1>1, <1>3, PartsIs, Zenon
  <1>4. PartsAt(s, a - 1, b - 1)
    <2> DEFINE x == a - 1
               y == b - 1
    <2>1. /\ x \in Nat /\ y \in Nat /\ x >= 1 /\ x + 1 = a /\ x + 2 = a + 1 /\ y + 1 = b /\ y + 2 = b + 1
          /\ y + 3 = b + 2 /\ (x = y <=> a = b) /\ (y = n <=> b = n + 1) /\ (a = 1 + 1 => x = 1)
          /\ (b # a => x + 2 <= y) /\ (b # n + 1 => y + 3 <= n)
      BY <1>1
    <2>2. \A k \in 1..x : s[k] \in Digits
      BY <1>2
    <2>3. x # y => s[x + 1] = Dot /\ \A k \in (x + 2)..y : s[k] \in Digits
      BY <1>2, <2>1
    <2>4. y # n => /\ s[y + 1] \in {69, 101} /\ s[y + 2] \in {Plus, Minus}
                   /\ \A k \in (y + 3)..n : s[k] \in Digits
      BY <1>2, <2>1
    <2> HIDE DEF x, y
    <2>5. PartsAt(s, x, y)
      BY <1>2, <2>1, <2>2, <2>3, <2>4 DEF PartsAt
    <2> QED
      BY <2>5 DEF x, y
  <1>5. ASSUME NEW x \in Nat, NEW y \in Nat, x <= y, y <= n, PartsAt(s, x, y) PROVE x = a - 1 /\ y = b - 1
    <2>1. x >= 1 /\ (\A k \in 1..x : s[k] \in Digits)
      BY <1>5 DEF PartsAt
    <2>2. /\ \/ x = y
             \/ x + 2 <= y /\ s[x + 1] = Dot /\ \A k \in (x + 2)..y : s[k] \in Digits
          /\ y = n \/ s[y + 1] \in {69, 101}
      BY <1>5 DEF PartsAt
    <2>3. x <= a - 1
      <3> SUFFICES ASSUME ~(x <= a - 1) PROVE FALSE
        OBVIOUS
      <3>1. a \in 1..x /\ a <= n
        BY <1>1, <1>5
      <3>2. s[a] \in Digits
        BY <2>1, <3>1
      <3>3. s[a] = Dot \/ s[a] = 101
        BY <1>1, <1>2, <3>1
      <3> QED
        BY <3>2, <3>3, NoDigits
    <2>4. x >= a - 1
      <3> SUFFICES ASSUME ~(x >= a - 1) PROVE FALSE
        OBVIOUS
      <3>1. x + 1 \in 1..(a - 1) /\ x + 1 <= n
        BY <1>1, <1>5
      <3>2. s[x + 1] \in Digits
        BY <1>2, <3>1
      <3>3. s[x + 1] # Dot /\ s[x + 1] # 69 /\ s[x + 1] # 101
        BY <3>2, NoDigits
      <3>4. x = y /\ y # n
        BY <1>1, <1>5, <2>2, <3>1, <3>3
      <3> QED
        BY <2>2, <3>3, <3>4
    <2>5. x = a - 1 /\ x + 1 = a /\ x + 2 = a + 1
      BY <1>1, <2>3, <2>4
    <2>6. y <= b - 1
      <3> SUFFICES ASSUME ~(y <= b - 1) PROVE FALSE
        OBVIOUS
      <3>1. b <= y /\ b # n + 1 /\ x # y
        BY <1>1, <1>5, <2>5
      <3>2. s[b] = 101
        BY <1>2, <3>1
      <3>3. s[a] = Dot /\ \A k \in (a + 1)..y : s[k] \in Digits
        BY <2>2, <2>5, <3>1
      <3>4. a # b
        BY <3>2, <3>3, NoDigits
      <3>5. b \in (a + 1)..y
        BY <1>1, <1>5, <3>1, <3>4
      <3> QED
        BY <3>2, <3>3, <3>5, NoDigits
    <2>7. y >= b - 1
      <3> SUFFICES ASSUME ~(y >= b - 1) PROVE FALSE
        OBVIOUS
      <3>1. a # b /\ y # n /\ y + 1 < b
        BY <1>1, <1>5, <2>5
      <3>2. s[a] = Dot /\ \A k \in (a + 1)..(b - 1) : s[k] \in Digits
        BY <1>2, <3>1
      <3>3. s[y + 1] \in {69, 101}
        BY <2>2, <3>1
      <3>4. CASE x = y
        BY <2>5, <3>2, <3>3, <3>4, NoDigits
      <3>5. CASE x # y
        <4>1. y + 1 \in (a + 1)..(b - 1)
          BY <1>1, <1>5, <2>5, <3>1, <3>5
        <4>2. s[y + 1] \in Digits
          BY <3>2, <4>1
        <4> QED
          BY <3>3, <4>2, NoDigits
      <3> QED
        BY <3>4, <3>5
    <2> QED
      BY <1>1, <2>5, <2>6, <2>7
  <1>6. <<a - 1, b - 1>> \in Parts(s)
    <2>1. a - 1 \in Nat /\ b - 1 \in Nat /\ a - 1 <= b - 1 /\ b - 1 <= n
      BY <1>1
    <2> QED
      BY <1>3, <1>4, <2>1
  <1>7. ASSUME NEW q \in Parts(s) PROVE q = <<a - 1, b - 1>>
    <2>1. q \in (0..n) \X (0..n) /\ q[1] <= q[2]
      BY <1>7 DEF Parts
    <2>2. q = <<q[1], q[2]>> /\ q[1] \in Nat /\ q[2] \in Nat /\ q[2] <= n
      BY <1>1, <2>1
    <2>3. PartsAt(s, q[1], q[2])
      BY <1>3, <2>1, <2>2
    <2>4. q[1] = a - 1 /\ q[2] = b - 1
      BY <1>5, <2>1, <2>2, <2>3
    <2> QED
      BY <2>2, <2>4
  <1> QED
    BY <1>6, <1>7

\* The digits of such a text, the point left out.
Shown(s, a, b) == SubSeq(s, 1, a - 1) \o SubSeq(s, a + 1, b - 1)
ShownLength(a, b) == IF b = a THEN a - 1 ELSE b - 2
ShownAt(s, a, i) == IF i < a THEN s[i] ELSE s[i + 1]

LEMMA LayoutDigits ==
  ASSUME NEW s, NEW a, NEW b, Layout(s, 1, a, b)
  PROVE  /\ Shown(s, a, b) \in Bytes /\ Len(Shown(s, a, b)) = ShownLength(a, b)
         /\ ShownLength(a, b) \in Nat
         /\ \A i \in 1..ShownLength(a, b) : Shown(s, a, b)[i] = ShownAt(s, a, i)
  <1> DEFINE n == Len(s)
             u == SubSeq(s, 1, a - 1)
             v == SubSeq(s, a + 1, b - 1)
             all == u \o v
             N == ShownLength(a, b)
             m == IF b = a THEN 0 ELSE b - (a + 1)
  <1>1. /\ s \in Bytes /\ n \in Nat /\ a \in Nat /\ b \in Nat /\ 1 < a /\ a <= b /\ b <= n + 1
        /\ b = a \/ a + 2 <= b
    BY LayoutEnds DEF Layout
  <1>2. N \in Nat /\ m \in Nat /\ (a - 1) + m = N
    BY <1>1 DEF ShownLength
  <1>3. u \in Bytes /\ Len(u) = a - 1 /\ \A i \in 1..(a - 1) : u[i] = s[i]
    <2>1. 1 \in 1..(Len(s) + 1) /\ a - 1 \in (1 - 1)..Len(s) /\ ((a - 1) - 1) + 1 = a - 1
      BY <1>1
    <2>2. u \in Bytes /\ Len(u) = a - 1 /\ \A i \in 1..(a - 1) : u[i] = s[(1 + i) - 1]
      BY <1>1, <2>1, BytesPart
    <2>3. \A i \in 1..(a - 1) : (1 + i) - 1 = i
      BY <1>1
    <2> HIDE DEF u
    <2> QED
      BY <2>2, <2>3
  <1>4. v \in Bytes /\ Len(v) = m /\ \A i \in 1..m : v[i] = s[a + i]
    <2>1. CASE b = a
      <3>1. v = << >>
        <4>1. a + 1 > b - 1
          BY <1>1, <2>1
        <4>2. Len(v) = 0 /\ v \in Seq(Byte)
          BY <1>1, <4>1, SubSeqProperties DEF Bytes
        <4> QED
          BY <4>2, EmptySeq
      <3>2. m = 0
        BY <2>1
      <3>3. v \in Bytes /\ Len(v) = 0
        BY <3>1, EmptySeq DEF Bytes
      <3>4. 1..0 = {}
        OBVIOUS
      <3> HIDE DEF v, m
      <3> QED
        BY <3>2, <3>3, <3>4
    <2>2. CASE b # a
      <3>1. /\ a + 1 \in 1..(Len(s) + 1) /\ b - 1 \in ((a + 1) - 1)..Len(s) /\ ((b - 1) - (a + 1)) + 1 = m
            /\ \A i \in 1..m : ((a + 1) + i) - 1 = a + i
        BY <1>1, <1>2, <2>2
      <3>2. v \in Bytes /\ Len(v) = m /\ \A i \in 1..m : v[i] = s[((a + 1) + i) - 1]
        <4> DEFINE x == a + 1
                   y == b - 1
        <4>1. x \in 1..(Len(s) + 1) /\ y \in (x - 1)..Len(s) /\ (y - x) + 1 = m
          BY <3>1
        <4> HIDE DEF x, y, m
        <4>2. LET t == SubSeq(s, x, y) IN t \in Bytes /\ Len(t) = m /\ \A i \in 1..m : t[i] = s[(x + i) - 1]
          BY <1>1, <4>1, BytesPart
        <4> QED
          BY <4>2 DEF x, y
      <3> HIDE DEF v, m
      <3> QED
        BY <3>1, <3>2
    <2> QED
      BY <2>1, <2>2
  <1> HIDE DEF u, v, m, n
  <1>5. /\ all \in Bytes /\ Len(all) = Len(u) + Len(v)
        /\ \A i \in 1..Len(u) : all[i] = u[i]
        /\ \A i \in 1..Len(v) : all[Len(u) + i] = v[i]
    BY <1>3, <1>4, BytesJoined
  <1> HIDE DEF all
  <1>6. ASSUME NEW i \in 1..N PROVE all[i] = ShownAt(s, a, i)
    <2>1. CASE i < a
      <3>1. i \in 1..(a - 1)
        BY <1>1, <1>2, <2>1
      <3> QED
        BY <1>3, <1>5, <2>1, <3>1 DEF ShownAt
    <2>2. CASE ~(i < a)
      <3> DEFINE j == i - (a - 1)
      <3>1. j \in 1..m /\ (a - 1) + j = i /\ a + j = i + 1
        BY <1>1, <1>2, <2>2
      <3> HIDE DEF j
      <3>2. all[(a - 1) + j] = s[a + j]
        BY <1>3, <1>4, <1>5, <3>1
      <3> QED
        BY <2>2, <3>1, <3>2 DEF ShownAt
    <2> QED
      BY <2>1, <2>2
  <1>7. Len(all) = N
    BY <1>2, <1>3, <1>4, <1>5
  <1> HIDE DEF N
  <1> QED
    BY <1>2, <1>5, <1>6, <1>7 DEF all, N, u, v, Shown

\* The digits d of such a text have z zeros before them and zeros after them.
HasDigits(s, a, b, d, z) ==
    /\ z + Len(d) <= ShownLength(a, b)
    /\ \A i \in 1..ShownLength(a, b) :
          ShownAt(s, a, i) = IF z < i /\ i <= z + Len(d) THEN d[i - z] ELSE Zero

LEMMA LayoutValue ==
  ASSUME NEW s, NEW a, NEW b, Layout(s, 1, a, b),
         NEW d \in Bytes, NEW z \in Nat, Len(d) >= 1, d[1] # Zero, d[Len(d)] # Zero,
         HasDigits(s, a, b, d, z)
  PROVE  Value(s) = [d |-> d, e |-> PowerOf(SubSeq(s, b, Len(s))) + ((a - 1) - (z + 1))]
  <1> DEFINE p == CHOOSE q \in Parts(s) : TRUE
             all == Shown(s, a, b)
             N == ShownLength(a, b)
             l == Len(d)
             nonzero == {i \in DOMAIN all : all[i] # Zero}
             first == CHOOSE i \in nonzero : \A j \in nonzero : i <= j
             last == CHOOSE i \in nonzero : \A j \in nonzero : j <= i
  <1>1. a \in Nat /\ b \in Nat /\ l \in Nat /\ l >= 1
    BY BytesOf DEF Layout
  <1>2. p = <<a - 1, b - 1>>
    BY LayoutParts
  <1>3. p[1] = a - 1 /\ p[2] = b - 1 /\ p[1] + 2 = a + 1 /\ p[2] + 1 = b
    <2> HIDE DEF p
    <2> QED
      BY <1>1, <1>2
  <1>4. all \in Bytes /\ Len(all) = N /\ N \in Nat
        /\ \A i \in 1..N : all[i] = ShownAt(s, a, i)
    BY LayoutDigits
  <1>5. z + l <= N /\ \A i \in 1..N : ShownAt(s, a, i)
                                        = IF z < i /\ i <= z + l THEN d[i - z] ELSE Zero
    BY DEF HasDigits
  <1> HIDE DEF N, all, l
  <1>6. \A i \in 1..N : all[i] = IF z < i /\ i <= z + l THEN d[i - z] ELSE Zero
    BY <1>4, <1>5
  <1>7. DOMAIN all = 1..N
    BY <1>4 DEF Bytes
  <1>8. z + 1 \in nonzero /\ z + l \in nonzero
    <2>1. z + 1 \in 1..N /\ z + l \in 1..N /\ (z + 1) - z = 1 /\ (z + l) - z = l
      BY <1>1, <1>4, <1>5
    <2>2. z < z + 1 /\ z + 1 <= z + l /\ z < z + l /\ z + l <= z + l
      BY <1>1
    <2>3. all[z + 1] = d[1] /\ all[z + l] = d[l]
      BY <1>6, <2>1, <2>2
    <2> QED
      BY <1>7, <2>1, <2>3 DEF l
  <1>9. \A i \in nonzero : i \in Nat /\ z + 1 <= i /\ i <= z + l
    <2> SUFFICES ASSUME NEW i \in nonzero PROVE i \in Nat /\ z + 1 <= i /\ i <= z + l
      OBVIOUS
    <2>1. i \in 1..N /\ all[i] # Zero
      BY <1>7
    <2>2. z < i /\ i <= z + l
      BY <1>6, <2>1
    <2> QED
      BY <1>4, <2>1, <2>2
  <1> HIDE DEF nonzero
  <1>10. first = z + 1
    <2>1. \A j \in nonzero : z + 1 <= j
      BY <1>9
    <2>2. ASSUME NEW i \in nonzero, \A j \in nonzero : i <= j PROVE i = z + 1
      BY <1>8, <1>9, <2>2
    <2> QED
      BY <1>8, <2>1, <2>2
  <1>11. last = z + l
    <2>1. \A j \in nonzero : j <= z + l
      BY <1>9
    <2>2. ASSUME NEW i \in nonzero, \A j \in nonzero : j <= i PROVE i = z + l
      BY <1>1, <1>8, <1>9, <2>2
    <2> QED
      BY <1>8, <2>1, <2>2
  <1>12. SubSeq(all, z + 1, z + l) = d
    <2> DEFINE t == SubSeq(all, z + 1, z + l)
               x == z + 1
               y == z + l
    <2>1. /\ x \in 1..(Len(all) + 1) /\ y \in (x - 1)..Len(all) /\ (y - x) + 1 = l
          /\ \A i \in 1..l : (x + i) - 1 \in 1..N /\ z < (x + i) - 1 /\ (x + i) - 1 <= z + l
                             /\ ((x + i) - 1) - z = i
      <3>1. x \in Nat /\ y \in Nat /\ x <= N /\ y <= N /\ 1 <= x /\ x - 1 <= y /\ (y - x) + 1 = l
        <4>1. N \in Nat /\ z + l <= N /\ l \in Nat /\ l >= 1
          BY <1>1, <1>4, <1>5
        <4> QED
          BY <4>1
      <3>2. x \in 1..(N + 1) /\ y \in (x - 1)..N
        BY <1>4, <3>1
      <3>3. \A i \in 1..l : (x + i) - 1 \in 1..N /\ z < (x + i) - 1 /\ (x + i) - 1 <= z + l
                             /\ ((x + i) - 1) - z = i
        BY <1>1, <1>4, <1>5
      <3> QED
        BY <1>4, <3>1, <3>2, <3>3
    <2> HIDE DEF x, y
    <2>2. LET w == SubSeq(all, x, y)
          IN  w \in Bytes /\ Len(w) = l /\ \A i \in 1..l : w[i] = all[(x + i) - 1]
      <3>1. all \in Bytes /\ x \in 1..(Len(all) + 1) /\ y \in (x - 1)..Len(all)
        BY <1>4, <2>1
      <3>2. LET w == SubSeq(all, x, y)
            IN  /\ w \in Bytes /\ Len(w) = (y - x) + 1
                /\ \A i \in 1..((y - x) + 1) : w[i] = all[(x + i) - 1]
        BY <3>1, BytesPart, ZenonT(30)
      <3>3. (y - x) + 1 = l
        BY <2>1
      <3> QED
        BY <3>2, <3>3, ZenonT(30)
    <2>3. t \in Bytes /\ Len(t) = l /\ \A i \in 1..l : t[i] = all[(x + i) - 1]
      BY <2>2 DEF x, y
    <2> HIDE DEF t
    <2>4. ASSUME NEW i \in 1..l PROVE t[i] = d[i]
      BY <1>6, <2>1, <2>3
    <2>5. t = d
      BY <2>3, <2>4, SeqEqual DEF l, Bytes
    <2> QED
      BY <2>5 DEF t
  <1>13. Value(s) = IF nonzero = {} THEN [d |-> <<48>>, e |-> 0]
                    ELSE [d |-> SubSeq(all, first, last),
                          e |-> PowerOf(SubSeq(s, p[2] + 1, Len(s))) + p[1] - first]
    <2>1. Value(s) = LET al == SubSeq(s, 1, p[1]) \o SubSeq(s, p[1] + 2, p[2])
                         no == {i \in DOMAIN al : al[i] # Zero}
                         fi == CHOOSE i \in no : \A j \in no : i <= j
                         la == CHOOSE i \in no : \A j \in no : j <= i
                     IN  IF no = {} THEN [d |-> <<48>>, e |-> 0]
                         ELSE [d |-> SubSeq(al, fi, la),
                               e |-> PowerOf(SubSeq(s, p[2] + 1, Len(s))) + p[1] - fi]
      BY Zenon DEF Value
    <2>2. SubSeq(s, 1, p[1]) \o SubSeq(s, p[1] + 2, p[2]) = all
      BY <1>3 DEF all, Shown
    <2> HIDE DEF p
    <2> QED
      BY <2>1, <2>2, Zenon DEF nonzero
  <1> HIDE DEF first, last, p
  <1> QED
    BY <1>3, <1>8, <1>10, <1>11, <1>12, <1>13

-----------------------------------------------------------------------------
(* The exponent.                                                           *)

\* Counts(w, s): w holds the values of the texts s begins with.
Counts(w, s) ==
    /\ w[0] = 0 /\ Number(s) = w[Len(s)]
    /\ \A k \in 1..Len(s) : w[k] = 10 * w[k - 1] + s[k] - 48

LEMMA NumberExists ==
  ASSUME NEW s \in Bytes
  PROVE  \E w : Counts(w, s)
  <1> DEFINE n == Len(s)
             g == [k \in 1..n |-> [x \in Int |-> 10 * x + s[k] - 48]]
  <1>1. n \in Nat /\ \A k \in 1..n : s[k] \in Int
    BY BytesOf
  <1> HIDE DEF n
  <1>2. g \in [1..n -> [Int -> Int]] /\ \A k \in 1..n, x \in Int : g[k][x] = 10 * x + s[k] - 48
    BY <1>1
  <1> HIDE DEF g
  <1>3. \E f : Follows(f, n, Int, 0, g)
    <2>1. 0 \in Int
      OBVIOUS
    <2> QED
      BY <1>1, <1>2, <2>1, RecursionExists
  <1>4. PICK f \in [0..n -> Int] : f[0] = 0 /\ \A k \in 1..n : f[k] = g[k][f[k - 1]]
    BY <1>3 DEF Follows
  <1>5. f = [k \in 0..n |-> IF k = 0 THEN 0 ELSE 10 * f[k - 1] + s[k] - 48]
    <2>1. ASSUME NEW k \in 0..n PROVE f[k] = IF k = 0 THEN 0 ELSE 10 * f[k - 1] + s[k] - 48
      <3>1. CASE k = 0
        BY <1>4, <3>1
      <3>2. CASE k # 0
        <4>1. k \in 1..n /\ k - 1 \in 0..n
          BY <1>1, <3>2
        <4>2. f[k - 1] \in Int
          BY <4>1
        <4> QED
          BY <1>2, <1>4, <3>2, <4>1, <4>2
      <3> QED
        BY <3>1, <3>2
    <2> QED
      BY <2>1
  <1> DEFINE w == CHOOSE t : t = [k \in 0..n |-> IF k = 0 THEN 0 ELSE 10 * t[k - 1] + s[k] - 48]
  <1>6. w = [k \in 0..n |-> IF k = 0 THEN 0 ELSE 10 * w[k - 1] + s[k] - 48]
    BY <1>5, Zenon
  <1>7. Number(s) = w[n]
    BY Zenon DEF Number, n
  <1> HIDE DEF w
  <1>8. w[0] = 0
    BY <1>1, <1>6
  <1>9. ASSUME NEW k \in 1..n PROVE w[k] = 10 * w[k - 1] + s[k] - 48
    <2>1. k \in 0..n /\ k # 0
      BY <1>1
    <2> QED
      BY <1>6, <2>1
  <1>10. Counts(w, s)
    BY <1>7, <1>8, <1>9 DEF Counts, n
  <1> QED
    BY <1>10

\* Decimal writes the digits that Number reads.
LEMMA DecimalIs ==
  ASSUME NEW n \in Nat, n < 1000
  PROVE  /\ Decimal(n) \in Bytes /\ Len(Decimal(n)) \in 1..3
         /\ \A k \in 1..Len(Decimal(n)) : Decimal(n)[k] \in Digits
         /\ Number(Decimal(n)) = n
  <1> DEFINE x == n \div 100
             y == (n \div 10) % 10
             z == n % 10
             v == n \div 10
             s == Decimal(n)
  <1>1. x \in 0..9 /\ y \in 0..9 /\ z \in 0..9 /\ n = 100 * x + 10 * y + z
    OBVIOUS
  <1>2. n < 100 => v = y /\ x = 0
    OBVIOUS
  <1>3. n < 10 => z = n
    OBVIOUS
  <1>4. \A q \in 0..9 : 48 + q \in Digits /\ 48 + q \in Byte
    BY DEF Digits, Byte
  <1>5. s = IF n < 10 THEN <<48 + n>>
            ELSE IF n < 100 THEN <<48 + v, 48 + z>> ELSE <<48 + x, 48 + y, 48 + z>>
    BY DEF Decimal
  <1> HIDE DEF x, y, z, v, s
  <1>6. CASE n < 10
    <2>1. s = <<48 + z>>
      BY <1>3, <1>5, <1>6
    <2>2. s \in Bytes /\ Len(s) = 1 /\ s[1] = 48 + z
      BY <1>1, <1>4, <2>1 DEF Bytes
    <2>3. PICK w : Counts(w, s)
      BY <2>2, NumberExists
    <2>4. w[0] = 0 /\ Number(s) = w[1] /\ w[1] = 10 * w[1 - 1] + s[1] - 48 /\ 1 - 1 = 0
      BY <2>2, <2>3 DEF Counts
    <2>5. w[1] = 10 * 0 + (48 + z) - 48
      BY <2>2, <2>4
    <2>6. Number(s) = n
      BY <1>1, <1>3, <1>6, <2>4, <2>5
    <2>7. s[1] \in Digits
      BY <1>1, <1>4, <2>2
    <2> QED
      BY <2>2, <2>6, <2>7 DEF s
  <1>7. CASE ~(n < 10) /\ n < 100
    <2>1. s = <<48 + y, 48 + z>>
      BY <1>2, <1>5, <1>7
    <2>2. s \in Bytes /\ Len(s) = 2 /\ s[1] = 48 + y /\ s[2] = 48 + z
      BY <1>1, <1>4, <2>1 DEF Bytes
    <2>3. PICK w : Counts(w, s)
      BY <2>2, NumberExists
    <2>4. /\ w[0] = 0 /\ Number(s) = w[2] /\ w[1] = 10 * w[1 - 1] + s[1] - 48
          /\ w[2] = 10 * w[2 - 1] + s[2] - 48 /\ 1 - 1 = 0 /\ 2 - 1 = 1
      BY <2>2, <2>3 DEF Counts
    <2>5. w[1] = 10 * 0 + (48 + y) - 48 /\ w[2] = 10 * w[1] + (48 + z) - 48
      BY <2>2, <2>4
    <2>6. Number(s) = n
      <3>1. w[1] = y
        BY <1>1, <2>5
      <3>2. w[2] = 10 * y + (48 + z) - 48
        BY <2>5, <3>1
      <3>3. w[2] = n
        BY <1>1, <1>2, <1>7, <3>2
      <3> QED
        BY <2>4, <3>3
    <2>7. s[1] \in Digits /\ s[2] \in Digits
      BY <1>1, <1>4, <2>2
    <2> QED
      BY <2>2, <2>6, <2>7 DEF s
  <1>8. CASE ~(n < 100)
    <2>1. s = <<48 + x, 48 + y, 48 + z>>
      BY <1>5, <1>8
    <2>2. s \in Bytes /\ Len(s) = 3 /\ s[1] = 48 + x /\ s[2] = 48 + y /\ s[3] = 48 + z
      BY <1>1, <1>4, <2>1 DEF Bytes
    <2>3. PICK w : Counts(w, s)
      BY <2>2, NumberExists
    <2>4. /\ w[0] = 0 /\ Number(s) = w[3] /\ w[1] = 10 * w[1 - 1] + s[1] - 48
          /\ w[2] = 10 * w[2 - 1] + s[2] - 48 /\ w[3] = 10 * w[3 - 1] + s[3] - 48
          /\ 1 - 1 = 0 /\ 2 - 1 = 1 /\ 3 - 1 = 2
      BY <2>2, <2>3 DEF Counts
    <2>5. /\ w[1] = 10 * 0 + (48 + x) - 48 /\ w[2] = 10 * w[1] + (48 + y) - 48
          /\ w[3] = 10 * w[2] + (48 + z) - 48
      BY <2>2, <2>4
    <2>6. Number(s) = n
      <3>1. w[1] = x
        BY <1>1, <2>5
      <3>2. w[2] = 10 * x + y
        BY <1>1, <2>5, <3>1
      <3>3. w[3] = n
        BY <1>1, <2>5, <3>2
      <3> QED
        BY <2>4, <3>3
    <2>7. s[1] \in Digits /\ s[2] \in Digits /\ s[3] \in Digits
      BY <1>1, <1>4, <2>2
    <2> QED
      BY <2>2, <2>6, <2>7 DEF s
  <1> QED
    BY <1>6, <1>7, <1>8

-----------------------------------------------------------------------------
(* The three layouts of format_double.                                     *)

LEMMA ZerosIs ==
  ASSUME NEW n \in Nat
  PROVE  Zeros(n) \in Bytes /\ Len(Zeros(n)) = n /\ \A k \in 1..n : Zeros(n)[k] = Zero
  <1>1. Zeros(n) \in [1..n -> Byte] /\ \A k \in 1..n : Zeros(n)[k] = Zero
    BY NoDigits DEF Zeros
  <1> HIDE DEF Zeros
  <1>2. Zeros(n) \in Seq(Byte) /\ Len(Zeros(n)) = n
    BY <1>1
  <1> QED
    BY <1>1, <1>2 DEF Bytes

LEMMA ThreeJoined ==
  ASSUME NEW u \in Bytes, NEW v \in Bytes, NEW w \in Bytes
  PROVE  /\ u \o v \o w \in Bytes /\ Len(u) \in Nat /\ Len(v) \in Nat /\ Len(w) \in Nat
         /\ Len(u \o v \o w) = (Len(u) + Len(v)) + Len(w)
         /\ \A i \in 1..Len(u) : (u \o v \o w)[i] = u[i]
         /\ \A i \in 1..Len(v) : (u \o v \o w)[Len(u) + i] = v[i]
         /\ \A i \in 1..Len(w) : (u \o v \o w)[(Len(u) + Len(v)) + i] = w[i]
  <1> DEFINE x == u \o v
             t == x \o w
             a == Len(u)
             b == Len(v)
  <1>1. /\ x \in Bytes /\ a \in Nat /\ b \in Nat /\ Len(x) = a + b
        /\ \A i \in 1..a : x[i] = u[i]
        /\ \A i \in 1..b : x[a + i] = v[i]
    BY BytesJoined
  <1> HIDE DEF x
  <1>2. /\ t \in Bytes /\ Len(w) \in Nat /\ Len(t) = Len(x) + Len(w)
        /\ \A i \in 1..Len(x) : t[i] = x[i]
        /\ \A i \in 1..Len(w) : t[Len(x) + i] = w[i]
    BY <1>1, BytesJoined
  <1> HIDE DEF t, a, b
  <1>3. ASSUME NEW i \in 1..a PROVE t[i] = u[i]
    <2>1. i \in 1..(a + b)
      BY <1>1
    <2> QED
      BY <1>1, <1>2, <2>1
  <1>4. ASSUME NEW i \in 1..b PROVE t[a + i] = v[i]
    <2>1. a + i \in 1..(a + b)
      BY <1>1
    <2> QED
      BY <1>1, <1>2, <2>1
  <1>5. \A i \in 1..Len(w) : t[(a + b) + i] = w[i]
    BY <1>1, <1>2
  <1>6. Len(t) = (a + b) + Len(w)
    BY <1>1, <1>2
  <1> QED
    BY <1>1, <1>2, <1>3, <1>4, <1>5, <1>6 DEF t, x, a, b

\* The digits that std::to_chars finds: no zero around them, but for the double zero.
ShortestDigits(d, e) ==
    /\ d \in Bytes /\ Len(d) >= 1 /\ Len(d) <= 17 /\ e \in Int /\ -1000 < e /\ e < 1000
    /\ \A k \in 1..Len(d) : d[k] \in Digits
    /\ (d[1] # Zero /\ d[Len(d)] # Zero) \/ (d = <<Zero>> /\ e = 0)

\* Digits, zeros, the point and one more zero.
LEMMA FixedWholeIs ==
  ASSUME NEW d, NEW e, ShortestDigits(d, e), e >= 0, Len(d) <= e + 1
  PROVE  LET s == FixedLarge(d, e) IN
         /\ Layout(s, 1, e + 2, e + 4) /\ Len(s) = e + 3 /\ HasDigits(s, e + 2, e + 4, d, 0)
  <1> DEFINE l == Len(d)
             n == (e + 1) - l
             v == Zeros(n)
             w == <<Dot, Zero>>
             s == d \o v \o w
  <1>1. d \in Bytes /\ l \in Nat /\ l >= 1 /\ e \in Nat /\ n \in Nat /\ l + n = e + 1 /\ l <= e + 1
    BY BytesOf DEF ShortestDigits
  <1>2. FixedLarge(d, e) = s
    <2>1. ~(l > e + 1) /\ e + 1 - l = n
      BY <1>1
    <2> QED
      BY <2>1 DEF FixedLarge
  <1>3. \A k \in 1..l : d[k] \in Digits
    BY DEF ShortestDigits
  <1>4. d[1] = Zero => e = 0
    BY DEF ShortestDigits
  <1>5. w \in Bytes /\ Len(w) = 2 /\ w[1] = Dot /\ w[2] = Zero
    BY NoDigits DEF Bytes
  <1>6. v \in Bytes /\ Len(v) = n /\ \A k \in 1..n : v[k] = Zero
    BY <1>1, ZerosIs
  <1> HIDE DEF n, v, w
  <1>7. /\ s \in Bytes /\ Len(s) = (l + n) + 2
        /\ \A i \in 1..l : s[i] = d[i]
        /\ \A i \in 1..n : s[l + i] = Zero
        /\ s[(l + n) + 1] = Dot /\ s[(l + n) + 2] = Zero
    <2>1. /\ s \in Bytes /\ Len(s) = (Len(d) + Len(v)) + Len(w)
          /\ \A i \in 1..Len(d) : s[i] = d[i]
          /\ \A i \in 1..Len(v) : s[Len(d) + i] = v[i]
          /\ \A i \in 1..Len(w) : s[(Len(d) + Len(v)) + i] = w[i]
      <3>1. d \in Bytes /\ v \in Bytes /\ w \in Bytes
        BY <1>1, <1>5, <1>6
      <3> QED
        BY <3>1, ThreeJoined, ZenonT(30)
    <2> HIDE DEF s
    <2>2. Len(s) = (l + n) + 2 /\ \A i \in 1..l : s[i] = d[i]
      BY <1>5, <1>6, <2>1
    <2>3. \A i \in 1..n : s[l + i] = Zero
      BY <1>6, <2>1
    <2>4. \A i \in 1..2 : s[(l + n) + i] = w[i]
      BY <1>5, <1>6, <2>1
    <2> HIDE DEF l
    <2> QED
      BY <1>5, <2>1, <2>2, <2>3, <2>4
  <1> HIDE DEF s, l
  <1>8. /\ Len(s) = e + 3 /\ s[e + 2] = Dot /\ s[e + 3] = Zero
        /\ \A i \in 1..(e + 1) : s[i] = IF i <= l THEN d[i] ELSE Zero
    <2>1. (l + n) + 2 = e + 3 /\ (l + n) + 1 = e + 2
      BY <1>1
    <2>2. ASSUME NEW i \in 1..(e + 1) PROVE s[i] = IF i <= l THEN d[i] ELSE Zero
      <3>1. CASE i <= l
        BY <1>1, <1>7, <3>1
      <3>2. CASE ~(i <= l)
        <4>1. i - l \in 1..n /\ l + (i - l) = i
          BY <1>1, <3>2
        <4>2. s[l + (i - l)] = Zero
          BY <1>7, <4>1
        <4> QED
          BY <3>2, <4>1, <4>2
      <3> QED
        BY <3>1, <3>2
    <2> QED
      BY <1>7, <2>1, <2>2
  <1>9. \A i \in 1..(e + 1) : s[i] \in Digits
    BY <1>1, <1>3, <1>8, NoDigits
  <1>10. Layout(s, 1, e + 2, e + 4)
    <2>1. /\ e + 2 \in Nat /\ e + 4 \in Nat /\ 1 < e + 2 /\ e + 2 <= e + 4 /\ e + 4 = Len(s) + 1
          /\ (e + 2) - 1 = e + 1 /\ (e + 2) + 2 <= e + 4 /\ (e + 4) - 1 = e + 3 /\ (e + 2) + 1 = e + 3
          /\ 1 \in 1..(e + 1) /\ 1 <= l /\ e + 4 <= Len(s) + 1
      BY <1>1, <1>8, SMTT(30)
    <2>2. s[1] = Zero => e + 2 = 1 + 1
      <3>1. s[1] = d[1]
        BY <1>8, <2>1
      <3> QED
        BY <1>4, <3>1
    <2>3. \A k \in (e + 3)..(e + 3) : s[k] \in Digits
      <3>1. s[e + 3] \in Digits
        BY <1>8, NoDigits
      <3>2. \A k \in (e + 3)..(e + 3) : k = e + 3
        BY <1>1
      <3> QED
        BY <3>1, <3>2
    <2>4. \A k \in 1..((e + 2) - 1) : s[k] \in Digits
      BY <1>9, <2>1
    <2>5. \A k \in ((e + 2) + 1)..((e + 4) - 1) : s[k] \in Digits
      BY <2>1, <2>3
    <2>6. 1 \in Nat \ {0}
      OBVIOUS
    <2> QED
      BY <1>7, <1>8, <2>1, <2>2, <2>4, <2>5, <2>6 DEF Layout
  <1>11. HasDigits(s, e + 2, e + 4, d, 0)
    <2>1. ShownLength(e + 2, e + 4) = e + 2
      BY <1>1 DEF ShownLength
    <2>2. ASSUME NEW i \in 1..(e + 2)
          PROVE  ShownAt(s, e + 2, i) = IF 0 < i /\ i <= 0 + l THEN d[i - 0] ELSE Zero
      <3>1. i \in Nat /\ 0 < i /\ i - 0 = i /\ 0 + l = l
        BY <1>1
      <3>2. CASE i < e + 2
        <4>1. i \in 1..(e + 1)
          BY <1>1, <3>1, <3>2
        <4> QED
          BY <1>8, <3>1, <3>2, <4>1 DEF ShownAt
      <3>3. CASE ~(i < e + 2)
        <4>1. i + 1 = e + 3 /\ ~(i <= l)
          BY <1>1, <3>1, <3>3
        <4> QED
          BY <1>8, <3>1, <3>3, <4>1 DEF ShownAt
      <3> QED
        BY <3>2, <3>3
    <2>3. 0 + l <= e + 2
      BY <1>1
    <2> QED
      BY <2>1, <2>2, <2>3 DEF HasDigits, l
  <1> QED
    BY <1>2, <1>8, <1>10, <1>11

\* The digits with the point among them.
LEMMA FixedSplitIs ==
  ASSUME NEW d, NEW e, ShortestDigits(d, e), e >= 0, Len(d) > e + 1
  PROVE  LET s == FixedLarge(d, e) IN
         /\ Layout(s, 1, e + 2, Len(d) + 2) /\ Len(s) = Len(d) + 1
         /\ HasDigits(s, e + 2, Len(d) + 2, d, 0)
  <1> DEFINE l == Len(d)
             u == SubSeq(d, 1, e + 1)
             v == <<Dot>>
             w == SubSeq(d, e + 2, l)
             m == l - (e + 1)
             s == u \o v \o w
  <1>1. d \in Bytes /\ l \in Nat /\ l >= 1 /\ e \in Nat /\ m \in Nat \ {0} /\ (e + 1) + m = l /\ e + 1 < l
    BY BytesOf DEF ShortestDigits
  <1>2. FixedLarge(d, e) = s
    BY DEF FixedLarge
  <1>3. \A k \in 1..l : d[k] \in Digits
    BY DEF ShortestDigits
  <1>4. d[1] # Zero
    <2>1. d # <<Zero>>
      <3>1. Len(<<Zero>>) = 1
        OBVIOUS
      <3>2. l # 1
        <4> HIDE DEF l
        <4> QED
          BY <1>1
      <3> QED
        BY <3>1, <3>2
    <2> QED
      BY <2>1 DEF ShortestDigits
  <1>5. v \in Bytes /\ Len(v) = 1 /\ v[1] = Dot
    BY NoDigits DEF Bytes
  <1>6. u \in Bytes /\ Len(u) = e + 1 /\ \A i \in 1..(e + 1) : u[i] = d[i]
    <2>1. /\ 1 \in 1..(Len(d) + 1) /\ e + 1 \in (1 - 1)..Len(d) /\ ((e + 1) - 1) + 1 = e + 1
          /\ \A i \in 1..(e + 1) : (1 + i) - 1 = i
      BY <1>1
    <2>2. u \in Bytes /\ Len(u) = e + 1 /\ \A i \in 1..(e + 1) : u[i] = d[(1 + i) - 1]
      <3> DEFINE y == e + 1
      <3>1. y \in (1 - 1)..Len(d) /\ (y - 1) + 1 = y
        BY <2>1
      <3> HIDE DEF y
      <3>2. LET t == SubSeq(d, 1, y) IN t \in Bytes /\ Len(t) = y /\ \A i \in 1..y : t[i] = d[(1 + i) - 1]
        BY <1>1, <2>1, <3>1, BytesPart
      <3> QED
        BY <3>2 DEF y
    <2> HIDE DEF u
    <2> QED
      BY <2>1, <2>2
  <1>7. w \in Bytes /\ Len(w) = m /\ \A i \in 1..m : w[i] = d[(e + 1) + i]
    <2>1. /\ e + 2 \in 1..(Len(d) + 1) /\ l \in ((e + 2) - 1)..Len(d) /\ (l - (e + 2)) + 1 = m
          /\ \A i \in 1..m : ((e + 2) + i) - 1 = (e + 1) + i
      BY <1>1
    <2>2. w \in Bytes /\ Len(w) = m /\ \A i \in 1..m : w[i] = d[((e + 2) + i) - 1]
      <3> DEFINE x == e + 2
      <3>1. x \in 1..(Len(d) + 1) /\ l \in (x - 1)..Len(d) /\ (l - x) + 1 = m
        BY <2>1
      <3> HIDE DEF x, m, l
      <3>2. LET t == SubSeq(d, x, l) IN t \in Bytes /\ Len(t) = m /\ \A i \in 1..m : t[i] = d[(x + i) - 1]
        BY <1>1, <3>1, BytesPart
      <3> QED
        BY <3>2 DEF x
    <2> HIDE DEF w, m
    <2> QED
      BY <2>1, <2>2
  <1> HIDE DEF u, v, w, m
  <1>8. /\ s \in Bytes /\ Len(s) = ((e + 1) + 1) + m
        /\ \A i \in 1..(e + 1) : s[i] = d[i]
        /\ \A i \in 1..1 : s[(e + 1) + i] = Dot
        /\ \A i \in 1..m : s[((e + 1) + 1) + i] = d[(e + 1) + i]
    <2>1. /\ s \in Bytes /\ Len(s) = (Len(u) + Len(v)) + Len(w)
          /\ \A i \in 1..Len(u) : s[i] = u[i]
          /\ \A i \in 1..Len(v) : s[Len(u) + i] = v[i]
          /\ \A i \in 1..Len(w) : s[(Len(u) + Len(v)) + i] = w[i]
      <3>1. u \in Bytes /\ v \in Bytes /\ w \in Bytes
        BY <1>5, <1>6, <1>7
      <3> QED
        BY <3>1, ThreeJoined, ZenonT(30)
    <2> HIDE DEF s, l
    <2>2. Len(s) = ((e + 1) + 1) + m /\ \A i \in 1..(e + 1) : s[i] = d[i]
      BY <1>5, <1>6, <1>7, <2>1
    <2>3. \A i \in 1..1 : s[(e + 1) + i] = Dot
      BY <1>5, <1>6, <2>1
    <2>4. \A i \in 1..m : s[((e + 1) + 1) + i] = d[(e + 1) + i]
      BY <1>5, <1>6, <1>7, <2>1
    <2> QED
      BY <2>1, <2>2, <2>3, <2>4
  <1> HIDE DEF s, l
  <1>9. /\ Len(s) = l + 1 /\ s[e + 2] = Dot
        /\ \A i \in (e + 2)..l : s[i + 1] = d[i]
    <2>1. ((e + 1) + 1) + m = l + 1 /\ (e + 1) + 1 = e + 2 /\ 1 \in 1..1
      BY <1>1
    <2>2. ASSUME NEW i \in (e + 2)..l PROVE s[i + 1] = d[i]
      <3> DEFINE j == i - (e + 1)
      <3>1. j \in 1..m /\ ((e + 1) + 1) + j = i + 1 /\ (e + 1) + j = i
        BY <1>1
      <3> HIDE DEF j
      <3>2. s[((e + 1) + 1) + j] = d[(e + 1) + j]
        BY <1>8, <3>1
      <3> QED
        BY <3>1, <3>2
    <2>3. s[(e + 1) + 1] = Dot
      BY <1>8, <2>1
    <2> QED
      BY <1>8, <2>1, <2>2, <2>3
  <1>10. Layout(s, 1, e + 2, l + 2)
    <2>1. /\ e + 2 \in Nat /\ l + 2 \in Nat /\ 1 < e + 2 /\ e + 2 <= l + 2 /\ l + 2 = Len(s) + 1
          /\ (e + 2) - 1 = e + 1 /\ (e + 2) + 2 <= l + 2 /\ (l + 2) - 1 = l + 1 /\ (e + 2) + 1 = e + 3
          /\ 1 \in 1..(e + 1) /\ l + 2 <= Len(s) + 1
      BY <1>1, <1>9
    <2>2. s[1] # Zero
      BY <1>4, <1>8, <2>1
    <2>3. \A k \in 1..((e + 2) - 1) : s[k] \in Digits
      <3> SUFFICES ASSUME NEW k \in 1..((e + 2) - 1) PROVE s[k] \in Digits
        OBVIOUS
      <3>1. k \in 1..(e + 1) /\ k \in 1..l
        BY <1>1
      <3> QED
        BY <1>3, <1>8, <3>1
    <2>4. \A k \in ((e + 2) + 1)..((l + 2) - 1) : s[k] \in Digits
      <3> SUFFICES ASSUME NEW k \in ((e + 2) + 1)..((l + 2) - 1) PROVE s[k] \in Digits
        OBVIOUS
      <3>1. k - 1 \in (e + 2)..l /\ (k - 1) + 1 = k /\ k - 1 \in 1..l
        BY <1>1
      <3>2. s[(k - 1) + 1] = d[k - 1]
        BY <1>9, <3>1
      <3> QED
        BY <1>3, <3>1, <3>2
    <2>5. 1 \in Nat \ {0}
      OBVIOUS
    <2> QED
      BY <1>8, <1>9, <2>1, <2>2, <2>3, <2>4, <2>5 DEF Layout
  <1>11. HasDigits(s, e + 2, l + 2, d, 0)
    <2>1. ShownLength(e + 2, l + 2) = l
      BY <1>1 DEF ShownLength
    <2>2. ASSUME NEW i \in 1..l
          PROVE  ShownAt(s, e + 2, i) = IF 0 < i /\ i <= 0 + l THEN d[i - 0] ELSE Zero
      <3>1. i \in Nat /\ 0 < i /\ i - 0 = i /\ 0 + l = l /\ i <= l
        BY <1>1
      <3>2. CASE i < e + 2
        <4>1. i \in 1..(e + 1)
          BY <1>1, <3>1, <3>2
        <4> QED
          BY <1>8, <3>1, <3>2, <4>1 DEF ShownAt
      <3>3. CASE ~(i < e + 2)
        <4>1. i \in (e + 2)..l
          BY <1>1, <3>1, <3>3
        <4> QED
          BY <1>9, <3>1, <3>3, <4>1 DEF ShownAt
      <3> QED
        BY <3>2, <3>3
    <2>3. 0 + l <= l
      BY <1>1
    <2> QED
      BY <2>1, <2>2, <2>3 DEF HasDigits, l
  <1> QED
    BY <1>2, <1>9, <1>10, <1>11 DEF l

\* Zero, the point, zeros and the digits.
LEMMA FixedSmallIs ==
  ASSUME NEW d, NEW e, ShortestDigits(d, e), e < 0
  PROVE  LET s == FixedSmall(d, e)
             b == (2 - e) + Len(d)
         IN  Layout(s, 1, 2, b) /\ Len(s) = b - 1 /\ HasDigits(s, 2, b, d, -e)
  <1> DEFINE l == Len(d)
             n == (-e) - 1
             b == (2 - e) + l
             u == <<Zero, Dot>>
             v == Zeros(n)
             s == u \o v \o d
  <1>1. /\ d \in Bytes /\ l \in Nat /\ l >= 1 /\ e \in Int /\ n \in Nat /\ b \in Nat
        /\ (2 + n) + l = b - 1 /\ n + 1 = -e /\ b = (n + 3) + l
    BY BytesOf DEF ShortestDigits
  <1>2. FixedSmall(d, e) = s
    BY DEF FixedSmall
  <1>3. \A k \in 1..l : d[k] \in Digits
    BY DEF ShortestDigits
  <1>5. u \in Bytes /\ Len(u) = 2 /\ u[1] = Zero /\ u[2] = Dot
    BY NoDigits DEF Bytes
  <1>6. v \in Bytes /\ Len(v) = n /\ \A k \in 1..n : v[k] = Zero
    BY <1>1, ZerosIs
  <1> HIDE DEF n, b, u, v
  <1>7. /\ s \in Bytes /\ Len(s) = (2 + n) + l /\ s[1] = Zero /\ s[2] = Dot
        /\ \A i \in 1..n : s[2 + i] = Zero
        /\ \A i \in 1..l : s[(2 + n) + i] = d[i]
    <2>1. /\ s \in Bytes /\ Len(s) = (Len(u) + Len(v)) + Len(d)
          /\ \A i \in 1..Len(u) : s[i] = u[i]
          /\ \A i \in 1..Len(v) : s[Len(u) + i] = v[i]
          /\ \A i \in 1..Len(d) : s[(Len(u) + Len(v)) + i] = d[i]
      <3>1. u \in Bytes /\ v \in Bytes /\ d \in Bytes
        BY <1>1, <1>5, <1>6
      <3> QED
        BY <3>1, ThreeJoined, ZenonT(30)
    <2> HIDE DEF s
    <2>2. Len(s) = (2 + n) + l /\ \A i \in 1..2 : s[i] = u[i]
      BY <1>5, <1>6, <2>1
    <2>3. \A i \in 1..n : s[2 + i] = Zero
      BY <1>5, <1>6, <2>1
    <2>4. \A i \in 1..l : s[(2 + n) + i] = d[i]
      BY <1>5, <1>6, <2>1
    <2> HIDE DEF l
    <2> QED
      BY <1>5, <2>1, <2>2, <2>3, <2>4
  <1> HIDE DEF s, l
  <1>8. Len(s) = b - 1
    BY <1>1, <1>7
  <1>9. ASSUME NEW i \in 3..(b - 1) PROVE s[i] = IF i <= n + 2 THEN Zero ELSE d[(i - 2) - n]
    <2>1. CASE i <= n + 2
      <3>1. i - 2 \in 1..n /\ 2 + (i - 2) = i
        BY <1>1, <2>1
      <3>2. s[2 + (i - 2)] = Zero
        BY <1>7, <3>1
      <3> QED
        BY <2>1, <3>1, <3>2
    <2>2. CASE ~(i <= n + 2)
      <3> DEFINE j == (i - 2) - n
      <3>1. j \in 1..l /\ (2 + n) + j = i
        BY <1>1, <2>2
      <3> HIDE DEF j
      <3>2. s[(2 + n) + j] = d[j]
        BY <1>7, <3>1
      <3> QED
        BY <2>2, <3>1, <3>2 DEF j
    <2> QED
      BY <2>1, <2>2
  <1>10. Layout(s, 1, 2, b)
    <2>1. /\ 2 <= b /\ b = Len(s) + 1 /\ 2 + 2 <= b /\ b <= Len(s) + 1 /\ 1 < 2 /\ 2 = 1 + 1
          /\ 1 \in Nat \ {0} /\ 2 \in Nat
      BY <1>1, <1>8
    <2>2. \A k \in 1..(2 - 1) : s[k] \in Digits
      <3>1. \A k \in 1..(2 - 1) : k = 1
        OBVIOUS
      <3> QED
        BY <1>7, <3>1, NoDigits
    <2>3. \A k \in (2 + 1)..(b - 1) : s[k] \in Digits
      <3> SUFFICES ASSUME NEW k \in 3..(b - 1) PROVE s[k] \in Digits
        OBVIOUS
      <3>1. CASE k <= n + 2
        BY <1>9, <3>1, NoDigits
      <3>2. CASE ~(k <= n + 2)
        <4>1. (k - 2) - n \in 1..l
          BY <1>1, <3>2
        <4> QED
          BY <1>3, <1>9, <3>2, <4>1
      <3> QED
        BY <3>1, <3>2
    <2> QED
      BY <1>1, <1>7, <2>1, <2>2, <2>3 DEF Layout
  <1>11. HasDigits(s, 2, b, d, -e)
    <2> DEFINE z == -e
    <2>1. ShownLength(2, b) = b - 2 /\ z = n + 1
      BY <1>1 DEF ShownLength
    <2> HIDE DEF z
    <2>2. ASSUME NEW i \in 1..(b - 2)
          PROVE  ShownAt(s, 2, i) = IF z < i /\ i <= z + l THEN d[i - z] ELSE Zero
      <3>1. i \in Nat /\ i <= z + l
        BY <1>1, <2>1
      <3>2. CASE i < 2
        <4>1. i = 1 /\ ~(z < i)
          BY <1>1, <2>1, <3>1, <3>2
        <4> QED
          BY <1>7, <3>2, <4>1 DEF ShownAt
      <3>3. CASE ~(i < 2)
        <4>1. i + 1 \in 3..(b - 1) /\ (i + 1 <= n + 2 <=> ~(z < i)) /\ ((i + 1) - 2) - n = i - z
          BY <1>1, <2>1, <3>1, <3>3
        <4>2. s[i + 1] = IF i + 1 <= n + 2 THEN Zero ELSE d[((i + 1) - 2) - n]
          BY <1>9, <4>1
        <4> QED
          BY <3>1, <3>3, <4>1, <4>2 DEF ShownAt
      <3> QED
        BY <3>2, <3>3
    <2>3. z + l <= b - 2
      BY <1>1, <2>1
    <2>4. HasDigits(s, 2, b, d, z)
      BY <2>1, <2>2, <2>3 DEF HasDigits, l
    <2> QED
      BY <2>4 DEF z
  <1> QED
    BY <1>2, <1>8, <1>10, <1>11 DEF l, b

\* Where the fraction of the scientific notation ends.
AfterMantissa(d) == IF Len(d) > 1 THEN Len(d) + 2 ELSE 2

LEMMA MantissaIs ==
  ASSUME NEW d \in Bytes, Len(d) >= 1
  PROVE  LET m == <<d[1]>> \o (IF Len(d) > 1 THEN <<Dot>> \o Tail(d) ELSE << >>) IN
         /\ m \in Bytes /\ Len(m) = AfterMantissa(d) - 1 /\ m[1] = d[1]
         /\ Len(d) > 1 => m[2] = Dot /\ \A i \in 2..Len(d) : m[i + 1] = d[i]
  <1> DEFINE l == Len(d)
             u == <<d[1]>>
             m == u \o (IF l > 1 THEN <<Dot>> \o Tail(d) ELSE << >>)
  <1>1. l \in Nat /\ l >= 1 /\ d[1] \in Byte
    <2>1. l \in Nat
      BY BytesOf
    <2>2. 1 \in 1..l
      BY <2>1
    <2> QED
      BY <2>1, <2>2, BytesOf
  <1>2. u \in Bytes /\ Len(u) = 1 /\ u[1] = d[1]
    BY <1>1 DEF Bytes
  <1>3. CASE ~(l > 1)
    <2>1. m = u
      BY <1>2, <1>3, ConcatEmptySeq DEF Bytes
    <2>2. AfterMantissa(d) - 1 = 1
      BY <1>3 DEF AfterMantissa
    <2> HIDE DEF m, u
    <2>3. /\ m \in Bytes /\ Len(m) = AfterMantissa(d) - 1 /\ m[1] = d[1]
      BY <1>2, <2>1, <2>2
    <2> QED
      BY <1>3, <2>3 DEF m, u
  <1>4. CASE l > 1
    <2> DEFINE v == <<Dot>>
               w == Tail(d)
               x == v \o w
    <2>1. v \in Bytes /\ Len(v) = 1 /\ v[1] = Dot
      BY NoDigits DEF Bytes
    <2>2. w \in Bytes /\ Len(w) = l - 1 /\ \A i \in 1..(l - 1) : w[i] = d[i + 1]
      <3>1. d \in Seq(Byte) /\ d # << >>
        <4>1. d = << >> => l = 0
          BY EmptySeq
        <4> HIDE DEF l
        <4> QED
          BY <1>4, <4>1 DEF Bytes
      <3>2. w \in Seq(Byte) /\ Len(w) = Len(d) - 1 /\ \A i \in 1..Len(w) : w[i] = d[i + 1]
        BY <3>1, HeadTailProperties
      <3> QED
        BY <3>2 DEF Bytes
    <2>3. m = u \o x
      BY <1>4
    <2> HIDE DEF v, w
    <2>4. /\ x \in Bytes /\ Len(x) = Len(v) + Len(w)
          /\ \A i \in 1..Len(v) : x[i] = v[i]
          /\ \A i \in 1..Len(w) : x[Len(v) + i] = w[i]
      BY <2>1, <2>2, BytesJoined
    <2> HIDE DEF x, u
    <2>5. /\ u \o x \in Bytes /\ Len(u \o x) = Len(u) + Len(x)
          /\ \A i \in 1..Len(u) : (u \o x)[i] = u[i]
          /\ \A i \in 1..Len(x) : (u \o x)[Len(u) + i] = x[i]
      BY <1>2, <2>4, BytesJoined
    <2> HIDE DEF m, l
    <2>6. m \in Bytes /\ Len(m) = 1 + (1 + (l - 1)) /\ m[1] = d[1]
      BY <1>2, <2>1, <2>2, <2>3, <2>4, <2>5
    <2>7. Len(m) = AfterMantissa(d) - 1
      <3>1. AfterMantissa(d) = l + 2
        BY <1>4 DEF AfterMantissa, l
      <3> QED
        BY <1>1, <2>6, <3>1
    <2>8. Len(x) = l
      BY <1>1, <2>1, <2>2, <2>4
    <2>9. \A i \in 1..l : m[1 + i] = x[i]
      BY <1>2, <2>3, <2>5, <2>8
    <2>10. m[2] = Dot
      <3>1. 1 \in 1..l /\ 1 + 1 = 2
        BY <1>1
      <3>2. x[1] = Dot
        BY <2>1, <2>4
      <3>3. m[1 + 1] = x[1]
        BY <2>9, <3>1
      <3> QED
        BY <3>1, <3>2, <3>3
    <2>11. ASSUME NEW i \in 2..l PROVE m[i + 1] = d[i]
      <3>1. i \in 1..l /\ 1 + i = i + 1 /\ i - 1 \in 1..(l - 1) /\ 1 + (i - 1) = i /\ (i - 1) + 1 = i
        BY <1>1
      <3>2. m[1 + i] = x[i]
        BY <2>9, <3>1
      <3>3. x[1 + (i - 1)] = w[i - 1]
        BY <2>1, <2>2, <2>4, <3>1
      <3>4. w[i - 1] = d[(i - 1) + 1]
        BY <2>2, <3>1
      <3> QED
        BY <3>1, <3>2, <3>3, <3>4
    <2> QED
      BY <2>6, <2>7, <2>10, <2>11 DEF m, u, l
  <1> QED
    BY <1>3, <1>4

\* One digit, the others after the point, and the exponent.
LEMMA ScientificIs ==
  ASSUME NEW d, NEW e, ShortestDigits(d, e)
  PROVE  LET s == Scientific(d, e)
             b == AfterMantissa(d)
         IN  /\ Layout(s, 1, 2, b) /\ Len(s) <= Len(d) + 6 /\ Len(s) >= 2
             /\ HasDigits(s, 2, b, d, 0) /\ PowerOf(SubSeq(s, b, Len(s))) = e
  <1> DEFINE l == Len(d)
             b == AfterMantissa(d)
             g == IF e >= 0 THEN e ELSE -e
             sign == IF e >= 0 THEN Plus ELSE Minus
             u == <<d[1]>> \o (IF l > 1 THEN <<Dot>> \o Tail(d) ELSE << >>)
             v == <<101, sign>>
             w == Decimal(g)
             s == u \o v \o w
             n == Len(s)
  <1>1. d \in Bytes /\ l \in Nat /\ l >= 1 /\ e \in Int /\ g \in Nat /\ g < 1000
    BY BytesOf DEF ShortestDigits
  <1>2. Scientific(d, e) = s
    BY Zenon DEF Scientific
  <1>3. \A k \in 1..l : d[k] \in Digits
    BY DEF ShortestDigits
  <1>4. b \in Nat /\ b >= 2 /\ (l > 1 => b = l + 2) /\ (~(l > 1) => b = 2 /\ l = 1)
    <2>1. b = IF l > 1 THEN l + 2 ELSE 2
      BY DEF AfterMantissa
    <2>2. l \in Nat /\ l >= 1
      BY <1>1
    <2> HIDE DEF b, l
    <2> QED
      BY <2>1, <2>2
  <1>5. /\ u \in Bytes /\ Len(u) = b - 1 /\ u[1] = d[1]
        /\ l > 1 => u[2] = Dot /\ \A i \in 2..l : u[i + 1] = d[i]
    BY <1>1, MantissaIs
  <1>6. v \in Bytes /\ Len(v) = 2 /\ v[1] = 101 /\ v[2] = sign /\ sign \in {Plus, Minus}
    <2>1. sign \in {Plus, Minus}
      OBVIOUS
    <2> HIDE DEF sign
    <2>2. sign \in Byte /\ 101 \in Byte
      BY <2>1, NoDigits
    <2> QED
      BY <2>1, <2>2 DEF Bytes
  <1>7. /\ w \in Bytes /\ Len(w) \in 1..3 /\ (\A k \in 1..Len(w) : w[k] \in Digits)
        /\ Number(w) = g
    BY <1>1, DecimalIs
  <1> HIDE DEF b, g, sign, u, v, w
  <1>8. /\ s \in Bytes /\ n = ((b - 1) + 2) + Len(w)
        /\ \A i \in 1..(b - 1) : s[i] = u[i]
        /\ \A i \in 1..2 : s[(b - 1) + i] = v[i]
        /\ \A i \in 1..Len(w) : s[((b - 1) + 2) + i] = w[i]
    <2>1. /\ s \in Bytes /\ Len(s) = (Len(u) + Len(v)) + Len(w)
          /\ \A i \in 1..Len(u) : s[i] = u[i]
          /\ \A i \in 1..Len(v) : s[Len(u) + i] = v[i]
          /\ \A i \in 1..Len(w) : s[(Len(u) + Len(v)) + i] = w[i]
      <3>1. u \in Bytes /\ v \in Bytes /\ w \in Bytes
        BY <1>5, <1>6, <1>7
      <3> QED
        BY <3>1, ThreeJoined, ZenonT(30)
    <2>2. Len(u) = b - 1 /\ Len(v) = 2
      BY <1>5, <1>6
    <2> HIDE DEF s
    <2> QED
      BY <2>1, <2>2
  <1> HIDE DEF s, l, n
  <1>9. /\ n \in Nat /\ n = (b + 1) + Len(w) /\ b + 2 <= n /\ n >= 2 /\ n <= l + 6
        /\ s[b] = 101 /\ s[b + 1] = sign
        /\ \A i \in (b + 2)..n : s[i] = w[i - (b + 1)] /\ i - (b + 1) \in 1..Len(w)
    <2> DEFINE q == Len(w)
    <2>1. q \in 1..3 /\ n = ((b - 1) + 2) + q
      BY <1>7, <1>8
    <2>2. \A i \in 1..q : s[((b - 1) + 2) + i] = w[i]
      BY <1>8
    <2> HIDE DEF q
    <2>3. /\ n \in Nat /\ n = (b + 1) + q /\ b + 2 <= n /\ n >= 2 /\ (b - 1) + 1 = b /\ (b - 1) + 2 = b + 1
          /\ n <= l + 6
      BY <1>1, <1>4, <2>1
    <2>4. s[(b - 1) + 1] = v[1] /\ s[(b - 1) + 2] = v[2]
      BY <1>8
    <2>5. ASSUME NEW i \in (b + 2)..n PROVE s[i] = w[i - (b + 1)] /\ i - (b + 1) \in 1..q
      <3> DEFINE j == i - (b + 1)
      <3>1. j \in 1..q /\ (b + 1) + j = i
        BY <1>4, <2>1, <2>3
      <3> HIDE DEF j
      <3>2. s[((b - 1) + 2) + j] = w[j]
        BY <2>2, <3>1
      <3>3. s[i] = w[j]
        BY <2>3, <3>1, <3>2
      <3> QED
        BY <3>1, <3>3 DEF j
    <2> QED
      BY <1>6, <2>3, <2>4, <2>5 DEF q
  <1>10. s[1] = d[1] /\ (l > 1 => s[2] = Dot /\ \A i \in 2..l : s[i + 1] = d[i])
    <2>1. s[1] = d[1]
      <3>1. 1 \in 1..(b - 1)
        BY <1>4
      <3> QED
        BY <1>5, <1>8, <3>1
    <2>2. ASSUME l > 1 PROVE s[2] = Dot /\ \A i \in 2..l : s[i + 1] = d[i]
      <3>1. 2 \in 1..(b - 1) /\ \A i \in 2..l : i + 1 \in 1..(b - 1)
        BY <1>1, <1>4, <2>2
      <3> QED
        BY <1>5, <1>8, <2>2, <3>1
    <2> QED
      BY <2>1, <2>2
  <1>11. Layout(s, 1, 2, b)
    <2>1. /\ 2 <= b /\ 2 \in Nat /\ 1 < 2 /\ b <= n + 1 /\ 1 \in Nat \ {0} /\ 2 = 1 + 1
          /\ b = 2 \/ 2 + 2 <= b
      BY <1>1, <1>4, <1>9
    <2>2. \A k \in 1..(2 - 1) : s[k] \in Digits
      <3>1. (\A k \in 1..(2 - 1) : k = 1) /\ 1 \in 1..l
        BY <1>1
      <3>2. s[1] \in Digits
        BY <1>3, <1>10, <3>1
      <3> QED
        BY <3>1, <3>2
    <2>3. b # 2 => s[2] = Dot /\ \A k \in (2 + 1)..(b - 1) : s[k] \in Digits
      <3> SUFFICES ASSUME b # 2 PROVE s[2] = Dot /\ \A k \in (2 + 1)..(b - 1) : s[k] \in Digits
        OBVIOUS
      <3>1. l > 1 /\ b = l + 2
        BY <1>4
      <3>2. ASSUME NEW k \in (2 + 1)..(b - 1) PROVE s[k] \in Digits
        <4>1. k - 1 \in 2..l /\ (k - 1) + 1 = k /\ k - 1 \in 1..l
          BY <1>1, <3>1
        <4>2. s[(k - 1) + 1] = d[k - 1]
          BY <1>10, <3>1, <4>1
        <4> QED
          BY <1>3, <4>1, <4>2
      <3> QED
        BY <1>10, <3>1, <3>2
    <2>4. \A k \in (b + 2)..n : s[k] \in Digits
      BY <1>7, <1>9
    <2> QED
      BY <1>4, <1>6, <1>8, <1>9, <2>1, <2>2, <2>3, <2>4 DEF Layout, n
  <1>12. HasDigits(s, 2, b, d, 0)
    <2>1. ShownLength(2, b) = l
      BY <1>1, <1>4 DEF ShownLength
    <2>2. ASSUME NEW i \in 1..l
          PROVE  ShownAt(s, 2, i) = IF 0 < i /\ i <= 0 + l THEN d[i - 0] ELSE Zero
      <3>1. i \in Nat /\ 0 < i /\ i - 0 = i /\ 0 + l = l /\ i <= l
        BY <1>1
      <3>2. CASE i < 2
        <4>1. i = 1
          BY <3>1, <3>2
        <4> QED
          BY <1>10, <3>1, <3>2, <4>1 DEF ShownAt
      <3>3. CASE ~(i < 2)
        <4>1. i \in 2..l /\ l > 1
          BY <1>1, <3>1, <3>3
        <4> QED
          BY <1>10, <3>1, <3>3, <4>1 DEF ShownAt
      <3> QED
        BY <3>2, <3>3
    <2>3. 0 + l <= l
      BY <1>1
    <2> QED
      BY <2>1, <2>2, <2>3 DEF HasDigits, l
  <1>13. PowerOf(SubSeq(s, b, n)) = e
    <2> DEFINE t == SubSeq(s, b, n)
               m == Len(w) + 2
               r == SubSeq(t, 3, m)
               q == Len(w)
    <2>1. /\ b \in 1..(n + 1) /\ n \in (b - 1)..n /\ (n - b) + 1 = m /\ q \in 1..3 /\ m = q + 2
      <3>1. n = (b + 1) + q /\ q \in 1..3 /\ n \in Nat
        BY <1>7, <1>9
      <3> HIDE DEF q
      <3> QED
        BY <1>4, <3>1 DEF q
    <2> HIDE DEF q, m
    <2>2. t \in Bytes /\ Len(t) = m /\ \A i \in 1..m : t[i] = s[(b + i) - 1]
      <3>1. s \in Bytes /\ b \in 1..(Len(s) + 1) /\ n \in (b - 1)..Len(s)
        BY <1>8, <2>1 DEF n
      <3>2. /\ t \in Bytes /\ Len(t) = (n - b) + 1
            /\ \A i \in 1..((n - b) + 1) : t[i] = s[(b + i) - 1]
        BY <3>1, BytesPart
      <3> HIDE DEF t
      <3> QED
        BY <2>1, <3>2
    <2> HIDE DEF t
    <2>3. t[1] = 101 /\ t[2] = sign
      <3>1. 1 \in 1..m /\ 2 \in 1..m /\ (b + 1) - 1 = b /\ (b + 2) - 1 = b + 1
        BY <1>4, <2>1
      <3> QED
        BY <1>9, <2>2, <3>1
    <2>4. ASSUME NEW i \in 3..m PROVE t[i] = w[i - 2]
      <3>1. i \in 1..m /\ (b + i) - 1 \in (b + 2)..n /\ ((b + i) - 1) - (b + 1) = i - 2
        BY <1>4, <2>1
      <3>2. t[i] = s[(b + i) - 1]
        BY <2>2, <3>1
      <3>3. s[(b + i) - 1] = w[((b + i) - 1) - (b + 1)]
        BY <1>9, <3>1
      <3> QED
        BY <3>1, <3>2, <3>3
    <2>5. r = w
      <3>1. /\ 3 \in 1..(Len(t) + 1) /\ m \in (3 - 1)..Len(t) /\ (m - 3) + 1 = q
            /\ \A i \in 1..q : (3 + i) - 1 \in 3..m /\ ((3 + i) - 1) - 2 = i
        BY <2>1, <2>2
      <3>2. r \in Bytes /\ Len(r) = q /\ \A i \in 1..q : r[i] = t[(3 + i) - 1]
        BY <2>2, <3>1, BytesPart
      <3> HIDE DEF r
      <3>3. ASSUME NEW i \in 1..q PROVE r[i] = w[i]
        <4>1. t[(3 + i) - 1] = w[((3 + i) - 1) - 2]
          BY <2>4, <3>1
        <4> QED
          BY <3>1, <3>2, <4>1
      <3>4. Len(w) = q /\ w \in Bytes
        BY <1>7 DEF q
      <3> QED
        BY <3>2, <3>3, <3>4, SeqEqual DEF Bytes
    <2>6. t # << >>
      <3>1. Len(t) # 0
        BY <2>1, <2>2
      <3> QED
        BY <3>1
    <2>7. Number(SubSeq(t, 3, Len(t))) = g
      BY <1>7, <2>2, <2>5
    <2>8. PowerOf(t) = IF t[2] = Minus THEN -g ELSE g
      BY <2>6, <2>7 DEF PowerOf
    <2>9. (sign = Minus <=> ~(e >= 0)) /\ (e >= 0 => g = e) /\ (~(e >= 0) => g = -e)
      BY NoDigits DEF sign, g
    <2>10. PowerOf(t) = e
      BY <1>1, <2>3, <2>8, <2>9
    <2> QED
      BY <2>10 DEF t
  <1> QED
    BY <1>2, <1>9, <1>11, <1>12, <1>13 DEF l, b, n

LEMMA LayoutZero ==
  ASSUME NEW s, NEW a, NEW b, Layout(s, 1, a, b),
         \A i \in 1..ShownLength(a, b) : ShownAt(s, a, i) = Zero
  PROVE  Value(s) = [d |-> <<Zero>>, e |-> 0]
  <1> DEFINE p == CHOOSE q \in Parts(s) : TRUE
             all == Shown(s, a, b)
             N == ShownLength(a, b)
  <1>1. a \in Nat /\ b \in Nat
    BY DEF Layout
  <1>2. p = <<a - 1, b - 1>>
    BY LayoutParts
  <1>3. p[1] = a - 1 /\ p[2] = b - 1 /\ p[1] + 2 = a + 1
    <2> HIDE DEF p
    <2> QED
      BY <1>1, <1>2
  <1>4. all \in Bytes /\ Len(all) = N /\ N \in Nat /\ \A i \in 1..N : all[i] = Zero
    BY LayoutDigits
  <1> HIDE DEF N, all
  <1>5. {i \in DOMAIN all : all[i] # Zero} = {}
    <2>1. DOMAIN all = 1..N
      BY <1>4 DEF Bytes
    <2> QED
      BY <1>4, <2>1
  <1>6. LET al == SubSeq(s, 1, p[1]) \o SubSeq(s, p[1] + 2, p[2])
            no == {i \in DOMAIN al : al[i] # Zero}
        IN  no = {} => Value(s) = [d |-> <<48>>, e |-> 0]
    BY Zenon DEF Value
  <1>7. SubSeq(s, 1, p[1]) \o SubSeq(s, p[1] + 2, p[2]) = all
    BY <1>3 DEF all, Shown
  <1> HIDE DEF p
  <1>8. Value(s) = [d |-> <<48>>, e |-> 0]
    BY <1>5, <1>6, <1>7, Zenon
  <1> QED
    BY <1>8 DEF Zero

\* Denotes(s, d, e): s is such a text, not an integer, and its value is d and e.
Denotes(s, d, e) ==
    /\ \E a, b : Layout(s, 1, a, b) /\ a <= Len(s)
    /\ Value(s) = [d |-> d, e |-> e]

\* A text that has no exponent, at the place its point gives the digits.
LEMMA FixedDenotes ==
  ASSUME NEW s, NEW a, NEW b, Layout(s, 1, a, b), b = Len(s) + 1, a < b,
         NEW d, NEW e, ShortestDigits(d, e), NEW z \in Nat, HasDigits(s, a, b, d, z),
         e = (a - 1) - (z + 1)
  PROVE  Denotes(s, d, e)
  <1>1. s \in Bytes /\ a \in Nat /\ b \in Nat /\ Len(s) \in Nat
    BY BytesOf DEF Layout
  <1>2. a <= Len(s)
    BY <1>1
  <1>3. CASE d[1] # Zero /\ d[Len(d)] # Zero
    <2>1. SubSeq(s, b, Len(s)) = << >>
      <3> DEFINE n == Len(s)
      <3>1. b \in Nat \ {0} /\ b <= n + 1 /\ n <= Len(s) /\ n < b /\ n \in Nat
        BY <1>1
      <3> HIDE DEF n
      <3>2. SubSeq(s, b, n) = << >>
        BY <1>1, <3>1, AllDigitsIs
      <3> QED
        BY <3>2 DEF n
    <2>2. PowerOf(SubSeq(s, b, Len(s))) = 0
      BY <2>1 DEF PowerOf
    <2>3. d \in Bytes /\ Len(d) >= 1 /\ e \in Int
      BY DEF ShortestDigits
    <2>4. Value(s) = [d |-> d, e |-> PowerOf(SubSeq(s, b, Len(s))) + ((a - 1) - (z + 1))]
      BY <1>3, <2>3, LayoutValue
    <2>5. 0 + ((a - 1) - (z + 1)) = e
      BY <1>1, <2>3
    <2>6. Value(s) = [d |-> d, e |-> e]
      BY <2>2, <2>4, <2>5, Zenon
    <2> QED
      BY <1>2, <2>6 DEF Denotes
  <1>4. CASE d = <<Zero>> /\ e = 0
    <2>1. Len(d) = 1 /\ d[1] = Zero
      BY <1>4
    <2>2. ASSUME NEW i \in 1..ShownLength(a, b) PROVE ShownAt(s, a, i) = Zero
      <3>1. ShownLength(a, b) \in Nat
        BY LayoutDigits
      <3>2. ShownAt(s, a, i) = IF z < i /\ i <= z + Len(d) THEN d[i - z] ELSE Zero
        BY DEF HasDigits
      <3>3. (z < i /\ i <= z + 1) => i - z = 1
        BY <3>1
      <3> QED
        BY <2>1, <3>2, <3>3
    <2>3. Value(s) = [d |-> <<Zero>>, e |-> 0]
      BY <2>2, LayoutZero
    <2> QED
      BY <1>2, <1>4, <2>3 DEF Denotes
  <1> QED
    BY <1>3, <1>4 DEF ShortestDigits

\* What format_double writes after the sign.
Magnitude(d, e) ==
    IF e \in -5..15 THEN (IF e >= 0 THEN FixedLarge(d, e) ELSE FixedSmall(d, e))
    ELSE Scientific(d, e)

LEMMA MagnitudeDenotes ==
  ASSUME NEW d, NEW e, ShortestDigits(d, e)
  PROVE  Denotes(Magnitude(d, e), d, e) /\ Len(Magnitude(d, e)) <= 23
  <1> DEFINE l == Len(d)
  <1>1. l \in Nat /\ l >= 1 /\ l <= 17 /\ e \in Int
    BY BytesOf DEF ShortestDigits
  <1>2. CASE e \in 0..15
    <2> DEFINE s == FixedLarge(d, e)
    <2>1. Magnitude(d, e) = s
      BY <1>2 DEF Magnitude
    <2>2. CASE l <= e + 1
      <3>1. Layout(s, 1, e + 2, e + 4) /\ Len(s) = e + 3 /\ HasDigits(s, e + 2, e + 4, d, 0)
        BY <1>2, <2>2, FixedWholeIs
      <3>2. /\ e + 4 = Len(s) + 1 /\ e + 2 < e + 4 /\ e = ((e + 2) - 1) - (0 + 1) /\ Len(s) <= 23
            /\ 0 \in Nat
        BY <1>2, <3>1
      <3> HIDE DEF s
      <3>3. Denotes(s, d, e)
        BY <3>1, <3>2, FixedDenotes
      <3> QED
        BY <2>1, <3>2, <3>3
    <2>3. CASE ~(l <= e + 1)
      <3>1. l > e + 1
        BY <1>1, <2>3
      <3>2. Layout(s, 1, e + 2, l + 2) /\ Len(s) = l + 1 /\ HasDigits(s, e + 2, l + 2, d, 0)
        BY <1>2, <3>1, FixedSplitIs
      <3> HIDE DEF s, l
      <3>3. /\ l + 2 = Len(s) + 1 /\ e + 2 < l + 2 /\ e = ((e + 2) - 1) - (0 + 1) /\ Len(s) <= 23
            /\ 0 \in Nat
        BY <1>1, <1>2, <3>1, <3>2
      <3>4. Denotes(s, d, e)
        BY <3>2, <3>3, FixedDenotes
      <3> QED
        BY <2>1, <3>3, <3>4
    <2> QED
      BY <2>2, <2>3
  <1>3. CASE e \in -5..-1
    <2> DEFINE s == FixedSmall(d, e)
               b == (2 - e) + l
    <2>1. Magnitude(d, e) = s
      BY <1>3 DEF Magnitude
    <2>2. Layout(s, 1, 2, b) /\ Len(s) = b - 1 /\ HasDigits(s, 2, b, d, -e)
      BY <1>3, FixedSmallIs
    <2>3. b \in Nat /\ 2 < b /\ b <= 24 /\ -e \in Nat /\ e = (2 - 1) - ((-e) + 1)
      BY <1>1, <1>3
    <2> HIDE DEF s, b
    <2>4. b = Len(s) + 1 /\ Len(s) <= 23
      BY <2>2, <2>3
    <2>5. Denotes(s, d, e)
      BY <2>2, <2>3, <2>4, FixedDenotes
    <2> QED
      BY <2>1, <2>4, <2>5
  <1>4. CASE ~(e \in -5..15)
    <2> DEFINE s == Scientific(d, e)
               b == AfterMantissa(d)
    <2>1. Magnitude(d, e) = s
      BY <1>4 DEF Magnitude
    <2>2. /\ Layout(s, 1, 2, b) /\ Len(s) <= l + 6 /\ Len(s) >= 2
          /\ HasDigits(s, 2, b, d, 0) /\ PowerOf(SubSeq(s, b, Len(s))) = e
      BY ScientificIs
    <2>3. d \in Bytes /\ d[1] # Zero /\ d[Len(d)] # Zero
      BY <1>4 DEF ShortestDigits
    <2> HIDE DEF s, b
    <2>4. Value(s) = [d |-> d, e |-> PowerOf(SubSeq(s, b, Len(s))) + ((2 - 1) - (0 + 1))]
      <3>1. 0 \in Nat /\ Len(d) >= 1
        BY <1>1
      <3> QED
        BY <2>2, <2>3, <3>1, LayoutValue
    <2>5. e + ((2 - 1) - (0 + 1)) = e
      BY <1>1
    <2>6. Value(s) = [d |-> d, e |-> e]
      BY <2>2, <2>4, <2>5
    <2>7. Len(s) \in Nat
      BY <2>2, LayoutEnds
    <2>8. Len(s) <= 23 /\ 2 <= Len(s)
      BY <1>1, <2>2, <2>7
    <2>9. Denotes(s, d, e)
      BY <2>2, <2>6, <2>8 DEF Denotes
    <2> QED
      BY <2>1, <2>8, <2>9
  <1> QED
    BY <1>1, <1>2, <1>3, <1>4

\* The sign, before it.
LEMMA SignedLayout ==
  ASSUME NEW s, NEW a, NEW b, Layout(s, 1, a, b)
  PROVE  LET text == <<Minus>> \o s IN
         /\ Layout(text, 2, a + 1, b + 1) /\ Len(text) = Len(s) + 1
         /\ text[1] = Minus /\ text # << >> /\ Tail(text) = s
  <1> DEFINE u == <<Minus>>
             text == u \o s
             n == Len(s)
  <1>1. s \in Bytes /\ n \in Nat /\ a \in Nat /\ b \in Nat /\ 1 < a /\ a <= b /\ b <= n + 1
    BY LayoutEnds DEF Layout
  <1>2. u \in Bytes /\ Len(u) = 1 /\ u[1] = Minus
    BY NoDigits DEF Bytes
  <1> HIDE DEF u
  <1>3. /\ text \in Bytes /\ Len(text) = 1 + n
        /\ \A i \in 1..1 : text[i] = u[i]
        /\ \A i \in 1..n : text[1 + i] = s[i]
    <2>1. /\ text \in Bytes /\ Len(text) = Len(u) + Len(s)
          /\ \A i \in 1..Len(u) : text[i] = u[i]
          /\ \A i \in 1..Len(s) : text[Len(u) + i] = s[i]
      BY <1>1, <1>2, BytesJoined
    <2> HIDE DEF text
    <2> QED
      BY <1>2, <2>1
  <1> HIDE DEF text
  <1>4. text[1] = Minus /\ Len(text) = n + 1 /\ \A i \in 1..n : text[i + 1] = s[i]
    <2>1. text[1] = Minus
      BY <1>2, <1>3
    <2>2. ASSUME NEW i \in 1..n PROVE text[i + 1] = s[i]
      <3>1. 1 + i = i + 1
        BY <1>1
      <3> QED
        BY <1>3, <3>1
    <2>3. Len(text) = n + 1
      BY <1>1, <1>3
    <2> QED
      BY <2>1, <2>2, <2>3
  <1> HIDE DEF n
  <1>5. ASSUME NEW i \in Nat, NEW j \in Nat, 1 <= i, j <= n, \A k \in i..j : s[k] \in Digits
        PROVE  \A k \in (i + 1)..(j + 1) : text[k] \in Digits
    <2> SUFFICES ASSUME NEW k \in (i + 1)..(j + 1) PROVE text[k] \in Digits
      OBVIOUS
    <2>1. k - 1 \in i..j /\ k - 1 \in 1..n /\ (k - 1) + 1 = k
      BY <1>1, <1>5
    <2>2. text[(k - 1) + 1] = s[k - 1]
      BY <1>4, <2>1
    <2> QED
      BY <1>5, <2>1, <2>2
  <1>6. Layout(text, 2, a + 1, b + 1)
    <2>1. /\ 2 \in Nat \ {0} /\ a + 1 \in Nat /\ b + 1 \in Nat /\ 2 < a + 1 /\ a + 1 <= b + 1
          /\ b + 1 <= Len(text) + 1
      BY <1>1, <1>4
    <2>2. \A k \in 2..((a + 1) - 1) : text[k] \in Digits
      <3>1. \A k \in 1..(a - 1) : s[k] \in Digits
        BY DEF Layout
      <3>2. 1 \in Nat /\ a - 1 \in Nat /\ 1 <= 1 /\ a - 1 <= n /\ (a - 1) + 1 = (a + 1) - 1 /\ 1 + 1 = 2
        BY <1>1
      <3>3. \A k \in (1 + 1)..((a - 1) + 1) : text[k] \in Digits
        BY <1>5, <3>1, <3>2
      <3> QED
        BY <3>2, <3>3
    <2>3. text[2] = Zero => a + 1 = 2 + 1
      <3>1. 1 \in 1..n /\ 1 + 1 = 2
        BY <1>1
      <3>2. text[2] = s[1]
        BY <1>4, <3>1
      <3>3. s[1] = Zero => a = 1 + 1
        BY DEF Layout
      <3> QED
        BY <3>2, <3>3
    <2>4. \/ b + 1 = a + 1
          \/ /\ (a + 1) + 2 <= b + 1 /\ text[a + 1] = Dot
             /\ \A k \in ((a + 1) + 1)..((b + 1) - 1) : text[k] \in Digits
      <3>1. CASE b = a
        BY <3>1
      <3>2. CASE b # a
        <4>1. a + 2 <= b /\ s[a] = Dot /\ \A k \in (a + 1)..(b - 1) : s[k] \in Digits
          BY <3>2 DEF Layout
        <4>2. /\ a \in 1..n /\ (a + 1) + 2 <= b + 1 /\ a + 1 \in Nat /\ b - 1 \in Nat /\ 1 <= a + 1
              /\ b - 1 <= n /\ (b - 1) + 1 = (b + 1) - 1
          BY <1>1, <4>1
        <4>3. \A k \in ((a + 1) + 1)..((b - 1) + 1) : text[k] \in Digits
          BY <1>5, <4>1, <4>2
        <4>4. text[a + 1] = Dot
          BY <1>4, <4>1, <4>2
        <4>5. \A k \in ((a + 1) + 1)..((b + 1) - 1) : text[k] \in Digits
          BY <4>2, <4>3
        <4> QED
          BY <4>2, <4>4, <4>5
      <3> QED
        BY <3>1, <3>2
    <2>5. \/ b + 1 = Len(text) + 1
          \/ /\ (b + 1) + 2 <= Len(text) /\ text[b + 1] = 101 /\ text[(b + 1) + 1] \in {Plus, Minus}
             /\ \A k \in ((b + 1) + 2)..Len(text) : text[k] \in Digits
      <3>1. CASE b = n + 1
        BY <1>4, <3>1
      <3>2. CASE b # n + 1
        <4>1. /\ b + 2 <= n /\ s[b] = 101 /\ s[b + 1] \in {Plus, Minus}
              /\ \A k \in (b + 2)..n : s[k] \in Digits
          BY <3>2 DEF Layout, n
        <4>2. /\ b \in 1..n /\ b + 1 \in 1..n /\ (b + 1) + 2 <= n + 1 /\ b + 2 \in Nat /\ 1 <= b + 2 /\ n <= n
              /\ (b + 2) + 1 = (b + 1) + 2
          BY <1>1, <4>1
        <4>3. \A k \in ((b + 2) + 1)..(n + 1) : text[k] \in Digits
          BY <1>1, <1>5, <4>1, <4>2, ZenonT(30)
        <4>4. text[b + 1] = 101 /\ text[(b + 1) + 1] \in {Plus, Minus}
          BY <1>4, <4>1, <4>2
        <4>5. \A k \in ((b + 1) + 2)..Len(text) : text[k] \in Digits
          BY <1>4, <4>2, <4>3
        <4>6. (b + 1) + 2 <= Len(text)
          BY <1>4, <4>2
        <4> QED
          BY <4>4, <4>5, <4>6
      <3> QED
        BY <3>1, <3>2
    <2> QED
      BY <1>3, <2>1, <2>2, <2>3, <2>4, <2>5 DEF Layout
  <1>7. text # << >>
    <2>1. Len(text) # 0
      BY <1>1, <1>4
    <2> QED
      BY <2>1
  <1>8. Tail(text) = s
    <2> DEFINE t == Tail(text)
    <2>1. t \in Seq(Byte) /\ Len(t) = n /\ \A i \in 1..n : t[i] = text[i + 1]
      <3>1. text \in Seq(Byte)
        BY <1>3 DEF Bytes
      <3>2. t \in Seq(Byte) /\ Len(t) = Len(text) - 1 /\ \A i \in 1..Len(t) : t[i] = text[i + 1]
        BY <1>7, <3>1, HeadTailProperties
      <3>3. Len(text) - 1 = n
        BY <1>1, <1>4
      <3> HIDE DEF t
      <3> QED
        BY <3>2, <3>3
    <2> HIDE DEF t
    <2>2. \A i \in 1..n : t[i] = s[i]
      BY <1>4, <2>1
    <2>3. s \in Seq(Byte) /\ Len(s) = n
      BY <1>1 DEF Bytes, n
    <2>4. t = s
      BY <2>1, <2>2, <2>3, SeqEqual
    <2> QED
      BY <2>4 DEF t
  <1> QED
    BY <1>4, <1>6, <1>7, <1>8 DEF text, u, n

\* What format_double writes is one number that is no integer and denotes the double.
LEMMA DoubleReadBack ==
  ASSUME NEW negative \in BOOLEAN, NEW d, NEW e, ShortestDigits(d, e)
  PROVE  LET text == FormatDouble(negative, d, e) IN
         /\ ScanNumber(text) = Scanning(Len(text) + 1, FALSE)
         /\ negative <=> text[1] = Minus
         /\ Value(Unsigned(text)) = [d |-> d, e |-> e]
         /\ Len(text) <= 24
  <1> DEFINE s == Magnitude(d, e)
             text == FormatDouble(negative, d, e)
  <1>1. text = (IF negative THEN <<Minus>> ELSE << >>) \o s
    BY DEF FormatDouble, Magnitude
  <1>2. Denotes(s, d, e) /\ Len(s) <= 23
    BY MagnitudeDenotes
  <1> HIDE DEF s, text
  <1>3. PICK a, b : Layout(s, 1, a, b) /\ a <= Len(s)
    BY <1>2 DEF Denotes
  <1>4. Value(s) = [d |-> d, e |-> e]
    BY <1>2 DEF Denotes
  <1>5. s \in Bytes /\ Len(s) \in Nat /\ a \in Nat /\ s[1] \in Digits
    <2>1. s \in Bytes /\ Len(s) \in Nat /\ a \in Nat /\ 1 < a
      BY <1>3, LayoutEnds DEF Layout
    <2>2. 1 \in 1..(a - 1)
      BY <2>1
    <2>3. \A k \in 1..(a - 1) : s[k] \in Digits
      BY <1>3 DEF Layout
    <2> QED
      BY <2>1, <2>2, <2>3
  <1>6. CASE ~negative
    <2>1. text = s
      BY <1>1, <1>5, <1>6, ConcatEmptySeq DEF Bytes
    <2>2. text[1] # Minus
      BY <1>5, <2>1, NoDigits
    <2>3. Unsigned(text) = s
      BY <2>1, <2>2 DEF Unsigned
    <2>4. ScanNumber(s) = Scanning(Len(s) + 1, Len(s) + 1 = a)
      BY <1>3, LayoutScans
    <2>5. (Len(s) + 1 = a) = FALSE
      <3> DEFINE n == Len(s)
      <3>1. n \in Nat /\ a <= n
        BY <1>3, <1>5
      <3> HIDE DEF n
      <3>2. n + 1 # a
        BY <1>5, <3>1
      <3> QED
        BY <3>2 DEF n
    <2>6. ScanNumber(s) = Scanning(Len(s) + 1, FALSE)
      BY <2>4, <2>5
    <2>7. Len(s) <= 24
      BY <1>2, <1>5
    <2> QED
      BY <1>4, <1>6, <2>1, <2>2, <2>3, <2>6, <2>7 DEF text
  <1>7. CASE negative
    <2>1. text = <<Minus>> \o s
      BY <1>1, <1>7
    <2>2. /\ Layout(text, 2, a + 1, b + 1) /\ Len(text) = Len(s) + 1
          /\ text[1] = Minus /\ text # << >> /\ Tail(text) = s
      BY <1>3, <2>1, SignedLayout
    <2>3. Unsigned(text) = s
      BY <2>2 DEF Unsigned
    <2>4. ScanNumber(text) = Scanning(Len(text) + 1, Len(text) + 1 = a + 1)
      BY <2>2, LayoutScans
    <2>5. (Len(text) + 1 = a + 1) = FALSE /\ Len(text) <= 24
      <3> DEFINE n == Len(s)
                 m == Len(text)
      <3>1. n \in Nat /\ a <= n /\ n <= 23 /\ m = n + 1
        BY <1>2, <1>3, <1>5, <2>2
      <3> HIDE DEF n, m
      <3>2. m + 1 # a + 1 /\ m <= 24
        BY <1>5, <3>1
      <3> QED
        BY <3>2 DEF m
    <2>6. ScanNumber(text) = Scanning(Len(text) + 1, FALSE)
      BY <2>4, <2>5
    <2> QED
      BY <1>4, <1>7, <2>2, <2>3, <2>5, <2>6 DEF text
  <1> QED
    BY <1>6, <1>7

-----------------------------------------------------------------------------
(* scan_number takes exactly the numbers.                                  *)

\* A run of digits ends somewhere, at the end of the text if not before.
LEMMA AfterDigitsEnds ==
  ASSUME NEW text \in Bytes, NEW i \in Nat \ {0}, i <= Len(text) + 1
  PROVE  LET j == AfterDigits(text, i) IN
         /\ j \in Nat /\ i <= j /\ j <= Len(text) + 1
         /\ \A k \in i..(j - 1) : text[k] \in Digits
         /\ ~IsAt(text, j, Digits)
  <1> DEFINE n == Len(text)
             T == {j \in i..(n + 1) : ~IsAt(text, j, Digits)}
  <1>1. n \in Nat
    BY BytesOf
  <1>2. n + 1 \in T
    <2>1. ~Has(text, n + 1, 1)
      BY <1>1 DEF Has
    <2> QED
      BY <1>1, <2>1 DEF IsAt
  <1>3. T \subseteq Nat
    BY <1>1
  <1>4. PICK j \in T : \A k \in T : j <= k
    BY <1>2, <1>3, FirstExists
  <1>5. j \in Nat /\ i <= j /\ j <= n + 1 /\ ~IsAt(text, j, Digits)
    BY <1>1, <1>4
  <1>6. ASSUME NEW k \in i..(j - 1) PROVE text[k] \in Digits
    <2>1. k \notin T /\ k \in i..(n + 1)
      BY <1>1, <1>4, <1>5
    <2> QED
      BY <2>1 DEF IsAt
  <1>7. AfterDigits(text, i) = j
    BY <1>5, <1>6, AfterDigitsIs
  <1> QED
    BY <1>5, <1>6, <1>7

\* The text from i on is a number whose integer ends before a and its fraction before b.
NumberAt(text, i, a, b) ==
    /\ a \in Nat /\ b \in Nat /\ i < a /\ a <= b /\ b <= Len(text) + 1
    /\ \A k \in i..(a - 1) : text[k] \in Digits
    /\ text[i] = Zero => a = i + 1
    /\ \/ b = a
       \/ a + 2 <= b /\ text[a] = Dot /\ \A k \in (a + 1)..(b - 1) : text[k] \in Digits
    /\ \/ b = Len(text) + 1
       \/ /\ b <= Len(text) /\ text[b] \in {69, 101}
          /\ \/ b + 1 <= Len(text) /\ \A k \in (b + 1)..Len(text) : text[k] \in Digits
             \/ /\ b + 2 <= Len(text) /\ text[b + 1] \in {Plus, Minus}
                /\ \A k \in (b + 2)..Len(text) : text[k] \in Digits

\* Where scan_number starts.
Start(text) == IF IsAt(text, 1, {Minus}) THEN 2 ELSE 1

\* The parts of the number are where AfterInteger, AfterFraction and AfterExponent find
\* them.
LEMMA NumberParts ==
  ASSUME NEW text \in Bytes, NEW i \in Nat \ {0}, NEW a, NEW b, NumberAt(text, i, a, b)
  PROVE  /\ IsAt(text, i, Digits) /\ AfterInteger(text, i) = a
         /\ AfterFraction(text, a) = b /\ AfterExponent(text, b) = Len(text) + 1
  <1> DEFINE n == Len(text)
  <1>1. /\ n \in Nat /\ a \in Nat /\ b \in Nat /\ i < a /\ a <= b /\ b <= n + 1
        /\ b = a \/ a + 2 <= b
    BY BytesOf DEF NumberAt
  <1>2. \A j \in Nat : Has(text, j, 1) <=> j <= n
    BY <1>1 DEF Has
  <1>3. \A S : ~IsAt(text, n + 1, S)
    BY <1>1, <1>2 DEF IsAt
  <1>4. ~IsAt(text, b, Digits) /\ ~IsAt(text, b, {Dot}) /\ (b # n + 1 => IsAt(text, b, {69, 101}))
    <2>1. CASE b = n + 1
      BY <1>3, <2>1
    <2>2. CASE b # n + 1
      <3>1. b <= n /\ text[b] \in {69, 101}
        BY <2>2 DEF NumberAt
      <3>2. Has(text, b, 1)
        BY <1>1, <1>2, <3>1
      <3> QED
        BY <3>1, <3>2, NoDigits DEF IsAt
    <2> QED
      BY <2>1, <2>2
  <1>5. ~IsAt(text, a, Digits) /\ (b # a => IsAt(text, a, {Dot}))
    <2>1. CASE b = a
      BY <1>4, <2>1
    <2>2. CASE b # a
      <3>1. text[a] = Dot
        BY <2>2 DEF NumberAt
      <3>2. Has(text, a, 1)
        BY <1>1, <1>2, <2>2
      <3> QED
        BY <3>1, <3>2, NoDigits DEF IsAt
    <2> QED
      BY <2>1, <2>2
  <1>6. (\A k \in i..(a - 1) : text[k] \in Digits) /\ (text[i] = Zero => a = i + 1)
    BY DEF NumberAt
  <1>7. IsAt(text, i, Digits)
    <2>1. i \in i..(a - 1) /\ i <= n
      BY <1>1
    <2> QED
      BY <1>1, <1>2, <1>6, <2>1 DEF IsAt
  <1>8. AfterInteger(text, i) = a
    <2>1. CASE text[i] # Zero
      <3>1. i <= a /\ a <= Len(text) + 1
        BY <1>1
      <3>2. AfterDigits(text, i) = a
        BY <1>1, <1>5, <1>6, <3>1, AfterDigitsIs
      <3> QED
        BY <2>1, <3>2 DEF AfterInteger
    <2>2. CASE text[i] = Zero
      BY <1>5, <1>6, <2>2 DEF AfterInteger
    <2> QED
      BY <2>1, <2>2
  <1>9. AfterFraction(text, a) = b
    <2>1. CASE b = a
      BY <1>4, <2>1 DEF AfterFraction
    <2>2. CASE b # a
      <3>1. \A k \in (a + 1)..(b - 1) : text[k] \in Digits
        BY <2>2 DEF NumberAt
      <3>2. a + 1 \in Nat \ {0} /\ a + 1 <= b /\ b <= Len(text) + 1 /\ a + 1 \in (a + 1)..(b - 1) /\ a + 1 <= n
        BY <1>1, <2>2
      <3>3. AfterDigits(text, a + 1) = b
        BY <1>1, <1>4, <3>1, <3>2, AfterDigitsIs
      <3>4. IsAt(text, a + 1, Digits)
        BY <1>2, <3>1, <3>2 DEF IsAt
      <3> QED
        BY <1>5, <2>2, <3>3, <3>4 DEF AfterFraction
    <2> QED
      BY <2>1, <2>2
  <1>10. AfterExponent(text, b) = n + 1
    <2>1. CASE b = n + 1
      BY <1>3, <2>1 DEF AfterExponent
    <2>2. ASSUME NEW j \in Nat \ {0}, j <= n, \A k \in j..n : text[k] \in Digits
          PROVE  AfterDigits(text, j) = n + 1 /\ IsAt(text, j, Digits)
      <3>1. n + 1 \in Nat /\ j <= n + 1 /\ (n + 1) - 1 = n /\ j \in j..n
        BY <1>1, <2>2
      <3>2. IsAt(text, j, Digits)
        BY <1>2, <2>2, <3>1 DEF IsAt
      <3>3. ~IsAt(text, n + 1, Digits)
        BY <1>3
      <3>4. \A k \in j..((n + 1) - 1) : text[k] \in Digits
        BY <2>2, <3>1
      <3> HIDE DEF n
      <3>5. n + 1 <= Len(text) + 1
        BY <1>1 DEF n
      <3> QED
        BY <3>1, <3>2, <3>3, <3>4, <3>5, AfterDigitsIs
    <2>3. CASE b # n + 1
      <3>1. b + 1 \in Nat \ {0} /\ b + 2 \in Nat \ {0}
        BY <1>1
      <3>2. CASE b + 1 <= n /\ \A k \in (b + 1)..n : text[k] \in Digits
        <4>1. AfterDigits(text, b + 1) = n + 1 /\ IsAt(text, b + 1, Digits)
          BY <2>2, <3>1, <3>2
        <4>2. ~IsAt(text, b + 1, {Plus, Minus})
          BY <4>1, NoDigits DEF IsAt
        <4> QED
          BY <1>4, <2>3, <4>1, <4>2 DEF AfterExponent
      <3>3. CASE /\ b + 2 <= n /\ text[b + 1] \in {Plus, Minus}
                 /\ \A k \in (b + 2)..n : text[k] \in Digits
        <4>1. AfterDigits(text, b + 2) = n + 1 /\ IsAt(text, b + 2, Digits)
          BY <2>2, <3>1, <3>3
        <4>2. IsAt(text, b + 1, {Plus, Minus})
          BY <1>1, <1>2, <3>1, <3>3 DEF IsAt
        <4> QED
          BY <1>4, <2>3, <4>1, <4>2 DEF AfterExponent
      <3> QED
        BY <2>3, <3>2, <3>3 DEF NumberAt
    <2> QED
      BY <2>1, <2>3
  <1> QED
    BY <1>7, <1>8, <1>9, <1>10

\* And where they find parts up to the end of the text, there is a number.
LEMMA NumberFound ==
  ASSUME NEW text \in Bytes, NEW i \in Nat \ {0}, IsAt(text, i, Digits),
         NEW a, a = AfterInteger(text, i), a # 0,
         NEW b, b = AfterFraction(text, a), b # 0,
         AfterExponent(text, b) = Len(text) + 1
  PROVE  NumberAt(text, i, a, b)
  <1> DEFINE n == Len(text)
  <1>1. n \in Nat
    BY BytesOf
  <1>2. \A j \in Nat : Has(text, j, 1) <=> j <= n
    BY <1>1 DEF Has
  <1>3. i <= n /\ text[i] \in Digits
    BY <1>2 DEF IsAt
  <1>4. ASSUME NEW j \in Nat \ {0}, IsAt(text, j, Digits)
        PROVE  LET m == AfterDigits(text, j) IN
               /\ m \in Nat /\ j < m /\ m <= n + 1 /\ \A k \in j..(m - 1) : text[k] \in Digits
    <2> DEFINE m == AfterDigits(text, j)
    <2>1. j <= n
      BY <1>2, <1>4 DEF IsAt
    <2>2. j <= Len(text) + 1
      BY <1>1, <2>1
    <2>3. /\ m \in Nat /\ j <= m /\ m <= n + 1 /\ (\A k \in j..(m - 1) : text[k] \in Digits)
          /\ ~IsAt(text, m, Digits)
      BY <2>2, AfterDigitsEnds
    <2>4. m # j
      BY <1>4, <2>3
    <2> HIDE DEF m
    <2>5. j < m
      BY <2>3, <2>4
    <2> QED
      BY <2>3, <2>5 DEF m
  <1>5. /\ a \in Nat /\ i < a /\ a <= n + 1 /\ (\A k \in i..(a - 1) : text[k] \in Digits)
        /\ text[i] = Zero => a = i + 1
    <2>1. CASE text[i] # Zero
      <3>1. a = AfterDigits(text, i)
        BY <2>1 DEF AfterInteger
      <3> QED
        BY <1>4, <2>1, <3>1
    <2>2. CASE text[i] = Zero
      <3>1. a = i + 1
        BY <2>2 DEF AfterInteger
      <3> QED
        BY <1>1, <1>3, <3>1
    <2> QED
      BY <2>1, <2>2
  <1>6. /\ b \in Nat /\ a <= b /\ b <= n + 1
        /\ \/ b = a
           \/ a + 2 <= b /\ text[a] = Dot /\ \A k \in (a + 1)..(b - 1) : text[k] \in Digits
    <2>1. CASE ~IsAt(text, a, {Dot})
      BY <1>5, <2>1 DEF AfterFraction
    <2>2. CASE IsAt(text, a, {Dot})
      <3>1. IsAt(text, a + 1, Digits) /\ b = AfterDigits(text, a + 1) /\ text[a] = Dot
        BY <2>2 DEF AfterFraction, IsAt
      <3>2. a + 1 \in Nat \ {0}
        BY <1>5
      <3>3. /\ b \in Nat /\ a + 1 < b /\ b <= n + 1
            /\ \A k \in (a + 1)..(b - 1) : text[k] \in Digits
        BY <1>4, <3>1, <3>2
      <3> QED
        BY <1>5, <3>1, <3>3
    <2> QED
      BY <2>1, <2>2
  <1>7. \/ b = n + 1
        \/ /\ b <= n /\ text[b] \in {69, 101}
           /\ \/ b + 1 <= n /\ \A k \in (b + 1)..n : text[k] \in Digits
              \/ /\ b + 2 <= n /\ text[b + 1] \in {Plus, Minus}
                 /\ \A k \in (b + 2)..n : text[k] \in Digits
    <2>1. CASE ~IsAt(text, b, {69, 101})
      BY <2>1 DEF AfterExponent
    <2>2. CASE IsAt(text, b, {69, 101})
      <3>1. b <= n /\ text[b] \in {69, 101}
        BY <1>2, <1>6, <2>2 DEF IsAt
      <3>2. b + 1 \in Nat \ {0} /\ b + 2 \in Nat \ {0} /\ n + 1 # 0 /\ (n + 1) - 1 = n
        BY <1>1, <1>6
      <3>3. CASE IsAt(text, b + 1, {Plus, Minus})
        <4>1. IsAt(text, b + 2, Digits) /\ AfterDigits(text, b + 2) = n + 1 /\ text[b + 1] \in {Plus, Minus}
          BY <2>2, <3>2, <3>3 DEF AfterExponent, IsAt
        <4>2. b + 2 < n + 1 /\ \A k \in (b + 2)..((n + 1) - 1) : text[k] \in Digits
          BY <1>4, <3>2, <4>1
        <4> QED
          BY <1>1, <1>6, <3>1, <3>2, <4>1, <4>2
      <3>4. CASE ~IsAt(text, b + 1, {Plus, Minus})
        <4>1. IsAt(text, b + 1, Digits) /\ AfterDigits(text, b + 1) = n + 1
          BY <2>2, <3>2, <3>4 DEF AfterExponent
        <4>2. b + 1 < n + 1 /\ \A k \in (b + 1)..((n + 1) - 1) : text[k] \in Digits
          BY <1>4, <3>2, <4>1
        <4> QED
          BY <1>1, <1>6, <3>1, <3>2, <4>1, <4>2
      <3> QED
        BY <3>3, <3>4
    <2> QED
      BY <2>1, <2>2
  <1> QED
    BY <1>5, <1>6, <1>7 DEF NumberAt

\* scan_number takes the whole text exactly when a number starts at its first byte or
\* behind its sign.
LEMMA ScanWholeNumber ==
  ASSUME NEW text \in Bytes
  PROVE  LET r == ScanNumber(text)
             whole == r.err = "none" /\ r.pos = Len(text) + 1
         IN  /\ \A a, b : NumberAt(text, Start(text), a, b) =>
                             r = Scanning(Len(text) + 1, Len(text) + 1 = a)
             /\ whole => \E a, b : NumberAt(text, Start(text), a, b)
  <1> DEFINE r == ScanNumber(text)
             n == Len(text)
             i == Start(text)
  <1>1. n \in Nat /\ i \in {1, 2} /\ i \in Nat \ {0}
    BY BytesOf DEF Start
  <1>2. \A j \in Nat : Has(text, j, 1) <=> j <= n
    BY <1>1 DEF Has
  <1>3. IsAt(text, i, Digits) => IsAt(text, 1, Digits \cup {Minus})
    BY DEF Start, IsAt
  <1> DEFINE whole == AfterInteger(text, i)
             fraction == AfterFraction(text, whole)
             exponent == AfterExponent(text, fraction)
             failed == [err |-> "MalformedJson", pos |-> 1, out |-> FALSE]
  <1>4. r = IF ~IsAt(text, 1, Digits \cup {Minus}) THEN [failed EXCEPT !.err = "WrongType"]
            ELSE IF ~IsAt(text, i, Digits) THEN failed
            ELSE IF whole = 0 THEN failed
            ELSE IF fraction = 0 THEN failed
            ELSE IF exponent = 0 THEN failed
            ELSE Scanning(exponent, exponent = whole)
    BY Zenon DEF ScanNumber, Start
  <1> HIDE DEF r, i, n
  <1>5. ASSUME NEW a, NEW b, NumberAt(text, i, a, b)
        PROVE  r = Scanning(n + 1, n + 1 = a)
    <2>1. /\ IsAt(text, i, Digits) /\ whole = a /\ AfterFraction(text, a) = b
          /\ AfterExponent(text, b) = n + 1
      BY <1>1, <1>5, NumberParts DEF n
    <2>2. a # 0 /\ b # 0 /\ n + 1 # 0
      BY <1>1, <1>5 DEF NumberAt
    <2>3. fraction = b /\ exponent = n + 1
      BY <2>1
    <2> HIDE DEF whole, fraction, exponent, failed
    <2> QED
      BY <1>3, <1>4, <2>1, <2>2, <2>3
  <1>6. ASSUME r.err = "none", r.pos = n + 1
        PROVE  NumberAt(text, i, whole, fraction)
    <2>1. failed.err # "none" /\ [failed EXCEPT !.err = "WrongType"].err # "none"
      OBVIOUS
    <2> HIDE DEF whole, fraction, exponent, failed
    <2>2. /\ IsAt(text, i, Digits) /\ whole # 0 /\ fraction # 0
          /\ r = Scanning(exponent, exponent = whole)
      BY <1>4, <1>6, <2>1
    <2>3. exponent = n + 1
      BY <1>6, <2>2 DEF Scanning
    <2>4. /\ whole = AfterInteger(text, i) /\ fraction = AfterFraction(text, whole)
          /\ AfterExponent(text, fraction) = Len(text) + 1
      BY <2>3 DEF whole, fraction, exponent, n
    <2> QED
      BY <1>1, <2>2, <2>4, NumberFound
  <1> HIDE DEF whole, fraction
  <1> QED
    BY <1>5, <1>6 DEF r, n, i

\* The number behind the sign.
LEMMA UnsignedIs ==
  ASSUME NEW text \in Bytes
  PROVE  LET u == Unsigned(text)
             i == Start(text)
         IN  /\ Len(text) \in Nat /\ Len(u) \in Nat /\ i \in {1, 2} /\ u \in Bytes
             /\ Len(u) = (Len(text) + 1) - i
             /\ \A k \in 1..Len(u) : u[k] = text[(i - 1) + k]
  <1> DEFINE u == Unsigned(text)
             n == Len(text)
             l == Len(u)
             i == Start(text)
  <1>1. n \in Nat /\ text \in Seq(Byte)
    BY DEF Bytes
  <1>2. CASE text # << >> /\ text[1] = Minus
    <2>1. i = 2
      BY <1>1, <1>2 DEF Start, IsAt, Has, Bytes
    <2>2. u = Tail(text)
      BY <1>2 DEF Unsigned
    <2> QED
      BY <1>1, <1>2, <2>1, <2>2 DEF Bytes
  <1>3. CASE ~(text # << >> /\ text[1] = Minus)
    <2>1. i = 1
      BY <1>1, <1>3 DEF Start, IsAt, Has, Bytes
    <2>2. u = text
      BY <1>3 DEF Unsigned
    <2> QED
      BY <1>1, <2>1, <2>2 DEF Bytes
  <1> QED
    BY <1>2, <1>3

\* The parts of the grammar are those parts.
LEMMA PartsAreAt ==
  ASSUME NEW text \in Bytes, NEW x \in Nat, NEW y \in Nat, x <= y, y <= Len(Unsigned(text))
  PROVE  <<x, y>> \in Parts(Unsigned(text)) <=>
           NumberAt(text, Start(text), Start(text) + x, Start(text) + y)
  <1> DEFINE u == Unsigned(text)
             n == Len(text)
             l == Len(u)
             i == Start(text)
  <1>1. /\ n \in Nat /\ l \in Nat /\ i \in {1, 2} /\ u \in Bytes /\ l = (n + 1) - i
        /\ \A k \in 1..l : u[k] = text[(i - 1) + k]
    BY UnsignedIs
  <1> DEFINE a == i + x
             b == i + y
  <1>2. /\ l \in Nat /\ a \in Nat /\ b \in Nat /\ a <= b /\ b <= n + 1 /\ (i < a <=> x >= 1) /\ i \in Nat
        /\ (b = a <=> x = y) /\ (a + 2 <= b <=> x + 2 <= y) /\ (b = n + 1 <=> y = l)
        /\ (b + 1 <= n <=> y + 2 <= l) /\ (b + 2 <= n <=> y + 3 <= l) /\ (b <= n <=> y + 1 <= l)
        /\ (a = i + 1 <=> x = 1) /\ y <= l
    <2>1. y <= l
      OBVIOUS
    <2> HIDE DEF u, n, l, i
    <2> QED
      BY <1>1, <2>1
  <1>3. <<x, y>> \in Parts(u) <=>
           /\ x >= 1 /\ (\A k \in 1..x : u[k] \in Digits) /\ (u[1] = Zero => x = 1)
           /\ \/ x = y
              \/ x + 2 <= y /\ u[x + 1] = Dot /\ \A k \in (x + 2)..y : u[k] \in Digits
           /\ \/ y = l
              \/ /\ u[y + 1] \in {69, 101}
                 /\ \/ y + 2 <= l /\ \A k \in (y + 2)..l : u[k] \in Digits
                    \/ /\ y + 3 <= l /\ u[y + 2] \in {Plus, Minus}
                       /\ \A k \in (y + 3)..l : u[k] \in Digits
    BY <1>1, PartsIs, Zenon DEF PartsAt
  <1> HIDE DEF u, n, l, i
  <1>4. ASSUME NEW p \in Nat, NEW q \in Nat, p >= 1, q <= l
        PROVE  (\A k \in p..q : u[k] \in Digits)
                 <=> \A k \in ((i - 1) + p)..((i - 1) + q) : text[k] \in Digits
    <2>1. ASSUME \A k \in p..q : u[k] \in Digits, NEW k \in ((i - 1) + p)..((i - 1) + q)
          PROVE  text[k] \in Digits
      <3>1. k - (i - 1) \in p..q /\ k - (i - 1) \in 1..l /\ (i - 1) + (k - (i - 1)) = k
        BY <1>2, <1>4
      <3> QED
        BY <1>1, <2>1, <3>1
    <2>2. ASSUME \A k \in ((i - 1) + p)..((i - 1) + q) : text[k] \in Digits, NEW k \in p..q
          PROVE  u[k] \in Digits
      <3>1. (i - 1) + k \in ((i - 1) + p)..((i - 1) + q) /\ k \in 1..l
        BY <1>2, <1>4
      <3> QED
        BY <1>1, <2>2, <3>1
    <2> QED
      BY <2>1, <2>2
  <1>5. (\A k \in 1..x : u[k] \in Digits) <=> \A k \in i..(a - 1) : text[k] \in Digits
    <2>1. 1 \in Nat /\ x <= l /\ (i - 1) + 1 = i /\ (i - 1) + x = a - 1
      BY <1>2
    <2>2. (\A k \in 1..x : u[k] \in Digits)
                 <=> \A k \in ((i - 1) + 1)..((i - 1) + x) : text[k] \in Digits
      BY <1>4, <2>1
    <2> QED
      BY <2>1, <2>2
  <1>6. (\A k \in (x + 2)..y : u[k] \in Digits) <=> \A k \in (a + 1)..(b - 1) : text[k] \in Digits
    <2>1. x + 2 \in Nat /\ x + 2 >= 1 /\ y <= l /\ (i - 1) + (x + 2) = a + 1 /\ (i - 1) + y = b - 1
      BY <1>2
    <2>2. (\A k \in (x + 2)..y : u[k] \in Digits)
                 <=> \A k \in ((i - 1) + (x + 2))..((i - 1) + y) : text[k] \in Digits
      BY <1>4, <2>1
    <2> QED
      BY <2>1, <2>2
  <1>7. (\A k \in (y + 2)..l : u[k] \in Digits) <=> \A k \in (b + 1)..n : text[k] \in Digits
    <2>1. y + 2 \in Nat /\ y + 2 >= 1 /\ l <= l /\ (i - 1) + (y + 2) = b + 1 /\ (i - 1) + l = n
      BY <1>1, <1>2
    <2>2. (\A k \in (y + 2)..l : u[k] \in Digits)
                 <=> \A k \in ((i - 1) + (y + 2))..((i - 1) + l) : text[k] \in Digits
      BY <1>2, <1>4, <2>1
    <2> QED
      BY <2>1, <2>2
  <1>8. (\A k \in (y + 3)..l : u[k] \in Digits) <=> \A k \in (b + 2)..n : text[k] \in Digits
    <2>1. y + 3 \in Nat /\ y + 3 >= 1 /\ l <= l /\ (i - 1) + (y + 3) = b + 2 /\ (i - 1) + l = n
      BY <1>1, <1>2
    <2>2. (\A k \in (y + 3)..l : u[k] \in Digits)
                 <=> \A k \in ((i - 1) + (y + 3))..((i - 1) + l) : text[k] \in Digits
      BY <1>2, <1>4, <2>1
    <2> QED
      BY <2>1, <2>2
  <1>9. /\ x >= 1 => u[1] = text[i]
        /\ x + 2 <= y => u[x + 1] = text[a]
        /\ y + 1 <= l => u[y + 1] = text[b]
        /\ y + 3 <= l => u[y + 2] = text[b + 1]
    <2>1. x >= 1 => 1 \in 1..l /\ (i - 1) + 1 = i
      BY <1>2
    <2>2. x + 2 <= y => x + 1 \in 1..l /\ (i - 1) + (x + 1) = a
      BY <1>2
    <2>3. y + 1 <= l => y + 1 \in 1..l /\ (i - 1) + (y + 1) = b
      BY <1>2
    <2>4. y + 3 <= l => y + 2 \in 1..l /\ (i - 1) + (y + 2) = b + 1
      BY <1>2
    <2> HIDE DEF a, b
    <2> QED
      BY <1>1, <2>1, <2>2, <2>3, <2>4
  <1>10. y # l => y + 1 <= l
    BY <1>2
  <1> HIDE DEF a, b
  <1>11. <<x, y>> \in Parts(u) <=> NumberAt(text, i, a, b)
    <2> DEFINE D1 == \A k \in i..(a - 1) : text[k] \in Digits
               D2 == \A k \in (a + 1)..(b - 1) : text[k] \in Digits
               D3 == \A k \in (b + 1)..n : text[k] \in Digits
               D4 == \A k \in (b + 2)..n : text[k] \in Digits
    <2>1. NumberAt(text, i, a, b) <=>
            /\ i < a /\ D1 /\ (text[i] = Zero => a = i + 1)
            /\ b = a \/ (a + 2 <= b /\ text[a] = Dot /\ D2)
            /\ \/ b = n + 1
               \/ /\ b <= n /\ text[b] \in {69, 101}
                  /\ (b + 1 <= n /\ D3) \/ (b + 2 <= n /\ text[b + 1] \in {Plus, Minus} /\ D4)
      BY <1>2, Zenon DEF NumberAt, n
    <2>2. <<x, y>> \in Parts(u) <=>
            /\ x >= 1 /\ D1 /\ (u[1] = Zero => x = 1)
            /\ x = y \/ (x + 2 <= y /\ u[x + 1] = Dot /\ D2)
            /\ \/ y = l
               \/ /\ u[y + 1] \in {69, 101}
                  /\ (y + 2 <= l /\ D3) \/ (y + 3 <= l /\ u[y + 2] \in {Plus, Minus} /\ D4)
      BY <1>3, <1>5, <1>6, <1>7, <1>8, Zenon
    <2> HIDE DEF D1, D2, D3, D4
    <2> QED
      BY <1>2, <1>9, <1>10, <2>1, <2>2
  <1> QED
    BY <1>11 DEF a, b, u, i

\* scan_number takes a whole text exactly when it is a number of JSON's grammar, and says
\* that it is integral exactly when there is neither a fraction nor an exponent.
LEMMA NumberReadExactly ==
  ASSUME NEW text \in Bytes
  PROVE  LET s == ScanNumber(text)
             number == Unsigned(text)
             whole == s.err = "none" /\ s.pos = Len(text) + 1
         IN  /\ whole <=> Parts(number) # {}
             /\ whole => (s.out <=> <<Len(number), Len(number)>> \in Parts(number))
  <1> DEFINE s == ScanNumber(text)
             number == Unsigned(text)
             n == Len(text)
             l == Len(number)
             i == Start(text)
  <1>1. n \in Nat /\ i \in {1, 2} /\ l \in Nat /\ l = (n + 1) - i
    BY UnsignedIs
  <1>2. ASSUME NEW a, NEW b, NumberAt(text, i, a, b) PROVE s = Scanning(n + 1, n + 1 = a)
    BY <1>2, ScanWholeNumber
  <1>3. ASSUME s.err = "none", s.pos = n + 1 PROVE \E a, b : NumberAt(text, i, a, b)
    BY <1>3, ScanWholeNumber
  <1> HIDE DEF s, i
  <1>4. ASSUME NEW a, NEW b, NumberAt(text, i, a, b)
        PROVE  <<a - i, b - i>> \in Parts(number) /\ l = (n + 1) - i
    <2>1. a \in Nat /\ b \in Nat /\ i < a /\ a <= b /\ b <= n + 1
      BY <1>4 DEF NumberAt
    <2> DEFINE x == a - i
               y == b - i
    <2>2. /\ x \in Nat /\ y \in Nat /\ x <= y /\ y <= l /\ i + x = a /\ i + y = b
          /\ l = (n + 1) - i
      BY <1>1, <2>1
    <2>3. <<x, y>> \in Parts(number) <=> NumberAt(text, i, i + x, i + y)
      <3> HIDE DEF x, y
      <3> QED
        BY <2>2, PartsAreAt DEF i
    <2> QED
      BY <1>4, <2>2, <2>3
  <1>5. ASSUME NEW p \in Parts(number)
        PROVE  \E x, y \in Nat : p = <<x, y>> /\ NumberAt(text, i, i + x, i + y)
    <2>1. p \in (0..l) \X (0..l) /\ p[1] <= p[2]
      BY DEF Parts
    <2> DEFINE x == p[1]
               y == p[2]
    <2>2. x \in Nat /\ y \in Nat /\ x <= y /\ y <= l /\ p = <<x, y>>
      BY <1>1, <2>1
    <2> HIDE DEF x, y
    <2>3. <<x, y>> \in Parts(number) <=> NumberAt(text, i, i + x, i + y)
      BY <2>2, PartsAreAt DEF i
    <2> QED
      BY <1>5, <2>2, <2>3
  <1>6. ASSUME Parts(number) # {} PROVE s.err = "none" /\ s.pos = n + 1
    <2>1. PICK p \in Parts(number) : TRUE
      BY <1>6
    <2>2. PICK x \in Nat, y \in Nat : NumberAt(text, i, i + x, i + y)
      BY <1>5, <2>1
    <2> QED
      BY <1>2, <2>2 DEF Scanning
  <1>7. ASSUME s.err = "none", s.pos = n + 1
        PROVE  Parts(number) # {} /\ (s.out <=> <<l, l>> \in Parts(number))
    <2>1. PICK a, b : NumberAt(text, i, a, b)
      BY <1>3, <1>7
    <2>2. s.out <=> n + 1 = a
      <3>1. s = [err |-> "none", pos |-> n + 1, out |-> (n + 1 = a)]
        BY <1>2, <2>1, Zenon DEF Scanning
      <3> QED
        BY <3>1, Zenon
    <2>3. <<a - i, b - i>> \in Parts(number) /\ l = (n + 1) - i
      BY <1>4, <2>1
    <2>4. a \in Nat /\ b \in Nat /\ i < a /\ a <= b /\ b <= n + 1
      BY <2>1 DEF NumberAt
    <2>5. n + 1 = a => <<l, l>> \in Parts(number)
      <3> SUFFICES ASSUME n + 1 = a PROVE <<l, l>> \in Parts(number)
        OBVIOUS
      <3>1. a - i = l /\ b - i = l
        BY <1>1, <2>3, <2>4
      <3> QED
        BY <2>3, <3>1
    <2>6. <<l, l>> \in Parts(number) => n + 1 = a
      <3> SUFFICES ASSUME <<l, l>> \in Parts(number) PROVE n + 1 = a
        OBVIOUS
      <3>1. PICK x \in Nat, y \in Nat : <<l, l>> = <<x, y>> /\ NumberAt(text, i, i + x, i + y)
        BY <1>5
      <3>2. x = l
        BY <3>1
      <3>3. NumberAt(text, i, i + l, i + y)
        BY <3>1, <3>2
      <3>4. s = Scanning(n + 1, n + 1 = i + l)
        BY <1>2, <3>3
      <3>5. i + l = n + 1
        BY <1>1, <2>3
      <3> QED
        BY <2>2, <3>4, <3>5 DEF Scanning
    <2> QED
      BY <2>2, <2>3, <2>5, <2>6, Zenon
  <1> QED
    BY <1>6, <1>7, Zenon DEF s

-----------------------------------------------------------------------------
(* What raw bytes can be read as.                                          *)

\* Where the bytes of a sequence lie, by the first of them.
LEMMA SequenceRanges ==
  ASSUME NEW x \in Int, NEW y, y \in SecondBytes(x)
  PROVE  /\ y \in Int /\ 128 <= y /\ y <= 191
         /\ (x = 224 => 160 <= y) /\ (x = 237 => y <= 159)
         /\ (x = 240 => 144 <= y) /\ (x = 244 => y <= 143)
         /\ SequenceLength(x) = 2 => 194 <= x /\ x <= 223
         /\ SequenceLength(x) = 3 => 224 <= x /\ x <= 239
         /\ SequenceLength(x) = 4 => 240 <= x /\ x <= 244
  <1>1. CASE x = 224
    <2>1. SecondBytes(x) = 160..191
      BY <1>1 DEF SecondBytes
    <2> QED
      BY <1>1, <2>1, SMT DEF SequenceLength
  <1>2. CASE x = 237
    <2>1. SecondBytes(x) = 128..159
      BY <1>2 DEF SecondBytes
    <2> QED
      BY <1>2, <2>1, SMT DEF SequenceLength
  <1>3. CASE x = 240
    <2>1. SecondBytes(x) = 144..191
      BY <1>3 DEF SecondBytes
    <2> QED
      BY <1>3, <2>1, SMT DEF SequenceLength
  <1>4. CASE x = 244
    <2>1. SecondBytes(x) = 128..143
      BY <1>4 DEF SecondBytes
    <2> QED
      BY <1>4, <2>1, SMT DEF SequenceLength
  <1>5. CASE x # 224 /\ x # 237 /\ x # 240 /\ x # 244
    <2>1. SecondBytes(x) = 128..191
      BY <1>5 DEF SecondBytes
    <2> QED
      BY <1>5, <2>1, SMT DEF SequenceLength
  <1> QED
    BY <1>1, <1>2, <1>3, <1>4, <1>5

\* A short sequence is its bytes.
LEMMA Spelled ==
  ASSUME NEW S, NEW u \in Seq(S)
  PROVE  /\ Len(u) = 1 => u = <<u[1]>>
         /\ Len(u) = 2 => u = <<u[1], u[2]>>
         /\ Len(u) = 3 => u = <<u[1], u[2], u[3]>>
         /\ Len(u) = 4 => u = <<u[1], u[2], u[3], u[4]>>
  OBVIOUS

\* A sequence that validate_utf8_run accepts is the UTF-8 of its code point.
LEMMA Utf8Decodes ==
  ASSUME NEW u \in Bytes, Len(u) \in 2..4, Utf8Length(u, 1) = Len(u)
  PROVE  LET c == RawPoint(u) IN c \in Int /\ IsScalar(c) /\ c >= 128 /\ Utf8(c) = u
  <1> DEFINE n == Len(u)
             c == RawPoint(u)
  <1>1. n \in 2..4 /\ u \in Seq(Byte) /\ DOMAIN u = 1..n
    BY DEF Bytes
  <1>0. n # 0 /\ Utf8Length(u, 1) = n
    BY <1>1
  <1> HIDE DEF n, c
  <1>2. /\ n = SequenceLength(u[1]) /\ u[1 + 1] \in SecondBytes(u[1])
        /\ \A k \in 2..(n - 1) : u[1 + k] \in 128..191
    BY <1>0 DEF Utf8Length
  <1>3. u[1] \in Int
    BY <1>1, BytesOf DEF n
  <1>4. u[2] \in SecondBytes(u[1])
    BY <1>2
  <1>5. CASE n = 2
    <2> DEFINE x == u[1]
               y == u[2]
    <2> HIDE DEF x, y
    <2>1. x \in Int /\ 194 <= x /\ x <= 223 /\ y \in Int /\ 128 <= y /\ y <= 191
      <3>1. x \in Int /\ SequenceLength(x) = 2 /\ y \in SecondBytes(x)
        BY <1>2, <1>3, <1>4, <1>5 DEF x, y
      <3> QED
        BY <3>1, SequenceRanges
    <2> DEFINE d == (x - 192) * 64 + (y - 128)
    <2>2. c = d
      BY <1>5, SMT DEF RawPoint, n, c, x, y
    <2>3. /\ d \in Int /\ 128 <= d /\ d < 2048 /\ d \div 64 = x - 192 /\ d % 64 = y - 128
      BY <2>1, SMT
    <2>4. Utf8(d) = <<x, y>>
      <3> HIDE DEF d
      <3>1. Utf8(d) = <<192 + d \div 64, 128 + (d % 64)>>
        BY <2>3, SMT DEF Utf8
      <3>2. 192 + (x - 192) = x /\ 128 + (y - 128) = y
        BY <2>1, SMT
      <3> QED
        BY <2>3, <3>1, <3>2
    <2>5. IsScalar(d)
      <3> HIDE DEF d
      <3> QED
        BY <2>3, SMT DEF IsScalar, IsHigh, IsLow
    <2>6. u = <<x, y>>
      BY <1>1, <1>5, Spelled DEF n, x, y
    <2>7. d \in Int /\ d >= 128
      BY <2>3, SMT
    <2> HIDE DEF d
    <2> QED
      BY <2>2, <2>4, <2>5, <2>6, <2>7, Zenon DEF c
  <1>6. CASE n = 3
    <2> DEFINE x == u[1]
               y == u[2]
               z == u[3]
    <2> HIDE DEF x, y, z
    <2>1. /\ x \in Int /\ 224 <= x /\ x <= 239 /\ y \in Int /\ 128 <= y /\ y <= 191
          /\ z \in Int /\ 128 <= z /\ z <= 191
          /\ (x = 224 => 160 <= y) /\ (x = 237 => y <= 159)
      <3>1. x \in Int /\ SequenceLength(x) = 3 /\ y \in SecondBytes(x)
        BY <1>2, <1>3, <1>4, <1>6 DEF x, y
      <3>5. z \in 128..191
        <4>1. 2 \in 2..(n - 1)
          BY <1>6
        <4>2. u[1 + 2] \in 128..191
          BY <1>2, <4>1
        <4> QED
          BY <4>2 DEF z
      <3> QED
        BY <3>1, <3>5, SequenceRanges
    <2> DEFINE d == (x - 224) * 4096 + (y - 128) * 64 + (z - 128)
    <2>2. c = d
      BY <1>6, SMT DEF RawPoint, n, c, x, y, z
    <2>3. /\ d \in Int /\ 2048 <= d /\ d < 65536 /\ d \div 4096 = x - 224
          /\ (d \div 64) % 64 = y - 128 /\ d % 64 = z - 128
          /\ ~(55296 <= d /\ d <= 57343)
      BY <2>1, SMT
    <2>4. Utf8(d) = <<x, y, z>>
      <3> HIDE DEF d
      <3>1. Utf8(d) = <<224 + d \div 4096, 128 + ((d \div 64) % 64), 128 + (d % 64)>>
        BY <2>3, SMT DEF Utf8
      <3>2. 224 + (x - 224) = x /\ 128 + (y - 128) = y /\ 128 + (z - 128) = z
        BY <2>1, SMT
      <3> QED
        BY <2>3, <3>1, <3>2
    <2>5. IsScalar(d) /\ d >= 128
      <3> HIDE DEF d
      <3> QED
        BY <2>3, SMT DEF IsScalar, IsHigh, IsLow
    <2>6. u = <<x, y, z>>
      BY <1>1, <1>6, Spelled DEF n, x, y, z
    <2>7. d \in Int /\ d >= 128
      BY <2>3, SMT
    <2> HIDE DEF d
    <2> QED
      BY <2>2, <2>4, <2>5, <2>6, <2>7, Zenon DEF c
  <1>7. CASE n = 4
    <2> DEFINE x == u[1]
               y == u[2]
               z == u[3]
               w == u[4]
    <2> HIDE DEF x, y, z, w
    <2>1. /\ x \in Int /\ 240 <= x /\ x <= 244 /\ y \in Int /\ 128 <= y /\ y <= 191
          /\ z \in Int /\ 128 <= z /\ z <= 191 /\ w \in Int /\ 128 <= w /\ w <= 191
          /\ (x = 240 => 144 <= y) /\ (x = 244 => y <= 143)
      <3>1. x \in Int /\ SequenceLength(x) = 4 /\ y \in SecondBytes(x)
        BY <1>2, <1>3, <1>4, <1>7 DEF x, y
      <3>5. z \in 128..191 /\ w \in 128..191
        <4>1. 2 \in 2..(n - 1) /\ 3 \in 2..(n - 1)
          BY <1>7
        <4>2. u[1 + 2] \in 128..191 /\ u[1 + 3] \in 128..191
          BY <1>2, <4>1
        <4> QED
          BY <4>2 DEF z, w
      <3> QED
        BY <3>1, <3>5, SequenceRanges
    <2> DEFINE d == (x - 240) * 262144 + (y - 128) * 4096 + (z - 128) * 64 + (w - 128)
    <2>2. c = d
      BY <1>7, SMT DEF RawPoint, n, c, x, y, z, w
    <2>3. /\ d \in Int /\ 65536 <= d /\ d <= 1114111 /\ d \div 262144 = x - 240
          /\ (d \div 4096) % 64 = y - 128 /\ (d \div 64) % 64 = z - 128 /\ d % 64 = w - 128
      BY <2>1, SMT
    <2>4. Utf8(d) = <<x, y, z, w>>
      <3> HIDE DEF d
      <3>1. Utf8(d) = <<240 + d \div 262144, 128 + ((d \div 4096) % 64),
                        128 + ((d \div 64) % 64), 128 + (d % 64)>>
        BY <2>3, SMTT(30) DEF Utf8
      <3>2. 240 + (x - 240) = x /\ 128 + (y - 128) = y /\ 128 + (z - 128) = z /\ 128 + (w - 128) = w
        BY <2>1, SMT
      <3> QED
        BY <2>3, <3>1, <3>2
    <2>5. IsScalar(d) /\ d >= 128
      <3> HIDE DEF d
      <3> QED
        BY <2>3, SMT DEF IsScalar, IsHigh, IsLow
    <2>6. u = <<x, y, z, w>>
      BY <1>1, <1>7, Spelled DEF n, x, y, z, w
    <2>7. d \in Int /\ d >= 128
      BY <2>3, SMT
    <2> HIDE DEF d
    <2> QED
      BY <2>2, <2>4, <2>5, <2>6, <2>7, Zenon DEF c
  <1> QED
    BY <1>1, <1>5, <1>6, <1>7 DEF n

\* The code points of up to four raw bytes: an ASCII byte that is neither a control
\* character nor special, or the sequence that validate_utf8_run accepts.
LEMMA RawPointsAre ==
  ASSUME NEW u \in Bytes, NEW n \in Nat, n = Len(u), 1 <= n, n <= 4
  PROVE  /\ (n = 1 /\ 32 <= u[1] /\ u[1] <= 127 /\ u[1] # Quote /\ u[1] # Backslash) =>
               RawPoints(u) = {u[1]} /\ Utf8(u[1]) = u
         /\ Utf8Length(u, 1) = n =>
               RawPoints(u) = {RawPoint(u)} /\ Utf8(RawPoint(u)) = u
         /\ (~(n = 1 /\ 32 <= u[1] /\ u[1] <= 127 /\ u[1] # Quote /\ u[1] # Backslash)
               /\ Utf8Length(u, 1) # n) => RawPoints(u) = {}
  <1> DEFINE c == RawPoint(u)
             plain == n = 1 /\ 32 <= u[1] /\ u[1] <= 127 /\ u[1] # Quote /\ u[1] # Backslash
  <1>1. \A i \in 1..n : u[i] \in Int
    BY BytesOf
  <1>2. RawPoints(u) = IF IsScalar(c) /\ Utf8(c) = u /\ c >= 32 /\ c \notin {Quote, Backslash}
                       THEN {c} ELSE {}
    BY Zenon DEF RawPoints
  <1>3. ASSUME n = 1 PROVE c = u[1] /\ u[1] \in Int /\ u = <<u[1]>>
    <2>1. 1 \in 1..n
      BY <1>3
    <2>2. u[1] \in Int
      BY <1>1, <2>1
    <2>3. u = <<u[1]>>
      BY <1>3, Spelled DEF Bytes
    <2> QED
      BY <1>3, <2>2, <2>3 DEF RawPoint
  <1>4. c \in Int
    <2>1. CASE n = 1
      BY <1>3, <2>1
    <2>2. CASE n = 2
      BY <1>1, <2>2, SMT DEF RawPoint
    <2>3. CASE n = 3
      BY <1>1, <2>3, SMT DEF RawPoint
    <2>4. CASE n = 4
      BY <1>1, <2>4, SMT DEF RawPoint
    <2> QED
      BY <2>1, <2>2, <2>3, <2>4
  <1> HIDE DEF c
  <1>5. ASSUME plain PROVE RawPoints(u) = {u[1]} /\ Utf8(u[1]) = u
    <2> DEFINE x == u[1]
    <2> HIDE DEF x
    <2>1. c = x /\ x \in Int /\ u = <<x>> /\ 32 <= x /\ x <= 127 /\ x # 34 /\ x # 92
      BY <1>3, <1>5 DEF x, Quote, Backslash
    <2>2. Utf8(x) = <<x>> /\ IsScalar(x)
      BY <2>1, SMT DEF Utf8, IsScalar, IsHigh, IsLow
    <2>3. RawPoints(u) = {x}
      BY <1>2, <2>1, <2>2 DEF Quote, Backslash
    <2> QED
      BY <2>1, <2>2, <2>3 DEF x
  <1>6. ASSUME Utf8Length(u, 1) = n PROVE RawPoints(u) = {c} /\ Utf8(c) = u
    <2>1. n \in 2..4
      <3>1. 1 \in 1..Len(u)
        OBVIOUS
      <3>2. Utf8Length(u, 1) \in {0, 2, 3, 4}
        BY <3>1, Utf8LengthTypes
      <3> QED
        BY <1>6, <3>2
    <2>2. IsScalar(c) /\ c >= 128 /\ Utf8(c) = u
      BY <1>6, <2>1, Utf8Decodes DEF c
    <2>3. c >= 32 /\ c # 34 /\ c # 92
      BY <1>4, <2>2
    <2> QED
      BY <1>2, <2>2, <2>3 DEF Quote, Backslash
  <1>7. ASSUME RawPoints(u) # {} PROVE plain \/ Utf8Length(u, 1) = n
    <2>1. IsScalar(c) /\ Utf8(c) = u /\ c >= 32 /\ c # Quote /\ c # Backslash
      BY <1>2, <1>7
    <2>2. CASE c < 128
      <3>1. u = <<c>> /\ c <= 127
        <4>1. Utf8(c) = <<c>>
          BY <2>2 DEF Utf8
        <4> QED
          BY <1>4, <2>1, <2>2, <4>1
      <3>2. n = 1 /\ u[1] = c
        BY <3>1
      <3>3. 32 <= c
        BY <1>4, <2>1
      <3> QED
        BY <2>1, <3>1, <3>2, <3>3
    <2>3. CASE ~(c < 128)
      BY <1>4, <2>1, <2>3, Utf8Encodes
    <2> QED
      BY <2>2, <2>3
  <1> QED
    BY <1>5, <1>6, <1>7 DEF c

\* The code points of an escape.
EscapesSpelled(u, n) ==
    /\ u[1] # Backslash => EscapedPoints(u) = {}
    /\ n \in {1, 3, 4} => EscapedPoints(u) = {}
    /\ n = 2 => EscapedPoints(u) = IF u[1] = Backslash /\ EscapeOf(u[2]) # -1
                                   THEN {EscapeOf(u[2])} ELSE {}
    /\ n = 6 => EscapedPoints(u) = IF u[1] = Backslash /\ u[2] = 117 /\ IsScalar(ReadHex4(u, 3))
                                   THEN {ReadHex4(u, 3)} ELSE {}
    /\ n = 12 => EscapedPoints(u) =
                   IF /\ u[1] = Backslash /\ u[2] = 117 /\ u[7] = Backslash /\ u[8] = 117
                      /\ IsHigh(ReadHex4(u, 3)) /\ IsLow(ReadHex4(u, 9))
                   THEN {65536 + (ReadHex4(u, 3) - 55296) * 1024 + (ReadHex4(u, 9) - 56320)}
                   ELSE {}

LEMMA EscapedAre ==
  ASSUME NEW u \in Bytes, NEW n \in Nat, n = Len(u), n # 0
  PROVE  EscapesSpelled(u, n)
  <1>1. ASSUME NEW i \in 1..n, i + 1 <= n
        PROVE  Slice(u, i, 2) = <<Backslash, 117>> <=> u[i] = Backslash /\ u[i + 1] = 117
    <2> DEFINE v == SubSeq(u, i, i + 1)
    <2>1. i \in 1..(Len(u) + 1) /\ i + 1 \in (i - 1)..Len(u) /\ ((i + 1) - i) + 1 = 2
      BY <1>1
    <2>2. v \in Bytes /\ Len(v) = 2 /\ \A j \in 1..2 : v[j] = u[(i + j) - 1]
      BY <2>1, BytesPart
    <2> HIDE DEF v
    <2>3. v = <<v[1], v[2]>> /\ v[1] = u[i] /\ v[2] = u[i + 1]
      <3>1. (i + 1) - 1 = i /\ (i + 2) - 1 = i + 1 /\ 1 \in 1..2 /\ 2 \in 1..2
        BY <2>1
      <3>2. v[1] = u[(i + 1) - 1] /\ v[2] = u[(i + 2) - 1]
        BY <2>2, <3>1
      <3>3. v = <<v[1], v[2]>>
        BY <2>2, Spelled DEF Bytes
      <3> QED
        BY <3>1, <3>2, <3>3
    <2>4. Slice(u, i, 2) = v
      <3>1. i + 2 - 1 = i + 1
        BY <2>1
      <3> QED
        BY <3>1 DEF Slice, v
    <2> QED
      BY <2>3, <2>4
  <1>2. CASE n = 2
    <2>1. EscapedPoints(u) = {c \in {EscapeOf(u[2])} : u[1] = Backslash /\ c # -1}
      BY <1>2 DEF EscapedPoints
    <2> QED
      BY <1>2, <2>1 DEF EscapesSpelled
  <1>3. CASE n = 6
    <2>1. EscapedPoints(u) = {c \in {ReadHex4(u, 3)} : SubSeq(u, 1, 2) = <<Backslash, 117>> /\ IsScalar(c)}
      BY <1>3 DEF EscapedPoints
    <2>2. SubSeq(u, 1, 2) = <<Backslash, 117>> <=> u[1] = Backslash /\ u[2] = 117
      <3>1. 1 \in 1..n /\ 1 + 1 <= n /\ 1 + 1 = 2 /\ 1 + 2 - 1 = 2
        BY <1>3
      <3>2. Slice(u, 1, 2) = SubSeq(u, 1, 2)
        BY <3>1 DEF Slice
      <3>3. Slice(u, 1, 2) = <<Backslash, 117>> <=> u[1] = Backslash /\ u[2] = 117
        BY <1>1, <3>1
      <3> QED
        BY <3>2, <3>3, Zenon
    <2>3. EscapedPoints(u) = IF u[1] = Backslash /\ u[2] = 117 /\ IsScalar(ReadHex4(u, 3))
                             THEN {ReadHex4(u, 3)} ELSE {}
      BY <2>1, <2>2, Zenon
    <2> QED
      BY <1>3, <2>3 DEF EscapesSpelled
  <1>4. CASE n = 12
    <2> DEFINE high == ReadHex4(u, 3)
               low == ReadHex4(u, 9)
               both == 65536 + (high - 55296) * 1024 + (low - 56320)
               marks == u[1] = Backslash /\ u[2] = 117 /\ u[7] = Backslash /\ u[8] = 117
               fits(c) == /\ c > 65535 /\ IsScalar(c)
                          /\ high = 55296 + (c - 65536) \div 1024
                          /\ low = 56320 + ((c - 65536) % 1024)
    <2>1. EscapedPoints(u) = {c \in {both} : (\A i \in {1, 7} : Slice(u, i, 2) = <<Backslash, 117>>)
                                                /\ fits(c)}
      BY <1>4 DEF EscapedPoints
    <2>2. (\A i \in {1, 7} : Slice(u, i, 2) = <<Backslash, 117>>) <=> marks
      <3>1. 1 \in 1..n /\ 1 + 1 <= n /\ 1 + 1 = 2 /\ 7 \in 1..n /\ 7 + 1 <= n /\ 7 + 1 = 8
        BY <1>4
      <3>2. Slice(u, 1, 2) = <<Backslash, 117>> <=> u[1] = Backslash /\ u[2] = 117
        BY <1>1, <3>1
      <3>3. Slice(u, 7, 2) = <<Backslash, 117>> <=> u[7] = Backslash /\ u[8] = 117
        BY <1>1, <3>1
      <3> QED
        BY <3>2, <3>3, Zenon
    <2>3. high \in Int /\ low \in Int
      <3>1. 3 \in Nat \ {0} /\ 9 \in Nat \ {0}
        OBVIOUS
      <3> QED
        BY <3>1, HexRead
    <2> HIDE DEF high, low
    <2>4. fits(both) <=> IsHigh(high) /\ IsLow(low)
      BY <2>3, SMT DEF IsScalar, IsHigh, IsLow
    <2> HIDE DEF both, fits, marks
    <2>5. EscapedPoints(u) = IF marks /\ IsHigh(high) /\ IsLow(low) THEN {both} ELSE {}
      BY <2>1, <2>2, <2>4, Zenon
    <2> QED
      BY <1>4, <2>5 DEF EscapesSpelled, marks, both, high, low
  <1>5. CASE n # 2 /\ n # 6 /\ n # 12
    <2>1. EscapedPoints(u) = {}
      BY <1>5 DEF EscapedPoints
    <2> QED
      BY <1>5, <2>1 DEF EscapesSpelled
  <1> QED
    BY <1>2, <1>3, <1>4, <1>5

-----------------------------------------------------------------------------
(* What the bytes at a position can be read as.                            *)

Sizes == {1, 2, 3, 4, 6, 12}

\* Nothing can be read at i.
NonePoint(b, i) == \A n \in Sizes : Has(b, i, n) => PointsAt(b, i, n) = {}

\* The code point c of the m bytes at i is all that can be read there.
OnePoint(b, i, m, c) ==
    /\ m \in Sizes /\ Has(b, i, m) /\ PointsAt(b, i, m) = {c}
    /\ \A n \in Sizes : n # m /\ Has(b, i, n) => PointsAt(b, i, n) = {}

LEMMA SliceIs ==
  ASSUME NEW b \in Bytes, NEW i \in 1..Len(b), NEW n \in Nat \ {0}, Has(b, i, n)
  PROVE  /\ Slice(b, i, n) \in Bytes /\ Len(Slice(b, i, n)) = n
         /\ \A k \in 0..(n - 1) : Slice(b, i, n)[1 + k] = b[i + k]
         /\ Slice(b, i, n)[1] = b[i] /\ (i + n) - 1 <= Len(b)
  <1> DEFINE e == i + n - 1
             u == SubSeq(b, i, e)
  <1>1. Len(b) \in Nat /\ e <= Len(b)
    BY BytesOf DEF Has
  <1>2. i \in 1..(Len(b) + 1) /\ e \in (i - 1)..Len(b) /\ (e - i) + 1 = n /\ (i + n) - 1 <= Len(b)
    BY <1>1
  <1> HIDE DEF e
  <1>3. u \in Bytes /\ Len(u) = n /\ \A k \in 1..n : u[k] = b[(i + k) - 1]
    BY <1>2, BytesPart
  <1> HIDE DEF u
  <1>4. ASSUME NEW k \in 0..(n - 1) PROVE u[1 + k] = b[i + k]
    <2>1. 1 + k \in 1..n /\ (i + (1 + k)) - 1 = i + k
      OBVIOUS
    <2> QED
      BY <1>3, <2>1
  <1>5. u[1] = b[i]
    <2>1. 1 \in 1..n /\ (i + 1) - 1 = i
      OBVIOUS
    <2> QED
      BY <1>3, <2>1
  <1>6. Slice(b, i, n) = u
    BY Zenon DEF Slice, u, e
  <1> QED
    BY <1>2, <1>3, <1>4, <1>5, <1>6

\* ASCII starts no sequence.
LEMMA AsciiStartsNone ==
  ASSUME NEW u \in Bytes, Len(u) # 0, u[1] < 128
  PROVE  Utf8Length(u, 1) = 0
  <1>1. u[1] \in Byte /\ u[1] \in Nat
    <2>1. Len(u) \in Nat
      BY BytesOf
    <2>2. 1 \in 1..Len(u)
      BY <2>1
    <2> QED
      BY <2>2, BytesOf
  <1>2. SequenceLength(u[1]) = 0
    <2> DEFINE x == u[1]
    <2>1. x \in Nat /\ x < 128
      BY <1>1
    <2> HIDE DEF x
    <2>2. x \notin 194..223 /\ x \notin 224..239 /\ x \notin 240..244
      BY <2>1, SMT
    <2>3. SequenceLength(x) = 0
      BY <2>2, Zenon DEF SequenceLength
    <2> QED
      BY <2>3 DEF x
  <1> QED
    BY <1>2 DEF Utf8Length

LEMMA PlainPoints ==
  ASSUME NEW b \in Bytes, NEW i \in 1..Len(b), NEW x, x = b[i], x < 128, x # Backslash
  PROVE  /\ 32 <= x /\ x # Quote => OnePoint(b, i, 1, x) /\ Utf8(x) = <<x>>
         /\ ~(32 <= x /\ x # Quote) => NonePoint(b, i)
  <1>0. x \in Byte /\ x \in Int /\ x <= 127 /\ Len(b) \in Nat
    BY BytesOf
  <1>1. ASSUME NEW n \in Sizes, Has(b, i, n)
        PROVE  PointsAt(b, i, n) = IF n = 1 /\ 32 <= x /\ x # Quote THEN {x} ELSE {}
    <2> DEFINE u == Slice(b, i, n)
    <2>1. n \in Nat \ {0}
      BY DEF Sizes
    <2>2. u \in Bytes /\ Len(u) = n /\ u[1] = x
      BY <1>1, <2>1, SliceIs
    <2>3. PointsAt(b, i, n) = (IF n <= 4 THEN RawPoints(u) ELSE {}) \cup EscapedPoints(u)
      BY Zenon DEF PointsAt
    <2> HIDE DEF u
    <2>4. EscapedPoints(u) = {}
      BY <2>1, <2>2, EscapedAre DEF EscapesSpelled
    <2>5. Utf8Length(u, 1) # n
      BY <2>1, <2>2, AsciiStartsNone
    <2>6. CASE n <= 4
      <3>1. 1 <= n /\ n <= 4
        BY <2>1, <2>6
      <3>2. RawPoints(u) = IF n = 1 /\ 32 <= x /\ x # Quote THEN {x} ELSE {}
        BY <1>0, <2>1, <2>2, <2>5, <3>1, RawPointsAre
      <3> QED
        BY <2>3, <2>4, <2>6, <3>2
    <2>7. CASE ~(n <= 4)
      <3>1. n # 1
        BY <2>1, <2>7
      <3> QED
        BY <2>3, <2>4, <2>7, <3>1
    <2> QED
      BY <2>6, <2>7
  <1>2. ASSUME 32 <= x, x # Quote PROVE OnePoint(b, i, 1, x) /\ Utf8(x) = <<x>>
    <2>1. 1 \in Sizes /\ Has(b, i, 1)
      BY <1>0 DEF Sizes, Has
    <2>2. PointsAt(b, i, 1) = {x}
      BY <1>1, <1>2, <2>1
    <2>3. \A n \in Sizes : n # 1 /\ Has(b, i, n) => PointsAt(b, i, n) = {}
      BY <1>1
    <2>4. Utf8(x) = <<x>>
      BY <1>0 DEF Utf8
    <2> QED
      BY <2>1, <2>2, <2>3, <2>4 DEF OnePoint
  <1>3. ASSUME ~(32 <= x /\ x # Quote) PROVE NonePoint(b, i)
    BY <1>1, <1>3 DEF NonePoint
  <1> QED
    BY <1>2, <1>3

LEMMA HighPoints ==
  ASSUME NEW b \in Bytes, NEW i \in 1..Len(b), NEW m, m = Utf8Length(b, i), ~(b[i] < 128)
  PROVE  /\ m # 0 => \E c : OnePoint(b, i, m, c) /\ Utf8(c) = Slice(b, i, m)
         /\ m = 0 => NonePoint(b, i)
  <1> DEFINE x == b[i]
  <1>0. x \in Byte /\ x \in Int /\ ~(x <= 127) /\ x # Backslash /\ Len(b) \in Nat
    BY BytesOf DEF Backslash
  <1>1. ASSUME NEW n \in Sizes, Has(b, i, n)
        PROVE  /\ n = m => PointsAt(b, i, n) = {RawPoint(Slice(b, i, n))}
                             /\ Utf8(RawPoint(Slice(b, i, n))) = Slice(b, i, n)
               /\ n # m => PointsAt(b, i, n) = {}
    <2> DEFINE u == Slice(b, i, n)
    <2>1. n \in Nat \ {0}
      BY DEF Sizes
    <2>2. /\ u \in Bytes /\ Len(u) = n /\ u[1] = x /\ (i + n) - 1 <= Len(b)
          /\ \A k \in 0..(n - 1) : u[1 + k] = b[i + k]
      BY <1>1, <2>1, SliceIs
    <2>3. PointsAt(b, i, n) = (IF n <= 4 THEN RawPoints(u) ELSE {}) \cup EscapedPoints(u)
      BY Zenon DEF PointsAt
    <2> HIDE DEF u, x
    <2>4. EscapedPoints(u) = {}
      BY <1>0, <2>1, <2>2, EscapedAre DEF EscapesSpelled
    <2>5. Utf8Length(u, 1) = n <=> m = n
      <3>0. 1 \in 1..Len(u) /\ (1 + n) - 1 <= Len(u)
        BY <2>1, <2>2
      <3>1. ASSUME Utf8Length(u, 1) = n PROVE m = n
        <4>1. \A k \in 0..(n - 1) : b[i + k] = u[1 + k]
          BY <2>2
        <4>2. Utf8Length(u, 1) # 0 /\ (i + Utf8Length(u, 1)) - 1 <= Len(b)
              /\ \A k \in 0..(Utf8Length(u, 1) - 1) : b[i + k] = u[1 + k]
          BY <2>1, <2>2, <3>1, <4>1
        <4>3. Utf8Length(b, i) = Utf8Length(u, 1)
          BY <2>2, <3>0, <4>2, Utf8LengthLocal, ZenonT(30)
        <4> QED
          BY <3>1, <4>3
      <3>2. ASSUME m = n PROVE Utf8Length(u, 1) = n
        <4>1. Utf8Length(b, i) = n
          BY <3>2
        <4>2. Utf8Length(b, i) # 0 /\ (1 + Utf8Length(b, i)) - 1 <= Len(u)
              /\ \A k \in 0..(Utf8Length(b, i) - 1) : u[1 + k] = b[i + k]
          BY <2>1, <2>2, <3>0, <4>1
        <4>3. Utf8Length(u, 1) = Utf8Length(b, i)
          BY <2>2, <3>0, <4>2, Utf8LengthLocal, ZenonT(30)
        <4> QED
          BY <4>1, <4>3
      <3> QED
        BY <3>1, <3>2
    <2>6. CASE n <= 4
      <3>1. 1 <= n /\ n <= 4
        BY <2>1, <2>6
      <3>2. /\ n = m => RawPoints(u) = {RawPoint(u)} /\ Utf8(RawPoint(u)) = u
            /\ n # m => RawPoints(u) = {}
        BY <1>0, <2>1, <2>2, <2>5, <3>1, RawPointsAre
      <3> QED
        BY <2>3, <2>4, <2>6, <3>2 DEF u
    <2>7. CASE ~(n <= 4)
      <3>1. n # m
        <4>1. m \in {0, 2, 3, 4}
          BY Utf8LengthTypes
        <4> QED
          BY <2>7, <4>1
      <3> QED
        BY <2>3, <2>4, <2>7, <3>1
    <2> QED
      BY <2>6, <2>7
  <1>2. ASSUME m # 0 PROVE \E c : OnePoint(b, i, m, c) /\ Utf8(c) = Slice(b, i, m)
    <2>1. m \in {0, 2, 3, 4} /\ (i + m) - 1 <= Len(b)
      BY <1>2, Utf8LengthTypes
    <2>2. m \in Sizes /\ Has(b, i, m)
      BY <1>0, <1>2, <2>1 DEF Sizes, Has
    <2>3. OnePoint(b, i, m, RawPoint(Slice(b, i, m)))
          /\ Utf8(RawPoint(Slice(b, i, m))) = Slice(b, i, m)
      BY <1>1, <2>2, Zenon DEF OnePoint
    <2> QED
      BY <2>3
  <1>3. ASSUME m = 0 PROVE NonePoint(b, i)
    <2>1. \A n \in Sizes : n # 0
      BY DEF Sizes
    <2> QED
      BY <1>1, <1>3, <2>1 DEF NonePoint
  <1> QED
    BY <1>2, <1>3

\* Four hexadecimal digits have the same value wherever they are.
LEMMA HexLocal ==
  ASSUME NEW a, NEW i \in Nat, NEW o, NEW j \in Nat, Has(a, i, 4), Has(o, j, 4),
         \A k \in 0..3 : o[j + k] = a[i + k]
  PROVE  ReadHex4(o, j) = ReadHex4(a, i)
  <1>1. o[j + 0] = a[i + 0] /\ o[j + 1] = a[i + 1] /\ o[j + 2] = a[i + 2] /\ o[j + 3] = a[i + 3]
    OBVIOUS
  <1>2. (\A k \in 0..3 : HexValue(o[j + k]) # -1) <=> (\A k \in 0..3 : HexValue(a[i + k]) # -1)
    OBVIOUS
  <1> DEFINE all == \A k \in 0..3 : HexValue(a[i + k]) # -1
             sum == 4096 * HexValue(a[i + 0]) + 256 * HexValue(a[i + 1])
                      + 16 * HexValue(a[i + 2]) + HexValue(a[i + 3])
  <1>3. ReadHex4(a, i) = IF all THEN sum ELSE -1
    BY DEF ReadHex4
  <1>4. ReadHex4(o, j) = IF all THEN sum ELSE -1
    BY <1>1, <1>2 DEF ReadHex4
  <1> QED
    BY <1>3, <1>4

\* The pair of escapes that starts at i.
BothAt(b, i) == 65536 + (ReadHex4(b, i + 2) - 55296) * 1024 + (ReadHex4(b, i + 8) - 56320)
PairAt(b, i) ==
    /\ IsHigh(ReadHex4(b, i + 2)) /\ i + 7 <= Len(b) /\ b[i + 6] = Backslash /\ b[i + 7] = 117
    /\ IsLow(ReadHex4(b, i + 8))

\* The code points of the n bytes at a backslash.
LEMMA PointsAtBackslash ==
  ASSUME NEW b \in Bytes, NEW i \in 1..Len(b), b[i] = Backslash, NEW n \in Sizes, Has(b, i, n)
  PROVE  /\ n \in {1, 3, 4} => PointsAt(b, i, n) = {}
         /\ n = 2 => PointsAt(b, i, n) = IF EscapeOf(b[i + 1]) # -1 THEN {EscapeOf(b[i + 1])} ELSE {}
         /\ n = 6 => PointsAt(b, i, n) = IF b[i + 1] = 117 /\ IsScalar(ReadHex4(b, i + 2))
                                         THEN {ReadHex4(b, i + 2)} ELSE {}
         /\ n = 12 => PointsAt(b, i, n) = IF b[i + 1] = 117 /\ PairAt(b, i) THEN {BothAt(b, i)} ELSE {}
  <1> DEFINE u == Slice(b, i, n)
  <1>0. Len(b) \in Nat
    BY BytesOf
  <1>1. n \in Nat \ {0}
    BY DEF Sizes
  <1>2. /\ u \in Bytes /\ Len(u) = n /\ u[1] = b[i] /\ (i + n) - 1 <= Len(b)
        /\ \A k \in 0..(n - 1) : u[1 + k] = b[i + k]
    BY <1>1, SliceIs
  <1>3. PointsAt(b, i, n) = (IF n <= 4 THEN RawPoints(u) ELSE {}) \cup EscapedPoints(u)
    BY Zenon DEF PointsAt
  <1> HIDE DEF u
  <1>4. u[1] = Backslash /\ u[1] < 128
    BY <1>2 DEF Backslash
  <1>5. n <= 4 => RawPoints(u) = {}
    <2> SUFFICES ASSUME n <= 4 PROVE RawPoints(u) = {}
      OBVIOUS
    <2>1. Utf8Length(u, 1) # n
      BY <1>1, <1>2, <1>4, AsciiStartsNone
    <2>2. 1 <= n /\ n <= 4
      BY <1>1
    <2> QED
      BY <1>1, <1>2, <1>4, <2>1, <2>2, RawPointsAre
  <1>6. PointsAt(b, i, n) = EscapedPoints(u)
    BY <1>3, <1>5
  <1>7. EscapesSpelled(u, n)
    BY <1>1, <1>2, EscapedAre
  <1>8. CASE n \in {1, 3, 4}
    <2>1. EscapedPoints(u) = {}
      BY <1>7, <1>8 DEF EscapesSpelled
    <2> QED
      BY <1>6, <1>8, <2>1
  <1>9. CASE n = 2
    <2>1. u[2] = b[i + 1]
      BY <1>2, <1>9
    <2>2. EscapedPoints(u) = IF EscapeOf(u[2]) # -1 THEN {EscapeOf(u[2])} ELSE {}
      BY <1>4, <1>7, <1>9 DEF EscapesSpelled
    <2> QED
      BY <1>6, <1>9, <2>1, <2>2
  <1>10. ASSUME 6 <= n PROVE u[2] = b[i + 1] /\ ReadHex4(u, 3) = ReadHex4(b, i + 2)
    <2>1. 1 \in 0..(n - 1)
      BY <1>1, <1>10
    <2>2. u[2] = b[i + 1]
      BY <1>2, <2>1
    <2>3. \A k \in 0..3 : u[3 + k] = b[(i + 2) + k]
      <3> SUFFICES ASSUME NEW k \in 0..3 PROVE u[3 + k] = b[(i + 2) + k]
        OBVIOUS
      <3>1. 2 + k \in 0..(n - 1) /\ 1 + (2 + k) = 3 + k /\ i + (2 + k) = (i + 2) + k
        BY <1>1, <1>10
      <3> QED
        BY <1>2, <3>1
    <2>4. Has(u, 3, 4) /\ Has(b, i + 2, 4) /\ 3 \in Nat /\ i + 2 \in Nat
      BY <1>0, <1>1, <1>2, <1>10 DEF Has
    <2> QED
      BY <2>2, <2>3, <2>4, HexLocal
  <1>11. CASE n = 6
    <2>1. EscapedPoints(u) = IF u[2] = 117 /\ IsScalar(ReadHex4(u, 3)) THEN {ReadHex4(u, 3)} ELSE {}
      BY <1>4, <1>7, <1>11 DEF EscapesSpelled
    <2>2. u[2] = b[i + 1] /\ ReadHex4(u, 3) = ReadHex4(b, i + 2)
      BY <1>10, <1>11
    <2>3. EscapedPoints(u) = IF b[i + 1] = 117 /\ IsScalar(ReadHex4(b, i + 2))
                             THEN {ReadHex4(b, i + 2)} ELSE {}
      BY <2>1, <2>2, Zenon
    <2> QED
      BY <1>6, <1>11, <2>3
  <1>12. CASE n = 12
    <2>1. EscapedPoints(u) =
             IF /\ u[2] = 117 /\ u[7] = Backslash /\ u[8] = 117
                /\ IsHigh(ReadHex4(u, 3)) /\ IsLow(ReadHex4(u, 9))
             THEN {65536 + (ReadHex4(u, 3) - 55296) * 1024 + (ReadHex4(u, 9) - 56320)}
             ELSE {}
      BY <1>4, <1>7, <1>12 DEF EscapesSpelled
    <2>2. u[7] = b[i + 6] /\ u[8] = b[i + 7]
      BY <1>2, <1>12
    <2>3. \A k \in 0..3 : u[9 + k] = b[(i + 8) + k]
      <3> SUFFICES ASSUME NEW k \in 0..3 PROVE u[9 + k] = b[(i + 8) + k]
        OBVIOUS
      <3>1. 8 + k \in 0..(n - 1) /\ 1 + (8 + k) = 9 + k /\ i + (8 + k) = (i + 8) + k
        BY <1>12
      <3> QED
        BY <1>2, <3>1
    <2>4. Has(u, 9, 4) /\ Has(b, i + 8, 4) /\ 9 \in Nat /\ i + 8 \in Nat /\ i + 7 <= Len(b)
      BY <1>0, <1>2, <1>12 DEF Has
    <2>5. ReadHex4(u, 9) = ReadHex4(b, i + 8)
      BY <2>3, <2>4, HexLocal
    <2>6. u[2] = b[i + 1] /\ ReadHex4(u, 3) = ReadHex4(b, i + 2)
      BY <1>10, <1>12
    <2>7. EscapedPoints(u) = IF b[i + 1] = 117 /\ PairAt(b, i) THEN {BothAt(b, i)} ELSE {}
      <3> DEFINE val == 65536 + (ReadHex4(u, 3) - 55296) * 1024 + (ReadHex4(u, 9) - 56320)
                 is == /\ u[2] = 117 /\ u[7] = Backslash /\ u[8] = 117
                       /\ IsHigh(ReadHex4(u, 3)) /\ IsLow(ReadHex4(u, 9))
      <3>1. val = BothAt(b, i)
        BY <2>5, <2>6 DEF BothAt
      <3>2. is <=> b[i + 1] = 117 /\ PairAt(b, i)
        BY <2>2, <2>4, <2>5, <2>6, Zenon DEF PairAt
      <3>3. EscapedPoints(u) = IF is THEN {val} ELSE {}
        BY <2>1
      <3> HIDE DEF val, is
      <3> QED
        BY <3>1, <3>2, <3>3, Zenon
    <2> QED
      BY <1>6, <1>12, <2>7
  <1> QED
    BY <1>8, <1>9, <1>11, <1>12 DEF Sizes

\* What can be read at a backslash, with e after it and h the value of the digits after that.
EscapeReads(b, i, e, h) ==
    /\ i = Len(b) => NonePoint(b, i)
    /\ i < Len(b) /\ EscapeOf(e) # -1 => OnePoint(b, i, 2, EscapeOf(e))
    /\ i < Len(b) /\ e # 117 /\ EscapeOf(e) = -1 => NonePoint(b, i)
    /\ e = 117 /\ IsScalar(h) => OnePoint(b, i, 6, h)
    /\ e = 117 /\ PairAt(b, i) => OnePoint(b, i, 12, BothAt(b, i))
    /\ e = 117 /\ ~IsScalar(h) /\ ~PairAt(b, i) => NonePoint(b, i)

LEMMA EscapePoints ==
  ASSUME NEW b \in Bytes, NEW i \in 1..Len(b), b[i] = Backslash,
         NEW e, e = b[i + 1], NEW h, h = ReadHex4(b, i + 2)
  PROVE  EscapeReads(b, i, e, h)
  <1> DEFINE N == Len(b)
             P(n) == PointsAt(b, i, n)
             l == ReadHex4(b, i + 8)
  <1>0. N \in Nat /\ i \in 1..N
    BY BytesOf
  <1>1. \A n \in Sizes : Has(b, i, n) <=> (i + n) - 1 <= N
    BY <1>0 DEF Sizes, Has
  <1>2. \A n \in Sizes : n = 1 \/ n = 2 \/ n = 3 \/ n = 4 \/ n = 6 \/ n = 12
    BY DEF Sizes
  <1>3. 1 \in Sizes /\ 2 \in Sizes /\ 3 \in Sizes /\ 4 \in Sizes /\ 6 \in Sizes /\ 12 \in Sizes
    BY DEF Sizes
  <1>4. /\ Has(b, i, 1) => P(1) = {}
        /\ Has(b, i, 3) => P(3) = {}
        /\ Has(b, i, 4) => P(4) = {}
    <2>1. 1 \in {1, 3, 4} /\ 3 \in {1, 3, 4} /\ 4 \in {1, 3, 4}
      OBVIOUS
    <2> QED
      BY <1>3, <2>1, PointsAtBackslash, Zenon
  <1>5. Has(b, i, 2) => P(2) = IF EscapeOf(e) # -1 THEN {EscapeOf(e)} ELSE {}
    BY <1>3, PointsAtBackslash, Zenon
  <1>6. Has(b, i, 6) => P(6) = IF e = 117 /\ IsScalar(h) THEN {h} ELSE {}
    BY <1>3, PointsAtBackslash, Zenon
  <1>7. Has(b, i, 12) => P(12) = IF e = 117 /\ PairAt(b, i) THEN {BothAt(b, i)} ELSE {}
    BY <1>3, PointsAtBackslash, Zenon
  <1> HIDE DEF P
  <1>8. EscapeOf(117) = -1
    BY SMT DEF EscapeOf, Quote, Backslash
  <1>9. /\ h \in Int /\ -1 <= h /\ h < 65536 /\ (h # -1 => i + 5 <= N)
        /\ l \in Int /\ (l # -1 => i + 11 <= N)
    <2>1. i + 2 \in Nat \ {0} /\ i + 8 \in Nat \ {0}
      BY <1>0
    <2>2. /\ h \in Int /\ -1 <= h /\ h < 65536 /\ (h # -1 => (i + 2) + 3 <= N)
          /\ l \in Int /\ (l # -1 => (i + 8) + 3 <= N)
      BY <2>1, HexRead
    <2> QED
      BY <1>0, <2>2
  <1>10. IsScalar(h) => Has(b, i, 6) /\ ~PairAt(b, i)
    <2>1. IsScalar(h) => h # -1 /\ ~IsHigh(h)
      BY <1>9, SMT DEF IsScalar
    <2>2. IsScalar(h) => (i + 6) - 1 <= N
      BY <1>0, <1>9, <2>1
    <2> QED
      BY <1>1, <1>3, <2>1, <2>2 DEF PairAt
  <1>11. PairAt(b, i) => Has(b, i, 12)
    <2>1. PairAt(b, i) => IsLow(l)
      BY DEF PairAt
    <2>2. IsLow(l) => l # -1
      BY <1>9, SMT DEF IsLow
    <2>3. PairAt(b, i) => (i + 12) - 1 <= N
      BY <1>0, <1>9, <2>1, <2>2
    <2> QED
      BY <1>1, <1>3, <2>3
  <1>12. ASSUME i = N PROVE NonePoint(b, i)
    <2>1. \A n \in Sizes : Has(b, i, n) => n = 1
      BY <1>0, <1>1, <1>2, <1>12
    <2> QED
      BY <1>4, <2>1 DEF NonePoint, P
  <1>13. ASSUME i < N, EscapeOf(e) # -1 PROVE OnePoint(b, i, 2, EscapeOf(e))
    <2>1. Has(b, i, 2)
      BY <1>0, <1>1, <1>3, <1>13
    <2>2. e # 117
      BY <1>8, <1>13
    <2>3. P(2) = {EscapeOf(e)} /\ \A n \in Sizes : n # 2 /\ Has(b, i, n) => P(n) = {}
      BY <1>2, <1>4, <1>5, <1>6, <1>7, <1>13, <2>1, <2>2
    <2> QED
      BY <1>3, <2>1, <2>3 DEF OnePoint, P
  <1>14. ASSUME e # 117, EscapeOf(e) = -1 PROVE NonePoint(b, i)
    <2>1. \A n \in Sizes : Has(b, i, n) => P(n) = {}
      BY <1>2, <1>4, <1>5, <1>6, <1>7, <1>14
    <2> QED
      BY <2>1 DEF NonePoint, P
  <1>15. ASSUME e = 117, IsScalar(h) PROVE OnePoint(b, i, 6, h)
    <2>1. Has(b, i, 6) /\ ~PairAt(b, i) /\ EscapeOf(e) = -1
      BY <1>8, <1>10, <1>15
    <2>2. P(6) = {h} /\ \A n \in Sizes : n # 6 /\ Has(b, i, n) => P(n) = {}
      BY <1>2, <1>4, <1>5, <1>6, <1>7, <1>15, <2>1
    <2> QED
      BY <1>3, <2>1, <2>2 DEF OnePoint, P
  <1>16. ASSUME e = 117, PairAt(b, i) PROVE OnePoint(b, i, 12, BothAt(b, i))
    <2>1. Has(b, i, 12) /\ ~IsScalar(h) /\ EscapeOf(e) = -1
      BY <1>8, <1>10, <1>11, <1>16
    <2>2. P(12) = {BothAt(b, i)} /\ \A n \in Sizes : n # 12 /\ Has(b, i, n) => P(n) = {}
      BY <1>2, <1>4, <1>5, <1>6, <1>7, <1>16, <2>1
    <2> QED
      BY <1>3, <2>1, <2>2 DEF OnePoint, P
  <1>17. ASSUME e = 117, ~IsScalar(h), ~PairAt(b, i) PROVE NonePoint(b, i)
    <2>1. EscapeOf(e) = -1
      BY <1>8, <1>17
    <2>2. \A n \in Sizes : Has(b, i, n) => P(n) = {}
      BY <1>2, <1>4, <1>5, <1>6, <1>7, <1>17, <2>1
    <2> QED
      BY <2>2 DEF NonePoint, P
  <1> QED
    BY <1>12, <1>13, <1>14, <1>15, <1>16, <1>17 DEF EscapeReads

-----------------------------------------------------------------------------
(* One turn of the loop, on a body between its quotes.                     *)

Wraps(b, text) ==
    /\ Len(text) = Len(b) + 2 /\ text[Len(b) + 2] = Quote
    /\ \A k \in 1..Len(b) : text[k + 1] = b[k]

LEMMA HexWrapped ==
  ASSUME NEW b \in Bytes, NEW text \in Bytes, Wraps(b, text), NEW j \in Nat \ {0}
  PROVE  ReadHex4(text, j + 1) = ReadHex4(b, j)
  <1> DEFINE N == Len(b)
  <1>0. N \in Nat /\ Len(text) = N + 2 /\ text[N + 2] = Quote /\ \A k \in 1..N : text[k + 1] = b[k]
    BY BytesOf DEF Wraps
  <1> HIDE DEF N
  <1>1. (Has(b, j, 4) <=> j + 3 <= N) /\ (Has(text, j + 1, 4) <=> j + 2 <= N)
    BY <1>0 DEF Has, N
  <1>2. CASE j + 3 <= N
    <2>1. \A k \in 0..3 : text[(j + 1) + k] = b[j + k]
      <3> SUFFICES ASSUME NEW k \in 0..3 PROVE text[(j + 1) + k] = b[j + k]
        OBVIOUS
      <3>1. j + k \in 1..N /\ (j + 1) + k = (j + k) + 1
        BY <1>0, <1>2
      <3> QED
        BY <1>0, <3>1
    <2>2. Has(b, j, 4) /\ Has(text, j + 1, 4) /\ j \in Nat /\ j + 1 \in Nat
      BY <1>0, <1>1, <1>2
    <2> QED
      BY <2>1, <2>2, HexLocal
  <1>3. CASE ~(j + 3 <= N)
    <2>1. ReadHex4(b, j) = -1
      BY <1>1, <1>3 DEF ReadHex4
    <2>2. CASE j + 2 = N
      <3>1. (j + 1) + 3 = N + 2 /\ 3 \in 0..3
        BY <1>0, <2>2
      <3>2. HexValue(text[(j + 1) + 3]) = -1
        <4>1. HexValue(34) = -1
          BY SMT DEF HexValue, IsDigit
        <4> QED
          BY <1>0, <3>1, <4>1 DEF Quote
      <3>3. ~(\A k \in 0..3 : HexValue(text[(j + 1) + k]) # -1)
        BY <3>1, <3>2
      <3>4. ReadHex4(text, j + 1) = -1
        BY <3>3 DEF ReadHex4
      <3> QED
        BY <2>1, <3>4
    <2>3. CASE j + 2 # N
      <3>1. ~(j + 2 <= N)
        BY <1>0, <1>3, <2>3
      <3>2. ReadHex4(text, j + 1) = -1
        BY <1>1, <3>1 DEF ReadHex4
      <3> QED
        BY <2>1, <3>2
    <2> QED
      BY <2>2, <2>3
  <1> QED
    BY <1>2, <1>3

\* append_code_point takes the escape, or the pair, that is there.
LEMMA CodePointAgrees ==
  ASSUME NEW b \in Bytes, NEW text \in Bytes, Wraps(b, text), NEW i \in 1..Len(b),
         NEW t, t.pos = i + 3, NEW h, h = ReadHex4(b, i + 2)
  PROVE  /\ IsScalar(h) => AppendCodePoint(t, text) = Scanning(i + 7, t.out \o Utf8(h))
         /\ PairAt(b, i) => AppendCodePoint(t, text) = Scanning(i + 13, t.out \o Utf8(BothAt(b, i)))
         /\ ~IsScalar(h) /\ ~PairAt(b, i) => AppendCodePoint(t, text) = Malformed(t)
  <1> DEFINE N == Len(b)
             r == AppendCodePoint(t, text)
             l == ReadHex4(b, i + 8)
             low == IF Has(text, i + 7, 2) /\ Slice(text, i + 7, 2) = <<Backslash, 117>>
                    THEN ReadHex4(text, i + 9) ELSE -1
  <1>0. /\ N \in Nat /\ Len(text) = N + 2 /\ text[N + 2] = Quote
        /\ \A k \in 1..N : text[k + 1] = b[k]
    BY BytesOf DEF Wraps
  <1> HIDE DEF N
  <1>1. ReadHex4(text, i + 3) = h /\ ReadHex4(text, i + 9) = l
    <2>1. i + 2 \in Nat \ {0} /\ i + 8 \in Nat \ {0} /\ (i + 2) + 1 = i + 3 /\ (i + 8) + 1 = i + 9
      OBVIOUS
    <2>2. ReadHex4(text, (i + 2) + 1) = h /\ ReadHex4(text, (i + 8) + 1) = l
      BY <2>1, HexWrapped
    <2> QED
      BY <2>1, <2>2
  <1>2. h \in Int /\ -1 <= h /\ h < 65536 /\ l \in Int /\ -1 <= l /\ l < 65536
    <2>1. i + 2 \in Nat \ {0} /\ i + 8 \in Nat \ {0}
      OBVIOUS
    <2> QED
      BY <2>1, HexRead
  <1>3. r = IF h = -1 \/ IsLow(h) THEN Malformed(t)
            ELSE IF ~IsHigh(h) THEN Scanning(i + 7, t.out \o Utf8(h))
            ELSE IF ~IsLow(low) THEN Malformed(t)
            ELSE Scanning(i + 13, t.out \o Utf8(65536 + (h - 55296) * 1024 + (low - 56320)))
    <2>1. (i + 3) + 4 = i + 7 /\ (i + 7) + 2 = i + 9 /\ (i + 7) + 6 = i + 13
      OBVIOUS
    <2> QED
      BY <1>1, <2>1 DEF AppendCodePoint
  <1>4. /\ IsScalar(h) <=> h # -1 /\ ~IsLow(h) /\ ~IsHigh(h)
        /\ IsHigh(h) => h # -1 /\ ~IsLow(h)
    BY <1>2, SMT DEF IsScalar, IsHigh, IsLow
  <1> DEFINE marked == i + 7 <= N /\ b[i + 6] = Backslash /\ b[i + 7] = 117
  <1>5. low = IF marked THEN l ELSE -1
    <2>1. Has(text, i + 7, 2) <=> i + 6 <= N
      BY <1>0 DEF Has
    <2>2. CASE ~(i + 6 <= N)
      BY <1>0, <2>1, <2>2
    <2>3. CASE i + 6 <= N
      <3> DEFINE p == i + 7
                 v == Slice(text, p, 2)
      <3>1. /\ p \in 1..Len(text) /\ Has(text, p, 2)
            /\ p + 0 = i + 7 /\ p + 1 = i + 8 /\ 0 \in 0..(2 - 1) /\ 1 \in 0..(2 - 1)
            /\ 1 + 0 = 1 /\ 1 + 1 = 2 /\ 2 \in Nat \ {0}
        BY <1>0, <2>1, <2>3
      <3> HIDE DEF p
      <3>2. v \in Bytes /\ Len(v) = 2 /\ \A k \in 0..(2 - 1) : v[1 + k] = text[p + k]
        BY <3>1, SliceIs, Zenon
      <3> HIDE DEF v
      <3>3. v = <<v[1], v[2]>>
        BY <3>2, Spelled DEF Bytes
      <3>4. v[1 + 0] = text[p + 0] /\ v[1 + 1] = text[p + 1]
        BY <3>1, <3>2, Zenon
      <3>5. v[1] = text[i + 7] /\ v[2] = text[i + 8]
        BY <3>1, <3>4, Zenon
      <3>6. text[i + 7] = b[i + 6]
        <4>1. i + 6 \in 1..N /\ (i + 6) + 1 = i + 7
          BY <1>0, <2>3
        <4> QED
          BY <1>0, <4>1
      <3>7. v = <<Backslash, 117>> <=> marked
        <4>1. CASE i + 7 <= N
          <5>1. i + 7 \in 1..N /\ (i + 7) + 1 = i + 8
            BY <1>0, <4>1
          <5>2. text[i + 8] = b[i + 7]
            BY <1>0, <5>1
          <5> QED
            BY <3>3, <3>5, <3>6, <4>1, <5>2
        <4>2. CASE ~(i + 7 <= N)
          <5>1. i + 8 = N + 2
            BY <1>0, <2>3, <4>2
          <5>2. v[2] = 34
            BY <1>0, <3>5, <5>1 DEF Quote
          <5>3. v # <<Backslash, 117>>
            BY <5>2
          <5> QED
            BY <4>2, <5>3
        <4> QED
          BY <4>1, <4>2
      <3>8. Slice(text, i + 7, 2) = v /\ Has(text, i + 7, 2)
        BY <3>1 DEF v, p
      <3> HIDE DEF marked
      <3>9. low = IF marked THEN ReadHex4(text, i + 9) ELSE -1
        BY <3>7, <3>8, Zenon
      <3> QED
        BY <1>1, <3>9
    <2> QED
      BY <2>2, <2>3
  <1> HIDE DEF low, r
  <1>6. PairAt(b, i) <=> IsHigh(h) /\ IsLow(low)
    <2>1. ~IsLow(-1)
      BY SMT DEF IsLow
    <2>2. PairAt(b, i) <=> IsHigh(h) /\ marked /\ IsLow(l)
      BY Zenon DEF PairAt, N
    <2> HIDE DEF marked, l
    <2> QED
      BY <1>5, <2>1, <2>2, Zenon
  <1>7. PairAt(b, i) => BothAt(b, i) = 65536 + (h - 55296) * 1024 + (low - 56320)
    <2> SUFFICES ASSUME PairAt(b, i) PROVE BothAt(b, i) = 65536 + (h - 55296) * 1024 + (low - 56320)
      OBVIOUS
    <2>1. low = l
      BY <1>5 DEF PairAt, N
    <2> QED
      BY <2>1 DEF BothAt
  <1>8. ASSUME IsScalar(h) PROVE r = Scanning(i + 7, t.out \o Utf8(h))
    BY <1>3, <1>4, <1>8
  <1>9. ASSUME PairAt(b, i) PROVE r = Scanning(i + 13, t.out \o Utf8(BothAt(b, i)))
    BY <1>3, <1>4, <1>6, <1>7, <1>9
  <1>10. ASSUME ~IsScalar(h), ~PairAt(b, i) PROVE r = Malformed(t)
    BY <1>3, <1>4, <1>6, <1>10
  <1> QED
    BY <1>8, <1>9, <1>10 DEF r

\* What a turn does at byte i of the body, with o read before it: it takes the one code
\* point that can be read there; when there is none it fails, or takes the closing quote
\* for an escaped one.
Agrees(b, i, o, r) ==
    \/ r.err = "none" /\ \E m \in Sizes : \E c : /\ OnePoint(b, i, m, c) /\ r.pos = (i + 1) + m
                                                  /\ r.out = o \o Utf8(c)
    \/ (r.err # "none" \/ r.pos = Len(b) + 3) /\ NonePoint(b, i)

LEMMA TakenAgrees ==
  ASSUME NEW b, NEW i, NEW o, NEW m, NEW c, OnePoint(b, i, m, c), NEW pos, pos = (i + 1) + m,
         NEW r, r = Scanning(pos, o \o Utf8(c))
  PROVE  Agrees(b, i, o, r)
  <1>1. m \in Sizes
    BY DEF OnePoint
  <1>2. r.err = "none" /\ r.pos = (i + 1) + m /\ r.out = o \o Utf8(c)
    BY DEF Scanning
  <1> QED
    BY <1>1, <1>2 DEF Agrees

LEMMA FailedAgrees ==
  ASSUME NEW b, NEW i, NEW o, NonePoint(b, i), NEW s \in ScanState, NEW r, r = Malformed(s)
  PROVE  Agrees(b, i, o, r)
  <1>1. r.err = "MalformedJson"
    BY DEF Malformed, ScanState
  <1>2. r.err # "none"
    BY <1>1
  <1> QED
    BY <1>2 DEF Agrees

StepOn(s, text, x, n) ==
  /\ x = Backslash => ScanStep(s, text) = AppendEscape([s EXCEPT !.pos = @ + 1], text)
  /\ x < 32 => ScanStep(s, text) = Malformed(s)
  /\ 32 <= x /\ x < 128 /\ x # Backslash =>
        ScanStep(s, text) = Scanning(s.pos + 1, Append(s.out, x))
  /\ ~(x < 128) /\ n = 0 => ScanStep(s, text) = Malformed(s)
  /\ ~(x < 128) /\ n # 0 =>
        ScanStep(s, text) = Scanning(s.pos + n, s.out \o Slice(text, s.pos, n))

LEMMA ScanStepIs ==
  ASSUME NEW s, NEW text, Has(text, s.pos, 1), NEW x \in Nat, x = text[s.pos],
         NEW n, n = Utf8Length(text, s.pos)
  PROVE  StepOn(s, text, x, n)
  <1> DEFINE r == ScanStep(s, text)
             plain == x \in 32..127 /\ x # Backslash
             E == AppendEscape([s EXCEPT !.pos = @ + 1], text)
             O == Scanning(s.pos + 1, Append(s.out, x))
             H == IF n = 0 THEN Malformed(s)
                  ELSE Scanning(s.pos + n, s.out \o Slice(text, s.pos, n))
  <1>1. r = CASE x = Backslash -> E
              [] x < 32 -> Malformed(s)
              [] plain -> O
              [] x > 127 -> H
    BY DEF ScanStep
  <1>2. /\ x = Backslash => ~(x < 32) /\ ~(x > 127) /\ x < 128
        /\ plain <=> 32 <= x /\ x < 128 /\ x # Backslash
        /\ x < 32 => ~(x > 127) /\ ~(32 <= x) /\ x # Backslash
        /\ x > 127 <=> ~(x < 128)
    BY SMT DEF Backslash
  <1> HIDE DEF r, plain, E, O, H
  <1>3. x = Backslash => r = E
    BY <1>1, <1>2
  <1>4. x < 32 => r = Malformed(s)
    BY <1>1, <1>2
  <1>5. 32 <= x /\ x < 128 /\ x # Backslash => r = O
    BY <1>1, <1>2
  <1>6. ~(x < 128) => r = H
    BY <1>1, <1>2
  <1> QED
    BY <1>3, <1>4, <1>5, <1>6 DEF r, E, O, H, StepOn

LEMMA TurnAgrees ==
  ASSUME NEW b \in Bytes, NEW text \in Bytes, Wraps(b, text), NEW i \in 1..Len(b),
         NEW s \in ScanState, s.err = "none", s.pos = i + 1, b[i] # Quote
  PROVE  Agrees(b, i, s.out, ScanStep(s, text))
  <1> DEFINE N == Len(b)
             r == ScanStep(s, text)
             x == b[i]
             n == Utf8Length(text, i + 1)
             t == [s EXCEPT !.pos = @ + 1]
  <1>0. /\ N \in Nat /\ Len(text) = N + 2 /\ text[N + 2] = Quote
        /\ \A k \in 1..N : text[k + 1] = b[k]
    BY BytesOf DEF Wraps
  <1>1. x \in Byte /\ x \in Nat /\ x < 256 /\ i \in 1..N /\ s.out \in Bytes
    BY BytesOf DEF ScanState
  <1>2. Has(text, s.pos, 1) /\ text[s.pos] = x /\ text[i + 1] = x /\ i + 1 \in 1..Len(text)
    BY <1>0, <1>1 DEF Has
  <1>3. t \in ScanState /\ t.pos = i + 2 /\ t.out = s.out /\ t.err = "none"
    BY <1>1 DEF ScanState
  <1>4. n \in {0, 2, 3, 4} /\ n \in Nat
    BY <1>2, Utf8LengthTypes
  <1> HIDE DEF N, n, t, x
  <1>9. /\ x = Backslash => r = AppendEscape(t, text)
        /\ x < 32 => r = Malformed(s)
        /\ 32 <= x /\ x < 128 /\ x # Backslash => r = Scanning(s.pos + 1, Append(s.out, x))
        /\ ~(x < 128) /\ n = 0 => r = Malformed(s)
        /\ ~(x < 128) /\ n # 0 => r = Scanning(s.pos + n, s.out \o Slice(text, i + 1, n))
    <2>1. n = Utf8Length(text, s.pos)
      BY DEF n
    <2>2. StepOn(s, text, x, n)
      BY <1>1, <1>2, <2>1, ScanStepIs
    <2> QED
      BY <1>2, <2>2, <2>1 DEF t, StepOn
  <1> SUFFICES Agrees(b, i, s.out, r)
    OBVIOUS
  <1> HIDE DEF r
  <1>5. CASE x < 32
    <2>1. ~(x = Backslash) /\ ~(32 <= x) /\ x < 128
      BY <1>1, <1>5 DEF Backslash
    <2>2. NonePoint(b, i)
      BY <2>1, PlainPoints DEF x
    <2>3. r = Malformed(s)
      BY <1>5, <1>9
    <2> QED
      BY <2>2, <2>3, FailedAgrees
  <1>6. CASE x # Backslash /\ 32 <= x /\ x < 128
    <2>1. x # Quote /\ OnePoint(b, i, 1, x) /\ Utf8(x) = <<x>>
      BY <1>6, PlainPoints DEF x
    <2>2. r = Scanning(s.pos + 1, Append(s.out, x))
      BY <1>6, <1>9
    <2>3. Append(s.out, x) = s.out \o <<x>>
      BY <1>1, BytesAppended
    <2>4. r = Scanning(s.pos + 1, s.out \o Utf8(x))
      BY <2>1, <2>2, <2>3, Zenon
    <2>5. s.pos + 1 = (i + 1) + 1
      OBVIOUS
    <2>6. Agrees(b, i, s.out, r)
      BY <2>1, <2>4, <2>5, TakenAgrees, ZenonT(30)
    <2> QED
      BY <2>6
  <1>7. CASE ~(x < 128)
    <2> DEFINE m == Utf8Length(b, i)
    <2>0. m \in {0, 2, 3, 4} /\ (m # 0 => (i + m) - 1 <= N)
      BY Utf8LengthTypes DEF N
    <2>1. n # 0 => (i + n) - 1 <= N
      <3> SUFFICES ASSUME n # 0 PROVE (i + n) - 1 <= N
        OBVIOUS
      <3>1. /\ ((i + 1) + n) - 1 <= Len(text)
            /\ \A k \in 0..(n - 1) : text[(i + 1) + k] \in 128..255
        BY <1>2, Utf8LengthTypes DEF n
      <3>2. ASSUME (i + n) - 1 = N + 1 PROVE FALSE
        <4>1. n - 1 \in 0..(n - 1) /\ (i + 1) + (n - 1) = N + 2
          BY <1>0, <1>4, <3>2
        <4>2. text[N + 2] \in 128..255
          BY <3>1, <4>1
        <4> QED
          BY <1>0, <4>2 DEF Quote
      <3> QED
        BY <1>0, <1>4, <3>1, <3>2
    <2>2. \A k \in Nat : (i + k) <= N => text[(i + 1) + k] = b[i + k]
      <3> SUFFICES ASSUME NEW k \in Nat, i + k <= N PROVE text[(i + 1) + k] = b[i + k]
        OBVIOUS
      <3>1. i + k \in 1..N /\ (i + k) + 1 = (i + 1) + k
        BY <1>0
      <3> QED
        BY <1>0, <3>1
    <2>3. n # 0 => m = n
      <3> SUFFICES ASSUME n # 0 PROVE m = n
        OBVIOUS
      <3>1. (i + n) - 1 <= Len(b) /\ \A k \in 0..(n - 1) : b[i + k] = text[(i + 1) + k]
        BY <1>0, <1>4, <2>1, <2>2 DEF N
      <3> QED
        BY <1>2, <3>1, Utf8LengthLocal, ZenonT(30) DEF n
    <2>4. m # 0 => n = m
      <3> SUFFICES ASSUME m # 0 PROVE n = m
        OBVIOUS
      <3>0. m \in Nat
        BY <2>0
      <3>1. ((i + 1) + m) - 1 <= Len(text) /\ \A k \in 0..(m - 1) : text[(i + 1) + k] = b[i + k]
        BY <1>0, <2>0, <2>2, <3>0, SMTT(30)
      <3> QED
        BY <1>2, <3>1, Utf8LengthLocal, ZenonT(30) DEF n
    <2>5. n = m
      BY <2>3, <2>4
    <2>7. CASE n = 0
      <3>1. r = Malformed(s)
        BY <1>7, <1>9, <2>7
      <3>2. NonePoint(b, i)
        BY <1>7, <2>5, <2>7, HighPoints DEF x
      <3> QED
        BY <3>1, <3>2, FailedAgrees
    <2>8. CASE n # 0
      <3>1. r = Scanning(s.pos + n, s.out \o Slice(text, i + 1, n))
        BY <1>7, <1>9, <2>8
      <3>2. PICK c : OnePoint(b, i, n, c) /\ Utf8(c) = Slice(b, i, n)
        BY <1>7, <2>5, <2>8, HighPoints DEF x
      <3> DEFINE v == Slice(text, i + 1, n)
                 u == Slice(b, i, n)
      <3>3. Has(b, i, n) /\ Has(text, i + 1, n) /\ n \in Nat \ {0}
        BY <1>0, <1>4, <2>1, <2>8 DEF Has, N
      <3>4. u \in Bytes /\ Len(u) = n /\ \A k \in 0..(n - 1) : u[1 + k] = b[i + k]
        BY <3>3, SliceIs, ZenonT(30)
      <3>5. v \in Bytes /\ Len(v) = n /\ \A k \in 0..(n - 1) : v[1 + k] = text[(i + 1) + k]
        BY <1>2, <3>3, SliceIs, ZenonT(30)
      <3> HIDE DEF u, v
      <3>6. u = v
        <4>1. ASSUME NEW j \in 1..n PROVE u[j] = v[j]
          <5>1. j - 1 \in 0..(n - 1) /\ 1 + (j - 1) = j /\ j - 1 \in Nat /\ i + (j - 1) <= N
            BY <1>0, <1>4, <2>1, <2>8
          <5> QED
            BY <2>2, <3>4, <3>5, <5>1
        <4> QED
          BY <3>4, <3>5, <4>1, SeqEqual DEF Bytes
      <3>7. r = Scanning(s.pos + n, s.out \o Utf8(c)) /\ s.pos + n = (i + 1) + n
        BY <3>1, <3>2, <3>6 DEF u, v
      <3>8. Agrees(b, i, s.out, r)
        BY <3>2, <3>7, TakenAgrees, ZenonT(30)
      <3> QED
        BY <3>8
    <2> QED
      BY <2>7, <2>8
  <1>8. CASE x = Backslash
    <2> DEFINE e == text[i + 2]
               h == ReadHex4(b, i + 2)
    <2>1. r = AppendEscape(t, text)
      BY <1>8, <1>9
    <2>2. Has(text, i + 2, 1)
      BY <1>0, <1>1 DEF Has
    <2>3. r = CASE e = 117 -> AppendCodePoint([t EXCEPT !.pos = @ + 1], text)
                [] EscapeOf(e) # -1 -> Scanning(i + 3, Append(s.out, EscapeOf(e)))
                [] OTHER -> Malformed(t)
      <3>1. (i + 2) + 1 = i + 3
        OBVIOUS
      <3> QED
        BY <1>3, <2>1, <2>2, <3>1 DEF AppendEscape
    <2>4. EscapeOf(117) = -1 /\ EscapeOf(34) = 34
      BY SMT DEF EscapeOf, Quote, Backslash
    <2>5. CASE i = N
      <3>1. e = 34 /\ NonePoint(b, i)
        <4>1. i + 2 = N + 2
          BY <2>5
        <4>2. e = 34
          BY <1>0, <4>1 DEF Quote
        <4>3. NonePoint(b, i)
          <5>1. EscapeReads(b, i, b[i + 1], h)
            BY <1>8, EscapePoints DEF x
          <5> QED
            BY <2>5, <5>1 DEF EscapeReads, N
        <4> QED
          BY <4>2, <4>3
      <3>2. r = Scanning(i + 3, Append(s.out, EscapeOf(e)))
        BY <2>3, <2>4, <3>1
      <3>3. r.pos = N + 3
        BY <2>5, <3>2 DEF Scanning
      <3> QED
        BY <3>1, <3>3 DEF Agrees, N
    <2>6. CASE i < N
      <3>1. e = b[i + 1] /\ e \in Byte
        <4>1. i + 1 \in 1..N /\ (i + 1) + 1 = i + 2
          BY <1>0, <2>6
        <4>2. b[i + 1] \in Byte
          BY <4>1, BytesOf DEF N
        <4> QED
          BY <1>0, <4>1, <4>2
      <3>6. h = ReadHex4(b, i + 2)
        OBVIOUS
      <3> HIDE DEF e, h
      <3>5. EscapeReads(b, i, e, h)
        BY <1>8, <3>1, <3>6, EscapePoints DEF x
      <3>2. CASE e = 117
        <4> DEFINE v == [t EXCEPT !.pos = @ + 1]
        <4>1. r = AppendCodePoint(v, text)
          BY <2>3, <2>4, <3>2
        <4>2. v \in ScanState /\ v.pos = i + 3 /\ v.out = s.out
          BY <1>3 DEF ScanState
        <4> HIDE DEF v
        <4>3. CASE IsScalar(h)
          <5>1. r = Scanning(i + 7, v.out \o Utf8(h))
            BY <4>1, <4>2, <4>3, <3>6, CodePointAgrees
          <5>2. OnePoint(b, i, 6, h)
            BY <3>2, <3>5, <4>3 DEF EscapeReads
          <5>3. i + 7 = (i + 1) + 6 /\ r = Scanning(i + 7, s.out \o Utf8(h))
            BY <4>2, <5>1
          <5>4. Agrees(b, i, s.out, r)
            BY <5>2, <5>3, TakenAgrees, ZenonT(30)
          <5> QED
            BY <5>4
        <4>4. CASE PairAt(b, i)
          <5>1. r = Scanning(i + 13, v.out \o Utf8(BothAt(b, i)))
            BY <4>1, <4>2, <4>4, <3>6, CodePointAgrees
          <5>2. OnePoint(b, i, 12, BothAt(b, i))
            BY <3>2, <3>5, <4>4 DEF EscapeReads
          <5>3. i + 13 = (i + 1) + 12 /\ r = Scanning(i + 13, s.out \o Utf8(BothAt(b, i)))
            BY <4>2, <5>1
          <5>4. Agrees(b, i, s.out, r)
            BY <5>2, <5>3, TakenAgrees, ZenonT(30)
          <5> QED
            BY <5>4
        <4>5. CASE ~IsScalar(h) /\ ~PairAt(b, i)
          <5>1. r = Malformed(v)
            BY <4>1, <4>2, <4>5, <3>6, CodePointAgrees
          <5>2. NonePoint(b, i)
            BY <3>2, <3>5, <4>5 DEF EscapeReads
          <5>3. Agrees(b, i, s.out, r)
            BY <4>2, <5>1, <5>2, FailedAgrees
          <5> QED
            BY <5>3
        <4> QED
          BY <4>3, <4>4, <4>5
      <3>3. CASE e # 117 /\ EscapeOf(e) # -1
        <4> DEFINE y == EscapeOf(e)
        <4>1. r = Scanning(i + 3, Append(s.out, y))
          BY <2>3, <3>3
        <4>2. y \in Byte /\ y <= 127
          BY <3>1, <3>3, Escapes
        <4>3. OnePoint(b, i, 2, y)
          BY <2>6, <3>3, <3>5 DEF EscapeReads, N
        <4> HIDE DEF y
        <4>4. Append(s.out, y) = s.out \o <<y>>
          BY <1>1, <4>2, BytesAppended
        <4>5. Utf8(y) = <<y>>
          <5>1. y < 128
            BY <4>2 DEF Byte
          <5> QED
            BY <5>1 DEF Utf8
        <4>6. r = Scanning(i + 3, s.out \o Utf8(y)) /\ i + 3 = (i + 1) + 2
          BY <4>1, <4>4, <4>5
        <4>7. Agrees(b, i, s.out, r)
          BY <4>3, <4>6, TakenAgrees, ZenonT(30)
        <4> QED
          BY <4>7
      <3>4. CASE e # 117 /\ EscapeOf(e) = -1
        <4>1. r = Malformed(t)
          BY <2>3, <3>4
        <4>2. NonePoint(b, i)
          BY <2>6, <3>4, <3>5 DEF EscapeReads, N
        <4> QED
          BY <1>3, <4>1, <4>2, FailedAgrees
      <3> QED
        BY <3>2, <3>3, <3>4
    <2> QED
      BY <1>0, <1>1, <2>5, <2>6
  <1> QED
    BY <1>1, <1>5, <1>6, <1>7, <1>8

-----------------------------------------------------------------------------
(* The turns of the loop and the readings of the body, side by side.       *)

\* With o read before i, q is a reading with one code point more.
CanRead(b, i, o, q) ==
    \E n \in Sizes : Has(b, i, n) /\ \E c \in PointsAt(b, i, n) : q = <<i + n, o \o Utf8(c)>>

LEMMA ReadOnHas ==
  ASSUME NEW b, NEW p, p[1] # Len(b) + 1, NEW q
  PROVE  q \in ReadOn(b, p) <=> CanRead(b, p[1], p[2], q)
  <1> DEFINE Took(n) == {<<p[1] + n, p[2] \o Utf8(c)>> : c \in PointsAt(b, p[1], n)}
             There == {m \in Sizes : Has(b, p[1], m)}
  <1>1. ReadOn(b, p) = UNION {Took(n) : n \in There}
    BY Zenon DEF ReadOn, Sizes
  <1>2. \A n : q \in Took(n) <=> \E c \in PointsAt(b, p[1], n) : q = <<p[1] + n, p[2] \o Utf8(c)>>
    BY Zenon
  <1>3. \A n : n \in There <=> n \in Sizes /\ Has(b, p[1], n)
    BY Zenon
  <1> HIDE DEF Took, There
  <1>4. q \in ReadOn(b, p) <=> \E n \in There : q \in Took(n)
    BY <1>1, Zenon
  <1> QED
    BY <1>2, <1>3, <1>4, Zenon DEF CanRead

\* What is read at i when nothing can be, and when one code point can be.
LEMMA ReadOnNone ==
  ASSUME NEW b, NEW i, NEW o, i # Len(b) + 1, NonePoint(b, i)
  PROVE  ReadOn(b, <<i, o>>) = {}
  <1> DEFINE p == <<i, o>>
  <1>1. p[1] = i /\ p[2] = o
    OBVIOUS
  <1> HIDE DEF p
  <1>2. \A q : ~CanRead(b, i, o, q)
    BY Zenon DEF CanRead, NonePoint
  <1>3. \A q : q \notin ReadOn(b, p)
    BY <1>1, <1>2, ReadOnHas, Zenon
  <1> QED
    BY <1>3, Zenon DEF p

ReadsOne(b, i, o, m, c) == ReadOn(b, <<i, o>>) = {<<i + m, o \o Utf8(c)>>}

LEMMA ReadOnOne ==
  ASSUME NEW b, NEW i, NEW o, i # Len(b) + 1, NEW m, NEW c, OnePoint(b, i, m, c)
  PROVE  ReadsOne(b, i, o, m, c)
  <1> DEFINE p == <<i, o>>
             z == <<i + m, o \o Utf8(c)>>
  <1>1. p[1] = i /\ p[2] = o
    OBVIOUS
  <1> HIDE DEF p
  <1>2. \A q : CanRead(b, i, o, q) => q = z
    <2> SUFFICES ASSUME NEW q, CanRead(b, i, o, q) PROVE q = z
      OBVIOUS
    <2>1. PICK n \in Sizes : Has(b, i, n) /\ \E d \in PointsAt(b, i, n) : q = <<i + n, o \o Utf8(d)>>
      BY Zenon DEF CanRead
    <2>2. PICK d \in PointsAt(b, i, n) : q = <<i + n, o \o Utf8(d)>>
      BY <2>1
    <2>3. n = m
      BY <2>1, <2>2, Zenon DEF OnePoint
    <2>4. d = c
      BY <2>2, <2>3, Zenon DEF OnePoint
    <2> QED
      BY <2>2, <2>3, <2>4, Zenon
  <1>3. CanRead(b, i, o, z)
    <2>1. m \in Sizes /\ Has(b, i, m) /\ c \in PointsAt(b, i, m)
      BY Zenon DEF OnePoint
    <2> QED
      BY <2>1, Zenon DEF CanRead
  <1> HIDE DEF z
  <1>4. \A q : q \in ReadOn(b, p) <=> CanRead(b, i, o, q)
    BY <1>1, ReadOnHas, Zenon
  <1>5. \A q : q \in ReadOn(b, p) <=> q = z
    BY <1>2, <1>3, <1>4, Zenon
  <1>6. ReadOn(b, p) = {z}
    BY <1>5, Zenon
  <1> QED
    BY <1>6 DEF p, z, ReadsOne

ReadNext(b, R) == UNION {ReadOn(b, p) : p \in R}

\* After k turns.  While the scanner goes on there is one reading, that ends where it is;
\* at a quote inside the body the scanner stops, and nothing can be read on.
ReadSoFar(b, text, s, R, k) ==
    \/ /\ s.err = "none" /\ 2 <= s.pos /\ s.pos <= Len(b) + 2 /\ R = {<<s.pos - 1, s.out>>}
       /\ k + 2 <= s.pos \/ text[s.pos] = Quote
    \/ /\ s.err = "none" /\ 2 <= s.pos /\ s.pos <= Len(b) + 1 /\ R = {}
       /\ text[s.pos] = Quote
    \/ (s.err # "none" \/ s.pos = Len(b) + 3) /\ R = {}

Turn(s, text) ==
    IF s.err # "none" THEN s
    ELSE IF Has(text, s.pos, 1) /\ text[s.pos] = Quote THEN s
    ELSE ScanStep(s, text)

LEMMA ReadSoFarNext ==
  ASSUME NEW b \in Bytes, NEW text \in Bytes, Wraps(b, text), NEW s \in ScanState,
         NEW k \in Nat, k # 0, NEW R, ReadSoFar(b, text, s, R, k - 1),
         NEW r, r = Turn(s, text)
  PROVE  ReadSoFar(b, text, r, ReadNext(b, R), k)
  <1> DEFINE N == Len(b)
             i == s.pos - 1
  <1>0. /\ N \in Nat /\ Len(text) = N + 2 /\ text[N + 2] = Quote
        /\ \A j \in 1..N : text[j + 1] = b[j]
    BY BytesOf DEF Wraps
  <1>1. s.pos \in Nat /\ s.out \in Bytes
    BY DEF ScanState
  <1>2. Has(text, s.pos, 1) <=> s.pos <= N + 2
    BY <1>0, <1>1 DEF Has
  <1> HIDE DEF N
  <1>3. ASSUME s.err = "none", 2 <= s.pos, s.pos <= N + 2, R = {<<i, s.out>>},
               (k - 1) + 2 <= s.pos \/ text[s.pos] = Quote
        PROVE  ReadSoFar(b, text, r, ReadNext(b, R), k)
    <2>1. ReadNext(b, R) = ReadOn(b, <<i, s.out>>)
      BY <1>3, Zenon DEF ReadNext
    <2>2. CASE s.pos = N + 2
      <3>1. i = Len(b) + 1
        BY <1>0, <2>2 DEF N
      <3>2. ReadNext(b, R) = {<<i, s.out>>}
        BY <2>1, <3>1, Zenon DEF ReadOn
      <3>3. r = s
        BY <1>0, <1>2, <1>3, <2>2 DEF Turn
      <3> QED
        BY <1>0, <1>3, <2>2, <3>2, <3>3 DEF ReadSoFar, N
    <2>3. CASE s.pos # N + 2
      <3>1. i \in 1..Len(b) /\ i # Len(b) + 1 /\ s.pos = i + 1 /\ s.pos <= N + 1
        BY <1>0, <1>1, <1>3, <2>3 DEF N
      <3>2. text[s.pos] = b[i]
        BY <1>0, <3>1 DEF N
      <3> HIDE DEF i
      <3>3. CASE b[i] = Quote
        <4>1. NonePoint(b, i)
          BY <3>1, <3>3, PlainPoints DEF Quote, Backslash
        <4>2. ReadNext(b, R) = {}
          BY <2>1, <3>1, <4>1, ReadOnNone, Zenon
        <4>3. r = s
          BY <1>2, <1>3, <3>2, <3>3 DEF Turn
        <4> QED
          BY <1>3, <3>1, <3>2, <3>3, <4>2, <4>3 DEF ReadSoFar, N
      <3>4. CASE b[i] # Quote
        <4>1. r = ScanStep(s, text)
          BY <1>3, <3>2, <3>4 DEF Turn
        <4>2. Agrees(b, i, s.out, r)
          BY <1>3, <3>1, <3>4, <4>1, TurnAgrees
        <4>3. CASE r.err = "none" /\ \E m \in Sizes : \E c : /\ OnePoint(b, i, m, c) /\ r.pos = (i + 1) + m
                                                              /\ r.out = s.out \o Utf8(c)
          <5>6. PICK m \in Sizes : \E c : /\ OnePoint(b, i, m, c) /\ r.pos = (i + 1) + m
                                          /\ r.out = s.out \o Utf8(c)
            BY <4>3
          <5>1. PICK c : OnePoint(b, i, m, c) /\ r.pos = (i + 1) + m /\ r.out = s.out \o Utf8(c)
            BY <5>6
          <5>2. ReadNext(b, R) = {<<i + m, s.out \o Utf8(c)>>}
            <6>1. i # Len(b) + 1 /\ OnePoint(b, i, m, c)
              BY <3>1, <5>1
            <6>2. ReadsOne(b, i, s.out, m, c)
              BY <6>1, ReadOnOne
            <6> QED
              BY <2>1, <6>2, Zenon DEF ReadsOne
          <5>3. m \in Nat /\ 1 <= m /\ (i + m) - 1 <= N
            <6>1. m \in Nat /\ 1 <= m
              BY DEF Sizes
            <6>2. Has(b, i, m)
              BY <5>1 DEF OnePoint
            <6> QED
              BY <1>0, <3>1, <6>1, <6>2 DEF Has, N
          <5>4. r.pos - 1 = i + m /\ 2 <= r.pos /\ r.pos <= N + 2 /\ k + 2 <= r.pos
            <6>1. (k - 1) + 2 <= s.pos
              BY <1>3, <3>2, <3>4
            <6> QED
              BY <1>0, <3>1, <5>1, <5>3, <6>1
          <5>5. ReadNext(b, R) = {<<r.pos - 1, r.out>>}
            BY <5>1, <5>2, <5>4
          <5> QED
            BY <4>3, <5>4, <5>5 DEF ReadSoFar, N
        <4>4. CASE (r.err # "none" \/ r.pos = Len(b) + 3) /\ NonePoint(b, i)
          <5>1. ReadNext(b, R) = {}
            BY <2>1, <3>1, <4>4, ReadOnNone, Zenon
          <5> QED
            BY <4>4, <5>1 DEF ReadSoFar
        <4> QED
          BY <4>2, <4>3, <4>4 DEF Agrees
      <3> QED
        BY <3>3, <3>4
    <2> QED
      BY <2>2, <2>3
  <1>4. R = {} => ReadNext(b, R) = {}
    BY Zenon DEF ReadNext
  <1>5. ASSUME s.err = "none", 2 <= s.pos, s.pos <= N + 1, R = {}, text[s.pos] = Quote
        PROVE  ReadSoFar(b, text, r, ReadNext(b, R), k)
    <2>1. r = s
      BY <1>0, <1>1, <1>2, <1>5 DEF Turn
    <2> QED
      BY <1>4, <1>5, <2>1 DEF ReadSoFar, N
  <1>6. ASSUME s.err # "none" \/ s.pos = N + 3, R = {}
        PROVE  ReadSoFar(b, text, r, ReadNext(b, R), k)
    <2>1. CASE s.err # "none"
      <3>1. r = s
        BY <2>1 DEF Turn
      <3> QED
        BY <1>4, <1>6, <2>1, <3>1 DEF ReadSoFar
    <2>2. CASE s.err = "none" /\ s.pos = N + 3
      <3>1. ~Has(text, s.pos, 1)
        BY <1>0, <1>2, <2>2
      <3>2. r = Malformed(s)
        BY <2>2, <3>1 DEF Turn, ScanStep
      <3>3. r.err = "MalformedJson"
        BY <3>2 DEF Malformed, ScanState
      <3> QED
        BY <1>4, <1>6, <3>3 DEF ReadSoFar
    <2> QED
      BY <1>6, <2>1, <2>2
  <1> QED
    BY <1>3, <1>5, <1>6 DEF ReadSoFar, N

Positions == SUBSET (Nat \X Bytes)

LEMMA ReadSoFarTyped ==
  ASSUME NEW b, NEW text, NEW s \in ScanState, NEW R, NEW k, ReadSoFar(b, text, s, R, k)
  PROVE  R \in Positions
  <1>1. CASE R = {}
    BY <1>1 DEF Positions
  <1>2. CASE R = {<<s.pos - 1, s.out>>}
    <2>1. s.pos - 1 \in Nat /\ s.out \in Bytes
      BY DEF ScanState
    <2> QED
      BY <1>2, <2>1 DEF Positions
  <1> QED
    BY <1>1, <1>2 DEF ReadSoFar

\* The body between its quotes.
LEMMA QuotedWraps ==
  ASSUME NEW b \in Bytes
  PROVE  LET text == <<Quote>> \o b \o <<Quote>> IN
         /\ text \in Bytes /\ Wraps(b, text) /\ text # << >> /\ text[1] = Quote
         /\ SubSeq(text, 2, Len(text) - 1) = b
  <1> DEFINE q == <<Quote>>
             c == q \o b
             text == c \o q
             N == Len(b)
  <1>1. q \in Bytes /\ Len(q) = 1 /\ q[1] = Quote
    BY DEF Bytes, Byte, Quote
  <1> HIDE DEF q
  <1>2. /\ c \in Bytes /\ N \in Nat /\ Len(c) = Len(q) + N
        /\ \A i \in 1..Len(q) : c[i] = q[i]
        /\ \A i \in 1..N : c[Len(q) + i] = b[i]
    BY <1>1, BytesJoined
  <1> HIDE DEF c
  <1>3. /\ text \in Bytes /\ Len(text) = Len(c) + Len(q)
        /\ \A i \in 1..Len(c) : text[i] = c[i]
        /\ \A i \in 1..Len(q) : text[Len(c) + i] = q[i]
    BY <1>1, <1>2, BytesJoined
  <1> HIDE DEF text
  <1>4. Len(c) = N + 1 /\ Len(text) = N + 2
    BY <1>1, <1>2, <1>3
  <1>5. text[1] = Quote
    BY <1>1, <1>2, <1>3, <1>4
  <1>6. text[N + 2] = Quote
    <2>1. (N + 1) + 1 = N + 2 /\ 1 \in 1..Len(q)
      BY <1>1, <1>2
    <2> QED
      BY <1>1, <1>3, <1>4, <2>1
  <1>7. ASSUME NEW k \in 1..N PROVE text[k + 1] = b[k]
    <2>1. k + 1 \in 1..Len(c) /\ Len(q) + k = k + 1
      BY <1>1, <1>2, <1>4
    <2> QED
      BY <1>2, <1>3, <2>1
  <1>8. text # << >>
    <2>1. Len(text) # 0
      BY <1>2, <1>4
    <2> QED
      BY <2>1
  <1>9. SubSeq(text, 2, Len(text) - 1) = b
    <2> DEFINE e == N + 1
               v == SubSeq(text, 2, e)
    <2>1. 2 \in 1..(Len(text) + 1) /\ e \in (2 - 1)..Len(text) /\ (e - 2) + 1 = N /\ Len(text) - 1 = e
      BY <1>2, <1>4
    <2>2. v \in Bytes /\ Len(v) = N /\ \A i \in 1..N : v[i] = text[(2 + i) - 1]
      <3> HIDE DEF e
      <3>1. /\ v \in Bytes /\ Len(v) = (e - 2) + 1
            /\ \A i \in 1..((e - 2) + 1) : v[i] = text[(2 + i) - 1]
        BY <1>3, <2>1, BytesPart
      <3> QED
        BY <2>1, <3>1
    <2> HIDE DEF v
    <2>3. ASSUME NEW i \in 1..N PROVE v[i] = b[i]
      <3>1. (2 + i) - 1 = i + 1
        BY <1>2
      <3> QED
        BY <1>7, <2>2, <3>1
    <2>4. v = b
      BY <2>2, <2>3, SeqEqual DEF Bytes
    <2> QED
      BY <2>1, <2>4 DEF v
  <1>10. Wraps(b, text)
    BY <1>4, <1>6, <1>7 DEF Wraps
  <1> QED
    BY <1>3, <1>5, <1>8, <1>9, <1>10 DEF text, c, q

\* The readings keep in step with the turns of the loop.
LEMMA ReadingsFollow ==
  ASSUME NEW b \in Bytes, NEW text \in Bytes, Wraps(b, text), NEW f, f[0] = {<<1, << >>>>},
         \A k \in 1..Len(b) : ReadNext(b, f[k - 1]) \in Positions => f[k] = ReadNext(b, f[k - 1])
  PROVE  /\ \A k \in 0..Len(b) : ReadSoFar(b, text, ScanTurns(text)[k], f[k], k)
         /\ \A k \in 1..Len(b) : f[k] = ReadNext(b, f[k - 1])
  <1> DEFINE turn == ScanTurns(text)
             N == Len(b)
             T == {k \in 0..N : ReadSoFar(b, text, turn[k], f[k], k)}
  <1>1. N \in Nat /\ Len(text) = N + 2
    BY BytesOf DEF Wraps
  <1>2. /\ turn[0] = Scanning(2, << >>)
        /\ \A k \in 1..(N + 2) : turn[k] = Turn(turn[k - 1], text)
        /\ \A k \in 0..(N + 2) : turn[k] \in ScanState
    <2>1. /\ turn[0] = Scanning(2, << >>)
          /\ \A k \in 1..Len(text) :
               turn[k] = IF turn[k - 1].err # "none" THEN turn[k - 1]
                         ELSE IF Has(text, turn[k - 1].pos, 1) /\ text[turn[k - 1].pos] = Quote
                              THEN turn[k - 1]
                         ELSE ScanStep(turn[k - 1], text)
          /\ \A k \in 0..Len(text) : turn[k] \in ScanState
      BY ScanTurnsExist
    <2> HIDE DEF turn
    <2> QED
      BY <1>1, <2>1, Zenon DEF Turn
  <1> HIDE DEF turn
  <1>3. 0 \in T
    <2>1. turn[0].err = "none" /\ turn[0].pos = 2 /\ turn[0].out = << >>
      BY <1>2 DEF Scanning
    <2>2. ReadSoFar(b, text, turn[0], f[0], 0)
      <3> DEFINE s == turn[0]
      <3>1. s.err = "none" /\ s.pos = 2 /\ s.out = << >>
        BY <2>1
      <3> HIDE DEF s
      <3>2. s.pos - 1 = 1 /\ 2 <= s.pos /\ s.pos <= Len(b) + 2 /\ 0 + 2 <= s.pos
        BY <1>1, <3>1
      <3>3. f[0] = {<<s.pos - 1, s.out>>}
        BY <3>1, <3>2
      <3>4. ReadSoFar(b, text, s, f[0], 0)
        BY <3>1, <3>2, <3>3 DEF ReadSoFar
      <3> QED
        BY <3>4 DEF s
    <2>3. 0 \in 0..N
      BY <1>1
    <2> HIDE DEF N
    <2> QED
      BY <2>2, <2>3, Zenon
  <1>4. ASSUME NEW k \in 1..N, k - 1 \in T
        PROVE  ReadSoFar(b, text, turn[k], f[k], k) /\ f[k] = ReadNext(b, f[k - 1])
    <2>1. /\ turn[k] = Turn(turn[k - 1], text) /\ turn[k - 1] \in ScanState /\ turn[k] \in ScanState
          /\ k \in Nat /\ k # 0
      <3>1. k \in 1..(N + 2) /\ k - 1 \in 0..(N + 2) /\ k \in 0..(N + 2) /\ k \in Nat /\ k # 0
        BY <1>1
      <3> QED
        BY <1>2, <3>1
    <2>2. ReadSoFar(b, text, turn[k - 1], f[k - 1], k - 1)
      BY <1>4
    <2> HIDE DEF T
    <2>3. ReadSoFar(b, text, turn[k], ReadNext(b, f[k - 1]), k)
      BY <2>1, <2>2, ReadSoFarNext
    <2>4. ReadNext(b, f[k - 1]) \in Positions
      BY <2>1, <2>3, ReadSoFarTyped
    <2>5. f[k] = ReadNext(b, f[k - 1])
      BY <2>4
    <2> QED
      BY <2>3, <2>5
  <1>5. ASSUME NEW k \in 1..N, k - 1 \in T PROVE k \in T
    <2>1. ReadSoFar(b, text, turn[k], f[k], k)
      BY <1>4, <1>5
    <2>2. k \in 0..N
      BY <1>1
    <2> QED
      BY <2>1, <2>2
  <1> HIDE DEF T
  <1>6. \A k \in 0..N : k \in T
    BY <1>1, <1>3, <1>5, UpTo
  <1>7. ASSUME NEW k \in 1..N PROVE f[k] = ReadNext(b, f[k - 1])
    <2>1. k - 1 \in 0..N
      BY <1>1
    <2> QED
      BY <1>4, <1>6, <2>1
  <1>8. ASSUME NEW k \in 0..N PROVE ReadSoFar(b, text, turn[k], f[k], k)
    BY <1>6 DEF T
  <1> QED
    BY <1>7, <1>8 DEF turn

LEMMA ReadingsExist ==
  ASSUME NEW b \in Bytes
  PROVE  LET after == ReadingsAfter(b) IN
         /\ after[0] = {<<1, << >>>>}
         /\ \A k \in 1..Len(b) : after[k] = ReadNext(b, after[k - 1])
  <1> DEFINE a == {<<1, << >>>>}
             N == Len(b)
             Step(R) == IF ReadNext(b, R) \in Positions THEN ReadNext(b, R) ELSE R
             g == [k \in 1..N |-> [R \in Positions |-> Step(R)]]
             text == <<Quote>> \o b \o <<Quote>>
  <1>1. N \in Nat /\ text \in Bytes /\ Wraps(b, text)
    BY BytesOf, QuotedWraps
  <1> HIDE DEF text, N, a
  <1>2. a \in Positions
    <2>1. << >> \in Bytes /\ 1 \in Nat
      BY DEF Bytes
    <2>2. <<1, << >>>> \in Nat \X Bytes
      BY <2>1
    <2> QED
      BY <2>2, Zenon DEF Positions, a
  <1>3. \A R \in Positions : Step(R) \in Positions
    OBVIOUS
  <1>4. g \in [1..N -> [Positions -> Positions]]
    BY <1>3
  <1>5. \A k \in 1..N, R \in Positions : g[k][R] = Step(R)
    OBVIOUS
  <1> HIDE DEF g
  <1>6. \E f : Follows(f, N, Positions, a, g)
    BY <1>1, <1>2, <1>4, RecursionExists
  <1>7. PICK f \in [0..N -> Positions] : f[0] = a /\ \A k \in 1..N : f[k] = g[k][f[k - 1]]
    BY <1>6 DEF Follows
  <1>8. \A k \in 1..N : f[k] = Step(f[k - 1])
    <2> SUFFICES ASSUME NEW k \in 1..N PROVE f[k] = Step(f[k - 1])
      OBVIOUS
    <2>1. k - 1 \in 0..N
      BY <1>1
    <2>2. f[k - 1] \in Positions
      BY <1>7, <2>1
    <2> QED
      BY <1>5, <1>7, <2>2, Zenon
  <1>9. \A k \in 1..N : f[k] = ReadNext(b, f[k - 1])
    <2>1. f[0] = {<<1, << >>>>}
      BY <1>7 DEF a
    <2>2. \A k \in 1..Len(b) : ReadNext(b, f[k - 1]) \in Positions => f[k] = ReadNext(b, f[k - 1])
      BY <1>8, Zenon DEF N
    <2> HIDE DEF Step
    <2> QED
      BY <1>1, <2>1, <2>2, ReadingsFollow DEF N
  <1>10. f = [k \in 0..N |-> IF k = 0 THEN a ELSE ReadNext(b, f[k - 1])]
    <2>1. ASSUME NEW k \in 0..N PROVE f[k] = IF k = 0 THEN a ELSE ReadNext(b, f[k - 1])
      <3>1. k = 0 \/ k \in 1..N
        BY <1>1
      <3>2. k \in 1..N => k # 0
        BY <1>1
      <3> QED
        BY <1>7, <1>9, <3>1, <3>2
    <2> HIDE DEF Step
    <2> QED
      BY <1>7, <2>1
  <1> DEFINE after == ReadingsAfter(b)
  <1>11. after = CHOOSE t : t = [k \in 0..N |-> IF k = 0 THEN a ELSE ReadNext(b, t[k - 1])]
    BY Zenon DEF ReadingsAfter, ReadNext, N, a
  <1>12. after = [k \in 0..N |-> IF k = 0 THEN a ELSE ReadNext(b, after[k - 1])]
    BY <1>10, <1>11, Zenon
  <1> HIDE DEF after
  <1>13. after[0] = a
    BY <1>1, <1>12
  <1>14. ASSUME NEW k \in 1..N PROVE after[k] = ReadNext(b, after[k - 1])
    <2>1. k \in 0..N /\ k # 0
      BY <1>1
    <2> QED
      BY <1>12, <2>1
  <1> QED
    BY <1>13, <1>14 DEF after, a, N

\* scan_string reads a quoted body to the end exactly when the body has a reading, and
\* then returns it; and it has only one.
LEMMA StringReadExactly ==
  ASSUME NEW b \in Bytes, NEW text, text = <<Quote>> \o b \o <<Quote>>
  PROVE  LET s == ScanString(text)
             whole == s.err = "none" /\ s.pos = Len(text) + 1
         IN  /\ whole <=> Readings(SubSeq(text, 2, Len(text) - 1)) # {}
             /\ whole => Readings(SubSeq(text, 2, Len(text) - 1)) = {s.out}
  <1> DEFINE N == Len(b)
             turn == ScanTurns(text)
             after == ReadingsAfter(b)
             R == after[N]
             s == turn[N]
             last == turn[N + 2]
             z == ScanString(text)
             Q == Readings(b)
  <1>1. /\ text \in Bytes /\ Wraps(b, text) /\ text # << >> /\ text[1] = Quote
        /\ SubSeq(text, 2, Len(text) - 1) = b
    BY QuotedWraps
  <1>2. N \in Nat /\ Len(text) = N + 2 /\ text[N + 2] = Quote
    BY <1>1, BytesOf DEF Wraps
  <1>3. /\ \A k \in 1..(N + 2) : turn[k] = Turn(turn[k - 1], text)
        /\ \A k \in 0..(N + 2) : turn[k] \in ScanState
    <2>1. /\ \A k \in 1..Len(text) :
               turn[k] = IF turn[k - 1].err # "none" THEN turn[k - 1]
                         ELSE IF Has(text, turn[k - 1].pos, 1) /\ text[turn[k - 1].pos] = Quote
                              THEN turn[k - 1]
                         ELSE ScanStep(turn[k - 1], text)
          /\ \A k \in 0..Len(text) : turn[k] \in ScanState
      BY <1>1, ScanTurnsExist
    <2> HIDE DEF turn
    <2> QED
      BY <1>2, <2>1, Zenon DEF Turn
  <1>4. ReadSoFar(b, text, s, R, N)
    <2>1. /\ after[0] = {<<1, << >>>>}
          /\ \A k \in 1..N : after[k] = ReadNext(b, after[k - 1])
      BY ReadingsExist
    <2> HIDE DEF after
    <2>2. \A k \in 0..N : ReadSoFar(b, text, turn[k], after[k], k)
      BY <1>1, <2>1, ReadingsFollow
    <2> QED
      BY <1>2, <2>2
  <1>5. Q = {p[2] : p \in {q \in R : q[1] = N + 1}}
    BY Zenon DEF Readings
  <1>6. z = IF last.err # "none" THEN last ELSE [last EXCEPT !.pos = @ + 1]
    BY <1>1, <1>2 DEF ScanString
  <1> HIDE DEF turn, after
  <1>7. turn[N + 1] = Turn(s, text) /\ last = Turn(turn[N + 1], text)
    <2>1. N + 1 \in 1..(N + 2) /\ N + 2 \in 1..(N + 2) /\ (N + 1) - 1 = N /\ (N + 2) - 1 = N + 1
      BY <1>2
    <2>2. turn[N + 1] = Turn(turn[(N + 1) - 1], text) /\ turn[N + 2] = Turn(turn[(N + 2) - 1], text)
      BY <1>3, <2>1, Zenon
    <2> QED
      BY <2>1, <2>2
  <1>8. s \in ScanState
    BY <1>2, <1>3
  <1> DEFINE whole == z.err = "none" /\ z.pos = Len(text) + 1
  <1> SUFFICES (whole <=> Q # {}) /\ (whole => Q = {z.out})
    BY <1>1
  <1> HIDE DEF N, R, s, last, z, Q
  <1>9. s.pos \in Nat /\ s.out \in Bytes
    BY <1>8 DEF ScanState
  <1>10. R = {} => Q = {}
    BY <1>5, Zenon
  <1>11. ASSUME s.err = "none", s.pos <= N + 2, text[s.pos] = Quote
         PROVE  z.err = "none" /\ z.pos = s.pos + 1 /\ z.out = s.out
    <2>1. Has(text, s.pos, 1)
      BY <1>2, <1>9, <1>11 DEF Has
    <2>2. Turn(s, text) = s
      BY <1>11, <2>1 DEF Turn
    <2>3. last = s
      BY <1>7, <2>2
    <2>4. z = [s EXCEPT !.pos = @ + 1]
      BY <1>6, <1>11, <2>3
    <2> QED
      BY <1>8, <1>11, <2>4 DEF ScanState
  <1>12. CASE /\ s.err = "none" /\ 2 <= s.pos /\ s.pos <= N + 2 /\ R = {<<s.pos - 1, s.out>>}
              /\ N + 2 <= s.pos \/ text[s.pos] = Quote
    <2>1. text[s.pos] = Quote
      <3>1. N + 2 <= s.pos => s.pos = N + 2
        BY <1>2, <1>9, <1>12
      <3> QED
        BY <1>2, <1>12, <3>1
    <2>2. z.err = "none" /\ z.pos = s.pos + 1 /\ z.out = s.out
      BY <1>11, <1>12, <2>1
    <2>3. whole <=> s.pos = N + 2
      BY <1>2, <1>9, <2>2
    <2> DEFINE r == <<s.pos - 1, s.out>>
    <2>4. r[1] = s.pos - 1 /\ r[2] = s.out
      OBVIOUS
    <2> HIDE DEF r
    <2>5. R = {r}
      BY <1>12 DEF r
    <2>6. CASE s.pos = N + 2
      <3>1. r[1] = N + 1
        BY <1>2, <2>4, <2>6
      <3>2. Q = {s.out}
        BY <1>5, <2>4, <2>5, <3>1, Zenon
      <3> QED
        BY <2>2, <2>3, <2>6, <3>2
    <2>7. CASE s.pos # N + 2
      <3>1. r[1] # N + 1
        BY <1>2, <1>9, <2>4, <2>7
      <3>2. Q = {}
        BY <1>5, <2>5, <3>1, Zenon
      <3> QED
        BY <2>3, <2>7, <3>2
    <2> QED
      BY <2>6, <2>7
  <1>13. CASE s.err = "none" /\ 2 <= s.pos /\ s.pos <= N + 1 /\ R = {} /\ text[s.pos] = Quote
    <2>1. s.pos <= N + 2
      BY <1>2, <1>9, <1>13
    <2>2. z.pos = s.pos + 1
      BY <1>11, <1>13, <2>1
    <2>3. ~whole
      BY <1>2, <1>9, <1>13, <2>2
    <2> QED
      BY <1>10, <1>13, <2>3
  <1>14. CASE (s.err # "none" \/ s.pos = N + 3) /\ R = {}
    <2>1. Turn(s, text).err # "none"
      <3>1. CASE s.err # "none"
        BY <3>1 DEF Turn
      <3>2. CASE s.err = "none" /\ s.pos = N + 3
        <4>1. ~Has(text, s.pos, 1)
          BY <1>2, <3>2 DEF Has
        <4>2. Turn(s, text) = Malformed(s)
          BY <3>2, <4>1 DEF Turn, ScanStep
        <4>3. Malformed(s).err = "MalformedJson"
          BY <1>8 DEF Malformed, ScanState
        <4> QED
          BY <4>2, <4>3
      <3> QED
        BY <1>14, <3>1, <3>2
    <2>2. last = Turn(s, text)
      BY <1>7, <2>1 DEF Turn
    <2>3. z.err # "none"
      BY <1>6, <2>1, <2>2
    <2> QED
      BY <1>10, <1>14, <2>3
  <1> QED
    BY <1>4, <1>12, <1>13, <1>14 DEF ReadSoFar, N

-----------------------------------------------------------------------------
(* The harness: what the functions are called with.                        *)

LEMMA FlattenedBytes ==
  ASSUME NEW n \in Nat, NEW p \in [1..n -> Bytes]
  PROVE  FlattenSeq(p) \in Bytes
  <1>1. p \in Seq(Bytes) /\ Len(p) = n
    OBVIOUS
  <1>2. CASE n = 0
    <2>1. p = << >>
      BY <1>1, <1>2, EmptySeq
    <2>2. FlattenSeq(p) = p
      BY <1>1, <1>2 DEF FlattenSeq
    <2>3. << >> \in Bytes
      BY EmptySeq DEF Bytes
    <2> QED
      BY <2>1, <2>2, <2>3
  <1>3. CASE n # 0
    <2> DEFINE m == n - 1
               g == [k \in 1..m |-> [s \in Bytes |-> s \o p[k + 1]]]
    <2>1. m \in Nat /\ m + 1 = n /\ 1 \in 1..n
      BY <1>3
    <2> HIDE DEF m
    <2>2. \A k \in 1..m : k + 1 \in 1..n /\ p[k + 1] \in Bytes
      <3>1. \A k \in 1..m : k + 1 \in 1..n
        BY <2>1
      <3> QED
        BY <3>1
    <2>3. \A k \in 1..m, s \in Bytes : s \o p[k + 1] \in Bytes
      BY <2>2, BytesJoined
    <2>4. g \in [1..m -> [Bytes -> Bytes]] /\ \A k \in 1..m, s \in Bytes : g[k][s] = s \o p[k + 1]
      BY <2>3
    <2> HIDE DEF g
    <2>5. \E f : Follows(f, m, Bytes, p[1], g)
      <3>1. p[1] \in Bytes
        BY <2>1
      <3> QED
        BY <2>1, <2>4, <3>1, RecursionExists
    <2>6. PICK f \in [0..m -> Bytes] : f[0] = p[1] /\ \A k \in 1..m : f[k] = g[k][f[k - 1]]
      BY <2>5 DEF Follows
    <2> DEFINE h == [i \in 1..n |-> f[i - 1]]
    <2>7. \A i \in 1..n : i - 1 \in 0..m /\ h[i] = f[i - 1] /\ h[i] \in Bytes
      <3>1. \A i \in 1..n : i - 1 \in 0..m
        BY <2>1
      <3> QED
        BY <3>1
    <2>8. h = [i \in 1..n |-> IF i = 1 THEN p[i] ELSE h[i - 1] \o p[i]]
      <3>1. ASSUME NEW i \in 1..n PROVE h[i] = IF i = 1 THEN p[i] ELSE h[i - 1] \o p[i]
        <4>1. CASE i = 1
          <5>1. 1 - 1 = 0
            OBVIOUS
          <5> QED
            BY <2>6, <2>7, <4>1, <5>1
        <4>2. CASE i # 1
          <5> DEFINE k == i - 1
          <5>1. k \in 1..m /\ k \in 1..n /\ k + 1 = i /\ k - 1 \in 0..m
            BY <2>1, <4>2
          <5> HIDE DEF k
          <5>2. f[k] = f[k - 1] \o p[k + 1]
            BY <2>4, <2>6, <5>1
          <5>3. h[k] = f[k - 1] /\ h[i] = f[i - 1] /\ i - 1 = k
            BY <2>7, <5>1 DEF k
          <5> HIDE DEF h
          <5> QED
            BY <4>2, <5>1, <5>2, <5>3
        <4> QED
          BY <4>1, <4>2
      <3> QED
        BY <3>1
    <2> HIDE DEF h
    <2> DEFINE w == CHOOSE t : t = [i \in 1..n |-> IF i = 1 THEN p[i] ELSE t[i - 1] \o p[i]]
    <2>9. w = [i \in 1..n |-> IF i = 1 THEN p[i] ELSE w[i - 1] \o p[i]]
      BY <2>8, Zenon
    <2>10. FlattenSeq(p) = w[n]
      BY <1>1, <1>3, Zenon DEF FlattenSeq
    <2> HIDE DEF w
    <2> DEFINE T == {k \in 0..m : w[k + 1] \in Bytes}
    <2>11. 0 \in T
      <3>1. 0 \in 0..m /\ 0 + 1 = 1
        BY <2>1
      <3>2. w[1] = p[1]
        BY <2>1, <2>9
      <3> QED
        BY <2>1, <3>1, <3>2
    <2>12. ASSUME NEW k \in 1..m, k - 1 \in T PROVE k \in T
      <3>1. (k - 1) + 1 = k /\ k \in 0..m /\ (k + 1) - 1 = k /\ k + 1 # 1
        BY <2>1
      <3>2. w[k] \in Bytes
        BY <2>12, <3>1
      <3>3. w[k + 1] = w[(k + 1) - 1] \o p[k + 1]
        BY <2>2, <2>9, <3>1
      <3>4. w[k + 1] \in Bytes
        BY <2>3, <3>1, <3>2, <3>3
      <3> QED
        BY <3>1, <3>4
    <2> HIDE DEF T
    <2>13. m \in T
      <3>1. \A k \in 0..m : k \in T
        BY <2>1, <2>11, <2>12, UpTo
      <3> QED
        BY <2>1, <3>1
    <2> QED
      BY <2>1, <2>10, <2>13 DEF T
  <1> QED
    BY <1>2, <1>3

LEMMA PiecesAreBytes ==
  Pieces \subseteq Bytes
  <1>1. \A v \in Nat : v < 16 => HexDigit(v) \in Byte
    BY DEF HexDigit, Byte
  <1>2. ASSUME NEW u \in Nat, u < 65536 PROVE Hex(u) \in Bytes
    <2> DEFINE a == u \div 4096
               b == (u \div 256) % 16
               c == (u \div 16) % 16
               d == u % 16
    <2>1. a \in Nat /\ a < 16 /\ b \in Nat /\ b < 16 /\ c \in Nat /\ c < 16 /\ d \in Nat /\ d < 16
      BY <1>2
    <2>2. Hex(u) = <<Backslash, 117, HexDigit(a), HexDigit(b), HexDigit(c), HexDigit(d)>>
      BY DEF Hex
    <2> HIDE DEF a, b, c, d
    <2>3. HexDigit(a) \in Byte /\ HexDigit(b) \in Byte /\ HexDigit(c) \in Byte /\ HexDigit(d) \in Byte
      BY <1>1, <2>1
    <2>4. Backslash \in Byte /\ 117 \in Byte
      BY DEF Backslash, Byte
    <2> QED
      BY <2>2, <2>3, <2>4 DEF Bytes
  <1>3. \A x \in Byte : <<Backslash, x>> \in Bytes
    BY DEF Backslash, Byte, Bytes
  <1> DEFINE U == {0, 31, 34, 127, 128, 2047, 2048, 55295, 55296, 56319, 56320, 57343, 57344, 65535}
             B == {Quote, Backslash, 47, 98, 102, 110, 114, 116, 120}
             C == {<<Backslash>>, <<Backslash, 117>>, <<Backslash, 117, 48, 48, 70>>,
                   <<Backslash, 117, 48, 48, 52, 65>>, <<65>>}
  <1>4. \A x \in U : x \in Nat /\ x < 65536
    BY SMT
  <1>5. B \subseteq Byte
    BY DEF Quote, Backslash, Byte
  <1>6. C \subseteq Bytes
    BY DEF Backslash, Byte, Bytes
  <1>7. Pieces = {Hex(x) : x \in U} \cup {<<Backslash, x>> : x \in B} \cup C
    BY SMT DEF Pieces
  <1> HIDE DEF U, B, C
  <1> QED
    BY <1>2, <1>3, <1>4, <1>5, <1>6, <1>7

LEMMA BodiesAreBytes ==
  ASSUME NEW b \in RawBodies \cup EscapedBodies
  PROVE  b \in Bytes
  <1>3. CASE b \in RawBodies
    <2>1. Leads \subseteq Byte /\ Tails \subseteq Byte
      BY DEF Leads, Tails, Quote, Byte
    <2> DEFINE X == UNION {[1..n -> Tails] : n \in 0..3}
    <2>2. PICK c \in Leads \X X : b = <<c[1]>> \o c[2]
      BY <1>3 DEF RawBodies
    <2> DEFINE a == c[1]
               r == c[2]
    <2>6. a \in Leads /\ r \in X /\ b = <<a>> \o r
      BY <2>2
    <2>3. PICK n \in 0..3 : r \in [1..n -> Tails]
      BY <2>6
    <2> HIDE DEF a, r
    <2>4. r \in Seq(Byte)
      BY <2>1, <2>3
    <2>5. <<a>> \in Bytes /\ r \in Bytes
      BY <2>1, <2>4, <2>6 DEF Bytes
    <2> QED
      BY <2>5, <2>6, BytesJoined
  <1>4. CASE b \in EscapedBodies
    <2>1. PICK p \in UNION {[1..n -> Pieces] : n \in 0..MaxPieces} : b = FlattenSeq(p)
      BY <1>4 DEF EscapedBodies
    <2>2. PICK n \in 0..MaxPieces : p \in [1..n -> Pieces]
      OBVIOUS
    <2>3. n \in Nat
      BY PiecesAssumption
    <2>4. p \in [1..n -> Bytes]
      BY <2>2, PiecesAreBytes
    <2> QED
      BY <2>1, <2>3, <2>4, FlattenedBytes
  <1> QED
    BY <1>3, <1>4

LEMMA DoublesAreShortest ==
  ASSUME NEW x \in Doubles
  PROVE  x.negative \in BOOLEAN /\ ShortestDigits(x.d, x.e)
  <1> DEFINE E == {-308, -100, -99, -10, -9} \cup -7..18 \cup {99, 100, 308}
             D(n) == [i \in 1..n |-> IF i = n THEN 49 ELSE 48 + (i % 10)]
  <1>1. \A e \in E : e \in Int /\ -1000 < e /\ e < 1000
    OBVIOUS
  <1>2. ASSUME NEW n \in 1..17, NEW e \in E PROVE ShortestDigits(D(n), e)
    <2> DEFINE d == D(n)
    <2>1. \A i \in 1..n : (IF i = n THEN 49 ELSE 48 + (i % 10)) \in Digits
      <3> SUFFICES ASSUME NEW i \in 1..n PROVE (IF i = n THEN 49 ELSE 48 + (i % 10)) \in Digits
        OBVIOUS
      <3> DEFINE r == i % 10
      <3>1. r \in Nat /\ r < 10
        OBVIOUS
      <3> HIDE DEF r
      <3>2. 49 \in Digits /\ 48 + r \in Digits
        BY <3>1 DEF Digits
      <3> QED
        BY <3>2 DEF r
    <2>2. d \in [1..n -> Digits] /\ \A i \in 1..n : d[i] = IF i = n THEN 49 ELSE 48 + (i % 10)
      BY <2>1
    <2>3. d[n] = 49 /\ d[1] = 49
      <3>1. 1 \in 1..n /\ n \in 1..n /\ 48 + (1 % 10) = 49
        OBVIOUS
      <3> HIDE DEF d
      <3> QED
        BY <2>2, <3>1
    <2> HIDE DEF d
    <2>4. d \in Seq(Byte) /\ Len(d) = n /\ \A i \in 1..n : d[i] \in Digits
      BY <2>2, NoDigits
    <2>5. Zero # 49 /\ n >= 1 /\ n <= 17
      BY DEF Zero
    <2>6. ShortestDigits(d, e)
      BY <1>1, <2>3, <2>4, <2>5 DEF ShortestDigits, Bytes
    <2> QED
      BY <2>6 DEF d
  <1>3. ShortestDigits(<<48>>, 0)
    <2>1. <<48>> \in Bytes /\ Len(<<48>>) = 1 /\ <<48>>[1] = 48 /\ <<48>> = <<Zero>> /\ 48 \in Digits
      BY DEF Bytes, Byte, Zero, Digits
    <2>2. \A k \in 1..1 : k = 1
      OBVIOUS
    <2>3. \A k \in 1..Len(<<48>>) : <<48>>[k] \in Digits
      BY <2>1, <2>2
    <2> DEFINE d == <<48>>
    <2>4. d \in Bytes /\ Len(d) = 1 /\ d = <<Zero>> /\ \A k \in 1..Len(d) : d[k] \in Digits
      BY <2>1, <2>3
    <2> HIDE DEF d
    <2>5. ShortestDigits(d, 0)
      BY <2>4 DEF ShortestDigits
    <2> QED
      BY <2>5 DEF d
  <1>4. Doubles = [negative : BOOLEAN, d : {D(n) : n \in 1..17}, e : E]
                    \cup [negative : BOOLEAN, d : {<<48>>}, e : {0}]
    BY DEF Doubles
  <1> HIDE DEF D, E
  <1>5. CASE x \in [negative : BOOLEAN, d : {D(n) : n \in 1..17}, e : E]
    <2>1. x.negative \in BOOLEAN /\ x.e \in E /\ x.d \in {D(n) : n \in 1..17}
      BY <1>5
    <2> QED
      BY <1>2, <2>1
  <1>6. CASE x \in [negative : BOOLEAN, d : {<<48>>}, e : {0}]
    <2>1. x.negative \in BOOLEAN /\ x.e = 0 /\ x.d = <<48>>
      BY <1>6
    <2> QED
      BY <1>3, <2>1
  <1> QED
    BY <1>4, <1>5, <1>6

\* The calls of the harness, and every call there can be: any string of bytes, and any
\* digits and exponent that std::to_chars can find.
ScalarsInit ==
    \/ JsonInit
    \/ Given("scan_string", Bytes)
    \/ Given("format_double", {x \in [negative : BOOLEAN, d : Bytes, e : Int] :
                                 ShortestDigits(x.d, x.e)})

ScalarsSpec == ScalarsInit /\ [][JsonNext]_callVars

\* The inductive invariant: what was returned is the result of the call.
ScalarsInv ==
    /\ subject \in {"scan_string", "scan_number", "format_double"}
    /\ subject = "scan_string" => input \in Bytes /\ output \in {<< >>, <<ScanString(input)>>}
    /\ subject = "format_double" =>
          /\ input.negative \in BOOLEAN /\ ShortestDigits(input.d, input.e)
          /\ output \in {<< >>, <<FormatDouble(input.negative, input.d, input.e)>>}

LEMMA ScalarsInitially ==
  ScalarsInit => ScalarsInv
  <1> SUFFICES ASSUME ScalarsInit PROVE ScalarsInv
    OBVIOUS
  <1>1. CASE Given("scan_string", Bytes)
    BY <1>1 DEF Given, ScalarsInv
  <1>2. CASE Given("format_double", {x \in [negative : BOOLEAN, d : Bytes, e : Int] :
                                       ShortestDigits(x.d, x.e)})
    <2>1. /\ subject = "format_double" /\ output = << >>
          /\ input \in [negative : BOOLEAN, d : Bytes, e : Int] /\ ShortestDigits(input.d, input.e)
      BY <1>2 DEF Given
    <2> QED
      BY <2>1 DEF ScalarsInv
  <1>3. CASE JsonInit
    <2>1. CASE Given("scan_string",
                     {<<Quote>> \o b \o <<Quote>> : b \in RawBodies \cup EscapedBodies})
      <3>1. /\ subject = "scan_string" /\ output = << >>
            /\ input \in {<<Quote>> \o b \o <<Quote>> : b \in RawBodies \cup EscapedBodies}
        BY <2>1 DEF Given
      <3>2. input \in Bytes
        BY <3>1, BodiesAreBytes, QuotedWraps
      <3> QED
        BY <3>1, <3>2 DEF ScalarsInv
    <2>2. CASE Given("scan_number", NumberTexts)
      BY <2>2 DEF Given, ScalarsInv
    <2>3. CASE Given("format_double", Doubles)
      <3>1. subject = "format_double" /\ output = << >> /\ input \in Doubles
        BY <2>3 DEF Given
      <3>2. input.negative \in BOOLEAN /\ ShortestDigits(input.d, input.e)
        BY <3>1, DoublesAreShortest
      <3> QED
        BY <3>1, <3>2 DEF ScalarsInv
    <2> QED
      BY <1>3, <2>1, <2>2, <2>3 DEF JsonInit
  <1> QED
    BY <1>1, <1>2, <1>3 DEF ScalarsInit

LEMMA ScalarsStep ==
  ScalarsInv /\ [JsonNext]_callVars => ScalarsInv'
  <1> SUFFICES ASSUME ScalarsInv, [JsonNext]_callVars PROVE ScalarsInv'
    OBVIOUS
  <1>1. CASE Call("scan_string", ScanString)
    BY <1>1 DEF ScalarsInv, Call
  <1>2. CASE Call("scan_number", ScanNumber)
    BY <1>2 DEF ScalarsInv, Call
  <1>3. CASE Call("format_double", LAMBDA x : FormatDouble(x.negative, x.d, x.e))
    BY <1>3 DEF ScalarsInv, Call
  <1>4. CASE UNCHANGED callVars
    BY <1>4 DEF ScalarsInv, callVars
  <1> QED
    BY <1>1, <1>2, <1>3, <1>4 DEF JsonNext

LEMMA ScalarsGood ==
  ScalarsInv => ScalarsReadBack
  <1> SUFFICES ASSUME ScalarsInv PROVE ScalarsReadBack
    OBVIOUS
  <1>1. ASSUME NEW s \in Returned("scan_string"), s.err = "none"
        PROVE  LET text == AppendString(s.out)
               IN  /\ ScanString(text) = Scanning(Len(text) + 1, s.out)
                   /\ Len(text) <= s.pos - 1
    <2>1. input \in Bytes /\ s = ScanString(input)
      BY DEF ScalarsInv, Returned
    <2> QED
      BY <1>1, <2>1, StringReadBack
  <1>2. ASSUME NEW text \in Returned("format_double")
        PROVE  /\ ScanNumber(text) = Scanning(Len(text) + 1, FALSE)
               /\ input.negative <=> text[1] = Minus
               /\ Value(Unsigned(text)) = [d |-> input.d, e |-> input.e]
               /\ Len(text) <= 24
    <2>1. /\ input.negative \in BOOLEAN /\ ShortestDigits(input.d, input.e)
          /\ text = FormatDouble(input.negative, input.d, input.e)
      BY DEF ScalarsInv, Returned
    <2> QED
      BY <2>1, DoubleReadBack
  <1> QED
    BY <1>1, <1>2 DEF ScalarsReadBack

\* For every string of bytes, and for the digits and the exponent of every double: what
\* scan_string accepts and append_string writes again is read as the same bytes, and is
\* no longer; what format_double writes is a number, never an integer, that denotes the
\* double in at most 24 bytes.
THEOREM ScalarsAreReadBack == ScalarsSpec => []ScalarsReadBack
  BY ScalarsInitially, ScalarsStep, ScalarsGood, PTL DEF ScalarsSpec

LEMMA NumbersAreBytes ==
  NumberTexts \subseteq Bytes
  <1> DEFINE C == {Minus, Plus, Dot, 48, 49, 101}
  <1>1. C \subseteq Byte
    BY DEF Minus, Plus, Dot, Byte
  <1> HIDE DEF C
  <1>2. ASSUME NEW t \in NumberTexts PROVE t \in Bytes
    <2>1. PICK n \in 1..MaxLength : t \in [1..n -> C]
      BY Zenon DEF NumberTexts, C
    <2>2. n \in Nat
      OBVIOUS
    <2> QED
      BY <1>1, <2>1, <2>2 DEF Bytes
  <1> QED
    BY <1>2

\* The calls of the harness, every quoted body and every text to be read as a number.
ReadingInit ==
    \/ JsonInit
    \/ Given("scan_string", {<<Quote>> \o b \o <<Quote>> : b \in Bytes})
    \/ Given("scan_number", Bytes)

ReadingSpec == ReadingInit /\ [][JsonNext]_callVars

\* The inductive invariant: the result is that of a call on a text of bytes.
ReadingInv ==
    /\ subject \in {"scan_string", "scan_number", "format_double"}
    /\ subject = "scan_string" =>
          /\ \E b \in Bytes : input = <<Quote>> \o b \o <<Quote>>
          /\ output \in {<< >>, <<ScanString(input)>>}
    /\ subject = "scan_number" => input \in Bytes /\ output \in {<< >>, <<ScanNumber(input)>>}

LEMMA ReadingInitially ==
  ReadingInit => ReadingInv
  <1> SUFFICES ASSUME ReadingInit PROVE ReadingInv
    OBVIOUS
  <1>1. CASE Given("scan_string", {<<Quote>> \o b \o <<Quote>> : b \in Bytes})
    BY <1>1 DEF Given, ReadingInv
  <1>2. CASE Given("scan_number", Bytes)
    BY <1>2 DEF Given, ReadingInv
  <1>3. CASE JsonInit
    <2>1. CASE Given("scan_string",
                     {<<Quote>> \o b \o <<Quote>> : b \in RawBodies \cup EscapedBodies})
      BY <2>1, BodiesAreBytes DEF Given, ReadingInv
    <2>2. CASE Given("scan_number", NumberTexts)
      BY <2>2, NumbersAreBytes DEF Given, ReadingInv
    <2>3. CASE Given("format_double", Doubles)
      BY <2>3 DEF Given, ReadingInv
    <2> QED
      BY <1>3, <2>1, <2>2, <2>3 DEF JsonInit
  <1> QED
    BY <1>1, <1>2, <1>3 DEF ReadingInit

LEMMA ReadingStep ==
  ReadingInv /\ [JsonNext]_callVars => ReadingInv'
  <1> SUFFICES ASSUME ReadingInv, [JsonNext]_callVars PROVE ReadingInv'
    OBVIOUS
  <1>1. CASE Call("scan_string", ScanString)
    BY <1>1 DEF ReadingInv, Call
  <1>2. CASE Call("scan_number", ScanNumber)
    BY <1>2 DEF ReadingInv, Call
  <1>3. CASE Call("format_double", LAMBDA x : FormatDouble(x.negative, x.d, x.e))
    BY <1>3 DEF ReadingInv, Call
  <1>4. CASE UNCHANGED callVars
    BY <1>4 DEF ReadingInv, callVars
  <1> QED
    BY <1>1, <1>2, <1>3, <1>4 DEF JsonNext

LEMMA ReadingGood ==
  ReadingInv => ScalarsReadExactly
  <1> SUFFICES ASSUME ReadingInv PROVE ScalarsReadExactly
    OBVIOUS
  <1>1. ASSUME NEW s \in Returned("scan_string")
        PROVE  LET readings == Readings(SubSeq(input, 2, Len(input) - 1))
                   whole == s.err = "none" /\ s.pos = Len(input) + 1
               IN  /\ whole <=> readings # {}
                   /\ whole => readings = {s.out}
    <2>1. s = ScanString(input) /\ \E b \in Bytes : input = <<Quote>> \o b \o <<Quote>>
      BY DEF ReadingInv, Returned
    <2>2. PICK b \in Bytes : input = <<Quote>> \o b \o <<Quote>>
      BY <2>1
    <2> QED
      BY <2>1, <2>2, StringReadExactly
  <1>2. ASSUME NEW s \in Returned("scan_number")
        PROVE  LET number == Unsigned(input)
                   whole == s.err = "none" /\ s.pos = Len(input) + 1
               IN  /\ whole <=> Parts(number) # {}
                   /\ whole => (s.out <=> <<Len(number), Len(number)>> \in Parts(number))
    <2>1. s = ScanNumber(input) /\ input \in Bytes
      BY DEF ReadingInv, Returned
    <2> QED
      BY <2>1, NumberReadExactly
  <1> QED
    BY <1>1, <1>2 DEF ScalarsReadExactly

\* For every body of bytes between quotes, scan_string takes it whole exactly when the
\* bytes can be read as Unicode scalar values, by the bits of UTF-8 and UTF-16 and of the
\* escapes, and returns their UTF-8; and for every text, scan_number takes it whole exactly
\* when it is a number of JSON's grammar, integral exactly without fraction and exponent.
THEOREM ReadsExactlyJson == ReadingSpec => []ScalarsReadExactly
  BY ReadingInitially, ReadingStep, ReadingGood, PTL DEF ReadingSpec

=============================================================================
