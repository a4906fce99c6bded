---------------------------- MODULE ReportProofs ---------------------------
(***************************************************************************)
(* PublishedIsGenuine for Report, for any catalog, any number of attempts, *)
(* samples and reports, while there has been one fault at most;            *)
(* GenuinePasses, whatever is edited; and FirstIsSelected while nothing is. *)
(***************************************************************************)
EXTENDS Report, FiniteSetTheorems, TLAPS

-----------------------------------------------------------------------------
(* Induction over the natural numbers, for a set instead of an operator. *)
LEMMA SetInduction ==
    ASSUME NEW T, 0 \in T, \A n \in T \cap Nat : n + 1 \in T
    PROVE  Nat \subseteq T
<1> SUFFICES ASSUME Nat \ T # {} PROVE FALSE
  OBVIOUS
<1>1. PICK x \in Nat \ T : \A y \in Nat \ T : <<y, x>> \notin OpToRel(<, Nat)
  <2>1. \E x \in Nat \ T : \A y \in Nat \ T : <<y, x>> \notin OpToRel(<, Nat)
    BY NatLessThanWellFounded, WFMin
  <2>2. QED
    BY <2>1
<1>2. \A y \in Nat \ T : ~ (y < x)
  BY <1>1 DEF OpToRel
<1>3. x - 1 \in Nat /\ x - 1 < x /\ (x - 1) + 1 = x
  OBVIOUS
<1>4. (x - 1) + 1 \in T
  BY <1>2, <1>3
<1>5. QED
  BY <1>3, <1>4

(* A set of natural numbers has a least element. *)
LEMMA Least ==
    ASSUME NEW T, T \subseteq Nat, T # {}
    PROVE  \E x \in T : \A y \in T : x <= y
<1>1. \E x \in T : \A y \in T : <<y, x>> \notin OpToRel(<, Nat)
  BY NatLessThanWellFounded, WFMin
<1>2. PICK x \in T : \A y \in T : <<y, x>> \notin OpToRel(<, Nat)
  BY <1>1
<1>3. \A y \in T : ~(y < x)
  BY <1>2 DEF OpToRel
<1>4. \A y \in T : x <= y
  BY <1>3
<1>5. QED
  BY <1>4

Sorts(p, v, n) ==
    p \in Bijection(1..n, 1..n) /\ \A i, j \in 1..n : i < j => v[p[i]] <= v[p[j]]

(* Insertion of one more element into what is sorted. *)
LEMMA SortInsert ==
    ASSUME NEW n \in Nat, NEW v \in [1..(n + 1) -> Nat], NEW p, Sorts(p, v, n)
    PROVE  \E q : Sorts(q, v, n + 1)
<1>x. PICK x : x = v[n + 1]
  OBVIOUS
<1> DEFINE K == {k \in 1..(n + 1) : \A i \in k..n : x < v[p[i]]}
<1>0. /\ p \in [1..n -> 1..n] /\ x \in Nat
      /\ \A i \in 1..n : p[i] \in 1..n
      /\ \A i \in 1..n : v[p[i]] \in Nat
  <2>1. p \in [1..n -> 1..n]
    BY DEF Sorts, Bijection, Injection
  <2>2. \A i \in 1..(n + 1) : v[i] \in Nat
    OBVIOUS
  <2>3. \A i \in 1..n : p[i] \in 1..n
    BY <2>1
  <2>4. \A i \in 1..n : p[i] \in 1..(n + 1)
    BY <2>3
  <2>5. \A i \in 1..n : v[p[i]] \in Nat
    BY <2>2, <2>4
  <2>6. n + 1 \in 1..(n + 1)
    OBVIOUS
  <2>7. QED
    BY <2>1, <2>2, <2>3, <2>5, <2>6, <1>x
<1>y. x \in Nat
  BY <1>0
<1>z. \A i \in 1..n : v[p[i]] \in Nat
  BY <1>0
<1>p. \A a, b \in 1..n : a < b => v[p[a]] <= v[p[b]]
  BY DEF Sorts
<1>1. PICK k \in K : \A j \in K : k <= j
  <2>1. n + 1 \in K /\ K \subseteq Nat
    OBVIOUS
  <2> HIDE DEF K
  <2>2. \E k \in K : \A j \in K : k <= j
    BY <2>1, Least
  <2>3. QED
    BY <2>2 DEF K
<1>3. k \in 1..(n + 1) /\ \A i \in k..n : x < v[p[i]]
  BY <1>1
<1>2. \A i \in 1..n : i < k => v[p[i]] <= x
  <2> SUFFICES ASSUME NEW i \in 1..n, i < k PROVE v[p[i]] <= x
    OBVIOUS
  <2>1. k - 1 \notin K /\ k - 1 \in 1..n
    <3>1. ~(k <= k - 1) /\ k - 1 \in 1..n
      BY <1>3
    <3> HIDE DEF K
    <3>2. QED
      BY <1>1, <3>1
  <2>2. PICK j \in (k - 1)..n : ~(x < v[p[j]])
    BY <2>1
  <2>3. j = k - 1
    BY <2>2, <1>1
  <2> HIDE DEF K
  <2>4. v[p[k - 1]] <= x
    <3>1. v[p[k - 1]] \in Nat
      BY <2>1, <1>z
    <3>2. ~(x < v[p[k - 1]])
      BY <2>2, <2>3
    <3>3. QED
      BY <3>1, <3>2, <1>y
  <2>5. i = k - 1 \/ i < k - 1
    BY <2>1, <1>3
  <2>6. i < k - 1 => v[p[i]] <= v[p[k - 1]]
    BY <2>1, <1>p
  <2>7. v[p[i]] \in Nat /\ v[p[k - 1]] \in Nat
    BY <2>1, <1>0
  <2>8. QED
    BY <2>4, <2>5, <2>6, <2>7, <1>y
<1> HIDE DEF K
<1> DEFINE q == [i \in 1..(n + 1) |-> IF i < k THEN p[i] ELSE IF i = k THEN n + 1 ELSE p[i - 1]]
<1>4. q \in [1..(n + 1) -> 1..(n + 1)]
  BY <1>0, <1>3
<1>5. \A i, j \in 1..n : p[i] = p[j] => i = j
  <2>1. p \in Injection(1..n, 1..n)
    BY DEF Sorts, Bijection
  <2>2. IsInjective(p) /\ DOMAIN p = 1..n
    BY <2>1 DEF Injection
  <2>3. QED
    BY <2>2 DEF IsInjective
<1>6. \A m \in 1..n : \E i \in 1..n : p[i] = m
  BY DEF Sorts, Bijection, Surjection
<1>7. ASSUME NEW i \in 1..(n + 1), NEW j \in 1..(n + 1), i < j PROVE q[i] # q[j]
  <2>1. \A a \in 1..n : p[a] \in 1..n
    BY <1>0
  <2>2. CASE j < k
    <3>1. q[i] = p[i] /\ q[j] = p[j] /\ i \in 1..n /\ j \in 1..n /\ i # j
      BY <2>2, <1>3, <1>7
    <3>2. QED
      BY <3>1, <1>5
  <2>3. CASE j = k
    <3>1. q[i] = p[i] /\ q[j] = n + 1 /\ i \in 1..n
      BY <2>3, <1>3, <1>7
    <3>2. QED
      BY <3>1, <2>1
  <2>4. CASE j > k /\ i = k
    <3>1. q[i] = n + 1 /\ q[j] = p[j - 1] /\ j - 1 \in 1..n
      BY <2>4, <1>3
    <3>2. QED
      BY <3>1, <2>1
  <2>5. CASE j > k /\ i < k
    <3>1. q[i] = p[i] /\ q[j] = p[j - 1] /\ i \in 1..n /\ j - 1 \in 1..n /\ i # j - 1
      BY <2>5, <1>3
    <3>2. QED
      BY <3>1, <1>5
  <2>6. CASE i > k
    <3>1. q[i] = p[i - 1] /\ q[j] = p[j - 1] /\ i - 1 \in 1..n /\ j - 1 \in 1..n /\ i - 1 # j - 1
      BY <2>6, <1>3, <1>7
    <3>2. QED
      BY <3>1, <1>5
  <2>7. QED
    BY <2>2, <2>3, <2>4, <2>5, <2>6, <1>3
<1>8. ASSUME NEW m \in 1..(n + 1) PROVE \E i \in 1..(n + 1) : q[i] = m
  <2>1. CASE m = n + 1
    BY <1>3, <2>1
  <2>2. CASE m # n + 1
    <3>0. m \in 1..n
      BY <2>2
    <3>1. PICK i \in 1..n : p[i] = m
      BY <3>0, <1>6
    <3>2. CASE i < k
      <4>1. q[i] = m /\ i \in 1..(n + 1)
        BY <3>1, <3>2
      <4>2. QED
        BY <4>1
    <3>3. CASE ~(i < k)
      <4>1. q[i + 1] = m /\ i + 1 \in 1..(n + 1)
        BY <3>1, <3>3, <1>3
      <4>2. QED
        BY <4>1
    <3>4. QED
      BY <3>2, <3>3
  <2>3. QED
    BY <2>1, <2>2
<1>9. ASSUME NEW i \in 1..(n + 1), NEW j \in 1..(n + 1), i < j
      PROVE  v[q[i]] <= v[q[j]]
  <2>1. \A a, b \in 1..n : a < b => v[p[a]] <= v[p[b]]
    BY <1>p
  <2>2. CASE j < k
    <3>1. q[i] = p[i] /\ q[j] = p[j] /\ i \in 1..n /\ j \in 1..n
      BY <2>2, <1>3, <1>9
    <3>2. QED
      BY <3>1, <2>1, <1>9
  <2>3. CASE j = k
    <3>1. q[i] = p[i] /\ q[j] = n + 1 /\ i \in 1..n /\ i < k
      BY <2>3, <1>3, <1>9
    <3>2. QED
      BY <3>1, <1>2, <1>x
  <2>4. CASE j > k /\ i < k
    <3>1. q[i] = p[i] /\ q[j] = p[j - 1] /\ i \in 1..n /\ j - 1 \in 1..n /\ i < j - 1
      BY <2>4, <1>3
    <3>2. QED
      BY <3>1, <2>1
  <2>5. CASE j > k /\ i = k
    <3>1. q[i] = n + 1 /\ q[j] = p[j - 1] /\ j - 1 \in k..n /\ j - 1 \in 1..n
      BY <2>5, <1>3
    <3>2. x < v[p[j - 1]]
      BY <3>1, <1>3
    <3>3. v[p[j - 1]] \in Nat
      BY <3>1, <1>3, <1>0
    <3>4. x <= v[p[j - 1]]
      BY <3>2, <3>3, <1>y
    <3>5. QED
      BY <3>1, <3>4, <1>x
  <2>6. CASE i > k
    <3>1. q[i] = p[i - 1] /\ q[j] = p[j - 1] /\ i - 1 \in 1..n /\ j - 1 \in 1..n /\ i - 1 < j - 1
      BY <2>6, <1>3, <1>9
    <3>2. QED
      BY <3>1, <2>1
  <2>7. QED
    BY <2>2, <2>3, <2>4, <2>5, <2>6, <1>3
<1> HIDE DEF q
<1>10. q \in Bijection(1..(n + 1), 1..(n + 1))
  <2>1. \A i, j \in 1..(n + 1) : q[i] = q[j] => i = j
    BY <1>7
  <2>2. q \in Injection(1..(n + 1), 1..(n + 1))
    BY <1>4, <2>1 DEF Injection, IsInjective
  <2>3. q \in Surjection(1..(n + 1), 1..(n + 1))
    BY <1>4, <1>8 DEF Surjection
  <2>4. QED
    BY <2>2, <2>3 DEF Bijection
<1>11. QED
  BY <1>9, <1>10 DEF Sorts

LEMMA SortExists ==
    \A n \in Nat : \A v \in [1..n -> Nat] : \E p : Sorts(p, v, n)
<1> DEFINE T == {n \in Nat : \A v \in [1..n -> Nat] : \E p : Sorts(p, v, n)}
<1>1. 0 \in T
  <2>1. \A v : Sorts([i \in 1..0 |-> i], v, 0)
    <3>1. [i \in 1..0 |-> i] \in Injection(1..0, 1..0)
      BY DEF Injection, IsInjective
    <3>2. [i \in 1..0 |-> i] \in Surjection(1..0, 1..0)
      BY DEF Surjection
    <3>3. QED
      BY <3>1, <3>2 DEF Sorts, Bijection
  <2> QED
    BY <2>1
<1>2. ASSUME NEW n \in T \cap Nat PROVE n + 1 \in T
  <2> SUFFICES ASSUME NEW v \in [1..(n + 1) -> Nat] PROVE \E p : Sorts(p, v, n + 1)
    OBVIOUS
  <2> DEFINE w == [i \in 1..n |-> v[i]]
  <2>1. w \in [1..n -> Nat]
    OBVIOUS
  <2>2. PICK p : Sorts(p, w, n)
    BY <2>1
  <2>3. p \in [1..n -> 1..n]
    BY <2>2 DEF Sorts, Bijection, Injection
  <2>4. \A i \in 1..n : w[p[i]] = v[p[i]]
    BY <2>3
  <2>5. Sorts(p, v, n)
    BY <2>2, <2>4 DEF Sorts
  <2>6. QED
    BY <2>5, SortInsert
<1> HIDE DEF T
<1>3. Nat \subseteq T
  BY <1>1, <1>2, SetInduction
<1>4. QED
  BY <1>3 DEF T

LEMMA AscendingIs ==
    ASSUME NEW v \in Seq(Nat)
    PROVE  /\ \A i \in 1..Len(v) : Ascending(v)[i] \in Nat
           /\ \A i, j \in 1..Len(v) : i <= j => Ascending(v)[i] <= Ascending(v)[j]
           /\ \A i \in 1..Len(v) : \E j \in 1..Len(v) : Ascending(v)[j] = v[i]
           /\ \A i \in 1..Len(v) : \E j \in 1..Len(v) : Ascending(v)[i] = v[j]
<1> DEFINE n == Len(v)
           D == 1..n
           p == CHOOSE p \in [DOMAIN v -> DOMAIN v] :
                    \A i, j \in DOMAIN v : i < j => p[i] # p[j] /\ v[p[i]] <= v[p[j]]
<1>1. n \in Nat /\ DOMAIN v = 1..n /\ v \in [1..n -> Nat]
  OBVIOUS
<1>2. PICK q : Sorts(q, v, n)
  BY <1>1, SortExists
<1>3. \E r \in [DOMAIN v -> DOMAIN v] :
         \A i, j \in DOMAIN v : i < j => r[i] # r[j] /\ v[r[i]] <= v[r[j]]
  <2>1. q \in [1..n -> 1..n]
    BY <1>2 DEF Sorts, Bijection, Injection
  <2>2. \A i, j \in 1..n : q[i] = q[j] => i = j
    <3>1. q \in Injection(1..n, 1..n)
      BY <1>2 DEF Sorts, Bijection
    <3>2. IsInjective(q) /\ DOMAIN q = 1..n
      BY <3>1 DEF Injection
    <3>3. QED
      BY <3>2 DEF IsInjective
  <2>3. \A i, j \in 1..n : i < j => v[q[i]] <= v[q[j]]
    BY <1>2 DEF Sorts
  <2> HIDE DEF n
  <2>4. \A i, j \in 1..n : i < j => q[i] # q[j] /\ v[q[i]] <= v[q[j]]
    BY <1>1, <2>2, <2>3
  <2>5. QED
    BY <1>1, <2>1, <2>4
<1>4. /\ p \in [DOMAIN v -> DOMAIN v]
      /\ \A i, j \in DOMAIN v : i < j => p[i] # p[j] /\ v[p[i]] <= v[p[j]]
  BY <1>3
<1>5. Ascending(v) = [i \in DOMAIN v |-> v[p[i]]]
  BY DEF Ascending
<1> HIDE DEF p
<1>6. p \in [1..n -> 1..n] /\ (\A m \in 1..n : \E i \in 1..n : p[i] = m)
  <2>1. \A i, j \in D : i < j => p[i] # p[j]
    BY <1>1, <1>4
  <2>2. \A i, j \in D : p[i] = p[j] => i = j
    BY <1>1, <2>1
  <2>3. p \in [D -> D] /\ IsFiniteSet(D)
    <3>1. p \in [D -> D]
      BY <1>1, <1>4
    <3>2. n \in Int /\ 1 \in Int
      BY <1>1
    <3> HIDE DEF n
    <3>3. IsFiniteSet(D)
      BY <3>2, FS_Interval
    <3>4. QED
      BY <3>1, <3>3
  <2> HIDE DEF D
  <2>4. p \in Injection(D, D)
    BY <2>2, <2>3 DEF Injection, IsInjective
  <2>5. p \in Surjection(D, D)
    BY <2>3, <2>4, FS_Injection
  <2>6. \A m \in D : \E i \in D : p[i] = m
    BY <2>5 DEF Surjection
  <2>7. QED
    BY <2>3, <2>6 DEF D
<1>7. \A i \in 1..n : Ascending(v)[i] = v[p[i]] /\ v[p[i]] \in Nat
  BY <1>1, <1>5, <1>6
<1>8. \A i, j \in 1..n : i < j => v[p[i]] <= v[p[j]]
  BY <1>1, <1>4
<1>9. \A i, j \in 1..n : i <= j => Ascending(v)[i] <= Ascending(v)[j]
  BY <1>7, <1>8
<1>10. QED
  BY <1>1, <1>6, <1>7, <1>9

-----------------------------------------------------------------------------
(* The sum of the samples. *)

(* One step of the fold of Described over the places s of v. *)
Step(g, v, s) == IF s = {} THEN 0 ELSE LET x == CHOOSE x \in s : TRUE IN v[x] + g[s \ {x}]

UpTo(S, k) == {s \in SUBSET S : Cardinality(s) <= k}

Partial(v, S, k) == {g \in [UpTo(S, k) -> Nat] : \A s \in UpTo(S, k) : g[s] = Step(g, v, s)}

(* Taking away the element that is chosen. *)
LEMMA Smaller ==
    ASSUME NEW S, IsFiniteSet(S), NEW s \in SUBSET S, s # {}
    PROVE  LET x == CHOOSE x \in s : TRUE
           IN  /\ x \in s /\ s \ {x} \in SUBSET S
               /\ Cardinality(s) \in Nat /\ Cardinality(s) >= 1
               /\ Cardinality(s \ {x}) = Cardinality(s) - 1
<1> DEFINE x == CHOOSE x \in s : TRUE
<1>1. x \in s
  OBVIOUS
<1> HIDE DEF x
<1>2. IsFiniteSet(s)
  BY FS_Subset
<1>3. Cardinality(s) \in Nat /\ Cardinality(s) # 0
  BY <1>2, FS_CardinalityType, FS_EmptySet
<1>4. Cardinality(s \ {x}) = Cardinality(s) - 1
  BY <1>1, <1>2, FS_RemoveElement
<1>5. QED
  BY <1>1, <1>3, <1>4 DEF x

LEMMA PartialExists ==
    ASSUME NEW S, IsFiniteSet(S), NEW v \in [S -> Nat]
    PROVE  \A k \in Nat : Partial(v, S, k) # {}
<1> DEFINE T == {k \in Nat : Partial(v, S, k) # {}}
<1>1. 0 \in T
  <2> DEFINE g == [s \in UpTo(S, 0) |-> 0]
  <2>1. ASSUME NEW s \in UpTo(S, 0) PROVE s = {}
    <3>1. IsFiniteSet(s) /\ Cardinality(s) <= 0
      BY FS_Subset DEF UpTo
    <3>2. Cardinality(s) = 0
      BY <3>1, FS_CardinalityType
    <3>3. QED
      BY <3>1, <3>2, FS_EmptySet
  <2>2. g \in Partial(v, S, 0)
    BY <2>1 DEF Partial, Step
  <2>3. QED
    BY <2>2
<1>2. ASSUME NEW k \in T \cap Nat PROVE k + 1 \in T
  <2>1. PICK g : g \in Partial(v, S, k)
    BY <1>2
  <2> DEFINE h == [s \in UpTo(S, k + 1) |-> Step(g, v, s)]
  <2>2. \A s \in UpTo(S, k) : s \in UpTo(S, k + 1) /\ g[s] = Step(g, v, s) /\ g[s] \in Nat
    <3>1. g \in [UpTo(S, k) -> Nat] /\ \A s \in UpTo(S, k) : g[s] = Step(g, v, s)
      BY <2>1 DEF Partial
    <3>2. ASSUME NEW s \in UpTo(S, k) PROVE s \in UpTo(S, k + 1)
      <4>1. IsFiniteSet(s)
        BY FS_Subset DEF UpTo
      <4>2. Cardinality(s) \in Nat
        BY <4>1, FS_CardinalityType
      <4>3. QED
        BY <4>2, <1>2 DEF UpTo
    <3>3. QED
      BY <3>1, <3>2
  <2>3. \A s \in UpTo(S, k) : h[s] = g[s]
    BY <2>2
  <2>4. ASSUME NEW s \in UpTo(S, k + 1)
        PROVE  h[s] \in Nat /\ h[s] = Step(h, v, s)
    <3>1. h[s] = Step(g, v, s)
      OBVIOUS
    <3> HIDE DEF h
    <3>2. CASE s = {}
      BY <3>1, <3>2 DEF Step
    <3>3. CASE s # {}
      <4>1. PICK x : x = CHOOSE y \in s : TRUE
        OBVIOUS
      <4>2. s \in SUBSET S /\ Cardinality(s) <= k + 1
        BY DEF UpTo
      <4>3. x \in s /\ s \ {x} \in SUBSET S /\ Cardinality(s) \in Nat
            /\ Cardinality(s \ {x}) = Cardinality(s) - 1
        BY <4>1, <4>2, <3>3, Smaller
      <4>4. s \ {x} \in UpTo(S, k)
        BY <4>2, <4>3, <1>2 DEF UpTo
      <4>5. h[s \ {x}] = g[s \ {x}] /\ g[s \ {x}] \in Nat
        BY <2>2, <2>3, <4>4
      <4>6. v[x] \in Nat
        BY <4>2, <4>3
      <4>7. Step(g, v, s) = v[x] + g[s \ {x}] /\ Step(h, v, s) = v[x] + h[s \ {x}]
        BY <4>1, <3>3 DEF Step
      <4>8. QED
        BY <3>1, <4>5, <4>6, <4>7
    <3>4. QED
      BY <3>2, <3>3
  <2>5. h \in Partial(v, S, k + 1)
    <3>1. h \in [UpTo(S, k + 1) -> Nat]
      BY <2>4
    <3> HIDE DEF h
    <3>2. QED
      BY <3>1, <2>4 DEF Partial
  <2>6. QED
    BY <2>5
<1> HIDE DEF T
<1>3. Nat \subseteq T
  BY <1>1, <1>2, SetInduction
<1>4. QED
  BY <1>3 DEF T

LEMMA PartialsAgree ==
    ASSUME NEW S, IsFiniteSet(S), NEW v \in [S -> Nat], NEW j \in Nat, NEW k \in Nat,
           NEW g \in Partial(v, S, j), NEW h \in Partial(v, S, k), j <= k
    PROVE  \A s \in UpTo(S, j) : g[s] = h[s]
<1> DEFINE T == {n \in Nat : \A s \in UpTo(S, j) : Cardinality(s) = n => g[s] = h[s]}
<1>0. ASSUME NEW s \in UpTo(S, j)
      PROVE  /\ s \in SUBSET S /\ Cardinality(s) \in Nat /\ Cardinality(s) <= j
             /\ s \in UpTo(S, k)
             /\ g[s] = Step(g, v, s) /\ h[s] = Step(h, v, s)
  <2>1. IsFiniteSet(s) /\ s \in SUBSET S /\ Cardinality(s) <= j
    BY FS_Subset DEF UpTo
  <2>2. Cardinality(s) \in Nat
    BY <2>1, FS_CardinalityType
  <2>3. s \in UpTo(S, k)
    BY <2>1, <2>2 DEF UpTo
  <2>4. QED
    BY <2>1, <2>2, <2>3 DEF Partial
<1>1. 0 \in T
  <2> SUFFICES ASSUME NEW s \in UpTo(S, j), Cardinality(s) = 0 PROVE g[s] = h[s]
    OBVIOUS
  <2>1. s = {}
    BY FS_Subset, FS_EmptySet, <1>0
  <2>2. QED
    BY <1>0, <2>1 DEF Step
<1>2. ASSUME NEW n \in T \cap Nat PROVE n + 1 \in T
  <2> SUFFICES ASSUME NEW s \in UpTo(S, j), Cardinality(s) = n + 1 PROVE g[s] = h[s]
    OBVIOUS
  <2>1. s # {}
    BY FS_EmptySet, <1>2
  <2>2. PICK x : x = CHOOSE y \in s : TRUE
    OBVIOUS
  <2>3. s \ {x} \in SUBSET S /\ Cardinality(s \ {x}) = n
    BY <1>0, <2>1, <2>2, <1>2, Smaller
  <2>4. s \ {x} \in UpTo(S, j)
    BY <2>3, <1>0, <1>2 DEF UpTo
  <2>5. g[s \ {x}] = h[s \ {x}]
    BY <2>3, <2>4, <1>2
  <2>6. g[s] = v[x] + g[s \ {x}] /\ h[s] = v[x] + h[s \ {x}]
    BY <2>1, <2>2, <1>0 DEF Step
  <2>7. QED
    BY <2>5, <2>6
<1> HIDE DEF T
<1>3. Nat \subseteq T
  BY <1>1, <1>2, SetInduction
<1>4. QED
  BY <1>0, <1>3 DEF T

(* The recursion of the fold has a solution, so the fold is one. *)
LEMMA FoldIs ==
    ASSUME NEW S, IsFiniteSet(S), NEW v \in [S -> Nat]
    PROVE  \E g :
              Total(v) = g[S] /\ \A s \in SUBSET S : g[s] = Step(g, v, s)
<1> DEFINE U(k) == CHOOSE g : g \in Partial(v, S, k)
           f == [s \in SUBSET S |-> U(Cardinality(s))[s]]
           G == CHOOSE g : g = [s \in SUBSET DOMAIN v |-> Step(g, v, s)]
<1>1. \A k \in Nat : U(k) \in Partial(v, S, k)
  BY PartialExists
<1> HIDE DEF U
<1>2. ASSUME NEW s \in SUBSET S PROVE f[s] \in Nat /\ f[s] = Step(f, v, s)
  <2>1. Cardinality(s) \in Nat /\ s \in UpTo(S, Cardinality(s))
    BY FS_Subset, FS_CardinalityType DEF UpTo
  <2>2. f[s] = U(Cardinality(s))[s]
    OBVIOUS
  <2>3. f[s] \in Nat /\ f[s] = Step(U(Cardinality(s)), v, s)
    BY <1>1, <2>1, <2>2 DEF Partial
  <2>4. CASE s = {}
    BY <2>3, <2>4 DEF Step
  <2>5. CASE s # {}
    <3>1. PICK x : x = CHOOSE y \in s : TRUE
      OBVIOUS
    <3>2. PICK m : m = Cardinality(s)
      OBVIOUS
    <3>3. s \ {x} \in SUBSET S /\ Cardinality(s \ {x}) = m - 1 /\ m \in Nat /\ m >= 1
      BY <3>1, <3>2, <2>5, Smaller
    <3>4. m - 1 \in Nat /\ m - 1 <= m /\ s \ {x} \in UpTo(S, m - 1)
      BY <3>3 DEF UpTo
    <3>5. U(m - 1)[s \ {x}] = U(m)[s \ {x}]
      BY <3>3, <3>4, <1>1, PartialsAgree
    <3>6. f[s \ {x}] = U(m - 1)[s \ {x}]
      BY <3>3
    <3> HIDE DEF f
    <3>7. f[s] = v[x] + U(m)[s \ {x}]
      BY <2>3, <2>5, <3>1, <3>2 DEF Step
    <3>8. Step(f, v, s) = v[x] + f[s \ {x}]
      BY <2>5, <3>1 DEF Step
    <3>9. QED
      BY <2>3, <3>5, <3>6, <3>7, <3>8
  <2>6. QED
    BY <2>4, <2>5
<1>3. f = [s \in SUBSET DOMAIN v |-> Step(f, v, s)]
  BY <1>2
<1>4. Total(v) = G[S]
  BY Zenon DEF Total, FoldSeq, FoldFunction, FoldFunctionOnSet, MapThenFoldSet, Step
<1> HIDE DEF f
<1>5. G = [s \in SUBSET DOMAIN v |-> Step(G, v, s)]
  BY <1>3
<1> HIDE DEF G
<1>6. QED
  BY <1>4, <1>5

(* A sum is at most as many times a bound as there are samples. *)
LEMMA TotalBound ==
    ASSUME NEW S, IsFiniteSet(S), NEW v \in [S -> Nat], NEW m \in Nat, \A i \in S : v[i] <= m
    PROVE  Total(v) \in Nat /\ Total(v) <= m * Cardinality(S)
<1>2. \A i \in S : v[i] \in Nat /\ v[i] <= m
  OBVIOUS
<1>3. PICK g : Total(v) = g[S] /\ \A s \in SUBSET S : g[s] = Step(g, v, s)
  BY FoldIs
<1> DEFINE T == {n \in Nat : \A s \in SUBSET S :
                   Cardinality(s) = n => g[s] \in Nat /\ g[s] <= m * n}
<1>4. 0 \in T
  <2> SUFFICES ASSUME NEW s \in SUBSET S, Cardinality(s) = 0 PROVE g[s] \in Nat /\ g[s] <= m * 0
    OBVIOUS
  <2>1. s = {}
    BY FS_Subset, FS_EmptySet
  <2>2. g[s] = 0
    BY <1>3, <2>1 DEF Step
  <2>3. QED
    BY <2>2
<1>5. ASSUME NEW n \in T \cap Nat PROVE n + 1 \in T
  <2> SUFFICES ASSUME NEW s \in SUBSET S, Cardinality(s) = n + 1
               PROVE  g[s] \in Nat /\ g[s] <= m * (n + 1)
    OBVIOUS
  <2>0. n \in Nat /\ \A r \in SUBSET S : Cardinality(r) = n => g[r] \in Nat /\ g[r] <= m * n
    BY <1>5
  <2> HIDE DEF T
  <2>1. s # {}
    BY FS_EmptySet, <2>0
  <2>2. PICK x : x = CHOOSE y \in s : TRUE
    OBVIOUS
  <2>3. x \in s /\ s \ {x} \in SUBSET S /\ Cardinality(s \ {x}) = n
    BY <2>0, <2>1, <2>2, Smaller
  <2>4. g[s \ {x}] \in Nat /\ g[s \ {x}] <= m * n
    BY <2>3, <2>0
  <2>5. g[s] = v[x] + g[s \ {x}]
    BY <1>3, <2>1, <2>2 DEF Step
  <2>6. v[x] \in Nat /\ v[x] <= m
    BY <1>2, <2>3
  <2>7. m * (n + 1) = m * n + m /\ m * n \in Nat
    BY <2>0
  <2>8. QED
    BY <2>4, <2>5, <2>6, <2>7
<1> HIDE DEF T
<1>6. Nat \subseteq T
  BY <1>4, <1>5, SetInduction
<1>7. S \in SUBSET S /\ Cardinality(S) \in T
  BY <1>6, FS_CardinalityType
<1>8. QED
  BY <1>3, <1>7 DEF T

LEMMA SumBound ==
    ASSUME NEW v \in Seq(Nat), NEW m \in Nat, \A i \in 1..Len(v) : v[i] <= m
    PROVE  Total(v) \in Nat /\ Total(v) <= m * Len(v)
<1>1. Len(v) \in Nat /\ v \in [1..Len(v) -> Nat]
  OBVIOUS
<1>2. IsFiniteSet(1..Len(v)) /\ Cardinality(1..Len(v)) = Len(v)
  <2>1. /\ IsFiniteSet(1..Len(v))
        /\ Cardinality(1..Len(v)) = IF 1 <= Len(v) THEN Len(v) - 1 + 1 ELSE 0
    BY <1>1, FS_Interval
  <2>2. QED
    BY <2>1, <1>1
<1>3. Total(v) \in Nat /\ Total(v) <= m * Cardinality(1..Len(v))
  BY <1>1, <1>2, TotalBound
<1>4. QED
  BY <1>2, <1>3

-----------------------------------------------------------------------------
(* What the verifier accepts is what a game saved. *)

Row == [index : Int, duration : Nat]

(* The files of a directory hold what they are to hold, damaged or not.     *)
Shaped(e) ==
    /\ e = [completed |-> e.completed, valid |-> e.valid, reason |-> e.reason,
            scored |-> e.scored, replays |-> e.replays, generation |-> e.generation,
            timing |-> e.timing, claims |-> e.claims, compliant |-> e.compliant]
    /\ e.completed \in BOOLEAN /\ e.valid \in BOOLEAN /\ e.reason \in BOOLEAN
    /\ e.replays \in BOOLEAN /\ e.compliant \in BOOLEAN /\ e.scored \in Nat
    /\ e.generation \in [attempts : Nat, emitted : Nat, dropped : Nat]
    /\ e.timing \in [Kind -> Seq(Row)]
    /\ e.claims = [k \in Kind |-> e.claims[k]]

(* The two ways to compute the rank of the 99th percentile agree. *)
LEMMA SameSummary == ASSUME NEW v \in Seq(Nat) PROVE distribution(v) = recomputed(v)
<1> DEFINE rank == Ceiling(99 * Len(v), 100)
<1>1. CASE v # <<>>
  <2>1. Len(v) \in Nat /\ Len(v) # 0
    BY <1>1
  <2>2. rank = (99 * Len(v) + 99) \div 100 /\ rank <= Len(v)
    BY <2>1 DEF Ceiling
  <2>3. (IF rank < Len(v) THEN rank ELSE Len(v)) = (99 * Len(v) + 99) \div 100
    BY <2>1, <2>2
  <2>4. QED
    BY <1>1, <2>3 DEF distribution, recomputed
<1>2. QED
  BY <1>1 DEF distribution, recomputed

LEMMA Elements == ASSUME NEW S, NEW s \in Seq(S) PROVE \A i \in 1..Len(s) : s[i] \in S
OBVIOUS

(* Durations and positions determine the rows. *)
LEMMA RowsRead ==
    ASSUME NEW e, Shaped(e), NEW k \in Kind
    PROVE  /\ Durations(e, k) \in Seq(Nat)
           /\ (\A i \in DOMAIN e.timing[k] : e.timing[k][i].index = i - 1) =>
                 Rows(Durations(e, k)) = e.timing[k]
<1> DEFINE s == e.timing[k]
<1>1. s \in Seq(Row)
  BY DEF Shaped
<1>2. Len(s) \in Nat /\ DOMAIN s = 1..Len(s) /\ \A i \in 1..Len(s) : s[i] \in Row
  BY <1>1, Elements
<1>3. s = [i \in 1..Len(s) |-> s[i]]
  BY <1>1
<1> HIDE DEF s
<1>4. Durations(e, k) = [i \in 1..Len(s) |-> s[i].duration]
  BY <1>2 DEF Durations, s
<1>5. \A i \in 1..Len(s) : s[i].duration \in Nat
  BY <1>2 DEF Row
<1>6. Durations(e, k) \in Seq(Nat)
  BY <1>2, <1>4, <1>5
<1>7. ASSUME \A i \in DOMAIN s : s[i].index = i - 1
      PROVE  Rows(Durations(e, k)) = s
  <2>1. \A i \in 1..Len(s) : s[i] = [index |-> i - 1, duration |-> s[i].duration]
    BY <1>2, <1>7 DEF Row
  <2>2. Rows(Durations(e, k)) = [i \in 1..Len(s) |-> [index |-> i - 1, duration |-> s[i].duration]]
    BY <1>4 DEF Rows
  <2>3. QED
    BY <1>3, <2>1, <2>2
<1>8. QED
  BY <1>6, <1>7 DEF s

(* Whatever was edited: if the verifier passes a directory, a completed and *)
(* valid game might have saved just that.                                   *)
LEMMA PassedGenuine ==
    ASSUME NEW e, Shaped(e), passed(e, FALSE)
    PROVE  Genuine(e) /\ e.completed /\ e.valid
<1> DEFINE v == [k \in Kind |-> Durations(e, k)]
<1>1. /\ e.completed = TRUE /\ e.valid = TRUE /\ e.reason = FALSE /\ e.replays = TRUE
  BY DEF passed, FlagsConsistent, Shaped
<1>2. /\ e.generation = [attempts |-> e.generation.emitted + e.generation.dropped,
                         emitted |-> e.generation.emitted, dropped |-> e.generation.dropped]
      /\ e.scored = e.generation.emitted
  BY DEF passed, GenerationConsistent, Shaped
<1>3. \A k \in Kind : Rows(v[k]) = e.timing[k]
  BY RowsRead DEF passed, TimingConsistent
<1>4. \A k \in Kind : distribution(v[k]) = e.claims[k]
  BY RowsRead, SameSummary DEF passed, TimingConsistent
<1>5. e.timing = [k \in Kind |-> Rows(v[k])] /\ e.claims = [k \in Kind |-> distribution(v[k])]
  BY <1>3, <1>4 DEF Shaped
<1>6. e.compliant = Compliant(distribution(v["frame_gap"]))
  <2>1. "frame_gap" \in Kind
    BY DEF Kind
  <2>2. e.compliant = Compliant(recomputed(Durations(e, "frame_gap")))
    BY DEF passed, TimingConsistent, TimingCompliant
  <2>3. distribution(v["frame_gap"]) = recomputed(Durations(e, "frame_gap"))
    BY <2>1, RowsRead, SameSummary
  <2>4. QED
    BY <2>2, <2>3
<1> HIDE DEF v
<1>7. e = Saved(e.completed, e.valid, e.generation.emitted, e.generation.dropped, v)
  <2>1. Saved(e.completed, e.valid, e.generation.emitted, e.generation.dropped, v) =
          [completed |-> TRUE, valid |-> TRUE, reason |-> FALSE, scored |-> e.scored,
           replays |-> TRUE, generation |-> e.generation, timing |-> e.timing,
           claims |-> e.claims, compliant |-> e.compliant]
    BY <1>1, <1>2, <1>5, <1>6, "frame_gap" \in Kind DEF Saved, Kind
  <2>2. QED
    BY <2>1, <1>1 DEF Shaped
<1>8. ASSUME NEW k \in Kind, e.claims[k].count > 0 PROVE e.timing[k] # <<>>
  <2> SUFFICES ASSUME e.timing[k] = <<>> PROVE FALSE
    OBVIOUS
  <2>1. Durations(e, k) \in Seq(Nat) /\ DOMAIN Durations(e, k) = {}
    BY RowsRead DEF Durations
  <2>2. Durations(e, k) = <<>>
    BY <2>1
  <2>3. e.claims[k] = recomputed(Durations(e, k))
    BY DEF passed, TimingConsistent
  <2>4. QED
    BY <1>8, <2>2, <2>3 DEF recomputed, NoSamples
<1>9. e.claims["frame_gap"].count > 0 /\ e.claims["poll"].count > 0
  BY <1>1 DEF passed, TimingConsistent
<1>10. QED
  BY <1>1, <1>7, <1>8, <1>9 DEF Genuine, v, Kind

-----------------------------------------------------------------------------
(* The verifier accepts the summary the game makes of any samples. *)

LEMMA ExceedingIs ==
    ASSUME NEW v \in Seq(Nat), NEW a \in Nat, NEW b \in Nat, a <= b
    PROVE  /\ Exceeding(v, a) \in Nat /\ Exceeding(v, b) \in Nat
           /\ Exceeding(v, b) <= Exceeding(v, a) /\ Exceeding(v, a) <= Len(v)
           /\ Exceeding(v, a) = 0 <=> \A i \in 1..Len(v) : v[i] <= a
<1> DEFINE A == {i \in DOMAIN v : v[i] > a}
           B == {i \in DOMAIN v : v[i] > b}
           D == 1..Len(v)
<1>1. Len(v) \in Nat /\ DOMAIN v = D /\ \A i \in D : v[i] \in Nat
  BY Elements
<1>2. IsFiniteSet(D) /\ Cardinality(D) = Len(v)
  <2>1. IsFiniteSet(D) /\ Cardinality(D) = IF 1 <= Len(v) THEN Len(v) - 1 + 1 ELSE 0
    BY <1>1, FS_Interval
  <2>2. QED
    BY <1>1, <2>1
<1> HIDE DEF D
<1>3. A \in SUBSET D /\ B \in SUBSET A
  BY <1>1
<1>4. A = {} <=> \A i \in D : v[i] <= a
  BY <1>1
<1>5. Exceeding(v, a) = Cardinality(A) /\ Exceeding(v, b) = Cardinality(B)
  BY DEF Exceeding
<1> HIDE DEF A, B
<1>6. IsFiniteSet(A) /\ Cardinality(A) <= Cardinality(D)
  BY <1>2, <1>3, FS_Subset
<1>7. IsFiniteSet(B) /\ Cardinality(B) <= Cardinality(A)
  BY <1>3, <1>6, FS_Subset
<1>8. Cardinality(A) \in Nat /\ Cardinality(B) \in Nat /\ (Cardinality(A) = 0 <=> A = {})
  BY <1>6, <1>7, FS_CardinalityType, FS_EmptySet
<1>9. QED
  BY <1>2, <1>4, <1>5, <1>6, <1>7, <1>8 DEF D

LEMMA SummaryInRange ==
    ASSUME NEW v \in Seq(Nat)
    PROVE  /\ InRange(distribution(v))
           /\ distribution(v).count = Len(v)
           /\ distribution(v).over_16ms = 0 <=> \A i \in 1..Len(v) : v[i] <= Long
<1>1. CASE v = <<>>
  <2>1. distribution(v) = NoSamples /\ Len(v) = 0
    BY <1>1 DEF distribution
  <2>2. QED
    BY <1>1, <2>1, AuditAssumption DEF InRange, NoSamples
<1>2. CASE v # <<>>
  <2> DEFINE o == Ascending(v)
             n == Len(v)
             rank == Ceiling(99 * Len(v), 100)
             r == IF rank < Len(v) THEN rank ELSE Len(v)
             h == (n - 1) \div 2 + 1
             c == distribution(v)
  <2>1. n \in Nat /\ n >= 1
    BY <1>2
  <2>2. r \in 1..n /\ h \in 1..n /\ h <= r
    BY <2>1 DEF Ceiling
  <2>3. c = [count |-> n, sum |-> Total(v), p50 |-> o[h], p99 |-> o[r], max |-> o[n],
             over_16ms |-> Exceeding(v, Long), over_2ms |-> Exceeding(v, Short)]
    BY <1>2 DEF distribution, Described
  <2> HIDE DEF o, r, h, n, c
  <2>o. /\ \A i \in 1..n : o[i] \in Nat
        /\ \A i, j \in 1..n : i <= j => o[i] <= o[j]
        /\ \A i \in 1..n : \E j \in 1..n : o[j] = v[i]
        /\ \A i \in 1..n : \E j \in 1..n : o[i] = v[j]
    BY AscendingIs DEF o, n
  <2>4. o[h] <= o[r] /\ o[r] <= o[n] /\ o[n] \in Nat
    <3>1. n \in 1..n /\ r <= n
      BY <2>1, <2>2
    <3>2. QED
      BY <2>2, <2>o, <3>1
  <2>5. \A i \in 1..n : v[i] \in Nat /\ v[i] <= o[n]
    <3> SUFFICES ASSUME NEW i \in 1..n PROVE v[i] \in Nat /\ v[i] <= o[n]
      OBVIOUS
    <3>1. PICK j \in 1..n : o[j] = v[i]
      BY <2>o
    <3>2. o[j] <= o[n]
      BY <2>1, <2>o
    <3>3. v[i] \in Nat
      BY Elements DEF n
    <3>4. QED
      BY <3>1, <3>2, <3>3
  <2>6. PICK m \in 1..n : v[m] = o[n]
    <3>1. n \in 1..n
      BY <2>1
    <3>2. QED
      BY <2>o, <3>1
  <2>7. Total(v) <= o[n] * n
    BY <2>4, <2>5, SumBound DEF n
  <2>8. Short \in Nat /\ Long \in Nat /\ Short < Long
    BY AuditAssumption
  <2>9. /\ Exceeding(v, Short) \in Nat /\ Exceeding(v, Long) \in Nat
        /\ Exceeding(v, Long) <= Exceeding(v, Short) /\ Exceeding(v, Short) <= n
        /\ Exceeding(v, Short) = 0 <=> \A i \in 1..n : v[i] <= Short
        /\ Exceeding(v, Long) = 0 <=> \A i \in 1..n : v[i] <= Long
    <3>1. Short <= Long /\ Long <= Long
      BY <2>8
    <3>2. /\ Exceeding(v, Short) \in Nat /\ Exceeding(v, Long) \in Nat
          /\ Exceeding(v, Long) <= Exceeding(v, Short) /\ Exceeding(v, Short) <= Len(v)
          /\ Exceeding(v, Short) = 0 <=> \A i \in 1..Len(v) : v[i] <= Short
      BY <2>8, <3>1, ExceedingIs
    <3>3. Exceeding(v, Long) = 0 <=> \A i \in 1..Len(v) : v[i] <= Long
      BY <2>8, <3>1, ExceedingIs
    <3>4. QED
      BY <3>2, <3>3 DEF n
  <2>10. /\ o[n] > Long => Exceeding(v, Long) > 0
         /\ o[n] < Long => Exceeding(v, Long) = 0
         /\ o[n] > Short => Exceeding(v, Short) > 0
         /\ o[n] < Short => Exceeding(v, Short) = 0
    BY <2>4, <2>5, <2>6, <2>8, <2>9
  <2>11. /\ c.count = n /\ c.sum = Total(v) /\ c.p50 = o[h] /\ c.p99 = o[r] /\ c.max = o[n]
         /\ c.over_16ms = Exceeding(v, Long) /\ c.over_2ms = Exceeding(v, Short)
    BY <2>3
  <2>12. InRange(c)
    BY <2>1, <2>4, <2>7, <2>9, <2>10, <2>11 DEF InRange
  <2>13. QED
    BY <2>9, <2>11, <2>12 DEF c, n
<1>3. QED
  BY <1>1, <1>2

(* Passing is a matter of the directory alone. *)
LEMMA GenuineAccepted ==
    ASSUME NEW e, Shaped(e), Genuine(e), e.completed, e.valid
    PROVE  /\ passed(e, FALSE)
           /\ passed(e, TRUE) <=> \A i \in DOMAIN e.timing["frame_gap"] :
                                     e.timing["frame_gap"][i].duration <= Long
<1> DEFINE v == [k \in Kind |-> Durations(e, k)]
<1>1. /\ "frame_gap" \in Kind /\ "poll" \in Kind
  BY DEF Kind
<1>2. \A k \in Kind : v[k] \in Seq(Nat)
  BY RowsRead
<1>3. e = Saved(e.completed, e.valid, e.generation.emitted, e.generation.dropped, v)
  BY DEF Genuine
<1>4. e.completed = TRUE /\ e.valid = TRUE
  BY DEF Shaped
<1> HIDE DEF v
<1>s. /\ e.reason = ~e.valid /\ e.replays = TRUE /\ e.scored = e.generation.emitted
      /\ e.generation = [attempts |-> e.generation.emitted + e.generation.dropped,
                         emitted |-> e.generation.emitted, dropped |-> e.generation.dropped]
      /\ e.timing = [k \in Kind |-> Rows(v[k])]
      /\ e.claims = [k \in Kind |-> distribution(v[k])]
      /\ e.compliant = Compliant([k \in Kind |-> distribution(v[k])]["frame_gap"])
  <2> DEFINE claims == [k \in Kind |-> distribution(v[k])]
             generation == [attempts |-> e.generation.emitted + e.generation.dropped,
                            emitted |-> e.generation.emitted, dropped |-> e.generation.dropped]
             timing == [k \in Kind |-> Rows(v[k])]
             compliant == Compliant(claims["frame_gap"])
             completed == e.completed /\ e.valid
             reason == ~e.valid
  <2>1. e = [completed |-> e.completed, valid |-> completed, reason |-> reason,
             scored |-> e.generation.emitted, replays |-> TRUE, generation |-> generation,
             timing |-> timing, claims |-> claims, compliant |-> compliant]
    BY <1>3 DEF Saved
  <2> HIDE DEF claims, generation, timing, compliant, completed, reason
  <2>2. /\ e.reason = reason /\ e.replays = TRUE /\ e.scored = e.generation.emitted
        /\ e.generation = generation /\ e.timing = timing /\ e.claims = claims
        /\ e.compliant = compliant
    BY <2>1
  <2>3. QED
    BY <2>2 DEF claims, generation, timing, compliant, reason
<1>5. /\ e.reason = FALSE /\ e.replays = TRUE /\ e.scored = e.generation.emitted
      /\ e.generation.attempts = e.generation.emitted + e.generation.dropped
  <2>1. e.reason = FALSE
    BY <1>4, <1>s
  <2>2. PICK b, c : e.generation = [attempts |-> b + c, emitted |-> b, dropped |-> c]
    BY <1>s
  <2>3. e.generation.attempts = e.generation.emitted + e.generation.dropped
    BY <2>2
  <2>4. QED
    BY <2>1, <2>3, <1>s
<1>6. /\ \A k \in Kind : e.timing[k] = Rows(v[k]) /\ e.claims[k] = distribution(v[k])
      /\ e.compliant = Compliant(distribution(v["frame_gap"]))
  BY <1>1, <1>s
<1>r. ASSUME NEW k \in Kind
      PROVE  /\ v[k] \in Seq(Nat) /\ Len(v[k]) \in Nat
             /\ DOMAIN Rows(v[k]) = 1..Len(v[k])
             /\ \A i \in 1..Len(v[k]) :
                   Rows(v[k])[i].index = i - 1 /\ Rows(v[k])[i].duration = v[k][i]
  BY <1>2 DEF Rows
<1>7. \A k \in Kind : v[k] = Durations(e, k)
  BY DEF v
<1>8. ASSUME NEW k \in Kind
      PROVE  /\ InRange(e.claims[k])
             /\ \A i \in DOMAIN e.timing[k] : e.timing[k][i].index = i - 1
             /\ e.claims[k] = recomputed(Durations(e, k))
  <2>1. InRange(e.claims[k])
    BY <1>2, <1>6, SummaryInRange
  <2>2. e.claims[k] = recomputed(Durations(e, k))
    BY <1>2, <1>6, <1>7, SameSummary
  <2>3. \A i \in DOMAIN e.timing[k] : e.timing[k][i].index = i - 1
    <3>1. e.timing[k] = Rows(v[k])
      BY <1>6
    <3>2. \A i \in DOMAIN Rows(v[k]) : Rows(v[k])[i].index = i - 1
      BY <1>r
    <3>3. QED
      BY <3>1, <3>2
  <2>4. QED
    BY <2>1, <2>2, <2>3
<1>9. ASSUME NEW k \in Kind, e.timing[k] # <<>> PROVE e.claims[k].count > 0
  <2>1. Len(v[k]) \in Nat /\ e.claims[k].count = Len(v[k])
    BY <1>2, <1>6, SummaryInRange
  <2>2. Len(v[k]) # 0
    <3>1. SUFFICES ASSUME Len(v[k]) = 0 PROVE FALSE
      OBVIOUS
    <3>2. v[k] = <<>>
      BY <1>2, <3>1
    <3>3. Rows(v[k]) \in Seq(Row) /\ DOMAIN Rows(v[k]) = {}
      BY <1>6, <1>r, <3>1 DEF Shaped
    <3>4. Rows(v[k]) = <<>>
      BY <3>3
    <3>5. QED
      BY <1>6, <1>9, <3>4
  <2>3. QED
    BY <2>1, <2>2
<1>10. e.claims["frame_gap"].count > 0 /\ e.claims["poll"].count > 0
  BY <1>1, <1>4, <1>9 DEF Genuine
<1>11. e.compliant = TimingCompliant(e)
  BY <1>1, <1>2, <1>6, <1>7, SameSummary DEF TimingCompliant
<1>12. passed(e, FALSE)
  BY <1>4, <1>5, <1>8, <1>10, <1>11
     DEF passed, FlagsConsistent, GenerationConsistent, TimingConsistent
<1>13. TimingCompliant(e) <=> \A i \in 1..Len(v["frame_gap"]) : v["frame_gap"][i] <= Long
  <2>1. TimingCompliant(e) = Compliant(e.claims["frame_gap"])
    BY <1>1, <1>6, <1>11
  <2>2. e.claims["frame_gap"].over_16ms = 0 <=>
           \A i \in 1..Len(v["frame_gap"]) : v["frame_gap"][i] <= Long
    BY <1>1, <1>2, <1>6, SummaryInRange
  <2>3. QED
    BY <1>10, <2>1, <2>2 DEF Compliant
<1>14. /\ DOMAIN e.timing["frame_gap"] = 1..Len(v["frame_gap"])
       /\ \A i \in 1..Len(v["frame_gap"]) : e.timing["frame_gap"][i].duration = v["frame_gap"][i]
  BY <1>1, <1>6, <1>r
<1>15. passed(e, TRUE) <=> passed(e, FALSE) /\ TimingCompliant(e)
  BY DEF passed
<1>16. QED
  BY <1>12, <1>13, <1>14, <1>15

(* A game's directory has the shape, and an edit leaves it. *)
LEMMA SavedShaped ==
    ASSUME NEW completed \in BOOLEAN, NEW valid \in BOOLEAN, NEW emitted \in Nat,
           NEW dropped \in Nat, NEW samples \in [Kind -> Seq(Nat)]
    PROVE  Shaped(Saved(completed, valid, emitted, dropped, samples))
<1> DEFINE e == Saved(completed, valid, emitted, dropped, samples)
<1>1. \A k \in Kind : Rows(samples[k]) \in Seq(Row)
  <2> SUFFICES ASSUME NEW k \in Kind PROVE Rows(samples[k]) \in Seq(Row)
    OBVIOUS
  <2> DEFINE v == samples[k]
  <2>1. v \in Seq(Nat)
    OBVIOUS
  <2>2. Len(v) \in Nat /\ DOMAIN v = 1..Len(v) /\ \A i \in 1..Len(v) : v[i] \in Nat
    BY <2>1, Elements
  <2>3. \A i \in 1..Len(v) : [index |-> i - 1, duration |-> v[i]] \in Row
    BY <2>2 DEF Row
  <2>4. Rows(v) = [i \in 1..Len(v) |-> [index |-> i - 1, duration |-> v[i]]]
    BY <2>2 DEF Rows
  <2> HIDE DEF v
  <2>5. Rows(v) \in Seq(Row)
    BY <2>2, <2>3, <2>4
  <2>6. QED
    BY <2>5 DEF v
<1>2. e.timing = [k \in Kind |-> Rows(samples[k])]
      /\ e.claims = [k \in Kind |-> distribution(samples[k])]
  BY DEF Saved
<1>3. e.timing \in [Kind -> Seq(Row)] /\ e.claims = [k \in Kind |-> e.claims[k]]
  BY <1>1, <1>2
<1>4. e.generation = [attempts |-> emitted + dropped, emitted |-> emitted, dropped |-> dropped]
  BY DEF Saved
<1>5. /\ e.completed \in BOOLEAN /\ e.valid \in BOOLEAN /\ e.reason \in BOOLEAN
      /\ e.replays \in BOOLEAN /\ e.compliant \in BOOLEAN /\ e.scored \in Nat
  BY DEF Saved, Compliant
<1>6. e = [completed |-> e.completed, valid |-> e.valid, reason |-> e.reason,
           scored |-> e.scored, replays |-> e.replays, generation |-> e.generation,
           timing |-> e.timing, claims |-> e.claims, compliant |-> e.compliant]
  BY DEF Saved
<1> HIDE DEF e
<1>7. Shaped(e)
  BY <1>3, <1>4, <1>5, <1>6 DEF Shaped
<1>8. QED
  BY <1>7 DEF e

LEMMA Elsewhere ==
    ASSUME NEW S, NEW s \in Seq(S), NEW i \in 1..Len(s), NEW e \in S
    PROVE  RemoveAt(s, i) \in Seq(S) /\ InsertAt(s, i, e) \in Seq(S)
BY DEF RemoveAt, InsertAt

LEMMA DamagedRowsTyped ==
    ASSUME NEW s \in Seq(Row), NEW t \in DamagedRows(s) PROVE t \in Seq(Row)
<1>1. Len(s) \in Nat /\ DOMAIN s = 1..Len(s) /\ \A i \in 1..Len(s) : s[i] \in Row
  BY Elements
<1>2. CASE \E i \in 1..Len(s) : t \in {RemoveAt(s, i), InsertAt(s, i, s[i])}
  BY <1>1, <1>2, Elsewhere
<1>3. CASE \E i \in 1..Len(s) : t = [s EXCEPT ![i].duration = @ + 1]
  <2>1. PICK i \in 1..Len(s) : t = [s EXCEPT ![i].duration = @ + 1]
    BY <1>3
  <2>2. [s[i] EXCEPT !.duration = @ + 1] \in Row
    BY <1>1 DEF Row
  <2>3. t = [s EXCEPT ![i] = [s[i] EXCEPT !.duration = @ + 1]]
    BY <2>1
  <2>4. QED
    BY <2>2, <2>3
<1>4. CASE \E i \in 1..(Len(s) - 1) : t = [s EXCEPT ![i] = s[i + 1], ![i + 1] = s[i]]
  <2>1. PICK i \in 1..(Len(s) - 1) : t = [s EXCEPT ![i] = s[i + 1], ![i + 1] = s[i]]
    BY <1>4
  <2>2. s[i] \in Row /\ s[i + 1] \in Row
    BY <1>1
  <2>3. QED
    BY <2>1, <2>2
<1>5. QED
  <2> DEFINE one == UNION {{RemoveAt(s, i), InsertAt(s, i, s[i]),
                            [s EXCEPT ![i].duration = @ + 1]} : i \in DOMAIN s}
             two == {[s EXCEPT ![i] = s[i + 1], ![i + 1] = s[i]] : i \in 1..(Len(s) - 1)}
  <2>1. CASE t \in one
    <3>1. PICK i \in 1..Len(s) : t \in {RemoveAt(s, i), InsertAt(s, i, s[i]),
                                       [s EXCEPT ![i].duration = @ + 1]}
      BY <1>1, <2>1
    <3>2. QED
      BY <3>1, <1>2, <1>3
  <2>2. CASE t \in two
    BY <2>2, <1>4
  <2>3. DamagedRows(s) = one \cup two
    BY DEF DamagedRows
  <2> HIDE DEF one, two
  <2>4. QED
    BY <2>1, <2>2, <2>3

LEMMA DamagedShaped == ASSUME NEW e, Shaped(e), NEW f \in Damaged(e) PROVE Shaped(f)
<1>1. CASE f \in {[e EXCEPT !.completed = ~@], [e EXCEPT !.valid = ~@],
                  [e EXCEPT !.compliant = ~@], [e EXCEPT !.replays = FALSE]}
  <2>1. CASE f = [e EXCEPT !.completed = ~@]
    BY <2>1 DEF Shaped
  <2>2. CASE f = [e EXCEPT !.valid = ~@]
    BY <2>2 DEF Shaped
  <2>3. CASE f = [e EXCEPT !.compliant = ~@]
    BY <2>3 DEF Shaped
  <2>4. CASE f = [e EXCEPT !.replays = FALSE]
    BY <2>4 DEF Shaped
  <2>5. QED
    BY <1>1, <2>1, <2>2, <2>3, <2>4
<1>2. CASE \E g \in DOMAIN e.generation : f = [e EXCEPT !.generation[g] = @ + 1]
  <2>1. PICK g \in DOMAIN e.generation : f = [e EXCEPT !.generation[g] = @ + 1]
    BY <1>2
  <2>2. e.generation \in [attempts : Nat, emitted : Nat, dropped : Nat]
    BY DEF Shaped
  <2>3. [e.generation EXCEPT ![g] = @ + 1] \in [attempts : Nat, emitted : Nat, dropped : Nat]
    BY <2>2
  <2>4. f = [e EXCEPT !.generation = [e.generation EXCEPT ![g] = @ + 1]]
    BY <2>1
  <2>5. QED
    BY <2>3, <2>4 DEF Shaped
<1>3. CASE \E k \in Kind, g \in DOMAIN NoSamples : f = [e EXCEPT !.claims[k][g] = @ + 1]
  <2>1. PICK k \in Kind, g \in DOMAIN NoSamples : f = [e EXCEPT !.claims[k][g] = @ + 1]
    BY <1>3
  <2> DEFINE c == [e.claims[k] EXCEPT ![g] = @ + 1]
  <2>2. f = [e EXCEPT !.claims = [e.claims EXCEPT ![k] = c]]
    BY <2>1
  <2> HIDE DEF c
  <2>3. [e.claims EXCEPT ![k] = c] = [j \in Kind |-> IF j = k THEN c ELSE e.claims[j]]
    BY DEF Shaped
  <2>4. QED
    BY <2>2, <2>3 DEF Shaped
<1>4. CASE \E k \in Kind : \E s \in DamagedRows(e.timing[k]) : f = [e EXCEPT !.timing[k] = s]
  <2>1. PICK k \in Kind : \E s \in DamagedRows(e.timing[k]) : f = [e EXCEPT !.timing[k] = s]
    BY <1>4
  <2>2. PICK s \in DamagedRows(e.timing[k]) : f = [e EXCEPT !.timing[k] = s]
    BY <2>1
  <2>3. e.timing \in [Kind -> Seq(Row)] /\ s \in Seq(Row)
    BY DamagedRowsTyped DEF Shaped
  <2>4. f = [e EXCEPT !.timing = [e.timing EXCEPT ![k] = s]]
    BY <2>2
  <2>5. [e.timing EXCEPT ![k] = s] \in [Kind -> Seq(Row)]
    BY <2>3
  <2>6. QED
    BY <2>4, <2>5 DEF Shaped
<1>5. QED
  BY <1>1, <1>2, <1>3, <1>4 DEF Damaged

-----------------------------------------------------------------------------
(* The records. *)

File == {"run.json", "result.json", "verification.json", "bridge.json"}

RunType == [config : Config, started : Int, completed : BOOLEAN,
            verification_passed : BOOLEAN, verification : BOOLEAN, publishable : BOOLEAN,
            result : BOOLEAN, settings : BOOLEAN, keyboard : BOOLEAN, notes : Nat,
            nth : Nat, genuine : BOOLEAN, sound : BOOLEAN, edited : SUBSET File]

Types ==
    /\ faults \in 0..MaxFaults /\ now \in Nat
    /\ evidence # NoGame => Shaped(evidence)
    /\ trial # NoTrial => /\ trial.config \in Config /\ trial.started \in Nat
                          /\ trial.directory \in Directory \ DOMAIN runs
    /\ DOMAIN runs \subseteq Directory
    /\ \A d \in DOMAIN runs : runs[d] \in RunType

(* What run_trial writes agrees with itself. *)
Honest(r) ==
    /\ r.publishable => r.completed /\ r.verification
    /\ r.verification => r.genuine
    /\ r.completed /\ r.genuine => r.sound

(* What PublishedIsGenuine says of one row. *)
Earned(r) ==
    /\ r.genuine
    /\ "run.json" \notin r.edited => r.sound
    /\ "result.json" \notin r.edited => r.notes > 0

Edits ==
    /\ faults = 0 => \A d \in DOMAIN runs : Honest(runs[d])
    /\ faults <= 1 => \A d \in DOMAIN runs : Publishable(runs[d]) => Earned(runs[d])

Chosen ==
    /\ todo \in Seq(DOMAIN runs)
    /\ todo # <<>> => trial = NoTrial
    /\ \A c \in DOMAIN selected : selected[c] \in DOMAIN runs
    /\ faults <= 1 => \A c \in DOMAIN selected : Earned(runs[selected[c]])

RInv == Types /\ Edits /\ Chosen

LEMMA Limits == MaxAttempts \in Nat /\ MaxFaults \in Nat /\ Recordings \subseteq [Kind -> Seq(Nat)]
BY ReportAssumption

(* What is honest and can be published was earned. *)
LEMMA HonestIsEarned == ASSUME NEW r, Honest(r), Publishable(r) PROVE Earned(r)
BY DEF Honest, Publishable, Earned

(* run.json of an attempt is honest. *)
LEMMA RecordsHonestly ==
    ASSUME NEW e, e # NoGame => Shaped(e), NEW completed \in BOOLEAN, completed => e # NoGame,
           trial.config \in Config, trial.started \in Nat, IsFiniteSet(DOMAIN runs)
    PROVE  LET r == Run(e, completed) IN r \in RunType /\ Honest(r)
<1> DEFINE r == Run(e, completed)
           verified == e # NoGame /\ passed(e, FALSE)
           good == e # NoGame /\ e.completed /\ e.valid
           genuine == good /\ Genuine(e)
           sound == completed /\ good /\ Genuine(e)
<1>1. (verified => genuine) /\ (completed /\ genuine => sound)
  BY PassedGenuine
<1>2. Cardinality(DOMAIN runs) \in Nat
  BY FS_CardinalityType
<1>3. (IF e = NoGame THEN 0 ELSE e.scored) \in Nat
  BY DEF Shaped
<1>4. verified \in BOOLEAN /\ good \in BOOLEAN /\ genuine \in BOOLEAN /\ sound \in BOOLEAN
  OBVIOUS
<1>5. r = [config |-> trial.config, started |-> trial.started, completed |-> completed,
           verification_passed |-> verified, verification |-> verified,
           publishable |-> completed /\ verified /\ good,
           result |-> good, settings |-> TRUE, keyboard |-> TRUE,
           notes |-> IF e = NoGame THEN 0 ELSE e.scored,
           nth |-> Cardinality(DOMAIN runs) + 1, genuine |-> genuine, sound |-> sound,
           edited |-> {}]
  BY DEF Run
<1> HIDE DEF verified, good, genuine, sound, r
<1>6. {} \in SUBSET File
  OBVIOUS
<1>7. r \in RunType
  BY <1>2, <1>3, <1>4, <1>5, <1>6 DEF RunType
<1>8. Honest(r)
  BY <1>1, <1>5 DEF Honest
<1>9. QED
  BY <1>7, <1>8 DEF r

LEMMA FewRuns == ASSUME Types PROVE IsFiniteSet(DOMAIN runs) /\ Cardinality(DOMAIN runs) \in Nat
<1>1. IsFiniteSet(Directory) /\ DOMAIN runs \in SUBSET Directory
  BY FS_Interval, Limits DEF Directory, Types
<1>2. QED
  BY <1>1, FS_Subset, FS_CardinalityType

(* A sorting has every member at one place. *)
LEMMA Sorted ==
    ASSUME NEW S, IsFiniteSet(S), NEW n \in Nat, n = Cardinality(S), NEW s \in [1..n -> S],
           \A i, j \in 1..n : i < j => s[i] # s[j]
    PROVE  s \in Seq(S) /\ Len(s) = n /\ \A a \in S : \E i \in 1..n : s[i] = a
<1>1. s \in Seq(S) /\ Len(s) = n
  OBVIOUS
<1>2. \A i, j \in 1..n : s[i] = s[j] => i = j
  OBVIOUS
<1>3. s \in Injection(1..n, S)
  BY <1>2 DEF Injection, IsInjective
<1>4. Cardinality(1..n) = Cardinality(S)
  BY FS_Interval
<1>5. s \in Surjection(1..n, S)
  BY <1>3, <1>4, FS_Injection
<1>6. QED
  BY <1>1, <1>5 DEF Surjection

(* With is what it says. *)
LEMMA WithEntries ==
    ASSUME NEW f, NEW key, NEW value
    PROVE  /\ DOMAIN With(f, key, value) = DOMAIN f \cup {key}
           /\ With(f, key, value)[key] = value
           /\ \A k \in DOMAIN f : k # key => With(f, key, value)[k] = f[k]
BY DEF With

-----------------------------------------------------------------------------
(* The steps. *)

(* q is r with one file rewritten. *)
Touched(r, q, file) ==
    /\ q.edited = r.edited \cup {file}
    /\ q.genuine = r.genuine /\ q.sound = r.sound
    /\ q.notes = r.notes \/ file = "result.json"
    /\ \/ q.verification = r.verification /\ file = "run.json"
       \/ q.publishable = r.publishable

(* What a rewritten file leaves alone keeps what was earned; and one of     *)
(* them alone does not make an honest record publishable without it.        *)
LEMMA StillEarned ==
    ASSUME NEW r, NEW q, NEW file, Touched(r, q, file)
    PROVE  /\ Earned(r) => Earned(q)
           /\ Honest(r) /\ Publishable(q) => Earned(q)
<1>1. Earned(r) => Earned(q)
  BY DEF Earned, Touched
<1>2. ASSUME Honest(r), Publishable(q) PROVE Earned(q)
  BY <1>2 DEF Publishable, Honest, Earned, Touched
<1>3. QED
  BY <1>1, <1>2

(* The files one of whose values is rewritten. *)
LEMMA ResultJsonTouched ==
    ASSUME NEW r \in RunType, NEW good \in BOOLEAN, NEW n \in Nat, NEW e,
           e = [r EXCEPT !.result = good, !.notes = n],
           NEW q, q = [e EXCEPT !.edited = @ \cup {"result.json"}]
    PROVE  q \in RunType /\ Touched(r, q, "result.json")
BY DEF RunType, File, Touched

LEMMA VerificationJsonTouched ==
    ASSUME NEW r \in RunType, NEW v \in BOOLEAN, NEW e, e = [r EXCEPT !.verification = v],
           NEW q, q = [e EXCEPT !.edited = @ \cup {"verification.json"}]
    PROVE  q \in RunType /\ Touched(r, q, "verification.json")
BY DEF RunType, File, Touched

LEMMA BridgeJsonTouched ==
    ASSUME NEW r \in RunType, NEW k \in BOOLEAN, NEW e, e = [r EXCEPT !.keyboard = k],
           NEW q, q = [e EXCEPT !.edited = @ \cup {"bridge.json"}]
    PROVE  q \in RunType /\ Touched(r, q, "bridge.json")
BY DEF RunType, File, Touched

(* One record is edited. *)
LEMMA Edited ==
    ASSUME Types, EditRun
    PROVE  /\ DOMAIN runs' = DOMAIN runs
           /\ \A d \in DOMAIN runs :
                 /\ runs'[d] \in RunType
                 /\ Earned(runs[d]) => Earned(runs'[d])
                 /\ Honest(runs[d]) /\ Publishable(runs'[d]) => Earned(runs'[d])
<1>1. PICK d \in DOMAIN runs :
          \/ \E c \in Config, t \in {NoTime} \cup 0..now, done, v, p, s \in BOOLEAN :
                Rewrite(d, "run.json",
                        [runs[d] EXCEPT !.config = c, !.started = t, !.completed = done,
                                        !.verification_passed = v, !.publishable = p,
                                        !.settings = s])
          \/ \E good \in BOOLEAN, n \in Notes :
                Rewrite(d, "result.json", [runs[d] EXCEPT !.result = good, !.notes = n])
          \/ \E v \in BOOLEAN :
                Rewrite(d, "verification.json", [runs[d] EXCEPT !.verification = v])
          \/ \E k \in BOOLEAN :
                Rewrite(d, "bridge.json", [runs[d] EXCEPT !.keyboard = k])
  BY DEF EditRun
<1>2. runs[d] \in RunType /\ now \in Nat
  BY DEF Types
<1>x. PICK r : r = runs[d]
  OBVIOUS
<1>y. r \in RunType
  BY <1>2, <1>x
<1>3. ASSUME NEW file \in File, NEW e, Rewrite(d, file, e), NEW x,
             x = [e EXCEPT !.edited = @ \cup {file}], x \in RunType, Touched(r, x, file)
      PROVE  \E q \in RunType, f \in File : runs' = [runs EXCEPT ![d] = q] /\ Touched(r, q, f)
  BY <1>3 DEF Rewrite
<1>4. PICK q \in RunType, f \in File : runs' = [runs EXCEPT ![d] = q] /\ Touched(r, q, f)
  <2>1. CASE \E c \in Config, t \in {NoTime} \cup 0..now, done, v, p, s \in BOOLEAN :
                Rewrite(d, "run.json",
                        [r EXCEPT !.config = c, !.started = t, !.completed = done,
                                  !.verification_passed = v, !.publishable = p, !.settings = s])
    <3>1. PICK c \in Config, t \in {NoTime} \cup 0..now, done \in BOOLEAN, v \in BOOLEAN,
               p \in BOOLEAN, s \in BOOLEAN :
             Rewrite(d, "run.json",
                     [r EXCEPT !.config = c, !.started = t, !.completed = done,
                               !.verification_passed = v, !.publishable = p, !.settings = s])
      BY <2>1
    <3>2. PICK e : e = [r EXCEPT !.config = c, !.started = t, !.completed = done,
                                 !.verification_passed = v, !.publishable = p, !.settings = s]
      OBVIOUS
    <3>3. t \in Int
      BY <1>2 DEF NoTime
    <3>4. Rewrite(d, "run.json", e)
      BY <3>1, <3>2
    <3>5. PICK x : x = [e EXCEPT !.edited = @ \cup {"run.json"}]
      OBVIOUS
    <3>6. x \in RunType /\ Touched(r, x, "run.json")
      <4> DEFINE w == [config |-> c, started |-> t, completed |-> done,
                       verification_passed |-> v, verification |-> r.verification,
                       publishable |-> p, result |-> r.result, settings |-> s,
                       keyboard |-> r.keyboard, notes |-> r.notes, nth |-> r.nth,
                       genuine |-> r.genuine, sound |-> r.sound,
                       edited |-> r.edited \cup {"run.json"}]
      <4>1. e = [config |-> c, started |-> t, completed |-> done,
                 verification_passed |-> v, verification |-> r.verification,
                 publishable |-> p, result |-> r.result, settings |-> s,
                 keyboard |-> r.keyboard, notes |-> r.notes, nth |-> r.nth,
                 genuine |-> r.genuine, sound |-> r.sound, edited |-> r.edited]
        BY <1>y, <3>2 DEF RunType
      <4>2. x = w
        BY ONLY <4>1, <3>5
      <4>3. w \in RunType
        BY <1>y, <3>3 DEF RunType, File
      <4>4. Touched(r, w, "run.json")
        BY DEF Touched
      <4>5. QED
        BY <4>2, <4>3, <4>4
    <3>7. QED
      BY <1>3, <3>4, <3>5, <3>6 DEF File
  <2>2. CASE \E good \in BOOLEAN, n \in Notes :
                Rewrite(d, "result.json", [r EXCEPT !.result = good, !.notes = n])
    <3>1. PICK good \in BOOLEAN, n \in Notes :
             Rewrite(d, "result.json", [r EXCEPT !.result = good, !.notes = n])
      BY <2>2
    <3>2. PICK e : e = [r EXCEPT !.result = good, !.notes = n]
      OBVIOUS
    <3>3. n \in Nat
      BY DEF Notes
    <3>4. Rewrite(d, "result.json", e)
      BY <3>1, <3>2
    <3>5. PICK x : x = [e EXCEPT !.edited = @ \cup {"result.json"}]
      OBVIOUS
    <3>6. x \in RunType /\ Touched(r, x, "result.json")
      BY <1>y, <3>2, <3>5, <3>3, ResultJsonTouched
    <3>7. QED
      BY <1>3, <3>4, <3>5, <3>6 DEF File
  <2>3. CASE \E v \in BOOLEAN : Rewrite(d, "verification.json", [r EXCEPT !.verification = v])
    <3>1. PICK v \in BOOLEAN : Rewrite(d, "verification.json", [r EXCEPT !.verification = v])
      BY <2>3
    <3>2. PICK e : e = [r EXCEPT !.verification = v]
      OBVIOUS
    <3>3. Rewrite(d, "verification.json", e)
      BY <3>1, <3>2
    <3>4. PICK x : x = [e EXCEPT !.edited = @ \cup {"verification.json"}]
      OBVIOUS
    <3>5. x \in RunType /\ Touched(r, x, "verification.json")
      BY <1>y, <3>2, <3>4, VerificationJsonTouched
    <3>6. QED
      BY <1>3, <3>3, <3>4, <3>5 DEF File
  <2>4. CASE \E k \in BOOLEAN : Rewrite(d, "bridge.json", [r EXCEPT !.keyboard = k])
    <3>1. PICK k \in BOOLEAN : Rewrite(d, "bridge.json", [r EXCEPT !.keyboard = k])
      BY <2>4
    <3>2. PICK e : e = [r EXCEPT !.keyboard = k]
      OBVIOUS
    <3>3. Rewrite(d, "bridge.json", e)
      BY <3>1, <3>2
    <3>4. PICK x : x = [e EXCEPT !.edited = @ \cup {"bridge.json"}]
      OBVIOUS
    <3>5. x \in RunType /\ Touched(r, x, "bridge.json")
      BY <1>y, <3>2, <3>4, BridgeJsonTouched
    <3>6. QED
      BY <1>3, <3>3, <3>4, <3>5 DEF File
  <2> DEFINE Ways(x) ==
         \/ \E c \in Config, t \in {NoTime} \cup 0..now, done, v, p, s \in BOOLEAN :
                Rewrite(d, "run.json",
                        [x EXCEPT !.config = c, !.started = t, !.completed = done,
                                  !.verification_passed = v, !.publishable = p, !.settings = s])
         \/ \E good \in BOOLEAN, n \in Notes :
                Rewrite(d, "result.json", [x EXCEPT !.result = good, !.notes = n])
         \/ \E v \in BOOLEAN : Rewrite(d, "verification.json", [x EXCEPT !.verification = v])
         \/ \E k \in BOOLEAN : Rewrite(d, "bridge.json", [x EXCEPT !.keyboard = k])
  <2>5. Ways(runs[d])
    BY <1>1
  <2>6. Ways(r)
    <3> HIDE DEF Ways
    <3>1. QED
      BY <2>5, <1>x
  <2>7. QED
    BY <2>1, <2>2, <2>3, <2>4, <2>6
<1>5. /\ Earned(r) => Earned(q)
      /\ Honest(r) /\ Publishable(q) => Earned(q)
  BY <1>4, StillEarned
<1>6. DOMAIN runs' = DOMAIN runs /\ runs'[d] = q
      /\ \A x \in DOMAIN runs : x # d => runs'[x] = runs[x]
  BY <1>4
<1>7. \A x \in DOMAIN runs : Honest(runs[x]) /\ Publishable(runs[x]) => Earned(runs[x])
  BY HonestIsEarned
<1>8. \A x \in DOMAIN runs : runs[x] \in RunType
  BY DEF Types
<1>9. QED
  BY <1>x, <1>5, <1>6, <1>7, <1>8

(* One record is added. *)
LEMMA Recorded ==
    ASSUME Types, Record
    PROVE  /\ trial # NoTrial /\ trial' = NoTrial /\
                DOMAIN runs' = DOMAIN runs \cup {trial.directory}
           /\ trial.directory \notin DOMAIN runs
           /\ \A d \in DOMAIN runs : runs'[d] = runs[d]
           /\ \E completed \in BOOLEAN : /\ completed => evidence # NoGame
                                        /\ runs'[trial.directory] = Run(evidence, completed)
           /\ runs'[trial.directory] \in RunType /\ Honest(runs'[trial.directory])
<1>1. PICK completed \in BOOLEAN :
         /\ completed => evidence # NoGame
         /\ runs' = With(runs, trial.directory, Run(evidence, completed))
  BY DEF Record
<1>2. trial # NoTrial /\ trial' = NoTrial
  BY DEF Record
<1>3. /\ trial.config \in Config /\ trial.started \in Nat
      /\ trial.directory \notin DOMAIN runs
  BY <1>2 DEF Types
<1>4. /\ DOMAIN runs' = DOMAIN runs \cup {trial.directory}
      /\ runs'[trial.directory] = Run(evidence, completed)
      /\ \A d \in DOMAIN runs : runs'[d] = runs[d]
  <2> DEFINE value == Run(evidence, completed)
  <2>1. runs' = With(runs, trial.directory, value)
    BY <1>1
  <2> HIDE DEF value
  <2>2. /\ DOMAIN runs' = DOMAIN runs \cup {trial.directory}
        /\ runs'[trial.directory] = value
        /\ \A d \in DOMAIN runs : d # trial.directory => runs'[d] = runs[d]
    BY <2>1 DEF With
  <2>3. QED
    BY <2>2, <1>3 DEF value
<1>5. LET r == Run(evidence, completed) IN r \in RunType /\ Honest(r)
  BY <1>1, <1>3, FewRuns, RecordsHonestly DEF Types
<1>6. QED
  BY <1>1, <1>2, <1>3, <1>4, <1>5

(* Initially nothing is recorded. *)
LEMMA RInvInit == Init => RInv
<1> SUFFICES ASSUME Init PROVE RInv
  OBVIOUS
<1>1. DOMAIN runs = {} /\ todo = <<>> /\ DOMAIN selected = {}
  BY DEF Init
<1>2. Types
  BY <1>1, Limits DEF Init, Types
<1>3. Edits /\ Chosen
  BY <1>1 DEF Edits, Chosen
<1>4. QED
  BY <1>2, <1>3 DEF RInv

LEMMA RInvStart == ASSUME RInv, Start PROVE RInv'
<1>1. PICK d \in Directory \ DOMAIN runs, c \in Config :
        trial' = [directory |-> d, config |-> c, started |-> now]
  BY DEF Start
<1>2. UNCHANGED <<now, evidence, runs, faults, todo, selected>> /\ todo = <<>>
  BY DEF Start, Idle
<1>3. Types'
  BY <1>1, <1>2 DEF RInv, Types
<1>4. Edits' /\ Chosen'
  BY <1>2 DEF RInv, Edits, Chosen
<1>5. QED
  BY <1>3, <1>4 DEF RInv

LEMMA RInvSave == ASSUME RInv, Save PROVE RInv'
<1>1. PICK completed \in BOOLEAN, valid \in BOOLEAN, emitted \in Notes, samples \in Recordings :
        evidence' = Saved(completed, valid, emitted, 1, samples)
  BY DEF Save
<1>2. now' = now + 1 /\ UNCHANGED <<trial, runs, faults, todo, selected>>
  BY DEF Save
<1>3. Shaped(evidence')
  BY <1>1, SavedShaped, Limits DEF Notes
<1>4. Types'
  BY <1>2, <1>3 DEF RInv, Types
<1>5. Edits' /\ Chosen'
  BY <1>2 DEF RInv, Edits, Chosen
<1>6. QED
  BY <1>4, <1>5 DEF RInv

LEMMA RInvDamageEvidence == ASSUME RInv, DamageEvidence PROVE RInv'
<1>1. /\ evidence # NoGame /\ faults < MaxFaults /\ faults' = faults + 1
      /\ evidence' \in Damaged(evidence)
      /\ UNCHANGED <<now, trial, runs, todo, selected>>
  BY DEF DamageEvidence
<1>2. Shaped(evidence')
  BY <1>1, DamagedShaped DEF RInv, Types
<1>3. faults \in Nat /\ faults' \in 0..MaxFaults
  BY <1>1, Limits DEF RInv, Types
<1>4. Types'
  BY <1>1, <1>2, <1>3 DEF RInv, Types
<1>5. Edits' /\ Chosen'
  BY <1>1, <1>3 DEF RInv, Edits, Chosen
<1>6. QED
  BY <1>4, <1>5 DEF RInv

LEMMA RInvRecord == ASSUME RInv, Record PROVE RInv'
<1> DEFINE D == trial.directory
<1>1. /\ trial # NoTrial /\ trial' = NoTrial /\ DOMAIN runs' = DOMAIN runs \cup {D}
      /\ D \notin DOMAIN runs
      /\ \A d \in DOMAIN runs : runs'[d] = runs[d]
      /\ runs'[D] \in RunType /\ Honest(runs'[D]) /\ (Publishable(runs'[D]) => Earned(runs'[D]))
  BY Recorded, HonestIsEarned DEF RInv
<1>2. now' \in {now, now + 1} /\ evidence' = NoGame /\ UNCHANGED <<faults, todo, selected>>
  BY DEF Record
<1>3. Types'
  BY <1>1, <1>2 DEF RInv, Types
<1>4. \A d \in DOMAIN runs' : d = D \/ (d \in DOMAIN runs /\ runs'[d] = runs[d])
  BY <1>1
<1>5. Edits'
  BY <1>1, <1>2, <1>4 DEF RInv, Edits
<1>6. Chosen'
  <2>1. todo = <<>>
    BY <1>1 DEF RInv, Chosen
  <2>2. todo' \in Seq(DOMAIN runs')
    BY <2>1, <1>2
  <2>3. QED
    BY <2>1, <2>2, <1>1, <1>2 DEF RInv, Chosen
<1>7. QED
  BY <1>3, <1>5, <1>6 DEF RInv

(* A second fault is needed to make a record that was not earned look earned. *)
LEMMA RInvEditRun == ASSUME RInv, EditRun PROVE RInv'
<1>1. /\ faults < MaxFaults /\ faults' = faults + 1 /\ trial = NoTrial
      /\ UNCHANGED <<now, evidence, trial, todo, selected>>
  BY DEF EditRun, Idle
<1>2. faults \in Nat /\ faults' \in 0..MaxFaults /\ faults' # 0 /\ (faults' <= 1 => faults = 0)
  BY <1>1, Limits DEF RInv, Types
<1>3. /\ DOMAIN runs' = DOMAIN runs
      /\ \A d \in DOMAIN runs :
            /\ runs'[d] \in RunType
            /\ Earned(runs[d]) => Earned(runs'[d])
            /\ Honest(runs[d]) /\ Publishable(runs'[d]) => Earned(runs'[d])
  BY Edited DEF RInv
<1>4. Types'
  BY <1>1, <1>2, <1>3 DEF RInv, Types
<1>5. Edits'
  BY <1>2, <1>3 DEF RInv, Edits
<1>6. Chosen'
  BY <1>1, <1>2, <1>3 DEF RInv, Chosen
<1>7. QED
  BY <1>4, <1>5, <1>6 DEF RInv

LEMMA RInvGenerateReport == ASSUME RInv, GenerateReport PROVE RInv'
<1>1. /\ trial = NoTrial /\ selected' = <<>>
      /\ UNCHANGED <<now, evidence, trial, runs, faults>>
      /\ todo' \in Sortings(DOMAIN runs, StartedBefore)
  BY DEF GenerateReport, Idle
<1>2. IsFiniteSet(DOMAIN runs) /\ Cardinality(DOMAIN runs) \in Nat
  BY FewRuns DEF RInv
<1>3. todo' \in Seq(DOMAIN runs)
  <2>1. todo' \in [1..Cardinality(DOMAIN runs) -> DOMAIN runs]
    BY <1>1 DEF Sortings
  <2>2. QED
    BY <2>1, <1>2
<1>4. Types' /\ Edits'
  BY <1>1 DEF RInv, Types, Edits
<1>5. Chosen'
  <2>1. DOMAIN selected' = {}
    BY <1>1
  <2>2. QED
    BY <2>1, <1>1, <1>3 DEF Chosen
<1>6. QED
  BY <1>4, <1>5 DEF RInv

LEMMA RInvSelectRuns == ASSUME RInv, SelectRuns PROVE RInv'
<1> DEFINE d == Head(todo)
           c == runs[d].config
<1>1. /\ todo # <<>> /\ todo' = Tail(todo)
      /\ UNCHANGED <<now, evidence, trial, runs, faults>>
      /\ \/ selected' = selected
         \/ Eligible(runs[d]) /\ selected' = With(selected, c, d)
  BY DEF SelectRuns
<1>2. d \in DOMAIN runs /\ todo' \in Seq(DOMAIN runs)
  BY <1>1 DEF RInv, Chosen
<1>3. Types' /\ Edits'
  BY <1>1 DEF RInv, Types, Edits
<1>4. ASSUME Eligible(runs[d])
      PROVE  faults <= 1 => Earned(runs[d])
  BY <1>2, <1>4 DEF RInv, Edits, Eligible
<1> HIDE DEF c
<1>5. ASSUME Eligible(runs[d]), selected' = With(selected, c, d), NEW k \in DOMAIN selected'
      PROVE  selected'[k] = d \/ (k \in DOMAIN selected /\ selected'[k] = selected[k])
  BY <1>5 DEF With
<1> HIDE DEF d
<1>6. Chosen'
  <2>1. CASE selected' = selected
    BY <2>1, <1>1, <1>2 DEF RInv, Chosen
  <2>2. CASE Eligible(runs[d]) /\ selected' = With(selected, c, d)
    BY <2>2, <1>1, <1>2, <1>4, <1>5 DEF RInv, Chosen
  <2>3. QED
    BY <1>1, <2>1, <2>2
<1>7. QED
  BY <1>3, <1>6 DEF RInv

LEMMA RInvNext == ASSUME RInv, [Next]_vars PROVE RInv'
<1>1. CASE UNCHANGED vars
  BY <1>1 DEF vars, RInv, Types, Edits, Chosen
<1>2. QED
  BY <1>1, RInvStart, RInvSave, RInvDamageEvidence, RInvRecord, RInvEditRun,
     RInvGenerateReport, RInvSelectRuns DEF Next

(* The records and the selection stay what RInv says, in every behaviour.   *)
THEOREM RecordsInvariant == Spec => []RInv
BY RInvInit, RInvNext, PTL DEF Spec

(* PublishedIsGenuine: until a second fault every selected row is of a run  *)
(* whose evidence, as it was verified, a completed and valid game might     *)
(* have saved; unless its run.json was rewritten the attempt was completed  *)
(* too, and unless its result.json was rewritten it scored notes.           *)
THEOREM PublishedCorrect == Spec => [](faults <= 1 => PublishedIsGenuine)
<1>1. RInv => (faults <= 1 => PublishedIsGenuine)
  BY DEF RInv, Chosen, PublishedIsGenuine, Earned
<1>2. QED
  BY <1>1, RecordsInvariant, PTL

(* GenuinePasses: the verifier's verdict is exact.  It passes a directory   *)
(* just if a completed and valid game might have saved it, for any number   *)
(* of samples and any durations, and whatever was edited before.            *)
THEOREM VerdictExact == Spec => []GenuinePasses
<1>1. RInv => GenuinePasses
  <2> SUFFICES ASSUME RInv, evidence # NoGame PROVE GenuinePasses
    BY DEF GenuinePasses
  <2>1. Shaped(evidence)
    BY DEF RInv, Types
  <2>2. passed(evidence, TRUE) => passed(evidence, FALSE)
    BY DEF passed
  <2>3. QED
    BY <2>1, <2>2, PassedGenuine, GenuineAccepted DEF GenuinePasses
<1>2. QED
  BY <1>1, RecordsInvariant, PTL

-----------------------------------------------------------------------------
(* The row of a configuration is its first sound attempt. *)

SoundRow(r) == r.sound /\ r.notes > 0

First(d) ==
    \A e \in DOMAIN runs : runs[e].config = runs[d].config /\ SoundRow(runs[e]) =>
                              runs[d].nth <= runs[e].nth

(* A saved game has taken time. *)
Times ==
    /\ trial # NoTrial => trial.started <= now
    /\ evidence # NoGame => trial # NoTrial /\ trial.started < now

(* The times of sound attempts are in the order they were made in. *)
Ordered ==
    \A d \in DOMAIN runs :
       /\ runs[d].nth <= Cardinality(DOMAIN runs)
       /\ runs[d].started \in Nat
       /\ runs[d].sound => /\ runs[d].started < now
                           /\ trial # NoTrial => runs[d].started < trial.started
       /\ SoundRow(runs[d]) => Eligible(runs[d])
       /\ \A e \in DOMAIN runs :
             runs[d].sound /\ runs[e].sound /\ runs[d].nth < runs[e].nth =>
                runs[d].started < runs[e].started

(* What select_runs has left behind is accounted for in what it selected. *)
Scanning ==
    todo # <<>> =>
       /\ \A i, j \in 1..Len(todo) : i < j => ~StartedBefore(todo[j], todo[i])
       /\ \A d \in DOMAIN runs :
             SoundRow(runs[d]) => \/ \E i \in 1..Len(todo) : todo[i] = d
                                  \/ runs[d].config \in DOMAIN selected
       /\ \A c \in DOMAIN selected : runs[selected[c]].config = c /\ First(selected[c])

Shown(c) == \E d \in Range(published.rows) : runs[d].config = c

Tabled ==
    /\ \A d \in Range(published.rows) : d \in DOMAIN runs /\ First(d)
    /\ \A d \in published.read :
          d \in DOMAIN runs /\ (SoundRow(runs[d]) => Shown(runs[d].config))
    /\ published.read # {} => \A c \in Requested : c \in published.missing <=> ~Shown(c)

OInv == Times /\ (faults = 0 => Ordered /\ Scanning /\ Tabled)

LEMMA OInvInit == Init => OInv
<1> SUFFICES ASSUME Init PROVE OInv
  OBVIOUS
<1>1. /\ DOMAIN runs = {} /\ todo = <<>> /\ trial = NoTrial /\ evidence = NoGame
      /\ published.rows = <<>> /\ published.read = {}
  BY DEF Init
<1>2. Times /\ Ordered /\ Scanning
  BY <1>1 DEF Times, Ordered, Scanning
<1>3. Range(published.rows) = {}
  BY <1>1 DEF Range
<1>4. Tabled
  BY <1>1, <1>3 DEF Tabled
<1>5. QED
  BY <1>2, <1>4 DEF OInv

LEMMA OInvStart == ASSUME RInv, OInv, Start PROVE OInv'
<1>1. PICK d \in Directory \ DOMAIN runs, c \in Config :
        trial' = [directory |-> d, config |-> c, started |-> now]
  BY DEF Start
<1>2. /\ UNCHANGED <<now, evidence, runs, faults, todo, selected, published>>
      /\ trial = NoTrial
  BY DEF Start, Idle
<1>3. now \in Nat /\ trial'.started = now /\ evidence = NoGame
  BY <1>1, <1>2 DEF RInv, Types, OInv, Times
<1>4. Times'
  BY <1>2, <1>3 DEF Times
<1>5. ASSUME Ordered PROVE Ordered'
  BY <1>2, <1>3, <1>5 DEF Ordered, SoundRow, Eligible, Publishable
<1>6. ASSUME Scanning /\ Tabled PROVE Scanning' /\ Tabled'
  BY <1>2, <1>6 DEF Scanning, Tabled, Shown, First, SoundRow, StartedBefore
<1>7. QED
  BY <1>2, <1>4, <1>5, <1>6 DEF OInv

LEMMA OInvSave == ASSUME RInv, OInv, Save PROVE OInv'
<1>1. /\ trial # NoTrial /\ now' = now + 1
      /\ UNCHANGED <<trial, runs, faults, todo, selected, published>>
  BY DEF Save
<1>2. now \in Nat /\ trial.started \in Nat /\ trial.started <= now
  BY <1>1 DEF RInv, Types, OInv, Times
<1>3. Times'
  BY <1>1, <1>2 DEF Times
<1>4. ASSUME Ordered PROVE Ordered'
  BY <1>1, <1>2, <1>4 DEF Ordered, SoundRow, Eligible, Publishable
<1>5. ASSUME Scanning /\ Tabled PROVE Scanning' /\ Tabled'
  BY <1>1, <1>5 DEF Scanning, Tabled, Shown, First, SoundRow, StartedBefore
<1>6. QED
  BY <1>1, <1>3, <1>4, <1>5 DEF OInv

(* A sound attempt that scored notes can be selected: its game was genuine  *)
(* when it was verified, so it passed.                                      *)
LEMMA SoundIsEligible ==
    ASSUME NEW completed \in BOOLEAN, GenuinePasses, trial.started \in Nat,
           SoundRow(Run(evidence, completed))
    PROVE  Eligible(Run(evidence, completed)) /\ evidence # NoGame
<1> DEFINE e == evidence
           r == Run(e, completed)
           verified == e # NoGame /\ passed(e, FALSE)
           result == e # NoGame /\ e.completed /\ e.valid
           notes == IF e = NoGame THEN 0 ELSE e.scored
<1>1. completed /\ e # NoGame /\ Genuine(e) /\ e.completed /\ e.valid /\ notes > 0
  BY DEF SoundRow, Run
<1>2. verified /\ result
  BY <1>1 DEF GenuinePasses
<1>3. r.started = trial.started /\ r.settings /\ r.keyboard /\ r.notes = notes
  BY DEF Run
<1>4. r.completed /\ r.publishable
  BY <1>1, <1>2 DEF Run
<1>5. r.verification_passed /\ r.verification
  BY <1>2 DEF Run
<1>6. r.result
  BY <1>2 DEF Run
<1> HIDE DEF r, notes
<1>7. Publishable(r)
  BY <1>1, <1>3, <1>4, <1>5, <1>6 DEF Publishable
<1>8. r.started # NoTime
  BY <1>3 DEF NoTime
<1>9. QED
  BY <1>1, <1>7, <1>8 DEF Eligible, r

LEMMA OInvRecord == ASSUME RInv, OInv, GenuinePasses, Record PROVE OInv'
<1> DEFINE D == trial.directory
           n == Cardinality(DOMAIN runs)
<1>1. /\ trial # NoTrial /\ trial' = NoTrial /\ DOMAIN runs' = DOMAIN runs \cup {D}
      /\ D \notin DOMAIN runs
      /\ \A d \in DOMAIN runs : runs'[d] = runs[d]
  BY Recorded DEF RInv
<1>2. PICK completed \in BOOLEAN : /\ completed => evidence # NoGame
                                  /\ runs'[D] = Run(evidence, completed)
  BY Recorded DEF RInv
<1>3. /\ now' \in {now, now + 1} /\ evidence' = NoGame
      /\ UNCHANGED <<faults, todo, selected, published>>
  BY DEF Record
<1>4. now \in Nat /\ trial.started \in Nat /\ todo = <<>> /\
        (evidence # NoGame => trial.started < now)
  BY <1>1 DEF RInv, Types, Chosen, OInv, Times
<1>5. n \in Nat /\ Cardinality(DOMAIN runs') = n + 1
  BY <1>1, FewRuns, FS_AddElement DEF RInv
<1>6. /\ runs'[D].nth = n + 1 /\ runs'[D].started = trial.started
      /\ runs'[D].sound => evidence # NoGame
  BY <1>2 DEF Run
<1>7. SoundRow(runs'[D]) => Eligible(runs'[D])
  BY <1>2, <1>4, SoundIsEligible
<1>8. Times' /\ Scanning'
  BY <1>1, <1>3, <1>4 DEF Times, Scanning
<1>9. \A d \in DOMAIN runs : runs[d].nth \in Nat
  BY DEF RInv, Types, RunType
<1>10. \A d \in DOMAIN runs' : d = D \/ (d \in DOMAIN runs /\ runs'[d] = runs[d])
  BY <1>1
<1> HIDE DEF n, D
<1>11. ASSUME Ordered PROVE Ordered'
  <2>1. \A d \in DOMAIN runs : runs[d].nth <= n /\ runs[d].started \in Nat
    BY <1>11 DEF Ordered, n
  <2>5. \A d \in DOMAIN runs : runs[d].sound => /\ runs[d].started < now
                                               /\ runs[d].started < trial.started
    BY <1>1, <1>11 DEF Ordered
  <2>6. \A d \in DOMAIN runs : SoundRow(runs[d]) => Eligible(runs[d])
    BY <1>11 DEF Ordered
  <2>2. ASSUME NEW d \in DOMAIN runs'
        PROVE  /\ runs'[d].nth <= n + 1 /\ runs'[d].started \in Nat
               /\ runs'[d].sound => runs'[d].started < now'
               /\ SoundRow(runs'[d]) => Eligible(runs'[d])
    <3>1. CASE d = D
      BY <3>1, <1>3, <1>4, <1>5, <1>6, <1>7
    <3>2. CASE d \in DOMAIN runs /\ runs'[d] = runs[d]
      <4>1. n \in Nat /\ runs[d].nth \in Nat /\ runs[d].nth <= n
        BY <3>2, <2>1, <1>5, <1>9
      <4>2. runs[d].nth <= n + 1
        BY <4>1
      <4>3. runs[d].sound => runs[d].started < now'
        BY <3>2, <2>1, <2>5, <1>3, <1>4
      <4>4. QED
        BY <3>2, <4>2, <4>3, <2>1, <2>6
    <3>3. QED
      BY <1>10, <3>1, <3>2
  <2>3. ASSUME NEW d \in DOMAIN runs', NEW e \in DOMAIN runs', runs'[d].sound, runs'[e].sound,
               runs'[d].nth < runs'[e].nth
        PROVE  runs'[d].started < runs'[e].started
    <3>1. CASE d \in DOMAIN runs /\ runs'[d] = runs[d] /\ e \in DOMAIN runs /\ runs'[e] = runs[e]
      BY <3>1, <2>3, <1>11 DEF Ordered
    <3>2. CASE d \in DOMAIN runs /\ runs'[d] = runs[d] /\ e = D
      BY <3>2, <2>5, <2>3, <1>6
    <3>3. d # D
      <4> SUFFICES ASSUME d = D PROVE FALSE
        OBVIOUS
      <4>1. e # D
        BY <2>3, <1>5, <1>6
      <4>2. e \in DOMAIN runs /\ runs'[e] = runs[e]
        BY <4>1, <1>10
      <4>3. runs[e].nth \in Nat /\ runs[e].nth <= n /\ n + 1 < runs[e].nth
        BY <4>2, <2>1, <1>6, <2>3, <1>9
      <4>4. QED
        BY <4>3, <1>5
    <3>4. QED
      BY <1>10, <3>1, <3>2, <3>3
  <2>4. trial' = NoTrial /\ Cardinality(DOMAIN runs') = n + 1
    BY <1>1, <1>5
  <2>7. QED
    BY <2>2, <2>3, <2>4 DEF Ordered
<1>12. ASSUME Ordered /\ Tabled PROVE Tabled'
  <2>1. ASSUME NEW d \in DOMAIN runs, First(d) PROVE First(d)'
    <3> SUFFICES ASSUME NEW e \in DOMAIN runs', runs'[e].config = runs'[d].config,
                        SoundRow(runs'[e])
                 PROVE  runs'[d].nth <= runs'[e].nth
      BY DEF First
    <3>1. CASE e = D
      <4>1. n \in Nat /\ runs[d].nth \in Nat /\ runs[d].nth <= n /\ runs'[d] = runs[d]
        BY <1>1, <1>5, <1>9, <1>12 DEF Ordered, n
      <4>2. QED
        BY <3>1, <4>1, <1>6
    <3>2. CASE e \in DOMAIN runs /\ runs'[e] = runs[e]
      BY <3>2, <1>1, <2>1 DEF First
    <3>3. QED
      BY <1>10, <3>1, <3>2
  <2>2. published' = published
    BY <1>3
  <2>3. \A d \in Range(published.rows) : d \in DOMAIN runs /\ First(d)
    BY <1>12 DEF Tabled
  <2>4. \A d \in Range(published.rows) : d \in DOMAIN runs' /\ First(d)' /\ runs'[d] = runs[d]
    BY <1>1, <2>1, <2>3
  <2>5. \A c : Shown(c)' <=> Shown(c)
    BY <2>2, <2>3, <2>4 DEF Shown
  <2>6. \A d \in published.read : d \in DOMAIN runs' /\ runs'[d] = runs[d]
    BY <1>1, <1>12 DEF Tabled
  <2>7. QED
    BY <2>2, <2>4, <2>5, <2>6, <1>12 DEF Tabled, SoundRow
<1>13. QED
  BY <1>3, <1>8, <1>11, <1>12 DEF OInv

LEMMA OInvGenerateReport == ASSUME RInv, OInv, GenerateReport PROVE OInv'
<1> DEFINE n == Cardinality(DOMAIN runs)
<1>1. /\ trial = NoTrial /\ selected' = <<>> /\ DOMAIN selected' = {}
      /\ UNCHANGED <<now, evidence, trial, runs, faults, published>>
      /\ todo' \in Sortings(DOMAIN runs, StartedBefore)
  BY DEF GenerateReport, Idle
<1>2. /\ todo' \in [1..n -> DOMAIN runs]
      /\ \A i, j \in DOMAIN todo' : i < j =>
            todo'[i] # todo'[j] /\ ~StartedBefore(todo'[j], todo'[i])
  BY <1>1 DEF Sortings
<1>3. IsFiniteSet(DOMAIN runs) /\ n \in Nat
  BY FewRuns DEF RInv
<1>4. DOMAIN todo' = 1..n /\ \A i, j \in 1..n : i < j =>
            todo'[i] # todo'[j] /\ ~StartedBefore(todo'[j], todo'[i])
  BY <1>2
<1>5. Len(todo') = n /\ \A d \in DOMAIN runs : \E i \in 1..n : todo'[i] = d
  <2> DEFINE s == todo'
             S == DOMAIN runs
  <2>1. /\ IsFiniteSet(S) /\ n \in Nat /\ n = Cardinality(S) /\ s \in [1..n -> S]
        /\ \A i, j \in 1..n : i < j => s[i] # s[j]
    BY <1>2, <1>3, <1>4
  <2> HIDE DEF s, S, n
  <2>2. Len(s) = n /\ \A d \in S : \E i \in 1..n : s[i] = d
    BY <2>1, Sorted
  <2>3. QED
    BY <2>2 DEF s, S
<1>6. Scanning'
  BY <1>1, <1>4, <1>5 DEF Scanning, StartedBefore
<1>7. Times'
  BY <1>1 DEF OInv, Times
<1>8. ASSUME Ordered /\ Tabled PROVE Ordered' /\ Tabled'
  BY <1>1, <1>8 DEF Ordered, Tabled, Shown, First, SoundRow, Eligible, Publishable
<1>9. QED
  BY <1>1, <1>6, <1>7, <1>8 DEF OInv

(* The row select_runs takes for a configuration is its first sound one:    *)
(* an earlier one would have been looked at before.                         *)
LEMMA TakesTheFirst ==
    ASSUME RInv, faults = 0, Ordered, Scanning, todo # <<>>,
           Eligible(runs[Head(todo)]), runs[Head(todo)].config \notin DOMAIN selected
    PROVE  First(Head(todo))
<1> DEFINE d == Head(todo)
<1>1. Len(todo) \in Nat /\ Len(todo) > 0 /\ d = todo[1] /\ d \in DOMAIN runs
  BY DEF RInv, Chosen
<1>2. runs[d].sound /\ runs[d].started \in Nat
  BY <1>1 DEF RInv, Edits, Eligible, Publishable, Honest, Ordered
<1> SUFFICES ASSUME NEW e \in DOMAIN runs, runs[e].config = runs[d].config, SoundRow(runs[e])
             PROVE  runs[d].nth <= runs[e].nth
  BY DEF First
<1>3. PICK i \in 1..Len(todo) : todo[i] = e
  BY DEF Scanning
<1>4. runs[d].nth \in Nat /\ runs[e].nth \in Nat
  BY <1>1 DEF RInv, Types, RunType
<1>5. CASE i = 1
  BY <1>1, <1>3, <1>4, <1>5
<1>6. CASE i # 1
  <2>1. ~StartedBefore(e, d)
    BY <1>1, <1>3, <1>6 DEF Scanning
  <2>2. runs[e].started \in Nat /\ runs[e].sound
    BY DEF Ordered, SoundRow
  <2>3. ~(runs[e].started < runs[d].started)
    BY <2>1, <2>2, <1>2 DEF StartedBefore, NoTime
  <2>4. ~(runs[e].nth < runs[d].nth)
    BY <2>2, <2>3, <1>1, <1>2 DEF Ordered
  <2>5. QED
    BY <2>4, <1>4
<1>7. QED
  BY <1>5, <1>6

LEMMA OInvSelectRuns == ASSUME RInv, OInv, SelectRuns PROVE OInv'
<1> DEFINE d == Head(todo)
           c == runs[d].config
<1>1. /\ todo # <<>> /\ todo' = Tail(todo)
      /\ UNCHANGED <<now, evidence, trial, runs, faults>>
      /\ \/ selected' = selected /\ ~(Eligible(runs[d]) /\ c \notin DOMAIN selected)
         \/ Eligible(runs[d]) /\ c \notin DOMAIN selected /\ selected' = With(selected, c, d)
      /\ IF todo' # <<>> THEN UNCHANGED published
         ELSE \E rows \in Sortings(Range(selected'), DisplayedBefore) :
                 published' = [read |-> DOMAIN runs, rows |-> rows,
                              missing |-> Requested \ DOMAIN selected']
  BY DEF SelectRuns
<1>2. Times'
  BY <1>1 DEF OInv, Times
<1> SUFFICES ASSUME faults = 0, Ordered, Scanning, Tabled PROVE Ordered' /\ Scanning' /\ Tabled'
  BY <1>1, <1>2 DEF OInv
<1>3. Ordered'
  BY <1>1 DEF Ordered, SoundRow, Eligible, Publishable
<1>4. /\ Len(todo) \in Nat /\ Len(todo) > 0 /\ d = todo[1] /\ d \in DOMAIN runs
      /\ Len(Tail(todo)) = Len(todo) - 1
      /\ \A i \in 1..(Len(todo) - 1) : Tail(todo)[i] = todo[i + 1]
  BY <1>1 DEF RInv, Chosen
<1>5. \A i, j \in 1..Len(todo') : i < j => ~StartedBefore(todo'[j], todo'[i])
  <2> SUFFICES ASSUME NEW i \in 1..Len(todo'), NEW j \in 1..Len(todo'), i < j
               PROVE  ~StartedBefore(todo'[j], todo'[i])
    OBVIOUS
  <2>1. i + 1 \in 1..Len(todo) /\ j + 1 \in 1..Len(todo) /\ i + 1 < j + 1
    BY <1>1, <1>4
  <2>2. todo'[i] = todo[i + 1] /\ todo'[j] = todo[j + 1]
    BY <1>1, <1>4
  <2>3. QED
    BY <2>1, <2>2, <1>1 DEF Scanning
(* What was looked at, the head of todo included, is accounted for. *)
<1>6. /\ \A e \in DOMAIN selected' : /\ runs[selected'[e]].config = e
                                    /\ selected'[e] \in DOMAIN runs /\ First(selected'[e])
      /\ DOMAIN selected \subseteq DOMAIN selected'
      /\ SoundRow(runs[d]) => c \in DOMAIN selected'
  <2>1. \A e \in DOMAIN selected : /\ runs[selected[e]].config = e
                                  /\ selected[e] \in DOMAIN runs /\ First(selected[e])
    BY <1>1 DEF Scanning, RInv, Chosen
  <2>2. SoundRow(runs[d]) => Eligible(runs[d])
    BY <1>4 DEF Ordered
  <2>3. CASE selected' = selected /\ ~(Eligible(runs[d]) /\ c \notin DOMAIN selected)
    BY <2>1, <2>2, <2>3
  <2>4. CASE Eligible(runs[d]) /\ c \notin DOMAIN selected /\ selected' = With(selected, c, d)
    <3>1. First(d)
      BY <1>1, <2>4, TakesTheFirst
    <3>2. runs[d].config = c
      OBVIOUS
    <3> HIDE DEF c, d
    <3>3. DOMAIN selected' = DOMAIN selected \cup {c}
          /\ \A e \in DOMAIN selected' : \/ e = c /\ selected'[e] = d
                                         \/ e \in DOMAIN selected /\ selected'[e] = selected[e]
      BY <2>4 DEF With
    <3>4. QED
      BY <2>1, <3>1, <3>2, <3>3, <1>4
  <2>5. QED
    BY <1>1, <2>3, <2>4
<1>7. \A e \in DOMAIN runs : SoundRow(runs[e]) => \/ \E i \in 1..Len(todo') : todo'[i] = e
                                                 \/ runs[e].config \in DOMAIN selected'
  <2> SUFFICES ASSUME NEW e \in DOMAIN runs, SoundRow(runs[e]),
                      runs[e].config \notin DOMAIN selected'
               PROVE  \E i \in 1..Len(todo') : todo'[i] = e
    OBVIOUS
  <2>1. PICK i \in 1..Len(todo) : todo[i] = e
    BY <1>1, <1>6 DEF Scanning
  <2>2. i # 1
    BY <2>1, <1>4, <1>6
  <2>3. i - 1 \in 1..Len(todo') /\ (i - 1) + 1 = i
    BY <2>2, <1>1, <1>4
  <2>4. todo'[i - 1] = todo[i]
    BY <2>3, <1>1, <1>4
  <2>5. QED
    BY <2>1, <2>3, <2>4
<1> HIDE DEF c, d
<1>8. Scanning'
  BY <1>1, <1>5, <1>6, <1>7 DEF Scanning, First, SoundRow, StartedBefore
<1>9. CASE todo' # <<>>
  <2>1. published' = published /\ runs' = runs
    BY <1>1, <1>9
  <2>2. Tabled'
    BY <2>1 DEF Tabled, Shown, First, SoundRow
  <2>3. QED
    BY <1>3, <1>8, <2>2
<1>10. CASE todo' = <<>>
  <2>1. PICK rows \in Sortings(Range(selected'), DisplayedBefore) :
           published' = [read |-> DOMAIN runs, rows |-> rows,
                              missing |-> Requested \ DOMAIN selected']
    BY <1>1, <1>10
  <2> DEFINE S == Range(selected')
             n == Cardinality(S)
  <2>2. S \in SUBSET DOMAIN runs
    BY <1>6 DEF Range
  <2>3. IsFiniteSet(S) /\ n \in Nat
    BY <2>2, FewRuns, FS_Subset, FS_CardinalityType DEF RInv
  <2>4. rows \in [1..n -> S] /\ \A i, j \in DOMAIN rows : i < j => rows[i] # rows[j]
    BY <2>1 DEF Sortings
  <2>5. DOMAIN rows = 1..n
    BY <2>4
  <2>6. \A a \in S : \E i \in 1..n : rows[i] = a
    BY <2>3, <2>4, <2>5, Sorted
  <2>7. Range(rows) = S
    <3>1. \A a \in Range(rows) : \E i \in 1..n : a = rows[i]
      BY <2>5 DEF Range
    <3>2. \A i \in 1..n : rows[i] \in Range(rows)
      BY <2>5 DEF Range
    <3>3. \A i \in 1..n : rows[i] \in S
      BY <2>4
    <3> HIDE DEF S, n
    <3>4. QED
      BY <3>1, <3>2, <3>3, <2>6
  <2>8. /\ published'.rows = rows /\ published'.read = DOMAIN runs
        /\ published'.missing = Requested \ DOMAIN selected'
    BY <2>1
  <2>9. \A a \in S : \E e \in DOMAIN selected' : a = selected'[e]
    BY DEF Range
  <2>10. \A a \in S : a \in DOMAIN runs /\ First(a)
    BY <2>9, <1>6
  <2>11. \A e : e \in DOMAIN selected' <=> \E a \in S : runs[a].config = e
    <3>1. \A e \in DOMAIN selected' : selected'[e] \in S
      BY DEF Range
    <3>2. QED
      BY <3>1, <2>9, <1>6
  <2> HIDE DEF S
  <2>12. runs' = runs
    BY <1>1
  <2>13. \A e : Shown(e)' <=> e \in DOMAIN selected'
    BY <2>7, <2>8, <2>11, <2>12 DEF Shown
  <2>14. \A e \in DOMAIN runs : SoundRow(runs[e]) => runs[e].config \in DOMAIN selected'
    <3>1. Len(todo') = 0
      BY <1>10
    <3>2. QED
      BY <3>1, <1>7
  <2>15. (\A e \in Range(published.rows) : e \in DOMAIN runs /\ First(e))'
    BY <2>7, <2>8, <2>10, <2>12 DEF First, SoundRow
  <2>16. Tabled'
    BY <2>8, <2>12, <2>13, <2>14, <2>15 DEF Tabled, SoundRow
  <2>17. QED
    BY <1>3, <1>8, <2>16
<1>11. QED
  BY <1>9, <1>10

LEMMA OInvEdits == ASSUME RInv, OInv, DamageEvidence \/ EditRun PROVE OInv'
<1>1. faults' = faults + 1 /\ faults \in Nat /\ UNCHANGED <<now, trial>>
      /\ (evidence # NoGame \/ evidence' = evidence)
  <2>1. faults \in Nat
    BY Limits DEF RInv, Types
  <2>2. CASE DamageEvidence
    BY <2>1, <2>2 DEF DamageEvidence
  <2>3. CASE EditRun
    BY <2>1, <2>3 DEF EditRun
  <2>4. QED
    BY <2>2, <2>3
<1>2. Times' /\ faults' # 0
  BY <1>1 DEF OInv, Times
<1>3. QED
  BY <1>2 DEF OInv

LEMMA OInvNext == ASSUME RInv, OInv, GenuinePasses, [Next]_vars PROVE OInv'
<1>1. CASE UNCHANGED vars
  <2>1. UNCHANGED <<now, evidence, trial, runs, faults, todo, selected, published>>
    BY <1>1 DEF vars
  <2>2. Times'
    BY <2>1 DEF OInv, Times
  <2>3. ASSUME Ordered PROVE Ordered'
    BY <2>1, <2>3 DEF Ordered, SoundRow, Eligible, Publishable
  <2>4. ASSUME Scanning /\ Tabled PROVE Scanning' /\ Tabled'
    BY <2>1, <2>4 DEF Scanning, Tabled, Shown, First, SoundRow, StartedBefore
  <2>5. QED
    BY <2>1, <2>2, <2>3, <2>4 DEF OInv
<1>2. QED
  BY <1>1, OInvStart, OInvSave, OInvRecord, OInvGenerateReport, OInvSelectRuns, OInvEdits
     DEF Next

(* FirstIsSelected: while nothing is edited a report shows for every        *)
(* configuration its first sound attempt, passes over no configuration that *)
(* has one, and lists a requested configuration as missing just when it     *)
(* shows no row of it.  The verifier must accept what genuine games saved   *)
(* (GenuinePasses), or the first attempt would be passed over.              *)
THEOREM SelectionCorrect == Spec => []FirstIsSelected
<1>1. RInv /\ OInv => FirstIsSelected
  <2> SUFFICES ASSUME OInv, faults = 0 PROVE FirstIsSelected
    BY DEF FirstIsSelected
  <2>1. Tabled
    BY DEF OInv
  <2>2. QED
    BY <2>1 DEF Tabled, Shown, First, SoundRow, FirstIsSelected
<1>2. RInv /\ OInv /\ GenuinePasses /\ [Next]_vars => OInv'
  BY OInvNext
<1>3. QED
  BY <1>1, <1>2, RecordsInvariant, VerdictExact, OInvInit, PTL DEF Spec
=============================================================================
