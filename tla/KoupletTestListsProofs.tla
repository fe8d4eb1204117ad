------------------------ MODULE KoupletTestListsProofs ------------------------
(***************************************************************************)
(* Theorems about the lists of KoupletTest - of entries in a collection,   *)
(* of collections in the database - for every set of objects, every number *)
(* of tests, retries and restarts, and every set of faults.                *)
(***************************************************************************)
EXTENDS KoupletTest, FiniteSetTheorems, TLAPS

-----------------------------------------------------------------------------
(***************************************************************************)
(* Sorting and selecting.                                                  *)
(***************************************************************************)

(* The place of an element among those with smaller keys.                  *)
Smaller(S, key, x) == {y \in S : key[y] < key[x]}

(* Where no two keys are the same, there is one element for each place.    *)
LEMMA Ranked ==
  ASSUME NEW S, IsFiniteSet(S), NEW key, \A x \in S : key[x] \in Int,
         \A x, y \in S : key[x] = key[y] => x = y
  PROVE  /\ Cardinality(S) \in Nat
         /\ \A x \in S : Cardinality(Smaller(S, key, x)) \in 0..Cardinality(S) - 1
         /\ \A x, y \in S :
              key[x] < key[y] <=>
                Cardinality(Smaller(S, key, x)) < Cardinality(Smaller(S, key, y))
         /\ \A i \in 0..Cardinality(S) - 1 :
              \E x \in S : Cardinality(Smaller(S, key, x)) = i
<1> DEFINE rank == [x \in S |-> Cardinality(Smaller(S, key, x))]
           n == Cardinality(S)
<1>1. n \in Nat
  BY FS_CardinalityType
<1>2. ASSUME NEW x \in S
      PROVE  /\ IsFiniteSet(Smaller(S, key, x))
             /\ Cardinality(Smaller(S, key, x)) \in Nat
             /\ Cardinality(Smaller(S, key, x)) < n
  <2>1. Smaller(S, key, x) \in SUBSET S /\ x \notin Smaller(S, key, x)
    BY DEF Smaller
  <2>2. IsFiniteSet(Smaller(S, key, x))
    BY <2>1, FS_Subset
  <2>3. Cardinality(Smaller(S, key, x)) <= n /\ Cardinality(Smaller(S, key, x)) # n
    BY <2>1, FS_Subset
  <2>4. Cardinality(Smaller(S, key, x)) \in Nat
    BY <2>2, FS_CardinalityType
  <2> QED
    BY <1>1, <2>2, <2>3, <2>4
<1>3. ASSUME NEW x \in S, NEW y \in S, key[x] < key[y]
      PROVE  Cardinality(Smaller(S, key, x)) < Cardinality(Smaller(S, key, y))
  <2>1. /\ Smaller(S, key, x) \in SUBSET Smaller(S, key, y)
        /\ x \in Smaller(S, key, y) /\ x \notin Smaller(S, key, x)
    BY <1>3 DEF Smaller
  <2>2. /\ Cardinality(Smaller(S, key, x)) <= Cardinality(Smaller(S, key, y))
        /\ Cardinality(Smaller(S, key, x)) # Cardinality(Smaller(S, key, y))
    BY <1>2, <2>1, FS_Subset
  <2> QED
    BY <1>2, <2>2
<1>4. \A x, y \in S :
        key[x] < key[y] <=>
          Cardinality(Smaller(S, key, x)) < Cardinality(Smaller(S, key, y))
  <2>1. SUFFICES ASSUME NEW x \in S, NEW y \in S,
                        Cardinality(Smaller(S, key, x)) < Cardinality(Smaller(S, key, y))
                 PROVE  key[x] < key[y]
    BY <1>3
  <2>2. ~(key[y] < key[x])
    BY <1>2, <1>3, <2>1
  <2>3. x # y
    BY <1>2, <2>1
  <2> QED
    BY <2>2, <2>3
<1>5. rank \in Injection(S, 0..n - 1)
  <2>1. rank \in [S -> 0..n - 1]
    BY <1>1, <1>2
  <2>2. ASSUME NEW x \in S, NEW y \in S, rank[x] = rank[y]
        PROVE  x = y
    <3>1. ~(key[x] < key[y]) /\ ~(key[y] < key[x])
      BY <1>2, <1>3, <2>2
    <3> QED
      BY <3>1
  <2> QED
    BY <2>1, <2>2 DEF Injection, IsInjective
<1>6. rank \in Surjection(S, 0..n - 1)
  <2>1. IsFiniteSet(0..n - 1) /\ Cardinality(0..n - 1) = n
    BY <1>1, FS_Interval
  <2> QED
    BY <1>5, <2>1, FS_Injection
<1> QED
  BY <1>1, <1>2, <1>4, <1>6 DEF Surjection

(* A set of naturals that is not empty has a least element, and a greatest *)
(* if it is finite.                                                        *)
LEMMA Least ==
  ASSUME NEW B \in SUBSET Nat, B # {}
  PROVE  \E m \in B : \A k \in B : m <= k
<1>1. PICK b \in B : b \in Nat
  OBVIOUS
<1> DEFINE C == {k \in B : k <= b}
           key == [k \in C |-> k]
<1>2. b \in C /\ C \in SUBSET (0..b)
  <2>1. b \in C
    BY <1>1
  <2>2. ASSUME NEW k \in C
        PROVE  k \in 0..b
    BY <1>1
  <2> QED
    BY <2>1, <2>2
<1>3. \A x \in C : key[x] = x /\ key[x] \in Int
  OBVIOUS
<1>4. \A k \in B : k \in C \/ b <= k
  BY <1>1
<1> HIDE DEF C, key
<1>5. IsFiniteSet(C) /\ Cardinality(C) \in Nat /\ Cardinality(C) # 0
  <2>1. IsFiniteSet(0..b)
    BY <1>1, FS_Interval
  <2>2. IsFiniteSet(C)
    BY <1>2, <2>1, FS_Subset
  <2> QED
    BY <1>2, <2>2, FS_CardinalityType, FS_EmptySet
<1>6. PICK m \in C : Cardinality(Smaller(C, key, m)) = 0
  <2>1. 0 \in 0..Cardinality(C) - 1
    BY <1>5
  <2> QED
    BY <1>3, <1>5, <2>1, Ranked
<1>7. \A k \in C : ~(k < m)
  <2>1. IsFiniteSet(Smaller(C, key, m))
    BY <1>5, FS_Subset DEF Smaller
  <2>2. Smaller(C, key, m) = {}
    BY <1>6, <2>1, FS_EmptySet
  <2> QED
    BY <1>3, <2>2 DEF Smaller
<1>8. m \in B /\ m <= b
  BY <1>2, <1>6 DEF C
<1> QED
  BY <1>1, <1>2, <1>4, <1>7, <1>8

LEMMA Greatest ==
  ASSUME NEW B \in SUBSET Nat, B # {}, IsFiniteSet(B)
  PROVE  \E m \in B : \A k \in B : k <= m
<1> DEFINE key == [k \in B |-> k]
<1>1. /\ \A x \in B : key[x] = x /\ key[x] \in Int
      /\ \A x, y \in B : key[x] = key[y] => x = y
  OBVIOUS
<1>2. Cardinality(B) \in Nat /\ Cardinality(B) # 0
  BY FS_CardinalityType, FS_EmptySet
<1> HIDE DEF key
<1>3. PICK m \in B : Cardinality(Smaller(B, key, m)) = Cardinality(B) - 1
  <2>1. Cardinality(B) - 1 \in 0..Cardinality(B) - 1
    BY <1>2
  <2> QED
    BY <1>1, <2>1, Ranked
<1>4. ASSUME NEW k \in B
      PROVE  ~(m < k)
  <2>1. Cardinality(Smaller(B, key, k)) \in 0..Cardinality(B) - 1
    BY <1>1, Ranked
  <2>2. key[m] < key[k] <=>
          Cardinality(Smaller(B, key, m)) < Cardinality(Smaller(B, key, k))
    BY <1>1, Ranked
  <2> QED
    BY <1>1, <1>2, <1>3, <2>1, <2>2
<1> QED
  BY <1>4

(* The elements of S by ascending keys: each once, and in order.           *)
LEMMA InOrderSorts ==
  ASSUME NEW S, IsFiniteSet(S), NEW key, \A x \in S : key[x] \in Int,
         \A x, y \in S : key[x] = key[y] => x = y
  PROVE  /\ InOrder(S, key) \in Seq(S)
         /\ Len(InOrder(S, key)) = Cardinality(S)
         /\ \A x \in S : \E i \in DOMAIN InOrder(S, key) : InOrder(S, key)[i] = x
         /\ \A i, k \in DOMAIN InOrder(S, key) :
              i < k => key[InOrder(S, key)[i]] < key[InOrder(S, key)[k]]
<1> DEFINE n == Cardinality(S)
           s == InOrder(S, key)
           at(i) == CHOOSE x \in S : Cardinality({y \in S : key[y] < key[x]}) = i - 1
<1>1. n \in Nat
  BY FS_CardinalityType
<1>2. ASSUME NEW i \in 1..n
      PROVE  at(i) \in S /\ Cardinality(Smaller(S, key, at(i))) = i - 1
  <2>1. i - 1 \in 0..n - 1
    BY <1>1
  <2>2. \E x \in S : Cardinality(Smaller(S, key, x)) = i - 1
    BY <2>1, Ranked
  <2> QED
    BY <2>2 DEF Smaller
<1>3. s = [i \in 1..n |-> at(i)]
  BY DEF InOrder
<1> HIDE DEF at, s
<1>4. s \in [1..n -> S]
  BY <1>2, <1>3
<1>5. s \in Seq(S) /\ Len(s) = n /\ DOMAIN s = 1..n
  BY <1>1, <1>4
<1>6. ASSUME NEW x \in S
      PROVE  \E i \in DOMAIN s : s[i] = x
  <2> DEFINE r == Cardinality(Smaller(S, key, x))
  <2>1. r \in 0..n - 1
    BY Ranked
  <2>2. r + 1 \in 1..n /\ Cardinality(Smaller(S, key, s[r + 1])) = r
    BY <1>1, <1>2, <1>3, <2>1
  <2>3. s[r + 1] \in S
    BY <1>4, <2>2
  <2>4. ~(key[x] < key[s[r + 1]]) /\ ~(key[s[r + 1]] < key[x])
    BY <2>1, <2>2, <2>3, Ranked
  <2> QED
    BY <1>5, <2>2, <2>3, <2>4
<1>7. ASSUME NEW i \in 1..n, NEW k \in 1..n, i < k
      PROVE  key[s[i]] < key[s[k]]
  <2>1. /\ s[i] \in S /\ Cardinality(Smaller(S, key, s[i])) = i - 1
        /\ s[k] \in S /\ Cardinality(Smaller(S, key, s[k])) = k - 1
    BY <1>2, <1>3
  <2> QED
    BY <1>7, <2>1, Ranked
<1> QED
  BY <1>5, <1>6, <1>7 DEF s

(* A sequence t of what s has at the places I: each comes from one of the  *)
(* places, and they come in their order.                                   *)
Selects(s, I, t, from) ==
  /\ from \in [1..Len(t) -> I]
  /\ \A i \in I : \E n \in 1..Len(t) : from[n] = i
  /\ \A m, n \in 1..Len(t) : m < n => from[m] < from[n]
  /\ \A n \in 1..Len(t) : t[n] = s[from[n]]

(* One more place, which follows the others.                               *)
LEMMA SelectsMore ==
  ASSUME NEW S, NEW s \in Seq(S), NEW t \in Seq(S), NEW k \in DOMAIN s,
         NEW I \in SUBSET (1..k - 1), NEW from, Selects(s, I, t, from)
  PROVE  /\ Append(t, s[k]) \in Seq(S)
         /\ \E more : Selects(s, I \cup {k}, Append(t, s[k]), more)
<1> DEFINE u == Append(t, s[k])
           n == Len(t)
           more == [i \in 1..n + 1 |-> IF i = n + 1 THEN k ELSE from[i]]
<1>1. /\ u \in Seq(S) /\ Len(u) = n + 1 /\ n \in Nat
      /\ \A i \in 1..n : u[i] = t[i]
      /\ u[n + 1] = s[k]
  OBVIOUS
<1>2. /\ \A i \in 1..n : more[i] = from[i] /\ from[i] \in I /\ from[i] < k
      /\ more[n + 1] = k
  <2>1. \A i \in 1..n : from[i] \in I
    BY DEF Selects
  <2>2. k \in Nat /\ \A i \in I : i < k
    OBVIOUS
  <2>3. more[n + 1] = k
    BY <1>1
  <2>4. ASSUME NEW i \in 1..n
        PROVE  more[i] = from[i]
    BY <1>1
  <2> QED
    BY <2>1, <2>2, <2>3, <2>4
<1> HIDE DEF u
<1>3. more \in [1..Len(u) -> I \cup {k}]
  BY <1>1, <1>2
<1> HIDE DEF more
<1>4. ASSUME NEW i \in I \cup {k}
      PROVE  \E m \in 1..Len(u) : more[m] = i
  <2>1. CASE i = k
    BY <1>1, <1>2, <2>1
  <2>2. CASE i \in I
    <3>1. PICK m \in 1..n : from[m] = i
      BY <2>2 DEF Selects
    <3> QED
      BY <1>1, <1>2, <3>1
  <2> QED
    BY <2>1, <2>2
<1>5. ASSUME NEW i \in 1..Len(u), NEW m \in 1..Len(u), i < m
      PROVE  more[i] < more[m]
  <2>1. CASE m \in 1..n
    BY <1>1, <1>2, <1>5, <2>1 DEF Selects
  <2>2. CASE m = n + 1
    BY <1>1, <1>2, <1>5, <2>2
  <2> QED
    BY <1>1, <2>1, <2>2
<1>6. ASSUME NEW m \in 1..Len(u)
      PROVE  u[m] = s[more[m]]
  BY <1>1, <1>2 DEF Selects
<1>7. Selects(s, I \cup {k}, u, more)
  BY <1>3, <1>4, <1>5, <1>6 DEF Selects
<1> QED
  BY <1>1, <1>7 DEF u

(* That is what Only finds.                                                *)
LEMMA OnlySelects ==
  ASSUME NEW S, NEW s \in Seq(S), NEW I \in SUBSET DOMAIN s
  PROVE  Only(s, I) \in Seq(S) /\ \E from : Selects(s, I, Only(s, I), from)
<1> DEFINE N == Len(s)
           Step(f, i) == IF i = 0 THEN <<>>
                         ELSE IF i \in I THEN Append(f[i - 1], s[i]) ELSE f[i - 1]
           Is(f, k) == f = [i \in 0..k |-> Step(f, i)]
<1>1. N \in Nat /\ DOMAIN s = 1..N
  OBVIOUS
<1>2. \A k \in Nat : \E f : Is(f, k)
  <2> DEFINE B == {k \in Nat : ~\E f : Is(f, k)}
  <2>1. SUFFICES ASSUME B # {} PROVE FALSE
    OBVIOUS
  <2>2. PICK k \in B : \A j \in B : k <= j
    BY <2>1, Least
  <2>3. k # 0
    <3> DEFINE f == [i \in 0..0 |-> <<>>]
    <3>1. Is(f, 0)
      OBVIOUS
    <3> QED
      BY <3>1
  <2>4. k \in Nat /\ k - 1 \in Nat /\ k - 1 \notin B
    <3>1. k \in Nat /\ k - 1 \in Nat /\ ~(k <= k - 1)
      BY <2>2, <2>3
    <3> QED
      BY <2>2, <3>1
  <2>5. PICK f : Is(f, k - 1)
    BY <2>4
  <2> DEFINE g == [i \in 0..k |-> IF i = k THEN Step(f, k) ELSE f[i]]
  <2>6. ASSUME NEW i \in 0..k
        PROVE  g[i] = Step(g, i)
    <3>1. CASE i = k
      BY <2>3, <2>4, <3>1
    <3>2. CASE i # k
      <4>1. i \in 0..k - 1 /\ g[i] = f[i]
        BY <2>4, <3>2
      <4>2. f[i] = Step(f, i)
        BY <2>5, <4>1
      <4>3. i # 0 => g[i - 1] = f[i - 1]
        BY <2>4, <4>1
      <4> QED
        BY <4>1, <4>2, <4>3
    <3> QED
      BY <3>1, <3>2
  <2>7. Is(g, k)
    BY <2>6
  <2> QED
    BY <2>4, <2>7
<1>3. PICK f : Is(f, N) /\ Only(s, I) = f[N]
  <2>1. Is(CHOOSE f : Is(f, N), N)
    BY <1>1, <1>2
  <2> QED
    BY <2>1 DEF Only
<1>4. ASSUME NEW i \in 0..N
      PROVE  f[i] = Step(f, i)
  BY <1>3
<1> HIDE DEF Is
<1> DEFINE Good(i) == /\ f[i] \in Seq(S)
                      /\ \E from : Selects(s, I \cap (1..i), f[i], from)
<1>5. Good(0)
  <2>1. f[0] = <<>>
    BY <1>1, <1>4
  <2>2. Selects(s, I \cap (1..0), <<>>, <<>>)
    BY DEF Selects
  <2> QED
    BY <2>1, <2>2
<1>6. ASSUME NEW i \in 1..N, Good(i - 1)
      PROVE  Good(i)
  <2>1. i - 1 \in 0..N /\ f[i] = Step(f, i) /\ i # 0 /\ i \in 0..N
    BY <1>1, <1>4
  <2>2. PICK from : Selects(s, I \cap (1..i - 1), f[i - 1], from)
    BY <1>6
  <2>3. CASE i \in I
    <3>1. I \cap (1..i - 1) \in SUBSET (1..i - 1)
      OBVIOUS
    <3>2. (I \cap (1..i - 1)) \cup {i} = I \cap (1..i)
      BY <1>1, <2>3
    <3>3. f[i] = Append(f[i - 1], s[i])
      BY <2>1, <2>3
    <3>4. i \in DOMAIN s /\ f[i - 1] \in Seq(S)
      BY <1>1, <1>6
    <3>5. /\ Append(f[i - 1], s[i]) \in Seq(S)
          /\ \E more : Selects(s, (I \cap (1..i - 1)) \cup {i},
                               Append(f[i - 1], s[i]), more)
      BY <2>2, <3>1, <3>4, SelectsMore
    <3> QED
      BY <3>2, <3>3, <3>5
  <2>4. CASE i \notin I
    <3>1. I \cap (1..i - 1) = I \cap (1..i) /\ f[i] = f[i - 1]
      BY <1>1, <2>1, <2>4
    <3> QED
      BY <1>6, <3>1
  <2> QED
    BY <2>3, <2>4
<1> HIDE DEF Good
<1>7. Good(N)
  <2> DEFINE B == {i \in 0..N : ~Good(i)}
  <2>1. SUFFICES ASSUME B # {} PROVE FALSE
    BY <1>1
  <2>2. B \in SUBSET Nat
    BY <1>1
  <2>3. PICK i \in B : \A j \in B : i <= j
    BY <2>1, <2>2, Least
  <2>4. i # 0 /\ i \in 1..N /\ i - 1 \in 0..N /\ ~(i <= i - 1)
    BY <1>1, <1>5, <2>3
  <2>5. i - 1 \notin B
    BY <2>3, <2>4
  <2> QED
    BY <1>6, <2>3, <2>4, <2>5
<1>8. I \cap (1..N) = I
  BY <1>1
<1> QED
  BY <1>3, <1>7, <1>8 DEF Good

-----------------------------------------------------------------------------
(***************************************************************************)
(* Lists without repetitions.                                              *)
(***************************************************************************)

(* A list that has each element of K, each once, and nothing else.         *)
Enumerates(list, K) ==
  /\ list \in Seq(K)
  /\ \A k \in K : \E i \in DOMAIN list : list[i] = k
  /\ \A i, j \in DOMAIN list : list[i] = list[j] => i = j

LEMMA EnumeratesIn ==
  ASSUME NEW list, NEW K, Enumerates(list, K), NEW S, K \subseteq S
  PROVE  list \in Seq(S)
<1>1. list \in Seq(K)
  BY DEF Enumerates
<1> QED
  BY <1>1

LEMMA NothingEnumerated ==
  ASSUME NEW K, K = {}
  PROVE  Enumerates(<<>>, K)
BY DEF Enumerates

LEMMA AppendEnumerates ==
  ASSUME NEW list, NEW K, Enumerates(list, K), NEW k, k \notin K
  PROVE  Enumerates(Append(list, k), K \cup {k})
<1> DEFINE more == Append(list, k)
           n == Len(list)
<1>1. list \in Seq(K) /\ list \in Seq(K \cup {k})
  BY DEF Enumerates
<1>2. /\ more \in Seq(K \cup {k}) /\ Len(more) = n + 1 /\ n \in Nat
      /\ DOMAIN more = 1..n + 1 /\ DOMAIN list = 1..n
      /\ \A i \in 1..n : more[i] = list[i] /\ list[i] \in K
      /\ more[n + 1] = k
  BY <1>1
<1> HIDE DEF more
<1>3. ASSUME NEW x \in K \cup {k}
      PROVE  \E i \in DOMAIN more : more[i] = x
  <2>1. CASE x = k
    BY <1>2, <2>1
  <2>2. CASE x \in K
    <3>1. PICK i \in 1..n : list[i] = x
      BY <1>2, <2>2 DEF Enumerates
    <3> QED
      BY <1>2, <3>1
  <2> QED
    BY <2>1, <2>2
<1>4. ASSUME NEW i \in DOMAIN more, NEW j \in DOMAIN more, more[i] = more[j]
      PROVE  i = j
  <2>1. CASE i \in 1..n /\ j \in 1..n
    BY <1>2, <1>4, <2>1 DEF Enumerates
  <2>2. CASE i = n + 1 \/ j = n + 1
    BY <1>2, <1>4, <2>2
  <2> QED
    BY <1>2, <2>1, <2>2
<1> QED
  BY <1>2, <1>3, <1>4 DEF Enumerates, more

LEMMA TailEnumerates ==
  ASSUME NEW list, NEW K, Enumerates(list, K), list # <<>>
  PROVE  Head(list) \in K /\ Enumerates(Tail(list), K \ {Head(list)})
<1> DEFINE t == Tail(list)
           n == Len(list)
<1>1. /\ list \in Seq(K) /\ n \in Nat \ {0} /\ Head(list) = list[1]
      /\ t \in Seq(K) /\ Len(t) = n - 1 /\ DOMAIN t = 1..n - 1
      /\ DOMAIN list = 1..n
      /\ \A i \in 1..n - 1 : t[i] = list[i + 1]
      /\ \A i \in 1..n : list[i] \in K
  BY DEF Enumerates
<1> HIDE DEF t
<1>2. \A i \in 1..n - 1 : t[i] \in K \ {Head(list)}
  <2>1. ASSUME NEW i \in 1..n - 1
        PROVE  t[i] \in K /\ t[i] # list[1]
    <3>1. i + 1 \in 1..n /\ 1 \in 1..n /\ i + 1 # 1
      BY <1>1
    <3>2. list[i + 1] = list[1] => i + 1 = 1
      BY <1>1, <3>1 DEF Enumerates
    <3>3. t[i] = list[i + 1] /\ list[i + 1] \in K
      BY <1>1, <3>1
    <3> QED
      BY <3>1, <3>2, <3>3
  <2> QED
    BY <1>1, <2>1
<1>3. t \in Seq(K \ {Head(list)})
  BY <1>1, <1>2
<1>4. ASSUME NEW k \in K \ {Head(list)}
      PROVE  \E i \in DOMAIN t : t[i] = k
  <2>1. PICK i \in 1..n : list[i] = k
    BY <1>1 DEF Enumerates
  <2>2. i - 1 \in 1..n - 1 /\ i - 1 + 1 = i
    BY <1>1, <2>1
  <2> QED
    BY <1>1, <2>1, <2>2
<1>5. ASSUME NEW i \in DOMAIN t, NEW j \in DOMAIN t, t[i] = t[j]
      PROVE  i = j
  <2>1. i + 1 \in 1..n /\ j + 1 \in 1..n /\ list[i + 1] = list[j + 1]
    BY <1>1, <1>5
  <2>2. i + 1 = j + 1
    BY <1>1, <2>1 DEF Enumerates
  <2> QED
    BY <1>1, <2>2
<1>6. Head(list) \in K
  BY <1>1
<1> QED
  BY <1>3, <1>4, <1>5, <1>6 DEF Enumerates, t

LEMMA OnlyEnumerates ==
  ASSUME NEW list, NEW K, Enumerates(list, K), NEW I \in SUBSET DOMAIN list
  PROVE  Enumerates(Only(list, I), {list[i] : i \in I})
<1> DEFINE t == Only(list, I)
<1>1. list \in Seq(K)
  BY DEF Enumerates
<1>2. t \in Seq(K) /\ \E from : Selects(list, I, t, from)
  BY <1>1, OnlySelects
<1> HIDE DEF t
<1>3. PICK from : Selects(list, I, t, from)
  BY <1>2
<1>4. Len(t) \in Nat /\ DOMAIN t = 1..Len(t)
  BY <1>2
<1>5. \A n \in 1..Len(t) : t[n] = list[from[n]] /\ from[n] \in I
  BY <1>3 DEF Selects
<1>6. t \in Seq({list[i] : i \in I})
  <2>1. t \in [1..Len(t) -> {list[i] : i \in I}]
    BY <1>2, <1>5
  <2> QED
    BY <1>4, <2>1
<1>7. ASSUME NEW k \in {list[i] : i \in I}
      PROVE  \E n \in DOMAIN t : t[n] = k
  <2>1. PICK i \in I : k = list[i]
    OBVIOUS
  <2>2. PICK n \in 1..Len(t) : from[n] = i
    BY <1>3 DEF Selects
  <2> QED
    BY <1>4, <1>5, <2>1, <2>2
<1>8. ASSUME NEW m \in DOMAIN t, NEW n \in DOMAIN t, t[m] = t[n]
      PROVE  m = n
  <2>1. from[m] = from[n]
    BY <1>4, <1>5, <1>8 DEF Enumerates
  <2>2. from[m] \in Nat
    BY <1>1, <1>4, <1>5
  <2>3. ~(m < n) /\ ~(n < m)
    BY <1>3, <1>4, <2>1, <2>2 DEF Selects
  <2> QED
    BY <1>4, <2>3
<1> QED
  BY <1>6, <1>7, <1>8 DEF Enumerates, t

LEMMA DroppedEnumerates ==
  ASSUME NEW list, NEW K, Enumerates(list, K), NEW gone
  PROVE  Enumerates(Dropped(list, gone), K \ gone)
<1> DEFINE I == {i \in DOMAIN list : list[i] \notin gone}
<1>1. Enumerates(Only(list, I), {list[i] : i \in I})
  BY OnlyEnumerates
<1>2. {list[i] : i \in I} = K \ gone
  <2>1. \A i \in DOMAIN list : list[i] \in K
    BY DEF Enumerates
  <2> QED
    BY <2>1 DEF Enumerates
<1> QED
  BY <1>1, <1>2 DEF Dropped

LEMMA WithoutEnumerates ==
  ASSUME NEW list, NEW K, Enumerates(list, K), NEW k
  PROVE  Enumerates(Without(list, k), K \ {k})
<1> DEFINE I == {i \in DOMAIN list : list[i] # k}
<1>1. Enumerates(Only(list, I), {list[i] : i \in I})
  BY OnlyEnumerates
<1>2. {list[i] : i \in I} = K \ {k}
  <2>1. \A i \in DOMAIN list : list[i] \in K
    BY DEF Enumerates
  <2> QED
    BY <2>1 DEF Enumerates
<1> QED
  BY <1>1, <1>2 DEF Without

LEMMA InOrderEnumerates ==
  ASSUME NEW S, IsFiniteSet(S), NEW key, \A x \in S : key[x] \in Int,
         \A x, y \in S : key[x] = key[y] => x = y
  PROVE  Enumerates(InOrder(S, key), S)
<1> DEFINE s == InOrder(S, key)
<1>1. /\ s \in Seq(S)
      /\ \A x \in S : \E i \in DOMAIN s : s[i] = x
      /\ \A i, k \in DOMAIN s : i < k => key[s[i]] < key[s[k]]
  BY InOrderSorts
<1> HIDE DEF s
<1>2. ASSUME NEW i \in DOMAIN s, NEW j \in DOMAIN s, s[i] = s[j]
      PROVE  i = j
  <2>1. i \in Nat /\ j \in Nat /\ s[i] \in S
    BY <1>1
  <2>2. ~(i < j) /\ ~(j < i)
    BY <1>1, <1>2, <2>1
  <2> QED
    BY <2>1, <2>2
<1> QED
  BY <1>1, <1>2 DEF Enumerates, s

-----------------------------------------------------------------------------
(***************************************************************************)
(* The inductive invariant.                                                *)
(***************************************************************************)

(* The entries a bucket names.                                             *)
In(c, bucket) == {k \in DOMAIN c.entries : c.entries[k].bucket = bucket}

(* The lists of a collection are those of its buckets; an id is never 0.   *)
CollOK(c) ==
  /\ c \in Collection
  /\ c.next # 0 /\ \A k \in DOMAIN c.entries : c.entries[k].id # 0
  /\ Enumerates(c.queued, In(c, "Queued"))
  /\ Enumerates(c.active, In(c, "Running"))
  /\ Enumerates(c.retry, In(c, "Retry"))
CollsInv == DOMAIN coll = Uid /\ \A u \in Uid : CollOK(coll[u])

(* There is one file for each id.                                          *)
TestResult == {"none", "pass", "fail"}
EntityRecord == [bucket : CollState, date : Nat, started : BOOLEAN, next : Nat]
FileOK(f) ==
  /\ f \in [entity : EntityRecord, shallow : SUBSET Entry,
            result : SUBSET (Nat \X TestResult)]
  /\ f.entity.next # 0 /\ IsFiniteSet(f.shallow)
  /\ \A e \in f.shallow : e.id # 0
  /\ \A e, g \in f.shallow : e.id = g.id => e = g
FilesInv == DOMAIN saved = Uid /\ \A u \in Uid : FileOK(saved[u])

(* What is to be written is there.                                         *)
NotedOK(d, c) ==
  c.bucket # "absent" /\ (d.kind = "entity" \/ HasEntry(c, d.id))
DirtyInv ==
  /\ \A d \in dirty : d.uid \in Uid /\ NotedOK(d, coll[d.uid])
  /\ At("down") => dirty = {}

(* A turn is that of a collection that runs; the Jobs to be examined are   *)
(* of its entries.                                                         *)
Turn == {"examine", "start"}
WorkerOK(w) ==
  /\ DOMAIN w = DOMAIN Idle /\ w.index \in Nat
  /\ w.at \in {"idle", "register", "pass", "examine", "start", "resolve",
               "tasks", "prune", "publish", "hung", "down"}
  /\ w.changed \subseteq Uid /\ w.doomed \subseteq Uid
WorkInv ==
  /\ WorkerOK(worker) /\ worker.index # 0
  /\ worker.at \in Turn => worker.index \in DOMAIN running
  /\ worker.at = "examine" =>
       \A j \in worker.todo : HasEntry(coll[Current], j.id)

(* The lists of collections are those of their buckets.                    *)
LineInv ==
  /\ Enumerates(running, {u \in Uid : coll[u].bucket = "Running"})
  /\ Enumerates(waiting, {u \in Uid : coll[u].bucket = "Waiting"})

(* No two objects have had a collection of the same date.                  *)
Dates(u) ==
  {coll[i].date : i \in {v \in {u} : Present(v)}}
    \cup {saved[i].entity.date : i \in {v \in {u} : saved[v].entity # NoEntity}}
DateInv ==
  /\ submitted \in Nat
  /\ \A u \in Uid : \A d \in Dates(u) : d <= submitted
  /\ \A u, v \in Uid : Dates(u) \cap Dates(v) # {} => u = v

ClusterInv ==
  /\ alive \subseteq born /\ born \subseteq Uid /\ IsFiniteSet(born)
  /\ jobs \subseteq Job /\ recent \in Seq(BOOLEAN)

ListsInv ==
  /\ CollsInv /\ FilesInv /\ DirtyInv /\ WorkInv /\ LineInv /\ DateInv /\ ClusterInv

-----------------------------------------------------------------------------
(***************************************************************************)
(* What is done to a collection.                                           *)
(***************************************************************************)

(* What a turn leaves alone of a collection: it goes on having its entries *)
(* and its place in line.                                                  *)
Keeps(c, d) ==
  /\ d.bucket = c.bucket /\ d.date = c.date
  /\ \A id : HasEntry(c, id) => HasEntry(d, id)

LEMMA NothingOK == CollOK(NoCollection)
<1> DEFINE none == NoCollection
<1>1. /\ none \in Collection /\ none.next = 1 /\ none.entries = <<>>
      /\ none.queued = <<>> /\ none.active = <<>> /\ none.retry = <<>>
      /\ DOMAIN none.entries = {}
  BY DEF NoCollection, Collection, CollState
<1>2. \A b : In(none, b) = {}
  BY <1>1 DEF In
<1> HIDE DEF none
<1>3. \A b : Enumerates(<<>>, In(none, b))
  BY <1>2, NothingEnumerated
<1> QED
  BY <1>1, <1>3 DEF CollOK, none

LEMMA NewCollectionOK ==
  ASSUME NEW n \in Nat \ {0}, NEW date \in Nat
  PROVE  /\ CollOK(NewCollection(n, date))
         /\ NewCollection(n, date).bucket = "Waiting"
         /\ NewCollection(n, date).date = date
         /\ \A i \in 1..n : HasEntry(NewCollection(n, date), i)
<1> DEFINE c == NewCollection(n, date)
           es == [i \in 1..n |-> NewEntry(i, 0)]
<1>1. /\ DOMAIN es = 1..n
      /\ \A i \in 1..n : /\ es[i] \in Entry /\ es[i].id = i /\ i # 0
                         /\ es[i].bucket = "Queued"
  BY DEF NewEntry, Entry, Status, Bucket
<1>2. es \in Seq(Entry)
  BY <1>1
<1> HIDE DEF es
<1>3. /\ c.bucket = "Waiting" /\ c.date = date /\ c.next = n + 1
      /\ c.entries = es /\ c.queued = [i \in 1..n |-> i]
      /\ c.active = <<>> /\ c.retry = <<>>
  BY DEF NewCollection, Fresh, NoCollection, es
<1>4. c \in Collection
  <2> DEFINE ids == [i \in 1..n |-> i]
  <2>1. ids \in Seq(Nat) /\ n + 1 \in Nat
    OBVIOUS
  <2>2. NoCollection \in Collection
    BY NothingOK DEF CollOK
  <2>3. Fresh(date) \in Collection
    BY <2>2 DEF Fresh, Collection, CollState
  <2>4. c = [Fresh(date) EXCEPT !.next = n + 1, !.entries = es, !.queued = ids]
    BY DEF NewCollection, es
  <2> HIDE DEF c, es, ids
  <2> QED
    BY <1>2, <2>1, <2>3, <2>4 DEF Collection
<1> HIDE DEF c
<1>5. In(c, "Queued") = 1..n /\ In(c, "Running") = {} /\ In(c, "Retry") = {}
  BY <1>1, <1>3 DEF In
<1>6. Enumerates([i \in 1..n |-> i], 1..n)
  BY DEF Enumerates
<1>7. CollOK(c)
  BY <1>1, <1>3, <1>4, <1>5, <1>6, NothingEnumerated DEF CollOK
<1>8. ASSUME NEW i \in 1..n
      PROVE  HasEntry(c, i)
  BY <1>1, <1>3 DEF HasEntry, Index
<1> QED
  BY <1>3, <1>7, <1>8 DEF c

(* An id that a collection has names one of its entries.                   *)
LEMMA LatestIsThere ==
  ASSUME NEW c, CollOK(c), NEW id, HasEntry(c, id)
  PROVE  Latest(c, id) \in DOMAIN c.entries /\ c.entries[Latest(c, id)].id = id
<1>1. c.entries \in Seq(Entry)
  BY DEF CollOK, Collection
<1>2. Index(c, id) \in SUBSET (1..Len(c.entries)) /\ Index(c, id) \in SUBSET Nat
  BY <1>1 DEF Index
<1>3. IsFiniteSet(Index(c, id))
  <2>1. IsFiniteSet(1..Len(c.entries))
    BY <1>1, FS_Interval
  <2> QED
    BY <1>2, <2>1, FS_Subset
<1>4. \E k \in Index(c, id) : \A j \in Index(c, id) : j <= k
  BY <1>2, <1>3, Greatest DEF HasEntry
<1>5. Latest(c, id) \in Index(c, id)
  BY <1>4 DEF Latest
<1> QED
  BY <1>5 DEF Index

(* A change to one entry that leaves it its id and its bucket.             *)
LEMMA MarkedOK ==
  ASSUME NEW c, CollOK(c), NEW j, HasEntry(c, j.id)
  PROVE  CollOK(Marked(c, j)) /\ Keeps(c, Marked(c, j))
<1> DEFINE d == Marked(c, j)
           l == Latest(c, j.id)
           status == IF j.state = "done" THEN "Complete" ELSE "Expired"
<1>1. c \in Collection /\ c.entries \in Seq(Entry) /\ l \in DOMAIN c.entries
  BY LatestIsThere DEF CollOK, Collection
<1>2. c.entries[l] \in Entry /\ status \in Status
  BY <1>1 DEF Status
<1>3. d = [c EXCEPT !.entries[l].status = status]
  BY DEF Marked
<1> HIDE DEF l, status
<1>4. /\ d.entries = [c.entries EXCEPT ![l] = [c.entries[l] EXCEPT !.status = status]]
      /\ d \in Collection
  <2>1. [c.entries[l] EXCEPT !.status = status] \in Entry
    BY <1>2 DEF Entry
  <2>2. [c.entries EXCEPT ![l] = [c.entries[l] EXCEPT !.status = status]] \in Seq(Entry)
    BY <1>1, <2>1
  <2> QED
    BY <1>1, <1>3, <2>2 DEF Collection
<1>5. /\ d.queued = c.queued /\ d.active = c.active /\ d.retry = c.retry
      /\ d.next = c.next /\ d.bucket = c.bucket /\ d.date = c.date
  BY <1>1, <1>3 DEF Collection
<1>6. /\ DOMAIN d.entries = DOMAIN c.entries
      /\ \A k \in DOMAIN c.entries : /\ d.entries[k].id = c.entries[k].id
                                     /\ d.entries[k].bucket = c.entries[k].bucket
  BY <1>1, <1>2, <1>4 DEF Entry
<1> HIDE DEF d
<1>7. \A b : In(d, b) = In(c, b)
  BY <1>6 DEF In
<1>8. \A id : HasEntry(c, id) => HasEntry(d, id)
  BY <1>6 DEF HasEntry, Index
<1> QED
  BY <1>4, <1>5, <1>6, <1>7, <1>8 DEF CollOK, Keeps, d

(* An entry that gets another bucket, and the lists that are made of those *)
(* that are there.                                                         *)
LEMMA EntryMoves ==
  ASSUME NEW c, CollOK(c), NEW a \in DOMAIN c.entries, NEW e \in Entry,
         e.id = c.entries[a].id,
         NEW d \in Collection, d.entries = [c.entries EXCEPT ![a] = e],
         d.next = c.next, d.bucket = c.bucket, d.date = c.date
  PROVE  /\ \A b : In(d, b) = IF e.bucket = b THEN In(c, b) \cup {a} ELSE In(c, b) \ {a}
         /\ Keeps(c, d) /\ d.next # 0
         /\ \A k \in DOMAIN d.entries : d.entries[k].id # 0
<1>1. c.entries \in Seq(Entry)
  BY DEF CollOK, Collection
<1>2. /\ DOMAIN d.entries = DOMAIN c.entries
      /\ \A k \in DOMAIN c.entries : d.entries[k] = IF k = a THEN e ELSE c.entries[k]
      /\ \A k \in DOMAIN c.entries : d.entries[k].id = c.entries[k].id
  BY <1>1
<1>3. \A id : HasEntry(c, id) => HasEntry(d, id)
  BY <1>2 DEF HasEntry, Index
<1>4. \A b : In(d, b) = IF e.bucket = b THEN In(c, b) \cup {a} ELSE In(c, b) \ {a}
  BY <1>2 DEF In
<1> QED
  BY <1>2, <1>3, <1>4 DEF CollOK, Keeps

(* A test that ends leaves the active list.                                *)
Finished(c, a, result) ==
  [c EXCEPT !.active = Without(@, a),
            !.entries[a].bucket = "Completed",
            !.entries[a].result = result]

LEMMA FinishedOK ==
  ASSUME NEW c, CollOK(c), NEW a \in In(c, "Running"), NEW result \in {"pass", "fail"}
  PROVE  CollOK(Finished(c, a, result)) /\ Keeps(c, Finished(c, a, result))
<1> DEFINE d == Finished(c, a, result)
           e == [c.entries[a] EXCEPT !.bucket = "Completed", !.result = result]
           active == Without(c.active, a)
<1>1. /\ c \in Collection /\ c.entries \in Seq(Entry) /\ a \in DOMAIN c.entries
      /\ c.entries[a].bucket = "Running"
  BY DEF CollOK, Collection, In
<1>2. c.entries[a] \in Entry
  BY <1>1
<1>3. e \in Entry /\ e.id = c.entries[a].id /\ e.bucket = "Completed"
  BY <1>2 DEF Entry, Bucket
<1>4. Enumerates(active, In(c, "Running") \ {a})
  BY WithoutEnumerates DEF CollOK
<1>5. /\ d.entries = [c.entries EXCEPT ![a] = e] /\ d.active = active
      /\ d.queued = c.queued /\ d.retry = c.retry
      /\ d.next = c.next /\ d.bucket = c.bucket /\ d.date = c.date
  BY <1>1 DEF Finished, Collection
<1>6. d \in Collection
  <2>1. active \in Seq(Nat)
    <3>1. In(c, "Running") \ {a} \subseteq Nat
      BY <1>1 DEF In
    <3> QED
      BY <1>4, <3>1, EnumeratesIn
  <2>2. [c.entries EXCEPT ![a] = e] \in Seq(Entry)
    BY <1>1, <1>3
  <2> HIDE DEF e, active
  <2> QED
    BY <1>1, <1>5, <2>1, <2>2 DEF Finished, Collection
<1> HIDE DEF d, e, active
<1>7. /\ \A b : In(d, b) = IF e.bucket = b THEN In(c, b) \cup {a} ELSE In(c, b) \ {a}
      /\ Keeps(c, d) /\ d.next # 0
      /\ \A k \in DOMAIN d.entries : d.entries[k].id # 0
  BY <1>1, <1>3, <1>5, <1>6, EntryMoves
<1>8. /\ In(d, "Queued") = In(c, "Queued") /\ In(d, "Retry") = In(c, "Retry")
      /\ In(d, "Running") = In(c, "Running") \ {a}
  <2>1. a \notin In(c, "Queued") /\ a \notin In(c, "Retry")
    BY <1>1 DEF In
  <2>2. /\ In(d, "Queued") = In(c, "Queued") \ {a}
        /\ In(d, "Retry") = In(c, "Retry") \ {a}
        /\ In(d, "Running") = In(c, "Running") \ {a}
    BY <1>3, <1>7
  <2> QED
    BY <2>1, <2>2
<1> QED
  BY <1>4, <1>5, <1>6, <1>7, <1>8 DEF CollOK, d

(* The retry of a test is a new entry, and goes to the retry list.         *)
Again(c, id) ==
  [c EXCEPT !.next = @ + 1,
            !.entries = Append(@, NewEntry(c.next, id)),
            !.retry = Append(@, Len(c.entries) + 1)]

LEMMA AgainOK ==
  ASSUME NEW c, CollOK(c), NEW id \in Nat \ {0}
  PROVE  /\ CollOK(Again(c, id)) /\ Keeps(c, Again(c, id))
         /\ HasEntry(Again(c, id), c.next)
<1> DEFINE d == Again(c, id)
           e == NewEntry(c.next, id)
           n == Len(c.entries)
           retry == Append(c.retry, n + 1)
           entries == Append(c.entries, e)
<1>1. c \in Collection /\ c.entries \in Seq(Entry) /\ c.next \in Nat /\ c.next # 0
  BY DEF CollOK, Collection
<1>2. e \in Entry /\ e.id = c.next /\ e.bucket = "Retry"
  BY <1>1 DEF NewEntry, Entry, Status, Bucket
<1>3. n \in Nat /\ DOMAIN c.entries = 1..n /\ n + 1 \notin In(c, "Retry")
  BY <1>1 DEF In
<1>4. Enumerates(retry, In(c, "Retry") \cup {n + 1})
  BY <1>3, AppendEnumerates DEF CollOK
<1> HIDE DEF e
<1>5. /\ entries \in Seq(Entry) /\ DOMAIN entries = 1..n + 1
      /\ \A k \in 1..n : entries[k] = c.entries[k]
      /\ entries[n + 1] = e
  BY <1>1, <1>2, <1>3
<1> HIDE DEF entries, retry, n
<1>6. d = [c EXCEPT !.next = @ + 1, !.entries = entries, !.retry = retry]
  BY DEF Again, entries, retry, n, e
<1> HIDE DEF d
<1>7. /\ d.entries = entries /\ d.retry = retry /\ d.next = c.next + 1
      /\ d.queued = c.queued /\ d.active = c.active
      /\ d.bucket = c.bucket /\ d.date = c.date
  BY <1>1, <1>6 DEF Collection
<1>8. d \in Collection
  <2>1. retry \in Seq(Nat)
    <3>1. In(c, "Retry") \cup {n + 1} \subseteq Nat
      BY <1>3 DEF In
    <3> QED
      BY <1>4, <3>1, EnumeratesIn
  <2>2. c.next + 1 \in Nat
    BY <1>1
  <2> QED
    BY <1>1, <1>5, <1>6, <2>1, <2>2 DEF Collection
<1>9. /\ In(d, "Queued") = In(c, "Queued") /\ In(d, "Running") = In(c, "Running")
      /\ In(d, "Retry") = In(c, "Retry") \cup {n + 1}
  <2>1. n + 1 \notin 1..n /\ 1..n + 1 = (1..n) \cup {n + 1}
    BY <1>3
  <2> QED
    BY <1>2, <1>3, <1>5, <1>7, <2>1 DEF In
<1>10. Keeps(c, d) /\ HasEntry(d, c.next)
  <2>1. n + 1 \in 1..n + 1 /\ \A k \in 1..n : k \in 1..n + 1
    BY <1>3
  <2> QED
    BY <1>2, <1>3, <1>5, <1>7, <2>1 DEF Keeps, HasEntry, Index
<1>11. d.next # 0 /\ \A k \in DOMAIN d.entries : d.entries[k].id # 0
  <2>1. \A k \in 1..n + 1 : k \in 1..n \/ k = n + 1
    BY <1>3
  <2> QED
    BY <1>1, <1>2, <1>3, <1>5, <1>7, <2>1 DEF CollOK
<1> QED
  BY <1>4, <1>7, <1>8, <1>9, <1>10, <1>11 DEF CollOK, d

LEMMA EndedOK ==
  ASSUME NEW c, CollOK(c), NEW a \in In(c, "Running"), NEW result \in {"pass", "fail"}
  PROVE  /\ CollOK(Ended(c, a, result)) /\ Keeps(c, Ended(c, a, result))
         /\ result = "fail" /\ Retried(c, a) => HasEntry(Ended(c, a, result), c.next)
<1> DEFINE f == Finished(c, a, result)
           id == c.entries[a].id
<1>1. id \in Nat \ {0} /\ a \in DOMAIN c.entries /\ c.entries \in Seq(Entry)
  <2>1. a \in DOMAIN c.entries /\ c.entries \in Seq(Entry)
    BY DEF CollOK, Collection, In
  <2>2. c.entries[a] \in Entry
    BY <2>1
  <2> QED
    BY <2>1, <2>2 DEF CollOK, Entry
<1>2. CollOK(f) /\ Keeps(c, f)
  BY FinishedOK
<1>3. f.next = c.next /\ Len(f.entries) = Len(c.entries) /\ c.next \in Nat
  BY <1>1 DEF Finished, CollOK, Collection
<1>4. /\ CollOK(Again(f, id)) /\ Keeps(f, Again(f, id))
      /\ HasEntry(Again(f, id), c.next)
  BY <1>1, <1>2, <1>3, AgainOK
<1>5. Keeps(c, Again(f, id))
  BY <1>2, <1>4 DEF Keeps
<1>6. Ended(c, a, result) =
        IF result = "fail" /\ Retried(c, a) THEN Again(f, id) ELSE f
  BY <1>3 DEF Ended, Again, Finished
<1> HIDE DEF f
<1> QED
  BY <1>2, <1>4, <1>5, <1>6

(* What is selected from the lists is in them.                             *)
LEMMA StartableIn ==
  ASSUME NEW c, CollOK(c), Startable(c) # <<>>
  PROVE  Head(Startable(c)) \in In(c, "Queued") \cup In(c, "Retry")
<1> DEFINE K == In(c, "Queued") \cup In(c, "Retry")
           first == Waits(c, c.queued)
           second == Waits(c, c.retry)
<1>1. c.queued \in Seq(K) /\ c.retry \in Seq(K)
  <2>1. Enumerates(c.queued, In(c, "Queued")) /\ Enumerates(c.retry, In(c, "Retry"))
    BY DEF CollOK
  <2> QED
    BY <2>1, EnumeratesIn
<1> HIDE DEF K
<1>2. first \in Seq(K) /\ second \in Seq(K)
  BY <1>1, OnlySelects DEF Waits
<1> HIDE DEF first, second
<1>3. first \o second \in Seq(K) /\ first \o second # <<>>
  BY <1>2 DEF Startable, first, second
<1>4. Head(first \o second) \in K
  BY <1>3
<1> QED
  BY <1>4 DEF Startable, first, second, K

LEMMA OfIn ==
  ASSUME NEW c, CollOK(c), NEW j, Of(c, j) # <<>>
  PROVE  Head(Of(c, j)) \in In(c, "Running")
<1> DEFINE K == In(c, "Running")
<1>1. c.active \in Seq(K)
  BY DEF CollOK, Enumerates
<1> HIDE DEF K
<1>2. Of(c, j) \in Seq(K)
  BY <1>1, OnlySelects DEF Of
<1> QED
  BY <1>2 DEF K

(* The lists without a test that was taken from them.                      *)
LEMMA TakenLists ==
  ASSUME NEW c, CollOK(c), NEW k
  PROVE  /\ Enumerates(Without(c.queued, k), In(c, "Queued") \ {k})
         /\ Enumerates(Without(c.retry, k), In(c, "Retry") \ {k})
BY WithoutEnumerates DEF CollOK

(* A test that starts goes from its list to the active one.                *)
Started(c, k) ==
  [Taken(c, k) EXCEPT !.active = Append(@, k),
                      !.entries[k].status = "Running",
                      !.entries[k].bucket = "Running"]

LEMMA StartedOK ==
  ASSUME NEW c, CollOK(c), NEW k \in In(c, "Queued") \cup In(c, "Retry")
  PROVE  CollOK(Started(c, k)) /\ Keeps(c, Started(c, k))
<1> DEFINE d == Started(c, k)
           e == [c.entries[k] EXCEPT !.status = "Running", !.bucket = "Running"]
           queued == Without(c.queued, k)
           retry == Without(c.retry, k)
           active == Append(c.active, k)
<1>1. /\ c \in Collection /\ c.entries \in Seq(Entry) /\ k \in DOMAIN c.entries
      /\ k \notin In(c, "Running")
  BY DEF CollOK, Collection, In
<1>2. c.entries[k] \in Entry
  BY <1>1
<1>3. e \in Entry /\ e.id = c.entries[k].id /\ e.bucket = "Running"
  BY <1>2 DEF Entry, Bucket, Status
<1>4. /\ Enumerates(queued, In(c, "Queued") \ {k})
      /\ Enumerates(retry, In(c, "Retry") \ {k})
      /\ Enumerates(active, In(c, "Running") \cup {k})
  <2>1. Enumerates(c.active, In(c, "Running"))
    BY DEF CollOK
  <2> QED
    BY <1>1, <2>1, TakenLists, AppendEnumerates
<1>5. /\ d.entries = [c.entries EXCEPT ![k] = e] /\ d.active = active
      /\ d.queued = queued /\ d.retry = retry
      /\ d.next = c.next /\ d.bucket = c.bucket /\ d.date = c.date
  BY <1>1 DEF Started, Taken, Collection
<1>6. d \in Collection
  <2>1. queued \in Seq(Nat) /\ retry \in Seq(Nat) /\ active \in Seq(Nat)
    <3>1. \A b : In(c, b) \subseteq Nat /\ k \in Nat
      BY <1>1 DEF In
    <3>2. /\ In(c, "Queued") \ {k} \subseteq Nat /\ In(c, "Retry") \ {k} \subseteq Nat
          /\ In(c, "Running") \cup {k} \subseteq Nat
      BY <3>1
    <3> QED
      BY <1>4, <3>2, EnumeratesIn
  <2>2. [c.entries EXCEPT ![k] = e] \in Seq(Entry)
    BY <1>1, <1>3
  <2>3. Taken(c, k) \in Collection
    <3> HIDE DEF queued, retry
    <3>1. Taken(c, k) = [c EXCEPT !.queued = queued, !.retry = retry]
      BY DEF Taken, queued, retry
    <3> QED
      BY <1>1, <2>1, <3>1 DEF Collection
  <2>4. d = [Taken(c, k) EXCEPT !.active = active, !.entries = [c.entries EXCEPT ![k] = e]]
    BY <1>1 DEF Started, Taken, Collection
  <2> HIDE DEF d, e, active
  <2> QED
    BY <2>1, <2>2, <2>3, <2>4 DEF Collection
<1> HIDE DEF d, e, active, queued, retry
<1>7. /\ \A b : In(d, b) = IF e.bucket = b THEN In(c, b) \cup {k} ELSE In(c, b) \ {k}
      /\ Keeps(c, d) /\ d.next # 0
      /\ \A i \in DOMAIN d.entries : d.entries[i].id # 0
  BY <1>1, <1>3, <1>5, <1>6, EntryMoves
<1>8. /\ In(d, "Queued") = In(c, "Queued") \ {k}
      /\ In(d, "Retry") = In(c, "Retry") \ {k}
      /\ In(d, "Running") = In(c, "Running") \cup {k}
  BY <1>3, <1>7
<1> QED
  BY <1>4, <1>5, <1>6, <1>7, <1>8 DEF CollOK, d

(* One whose start failed goes back to the end of its list.                *)
LEMMA RequeuedOK ==
  ASSUME NEW c, CollOK(c), NEW k \in In(c, "Queued") \cup In(c, "Retry")
  PROVE  CollOK(Requeued(c, k)) /\ Keeps(c, Requeued(c, k))
<1> DEFINE d == Requeued(c, k)
           queued == Without(c.queued, k)
           retry == Without(c.retry, k)
<1>1. /\ c \in Collection /\ c.entries \in Seq(Entry) /\ k \in DOMAIN c.entries
      /\ k \in Nat /\ \A b : In(c, b) \subseteq Nat
  BY DEF CollOK, Collection, In
<1>2. /\ Enumerates(queued, In(c, "Queued") \ {k})
      /\ Enumerates(retry, In(c, "Retry") \ {k})
  BY TakenLists
<1>3. queued \in Seq(Nat) /\ retry \in Seq(Nat)
  BY <1>1, <1>2, EnumeratesIn
<1>4. /\ Taken(c, k) \in Collection
      /\ Taken(c, k) = [c EXCEPT !.queued = queued, !.retry = retry]
  <2>1. Taken(c, k) = [c EXCEPT !.queued = queued, !.retry = retry]
    BY DEF Taken
  <2> HIDE DEF queued, retry
  <2> QED
    BY <1>1, <1>3, <2>1 DEF Collection
<1> HIDE DEF queued, retry
<1>5. CASE c.entries[k].bucket = "Queued"
  <2> DEFINE more == Append(queued, k)
  <2>1. k \in In(c, "Queued") /\ k \notin In(c, "Retry")
    BY <1>1, <1>5 DEF In
  <2>2. Enumerates(more, In(c, "Queued"))
    <3>1. (In(c, "Queued") \ {k}) \cup {k} = In(c, "Queued")
      BY <2>1
    <3> QED
      BY <1>2, <3>1, AppendEnumerates
  <2>3. Enumerates(retry, In(c, "Retry"))
    <3>1. In(c, "Retry") \ {k} = In(c, "Retry")
      BY <2>1
    <3> QED
      BY <1>2, <3>1
  <2>4. more \in Seq(Nat)
    BY <1>1, <2>2, EnumeratesIn
  <2>5. d = [Taken(c, k) EXCEPT !.queued = more]
    BY <1>1, <1>4, <1>5 DEF Requeued, Collection
  <2> HIDE DEF d, more
  <2>6. /\ d \in Collection /\ d.entries = c.entries /\ d.next = c.next
        /\ d.queued = more /\ d.retry = retry /\ d.active = c.active
        /\ d.bucket = c.bucket /\ d.date = c.date
    BY <1>1, <1>3, <1>4, <2>4, <2>5 DEF Collection
  <2> QED
    BY <2>2, <2>3, <2>6 DEF CollOK, Keeps, HasEntry, Index, In, d
<1>6. CASE c.entries[k].bucket # "Queued"
  <2> DEFINE more == Append(retry, k)
  <2>1. k \in In(c, "Retry") /\ k \notin In(c, "Queued")
    BY <1>1, <1>6 DEF In
  <2>2. Enumerates(more, In(c, "Retry"))
    <3>1. (In(c, "Retry") \ {k}) \cup {k} = In(c, "Retry")
      BY <2>1
    <3> QED
      BY <1>2, <3>1, AppendEnumerates
  <2>3. Enumerates(queued, In(c, "Queued"))
    <3>1. In(c, "Queued") \ {k} = In(c, "Queued")
      BY <2>1
    <3> QED
      BY <1>2, <3>1
  <2>4. more \in Seq(Nat)
    BY <1>1, <2>2, EnumeratesIn
  <2>5. d = [Taken(c, k) EXCEPT !.retry = more]
    BY <1>1, <1>4, <1>6 DEF Requeued, Collection
  <2> HIDE DEF d, more
  <2>6. /\ d \in Collection /\ d.entries = c.entries /\ d.next = c.next
        /\ d.queued = queued /\ d.retry = more /\ d.active = c.active
        /\ d.bucket = c.bucket /\ d.date = c.date
    BY <1>1, <1>3, <1>4, <2>4, <2>5 DEF Collection
  <2> QED
    BY <2>2, <2>3, <2>6 DEF CollOK, Keeps, HasEntry, Index, In, d
<1> QED
  BY <1>5, <1>6

(* Its other fields change, not its entries.                               *)
LEMMA FieldsOK ==
  ASSUME NEW c, CollOK(c)
  PROVE  /\ CollOK(Primary(c)) /\ Keeps(c, Primary(c))
         /\ CollOK(Promoted(c)) /\ Promoted(c).bucket = "Running"
         /\ CollOK(Completed(c)) /\ Completed(c).bucket = "Completed"
         /\ \A d \in {Promoted(c), Completed(c)} :
              d.date = c.date /\ \A id : HasEntry(c, id) => HasEntry(d, id)
<1> DEFINE Same(d) ==
      /\ d \in Collection /\ d.entries = c.entries /\ d.next = c.next
      /\ d.queued = c.queued /\ d.retry = c.retry /\ d.active = c.active
      /\ d.date = c.date
<1>1. c \in Collection
  BY DEF CollOK
<1>2. /\ Same(Primary(c)) /\ Same(Promoted(c)) /\ Same(Completed(c))
      /\ Primary(c).bucket = c.bucket /\ Promoted(c).bucket = "Running"
      /\ Completed(c).bucket = "Completed"
  BY <1>1 DEF Primary, Promoted, Completed, Collection, CollState
<1>3. ASSUME NEW d, Same(d)
      PROVE  CollOK(d) /\ d.date = c.date /\ \A id : HasEntry(c, id) => HasEntry(d, id)
  BY <1>3 DEF CollOK, HasEntry, Index, In
<1> HIDE DEF Same
<1> QED
  BY <1>2, <1>3 DEF Keeps

-----------------------------------------------------------------------------
(***************************************************************************)
(* Files, read and written.                                                *)
(***************************************************************************)

LEMMA NamedEnumerates ==
  ASSUME NEW entries \in Seq(Entry), NEW bucket
  PROVE  Enumerates(Named(entries, bucket),
                    {k \in DOMAIN entries : entries[k].bucket = bucket})
<1> DEFINE S == {k \in DOMAIN entries : entries[k].bucket = bucket}
           key == [k \in DOMAIN entries |-> k]
<1>1. S \in SUBSET (1..Len(entries)) /\ \A k \in S : key[k] = k /\ key[k] \in Int
  OBVIOUS
<1>2. IsFiniteSet(S)
  <2>1. IsFiniteSet(1..Len(entries))
    BY FS_Interval
  <2> QED
    BY <1>1, <2>1, FS_Subset
<1>3. Named(entries, bucket) = InOrder(S, key)
  BY DEF Named
<1> HIDE DEF S, key
<1>4. \A x, y \in S : key[x] = key[y] => x = y
  BY <1>1
<1>5. Enumerates(InOrder(S, key), S)
  BY <1>1, <1>2, <1>4, InOrderEnumerates
<1> QED
  BY <1>3, <1>5 DEF S

(* The entries on file, each with the result on file.                      *)
LEMMA EntriesOK ==
  ASSUME NEW f, FileOK(f)
  PROVE  Entries(f) \in Seq(Entry) /\ \A k \in DOMAIN Entries(f) : Entries(f)[k].id # 0
<1> DEFINE S == f.shallow
           key == [e \in S |-> e.id]
           list == InOrder(S, key)
           Result(id) == {r \in f.result : r[1] = id}
           result(id) == IF Result(id) = {} THEN "none"
                         ELSE (CHOOSE r \in Result(id) : TRUE)[2]
<1>1. /\ S \in SUBSET Entry /\ IsFiniteSet(S) /\ f.result \in SUBSET (Nat \X TestResult)
      /\ \A e \in S : e.id \in Nat /\ e.id # 0
      /\ \A e, g \in S : e.id = g.id => e = g
  BY DEF FileOK, Entry
<1>2. /\ \A e \in S : key[e] \in Int /\ key[e] = e.id
      /\ \A e, g \in S : key[e] = key[g] => e = g
  BY <1>1
<1> HIDE DEF S, key
<1>3. list \in Seq(S)
  BY <1>1, <1>2, InOrderSorts
<1>4. ASSUME NEW id
      PROVE  result(id) \in TestResult
  <2>1. CASE Result(id) = {}
    BY <2>1 DEF TestResult
  <2>2. CASE Result(id) # {}
    <3>1. (CHOOSE r \in Result(id) : TRUE) \in f.result
      BY <2>2
    <3> QED
      BY <1>1, <2>2, <3>1
  <2> QED
    BY <2>1, <2>2
<1> DEFINE entry(k) == [list[k] EXCEPT !.result = result(list[k].id)]
<1>5. Entries(f) = [k \in DOMAIN list |-> entry(k)]
  BY DEF Entries, S, key
<1> HIDE DEF list, result
<1>6. ASSUME NEW k \in DOMAIN list
      PROVE  entry(k) \in Entry /\ entry(k).id # 0
  <2>1. list[k] \in Entry /\ list[k].id # 0
    BY <1>1, <1>3
  <2>2. result(list[k].id) \in TestResult
    BY <1>4
  <2> QED
    BY <2>1, <2>2 DEF Entry, TestResult
<1>7. Len(list) \in Nat /\ DOMAIN list = 1..Len(list)
  BY <1>3
<1> HIDE DEF entry
<1>8. /\ Entries(f) \in [1..Len(list) -> Entry] /\ DOMAIN Entries(f) = DOMAIN list
      /\ \A k \in DOMAIN list : Entries(f)[k].id # 0
  BY <1>5, <1>6, <1>7
<1>9. Entries(f) \in Seq(Entry)
  BY <1>7, <1>8
<1> QED
  BY <1>8, <1>9

LEMMA LoadedOK ==
  ASSUME NEW f, FileOK(f)
  PROVE  /\ CollOK(Loaded(f))
         /\ Loaded(f).bucket = f.entity.bucket /\ Loaded(f).date = f.entity.date
<1> DEFINE c == Loaded(f)
           entries == Entries(f)
           queued == Named(entries, "Queued")
           active == Named(entries, "Running")
           retry == Named(entries, "Retry")
<1>1. entries \in Seq(Entry) /\ \A k \in DOMAIN entries : entries[k].id # 0
  BY EntriesOK
<1>2. c = [bucket |-> f.entity.bucket, date |-> f.entity.date,
           started |-> f.entity.started, next |-> f.entity.next,
           entries |-> entries, queued |-> queued, active |-> active, retry |-> retry]
  BY DEF Loaded, Collected
<1> HIDE DEF entries
<1>3. /\ Enumerates(queued, {k \in DOMAIN entries : entries[k].bucket = "Queued"})
      /\ Enumerates(active, {k \in DOMAIN entries : entries[k].bucket = "Running"})
      /\ Enumerates(retry, {k \in DOMAIN entries : entries[k].bucket = "Retry"})
  BY <1>1, NamedEnumerates
<1>4. queued \in Seq(Nat) /\ active \in Seq(Nat) /\ retry \in Seq(Nat)
  <2>1. \A b : {k \in DOMAIN entries : entries[k].bucket = b} \subseteq Nat
    BY <1>1
  <2> HIDE DEF queued, active, retry
  <2> QED
    BY <1>3, <2>1, EnumeratesIn
<1> HIDE DEF c, queued, active, retry
<1>5. f.entity \in EntityRecord /\ f.entity.next # 0
  BY DEF FileOK
<1>6. c \in Collection
  BY <1>1, <1>2, <1>4, <1>5 DEF Collection, EntityRecord
<1>7. /\ c.entries = entries /\ c.queued = queued /\ c.active = active
      /\ c.retry = retry /\ c.next = f.entity.next
      /\ c.bucket = f.entity.bucket /\ c.date = f.entity.date
  BY <1>2
<1> QED
  BY <1>1, <1>3, <1>5, <1>6, <1>7 DEF CollOK, In, c

(* What is written of a collection keeps one file for each id.             *)
LEMMA FiledOK ==
  ASSUME CollsInv, FilesInv, DirtyInv, NEW u \in Uid,
         NEW some \in SUBSET dirty, NEW torn \in SUBSET dirty
  PROVE  /\ FileOK(Filed(u, some, torn))
         /\ Filed(u, some, torn).entity # saved[u].entity =>
              \/ Filed(u, some, torn).entity = NoEntity
              \/ Present(u) /\ Filed(u, some, torn).entity = Entity(coll[u])
<1> DEFINE c == coll[u]
           f == saved[u]
           Ids(items, kind) == {d.id : d \in {e \in items : e.uid = u /\ e.kind = kind}}
           now(kind) == {c.entries[Latest(c, id)] : id \in Ids(some, kind)}
           old(kind) == Ids(some \cup torn, kind)
           entity == IF EntityOf(u) \in some THEN Entity(c)
                     ELSE IF EntityOf(u) \in torn THEN NoEntity ELSE f.entity
           shallow == {e \in f.shallow : e.id \notin old("shallow")}
                        \cup {Shallow(e) : e \in now("shallow")}
           result == {r \in f.result : r[1] \notin old("result")}
                       \cup {<<e.id, e.result>> : e \in now("result")}
<1>1. Filed(u, some, torn) = [entity |-> entity, shallow |-> shallow, result |-> result]
  BY DEF Filed
<1>2. CollOK(c) /\ FileOK(f) /\ c \in Collection /\ c.entries \in Seq(Entry)
  BY DEF CollsInv, FilesInv, CollOK, Collection
<1>3. ASSUME NEW kind \in {"shallow", "result"}, NEW id \in Ids(some, kind)
      PROVE  /\ Latest(c, id) \in DOMAIN c.entries
             /\ c.entries[Latest(c, id)] \in Entry
             /\ c.entries[Latest(c, id)].id = id /\ id # 0
             /\ id \in old(kind)
  <2>1. PICK d \in some : d.uid = u /\ d.kind = kind /\ d.id = id
    OBVIOUS
  <2>2. HasEntry(c, id)
    BY <2>1 DEF DirtyInv, NotedOK
  <2>3. Latest(c, id) \in DOMAIN c.entries /\ c.entries[Latest(c, id)].id = id
    BY <1>2, <2>2, LatestIsThere
  <2>4. id \in old(kind)
    BY <2>1
  <2> QED
    BY <1>2, <2>3, <2>4 DEF CollOK
<1>4. entity \in EntityRecord /\ entity.next # 0
  <2>1. Entity(c) \in EntityRecord /\ Entity(c).next # 0
    BY <1>2 DEF Entity, EntityRecord, Collection, CollOK
  <2>2. NoEntity \in EntityRecord /\ NoEntity.next # 0
    BY NothingOK DEF NoEntity, Entity, EntityRecord, Collection, CollOK
  <2>3. f.entity \in EntityRecord /\ f.entity.next # 0
    BY <1>2 DEF FileOK
  <2> QED
    BY <2>1, <2>2, <2>3
<1>5. entity # f.entity => entity = NoEntity \/ (Present(u) /\ entity = Entity(c))
  <2>1. EntityOf(u).uid = u /\ EntityOf(u).kind = "entity"
    BY DEF EntityOf
  <2>2. EntityOf(u) \in some => Present(u)
    BY <2>1 DEF DirtyInv, NotedOK, Present
  <2> QED
    BY <2>2
<1> HIDE DEF entity, Ids
<1>6. ASSUME NEW e \in {Shallow(g) : g \in now("shallow")}
      PROVE  /\ e \in Entry /\ e.id # 0 /\ e.id \in old("shallow")
             /\ Latest(c, e.id) \in DOMAIN c.entries
             /\ e = Shallow(c.entries[Latest(c, e.id)])
  <2>1. PICK id \in Ids(some, "shallow") : e = Shallow(c.entries[Latest(c, id)])
    OBVIOUS
  <2>2. /\ c.entries[Latest(c, id)] \in Entry /\ Latest(c, id) \in DOMAIN c.entries
        /\ c.entries[Latest(c, id)].id = id /\ id # 0 /\ id \in old("shallow")
    BY <1>3
  <2>3. e \in Entry /\ e.id = id
    BY <2>1, <2>2 DEF Shallow, Entry
  <2> QED
    BY <2>1, <2>2, <2>3
<1>7. result \in SUBSET (Nat \X TestResult)
  <2>1. f.result \in SUBSET (Nat \X TestResult)
    BY <1>2 DEF FileOK
  <2>2. ASSUME NEW id \in Ids(some, "result")
        PROVE  <<c.entries[Latest(c, id)].id, c.entries[Latest(c, id)].result>>
                 \in Nat \X TestResult
    <3>1. c.entries[Latest(c, id)] \in Entry
      BY <1>3
    <3> QED
      BY <3>1 DEF Entry, TestResult
  <2> QED
    BY <2>1, <2>2
<1>8. IsFiniteSet(shallow)
  <2> DEFINE A == {e \in f.shallow : e.id \notin old("shallow")}
             B == {Shallow(e) : e \in now("shallow")}
             D == DOMAIN c.entries
             g == [k \in D |-> Shallow(c.entries[k])]
  <2>1. IsFiniteSet(A)
    <3>1. IsFiniteSet(f.shallow)
      BY <1>2 DEF FileOK
    <3> QED
      BY <3>1, FS_Subset
  <2>2. IsFiniteSet(D)
    <3>1. D = 1..Len(c.entries)
      BY <1>2
    <3> QED
      BY <1>2, <3>1, FS_Interval
  <2>3. g \in Surjection(D, {g[k] : k \in D})
    BY DEF Surjection
  <2>4. IsFiniteSet({g[k] : k \in D})
    BY <2>2, <2>3, FS_Surjection
  <2>5. B \subseteq {g[k] : k \in D}
    <3>1. ASSUME NEW e \in B
          PROVE  e \in {g[k] : k \in D}
      BY <1>6
    <3> QED
      BY <3>1
  <2>6. IsFiniteSet(B)
    BY <2>4, <2>5, FS_Subset
  <2> QED
    BY <2>1, <2>6, FS_Union
<1>9. /\ shallow \in SUBSET Entry /\ \A e \in shallow : e.id # 0
      /\ \A e, g \in shallow : e.id = g.id => e = g
  <2>1. /\ f.shallow \in SUBSET Entry /\ \A e \in f.shallow : e.id # 0
        /\ \A e, g \in f.shallow : e.id = g.id => e = g
    BY <1>2 DEF FileOK
  <2>2. ASSUME NEW e \in shallow
        PROVE  e \in Entry /\ e.id # 0
    BY <1>6, <2>1
  <2>3. ASSUME NEW e \in shallow, NEW g \in shallow, e.id = g.id
        PROVE  e = g
    BY <1>6, <2>1, <2>3
  <2> QED
    BY <2>2, <2>3
<1> HIDE DEF shallow, result
<1> QED
  BY <1>1, <1>4, <1>5, <1>7, <1>8, <1>9 DEF FileOK

-----------------------------------------------------------------------------
(***************************************************************************)
(* The invariant is inductive.                                             *)
(***************************************************************************)

(* The parts of it that are about the database and its files.              *)
DataInv == CollsInv /\ FilesInv /\ DirtyInv /\ LineInv /\ DateInv

LEMMA SameData ==
  ASSUME DataInv, UNCHANGED <<coll, saved, waiting, running, submitted>>,
         \A d \in dirty' : d \in dirty \/ (d.uid \in Uid /\ NotedOK(d, coll[d.uid])),
         At("down")' => dirty' = {}
  PROVE  DataInv'
<1>1. CollsInv' /\ FilesInv' /\ LineInv'
  BY DEF DataInv, CollsInv, FilesInv, LineInv
<1>2. DateInv'
  <2>1. \A v : Dates(v)' = Dates(v)
    BY DEF Dates, Present
  <2> QED
    BY <2>1 DEF DataInv, DateInv
<1>3. DirtyInv'
  BY DEF DataInv, DirtyInv
<1> QED
  BY <1>1, <1>2, <1>3 DEF DataInv

(* Collections stay where they are in line.                                *)
Stays ==
  \A u \in Uid : coll'[u].bucket = coll[u].bucket /\ coll'[u].date = coll[u].date

(* A turn of u, in which its collection becomes d.                         *)
LEMMA TurnOK ==
  ASSUME DataInv, NEW u \in Uid, NEW d, CollOK(d), Keeps(coll[u], d),
         coll' = [coll EXCEPT ![u] = d], UNCHANGED <<saved, waiting, running, submitted>>,
         \A n \in dirty' : n \in dirty \/ (n.uid = u /\ NotedOK(n, d)),
         At("down")' => dirty' = {}
  PROVE  DataInv' /\ Stays
<1>1. /\ DOMAIN coll' = Uid /\ coll'[u] = d
      /\ \A v \in Uid : v # u => coll'[v] = coll[v]
      /\ \A v \in Uid : coll'[v].bucket = coll[v].bucket /\ coll'[v].date = coll[v].date
  BY DEF DataInv, CollsInv, Keeps
<1>2. CollsInv' /\ FilesInv'
  BY <1>1 DEF DataInv, CollsInv, FilesInv
<1>3. LineInv'
  BY <1>1 DEF DataInv, LineInv
<1>4. DateInv'
  <2>1. \A v \in Uid : Present(v)' <=> Present(v)
    BY <1>1 DEF Present
  <2>2. \A v \in Uid : Dates(v)' = Dates(v)
    BY <1>1, <2>1 DEF Dates
  <2> QED
    BY <2>2 DEF DataInv, DateInv
<1>5. DirtyInv'
  <2>1. ASSUME NEW n \in dirty, n.uid \in Uid, NotedOK(n, coll[n.uid])
        PROVE  NotedOK(n, coll'[n.uid])
    BY <1>1, <2>1 DEF NotedOK, Keeps
  <2> QED
    BY <1>1, <2>1 DEF DataInv, DirtyInv
<1> QED
  BY <1>1, <1>2, <1>3, <1>4, <1>5 DEF DataInv, Stays

(* The collection whose turn it is.                                        *)
LEMMA CurrentRuns ==
  ASSUME DataInv, worker.index \in DOMAIN running
  PROVE  Current \in Uid /\ CollOK(coll[Current]) /\ coll[Current].bucket = "Running"
<1>1. Current \in {u \in Uid : coll[u].bucket = "Running"}
  BY DEF DataInv, LineInv, Enumerates, Current
<1> QED
  BY <1>1 DEF DataInv, CollsInv

(* A turn ends.                                                            *)
LEMMA FinishTurnOK ==
  ASSUME ListsInv, worker.index \in DOMAIN running, NEW c, CollOK(c),
         Keeps(coll[Current], c), NEW changed, FinishTurn(c, dirty, changed),
         UNCHANGED <<saved, waiting, running, submitted>>, ClusterInv'
  PROVE  ListsInv' /\ Stays
<1>1. DataInv /\ WorkInv
  BY DEF ListsInv, DataInv
<1> DEFINE first == worker.index = 1 /\ ~c.started
           d == IF first THEN Primary(c) ELSE c
<1>2. PICK u : u = Current
  OBVIOUS
<1>3. u \in Uid /\ coll[u].bucket = "Running"
  BY <1>1, <1>2, CurrentRuns
<1>4. /\ coll' = [coll EXCEPT ![u] = d]
      /\ dirty' = dirty \cup (IF first THEN {EntityOf(u)} ELSE {})
  BY <1>2 DEF FinishTurn
<1>5. CollOK(d) /\ Keeps(coll[u], d)
  <2>1. CollOK(Primary(c)) /\ Keeps(c, Primary(c))
    BY FieldsOK
  <2> QED
    BY <1>2, <2>1 DEF Keeps
<1>6. \A n \in dirty' : n \in dirty \/ (n.uid = u /\ NotedOK(n, d))
  BY <1>3, <1>4, <1>5 DEF EntityOf, NotedOK, Keeps
<1>7. WorkerOK(worker') /\ worker'.at = "pass" /\ worker'.index # 0
  <2>1. WorkerOK(Idle) /\ worker.changed \subseteq Uid /\ worker.index \in Nat
    BY <1>1 DEF WorkInv, WorkerOK, Idle
  <2>2. CASE changed
    <3>1. worker' = [Idle EXCEPT !.at = "pass", !.changed = worker.changed \cup {u}]
      BY <1>2, <2>2 DEF FinishTurn
    <3> QED
      BY <1>3, <2>1, <3>1 DEF WorkerOK, Idle
  <2>3. CASE ~changed
    <3>1. \E q : worker' = [Idle EXCEPT !.at = "pass", !.changed = worker.changed,
                                        !.index = worker.index + 1, !.queue = q]
      BY <2>3 DEF FinishTurn
    <3>2. worker.index + 1 \in Nat /\ worker.index + 1 # 0
      BY <2>1
    <3> QED
      BY <2>1, <3>1, <3>2 DEF WorkerOK, Idle
  <2> QED
    BY <2>2, <2>3
<1>8. DataInv' /\ Stays
  BY <1>1, <1>3, <1>4, <1>5, <1>6, <1>7, TurnOK DEF At
<1>9. WorkInv'
  BY <1>7 DEF WorkInv, Turn
<1> QED
  BY <1>8, <1>9 DEF ListsInv, DataInv

LEMMA NewJobOK ==
  ASSUME NEW u \in Uid, NEW id \in Nat, FreeCopies(u, id) # {}
  PROVE  NewJob(u, id) \in Job
<1>1. FreeCopies(u, id) \in SUBSET Nat /\ FreeCopies(u, id) \subseteq 1..MaxCopies
  BY TestAssumption DEF FreeCopies
<1>2. PICK least \in FreeCopies(u, id) : \A m \in FreeCopies(u, id) : least <= m
  BY <1>1, Least
<1> DEFINE copy == CHOOSE n \in FreeCopies(u, id) : \A m \in FreeCopies(u, id) : n <= m
<1>3. copy \in 1..MaxCopies
  BY <1>1, <1>2
<1>4. NewJob(u, id) = [uid |-> u, id |-> id, state |-> "pending", copy |-> copy]
  BY DEF NewJob
<1> HIDE DEF copy
<1> QED
  BY <1>3, <1>4 DEF Job, JobState

LEMMA RegisterOK ==
  ASSUME ListsInv, NEW u \in Uid, Reconcile(u)
  PROVE  ListsInv'
<1>1. DataInv /\ ClusterInv /\ WorkInv /\ ClusterInv'
  BY DEF ListsInv, DataInv, Reconcile, ClusterInv, clusterVars
<1>2. CASE ~(u \in alive /\ ~Present(u))
  <2>1. /\ UNCHANGED <<coll, saved, waiting, running, submitted, dirty>>
        /\ worker' = [Idle EXCEPT !.at = "pass"]
    BY <1>2 DEF Reconcile
  <2>2. WorkInv' /\ ~At("down")'
    BY <2>1 DEF WorkInv, WorkerOK, Idle, Turn, At
  <2>3. DataInv'
    BY <1>1, <2>1, <2>2, SameData
  <2> QED
    BY <1>1, <2>2, <2>3 DEF ListsInv, DataInv
<1>3. CASE u \in alive /\ ~Present(u)
  <2> DEFINE c == NewCollection(NumTests[u], submitted + 1)
  <2>1. /\ coll' = [coll EXCEPT ![u] = c] /\ submitted' = submitted + 1
        /\ waiting' = Append(waiting, u) /\ UNCHANGED <<running, saved>>
        /\ dirty' = dirty \cup {EntityOf(u)} \cup {ShallowOf(u, i) : i \in 1..NumTests[u]}
        /\ worker' = [Idle EXCEPT !.at = "register"]
    BY <1>3 DEF Reconcile, Register, Note
  <2>2. /\ CollOK(c) /\ c.bucket = "Waiting" /\ c.date = submitted + 1
        /\ \A i \in 1..NumTests[u] : HasEntry(c, i)
    <3>1. NumTests[u] \in Nat \ {0} /\ submitted + 1 \in Nat
      BY <1>1, TestAssumption DEF DataInv, DateInv
    <3> QED
      BY <3>1, NewCollectionOK
  <2> HIDE DEF c
  <2>3. /\ coll[u].bucket = "absent" /\ DOMAIN coll' = Uid /\ coll'[u] = c
        /\ \A v \in Uid : v # u => coll'[v] = coll[v]
    BY <1>1, <1>3, <2>1 DEF Present, DataInv, CollsInv
  <2>4. CollsInv' /\ FilesInv'
    BY <1>1, <2>1, <2>2, <2>3 DEF DataInv, CollsInv, FilesInv
  <2>5. WorkInv' /\ ~At("down")'
    BY <2>1 DEF WorkInv, WorkerOK, Idle, Turn, At
  <2>6. LineInv'
    <3>1. /\ {v \in Uid : coll'[v].bucket = "Running"} = {v \in Uid : coll[v].bucket = "Running"}
          /\ {v \in Uid : coll'[v].bucket = "Waiting"}
               = {v \in Uid : coll[v].bucket = "Waiting"} \cup {u}
          /\ u \notin {v \in Uid : coll[v].bucket = "Waiting"}
      BY <2>2, <2>3
    <3>2. /\ Enumerates(running, {v \in Uid : coll[v].bucket = "Running"})
          /\ Enumerates(waiting, {v \in Uid : coll[v].bucket = "Waiting"})
      BY <1>1 DEF DataInv, LineInv
    <3>3. Enumerates(Append(waiting, u), {v \in Uid : coll[v].bucket = "Waiting"} \cup {u})
      BY <3>1, <3>2, AppendEnumerates
    <3> QED
      BY <2>1, <3>1, <3>2, <3>3 DEF LineInv
  <2>7. DateInv'
    <3>1. \A v \in Uid : v # u => Dates(v)' = Dates(v)
      BY <2>1, <2>3 DEF Dates, Present
    <3>2. Dates(u)' \subseteq Dates(u) \cup {submitted + 1}
      BY <2>1, <2>2, <2>3 DEF Dates, Present
    <3>3. submitted \in Nat /\ \A v \in Uid : \A d \in Dates(v) : d <= submitted
      BY <1>1 DEF DataInv, DateInv
    <3>4. \A v \in Uid : Dates(v) \subseteq Int
      BY <1>1 DEF Dates, DataInv, CollsInv, CollOK, Collection, FilesInv, FileOK, EntityRecord
    <3>5. \A v \in Uid : submitted + 1 \notin Dates(v)
      BY <3>3
    <3>6. \A v \in Uid : \A d \in Dates(v)' : d <= submitted + 1
      BY <3>1, <3>2, <3>3, <3>4
    <3>7. \A v, w \in Uid : Dates(v)' \cap Dates(w)' # {} => v = w
      <4>1. \A v, w \in Uid : Dates(v) \cap Dates(w) # {} => v = w
        BY <1>1 DEF DataInv, DateInv
      <4> QED
        BY <3>1, <3>2, <3>5, <4>1
    <3> QED
      BY <2>1, <3>3, <3>6, <3>7 DEF DateInv
  <2>8. DirtyInv'
    <3>1. ASSUME NEW d \in dirty
          PROVE  d.uid \in Uid /\ NotedOK(d, coll'[d.uid])
      <4>1. d.uid \in Uid /\ NotedOK(d, coll[d.uid])
        BY <1>1 DEF DataInv, DirtyInv
      <4>2. d.uid # u
        BY <2>3, <4>1 DEF NotedOK
      <4> QED
        BY <2>3, <4>1, <4>2
    <3>2. ASSUME NEW d \in {EntityOf(u)} \cup {ShallowOf(u, i) : i \in 1..NumTests[u]}
          PROVE  d.uid = u /\ NotedOK(d, c)
      BY <2>2 DEF NotedOK, EntityOf, ShallowOf
    <3> QED
      BY <2>1, <2>3, <2>5, <3>1, <3>2 DEF DirtyInv
  <2> QED
    BY <1>1, <2>4, <2>5, <2>6, <2>7, <2>8 DEF ListsInv
<1> QED
  BY <1>2, <1>3

(* The steps of a turn.                                                    *)
LEMMA ListOK ==
  ASSUME ListsInv, ListJobs \/ ListFails
  PROVE  ListsInv' /\ Stays
<1>1. DataInv /\ ClusterInv /\ WorkInv
  BY DEF ListsInv, DataInv
<1>2. worker.index \in DOMAIN running
  <2>1. worker.index \in Nat /\ worker.index # 0 /\ worker.index <= Len(running)
    BY <1>1 DEF WorkInv, WorkerOK, ListJobs, ListFails, HasTurn
  <2>2. running \in Seq({u \in Uid : coll[u].bucket = "Running"})
    BY <1>1 DEF DataInv, LineInv, Enumerates
  <2> QED
    BY <2>1, <2>2
<1>3. ClusterInv'
  BY <1>1 DEF ClusterInv, ListJobs, ListFails, clusterVars, memory
<1>4. CASE ListJobs
  <2>1. /\ UNCHANGED <<coll, saved, waiting, running, submitted, dirty>>
        /\ worker' = [worker EXCEPT
                        !.at = IF Listed(Current) = {} THEN "start" ELSE "examine",
                        !.todo = Listed(Current), !.slots = Slots(Current)]
    BY <1>4 DEF ListJobs, memory
  <2>2. /\ WorkerOK(worker') /\ worker'.index = worker.index
        /\ worker'.at # "down" /\ worker'.todo = Listed(Current)
    BY <1>1, <2>1 DEF WorkInv, WorkerOK, Idle
  <2>3. \A j \in Listed(Current) : HasEntry(coll[Current], j.id)
    BY DEF Listed
  <2>4. Current' = Current
    BY <2>1, <2>2 DEF Current
  <2>5. WorkInv'
    BY <1>1, <1>2, <2>1, <2>2, <2>3, <2>4 DEF WorkInv
  <2>6. DataInv'
    BY <1>1, <2>1, <2>2, SameData DEF At
  <2> QED
    BY <1>3, <2>1, <2>5, <2>6 DEF ListsInv, DataInv, Stays
<1>5. CASE ListFails
  <2>1. FinishTurn(coll[Current], dirty, FALSE) /\ UNCHANGED <<saved, waiting, running, submitted>>
    BY <1>5 DEF ListFails
  <2>2. CollOK(coll[Current]) /\ Keeps(coll[Current], coll[Current])
    BY <1>1, <1>2, CurrentRuns DEF Keeps
  <2> QED
    BY <1>2, <1>3, <2>1, <2>2, FinishTurnOK
<1> QED
  BY <1>4, <1>5

LEMMA KilledJobs ==
  ASSUME NEW j, KillIfOverdue(j)
  PROVE  jobs' \subseteq jobs
BY DEF KillIfOverdue

LEMMA ExamineOK ==
  ASSUME ListsInv, NEW j \in worker.todo, Examine(j)
  PROVE  ListsInv' /\ Stays
<1>1. DataInv /\ ClusterInv /\ WorkInv /\ worker.at = "examine"
  BY DEF ListsInv, DataInv, Examine, ExamineAgain, ExamineJob, ExamineHangs, At
<1>2. worker.index \in DOMAIN running
  BY <1>1 DEF WorkInv, Turn
<1>3. ClusterInv'
  <2>1. jobs' \subseteq jobs /\ UNCHANGED <<alive, born, recent>>
    BY KilledJobs DEF Examine, ExamineAgain, ExamineJob, ExamineHangs, clusterVars, memory
  <2> QED
    BY <1>1, <2>1 DEF ClusterInv
<1>4. PICK u : u = Current
  OBVIOUS
<1>5. /\ u \in Uid /\ CollOK(coll[u]) /\ coll[u].bucket = "Running"
      /\ \A i \in worker.todo : HasEntry(coll[u], i.id)
  BY <1>1, <1>2, <1>4, CurrentRuns DEF WorkInv
<1>6. CASE ExamineAgain(j)
  <2>1. /\ UNCHANGED <<coll, saved, waiting, running, submitted, dirty>>
        /\ worker' = [worker EXCEPT !.todo = @ \ {j}]
    BY <1>6 DEF ExamineAgain, memory
  <2>2. /\ WorkerOK(worker') /\ worker'.index = worker.index
        /\ worker'.at = worker.at /\ worker'.todo \subseteq worker.todo
    BY <1>1, <2>1 DEF WorkInv, WorkerOK, Idle
  <2>3. Current' = Current
    BY <2>1, <2>2 DEF Current
  <2>4. WorkInv'
    BY <1>1, <1>2, <2>1, <2>2, <2>3 DEF WorkInv
  <2>5. DataInv'
    BY <1>1, <2>1, <2>2, SameData DEF At
  <2> QED
    BY <1>3, <2>1, <2>4, <2>5 DEF ListsInv, DataInv, Stays
<1>7. CASE ExamineHangs(j)
  <2>1. /\ UNCHANGED <<coll, saved, waiting, running, submitted, dirty>>
        /\ worker' = Hung
    BY <1>7 DEF ExamineHangs, memory
  <2>2. WorkInv' /\ ~At("down")'
    BY <2>1 DEF WorkInv, WorkerOK, Hung, Idle, Turn, At
  <2>3. DataInv'
    BY <1>1, <2>1, <2>2, SameData
  <2> QED
    BY <1>3, <2>1, <2>2, <2>3 DEF ListsInv, DataInv, Stays
<1>8. CASE ExamineJob(j)
  <2> DEFINE c == Marked(coll[u], j)
             matched == Of(c, j) # <<>>
             a == Head(Of(c, j))
  <2>1. PICK result \in Outcomes(j) :
          /\ coll' = [coll EXCEPT ![u] = IF matched THEN Ended(c, a, result) ELSE c]
          /\ dirty' = dirty \cup ({ShallowOf(u, j.id)}
                        \cup (IF matched THEN Written(u, c, a, result) ELSE {}))
    BY <1>4, <1>8 DEF ExamineJob, Note
  <2>2. /\ worker' = [worker EXCEPT !.todo = @ \ {j}, !.touched = @ \/ matched]
        /\ UNCHANGED <<saved, waiting, running, submitted>>
    BY <1>4, <1>8 DEF ExamineJob
  <2>3. result \in {"pass", "fail"}
    BY DEF Outcomes, Verdict
  <2>4. CollOK(c) /\ Keeps(coll[u], c) /\ HasEntry(coll[u], j.id)
    BY <1>5, MarkedOK
  <2> HIDE DEF c
  <2>5. matched => a \in In(c, "Running")
    BY <2>4, OfIn
  <2> DEFINE d == IF matched THEN Ended(c, a, result) ELSE c
  <2>6. CollOK(d) /\ Keeps(c, d)
    <3>1. CASE matched
      BY <2>3, <2>4, <2>5, <3>1, EndedOK
    <3>2. CASE ~matched
      BY <2>4, <3>2 DEF Keeps
    <3> QED
      BY <3>1, <3>2
  <2>7. ASSUME matched
        PROVE  \A n \in Written(u, c, a, result) : n.uid = u /\ NotedOK(n, d)
    <3>1. CollOK(d) /\ Keeps(c, d) /\ c.bucket = "Running" /\ d.bucket = "Running"
      BY <1>5, <2>4, <2>6 DEF Keeps
    <3>2. HasEntry(d, c.entries[a].id)
      <4>1. HasEntry(c, c.entries[a].id)
        BY <2>5, <2>7 DEF HasEntry, Index, In
      <4> QED
        BY <3>1, <4>1 DEF Keeps
    <3>3. result = "fail" /\ Retried(c, a) => HasEntry(d, c.next)
      BY <2>3, <2>4, <2>5, <2>7, EndedOK
    <3>4. ASSUME NEW n \in Written(u, c, a, result)
          PROVE  n.uid = u /\ (HasEntry(d, n.id))
      BY <3>2, <3>3 DEF Written, ShallowOf, ResultOf
    <3> QED
      BY <3>1, <3>4 DEF NotedOK
  <2>8. Keeps(coll[u], d)
    BY <2>4, <2>6 DEF Keeps
  <2>9. ShallowOf(u, j.id).uid = u /\ NotedOK(ShallowOf(u, j.id), d)
    BY <1>5, <2>4, <2>8 DEF NotedOK, ShallowOf, Keeps
  <2> HIDE DEF d, matched, a
  <2>10. coll' = [coll EXCEPT ![u] = d]
    BY <2>1 DEF d
  <2>11. \A n \in dirty' : n \in dirty \/ (n.uid = u /\ NotedOK(n, d))
    BY <2>1, <2>7, <2>9
  <2>12. /\ WorkerOK(worker') /\ worker'.index = worker.index
         /\ worker'.at = worker.at /\ worker'.todo \subseteq worker.todo
    BY <1>1, <2>2 DEF WorkInv, WorkerOK, Idle
  <2>13. DataInv' /\ Stays
    BY <1>1, <1>5, <2>2, <2>6, <2>8, <2>10, <2>11, <2>12, TurnOK DEF At
  <2>14. WorkInv'
    <3>1. Current' = u /\ coll'[u] = d
      BY <1>1, <1>4, <1>5, <2>2, <2>10, <2>12 DEF Current, DataInv, CollsInv
    <3>2. \A i \in worker'.todo : HasEntry(coll'[u], i.id)
      BY <1>5, <2>8, <2>12, <3>1 DEF Keeps
    <3> QED
      BY <1>1, <1>2, <2>2, <2>12, <3>1, <3>2 DEF WorkInv
  <2> QED
    BY <1>3, <2>13, <2>14 DEF ListsInv, DataInv
<1> QED
  BY <1>6, <1>7, <1>8 DEF Examine

LEMMA ExaminedOK ==
  ASSUME ListsInv, Examined
  PROVE  ListsInv' /\ Stays
<1>1. DataInv /\ ClusterInv /\ WorkInv /\ worker.at = "examine"
  BY DEF ListsInv, DataInv, Examined, At
<1>2. worker.index \in DOMAIN running
  BY <1>1 DEF WorkInv, Turn
<1>3. ClusterInv'
  BY <1>1 DEF ClusterInv, Examined, clusterVars
<1>4. CASE worker.touched
  <2>1. FinishTurn(coll[Current], dirty, TRUE) /\ UNCHANGED <<saved, waiting, running, submitted>>
    BY <1>4 DEF Examined
  <2>2. CollOK(coll[Current]) /\ Keeps(coll[Current], coll[Current])
    BY <1>1, <1>2, CurrentRuns DEF Keeps
  <2> QED
    BY <1>2, <1>3, <2>1, <2>2, FinishTurnOK
<1>5. CASE ~worker.touched
  <2>1. /\ UNCHANGED <<coll, saved, waiting, running, submitted, dirty>>
        /\ worker' = [worker EXCEPT !.at = "start"]
    BY <1>5 DEF Examined, Goto
  <2>2. /\ WorkerOK(worker') /\ worker'.index = worker.index /\ worker'.at = "start"
    BY <1>1, <2>1 DEF WorkInv, WorkerOK, Idle
  <2>3. WorkInv'
    BY <1>1, <1>2, <2>1, <2>2 DEF WorkInv
  <2>4. DataInv'
    BY <1>1, <2>1, <2>2, SameData DEF At
  <2> QED
    BY <1>3, <2>1, <2>3, <2>4 DEF ListsInv, DataInv, Stays
<1> QED
  BY <1>4, <1>5

LEMMA StartOK ==
  ASSUME ListsInv, Start
  PROVE  ListsInv' /\ Stays
<1>1. DataInv /\ ClusterInv /\ WorkInv /\ worker.at = "start"
  BY DEF ListsInv, DataInv, Start, StartTest, StartFails, StartUnacknowledged, StartNoMore,
     MayStart, At
<1>2. worker.index \in DOMAIN running
  BY <1>1 DEF WorkInv, Turn
<1>3. PICK u : u = Current
  OBVIOUS
<1>4. u \in Uid /\ CollOK(coll[u]) /\ coll[u].bucket = "Running"
  BY <1>1, <1>2, <1>3, CurrentRuns
<1> DEFINE c == coll[u]
           k == Head(Startable(c))
           id == c.entries[k].id
<1>5. MayStart => /\ k \in In(c, "Queued") \cup In(c, "Retry")
                  /\ k \in DOMAIN c.entries /\ id \in Nat
  <2>1. MayStart => k \in In(c, "Queued") \cup In(c, "Retry")
    BY <1>3, <1>4, StartableIn DEF MayStart
  <2>2. c.entries \in Seq(Entry)
    BY <1>4 DEF CollOK, Collection
  <2>3. k \in In(c, "Queued") \cup In(c, "Retry") => k \in DOMAIN c.entries /\ c.entries[k] \in Entry
    BY <2>2 DEF In
  <2> QED
    BY <2>1, <2>3 DEF Entry
<1>6. CASE StartTest
  <2> DEFINE d == Started(c, k)
  <2>1. /\ MayStart /\ FreeCopies(u, id) # {} /\ jobs' = jobs \cup {NewJob(u, id)}
        /\ coll' = [coll EXCEPT ![u] = d]
        /\ recent' = Append(recent, FALSE)
        /\ dirty' = dirty \cup {ShallowOf(u, id)}
        /\ worker' = [worker EXCEPT !.slots = @ - 1, !.touched = TRUE]
        /\ UNCHANGED <<alive, born, waiting, running, saved, submitted>>
    BY <1>3, <1>6 DEF StartTest, Started, Timed, Unfiled, Note
  <2>2. ClusterInv'
    <3>1. NewJob(u, id) \in Job
      BY <1>4, <1>5, <2>1, NewJobOK
    <3> QED
      BY <1>1, <2>1, <3>1 DEF ClusterInv
  <2>3. CollOK(d) /\ Keeps(c, d)
    BY <1>4, <1>5, <2>1, StartedOK
  <2>4. HasEntry(c, id)
    BY <1>5, <2>1 DEF HasEntry, Index
  <2>5. /\ WorkerOK(worker') /\ worker'.index = worker.index /\ worker'.at = "start"
    BY <1>1, <2>1 DEF WorkInv, WorkerOK, Idle
  <2>6. WorkInv'
    BY <1>1, <1>2, <2>1, <2>5 DEF WorkInv
  <2>7. ShallowOf(u, id).uid = u /\ NotedOK(ShallowOf(u, id), d)
    BY <1>4, <2>3, <2>4 DEF NotedOK, ShallowOf, Keeps
  <2> HIDE DEF d, id
  <2>8. DataInv' /\ Stays
    BY <1>1, <1>4, <2>1, <2>3, <2>5, <2>7, TurnOK DEF At
  <2> QED
    BY <2>2, <2>6, <2>8 DEF ListsInv, DataInv
<1>7. CASE StartFails \/ StartUnacknowledged
  <2>1. /\ MayStart /\ FinishTurn(Requeued(c, k), dirty, TRUE)
        /\ UNCHANGED <<alive, born, waiting, running, recent, saved, submitted>>
    BY <1>3, <1>7 DEF StartFails, StartUnacknowledged, StartFailed, clusterVars
  <2>2. jobs' \subseteq Job
    <3>1. CASE StartFails
      BY <1>1, <3>1 DEF StartFails, clusterVars, ClusterInv
    <3>2. CASE StartUnacknowledged
      <4>1. jobs' = jobs \cup {NewJob(u, id)} /\ Cardinality(FreeCopies(u, id)) > 1
        BY <1>3, <3>2 DEF StartUnacknowledged
      <4>2. FreeCopies(u, id) # {}
        BY <4>1, FS_EmptySet
      <4> HIDE DEF id
      <4> QED
        BY <1>1, <1>4, <1>5, <2>1, <4>1, <4>2, NewJobOK DEF ClusterInv
    <3> QED
      BY <1>7, <3>1, <3>2
  <2>3. ClusterInv'
    BY <1>1, <2>1, <2>2 DEF ClusterInv
  <2>4. CollOK(Requeued(c, k)) /\ Keeps(c, Requeued(c, k))
    BY <1>4, <1>5, <2>1, RequeuedOK
  <2> QED
    BY <1>2, <1>3, <2>1, <2>3, <2>4, FinishTurnOK
<1>8. CASE StartNoMore
  <2>1. /\ FinishTurn(c, dirty, worker.touched)
        /\ UNCHANGED <<alive, born, jobs, waiting, running, recent, saved, submitted>>
    BY <1>3, <1>8 DEF StartNoMore, clusterVars
  <2>2. ClusterInv' /\ CollOK(c) /\ Keeps(c, c)
    BY <1>1, <1>4, <2>1 DEF ClusterInv, Keeps
  <2> QED
    BY <1>2, <1>3, <2>1, <2>2, FinishTurnOK
<1> QED
  BY <1>6, <1>7, <1>8 DEF Start

(* The lines change.                                                       *)
LEMMA PromoteOK ==
  ASSUME ListsInv, Promote
  PROVE  ListsInv'
<1>1. DataInv /\ ClusterInv /\ WorkInv
  BY DEF ListsInv, DataInv
<1> DEFINE R == {v \in Uid : coll[v].bucket = "Running"}
           W == {v \in Uid : coll[v].bucket = "Waiting"}
<1>2. Enumerates(running, R) /\ Enumerates(waiting, W) /\ waiting # <<>>
  BY <1>1 DEF DataInv, LineInv, Promote, MayPromote
<1>3. PICK u : u = Head(waiting)
  OBVIOUS
<1> DEFINE c == Promoted(coll[u])
<1>4. /\ running' = Append(running, u) /\ waiting' = Tail(waiting)
      /\ coll' = [coll EXCEPT ![u] = c]
      /\ dirty' = dirty \cup {EntityOf(u)}
      /\ worker' = [Idle EXCEPT !.at = "pass", !.changed = worker.changed \cup {u}]
      /\ UNCHANGED <<alive, born, jobs, recent, saved, submitted>>
  BY <1>3 DEF Promote, Note, clusterVars
<1>5. u \in W /\ Enumerates(Tail(waiting), W \ {u})
  BY <1>2, <1>3, TailEnumerates
<1>6. u \notin R /\ Enumerates(Append(running, u), R \cup {u})
  BY <1>2, <1>5, AppendEnumerates
<1>7. /\ CollOK(c) /\ c.bucket = "Running" /\ c.date = coll[u].date
      /\ \A id : HasEntry(coll[u], id) => HasEntry(c, id)
  BY <1>1, <1>5, FieldsOK DEF DataInv, CollsInv
<1> HIDE DEF c
<1>8. /\ DOMAIN coll' = Uid /\ coll'[u] = c /\ u \in Uid
      /\ \A v \in Uid : v # u => coll'[v] = coll[v]
  BY <1>1, <1>4, <1>5 DEF DataInv, CollsInv
<1>9. CollsInv' /\ FilesInv' /\ ClusterInv'
  BY <1>1, <1>4, <1>7, <1>8 DEF DataInv, CollsInv, FilesInv, ClusterInv
<1>10. WorkInv' /\ ~At("down")'
  BY <1>1, <1>4, <1>8 DEF WorkInv, WorkerOK, Idle, Turn, At
<1>11. LineInv'
  <2>1. /\ {v \in Uid : coll'[v].bucket = "Running"} = R \cup {u}
        /\ {v \in Uid : coll'[v].bucket = "Waiting"} = W \ {u}
    BY <1>7, <1>8
  <2> HIDE DEF R, W
  <2> QED
    BY <1>4, <1>5, <1>6, <2>1 DEF LineInv
<1>12. DateInv'
  <2>1. Present(u) /\ Present(u)' /\ \A v \in Uid : v # u => (Present(v)' <=> Present(v))
    BY <1>5, <1>7, <1>8 DEF Present
  <2>2. \A v \in Uid : Dates(v)' = Dates(v)
    BY <1>4, <1>7, <1>8, <2>1 DEF Dates
  <2> QED
    BY <1>1, <1>4, <2>2 DEF DataInv, DateInv
<1>13. DirtyInv'
  <2>1. ASSUME NEW d \in dirty
        PROVE  d.uid \in Uid /\ NotedOK(d, coll'[d.uid])
    <3>1. d.uid \in Uid /\ NotedOK(d, coll[d.uid])
      BY <1>1 DEF DataInv, DirtyInv
    <3> QED
      BY <1>7, <1>8, <3>1 DEF NotedOK
  <2>2. EntityOf(u).uid = u /\ NotedOK(EntityOf(u), c)
    BY <1>7 DEF EntityOf, NotedOK
  <2> QED
    BY <1>4, <1>8, <1>10, <2>1, <2>2 DEF DirtyInv
<1> QED
  BY <1>9, <1>10, <1>11, <1>12, <1>13 DEF ListsInv

LEMMA SettleOK ==
  ASSUME ListsInv, Settle
  PROVE  ListsInv'
<1>1. DataInv /\ ClusterInv /\ WorkInv
  BY DEF ListsInv, DataInv
<1> DEFINE R == {v \in Uid : coll[v].bucket = "Running"}
           W == {v \in Uid : coll[v].bucket = "Waiting"}
<1>2. PICK gone \in SUBSET Gone :
        /\ coll' = [u \in Uid |-> IF u \in gone THEN NoCollection
                                  ELSE IF u \in Completing THEN Completed(coll[u])
                                  ELSE coll[u]]
        /\ waiting' = Dropped(waiting, gone)
        /\ running' = Dropped(running, gone \cup Completing)
        /\ dirty' = {d \in dirty : d.uid \notin gone}
                      \cup {EntityOf(u) : u \in Completing \ gone}
        /\ worker' = [Idle EXCEPT !.at = "resolve", !.doomed = gone,
                                  !.changed = worker.changed \cup Completing]
  BY DEF Settle
<1>3. UNCHANGED <<alive, born, jobs, recent, saved, submitted>>
  BY DEF Settle, clusterVars
<1>4. gone \subseteq Uid /\ Completing \subseteq R /\ Completing \subseteq Uid
  BY <1>1 DEF Gone, Completing, DataInv, LineInv, Enumerates
<1>5. Enumerates(waiting', W \ gone) /\ Enumerates(running', R \ (gone \cup Completing))
  BY <1>1, <1>2, DroppedEnumerates DEF DataInv, LineInv
<1>6. ASSUME NEW u \in Uid
      PROVE  /\ u \in gone => coll'[u] = NoCollection
             /\ u \in Completing \ gone => coll'[u] = Completed(coll[u])
             /\ u \notin gone \cup Completing => coll'[u] = coll[u]
  BY <1>2
<1>7. ASSUME NEW u \in Uid
      PROVE  /\ CollOK(coll[u]) /\ CollOK(Completed(coll[u]))
             /\ Completed(coll[u]).bucket = "Completed"
             /\ Completed(coll[u]).date = coll[u].date
             /\ \A id : HasEntry(coll[u], id) => HasEntry(Completed(coll[u]), id)
  BY <1>1, FieldsOK DEF DataInv, CollsInv
<1>8. NoCollection.bucket = "absent"
  BY DEF NoCollection
<1>9. CollsInv'
  <2>1. DOMAIN coll' = Uid
    BY <1>2
  <2>2. ASSUME NEW u \in Uid
        PROVE  CollOK(coll'[u])
    BY <1>6, <1>7, NothingOK
  <2> QED
    BY <2>1, <2>2 DEF CollsInv
<1>10. FilesInv' /\ ClusterInv'
  BY <1>1, <1>3 DEF DataInv, FilesInv, ClusterInv
<1>11. WorkInv' /\ ~At("down")'
  <2>1. worker.changed \cup Completing \subseteq Uid
    BY <1>1, <1>4 DEF WorkInv, WorkerOK
  <2> QED
    BY <1>2, <1>4, <2>1 DEF WorkInv, WorkerOK, Idle, Turn, At
<1>12. LineInv'
  <2>1. /\ {v \in Uid : coll'[v].bucket = "Running"} = R \ (gone \cup Completing)
        /\ {v \in Uid : coll'[v].bucket = "Waiting"} = W \ gone
    BY <1>4, <1>6, <1>7, <1>8
  <2> HIDE DEF R, W
  <2> QED
    BY <1>5, <2>1 DEF LineInv
<1>13. DateInv'
  <2>1. ASSUME NEW u \in Uid
        PROVE  Dates(u)' \subseteq Dates(u)
    <3>1. Present(u)' => Present(u) /\ coll'[u].date = coll[u].date
      BY <1>4, <1>6, <1>7, <1>8 DEF Present
    <3> QED
      BY <1>3, <3>1 DEF Dates
  <2> QED
    BY <1>1, <1>3, <2>1 DEF DataInv, DateInv
<1>14. DirtyInv'
  <2>1. ASSUME NEW d \in dirty, d.uid \notin gone
        PROVE  d.uid \in Uid /\ NotedOK(d, coll'[d.uid])
    <3>1. d.uid \in Uid /\ NotedOK(d, coll[d.uid])
      BY <1>1 DEF DataInv, DirtyInv
    <3>2. CASE d.uid \in Completing
      BY <1>6, <1>7, <2>1, <3>1, <3>2 DEF NotedOK
    <3>3. CASE d.uid \notin Completing
      BY <1>6, <2>1, <3>1, <3>3
    <3> QED
      BY <3>1, <3>2, <3>3
  <2>2. ASSUME NEW u \in Completing \ gone
        PROVE  EntityOf(u).uid = u /\ u \in Uid /\ NotedOK(EntityOf(u), coll'[u])
    BY <1>4, <1>6, <1>7 DEF EntityOf, NotedOK
  <2> QED
    BY <1>2, <1>11, <2>1, <2>2 DEF DirtyInv
<1> QED
  BY <1>9, <1>10, <1>11, <1>12, <1>13, <1>14 DEF ListsInv

(* No dates are added.                                                     *)
LEMMA FewerDates ==
  ASSUME DateInv, submitted' = submitted, \A u \in Uid : Dates(u)' \subseteq Dates(u)
  PROVE  DateInv'
BY DEF DateInv

LEMMA NoFilesOK == FileOK(NoFiles) /\ NoFiles.entity = NoEntity
<1>1. NoEntity \in EntityRecord /\ NoEntity.next # 0
  BY NothingOK DEF NoEntity, Entity, EntityRecord, Collection, CollOK
<1>2. IsFiniteSet({})
  BY FS_EmptySet
<1> QED
  BY <1>1, <1>2 DEF NoFiles, FileOK

(* A bulk write, whole or not.                                             *)
LEMMA WriteOK ==
  ASSUME CollsInv, FilesInv, DirtyInv,
         NEW some \in SUBSET dirty, NEW torn \in SUBSET dirty, NEW kept,
         FilesAfter(some, torn, kept)
  PROVE  /\ FilesInv'
         /\ \A u \in Uid : \/ saved'[u].entity \in {NoEntity, saved[u].entity}
                           \/ Present(u) /\ saved'[u].entity = Entity(coll[u])
<1>1. saved' = [u \in Uid |-> IF u \in worker.doomed \ kept THEN NoFiles
                              ELSE Filed(u, some, torn)]
  BY DEF FilesAfter
<1>2. ASSUME NEW u \in Uid
      PROVE  /\ FileOK(saved'[u])
             /\ \/ saved'[u].entity \in {NoEntity, saved[u].entity}
                \/ Present(u) /\ saved'[u].entity = Entity(coll[u])
  <2>1. CASE u \in worker.doomed \ kept
    BY <1>1, <2>1, NoFilesOK
  <2>2. CASE u \notin worker.doomed \ kept
    <3>1. saved'[u] = Filed(u, some, torn)
      BY <1>1, <2>2
    <3> QED
      BY <3>1, FiledOK
  <2> QED
    BY <2>1, <2>2
<1> QED
  BY <1>1, <1>2 DEF FilesInv

LEMMA WrittenDates ==
  ASSUME NEW u \in Uid,
         \/ saved'[u].entity \in {NoEntity, saved[u].entity}
         \/ Present(u) /\ saved'[u].entity = Entity(coll[u]),
         Present(u)' => Present(u) /\ coll'[u].date = coll[u].date
  PROVE  Dates(u)' \subseteq Dates(u)
<1> SUFFICES ASSUME NEW d \in Dates(u)' PROVE d \in Dates(u)
  OBVIOUS
<1>1. CASE Present(u)' /\ d = coll'[u].date
  BY <1>1 DEF Dates
<1>2. CASE saved'[u].entity # NoEntity /\ d = saved'[u].entity.date
  <2>1. CASE saved'[u].entity = saved[u].entity
    BY <1>2, <2>1 DEF Dates
  <2>2. CASE Present(u) /\ saved'[u].entity = Entity(coll[u])
    <3>1. Entity(coll[u]).date = coll[u].date
      BY DEF Entity
    <3> QED
      BY <1>2, <2>2, <3>1 DEF Dates
  <2> QED
    BY <1>2, <2>1, <2>2
<1> QED
  BY <1>1, <1>2 DEF Dates

LEMMA ResolveOK ==
  ASSUME ListsInv, Resolve
  PROVE  ListsInv'
<1>1. DataInv /\ ClusterInv /\ WorkInv
  BY DEF ListsInv, DataInv
<1>2. PICK some \in SUBSET dirty, torn \in SUBSET dirty, kept \in SUBSET worker.doomed :
        FilesAfter(some, torn, kept)
  <2>1. PICK some \in SUBSET ToWrite, kept \in SUBSET worker.doomed :
          \E torn \in SUBSET (ToWrite \ some) : FilesAfter(some, torn, kept)
    BY DEF Resolve
  <2> QED
    BY <2>1 DEF ToWrite
<1>3. /\ dirty' = {}
      /\ worker' = [worker EXCEPT !.doomed = {},
                                  !.at = IF @ = "register" THEN "pass" ELSE "tasks"]
      /\ UNCHANGED <<alive, born, jobs, coll, waiting, running, submitted>>
  BY DEF Resolve, clusterVars
<1>4. /\ FilesInv'
      /\ \A u \in Uid : \/ saved'[u].entity \in {NoEntity, saved[u].entity}
                        \/ Present(u) /\ saved'[u].entity = Entity(coll[u])
  BY <1>1, <1>2, WriteOK DEF DataInv
<1>5. CollsInv' /\ LineInv' /\ DirtyInv'
  BY <1>1, <1>3 DEF DataInv, CollsInv, LineInv, DirtyInv
<1>6. DateInv'
  <2>1. ASSUME NEW u \in Uid
        PROVE  Dates(u)' \subseteq Dates(u)
    BY <1>3, <1>4, WrittenDates DEF Present
  <2> QED
    BY <1>1, <1>3, <2>1, FewerDates DEF DataInv
<1>7. WorkInv'
  BY <1>1, <1>3 DEF WorkInv, WorkerOK, Idle, Turn
<1>8. ClusterInv'
  <2>1. recent \in Seq(BOOLEAN) /\ recent' \in [DOMAIN recent -> BOOLEAN]
    BY <1>1 DEF ClusterInv, Resolve, StartTimes
  <2>2. recent' \in Seq(BOOLEAN)
    <3>1. Len(recent) \in Nat /\ DOMAIN recent = 1..Len(recent)
      BY <2>1
    <3> QED
      BY <2>1, <3>1
  <2> QED
    BY <1>1, <1>3, <2>2 DEF ClusterInv
<1> QED
  BY <1>4, <1>5, <1>6, <1>7, <1>8 DEF ListsInv

LEMMA TasksOK ==
  ASSUME ListsInv, Tasks
  PROVE  ListsInv'
<1>1. DataInv /\ ClusterInv /\ WorkInv
  BY DEF ListsInv, DataInv
<1>2. CASE CleanJobs
  <2>1. PICK old \in SUBSET Processed : dirty' = dirty \cup {ShallowOf(j.uid, j.id) : j \in old}
    BY <1>2 DEF CleanJobs, Note
  <2>2. /\ worker' = [worker EXCEPT !.at = "prune"] /\ jobs' \subseteq jobs
        /\ UNCHANGED <<alive, born, coll, waiting, running, recent, saved, submitted>>
    BY <1>2 DEF CleanJobs, Goto
  <2>3. WorkInv' /\ ~At("down")'
    BY <1>1, <2>2 DEF WorkInv, WorkerOK, Idle, Turn, At
  <2>4. ASSUME NEW d \in {ShallowOf(j.uid, j.id) : j \in old}
        PROVE  d.uid \in Uid /\ NotedOK(d, coll[d.uid])
    <3>1. PICK j \in old : d = ShallowOf(j.uid, j.id)
      BY <2>4
    <3>2. j \in jobs /\ j \notin Orphans
      BY DEF Processed
    <3>3. j.uid \in Uid /\ Present(j.uid) /\ HasEntry(coll[j.uid], j.id)
      BY <1>1, <3>2 DEF ClusterInv, Job, Orphans
    <3> QED
      BY <3>1, <3>3 DEF ShallowOf, NotedOK, Present
  <2>5. DataInv'
    BY <1>1, <2>1, <2>2, <2>3, <2>4, SameData
  <2>6. ClusterInv'
    BY <1>1, <2>2 DEF ClusterInv
  <2> QED
    BY <2>3, <2>5, <2>6 DEF ListsInv, DataInv
<1>3. CASE PruneFiles
  <2>1. /\ saved' = [u \in Uid |-> IF Present(u) THEN saved[u] ELSE NoFiles]
        /\ worker' = [worker EXCEPT !.at = "publish"]
        /\ UNCHANGED <<alive, born, jobs, coll, waiting, running, dirty, recent, submitted>>
    BY <1>3 DEF PruneFiles, Goto, clusterVars, memory
  <2>2. WorkInv' /\ ~At("down")'
    BY <1>1, <2>1 DEF WorkInv, WorkerOK, Idle, Turn, At
  <2>3. CollsInv' /\ LineInv' /\ DirtyInv' /\ ClusterInv'
    BY <1>1, <2>1, <2>2 DEF DataInv, CollsInv, LineInv, DirtyInv, ClusterInv
  <2>4. FilesInv'
    BY <1>1, <2>1, NoFilesOK DEF DataInv, FilesInv
  <2>5. DateInv'
    <3>1. ASSUME NEW u \in Uid
          PROVE  Dates(u)' \subseteq Dates(u)
      <4>1. saved'[u].entity \in {NoEntity, saved[u].entity}
        BY <2>1, NoFilesOK
      <4> QED
        BY <2>1, <4>1 DEF Dates, Present
    <3> QED
      BY <1>1, <2>1, <3>1, FewerDates DEF DataInv
  <2> QED
    BY <2>2, <2>3, <2>4, <2>5 DEF ListsInv
<1> QED
  BY <1>2, <1>3 DEF Tasks

LEMMA PublicationOK ==
  ASSUME ListsInv, Publication
  PROVE  ListsInv'
<1>1. DataInv /\ ClusterInv /\ WorkInv
  BY DEF ListsInv, DataInv
<1>2. UNCHANGED <<alive, born, jobs, coll, waiting, running, dirty, recent, saved, submitted>>
  BY DEF Publication, Publish, PublishSkips, PublishHangs, PublishFails, PublishNone,
     clusterVars, memory
<1>3. \/ worker' \in {Idle, Hung}
      \/ \E u \in Uid : worker' = [worker EXCEPT !.at = "publish", !.changed = @ \ {u}]
  BY DEF Publication, Publish, PublishSkips, PublishHangs, PublishFails, PublishNone,
     Published
<1>4. WorkInv' /\ ~At("down")'
  <2>1. CASE worker' \in {Idle, Hung}
    BY <2>1 DEF WorkInv, WorkerOK, Idle, Hung, Turn, At
  <2>2. CASE worker' \notin {Idle, Hung}
    <3>1. PICK u \in Uid : worker' = [worker EXCEPT !.at = "publish", !.changed = @ \ {u}]
      BY <1>3, <2>2
    <3> QED
      BY <1>1, <3>1 DEF WorkInv, WorkerOK, Idle, Turn, At
  <2> QED
    BY <2>1, <2>2
<1>5. DataInv' /\ ClusterInv'
  BY <1>1, <1>2, <1>4, SameData DEF ClusterInv
<1> QED
  BY <1>4, <1>5 DEF ListsInv, DataInv

(* The operator is killed, or panics.                                      *)
LEMMA DieOK ==
  ASSUME ListsInv, NEW times \in Seq(BOOLEAN), Die(times), jobs' \subseteq jobs, FilesInv',
         \A u \in Uid : \/ saved'[u].entity \in {NoEntity, saved[u].entity}
                        \/ Present(u) /\ saved'[u].entity = Entity(coll[u])
  PROVE  ListsInv'
<1>1. DateInv /\ ClusterInv
  BY DEF ListsInv
<1>2. /\ coll' = [u \in Uid |-> NoCollection]
      /\ waiting' = <<>> /\ running' = <<>> /\ dirty' = {}
      /\ recent' = Reloaded(times) /\ worker' = Down
      /\ UNCHANGED <<alive, born, submitted>>
  BY DEF Die
<1>3. NoCollection.bucket = "absent"
  BY DEF NoCollection
<1>4. CollsInv' /\ DirtyInv'
  BY <1>2, NothingOK DEF CollsInv, DirtyInv
<1>5. LineInv'
  <2>1. /\ {u \in Uid : coll'[u].bucket = "Running"} = {}
        /\ {u \in Uid : coll'[u].bucket = "Waiting"} = {}
    BY <1>2, <1>3
  <2> QED
    BY <1>2, <2>1, NothingEnumerated DEF LineInv
<1>6. WorkInv'
  BY <1>2 DEF WorkInv, WorkerOK, Down, Idle, Turn
<1>7. DateInv'
  <2>1. \A u \in Uid : ~Present(u)'
    BY <1>2, <1>3 DEF Present
  <2>2. \A u \in Uid : Dates(u)' \subseteq Dates(u)
    BY <2>1, WrittenDates
  <2> QED
    BY <1>1, <1>2, <2>2, FewerDates
<1>8. ClusterInv'
  <2>1. Reloaded(times) \in Seq(BOOLEAN)
    BY OnlySelects DEF Reloaded
  <2> QED
    BY <1>1, <1>2, <2>1 DEF ClusterInv
<1> QED
  BY <1>4, <1>5, <1>6, <1>7, <1>8 DEF ListsInv

LEMMA CrashOK ==
  ASSUME ListsInv, Crash \/ CrashWriting \/ \E j \in worker.todo : ExaminePanics(j)
  PROVE  ListsInv'
<1>1. recent \in Seq(BOOLEAN)
  BY DEF ListsInv, ClusterInv
<1>2. CASE Crash \/ \E j \in worker.todo : ExaminePanics(j)
  <2>1. Die(recent) /\ saved' = saved
    BY <1>2 DEF Crash, ExaminePanics
  <2>2. jobs' \subseteq jobs
    BY <1>2 DEF Crash, ExaminePanics, KillIfOverdue
  <2>3. FilesInv'
    BY <2>1 DEF ListsInv, FilesInv
  <2> QED
    BY <1>1, <2>1, <2>2, <2>3, DieOK
<1>3. CASE CrashWriting
  <2>1. PICK some \in SUBSET ToWrite, kept \in SUBSET worker.doomed :
          \E torn \in SUBSET (ToWrite \ some) : FilesAfter(some, torn, kept)
    BY <1>3 DEF CrashWriting
  <2>2. PICK torn \in SUBSET (ToWrite \ some) : FilesAfter(some, torn, kept)
    BY <2>1
  <2>3. PICK times \in StartTimes : Die(times) /\ UNCHANGED jobs
    BY <1>3 DEF CrashWriting
  <2>4. times \in Seq(BOOLEAN)
    <3>1. times \in [DOMAIN recent -> BOOLEAN]
      BY DEF StartTimes
    <3>2. Len(recent) \in Nat /\ DOMAIN recent = 1..Len(recent)
      BY <1>1
    <3> QED
      BY <3>1, <3>2
  <2>5. some \in SUBSET dirty /\ torn \in SUBSET dirty
    BY DEF ToWrite
  <2>6. /\ FilesInv'
        /\ \A u \in Uid : \/ saved'[u].entity \in {NoEntity, saved[u].entity}
                          \/ Present(u) /\ saved'[u].entity = Entity(coll[u])
    BY <2>2, <2>5, WriteOK DEF ListsInv
  <2> QED
    BY <2>3, <2>4, <2>6, DieOK
<1> QED
  BY <1>2, <1>3

(* The dates of the collections that are found are different.              *)
LEMMA FoundDates ==
  ASSUME FilesInv, DateInv, NEW found \in SUBSET Loadable, alive \subseteq Uid, NEW bucket,
         IsFiniteSet(alive)
  PROVE  LET S == InBucket(found, bucket)
             key == [u \in found |-> saved[u].entity.date]
         IN  /\ IsFiniteSet(S)
             /\ \A x \in S : key[x] \in Int
             /\ \A x, y \in S : key[x] = key[y] => x = y
<1> DEFINE S == InBucket(found, bucket)
           key == [u \in found |-> saved[u].entity.date]
<1>1. found \subseteq alive /\ S \subseteq found
  BY DEF Loadable, InBucket
<1>2. IsFiniteSet(S)
  BY <1>1, FS_Subset
<1>3. ASSUME NEW x \in S
      PROVE  /\ x \in Uid /\ key[x] = saved[x].entity.date
             /\ key[x] \in Int /\ key[x] \in Dates(x)
  <2>1. x \in Uid /\ x \in found /\ saved[x].entity # NoEntity
    BY <1>1 DEF Loadable
  <2>2. saved[x].entity.date \in Int
    BY <2>1 DEF FilesInv, FileOK, EntityRecord
  <2> QED
    BY <2>1, <2>2 DEF Dates
<1> HIDE DEF S, key
<1>4. ASSUME NEW x \in S, NEW y \in S, key[x] = key[y]
      PROVE  x = y
  <2>1. Dates(x) \cap Dates(y) # {}
    BY <1>3, <1>4
  <2> QED
    BY <1>3, <2>1 DEF DateInv
<1> QED
  BY <1>2, <1>3, <1>4 DEF S, key

LEMMA LoadOK ==
  ASSUME ListsInv, Load
  PROVE  ListsInv'
<1>1. FilesInv /\ DateInv /\ ClusterInv /\ dirty = {}
  BY DEF ListsInv, DirtyInv, Load
<1>2. alive \subseteq Uid /\ IsFiniteSet(alive)
  BY <1>1, FS_Subset DEF ClusterInv
<1>3. PICK found \in SUBSET Loadable :
        /\ coll' = [u \in Uid |-> IF u \in found THEN Loaded(saved[u]) ELSE NoCollection]
        /\ waiting' = Listing(found, "Waiting")
        /\ running' = Listing(found, "Running")
  BY DEF Load
<1>4. worker' = Idle /\ UNCHANGED <<alive, born, jobs, dirty, recent, saved, submitted>>
  BY DEF Load, clusterVars
<1>5. ASSUME NEW u \in Uid
      PROVE  /\ CollOK(coll'[u])
             /\ u \in found => /\ coll'[u].bucket = saved[u].entity.bucket
                               /\ coll'[u].date = saved[u].entity.date
             /\ u \notin found => coll'[u].bucket = "absent"
  <2>1. NoCollection.bucket = "absent"
    BY DEF NoCollection
  <2>2. FileOK(saved[u])
    BY <1>1 DEF FilesInv
  <2> QED
    BY <1>3, <2>1, <2>2, LoadedOK, NothingOK
<1>6. CollsInv' /\ FilesInv' /\ ClusterInv'
  BY <1>1, <1>3, <1>4, <1>5 DEF CollsInv, FilesInv, ClusterInv
<1>7. WorkInv' /\ DirtyInv'
  BY <1>1, <1>4 DEF WorkInv, WorkerOK, Idle, Turn, DirtyInv
<1>8. LineInv'
  <2>1. ASSUME NEW bucket \in {"Running", "Waiting"}
        PROVE  Enumerates(Listing(found, bucket), {u \in Uid : coll'[u].bucket = bucket})
    <3> DEFINE S == InBucket(found, bucket)
               key == [u \in found |-> saved[u].entity.date]
    <3>1. S = {u \in Uid : coll'[u].bucket = bucket}
      <4>1. found \subseteq Uid
        BY <1>2 DEF Loadable
      <4> QED
        BY <1>5, <4>1 DEF InBucket
    <3>2. /\ IsFiniteSet(S) /\ \A x \in S : key[x] \in Int
          /\ \A x, y \in S : key[x] = key[y] => x = y
      BY <1>1, <1>2, FoundDates
    <3>3. Listing(found, bucket) = InOrder(S, key)
      BY DEF Listing
    <3> HIDE DEF S, key
    <3>4. Enumerates(InOrder(S, key), S)
      BY <3>2, InOrderEnumerates
    <3> QED
      BY <3>1, <3>3, <3>4
  <2> QED
    BY <1>3, <2>1 DEF LineInv
<1>9. DateInv'
  <2>1. ASSUME NEW u \in Uid
        PROVE  Dates(u)' \subseteq Dates(u)
    <3>1. Present(u)' => saved[u].entity # NoEntity /\ coll'[u].date = saved[u].entity.date
      BY <1>5 DEF Present, Loadable
    <3> QED
      BY <1>4, <3>1 DEF Dates
  <2> QED
    BY <1>1, <1>4, <2>1, FewerDates
<1> QED
  BY <1>6, <1>7, <1>8, <1>9 DEF ListsInv

(* The cluster.                                                            *)
LEMMA ClusterOK ==
  ASSUME ListsInv,
         \/ \E u \in Uid : CreateObject(u) \/ DeleteObject(u)
         \/ \E j \in jobs : JobStep(j) \/ RemoveJob(j)
         \/ WindowPasses \/ UNCHANGED vars
  PROVE  ListsInv'
<1>1. DataInv /\ ClusterInv /\ WorkInv
  BY DEF ListsInv, DataInv
<1>2. UNCHANGED <<coll, waiting, running, dirty, saved, submitted, worker>>
  BY DEF CreateObject, DeleteObject, JobStep, StartJob, FinishJob, ExpireJob, Become,
     RemoveJob, WindowPasses, operatorVars, memory, vars
<1>3. At("down")' => dirty' = {}
  BY <1>1, <1>2 DEF DataInv, DirtyInv, At
<1>4. DataInv'
  BY <1>1, <1>2, <1>3, SameData
<1>5. WorkInv'
  <2>1. Current' = Current
    BY <1>2 DEF Current
  <2> QED
    BY <1>1, <1>2, <2>1 DEF WorkInv
<1>6. ClusterInv'
  <2>1. CASE \E u \in Uid : CreateObject(u) \/ DeleteObject(u)
    <3>1. PICK u \in Uid : CreateObject(u) \/ DeleteObject(u)
      BY <2>1
    <3>2. born' \in {born, born \cup {u}} /\ alive' \subseteq born'
          /\ UNCHANGED <<jobs, recent>>
      BY <1>1, <3>1 DEF CreateObject, DeleteObject, operatorVars, memory, ClusterInv
    <3>3. IsFiniteSet(born')
      BY <1>1, <3>2, FS_AddElement DEF ClusterInv
    <3> QED
      BY <1>1, <3>2, <3>3 DEF ClusterInv
  <2>2. CASE \E j \in jobs : JobStep(j) \/ RemoveJob(j)
    <3>1. UNCHANGED <<alive, born, recent>>
      BY <2>2 DEF JobStep, StartJob, FinishJob, ExpireJob, Become, RemoveJob,
         operatorVars, memory
    <3>2. PICK j \in jobs : JobStep(j) \/ RemoveJob(j)
      BY <2>2
    <3>3. jobs' \subseteq Job
      <4>1. CASE RemoveJob(j)
        BY <1>1, <4>1 DEF RemoveJob, ClusterInv
      <4>2. CASE JobStep(j)
        <5>1. PICK state \in JobState : Become(j, state)
          BY <4>2 DEF JobStep, StartJob, FinishJob, ExpireJob, JobState
        <5>2. [j EXCEPT !.state = state] \in Job
          BY <1>1 DEF ClusterInv, Job
        <5> QED
          BY <1>1, <5>1, <5>2 DEF Become, ClusterInv
      <4> QED
        BY <3>2, <4>1, <4>2
    <3> QED
      BY <1>1, <3>1, <3>3 DEF ClusterInv
  <2>3. CASE WindowPasses
    <3>1. /\ recent # <<>> /\ recent' = Tail(recent) /\ recent \in Seq(BOOLEAN)
          /\ UNCHANGED <<alive, born, jobs>>
      BY <1>1, <2>3 DEF WindowPasses, Forgotten, clusterVars, ClusterInv
    <3>2. recent' \in Seq(BOOLEAN)
      BY <3>1
    <3> QED
      BY <1>1, <3>1, <3>2 DEF ClusterInv
  <2>4. CASE UNCHANGED vars
    BY <1>1, <2>4 DEF ClusterInv, vars
  <2> QED
    BY <2>1, <2>2, <2>3, <2>4
<1> QED
  BY <1>4, <1>5, <1>6 DEF ListsInv, DataInv

LEMMA ListsStep == ListsInv /\ [Next]_vars => ListsInv'
<1> SUFFICES ASSUME ListsInv, [Next]_vars PROVE ListsInv'
  OBVIOUS
<1>1. CASE Process
  BY <1>1, ListOK, ExamineOK, ExaminedOK, StartOK, PromoteOK, SettleOK, ResolveOK,
     PublicationOK DEF Process
<1>2. CASE Load \/ Tasks \/ \E u \in Uid : Reconcile(u)
  BY <1>2, LoadOK, TasksOK, RegisterOK
<1>3. CASE Crash \/ CrashWriting \/ \E j \in worker.todo : ExaminePanics(j)
  BY <1>3, CrashOK
<1>4. CASE \/ \E u \in Uid : CreateObject(u) \/ DeleteObject(u)
           \/ \E j \in jobs : JobStep(j) \/ RemoveJob(j)
           \/ WindowPasses \/ UNCHANGED vars
  BY <1>4, ClusterOK
<1> QED
  BY <1>1, <1>2, <1>3, <1>4 DEF Next, Operator

LEMMA ListsInit == Init => ListsInv
<1> SUFFICES ASSUME Init PROVE ListsInv
  OBVIOUS
<1>1. /\ alive = {} /\ born = {} /\ jobs = {} /\ coll = [u \in Uid |-> NoCollection]
      /\ waiting = <<>> /\ running = <<>> /\ dirty = {} /\ recent = <<>>
      /\ saved = [u \in Uid |-> NoFiles] /\ worker = Idle /\ submitted = 0
  BY DEF Init
<1>2. NoCollection.bucket = "absent" /\ NoFiles.entity = NoEntity
  BY NoFilesOK DEF NoCollection
<1>3. CollsInv /\ FilesInv /\ DirtyInv
  BY <1>1, NothingOK, NoFilesOK DEF CollsInv, FilesInv, DirtyInv
<1>4. WorkInv
  BY <1>1 DEF WorkInv, WorkerOK, Idle, Turn
<1>5. LineInv
  <2>1. /\ {u \in Uid : coll[u].bucket = "Running"} = {}
        /\ {u \in Uid : coll[u].bucket = "Waiting"} = {}
    BY <1>1, <1>2
  <2> QED
    BY <1>1, <2>1, NothingEnumerated DEF LineInv
<1>6. DateInv
  <2>1. \A u \in Uid : Dates(u) = {}
    BY <1>1, <1>2 DEF Dates, Present
  <2> QED
    BY <1>1, <2>1 DEF DateInv
<1>7. ClusterInv
  BY <1>1, FS_EmptySet DEF ClusterInv
<1> QED
  BY <1>3, <1>4, <1>5, <1>6, <1>7 DEF ListsInv

-----------------------------------------------------------------------------
(***************************************************************************)
(* The theorems.                                                           *)
(***************************************************************************)

(* The invariant, whatever fails, and whenever the operator is killed.     *)
THEOREM ListsInvariant == Spec => []ListsInv
BY ListsInit, ListsStep, PTL DEF Spec

(* Every variable has its type.                                            *)
THEOREM TestTypeCorrect == Spec => []TypeOK
<1>1. ListsInv => TypeOK
  <2> SUFFICES ASSUME ListsInv PROVE TypeOK
    OBVIOUS
  <2>1. ASSUME NEW c, CollOK(c)
        PROVE  CollectionOK(c)
    <3>1. c \in Collection
      BY <2>1 DEF CollOK
    <3>2. DOMAIN c = DOMAIN NoCollection
      BY <3>1 DEF Collection, NoCollection
    <3>3. \A list \in {c.queued, c.active, c.retry} : list \in Seq(DOMAIN c.entries)
      <4>1. \A b : In(c, b) \subseteq DOMAIN c.entries
        BY DEF In
      <4> QED
        BY <2>1, <4>1, EnumeratesIn DEF CollOK
    <3> QED
      BY <3>1, <3>2, <3>3 DEF CollectionOK, Collection
  <2>2. waiting \in Seq(Uid) /\ running \in Seq(Uid)
    <3>1. \A b : {u \in Uid : coll[u].bucket = b} \subseteq Uid
      OBVIOUS
    <3> QED
      BY <3>1, EnumeratesIn DEF ListsInv, LineInv
  <2>3. \A u \in Uid : saved[u].shallow \subseteq Entry /\ saved[u].entity.bucket \in CollState
    BY DEF ListsInv, FilesInv, FileOK, EntityRecord
  <2> QED
    BY <2>1, <2>2, <2>3 DEF TypeOK, ListsInv, CollsInv, ClusterInv, WorkInv, WorkerOK
<1> QED
  BY <1>1, ListsInvariant, PTL

(* Whatever fails - a start that is refused, a write that is torn, a file  *)
(* that is lost - every entry is in exactly the list its bucket names, and *)
(* there once.                                                             *)
THEOREM EntriesAreListed == Spec => []EveryEntryListed
<1>1. ListsInv => EveryEntryListed
  <2> SUFFICES ASSUME ListsInv, NEW u \in Uid, NEW k \in DOMAIN coll[u].entries
               PROVE  LET bucket == coll[u].entries[k].bucket
                          Holds(name, list) ==
                            Cardinality(Places(list, k)) = (IF bucket = name THEN 1 ELSE 0)
                      IN  /\ Holds("Queued", coll[u].queued)
                          /\ Holds("Running", coll[u].active)
                          /\ Holds("Retry", coll[u].retry)
    BY DEF EveryEntryListed
  <2>1. ASSUME NEW list, NEW K, Enumerates(list, K)
        PROVE  Cardinality(Places(list, k)) = (IF k \in K THEN 1 ELSE 0)
    <3>1. CASE k \in K
      <4>1. PICK i \in DOMAIN list : list[i] = k
        BY <2>1, <3>1 DEF Enumerates
      <4>2. Places(list, k) = {i}
        BY <2>1, <4>1 DEF Enumerates, Places
      <4> QED
        BY <3>1, <4>2, FS_Singleton
    <3>2. CASE k \notin K
      <4>1. Places(list, k) = {}
        <5>1. \A i \in DOMAIN list : list[i] \in K
          BY <2>1 DEF Enumerates
        <5> QED
          BY <3>2, <5>1 DEF Places
      <4> QED
        BY <3>2, <4>1, FS_EmptySet
    <3> QED
      BY <3>1, <3>2
  <2>2. \A b : k \in In(coll[u], b) <=> coll[u].entries[k].bucket = b
    BY DEF In
  <2> QED
    BY <2>1, <2>2 DEF ListsInv, CollsInv, CollOK
<1> QED
  BY <1>1, ListsInvariant, PTL
=============================================================================
