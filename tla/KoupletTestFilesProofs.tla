----------------------- MODULE KoupletTestFilesProofs -----------------------
(***************************************************************************)
(* Theorems about the files of KoupletTest and about what is published of  *)
(* it: that the files alone are always enough to go on from, and that what *)
(* users are told is on file, is earned, and is never taken back.          *)
(***************************************************************************)
EXTENDS KoupletTestProofs

-----------------------------------------------------------------------------
(***************************************************************************)
(* Files that say what a collection says.                                  *)
(***************************************************************************)

(* There is a file for each entry, and one for each result.                *)
Mirrors(f, c) ==
  /\ f.shallow = {Shallow(c.entries[k]) : k \in DOMAIN c.entries}
  /\ f.result = {<<c.entries[k].id, c.entries[k].result>> :
                   k \in {i \in DOMAIN c.entries : c.entries[i].result # "none"}}

(* Two lists by ascending ids that have the same elements are the same.    *)
Ascending(s) == \A i, k \in DOMAIN s : i < k => s[i].id < s[k].id

LEMMA SortedOnce ==
  ASSUME NEW s \in Seq(Entry), NEW t \in Seq(Entry), Ascending(s), Ascending(t),
         \A i \in DOMAIN s : \E k \in DOMAIN t : s[i] = t[k],
         \A k \in DOMAIN t : \E i \in DOMAIN s : s[i] = t[k]
  PROVE  s = t
<1> DEFINE same(i) == (i \in DOMAIN s <=> i \in DOMAIN t) /\ (i \in DOMAIN s => s[i] = t[i])
           B == {i \in DOMAIN s \cup DOMAIN t : ~same(i)}
<1>1. /\ DOMAIN s = 1..Len(s) /\ Len(s) \in Nat /\ DOMAIN t = 1..Len(t) /\ Len(t) \in Nat
      /\ \A i \in DOMAIN s : s[i].id \in Nat
      /\ \A i \in DOMAIN t : t[i].id \in Nat
  <2>1. \A e \in Entry : e.id \in Nat
    BY DEF Entry
  <2>2. /\ \A i \in DOMAIN s : s[i] \in Entry
        /\ \A i \in DOMAIN t : t[i] \in Entry
    OBVIOUS
  <2> QED
    BY <2>1, <2>2
<1>2. /\ \A i \in DOMAIN s, k \in DOMAIN s : s[i].id < s[k].id => ~(k <= i)
      /\ \A i \in DOMAIN t, k \in DOMAIN t : t[i].id < t[k].id => ~(k <= i)
      /\ \A i \in DOMAIN s, k \in DOMAIN s : i < k => s[i].id < s[k].id
      /\ \A i \in DOMAIN t, k \in DOMAIN t : i < k => t[i].id < t[k].id
  <2>1. ASSUME NEW r, DOMAIN r \subseteq Nat, \A i \in DOMAIN r : r[i].id \in Nat,
               Ascending(r), NEW i \in DOMAIN r, NEW k \in DOMAIN r
        PROVE  /\ r[i].id < r[k].id => ~(k <= i)
               /\ i < k => r[i].id < r[k].id
    <3>1. /\ k < i => r[k].id < r[i].id
          /\ i < k => r[i].id < r[k].id
      BY <2>1 DEF Ascending
    <3>2. /\ i \in Nat /\ k \in Nat /\ r[i].id \in Nat /\ r[k].id \in Nat
      BY <2>1
    <3>3. r[i].id < r[k].id => k # i
      BY <3>2
    <3> QED
      BY <3>1, <3>2, <3>3
  <2>2. DOMAIN s \subseteq Nat /\ DOMAIN t \subseteq Nat
    BY <1>1
  <2> QED
    BY <1>1, <2>1, <2>2
<1>3. B = {}
  <2>1. SUFFICES ASSUME B # {} PROVE FALSE
    OBVIOUS
  <2>2. B \in SUBSET Nat
    BY <1>1
  <2>3. PICK i \in B : \A j \in B : i <= j
    BY <2>1, <2>2, Least
  <2>4. \A j \in DOMAIN s \cup DOMAIN t : j \in B \/ same(j)
    OBVIOUS
  <2>5. i \in DOMAIN s \cup DOMAIN t /\ ~same(i) /\ i \in Nat
    BY <2>2, <2>3
  <2> HIDE DEF B
  <2>6. ASSUME NEW j \in DOMAIN s \cup DOMAIN t, j < i
        PROVE  same(j)
    <3>1. j \in Nat /\ i \in Nat /\ ~(i <= j)
      BY <1>1, <2>5, <2>6
    <3>2. j \notin B
      BY <2>3, <3>1
    <3> QED
      BY <2>4, <3>2
  <2>7. ASSUME i \in DOMAIN s
        PROVE  i \in DOMAIN t /\ \E k \in DOMAIN t : i <= k /\ t[k] = s[i]
    <3>1. PICK k \in DOMAIN t : s[i] = t[k]
      BY <2>7
    <3>2. k \in Nat
      BY <1>1
    <3>3. ~(k < i)
      <4>1. SUFFICES ASSUME k < i PROVE FALSE
        OBVIOUS
      <4>2. k \in DOMAIN s /\ s[k] = t[k]
        BY <2>6, <4>1
      <4>3. s[k].id < s[i].id /\ s[k] = s[i]
        BY <1>2, <2>7, <3>1, <4>1, <4>2
      <4>4. s[k].id \in Nat
        BY <1>1, <4>2
      <4>5. s[k].id < s[k].id
        BY <4>3
      <4> QED
        BY <4>4, <4>5
    <3> QED
      BY <1>1, <2>5, <2>7, <3>1, <3>2, <3>3
  <2>8. ASSUME i \in DOMAIN t
        PROVE  i \in DOMAIN s /\ \E k \in DOMAIN s : i <= k /\ s[k] = t[i]
    <3>1. PICK k \in DOMAIN s : s[k] = t[i]
      BY <2>8
    <3>2. k \in Nat
      BY <1>1
    <3>3. ~(k < i)
      <4>1. SUFFICES ASSUME k < i PROVE FALSE
        OBVIOUS
      <4>2. k \in DOMAIN t /\ s[k] = t[k]
        BY <2>6, <4>1
      <4>3. t[k].id < t[i].id /\ t[k] = t[i]
        BY <1>2, <2>8, <3>1, <4>1, <4>2
      <4>4. t[k].id \in Nat
        BY <1>1, <4>2
      <4>5. t[k].id < t[k].id
        BY <4>3
      <4> QED
        BY <4>4, <4>5
    <3> QED
      BY <1>1, <2>5, <2>8, <3>1, <3>2, <3>3
  <2>9. i \in DOMAIN s /\ i \in DOMAIN t
    BY <2>5, <2>7, <2>8
  <2>10. PICK k \in DOMAIN t : i <= k /\ t[k] = s[i]
    BY <2>7, <2>9
  <2>11. PICK m \in DOMAIN s : i <= m /\ s[m] = t[i]
    BY <2>8, <2>9
  <2>12. k \in Nat /\ m \in Nat
    BY <1>1
  <2>13. i = k
    <3>1. SUFFICES ASSUME i < k PROVE FALSE
      BY <2>5, <2>10, <2>12
    <3>2. t[i].id < s[i].id
      BY <1>2, <2>9, <2>10, <3>1
    <3>3. s[m].id < s[i].id
      BY <2>11, <3>2
    <3>4. ~(i <= m)
      BY <1>2, <2>9, <3>3
    <3> QED
      BY <2>11, <3>4
  <2> QED
    BY <2>5, <2>9, <2>10, <2>13
<1>4. DOMAIN s = DOMAIN t /\ \A i \in DOMAIN s : s[i] = t[i]
  BY <1>3
<1> QED
  BY <1>1, <1>4

(* What is loaded from files that mirror a collection has its entries.     *)
LEMMA LoadedMirrors ==
  ASSUME NEW f, FileOK(f), NEW c, CollOK(c), Numbered(c), Mirrors(f, c)
  PROVE  Loaded(f).entries = c.entries
<1> DEFINE S == f.shallow
           key == [e \in S |-> e.id]
           s == InOrder(S, key)
           t == [k \in DOMAIN c.entries |-> Shallow(c.entries[k])]
           Result(id) == {r \in f.result : r[1] = id}
<1>1. /\ c.entries \in Seq(Entry) /\ DOMAIN c.entries = 1..Len(c.entries)
      /\ Len(c.entries) \in Nat
  BY DEF CollOK, Collection
<1>2. /\ IsFiniteSet(S) /\ S \subseteq Entry /\ \A x \in S : key[x] = x.id /\ key[x] \in Int
      /\ \A x, y \in S : key[x] = key[y] => x = y
  BY DEF FileOK, Entry
<1>3. /\ t \in Seq(Entry) /\ DOMAIN t = DOMAIN c.entries
      /\ \A k \in DOMAIN t : t[k] = Shallow(c.entries[k]) /\ t[k].id = c.entries[k].id
  <2>1. \A e \in Entry : Shallow(e) \in Entry /\ Shallow(e).id = e.id
    BY DEF Shallow, Entry
  <2>2. \A k \in DOMAIN c.entries : c.entries[k] \in Entry
    BY <1>1
  <2>3. t \in [1..Len(c.entries) -> Entry]
    BY <1>1, <2>1, <2>2
  <2> QED
    BY <1>1, <2>1, <2>2, <2>3
<1>4. S = {t[k] : k \in DOMAIN t}
  BY <1>3 DEF Mirrors
<1> HIDE DEF key, S, t
<1>5. /\ s \in Seq(S)
      /\ \A x \in S : \E i \in DOMAIN s : s[i] = x
      /\ \A i, k \in DOMAIN s : i < k => key[s[i]] < key[s[k]]
  BY <1>2, InOrderSorts
<1> HIDE DEF s
<1>6. \A i \in DOMAIN s : s[i] \in S
  BY <1>5
<1>7. s = t
  <2>1. s \in Seq(Entry)
    BY <1>2, <1>5
  <2>2. Ascending(s)
    BY <1>2, <1>5, <1>6 DEF Ascending
  <2>3. Ascending(t)
    BY <1>3 DEF Ascending, Numbered
  <2>4. \A i \in DOMAIN s : \E k \in DOMAIN t : s[i] = t[k]
    BY <1>4, <1>6
  <2>5. \A k \in DOMAIN t : \E i \in DOMAIN s : s[i] = t[k]
    BY <1>4, <1>5
  <2> QED
    BY <1>3, <2>1, <2>2, <2>3, <2>4, <2>5, SortedOnce
<1> DEFINE e(k) == [t[k] EXCEPT !.result =
                      IF Result(t[k].id) = {} THEN "none"
                      ELSE (CHOOSE r \in Result(t[k].id) : TRUE)[2]]
<1>8. Loaded(f).entries = [k \in DOMAIN t |-> e(k)]
  BY <1>7 DEF Loaded, Collected, Entries, s, key, S
<1>9. ASSUME NEW k \in DOMAIN c.entries
      PROVE  e(k) = c.entries[k]
  <2> DEFINE id == c.entries[k].id
             res == c.entries[k].result
  <2>1. t[k] = [c.entries[k] EXCEPT !.result = "none"] /\ t[k].id = id
    BY <1>3 DEF Shallow
  <2>2. Result(id) = IF res = "none" THEN {} ELSE {<<id, res>>}
    <3>1. ASSUME NEW r \in Result(id)
          PROVE  res # "none" /\ r = <<id, res>>
      <4>1. r \in f.result /\ r[1] = id
        OBVIOUS
      <4>2. PICK i \in DOMAIN c.entries : /\ c.entries[i].result # "none"
                                          /\ r = <<c.entries[i].id, c.entries[i].result>>
        BY <4>1 DEF Mirrors
      <4>3. c.entries[i].id = id
        BY <4>1, <4>2
      <4>4. Index(c, id) = {k} /\ Index(c, id) = {i}
        BY <4>3, UniqueId
      <4> QED
        BY <4>2, <4>4
    <3>2. res # "none" => <<id, res>> \in Result(id)
      BY DEF Mirrors
    <3> QED
      BY <3>1, <3>2
  <2>3. e(k) = [t[k] EXCEPT !.result = res]
    <3>1. CASE res = "none"
      <4>1. Result(t[k].id) = {}
        BY <2>1, <2>2, <3>1
      <4> QED
        BY <3>1, <4>1
    <3>2. CASE res # "none"
      <4>1. \A r \in Result(id) : r = <<id, res>>
        BY <2>2, <3>2
      <4>2. (CHOOSE r \in Result(id) : TRUE) \in Result(id)
        BY <2>2, <3>2
      <4>3. (CHOOSE r \in Result(id) : TRUE) = <<id, res>>
        BY <4>1, <4>2
      <4>4. Result(t[k].id) # {} /\ (CHOOSE r \in Result(t[k].id) : TRUE)[2] = res
        BY <2>1, <2>2, <3>2, <4>3
      <4> QED
        BY <4>4
    <3> QED
      BY <3>1, <3>2
  <2>4. c.entries[k] \in Entry
    BY <1>1
  <2> QED
    BY <2>1, <2>3, <2>4 DEF Entry
<1> HIDE DEF e
<1> QED
  BY <1>1, <1>3, <1>8, <1>9

(* No files, no entries.                                                   *)
LEMMA NothingLoaded ==
  Loaded(NoFiles).entries = <<>> /\ Loaded(NoFiles).bucket = "absent"
<1>1. Mirrors(NoFiles, NoCollection)
  BY DEF Mirrors, NoFiles, NoCollection
<1>2. Numbered(NoCollection)
  BY DEF Numbered, NoCollection
<1>3. Loaded(NoFiles).entries = NoCollection.entries
  BY <1>1, <1>2, NoFilesOK, NothingOK, LoadedMirrors
<1>4. Loaded(NoFiles).bucket = "absent"
  BY NoFilesOK, LoadedOK DEF NoFiles, NoEntity, Entity, NoCollection
<1> QED
  BY <1>3, <1>4 DEF NoCollection
-----------------------------------------------------------------------------
(***************************************************************************)
(* The test that a run is a run of.                                        *)
(***************************************************************************)

(* The tests of the spec come first, numbered by their places; runs that   *)
(* come after them are retries.                                            *)
Rooted(n, c) ==
  /\ Numbered(c)
  /\ \A i \in 1..n : i \in DOMAIN c.entries /\ c.entries[i].id = i
  /\ \A k \in DOMAIN c.entries : c.entries[k].from = 0 <=> k <= n

(* Every run is at the end of a chain of its own, or of the chain of the   *)
(* run it repeats.                                                         *)
LEMMA RootOf ==
  ASSUME NEW c, CollOK(c), Numbered(c), NEW k \in DOMAIN c.entries
  PROVE  /\ c.entries[k].from = 0 => Root(c, k) = k
         /\ \A p \in DOMAIN c.entries :
              c.entries[p].id = c.entries[k].from => Root(c, k) = Root(c, p)
<1>1. /\ c.entries \in Seq(Entry) /\ DOMAIN c.entries = 1..Len(c.entries)
      /\ Len(c.entries) \in Nat
  BY DEF CollOK, Collection
<1>2. ASSUME c.entries[k].from = 0
      PROVE  Root(c, k) = k
  <2>1. Retries(c, k) = 0 /\ Lineage(c, k)[0] = {k}
    BY <1>1, <1>2, RetriesOf, LineageIs
  <2>2. Lineage(c, k)[Retries(c, k)] = {k}
    BY <2>1
  <2> QED
    BY <2>2 DEF Root
<1>3. ASSUME NEW p \in DOMAIN c.entries, c.entries[p].id = c.entries[k].from
      PROVE  Root(c, k) = Root(c, p)
  <2> DEFINE m == Retries(c, p)
  <2>1. Retries(c, k) = m + 1 /\ m \in 0..Len(c.entries) - 1
    BY <1>3, RetriesOf, ChainLength
  <2>2. \A d \in 1..Len(c.entries) : Lineage(c, k)[d] = Lineage(c, p)[d - 1]
    BY <1>3, LineageShift
  <2> HIDE DEF m
  <2>3. m + 1 \in 1..Len(c.entries) /\ (m + 1) - 1 = m
    BY <1>1, <2>1
  <2>4. Lineage(c, k)[m + 1] = Lineage(c, p)[m]
    BY <2>2, <2>3
  <2>5. Lineage(c, k)[Retries(c, k)] = Lineage(c, p)[Retries(c, p)]
    BY <2>1, <2>4 DEF m
  <2> QED
    BY <2>5 DEF Root
<1> QED
  BY <1>2, <1>3

LEMMA SameId ==
  ASSUME NEW c, CollOK(c), Numbered(c), NEW i \in DOMAIN c.entries,
         NEW k \in DOMAIN c.entries, c.entries[i].id = c.entries[k].id
  PROVE  i = k
<1>1. Index(c, c.entries[k].id) = {k}
  BY UniqueId
<1>2. i \in Index(c, c.entries[k].id)
  BY DEF Index
<1> QED
  BY <1>1, <1>2

(* That is the chain of a test of the spec.                                *)
LEMMA RootIsTest ==
  ASSUME NEW n \in Nat, NEW c, CollOK(c), Rooted(n, c)
  PROVE  /\ \A k \in DOMAIN c.entries : Root(c, k) \in 1..n
         /\ \A i \in 1..n : Root(c, i) = i
<1> DEFINE B == {k \in DOMAIN c.entries : Root(c, k) \notin 1..n}
<1>1. DOMAIN c.entries = 1..Len(c.entries) /\ Len(c.entries) \in Nat
  BY DEF CollOK, Collection
<1>2. ASSUME NEW k \in DOMAIN c.entries, c.entries[k].from = 0
      PROVE  Root(c, k) = k /\ k \in 1..n
  <2>1. k <= n /\ Root(c, k) = k
    BY <1>2, RootOf DEF Rooted
  <2> QED
    BY <1>1, <2>1
<1>3. B = {}
  <2>1. SUFFICES ASSUME B # {} PROVE FALSE
    OBVIOUS
  <2>2. B \in SUBSET Nat
    BY <1>1
  <2>3. PICK k \in B : \A j \in B : k <= j
    BY <2>1, <2>2, Least
  <2>4. k \in DOMAIN c.entries /\ Root(c, k) \notin 1..n
    BY <2>3
  <2>5. c.entries[k].from # 0
    BY <1>2, <2>4
  <2>6. PICK p \in 1..k - 1 : c.entries[p].id = c.entries[k].from
    BY <2>4, <2>5 DEF Rooted, Numbered
  <2>7. p \in DOMAIN c.entries /\ ~(k <= p)
    BY <1>1, <2>4, <2>6
  <2>8. Root(c, p) \in 1..n
    BY <2>3, <2>7
  <2>9. Root(c, k) = Root(c, p)
    BY <2>4, <2>6, <2>7, RootOf DEF Rooted
  <2> QED
    BY <2>4, <2>8, <2>9
<1>4. ASSUME NEW i \in 1..n
      PROVE  Root(c, i) = i
  <2>1. i \in DOMAIN c.entries /\ i <= n
    BY DEF Rooted
  <2> QED
    BY <1>2, <2>1 DEF Rooted
<1> QED
  BY <1>3, <1>4

(* The runs of a test are those whose chain begins with it.                *)
LEMMA RunsAreRooted ==
  ASSUME NEW n \in Nat, NEW c, CollOK(c), Rooted(n, c), NEW id \in 1..n,
         NEW k \in DOMAIN c.entries
  PROVE  k \in RunsOf(c, id) <=> Root(c, k) = id
<1> DEFINE N == Len(c.entries)
           f == Lineage(c, k)
<1>1. /\ c.entries \in Seq(Entry) /\ DOMAIN c.entries = 1..N /\ N \in Nat
      /\ Numbered(c)
  BY DEF CollOK, Collection, Rooted
<1>2. id \in DOMAIN c.entries /\ Index(c, id) = {id} /\ c.entries[id].from = 0
  <2>1. id \in DOMAIN c.entries /\ c.entries[id].id = id /\ id <= n
    BY DEF Rooted
  <2>2. c.entries[id].from = 0
    BY <2>1 DEF Rooted
  <2> QED
    BY <1>1, <2>1, <2>2, UniqueId
<1>3. /\ Retries(c, k) \in 0..N - 1
      /\ \A d \in 0..N : f[d] # {} <=> d <= Retries(c, k)
  BY <1>1, ChainLength
<1>4. f[0] = {k} /\ \A d \in 1..N : f[d] = Parents(c, f[d - 1])
  BY <1>1, LineageIs
<1>5. k \in RunsOf(c, id) <=> \E d \in 0..N : f[d] = {id}
  BY <1>2 DEF RunsOf
<1> HIDE DEF f
<1>6. ASSUME NEW d \in 0..N, f[d] = {id}
      PROVE  d = Retries(c, k)
  <2>1. d <= Retries(c, k)
    BY <1>3, <1>6
  <2>2. d + 1 \in 1..N /\ (d + 1) - 1 = d
    BY <1>1, <1>3, <2>1
  <2>3. f[d + 1] = Parents(c, {id})
    BY <1>4, <1>6, <2>2
  <2>4. f[d + 1] = {}
    BY <1>1, <1>2, <2>3, OneParent
  <2>5. ~(d + 1 <= Retries(c, k))
    BY <1>1, <1>3, <2>2, <2>4
  <2> QED
    BY <1>3, <2>1, <2>5
<1>7. Root(c, k) = CHOOSE r \in f[Retries(c, k)] : TRUE
  BY DEF Root, f
<1>8. \A d \in 0..N : f[d] # {} => \E r \in DOMAIN c.entries : f[d] = {r}
  <2> DEFINE B == {d \in 0..N : f[d] # {} /\ ~\E r \in DOMAIN c.entries : f[d] = {r}}
  <2>1. SUFFICES ASSUME B # {} PROVE FALSE
    OBVIOUS
  <2>2. B \in SUBSET Nat
    BY <1>1
  <2>3. PICK d \in B : \A j \in B : d <= j
    BY <2>1, <2>2, Least
  <2>4. d # 0 /\ d \in 0..N /\ f[d] # {} /\ ~\E r \in DOMAIN c.entries : f[d] = {r}
    BY <1>4, <2>3
  <2>5. d \in 1..N /\ d - 1 \in 0..N /\ ~(d <= d - 1)
    BY <1>1, <2>4
  <2>6. f[d] = Parents(c, f[d - 1])
    BY <1>4, <2>5
  <2>7. f[d - 1] # {}
    BY <2>4, <2>6, NoParents
  <2>8. PICK r \in DOMAIN c.entries : f[d - 1] = {r}
    BY <2>3, <2>5, <2>7
  <2>9. CASE c.entries[r].from = 0
    BY <1>1, <2>4, <2>6, <2>8, <2>9, OneParent
  <2>10. CASE c.entries[r].from # 0
    <3>1. PICK p \in 1..r - 1 : c.entries[p].id = c.entries[r].from
      BY <1>1, <2>10 DEF Numbered
    <3>2. p \in DOMAIN c.entries
      BY <1>1, <2>8, <3>1
    <3>3. Parents(c, {r}) = {p}
      BY <1>1, <3>1, <3>2, OneParent
    <3> QED
      BY <2>4, <2>6, <2>8, <3>2, <3>3
  <2> QED
    BY <2>9, <2>10
<1>9. Retries(c, k) \in 0..N /\ f[Retries(c, k)] # {}
  BY <1>1, <1>3
<1>10. PICK r \in DOMAIN c.entries : f[Retries(c, k)] = {r}
  BY <1>8, <1>9
<1>11. Root(c, k) = r
  BY <1>7, <1>10
<1>12. k \in RunsOf(c, id) => r = id
  BY <1>5, <1>6, <1>10
<1>13. r = id => k \in RunsOf(c, id)
  BY <1>5, <1>9, <1>10
<1> QED
  BY <1>11, <1>12, <1>13

(* A chain goes by the ids of its runs: it is the same where they are.     *)
LEMMA SameRoots ==
  ASSUME NEW c, CollOK(c), Numbered(c), NEW d, CollOK(d), Numbered(d),
         DOMAIN c.entries \subseteq DOMAIN d.entries,
         \A k \in DOMAIN c.entries : /\ d.entries[k].id = c.entries[k].id
                                     /\ d.entries[k].from = c.entries[k].from
  PROVE  \A k \in DOMAIN c.entries : Root(d, k) = Root(c, k)
<1> DEFINE B == {k \in DOMAIN c.entries : Root(d, k) # Root(c, k)}
<1>1. SUFFICES ASSUME B # {} PROVE FALSE
  OBVIOUS
<1>2. DOMAIN c.entries = 1..Len(c.entries) /\ Len(c.entries) \in Nat
  BY DEF CollOK, Collection
<1>3. PICK k \in B : \A j \in B : k <= j
  <2>1. B \in SUBSET Nat
    BY <1>2
  <2> QED
    BY <1>1, <2>1, Least
<1>4. k \in DOMAIN c.entries /\ k \in DOMAIN d.entries
  BY <1>3
<1>5. CASE c.entries[k].from = 0
  <2>1. Root(c, k) = k /\ Root(d, k) = k
    BY <1>4, <1>5, RootOf
  <2> QED
    BY <1>3, <2>1
<1>6. CASE c.entries[k].from # 0
  <2>1. PICK p \in 1..k - 1 : c.entries[p].id = c.entries[k].from
    BY <1>4, <1>6 DEF Numbered
  <2>2. p \in DOMAIN c.entries /\ p \in DOMAIN d.entries /\ ~(k <= p)
    BY <1>2, <1>4, <2>1
  <2>3. Root(d, p) = Root(c, p)
    BY <1>3, <2>2
  <2>4. Root(c, k) = Root(c, p)
    BY <1>4, <2>1, <2>2, RootOf
  <2>5. Root(d, k) = Root(d, p)
    <3>1. d.entries[p].id = d.entries[k].from
      BY <1>4, <2>1, <2>2
    <3> QED
      BY <1>4, <2>2, <3>1, RootOf
  <2> QED
    BY <1>3, <2>3, <2>4, <2>5
<1> QED
  BY <1>5, <1>6

-----------------------------------------------------------------------------
(***************************************************************************)
(* What is published.                                                      *)
(***************************************************************************)

(* The results that files hold of a collection are those that are          *)
(* published of it.                                                        *)
LEMMA ResultsAre ==
  ASSUME NEW c, CollOK(c), Numbered(c)
  PROVE  /\ Held(c) = DOMAIN c.entries
         /\ Public(c).results =
              {<<c.entries[k].id, c.entries[k].result>> :
                 k \in {i \in DOMAIN c.entries : c.entries[i].result # "none"}}
<1>1. \A k \in DOMAIN c.entries : Latest(c, c.entries[k].id) = k
  BY UniqueId
<1>2. Held(c) = DOMAIN c.entries
  BY <1>1 DEF Held
<1>3. Public(c).results = {r \in Results(c) : r[2] # "none"}
  BY DEF Public
<1> QED
  BY <1>2, <1>3 DEF Results

(* The tests of which a run has passed, by these results.                  *)
Passing(n, c, results) ==
  {id \in 1..n : \E k \in RunsOf(c, id) : <<c.entries[k].id, "pass">> \in results}

(* The percentage published is theirs.                                     *)
LEMMA PercentIs ==
  ASSUME NEW n \in Nat, NEW c, CollOK(c), Rooted(n, c),
         NEW g, CollOK(g), g.entries = c.entries
  PROVE  Public(c).percent = Share(Cardinality(Passing(n, g, Public(c).results)), n)
<1> DEFINE roots == {r \in {Root(c, k) : k \in Held(c)} : c.entries[r].from = 0}
           passed == {Root(c, k) : k \in {i \in Held(c) : c.entries[i].result = "pass"}}
           R == Public(c).results
<1>1. Numbered(c) /\ Rooted(n, g) /\ Numbered(g)
  BY DEF Rooted, Numbered
<1>2. /\ Held(c) = DOMAIN c.entries
      /\ R = {<<c.entries[k].id, c.entries[k].result>> :
                k \in {i \in DOMAIN c.entries : c.entries[i].result # "none"}}
  BY <1>1, ResultsAre
<1>3. /\ \A k \in DOMAIN c.entries : Root(c, k) \in 1..n
      /\ \A i \in 1..n : Root(c, i) = i /\ i \in DOMAIN c.entries /\ c.entries[i].from = 0
  <2>1. \A i \in 1..n : i \in DOMAIN c.entries /\ i <= n
    BY DEF Rooted
  <2> QED
    BY <2>1, RootIsTest DEF Rooted
<1>4. roots = 1..n
  BY <1>2, <1>3
<1>5. \A k \in DOMAIN g.entries : Root(g, k) = Root(c, k)
  BY <1>1, SameRoots
<1>6. \A k \in DOMAIN c.entries :
        <<c.entries[k].id, "pass">> \in R <=> c.entries[k].result = "pass"
  <2>1. SUFFICES ASSUME NEW k \in DOMAIN c.entries, <<c.entries[k].id, "pass">> \in R
                 PROVE  c.entries[k].result = "pass"
    BY <1>2
  <2>2. PICK i \in DOMAIN c.entries :
          <<c.entries[k].id, "pass">> = <<c.entries[i].id, c.entries[i].result>>
    BY <1>2, <2>1
  <2>3. Index(c, c.entries[k].id) = {k} /\ Index(c, c.entries[k].id) = {i}
    BY <1>1, <2>2, UniqueId
  <2> QED
    BY <2>2, <2>3
<1>7. \A id \in 1..n, k \in DOMAIN g.entries : k \in RunsOf(g, id) <=> Root(c, k) = id
  BY <1>1, <1>5, RunsAreRooted
<1>8. \A id : RunsOf(g, id) \subseteq DOMAIN c.entries
  BY DEF RunsOf
<1> HIDE DEF R
<1>9. Passing(n, g, R) = roots \cap passed
  <2>1. ASSUME NEW id \in Passing(n, g, R)
        PROVE  id \in 1..n /\ id \in passed
    <3>1. PICK k \in RunsOf(g, id) : <<g.entries[k].id, "pass">> \in R
      BY DEF Passing
    <3>2. k \in DOMAIN c.entries /\ c.entries[k].result = "pass"
      BY <1>6, <1>8, <3>1
    <3>3. id \in 1..n
      BY DEF Passing
    <3> QED
      BY <1>2, <1>7, <3>2, <3>3
  <2>2. ASSUME NEW id \in 1..n, id \in passed
        PROVE  id \in Passing(n, g, R)
    <3>1. PICK k \in DOMAIN c.entries : c.entries[k].result = "pass" /\ id = Root(c, k)
      BY <1>2, <2>2
    <3>2. k \in RunsOf(g, id)
      BY <1>7, <3>1
    <3> QED
      BY <1>6, <3>1, <3>2 DEF Passing
  <2> QED
    BY <1>4, <2>1, <2>2
<1>10. Cardinality(1..n) = n
  BY FS_Interval
<1>11. Public(c).percent = Share(Cardinality(roots \cap passed), Cardinality(roots))
  BY DEF Public, Percent
<1> QED
  BY <1>4, <1>9, <1>10, <1>11 DEF R

(* What was published counts as it did, as runs are added to those that    *)
(* its results are of.                                                     *)
LEMMA PassingStays ==
  ASSUME NEW n \in Nat, NEW c, CollOK(c), Rooted(n, c), NEW d, CollOK(d), Rooted(n, d),
         DOMAIN c.entries \subseteq DOMAIN d.entries,
         \A k \in DOMAIN c.entries : /\ d.entries[k].id = c.entries[k].id
                                     /\ d.entries[k].from = c.entries[k].from,
         NEW results, \A r \in results : \E k \in DOMAIN c.entries : r[1] = c.entries[k].id
  PROVE  Passing(n, d, results) = Passing(n, c, results)
<1>1. Numbered(c) /\ Numbered(d)
  BY DEF Rooted
<1>2. \A k \in DOMAIN c.entries : Root(d, k) = Root(c, k)
  BY <1>1, SameRoots
<1>3. \A id \in 1..n, k \in DOMAIN c.entries :
        k \in DOMAIN d.entries /\ (k \in RunsOf(d, id) <=> k \in RunsOf(c, id))
  <2>1. SUFFICES ASSUME NEW id \in 1..n, NEW k \in DOMAIN c.entries
                 PROVE  k \in DOMAIN d.entries /\ (k \in RunsOf(d, id) <=> k \in RunsOf(c, id))
    OBVIOUS
  <2>2. k \in DOMAIN d.entries
    OBVIOUS
  <2>3. k \in RunsOf(d, id) <=> Root(d, k) = id
    BY <2>2, RunsAreRooted
  <2>4. k \in RunsOf(c, id) <=> Root(c, k) = id
    BY RunsAreRooted
  <2> QED
    BY <1>2, <2>2, <2>3, <2>4
<1>4. /\ \A id : RunsOf(c, id) \subseteq DOMAIN c.entries
      /\ \A id : RunsOf(d, id) \subseteq DOMAIN d.entries
  BY DEF RunsOf
<1>5. ASSUME NEW k \in DOMAIN d.entries, <<d.entries[k].id, "pass">> \in results
      PROVE  k \in DOMAIN c.entries
  <2>1. PICK i \in DOMAIN c.entries : <<d.entries[k].id, "pass">>[1] = c.entries[i].id
    BY <1>5
  <2>2. i \in DOMAIN d.entries /\ d.entries[i].id = d.entries[k].id
    BY <2>1
  <2> QED
    BY <1>1, <2>1, <2>2, SameId
<1> QED
  BY <1>3, <1>4, <1>5 DEF Passing

(* More results are never a smaller share.                                 *)
LEMMA ShareGrows ==
  ASSUME NEW n \in Nat \ {0}, NEW a \in Nat, NEW b \in Nat, a <= b
  PROVE  0 <= Share(a, n) /\ Share(a, n) <= Share(b, n) /\ Share(a, n) \in Nat
<1> DEFINE p == (100 * a) \div n
           q == (100 * b) \div n
<1>1. 100 * a \in Nat /\ 100 * b \in Nat /\ 100 * a <= 100 * b
  OBVIOUS
<1>2. /\ p \in Int /\ n * p <= 100 * a /\ 100 * a < n * (p + 1)
      /\ q \in Int /\ n * q <= 100 * b /\ 100 * b < n * (q + 1)
  BY <1>1
<1>3. Share(a, n) = p /\ Share(b, n) = q
  BY DEF Share
<1> HIDE DEF p, q
<1>4. p <= q
  <2>1. SUFFICES ASSUME q + 1 <= p PROVE FALSE
    BY <1>2
  <2>2. n * (q + 1) <= n * p
    BY <1>2, <2>1
  <2> QED
    BY <1>1, <1>2, <2>2
<1>5. 0 <= p
  <2>1. SUFFICES ASSUME p + 1 <= 0 PROVE FALSE
    BY <1>2
  <2>2. n * (p + 1) <= 0
    BY <1>2, <2>1
  <2> QED
    BY <1>1, <1>2, <2>2
<1> QED
  BY <1>2, <1>3, <1>4, <1>5

-----------------------------------------------------------------------------
(***************************************************************************)
(* Collections that are whole, and how they grow.                          *)
(***************************************************************************)

(* A run has ended when it has a result; a run that failed was the last,   *)
(* or has been retried.                                                    *)
Accounted(c, k) ==
  /\ c.entries[k].bucket = "Completed" <=> c.entries[k].result # "none"
  /\ c.entries[k].result = "fail" =>
       \/ Retries(c, k) = FailureRetries
       \/ \E i \in DOMAIN c.entries : c.entries[i].from = c.entries[k].id

AllEnded(c) == \A k \in DOMAIN c.entries : c.entries[k].bucket = "Completed"

(* There is a run of every test, and every run is accounted for.           *)
Whole(n, c) ==
  /\ Rooted(n, c)
  /\ \A k \in DOMAIN c.entries : Accounted(c, k)
  /\ c.bucket = "Completed" => AllEnded(c)

(* Runs are added; a result stays, and a collection that is completed.     *)
Grown(c, d) ==
  /\ c.bucket = "Completed" => d.bucket = "Completed" /\ d.entries = c.entries
  /\ \A k \in DOMAIN c.entries :
       /\ k \in DOMAIN d.entries
       /\ d.entries[k].id = c.entries[k].id /\ d.entries[k].from = c.entries[k].from
       /\ c.entries[k].result # "none" => d.entries[k].result = c.entries[k].result

LEMMA GrownMore ==
  ASSUME NEW b, NEW c, NEW d, Grown(b, c), Grown(c, d)
  PROVE  Grown(b, d)
BY DEF Grown

LEMMA SameWhole ==
  ASSUME NEW n \in Nat, NEW c, CollOK(c), Whole(n, c), NEW d, CollOK(d),
         d.entries = c.entries, d.bucket = "Completed" => AllEnded(c)
  PROVE  Whole(n, d)
<1>1. Numbered(c) /\ Rooted(n, d) /\ Numbered(d)
  BY DEF Whole, Rooted, Numbered
<1>2. \A k \in DOMAIN c.entries : Retries(d, k) = Retries(c, k)
  BY <1>1, SameRetries
<1>3. \A k \in DOMAIN d.entries : Accounted(d, k)
  BY <1>2 DEF Whole, Accounted
<1>4. d.bucket = "Completed" => AllEnded(d)
  BY DEF AllEnded
<1> QED
  BY <1>1, <1>3, <1>4 DEF Whole

LEMMA SameGrown ==
  ASSUME NEW c, NEW d, d.entries = c.entries,
         c.bucket = "Completed" => d.bucket = "Completed"
  PROVE  Grown(c, d)
BY DEF Grown

(* Runs go on being accounted for when those that are there keep their     *)
(* ids, those that change are accounted for, and those added are retries.  *)
LEMMA WholeMore ==
  ASSUME NEW n \in Nat, NEW c, CollOK(c), Whole(n, c), NEW d, CollOK(d), Numbered(d),
         d.bucket # "Completed", DOMAIN c.entries \subseteq DOMAIN d.entries,
         \A k \in DOMAIN c.entries : /\ d.entries[k].id = c.entries[k].id
                                     /\ d.entries[k].from = c.entries[k].from,
         \A k \in DOMAIN d.entries :
           \/ k \in DOMAIN c.entries /\ d.entries[k].result = c.entries[k].result
                                     /\ (d.entries[k].bucket = "Completed"
                                           <=> c.entries[k].bucket = "Completed")
           \/ Accounted(d, k),
         \A k \in DOMAIN d.entries : k \in DOMAIN c.entries \/ d.entries[k].from # 0
  PROVE  Whole(n, d)
<1>1. /\ DOMAIN c.entries = 1..Len(c.entries) /\ Len(c.entries) \in Nat
      /\ DOMAIN d.entries = 1..Len(d.entries) /\ Len(d.entries) \in Nat
  BY DEF CollOK, Collection
<1>2. Numbered(c) /\ Rooted(n, c)
  BY DEF Whole, Rooted
<1>3. \A k \in DOMAIN c.entries : Retries(d, k) = Retries(c, k)
  BY <1>2, SameRetries
<1>4. Rooted(n, d)
  <2>1. \A i \in 1..n : i \in DOMAIN c.entries /\ i \in DOMAIN d.entries /\ d.entries[i].id = i
    BY <1>2 DEF Rooted
  <2>2. ASSUME NEW k \in DOMAIN d.entries
        PROVE  d.entries[k].from = 0 <=> k <= n
    <3>1. CASE k \in DOMAIN c.entries
      BY <1>2, <3>1 DEF Rooted
    <3>2. CASE k \notin DOMAIN c.entries
      <4>1. k \notin 1..n /\ k \in Nat /\ k # 0
        BY <1>1, <2>1, <3>2
      <4>2. ~(k <= n)
        BY <4>1
      <4> QED
        BY <3>2, <4>2
    <3> QED
      BY <3>1, <3>2
  <2> QED
    BY <2>1, <2>2 DEF Rooted
<1>5. ASSUME NEW k \in DOMAIN c.entries, d.entries[k].result = c.entries[k].result,
             d.entries[k].bucket = "Completed" <=> c.entries[k].bucket = "Completed"
      PROVE  Accounted(d, k)
  <2>1. Accounted(c, k)
    BY DEF Whole
  <2>2. ASSUME NEW i \in DOMAIN c.entries, c.entries[i].from = c.entries[k].id
        PROVE  i \in DOMAIN d.entries /\ d.entries[i].from = d.entries[k].id
    BY <2>2
  <2> QED
    BY <1>3, <1>5, <2>1, <2>2 DEF Accounted
<1>6. \A k \in DOMAIN d.entries : Accounted(d, k)
  BY <1>5
<1> QED
  BY <1>4, <1>6 DEF Whole

(* A new collection.                                                       *)
LEMMA NewWhole ==
  ASSUME NEW n \in Nat \ {0}, NEW date \in Nat
  PROVE  /\ Whole(n, NewCollection(n, date))
         /\ DOMAIN NewCollection(n, date).entries = 1..n
         /\ \A i \in 1..n : /\ NewCollection(n, date).entries[i].id = i
                            /\ NewCollection(n, date).entries[i].result = "none"
<1> DEFINE c == NewCollection(n, date)
<1>1. c.entries = [i \in 1..n |-> NewEntry(i, 0)] /\ c.bucket = "Waiting"
  BY DEF NewCollection, Fresh, NoCollection
<1>2. Numbered(c)
  BY NewCounted DEF Counted
<1> HIDE DEF c
<1>3. /\ DOMAIN c.entries = 1..n
      /\ \A k \in 1..n : /\ c.entries[k].id = k /\ c.entries[k].from = 0
                         /\ c.entries[k].bucket = "Queued" /\ c.entries[k].result = "none"
  BY <1>1 DEF NewEntry
<1>4. Rooted(n, c)
  BY <1>2, <1>3 DEF Rooted
<1>5. \A k \in DOMAIN c.entries : Accounted(c, k)
  BY <1>3 DEF Accounted
<1>6. Whole(n, c)
  BY <1>1, <1>4, <1>5 DEF Whole
<1> QED
  BY <1>3, <1>6 DEF c

(* A test that starts.                                                     *)
LEMMA StartedWhole ==
  ASSUME NEW n \in Nat, NEW c, CollOK(c), Counted(c), Whole(n, c), c.bucket = "Running",
         NEW k \in In(c, "Queued") \cup In(c, "Retry")
  PROVE  LET d == Started(c, k)
         IN  /\ Whole(n, d) /\ Grown(c, d) /\ DOMAIN d.entries = DOMAIN c.entries
             /\ \A i \in DOMAIN c.entries : /\ d.entries[i].result = c.entries[i].result
                                            /\ i # k => d.entries[i] = c.entries[i]
<1> DEFINE d == Started(c, k)
           e == [c.entries[k] EXCEPT !.status = "Running", !.bucket = "Running"]
<1>1. /\ c \in Collection /\ c.entries \in Seq(Entry) /\ k \in DOMAIN c.entries
      /\ c.entries[k] \in Entry /\ c.entries[k].bucket # "Completed"
  BY DEF CollOK, Collection, In
<1>2. CollOK(d) /\ Numbered(d)
  BY StartedOK, StartedCounted DEF Counted
<1>3. d.entries = [c.entries EXCEPT ![k] = e] /\ d.bucket = "Running"
  BY <1>1 DEF Started, Taken, Collection
<1>4. /\ e.id = c.entries[k].id /\ e.from = c.entries[k].from
      /\ e.result = c.entries[k].result /\ e.bucket = "Running"
  BY <1>1 DEF Entry
<1> HIDE DEF d, e
<1>5. /\ DOMAIN d.entries = DOMAIN c.entries
      /\ \A i \in DOMAIN c.entries :
           /\ d.entries[i].id = c.entries[i].id /\ d.entries[i].from = c.entries[i].from
           /\ d.entries[i].result = c.entries[i].result
           /\ d.entries[i].bucket = "Completed" <=> c.entries[i].bucket = "Completed"
           /\ i # k => d.entries[i] = c.entries[i]
  <2>1. DOMAIN d.entries = DOMAIN c.entries
    BY <1>3
  <2>2. ASSUME NEW i \in DOMAIN c.entries
        PROVE  d.entries[i] = IF i = k THEN e ELSE c.entries[i]
    BY <1>3
  <2> QED
    BY <1>1, <1>4, <2>1, <2>2
<1>6. Whole(n, d)
  BY <1>2, <1>3, <1>5, WholeMore
<1>7. Grown(c, d)
  BY <1>5 DEF Grown
<1> QED
  BY <1>5, <1>6, <1>7 DEF d

(* A test that ends, and its retry.                                        *)
LEMMA EndedRun ==
  ASSUME NEW c, CollOK(c), Counted(c), NEW j, HasEntry(c, j.id), IsRunning(c, j),
         NEW result \in {"pass", "fail"}
  PROVE  LET m == Marked(c, j)
             a == Latest(c, j.id)
             again == result = "fail" /\ Retried(m, a)
             d == Ended(m, a, result)
         IN  /\ a \in DOMAIN c.entries /\ d.bucket = c.bucket /\ m.next = c.next
             /\ c.entries[a].id = j.id /\ m.entries[a].id = j.id
             /\ DOMAIN d.entries = DOMAIN c.entries
                                     \cup (IF again THEN {Len(c.entries) + 1} ELSE {})
             /\ d.entries[a].id = j.id /\ d.entries[a].from = c.entries[a].from
             /\ d.entries[a].bucket = "Completed" /\ d.entries[a].result = result
             /\ \A k \in DOMAIN c.entries : k # a => d.entries[k] = c.entries[k]
             /\ again => d.entries[Len(c.entries) + 1] = NewEntry(c.next, j.id)
<1> DEFINE m == Marked(c, j)
           a == Latest(c, j.id)
           f == Finished(m, a, result)
           N == Len(c.entries)
<1>1. a \in DOMAIN c.entries /\ c.entries[a].id = j.id
  BY LatestIsThere
<1>2. /\ c \in Collection /\ c.entries \in Seq(Entry) /\ c.entries[a] \in Entry
      /\ DOMAIN c.entries = 1..N /\ N \in Nat
  BY <1>1 DEF CollOK, Collection
<1>3. CollOK(m) /\ m \in Collection
  BY MarkedOK DEF CollOK
<1>4. /\ m.next = c.next /\ DOMAIN m.entries = DOMAIN c.entries
      /\ \A k \in DOMAIN c.entries :
           /\ m.entries[k].id = c.entries[k].id
           /\ m.entries[k].from = c.entries[k].from
           /\ k # a => m.entries[k] = c.entries[k]
  BY MarkedEntries
<1>5. m.bucket = c.bucket
  BY <1>2 DEF Marked, Collection
<1> HIDE DEF m, a
<1>6. /\ f.next = m.next /\ DOMAIN f.entries = DOMAIN c.entries
      /\ f.entries[a].bucket = "Completed"
      /\ \A k \in DOMAIN c.entries :
           /\ f.entries[k].id = c.entries[k].id
           /\ f.entries[k].from = c.entries[k].from
           /\ k # a => f.entries[k] = c.entries[k]
  <2>1. a \in DOMAIN m.entries
    BY <1>1, <1>4
  <2> QED
    BY <1>3, <1>4, <2>1, FinishedEntries
<1>7. /\ f.entries[a].result = result /\ f.bucket = m.bucket
      /\ f.entries \in Seq(Entry) /\ Len(f.entries) = N /\ Len(m.entries) = N
  <2>1. m.entries \in Seq(Entry) /\ m.entries[a] \in Entry /\ a \in DOMAIN m.entries
    BY <1>1, <1>3, <1>4 DEF Collection
  <2>2. /\ f.entries = [m.entries EXCEPT ![a] = [m.entries[a] EXCEPT
                          !.bucket = "Completed", !.result = result]]
        /\ f.bucket = m.bucket
    BY <1>3 DEF Finished, Collection
  <2>3. [m.entries[a] EXCEPT !.bucket = "Completed", !.result = result] \in Entry
    BY <2>1 DEF Entry, Bucket
  <2>4. f.entries[a].result = result
    BY <2>1, <2>2 DEF Entry
  <2> QED
    BY <1>2, <1>4, <2>1, <2>2, <2>3, <2>4
<1>8. Ended(m, a, result) =
        IF result = "fail" /\ Retried(m, a) THEN Again(f, m.entries[a].id) ELSE f
  <2>1. f.next = m.next /\ Len(f.entries) = Len(m.entries)
    BY <1>6, <1>7
  <2> QED
    BY <2>1 DEF Ended, Again, Finished
<1>9. /\ Again(f, j.id).entries = Append(f.entries, NewEntry(f.next, j.id))
      /\ Again(f, j.id).bucket = f.bucket
  BY <1>3 DEF Again, Finished, Collection
<1> HIDE DEF f
<1>10. m.entries[a].id = j.id
  BY <1>1, <1>4
<1>11. /\ DOMAIN Again(f, j.id).entries = DOMAIN c.entries \cup {N + 1}
       /\ \A k \in DOMAIN c.entries : Again(f, j.id).entries[k] = f.entries[k]
       /\ Again(f, j.id).entries[N + 1] = NewEntry(c.next, j.id)
  <2> DEFINE e == NewEntry(f.next, j.id)
             s == Append(f.entries, e)
  <2>1. e = NewEntry(c.next, j.id) /\ Again(f, j.id).entries = s
    BY <1>4, <1>6, <1>9
  <2> HIDE DEF e
  <2>2. /\ DOMAIN s = 1..N + 1 /\ s[N + 1] = e
        /\ \A k \in 1..N : s[k] = f.entries[k]
    BY <1>2, <1>7
  <2> HIDE DEF s
  <2>3. 1..N + 1 = DOMAIN c.entries \cup {N + 1}
    BY <1>2
  <2> QED
    BY <1>2, <2>1, <2>2, <2>3
<1> QED
  BY <1>1, <1>4, <1>5, <1>6, <1>7, <1>8, <1>9, <1>10, <1>11 DEF m, a

LEMMA EndedWhole ==
  ASSUME NEW n \in Nat, NEW c, CollOK(c), Counted(c), Whole(n, c), c.bucket # "Completed",
         NEW j, HasEntry(c, j.id), IsRunning(c, j), NEW result \in {"pass", "fail"}
  PROVE  LET d == Ended(Marked(c, j), Latest(c, j.id), result)
         IN  CollOK(d) /\ Numbered(d) /\ Whole(n, d) /\ Grown(c, d)
<1> DEFINE m == Marked(c, j)
           a == Latest(c, j.id)
           again == result = "fail" /\ Retried(m, a)
           d == Ended(m, a, result)
           N == Len(c.entries)
<1>1. /\ c.entries \in Seq(Entry) /\ DOMAIN c.entries = 1..N /\ N \in Nat
      /\ a \in DOMAIN c.entries /\ c.entries[a].id = j.id /\ j.id # 0
  <2>1. a \in DOMAIN c.entries /\ c.entries[a].id = j.id
    BY LatestIsThere
  <2> HIDE DEF a
  <2>2. c.entries[a].id # 0 /\ c.entries \in Seq(Entry)
    BY <2>1 DEF CollOK, Collection
  <2> QED
    BY <2>1, <2>2
<1>2. CollOK(m) /\ a \in In(m, "Running") /\ Counted(d)
  BY ExaminedCounted
<1>3. CollOK(d) /\ Numbered(d) /\ Numbered(c)
  BY <1>2, EndedOK DEF Counted
<1>4. /\ d.bucket = c.bucket
      /\ DOMAIN d.entries = DOMAIN c.entries \cup (IF again THEN {N + 1} ELSE {})
      /\ d.entries[a].id = j.id /\ d.entries[a].from = c.entries[a].from
      /\ d.entries[a].bucket = "Completed" /\ d.entries[a].result = result
      /\ \A k \in DOMAIN c.entries : k # a => d.entries[k] = c.entries[k]
      /\ again => d.entries[N + 1] = NewEntry(c.next, j.id)
  BY EndedRun
<1>5. Retries(m, a) = Retries(d, a)
  <2>1. /\ DOMAIN m.entries = DOMAIN c.entries
        /\ \A k \in DOMAIN c.entries : /\ m.entries[k].id = c.entries[k].id
                                       /\ m.entries[k].from = c.entries[k].from
    BY MarkedEntries
  <2>2. Numbered(m)
    BY <1>2, <1>3, <2>1, SameNumbered
  <2> HIDE DEF m, d, a
  <2>3. Retries(m, a) = Retries(c, a)
    BY <1>1, <1>2, <1>3, <2>1, <2>2, SameRetries
  <2>4. \A k \in DOMAIN c.entries : /\ d.entries[k].id = c.entries[k].id
                                    /\ d.entries[k].from = c.entries[k].from
    BY <1>1, <1>4
  <2>5. DOMAIN c.entries \subseteq DOMAIN d.entries
    BY <1>4
  <2>6. Retries(d, a) = Retries(c, a)
    BY <1>1, <1>3, <2>4, <2>5, SameRetries
  <2> QED
    BY <2>3, <2>6
<1>6. Retried(m, a) <=> Retries(d, a) < FailureRetries
  BY <1>5 DEF Retried
<1>7. c.entries[a].bucket # "Completed" /\ c.entries[a].result = "none"
  <2>1. EntryPlaced(c.entries[a]) /\ Accounted(c, a)
    BY <1>1 DEF Counted, Whole
  <2> QED
    BY <2>1 DEF EntryPlaced, Accounted, IsRunning
<1>8. /\ a \in DOMAIN d.entries /\ Retries(d, a) \in Nat /\ Retries(d, a) <= FailureRetries
      /\ FailureRetries \in Nat
  <2>1. a \in DOMAIN d.entries /\ Len(d.entries) \in Nat
    BY <1>1, <1>3, <1>4 DEF CollOK, Collection
  <2> QED
    BY <1>2, <1>3, <2>1, ChainLength, TestAssumption DEF Counted
<1> HIDE DEF m, a, d
<1>9. Accounted(d, a)
  <2>1. CASE again
    <3>1. N + 1 \in DOMAIN d.entries /\ d.entries[N + 1].from = d.entries[a].id
      BY <1>4, <2>1 DEF NewEntry
    <3> QED
      BY <1>4, <3>1 DEF Accounted
  <2>2. CASE ~again
    <3>1. result = "fail" => Retries(d, a) = FailureRetries
      BY <1>6, <1>8, <2>2
    <3> QED
      BY <1>4, <3>1 DEF Accounted
  <2> QED
    BY <2>1, <2>2
<1>10. again => Accounted(d, N + 1) /\ d.entries[N + 1].from # 0
  BY <1>1, <1>4 DEF NewEntry, Accounted
<1>11. Whole(n, d)
  <2>1. ASSUME NEW k \in DOMAIN d.entries
        PROVE  /\ \/ k \in DOMAIN c.entries /\ d.entries[k].result = c.entries[k].result
                     /\ (d.entries[k].bucket = "Completed"
                           <=> c.entries[k].bucket = "Completed")
                  \/ Accounted(d, k)
               /\ k \in DOMAIN c.entries \/ d.entries[k].from # 0
    BY <1>4, <1>9, <1>10
  <2>2. \A k \in DOMAIN c.entries : /\ d.entries[k].id = c.entries[k].id
                                    /\ d.entries[k].from = c.entries[k].from
    BY <1>1, <1>4
  <2>3. DOMAIN c.entries \subseteq DOMAIN d.entries /\ d.bucket # "Completed"
    BY <1>4
  <2> QED
    BY <1>3, <2>1, <2>2, <2>3, WholeMore
<1>12. Grown(c, d)
  BY <1>1, <1>4, <1>7 DEF Grown
<1> QED
  BY <1>3, <1>11, <1>12 DEF d, m, a

-----------------------------------------------------------------------------
(***************************************************************************)
(* The inductive invariant.  Bulk writes are never cut short; and while    *)
(* the operator may be killed, ids are given once, a write is not torn,    *)
(* and every collection is found again.                                    *)
(***************************************************************************)
Steady ==
  /\ ~Fault("io")
  /\ MaxRestarts = 0 \/ (FailureRetries = 0 /\ ~Fault("api") /\ ~Fault("torn"))

(* What the files say of a collection.                                     *)
File(u) == Loaded(saved[u])

SavedInv ==
  \A u \in Uid :
    /\ Mirrors(saved[u], File(u))
    /\ saved[u].entity = NoEntity => saved[u] = NoFiles
    /\ saved[u].entity # NoEntity => Whole(NumTests[u], File(u))

(* What the memory says of u, being c, and the files do not, being f, is   *)
(* to be written; a result is to be written only where there is one.       *)
Noted(items, u, c, f) ==
  /\ EntityOf(u) \in items \/ f.bucket = c.bucket
  /\ \A k \in DOMAIN c.entries :
       LET id == c.entries[k].id
       IN  /\ \/ ShallowOf(u, id) \in items
              \/ k \in DOMAIN f.entries /\ Shallow(f.entries[k]) = Shallow(c.entries[k])
           /\ \/ ResultOf(u, id) \in items
              \/ c.entries[k].result = "none"
              \/ k \in DOMAIN f.entries /\ f.entries[k].result = c.entries[k].result
           /\ ResultOf(u, id) \in items => c.entries[k].result # "none"

MemoryInv ==
  \A u \in Uid : Present(u) =>
    /\ Whole(NumTests[u], coll[u])
    /\ Grown(File(u), coll[u])
    /\ Noted(dirty, u, coll[u], File(u))

(* An object without a collection has no files; what is to be published is *)
(* there; a name is borne by one object; collections whose files are to be *)
(* deleted are no more.                                                    *)
ObjectInv ==
  /\ \A u \in alive : ~Present(u) /\ ~At("down") => saved[u].entity = NoEntity
  /\ \A u \in worker.changed : u \in born /\ (u \in alive => Present(u))
  /\ \A u, v \in alive : NameOf[u] = NameOf[v] => u = v
  /\ \A u \in worker.doomed : ~Present(u)

(* When results are published, everything is on file.                      *)
WrittenInv ==
  Publishing => \A u \in Uid : Present(u) =>
    File(u).entries = coll[u].entries /\ File(u).bucket = coll[u].bucket

(* What is published is on file, and is all there is of a collection that  *)
(* is complete.                                                            *)
PublicInv ==
  /\ DOMAIN kstatus = Uid
  /\ \A u \in Uid : kstatus[u] # NoStatus =>
       /\ u \in alive /\ saved[u].entity # NoEntity
       /\ kstatus[u].status # "" /\ kstatus[u].results \subseteq saved[u].result
       /\ kstatus[u].status = "Complete" =>
            saved[u].entity.bucket = "Completed" /\ kstatus[u].results = saved[u].result
  /\ \A u \in Uid : kstatus[u] = [status |-> kstatus[u].status, percent |-> kstatus[u].percent,
                                  results |-> kstatus[u].results]

SteadyInv ==
  SavedInv /\ MemoryInv /\ ObjectInv /\ WrittenInv /\ PublicInv /\ PercentEarned

(* Whatever is noted is the note of something.                             *)
NotesInv == \A n \in dirty : n = [kind |-> n.kind, uid |-> n.uid, id |-> n.id]

(* What is known of the lists, of the retries, of the objects and notes.   *)
Base == ListsInv /\ IdsInv /\ BornInv /\ NotesInv

-----------------------------------------------------------------------------
(***************************************************************************)
(* A turn: what changes of a collection is noted.                          *)
(***************************************************************************)

LEMMA TestsOf ==
  ASSUME NEW u \in Uid
  PROVE  NumTests[u] \in Nat \ {0} /\ NumTests[u] \in Nat
BY TestAssumption

(* The collection of u becomes d.                                          *)
LEMMA OneMemory ==
  ASSUME ListsInv, MemoryInv, NEW u \in Uid, NEW d,
         coll' = [coll EXCEPT ![u] = d], UNCHANGED saved,
         dirty \subseteq dirty', \A n \in dirty' : n \in dirty \/ n.uid = u,
         Whole(NumTests[u], d), Noted(dirty', u, d, File(u)),
         (Present(u) /\ Grown(coll[u], d)) \/ Grown(File(u), d)
  PROVE  MemoryInv'
<1>1. \A v \in Uid : File(v)' = File(v) /\ coll'[v] = IF v = u THEN d ELSE coll[v]
  BY DEF File, ListsInv, CollsInv
<1>2. ASSUME NEW v \in Uid, v # u, Present(v)
      PROVE  Noted(dirty', v, coll[v], File(v))
  <2>1. Noted(dirty, v, coll[v], File(v))
    BY <1>2 DEF MemoryInv
  <2>2. \A id : ResultOf(v, id) \in dirty' => ResultOf(v, id) \in dirty
    BY <1>2 DEF ResultOf
  <2> QED
    BY <2>1, <2>2 DEF Noted
<1>3. Grown(File(u), d)
  BY GrownMore DEF MemoryInv
<1> QED
  BY <1>1, <1>2, <1>3 DEF MemoryInv, Present

(* Nothing changes, and no result is noted.                                *)
LEMMA SameMemory ==
  ASSUME MemoryInv, UNCHANGED <<coll, saved>>, dirty \subseteq dirty',
         \A n \in dirty' : n \in dirty \/ n.kind # "result"
  PROVE  MemoryInv'
<1>1. ASSUME NEW u \in Uid, Present(u)
      PROVE  Noted(dirty', u, coll[u], File(u))
  <2>1. Noted(dirty, u, coll[u], File(u))
    BY <1>1 DEF MemoryInv
  <2>2. \A id : ResultOf(u, id) \in dirty' => ResultOf(u, id) \in dirty
    BY DEF ResultOf
  <2> QED
    BY <2>1, <2>2 DEF Noted
<1> QED
  BY <1>1 DEF MemoryInv, Present, File

(* The entries are as they were; its state is, or is noted.                *)
LEMMA FieldsNoted ==
  ASSUME NEW items, NEW u, NEW c, NEW f, Noted(items, u, c, f),
         NEW d, d.entries = c.entries, NEW more, \A n \in items : n.uid = u => n \in more,
         \A id : ResultOf(u, id) \in more => ResultOf(u, id) \in items,
         d.bucket = c.bucket \/ EntityOf(u) \in more
  PROVE  Noted(more, u, d, f)
<1>1. EntityOf(u).uid = u /\ \A id : ShallowOf(u, id).uid = u /\ ResultOf(u, id).uid = u
  BY DEF EntityOf, ShallowOf, ResultOf
<1>2. EntityOf(u) \in more \/ f.bucket = d.bucket
  BY <1>1 DEF Noted
<1>3. ASSUME NEW id
      PROVE  /\ ShallowOf(u, id) \in items => ShallowOf(u, id) \in more
             /\ ResultOf(u, id) \in items <=> ResultOf(u, id) \in more
  BY <1>1
<1> QED
  BY <1>2, <1>3 DEF Noted

(* One entry that changes is noted, and one that is added.                 *)
LEMMA EntriesNoted ==
  ASSUME NEW items, NEW u, NEW c, NEW f, Noted(items, u, c, f), NEW d, d.bucket = c.bucket,
         NEW more, items \subseteq more,
         \A k \in DOMAIN d.entries :
           \/ /\ k \in DOMAIN c.entries /\ d.entries[k] = c.entries[k]
              /\ ResultOf(u, c.entries[k].id) \in more
                   => ResultOf(u, c.entries[k].id) \in items
           \/ /\ ShallowOf(u, d.entries[k].id) \in more
              /\ ResultOf(u, d.entries[k].id) \in more <=> d.entries[k].result # "none"
  PROVE  Noted(more, u, d, f)
<1>1. EntityOf(u) \in more \/ f.bucket = d.bucket
  BY DEF Noted
<1>2. ASSUME NEW k \in DOMAIN d.entries
      PROVE  LET id == d.entries[k].id
             IN  /\ \/ ShallowOf(u, id) \in more
                    \/ k \in DOMAIN f.entries /\ Shallow(f.entries[k]) = Shallow(d.entries[k])
                 /\ \/ ResultOf(u, id) \in more
                    \/ d.entries[k].result = "none"
                    \/ k \in DOMAIN f.entries /\ f.entries[k].result = d.entries[k].result
                 /\ ResultOf(u, id) \in more => d.entries[k].result # "none"
  <2>1. CASE /\ k \in DOMAIN c.entries /\ d.entries[k] = c.entries[k]
             /\ ResultOf(u, c.entries[k].id) \in more
                  => ResultOf(u, c.entries[k].id) \in items
    BY <2>1 DEF Noted
  <2>2. CASE /\ ShallowOf(u, d.entries[k].id) \in more
             /\ ResultOf(u, d.entries[k].id) \in more <=> d.entries[k].result # "none"
    BY <2>2
  <2> QED
    BY <2>1, <2>2
<1> QED
  BY <1>1, <1>2 DEF Noted

(* The end of a turn.                                                      *)
LEMMA FinishTurnMemory ==
  ASSUME ListsInv, MemoryInv, worker.index \in DOMAIN running, NEW c, CollOK(c),
         c.entries = coll[Current].entries, c.bucket = coll[Current].bucket,
         NEW changed, FinishTurn(c, dirty, changed), UNCHANGED saved
  PROVE  MemoryInv'
<1> DEFINE u == Current
           first == worker.index = 1 /\ ~c.started
           d == IF first THEN Primary(c) ELSE c
<1>1. u \in Uid /\ CollOK(coll[u]) /\ coll[u].bucket = "Running" /\ Present(u)
  BY CurrentRuns DEF ListsInv, DataInv, Present
<1>2. CollOK(d) /\ d.entries = coll[u].entries /\ d.bucket = "Running"
  <2>1. /\ Primary(c).entries = c.entries /\ Primary(c).bucket = c.bucket
        /\ CollOK(Primary(c))
    BY FieldsOK DEF Primary, CollOK, Collection
  <2> QED
    BY <1>1, <2>1
<1>3. coll' = [coll EXCEPT ![u] = d] /\ dirty' = dirty \cup (IF first THEN {EntityOf(u)} ELSE {})
  BY DEF FinishTurn
<1> HIDE DEF u, d, first
<1>4. /\ dirty \subseteq dirty' /\ \A n \in dirty' : n \in dirty \/ n = EntityOf(u)
      /\ EntityOf(u).uid = u /\ \A id : ResultOf(u, id) # EntityOf(u)
  BY <1>3 DEF EntityOf, ResultOf
<1>5. Whole(NumTests[u], d)
  <2>1. Whole(NumTests[u], coll[u])
    BY <1>1 DEF MemoryInv
  <2> QED
    BY <1>1, <1>2, <2>1, SameWhole, TestsOf
<1>6. Grown(coll[u], d)
  BY <1>1, <1>2, SameGrown
<1>7. Noted(dirty', u, d, File(u))
  <2>1. Noted(dirty, u, coll[u], File(u))
    BY <1>1 DEF MemoryInv
  <2> QED
    BY <1>1, <1>2, <1>4, <2>1, FieldsNoted
<1> QED
  BY <1>1, <1>3, <1>4, <1>5, <1>6, <1>7, OneMemory

(* A test ends.                                                            *)
LEMMA ExamineMemory ==
  ASSUME ListsInv, IdsInv, MemoryInv, NEW j \in worker.todo, Examine(j)
  PROVE  MemoryInv'
<1> DEFINE u == Current
           c == coll[u]
           m == Marked(c, j)
           a == Latest(c, j.id)
<1>1. At("examine")
  BY DEF Examine, ExamineAgain, ExamineJob, ExamineHangs
<1>2. CASE ExamineAgain(j) \/ ExamineHangs(j)
  BY <1>2, SameMemory DEF ExamineAgain, ExamineHangs, memory
<1>3. CASE ExamineJob(j)
  <2>1. /\ u \in Uid /\ CollOK(c) /\ Counted(c) /\ HasEntry(c, j.id) /\ IsRunning(c, j)
        /\ c.bucket = "Running" /\ Present(u) /\ worker.index \in DOMAIN running
    BY <1>1, <1>3, CurrentCounted, CurrentRuns
       DEF At, Turn, ListsInv, DataInv, WorkInv, ExamineJob, Present
  <2>2. Of(m, j) # <<>> /\ Head(Of(m, j)) = a
    BY <2>1, ExaminedCounted
  <2>3. PICK result \in Outcomes(j) :
          /\ coll' = [coll EXCEPT ![u] = Ended(m, a, result)]
          /\ dirty' = dirty \cup {ShallowOf(u, j.id)} \cup Written(u, m, a, result)
    BY <1>3, <2>2 DEF ExamineJob, Note
  <2>4. result \in {"pass", "fail"} /\ UNCHANGED saved
    BY <1>3 DEF Outcomes, Verdict, ExamineJob
  <2> DEFINE again == result = "fail" /\ Retried(m, a)
             d == Ended(m, a, result)
             N == Len(c.entries)
  <2> HIDE DEF c, u
  <2>5. /\ a \in DOMAIN c.entries /\ d.bucket = c.bucket /\ m.next = c.next
        /\ c.entries[a].id = j.id /\ m.entries[a].id = j.id
        /\ DOMAIN d.entries = DOMAIN c.entries \cup (IF again THEN {N + 1} ELSE {})
        /\ d.entries[a].id = j.id
        /\ d.entries[a].bucket = "Completed" /\ d.entries[a].result = result
        /\ \A k \in DOMAIN c.entries : k # a => d.entries[k] = c.entries[k]
        /\ again => d.entries[N + 1] = NewEntry(c.next, j.id)
    BY <2>1, <2>4, EndedRun
  <2>6. /\ NumTests[u] \in Nat /\ Whole(NumTests[u], c)
        /\ Noted(dirty, u, c, File(u))
    BY <2>1, TestsOf DEF MemoryInv, c
  <2>7. CollOK(d) /\ Numbered(d) /\ Whole(NumTests[u], d) /\ Grown(c, d)
    BY <2>1, <2>4, <2>6, EndedWhole
  <2>8. dirty' = dirty \cup {ShallowOf(u, j.id), ResultOf(u, j.id)}
                       \cup (IF again THEN {ShallowOf(u, c.next)} ELSE {})
    BY <2>3, <2>5 DEF Written
  <2>9. Numbered(c) /\ coll' = [coll EXCEPT ![u] = d]
    BY <2>1, <2>3 DEF Counted
  <2>10. DOMAIN c.entries = 1..N /\ N \in Nat
    BY <2>1 DEF CollOK, Collection
  <2>11. \A id : ResultOf(u, id) \in dirty => HasEntry(c, id)
    BY DEF ListsInv, DirtyInv, NotedOK, ResultOf, c
  <2> HIDE DEF m, a, d
  <2>12. /\ dirty \subseteq dirty' /\ \A n \in dirty' : n \in dirty \/ n.uid = u
         /\ \A id : ResultOf(u, id) \in dirty' <=> ResultOf(u, id) \in dirty \/ id = j.id
         /\ ShallowOf(u, j.id) \in dirty' /\ (again => ShallowOf(u, c.next) \in dirty')
    BY <2>8 DEF ShallowOf, ResultOf
  <2>13. ASSUME NEW k \in DOMAIN c.entries, k # a
         PROVE  c.entries[k].id # j.id
    BY <2>1, <2>5, <2>9, <2>13, SameId
  <2>14. ASSUME again
         PROVE  ~HasEntry(c, c.next) /\ c.next # j.id
    <3>1. ASSUME NEW k \in DOMAIN c.entries
          PROVE  c.entries[k].id # c.next
      <4>1. k \in DOMAIN d.entries /\ N + 1 \in DOMAIN d.entries /\ k # N + 1
        BY <2>5, <2>10, <2>14
      <4>2. d.entries[k].id = c.entries[k].id /\ d.entries[N + 1].id = c.next
        BY <2>5, <2>14 DEF NewEntry
      <4> QED
        BY <2>7, <4>1, <4>2, SameId
    <3> QED
      BY <2>5, <3>1 DEF HasEntry, Index
  <2>15. ASSUME NEW k \in DOMAIN d.entries
         PROVE  \/ /\ k \in DOMAIN c.entries /\ d.entries[k] = c.entries[k]
                   /\ ResultOf(u, c.entries[k].id) \in dirty'
                        => ResultOf(u, c.entries[k].id) \in dirty
                \/ /\ ShallowOf(u, d.entries[k].id) \in dirty'
                   /\ ResultOf(u, d.entries[k].id) \in dirty' <=> d.entries[k].result # "none"
    <3>1. CASE k = a
      BY <2>4, <2>5, <2>12, <3>1
    <3>2. CASE k # a /\ k \in DOMAIN c.entries
      BY <2>5, <2>12, <2>13, <3>2
    <3>3. CASE k \notin DOMAIN c.entries
      <4>1. again /\ d.entries[k] = NewEntry(c.next, j.id)
        BY <2>5, <3>3
      <4>2. d.entries[k].id = c.next /\ d.entries[k].result = "none"
        BY <4>1 DEF NewEntry
      <4> QED
        BY <2>11, <2>12, <2>14, <4>1, <4>2
    <3> QED
      BY <3>1, <3>2, <3>3
  <2>16. Noted(dirty', u, d, File(u))
    BY <2>5, <2>6, <2>12, <2>15, EntriesNoted
  <2> QED
    BY <2>1, <2>4, <2>7, <2>9, <2>12, <2>16, OneMemory DEF c
<1> QED
  BY <1>2, <1>3 DEF Examine

(* A test starts, or does not.                                             *)
LEMMA StartMemory ==
  ASSUME ListsInv, IdsInv, MemoryInv, Start
  PROVE  MemoryInv'
<1> DEFINE u == Current
           c == coll[u]
           k == Head(Startable(c))
<1>1. worker.at = "start"
  BY DEF Start, StartTest, StartFails, StartUnacknowledged, StartNoMore, MayStart, At
<1>2. /\ u \in Uid /\ CollOK(c) /\ Counted(c) /\ c.bucket = "Running" /\ Present(u)
      /\ worker.index \in DOMAIN running
  BY <1>1, CurrentCounted, CurrentRuns DEF Turn, ListsInv, DataInv, WorkInv, Present
<1>3. MayStart => k \in In(c, "Queued") \cup In(c, "Retry")
  BY <1>2, StartableIn DEF MayStart
<1>4. CASE StartTest
  <2> DEFINE d == Started(c, k)
  <2>1. /\ MayStart /\ coll' = [coll EXCEPT ![u] = d]
        /\ dirty' = dirty \cup {ShallowOf(u, c.entries[k].id)}
        /\ UNCHANGED saved
    BY <1>4 DEF StartTest, Started, Note
  <2>2. NumTests[u] \in Nat /\ Whole(NumTests[u], c) /\ Noted(dirty, u, c, File(u))
    BY <1>2, TestsOf DEF MemoryInv
  <2> HIDE DEF u, c, k
  <2>3. /\ Whole(NumTests[u], d) /\ Grown(c, d) /\ DOMAIN d.entries = DOMAIN c.entries
        /\ \A i \in DOMAIN c.entries : /\ d.entries[i].result = c.entries[i].result
                                       /\ i # k => d.entries[i] = c.entries[i]
    BY <1>2, <1>3, <2>1, <2>2, StartedWhole
  <2>4. k \in DOMAIN c.entries /\ c.entries[k].bucket # "Completed"
    BY <1>3, <2>1 DEF In
  <2>5. c.entries[k].result = "none"
    BY <2>2, <2>4 DEF Whole, Accounted
  <2>6. d.bucket = c.bucket /\ d.entries[k].id = c.entries[k].id
    <3>1. d.bucket = c.bucket
      BY <1>2 DEF Started, Taken, CollOK, Collection
    <3> QED
      BY <2>3, <2>4, <3>1 DEF Grown
  <2> HIDE DEF d
  <2>7. /\ dirty \subseteq dirty' /\ \A n \in dirty' : n \in dirty \/ n.uid = u
        /\ \A id : ResultOf(u, id) \in dirty' => ResultOf(u, id) \in dirty
        /\ ShallowOf(u, c.entries[k].id) \in dirty'
    BY <2>1 DEF ShallowOf, ResultOf
  <2>8. ResultOf(u, c.entries[k].id) \notin dirty'
    BY <2>2, <2>4, <2>5, <2>7 DEF Noted
  <2>9. Noted(dirty', u, d, File(u))
    <3>1. ASSUME NEW i \in DOMAIN d.entries
          PROVE  \/ /\ i \in DOMAIN c.entries /\ d.entries[i] = c.entries[i]
                    /\ ResultOf(u, c.entries[i].id) \in dirty'
                         => ResultOf(u, c.entries[i].id) \in dirty
                 \/ /\ ShallowOf(u, d.entries[i].id) \in dirty'
                    /\ ResultOf(u, d.entries[i].id) \in dirty' <=> d.entries[i].result # "none"
      <4>1. CASE i = k
        BY <2>3, <2>4, <2>5, <2>6, <2>7, <2>8, <4>1
      <4>2. CASE i # k
        BY <2>3, <2>7, <4>2
      <4> QED
        BY <4>1, <4>2
    <3> QED
      BY <2>2, <2>6, <2>7, <3>1, EntriesNoted
  <2> QED
    BY <1>2, <2>1, <2>3, <2>7, <2>9, OneMemory DEF c
<1>5. CASE StartFails \/ StartUnacknowledged
  <2>1. MayStart /\ FinishTurn(Requeued(c, k), dirty, TRUE) /\ UNCHANGED saved
    BY <1>5 DEF StartFails, StartUnacknowledged, StartFailed
  <2>2. CollOK(Requeued(c, k)) /\ Requeued(c, k).bucket = c.bucket
    BY <1>2, <1>3, <2>1, RequeuedOK DEF Keeps
  <2>3. Requeued(c, k).entries = c.entries
    BY <1>2 DEF Requeued, Taken, CollOK, Collection
  <2> HIDE DEF k
  <2> QED
    BY <1>2, <2>1, <2>2, <2>3, FinishTurnMemory
<1>6. CASE StartNoMore
  BY <1>2, <1>6, FinishTurnMemory DEF StartNoMore
<1> QED
  BY <1>4, <1>5, <1>6 DEF Start

LEMMA TurnMemory ==
  ASSUME ListsInv, IdsInv, MemoryInv,
         \/ ListJobs \/ ListFails \/ Examined \/ Start
         \/ \E j \in worker.todo : Examine(j)
  PROVE  MemoryInv'
<1>1. CASE ListJobs
  BY <1>1, SameMemory DEF ListJobs, memory
<1>2. CASE ListFails \/ (Examined /\ worker.touched)
  <2>1. worker.index \in DOMAIN running /\ CollOK(coll[Current])
    BY <1>2, CurrentCounted DEF ListFails, Examined, At, Turn
  <2> QED
    BY <1>2, <2>1, FinishTurnMemory DEF ListFails, Examined
<1>3. CASE Examined /\ ~worker.touched
  BY <1>3, SameMemory DEF Examined
<1> QED
  BY <1>1, <1>2, <1>3, StartMemory, ExamineMemory

(* The rest of the invariant goes on holding where files, objects and      *)
(* what is published stay.                                                 *)
LEMMA FrameObjects ==
  ASSUME ListsInv, ObjectInv, Frame,
         \A u \in worker'.changed : u \in worker.changed \/ (u \in born /\ Present(u))
  PROVE  ObjectInv'
<1>1. /\ \A u \in Uid : Present(u)' <=> Present(u)
      /\ UNCHANGED <<saved, alive, born>> /\ (At("down") => At("down")')
      /\ worker'.doomed \subseteq worker.doomed
  BY DEF Frame, Stays, Present
<1>2. /\ alive \subseteq Uid /\ born \subseteq Uid
      /\ worker.changed \subseteq Uid /\ worker.doomed \subseteq Uid
  BY DEF ListsInv, ClusterInv, WorkInv, WorkerOK
<1>3. \A u \in alive : ~Present(u)' /\ ~At("down")' => saved'[u].entity = NoEntity
  BY <1>1, <1>2 DEF ObjectInv
<1>4. \A u \in worker'.changed : u \in born /\ (u \in alive => Present(u)')
  BY <1>1, <1>2 DEF ObjectInv
<1>5. \A u \in worker'.doomed : ~Present(u)'
  BY <1>1, <1>2 DEF ObjectInv
<1> QED
  BY <1>1, <1>3, <1>4, <1>5 DEF ObjectInv

LEMMA SamePublished ==
  ASSUME SavedInv, PublicInv, PercentEarned, UNCHANGED <<saved, kstatus, alive>>
  PROVE  SavedInv' /\ PublicInv' /\ PercentEarned'
BY DEF SavedInv, PublicInv, PercentEarned, File

LEMMA TurnSteady ==
  ASSUME Base, SteadyInv,
         \/ ListJobs \/ ListFails \/ Examined \/ Start
         \/ \E j \in worker.todo : Examine(j)
  PROVE  SteadyInv'
<1>1. MemoryInv'
  BY TurnMemory DEF Base, SteadyInv
<1>2. Frame /\ DOMAIN worker = DOMAIN Idle
  BY TurnFrame DEF Base, ListsInv, WorkInv, WorkerOK
<1>3. /\ \A u \in worker'.changed : u \in worker.changed \/ (u \in born /\ Present(u))
      /\ worker'.at \notin {"tasks", "prune", "publish"}
  <2>1. Current \in born /\ Present(Current) /\ worker.at \in {"pass", "examine", "start"}
    <3>1. HasTurn \/ worker.at \in Turn
      BY DEF ListJobs, ListFails, Examined, Start, StartTest, StartFails, MayStart, Turn, At,
         StartUnacknowledged, StartNoMore, Examine, ExamineAgain, ExamineJob, ExamineHangs
    <3>2. worker.index \in DOMAIN running
      BY <3>1, CurrentCounted DEF Base
    <3> QED
      BY <3>1, <3>2, CurrentRuns
      DEF Base, ListsInv, DataInv, BornInv, Present, HasTurn, At, Turn
  <2>2. CASE ListFails \/ StartFails \/ StartUnacknowledged \/ StartNoMore
             \/ (Examined /\ worker.touched)
    <3>1. \E c, changed : FinishTurn(c, dirty, changed)
      BY <2>2 DEF ListFails, StartFails, StartUnacknowledged, StartFailed, StartNoMore, Examined
    <3>2. /\ worker'.at = "pass"
          /\ worker'.changed \in {worker.changed, worker.changed \cup {Current}}
      BY <3>1 DEF FinishTurn, Idle
    <3> QED
      BY <2>1, <3>2
  <2>3. CASE ListJobs \/ StartTest \/ (Examined /\ ~worker.touched)
             \/ \E j \in worker.todo : Examine(j)
    <3>1. \/ worker' = Hung
          \/ worker'.changed = worker.changed /\ worker'.at \in {"examine", "start"}
      BY <1>2, <2>1, <2>3 DEF ListJobs, StartTest, Examined, Examine, ExamineAgain, ExamineJob,
         ExamineHangs, Goto, Idle, MayStart, At
    <3> QED
      BY <3>1 DEF Hung, Idle
  <2> QED
    BY <2>2, <2>3 DEF Start
<1>4. UNCHANGED <<saved, kstatus, alive>>
  BY DEF ListJobs, ListFails, Examined, Start, StartTest, StartFails, StartUnacknowledged,
     StartNoMore, Examine, ExamineAgain, ExamineJob, ExamineHangs, clusterVars
<1>5. ObjectInv'
  BY <1>2, <1>3, FrameObjects DEF Base, SteadyInv
<1>6. WrittenInv'
  BY <1>3 DEF WrittenInv, Publishing, At
<1> QED
  BY <1>1, <1>4, <1>5, <1>6, SamePublished DEF SteadyInv

-----------------------------------------------------------------------------
(***************************************************************************)
(* The other steps of the operator.                                        *)
(***************************************************************************)

(* Notes are made of what changes, and dropped together.                   *)
LEMMA NotesStep ==
  ASSUME NotesInv, [Next]_vars
  PROVE  NotesInv'
<1> DEFINE IsNote(n) == n = [kind |-> n.kind, uid |-> n.uid, id |-> n.id]
<1>1. \A u : IsNote(EntityOf(u)) /\ \A id : IsNote(ShallowOf(u, id)) /\ IsNote(ResultOf(u, id))
  BY DEF EntityOf, ShallowOf, ResultOf
<1> HIDE DEF IsNote
<1>2. ASSUME \A n \in dirty' : n \in dirty \/ IsNote(n)
      PROVE  NotesInv'
  BY <1>2 DEF NotesInv, IsNote
<1>3. ASSUME NEW c, NEW changed, FinishTurn(c, dirty, changed)
      PROVE  NotesInv'
  BY <1>1, <1>2, <1>3 DEF FinishTurn
<1>4. CASE ListFails \/ Examined \/ StartFails \/ StartUnacknowledged \/ StartNoMore
  <2>1. dirty' = dirty \/ \E c, changed : FinishTurn(c, dirty, changed)
    BY <1>4 DEF ListFails, Examined, StartFails, StartUnacknowledged, StartFailed, StartNoMore
  <2> QED
    BY <1>2, <1>3, <2>1
<1>5. CASE \E j \in worker.todo : Examine(j)
  <2>1. PICK j \in worker.todo : Examine(j)
    BY <1>5
  <2>2. \A u, c, a, result : \A n \in Written(u, c, a, result) : IsNote(n)
    BY <1>1 DEF Written
  <2>3. \A n \in dirty' : n \in dirty \/ IsNote(n)
    <3>1. CASE ExamineJob(j)
      <4>1. \E result : dirty' = Note({ShallowOf(Current, j.id)} \cup
               (IF Of(Marked(coll[Current], j), j) # <<>>
                  THEN Written(Current, Marked(coll[Current], j),
                               Head(Of(Marked(coll[Current], j), j)), result)
                  ELSE {}))
        BY <3>1 DEF ExamineJob
      <4> QED
        BY <1>1, <2>2, <4>1 DEF Note
    <3>2. CASE ExamineAgain(j) \/ ExamineHangs(j)
      BY <3>2 DEF ExamineAgain, ExamineHangs, memory
    <3> QED
      BY <2>1, <3>1, <3>2 DEF Examine
  <2> QED
    BY <1>2, <2>3
<1>6. CASE StartTest \/ Promote \/ \E u \in Uid : Reconcile(u)
  BY <1>1, <1>2, <1>6 DEF StartTest, Promote, Reconcile, Register, Note
<1>7. CASE Settle
  <2>1. \A n \in dirty' : n \in dirty \/ \E u : n = EntityOf(u)
    BY <1>7 DEF Settle
  <2> QED
    BY <1>1, <1>2, <2>1
<1>8. CASE CleanJobs
  <2>1. \A n \in dirty' : n \in dirty \/ \E u, id : n = ShallowOf(u, id)
    BY <1>8 DEF CleanJobs, Note
  <2> QED
    BY <1>1, <1>2, <2>1
<1>9. CASE Resolve \/ Crash \/ CrashWriting \/ \E j \in worker.todo : ExaminePanics(j)
  <2>1. dirty' = {}
    BY <1>9 DEF Resolve, Crash, CrashWriting, ExaminePanics, Die
  <2> QED
    BY <1>2, <2>1
<1>10. CASE ListJobs \/ PruneFiles \/ Load
  BY <1>2, <1>10 DEF ListJobs, PruneFiles, Load, memory
<1>11. CASE Publication \/ \E u \in Uid : CreateObject(u) \/ DeleteObject(u)
  <2>1. dirty' = dirty
    BY <1>11 DEF Publication, Publish, PublishSkips, PublishHangs, PublishFails, PublishNone,
       CreateObject, DeleteObject, operatorVars, memory
  <2> QED
    BY <1>2, <2>1
<1>12. CASE \/ \E j \in jobs : JobStep(j) \/ RemoveJob(j)
            \/ WindowPasses \/ UNCHANGED vars
  <2>1. dirty' = dirty
    BY <1>12 DEF JobStep, StartJob, FinishJob, ExpireJob, Become, RemoveJob, WindowPasses,
       operatorVars, memory, vars
  <2> QED
    BY <1>2, <2>1
<1> QED
  BY <1>4, <1>5, <1>6, <1>7, <1>8, <1>9, <1>10, <1>11, <1>12
  DEF Next, Operator, Process, Tasks, Start

(* Steps that leave collections and files alone.                           *)
LEMMA OtherSteady ==
  ASSUME Base, SteadyInv,
         \/ \E u \in Uid : Reconcile(u) /\ ~(u \in alive /\ ~Present(u))
         \/ CleanJobs \/ Publication
         \/ \E j \in jobs : JobStep(j) \/ RemoveJob(j)
         \/ WindowPasses \/ UNCHANGED vars
  PROVE  /\ UNCHANGED <<saved, alive>> /\ SavedInv' /\ MemoryInv' /\ ObjectInv' /\ WrittenInv'
         /\ ~(\E u \in Uid : Publish(u)) => SteadyInv'
<1>1. Frame
  BY OtherFrame DEF Base
<1>2. UNCHANGED <<coll, saved, alive>>
  BY DEF Reconcile, CleanJobs, Publication, Publish, PublishSkips, PublishHangs, PublishFails,
     PublishNone, JobStep, StartJob, FinishJob, ExpireJob, Become, RemoveJob, WindowPasses,
     clusterVars, operatorVars, memory, vars
<1>3. \A n \in dirty' : n \in dirty \/ n.kind # "result"
  <2>1. CASE CleanJobs
    <3>1. \A n \in dirty' : n \in dirty \/ \E u, id : n = ShallowOf(u, id)
      BY <2>1 DEF CleanJobs, Note
    <3> QED
      BY <3>1 DEF ShallowOf
  <2>2. CASE ~CleanJobs
    <3>1. dirty' = dirty
      BY <2>2 DEF Reconcile, Publication, Publish, PublishSkips, PublishHangs, PublishFails,
         PublishNone, JobStep, StartJob, FinishJob, ExpireJob, Become, RemoveJob, WindowPasses,
         operatorVars, memory, vars
    <3> QED
      BY <3>1
  <2> QED
    BY <2>1, <2>2
<1>4. worker'.changed \subseteq worker.changed /\ (Publishing' => Publishing)
  <2>1. DOMAIN worker = DOMAIN Idle
    BY DEF Base, ListsInv, WorkInv, WorkerOK
  <2>2. CASE \E u \in Uid : Reconcile(u) /\ ~(u \in alive /\ ~Present(u))
    <3>1. worker' = [Idle EXCEPT !.at = "pass"]
      BY <2>2 DEF Reconcile
    <3> QED
      BY <3>1 DEF Idle, Publishing, At
  <2>3. CASE CleanJobs
    BY <2>1, <2>3 DEF CleanJobs, Goto, Idle, Publishing
  <2>4. CASE Publication
    <3>1. Publishing
      BY <2>4 DEF Publication, Publish, PublishSkips, PublishHangs, PublishFails, PublishNone
    <3>2. \/ worker' \in {Idle, Hung}
          \/ \E u : worker' = [worker EXCEPT !.at = "publish", !.changed = @ \ {u}]
      BY <2>4 DEF Publication, Publish, PublishSkips, PublishHangs, PublishFails, PublishNone,
         Published
    <3>3. Idle.changed = {} /\ Hung.changed = {}
      BY DEF Idle, Hung
    <3>4. "changed" \in DOMAIN worker
      BY <2>1 DEF Idle
    <3>5. ASSUME NEW u, worker' = [worker EXCEPT !.at = "publish", !.changed = @ \ {u}]
          PROVE  worker'.changed = worker.changed \ {u}
      BY <3>4, <3>5
    <3> QED
      BY <3>1, <3>2, <3>3, <3>5
  <2>5. CASE ~CleanJobs /\ ~Publication
             /\ ~\E u \in Uid : Reconcile(u) /\ ~(u \in alive /\ ~Present(u))
    <3>1. worker' = worker
      BY <2>5 DEF JobStep, StartJob, FinishJob, ExpireJob, Become, RemoveJob, WindowPasses,
         operatorVars, vars
    <3> QED
      BY <3>1 DEF Publishing, At
  <2> QED
    BY <2>2, <2>3, <2>4, <2>5
<1>5. MemoryInv'
  BY <1>1, <1>2, <1>3, SameMemory DEF Frame, SteadyInv
<1>6. ObjectInv'
  BY <1>1, <1>4, FrameObjects DEF Base, SteadyInv
<1>7. WrittenInv'
  BY <1>2, <1>4 DEF SteadyInv, WrittenInv, Present, File
<1>8. SavedInv'
  BY <1>2 DEF SteadyInv, SavedInv, File
<1>9. ASSUME ~\E u \in Uid : Publish(u)
      PROVE  SteadyInv'
  <2>1. UNCHANGED kstatus
    BY <1>9 DEF Reconcile, CleanJobs, Publication, PublishSkips, PublishHangs, PublishFails,
       PublishNone, JobStep, StartJob, FinishJob, ExpireJob, Become, RemoveJob, WindowPasses,
       clusterVars, operatorVars, vars
  <2> QED
    BY <1>2, <1>5, <1>6, <1>7, <2>1, SamePublished DEF SteadyInv
<1> QED
  BY <1>2, <1>5, <1>6, <1>7, <1>8, <1>9

(* A collection is created for an object that has no files.                *)
LEMMA RegisterSteady ==
  ASSUME Base, SteadyInv, NEW u \in Uid, Reconcile(u), u \in alive, ~Present(u)
  PROVE  SteadyInv'
<1> DEFINE n == NumTests[u]
           d == NewCollection(n, submitted + 1)
<1>1. /\ coll' = [coll EXCEPT ![u] = d] /\ UNCHANGED <<saved, kstatus, alive, born>>
      /\ dirty' = Note({EntityOf(u)} \cup {ShallowOf(u, i) : i \in 1..n})
      /\ worker' = [Idle EXCEPT !.at = "register"] /\ At("idle")
  BY DEF Reconcile, Register, clusterVars
<1>2. n \in Nat \ {0} /\ submitted + 1 \in Nat
  BY TestsOf DEF Base, ListsInv, DateInv
<1>3. /\ Whole(n, d) /\ DOMAIN d.entries = 1..n
      /\ \A i \in 1..n : d.entries[i].id = i /\ d.entries[i].result = "none"
  BY <1>2, NewWhole
<1>4. d.bucket = "Waiting"
  BY <1>2, NewCollectionOK
<1> HIDE DEF d, n
<1>5. saved[u] = NoFiles
  <2>1. saved[u].entity = NoEntity
    BY <1>1 DEF SteadyInv, ObjectInv, At
  <2> QED
    BY <2>1 DEF SteadyInv, SavedInv
<1>6. Grown(File(u), d)
  BY <1>5, NothingLoaded DEF Grown, File
<1>7. /\ dirty \subseteq dirty' /\ EntityOf(u) \in dirty'
      /\ \A i \in 1..n : ShallowOf(u, i) \in dirty'
      /\ \A x \in dirty' : x \in dirty \/ (x.uid = u /\ x.kind # "result")
  BY <1>1 DEF Note, EntityOf, ShallowOf
<1>8. \A id : ResultOf(u, id) \notin dirty'
  <2>1. \A x \in dirty : x.uid # u
    BY DEF Base, ListsInv, DirtyInv, NotedOK, Present
  <2>2. \A id : ResultOf(u, id).uid = u /\ ResultOf(u, id).kind = "result"
    BY DEF ResultOf
  <2> QED
    BY <1>7, <2>1, <2>2
<1>9. Noted(dirty', u, d, File(u))
  BY <1>3, <1>7, <1>8 DEF Noted
<1>10. MemoryInv'
  BY <1>1, <1>3, <1>6, <1>7, <1>9, OneMemory DEF Base, SteadyInv, n
<1>11. ObjectInv'
  <2>1. \A v \in Uid : Present(v)' <=> Present(v) \/ v = u
    BY <1>1, <1>4 DEF Present, Base, ListsInv, CollsInv
  <2>2. worker'.changed = {} /\ worker'.doomed = {} /\ alive \subseteq Uid /\ ~At("down")
    BY <1>1 DEF Idle, Base, ListsInv, ClusterInv, At
  <2> QED
    BY <1>1, <2>1, <2>2 DEF SteadyInv, ObjectInv
<1>12. WrittenInv'
  BY <1>1 DEF WrittenInv, Publishing, At, Idle
<1> QED
  BY <1>1, <1>10, <1>11, <1>12, SamePublished DEF SteadyInv

(* The next collection that waits joins those that run.                    *)
LEMMA PromoteSteady ==
  ASSUME Base, SteadyInv, Promote
  PROVE  SteadyInv'
<1> DEFINE u == Head(waiting)
           d == Promoted(coll[u])
<1>1. /\ coll' = [coll EXCEPT ![u] = d] /\ UNCHANGED <<saved, kstatus, alive, born>>
      /\ dirty' = dirty \cup {EntityOf(u)}
      /\ worker' = [Idle EXCEPT !.at = "pass", !.changed = worker.changed \cup {u}]
      /\ waiting # <<>> /\ ~At("down")
  BY DEF Promote, MayPromote, Note, clusterVars, At
<1>2. u \in Uid /\ coll[u].bucket = "Waiting" /\ Present(u) /\ CollOK(coll[u])
  <2>1. waiting \in Seq({v \in Uid : coll[v].bucket = "Waiting"})
    BY LineTyped DEF Base
  <2>2. u \in {v \in Uid : coll[v].bucket = "Waiting"}
    BY <1>1, <2>1
  <2> QED
    BY <2>2 DEF Base, ListsInv, CollsInv, Present
<1>3. CollOK(d) /\ d.bucket = "Running" /\ d.entries = coll[u].entries
  <2>1. d.entries = coll[u].entries
    BY <1>2 DEF Promoted, CollOK, Collection
  <2> QED
    BY <1>2, <2>1, FieldsOK
<1> HIDE DEF u, d
<1>4. Whole(NumTests[u], d) /\ Grown(coll[u], d)
  <2>1. Whole(NumTests[u], coll[u])
    BY <1>2 DEF SteadyInv, MemoryInv
  <2> QED
    BY <1>2, <1>3, <2>1, SameWhole, SameGrown, TestsOf
<1>5. /\ EntityOf(u).uid = u /\ \A id : ResultOf(u, id) # EntityOf(u)
  BY DEF EntityOf, ResultOf
<1>6. Noted(dirty', u, d, File(u))
  <2>1. Noted(dirty, u, coll[u], File(u))
    BY <1>2 DEF SteadyInv, MemoryInv
  <2> QED
    BY <1>1, <1>3, <1>5, <2>1, FieldsNoted
<1>7. MemoryInv'
  BY <1>1, <1>2, <1>4, <1>5, <1>6, OneMemory DEF Base, SteadyInv
<1>8. ObjectInv'
  <2>1. \A v \in Uid : Present(v)' <=> Present(v)
    BY <1>1, <1>2, <1>3 DEF Present, Base, ListsInv, CollsInv
  <2>2. worker'.changed = worker.changed \cup {u} /\ worker'.doomed = {}
    BY <1>1 DEF Idle
  <2>3. alive \subseteq Uid /\ worker.changed \subseteq Uid /\ u \in born
    BY <1>2 DEF Base, ListsInv, ClusterInv, WorkInv, WorkerOK, BornInv
  <2> QED
    BY <1>1, <1>2, <2>1, <2>2, <2>3 DEF SteadyInv, ObjectInv
<1>9. WrittenInv'
  BY <1>1 DEF WrittenInv, Publishing, At, Idle
<1> QED
  BY <1>1, <1>7, <1>8, <1>9, SamePublished DEF SteadyInv

(* Collections that are complete, and those whose object is gone.          *)
LEMMA SettleSteady ==
  ASSUME Base, SteadyInv, Settle
  PROVE  SteadyInv'
<1>1. PICK gone \in SUBSET Gone :
        /\ coll' = [u \in Uid |-> IF u \in gone THEN NoCollection
                                  ELSE IF u \in Completing THEN Completed(coll[u])
                                  ELSE coll[u]]
        /\ dirty' = {d \in dirty : d.uid \notin gone}
                      \cup {EntityOf(u) : u \in Completing \ gone}
        /\ worker' = [Idle EXCEPT !.at = "resolve", !.doomed = gone,
                                  !.changed = worker.changed \cup Completing]
  BY DEF Settle
<1>2. UNCHANGED <<saved, kstatus, alive, born>> /\ ~At("down")
  BY DEF Settle, clusterVars, At
<1>3. \A u \in Completing : u \in Uid /\ coll[u].bucket = "Running" /\ IsComplete(coll[u])
  BY LineTyped DEF Completing, Base
<1>4. NoCollection.bucket = "absent"
  BY DEF NoCollection
<1>5. \A u \in Uid : CollOK(coll[u])
  BY DEF Base, ListsInv, CollsInv
<1>6. ASSUME NEW u \in Completing
      PROVE  /\ CollOK(Completed(coll[u])) /\ Completed(coll[u]).bucket = "Completed"
             /\ Completed(coll[u]).entries = coll[u].entries /\ AllEnded(coll[u])
  <2>1. CollOK(coll[u]) /\ IsComplete(coll[u])
    BY <1>3, <1>5
  <2>2. Completed(coll[u]).entries = coll[u].entries
    BY <2>1 DEF Completed, CollOK, Collection
  <2>3. \A b \in {"Queued", "Running", "Retry"} : In(coll[u], b) = {}
    BY <2>1 DEF CollOK, IsComplete, Enumerates
  <2>4. AllEnded(coll[u])
    <3>1. coll[u].entries \in Seq(Entry) /\ \A e \in Entry : e.bucket \in Bucket
      BY <2>1 DEF CollOK, Collection, Entry
    <3>2. \A k \in DOMAIN coll[u].entries : coll[u].entries[k].bucket \in Bucket
      BY <3>1
    <3> QED
      BY <2>3, <3>2 DEF AllEnded, In, Bucket
  <2> QED
    BY <2>1, <2>2, <2>4, FieldsOK
<1>7. ASSUME NEW u \in Uid, Present(u)'
      PROVE  /\ u \notin gone /\ Present(u) /\ CollOK(coll'[u])
             /\ coll'[u].entries = coll[u].entries
             /\ coll'[u].bucket = coll[u].bucket \/ EntityOf(u) \in dirty'
             /\ coll'[u].bucket = "Completed" =>
                  coll[u].bucket = "Completed" \/ AllEnded(coll[u])
             /\ coll[u].bucket = "Completed" => coll'[u].bucket = "Completed"
  <2>1. u \notin gone
    BY <1>1, <1>4, <1>7 DEF Present
  <2>2. CASE u \in Completing
    BY <1>1, <1>3, <1>6, <2>1, <2>2 DEF Present
  <2>3. CASE u \notin Completing
    BY <1>1, <1>5, <1>7, <2>1, <2>3 DEF Present
  <2> QED
    BY <2>2, <2>3
<1>8. MemoryInv'
  <2> SUFFICES ASSUME NEW u \in Uid, Present(u)'
               PROVE  /\ Whole(NumTests[u], coll'[u]) /\ Grown(File(u), coll'[u])
                      /\ Noted(dirty', u, coll'[u], File(u))
    BY <1>2 DEF MemoryInv, File
  <2>1. /\ Whole(NumTests[u], coll[u]) /\ Grown(File(u), coll[u])
        /\ Noted(dirty, u, coll[u], File(u))
    BY <1>7 DEF SteadyInv, MemoryInv
  <2>2. Whole(NumTests[u], coll'[u])
    <3>1. coll'[u].bucket = "Completed" => AllEnded(coll[u])
      BY <1>7, <2>1 DEF Whole
    <3> QED
      BY <1>5, <1>7, <2>1, <3>1, SameWhole, TestsOf
  <2>3. Grown(File(u), coll'[u])
    BY <1>7, <2>1, SameGrown, GrownMore
  <2>4. \A x \in dirty : x.uid = u => x \in dirty'
    BY <1>1, <1>7
  <2>5. \A id : ResultOf(u, id) \in dirty' => ResultOf(u, id) \in dirty
    BY <1>1 DEF ResultOf, EntityOf
  <2> QED
    BY <1>7, <2>1, <2>2, <2>3, <2>4, <2>5, FieldsNoted
<1>9. ObjectInv'
  <2>1. alive \subseteq Uid /\ worker.changed \subseteq Uid
    BY DEF Base, ListsInv, ClusterInv, WorkInv, WorkerOK
  <2>2. \A u \in gone : u \notin alive /\ u \in Uid
    BY DEF Gone, Borne
  <2>3. \A u \in Uid : u \in alive => (Present(u)' <=> Present(u))
    <3> SUFFICES ASSUME NEW u \in Uid, u \in alive, Present(u)
                 PROVE  Present(u)'
      BY <1>7
    <3>1. coll'[u] = IF u \in Completing THEN Completed(coll[u]) ELSE coll[u]
      BY <1>1, <2>2
    <3> QED
      BY <1>6, <3>1 DEF Present
  <2>4. \A u \in gone : ~Present(u)'
    BY <1>7, <2>2
  <2>5. worker'.changed = worker.changed \cup Completing /\ worker'.doomed = gone
    BY <1>1 DEF Idle
  <2>6. \A u \in Completing : u \in born /\ u \in Uid /\ Present(u)
    BY <1>3 DEF Base, BornInv, Present
  <2>7. \A u \in alive : ~Present(u)' => saved[u].entity = NoEntity
    BY <1>2, <2>1, <2>3 DEF SteadyInv, ObjectInv
  <2>8. \A u \in worker'.changed : u \in born /\ (u \in alive => Present(u)')
    BY <2>1, <2>3, <2>5, <2>6 DEF SteadyInv, ObjectInv
  <2>9. \A u, v \in alive : NameOf[u] = NameOf[v] => u = v
    BY DEF SteadyInv, ObjectInv
  <2> QED
    BY <1>2, <2>4, <2>5, <2>7, <2>8, <2>9 DEF ObjectInv
<1>10. WrittenInv'
  BY <1>1 DEF WrittenInv, Publishing, At, Idle
<1> QED
  BY <1>2, <1>8, <1>9, <1>10, SamePublished DEF SteadyInv

-----------------------------------------------------------------------------
(***************************************************************************)
(* The files, written and removed.                                         *)
(***************************************************************************)

LEMMA SameMirrors ==
  ASSUME NEW f, NEW c, Mirrors(f, c), NEW g, NEW d, Mirrors(g, d), d.entries = c.entries
  PROVE  g.result = f.result
BY DEF Mirrors

(* What is published goes on being true where its files grow.              *)
LEMMA PublicGrows ==
  ASSUME ListsInv, FilesInv', SavedInv, SavedInv', PublicInv, PercentEarned,
         UNCHANGED <<alive, kstatus>>,
         \A u \in alive : saved[u].entity # NoEntity =>
           saved'[u].entity # NoEntity /\ Grown(File(u), File(u)')
  PROVE  PublicInv' /\ PercentEarned'
<1>1. ASSUME NEW u \in Uid, kstatus[u] # NoStatus
      PROVE  /\ u \in alive /\ saved[u].entity # NoEntity /\ saved'[u].entity # NoEntity
             /\ Mirrors(saved[u], File(u)) /\ Mirrors(saved'[u], File(u)')
             /\ Whole(NumTests[u], File(u)) /\ Whole(NumTests[u], File(u)')
             /\ CollOK(File(u)) /\ CollOK(File(u)') /\ Grown(File(u), File(u)')
             /\ File(u).bucket = saved[u].entity.bucket
             /\ File(u)'.bucket = saved'[u].entity.bucket
             /\ kstatus[u].results \subseteq saved[u].result
  <2>1. u \in alive /\ saved[u].entity # NoEntity /\ saved'[u].entity # NoEntity
    BY <1>1 DEF PublicInv
  <2>2. FileOK(saved[u]) /\ FileOK(saved'[u])
    BY DEF ListsInv, FilesInv
  <2>3. /\ CollOK(File(u)) /\ CollOK(File(u)')
        /\ File(u).bucket = saved[u].entity.bucket
        /\ File(u)'.bucket = saved'[u].entity.bucket
    BY <2>2, LoadedOK DEF File
  <2> QED
    BY <1>1, <2>1, <2>3 DEF SavedInv, PublicInv
<1>2. ASSUME NEW u \in Uid, kstatus[u] # NoStatus
      PROVE  /\ kstatus[u].results \subseteq saved'[u].result
             /\ kstatus[u].status = "Complete" =>
                  saved'[u].entity.bucket = "Completed" /\ kstatus[u].results = saved'[u].result
  <2>1. saved[u].result \subseteq saved'[u].result
    BY <1>1, <1>2 DEF Mirrors, Grown
  <2>2. ASSUME kstatus[u].status = "Complete"
        PROVE  saved'[u].entity.bucket = "Completed" /\ kstatus[u].results = saved'[u].result
    <3>1. File(u).bucket = "Completed" /\ kstatus[u].results = saved[u].result
      BY <1>1, <1>2, <2>2 DEF PublicInv
    <3>2. File(u)'.bucket = "Completed" /\ File(u)'.entries = File(u).entries
      BY <1>1, <1>2, <3>1 DEF Grown
    <3>3. saved'[u].result = saved[u].result
      BY <1>1, <1>2, <3>2, SameMirrors
    <3> QED
      BY <1>1, <1>2, <3>1, <3>2, <3>3
  <2> QED
    BY <1>1, <1>2, <2>1, <2>2
<1>3. PublicInv'
  BY <1>1, <1>2 DEF PublicInv
<1>4. ASSUME NEW u \in Uid, kstatus[u] # NoStatus
      PROVE  Passing(NumTests[u], File(u)', kstatus[u].results)
               = Passing(NumTests[u], File(u), kstatus[u].results)
  <2>1. \A r \in kstatus[u].results :
          \E k \in DOMAIN File(u).entries : r[1] = File(u).entries[k].id
    BY <1>1, <1>4 DEF Mirrors
  <2>2. /\ DOMAIN File(u).entries \subseteq DOMAIN File(u)'.entries
        /\ \A k \in DOMAIN File(u).entries :
             /\ File(u)'.entries[k].id = File(u).entries[k].id
             /\ File(u)'.entries[k].from = File(u).entries[k].from
    BY <1>1, <1>4 DEF Grown
  <2>3. Rooted(NumTests[u], File(u)) /\ Rooted(NumTests[u], File(u)')
    BY <1>1, <1>4 DEF Whole
  <2> QED
    BY <1>1, <1>4, <2>1, <2>2, <2>3, PassingStays, TestsOf
<1>5. PercentEarned'
  <2>1. ASSUME NEW u \in alive, kstatus[u].status # ""
        PROVE  u \in Uid /\ kstatus[u] # NoStatus
    <3>1. alive \subseteq Uid
      BY DEF ListsInv, ClusterInv
    <3>2. NoStatus.status = ""
      BY DEF NoStatus
    <3> QED
      BY <2>1, <3>1, <3>2
  <2> QED
    BY <1>4, <2>1 DEF PercentEarned, Passing, File
<1> QED
  BY <1>3, <1>5

(* A bulk write that nothing stops leaves files that say what the memory   *)
(* says.                                                                   *)
LEMMA FiledMirrors ==
  ASSUME Base, SavedInv, MemoryInv, NEW u \in Uid, Present(u)
  PROVE  LET g == Filed(u, dirty, {})
         IN  /\ Mirrors(g, coll[u])
             /\ g.entity # NoEntity /\ g.entity.bucket = coll[u].bucket
<1> DEFINE c == coll[u]
           f == saved[u]
           F == File(u)
           Ids(kind) == {d.id : d \in {e \in dirty : e.uid = u /\ e.kind = kind}}
           now(kind) == {c.entries[Latest(c, id)] : id \in Ids(kind)}
           g == Filed(u, dirty, {})
<1>1. /\ g.entity = IF EntityOf(u) \in dirty THEN Entity(c) ELSE f.entity
      /\ g.shallow = {e \in f.shallow : e.id \notin Ids("shallow")}
                       \cup {Shallow(e) : e \in now("shallow")}
      /\ g.result = {r \in f.result : r[1] \notin Ids("result")}
                      \cup {<<e.id, e.result>> : e \in now("result")}
  BY DEF Filed
<1>2. /\ CollOK(c) /\ Numbered(c) /\ c.bucket # "absent"
      /\ Grown(F, c) /\ Noted(dirty, u, c, F) /\ Mirrors(f, F)
      /\ F.bucket = f.entity.bucket
  <2>1. CollOK(c) /\ Numbered(c) /\ c.bucket # "absent"
    BY DEF Base, ListsInv, CollsInv, IdsInv, Counted, Present
  <2>2. Grown(F, c) /\ Noted(dirty, u, c, F) /\ Mirrors(f, F)
    BY DEF MemoryInv, SavedInv
  <2>3. F.bucket = f.entity.bucket
    BY LoadedOK DEF Base, ListsInv, FilesInv, File
  <2> QED
    BY <2>1, <2>2, <2>3
<1>3. /\ \A id : ShallowOf(u, id) \in dirty <=> id \in Ids("shallow")
      /\ \A id : ResultOf(u, id) \in dirty <=> id \in Ids("result")
  <2>1. \A n \in dirty : n = [kind |-> n.kind, uid |-> n.uid, id |-> n.id]
    BY DEF Base, NotesInv
  <2> QED
    BY <2>1 DEF ShallowOf, ResultOf
<1>4. \A kind \in {"shallow", "result"} : \A id \in Ids(kind) : HasEntry(c, id)
  BY DEF Base, ListsInv, DirtyInv, NotedOK
<1> HIDE DEF c, f, F, Ids, g
<1>5. \A kind \in {"shallow", "result"} :
        now(kind) = {c.entries[k] : k \in {i \in DOMAIN c.entries : c.entries[i].id \in Ids(kind)}}
  <2> SUFFICES ASSUME NEW kind \in {"shallow", "result"}
               PROVE  now(kind) = {c.entries[k] : k \in {i \in DOMAIN c.entries :
                                                           c.entries[i].id \in Ids(kind)}}
    OBVIOUS
  <2>1. \A id \in Ids(kind) :
          Latest(c, id) \in DOMAIN c.entries /\ c.entries[Latest(c, id)].id = id
    BY <1>2, <1>4, LatestIsThere
  <2>2. \A k \in DOMAIN c.entries : Latest(c, c.entries[k].id) = k
    BY <1>2, UniqueId
  <2> QED
    BY <2>1, <2>2
<1> HIDE DEF now
<1>6. g.shallow = {Shallow(c.entries[k]) : k \in DOMAIN c.entries}
  <2>1. ASSUME NEW e \in g.shallow
        PROVE  \E k \in DOMAIN c.entries : e = Shallow(c.entries[k])
    <3>1. CASE e \in f.shallow /\ e.id \notin Ids("shallow")
      <4>1. PICK k \in DOMAIN F.entries : e = Shallow(F.entries[k])
        BY <1>2, <3>1 DEF Mirrors
      <4>2. k \in DOMAIN c.entries /\ c.entries[k].id = F.entries[k].id
        BY <1>2 DEF Grown
      <4>3. ShallowOf(u, c.entries[k].id) \notin dirty
        <5>1. e.id = F.entries[k].id
          BY <4>1 DEF Shallow
        <5> QED
          BY <1>3, <3>1, <4>2, <5>1
      <4>4. Shallow(F.entries[k]) = Shallow(c.entries[k])
        BY <1>2, <4>2, <4>3 DEF Noted
      <4> QED
        BY <4>1, <4>2, <4>4
    <3>2. CASE \E x \in now("shallow") : e = Shallow(x)
      BY <1>5, <3>2
    <3> QED
      BY <1>1, <3>1, <3>2
  <2>2. ASSUME NEW k \in DOMAIN c.entries
        PROVE  Shallow(c.entries[k]) \in g.shallow
    <3>1. CASE c.entries[k].id \in Ids("shallow")
      BY <1>1, <1>5, <3>1
    <3>2. CASE c.entries[k].id \notin Ids("shallow")
      <4>1. k \in DOMAIN F.entries /\ Shallow(F.entries[k]) = Shallow(c.entries[k])
        BY <1>2, <1>3, <3>2 DEF Noted
      <4>2. Shallow(c.entries[k]) \in f.shallow
        BY <1>2, <4>1 DEF Mirrors
      <4>3. Shallow(c.entries[k]).id = c.entries[k].id
        <5>1. c.entries[k] \in Entry
          BY <1>2 DEF CollOK, Collection
        <5> QED
          BY <5>1 DEF Shallow, Entry
      <4> QED
        BY <1>1, <3>2, <4>2, <4>3
    <3> QED
      BY <3>1, <3>2
  <2> QED
    BY <2>1, <2>2
<1>7. g.result = {<<c.entries[k].id, c.entries[k].result>> :
                    k \in {i \in DOMAIN c.entries : c.entries[i].result # "none"}}
  <2>1. ASSUME NEW r \in g.result
        PROVE  \E k \in DOMAIN c.entries :
                 c.entries[k].result # "none" /\ r = <<c.entries[k].id, c.entries[k].result>>
    <3>1. CASE r \in f.result
      BY <1>2, <3>1 DEF Mirrors, Grown
    <3>2. CASE \E x \in now("result") : r = <<x.id, x.result>>
      <4>1. PICK k \in DOMAIN c.entries : /\ c.entries[k].id \in Ids("result")
                                          /\ r = <<c.entries[k].id, c.entries[k].result>>
        BY <1>5, <3>2
      <4>2. c.entries[k].result # "none"
        BY <1>2, <1>3, <4>1 DEF Noted
      <4> QED
        BY <4>1, <4>2
    <3> QED
      BY <1>1, <3>1, <3>2
  <2>2. ASSUME NEW k \in DOMAIN c.entries, c.entries[k].result # "none"
        PROVE  <<c.entries[k].id, c.entries[k].result>> \in g.result
    <3>1. CASE c.entries[k].id \in Ids("result")
      BY <1>1, <1>5, <3>1
    <3>2. CASE c.entries[k].id \notin Ids("result")
      <4>1. k \in DOMAIN F.entries /\ F.entries[k].result = c.entries[k].result
        BY <1>2, <1>3, <2>2, <3>2 DEF Noted
      <4>2. F.entries[k].id = c.entries[k].id
        BY <1>2, <4>1 DEF Grown
      <4>3. <<c.entries[k].id, c.entries[k].result>> \in f.result
        BY <1>2, <2>2, <4>1, <4>2 DEF Mirrors
      <4> QED
        BY <1>1, <3>2, <4>3
    <3> QED
      BY <3>1, <3>2
  <2> QED
    BY <2>1, <2>2
<1>8. g.entity # NoEntity /\ g.entity.bucket = c.bucket
  <2>1. NoEntity.bucket = "absent" /\ Entity(c).bucket = c.bucket
    BY DEF NoEntity, NoCollection, Entity
  <2>2. g.entity.bucket = c.bucket
    BY <1>1, <1>2, <2>1 DEF Noted
  <2> QED
    BY <1>2, <2>1, <2>2
<1> QED
  BY <1>6, <1>7, <1>8 DEF Mirrors, c, g

(* What is loaded from them is the collection.                             *)
LEMMA WrittenFiles ==
  ASSUME Base, FilesInv', SavedInv, MemoryInv, NEW u \in Uid, Present(u),
         saved'[u] = Filed(u, dirty, {})
  PROVE  /\ saved'[u].entity # NoEntity
         /\ File(u)'.entries = coll[u].entries /\ File(u)'.bucket = coll[u].bucket
         /\ Mirrors(saved'[u], File(u)') /\ Whole(NumTests[u], File(u)')
<1> DEFINE g == saved'[u]
           c == coll[u]
<1>1. Mirrors(g, c) /\ g.entity # NoEntity /\ g.entity.bucket = c.bucket
  BY FiledMirrors
<1>2. FileOK(g) /\ CollOK(c) /\ Numbered(c)
  BY DEF FilesInv, Base, ListsInv, CollsInv, IdsInv, Counted
<1>3. CollOK(Loaded(g)) /\ Loaded(g).bucket = c.bucket
  BY <1>1, <1>2, LoadedOK
<1>4. Loaded(g).entries = c.entries
  BY <1>1, <1>2, LoadedMirrors
<1>5. Mirrors(g, Loaded(g))
  BY <1>1, <1>4 DEF Mirrors
<1>6. Whole(NumTests[u], c)
  BY DEF MemoryInv
<1>7. Whole(NumTests[u], Loaded(g))
  <2>1. c.bucket = "Completed" => AllEnded(c)
    BY <1>6 DEF Whole
  <2> QED
    BY <1>2, <1>3, <1>4, <1>6, <2>1, SameWhole, TestsOf
<1> QED
  BY <1>1, <1>3, <1>4, <1>5, <1>7 DEF File

(* There is nothing to be written of a collection that is not there.       *)
LEMMA FiledNothing ==
  ASSUME Base, NEW u \in Uid, ~Present(u)
  PROVE  Filed(u, dirty, {}) = saved[u]
<1> DEFINE f == saved[u]
           g == Filed(u, dirty, {})
<1>1. \A n \in dirty : n.uid # u
  BY DEF Base, ListsInv, DirtyInv, NotedOK, Present
<1>2. EntityOf(u) \notin dirty
  BY <1>1 DEF EntityOf
<1>3. \A kind : {d.id : d \in {e \in dirty : e.uid = u /\ e.kind = kind}} = {}
  BY <1>1
<1>4. g = [entity |-> f.entity, shallow |-> f.shallow, result |-> f.result]
  BY <1>1, <1>2, <1>3 DEF Filed
<1>5. f = [entity |-> f.entity, shallow |-> f.shallow, result |-> f.result]
  <2>1. f \in [entity : EntityRecord, shallow : SUBSET Entry, result : SUBSET (Nat \X TestResult)]
    BY DEF Base, ListsInv, FilesInv, FileOK
  <2> QED
    BY <2>1
<1> QED
  BY <1>4, <1>5

LEMMA NoFilesMirror ==
  /\ Mirrors(NoFiles, Loaded(NoFiles)) /\ NoFiles.entity = NoEntity
<1>1. NoFiles.shallow = {} /\ NoFiles.result = {} /\ NoFiles.entity = NoEntity
  BY DEF NoFiles
<1>2. Loaded(NoFiles).entries = <<>> /\ DOMAIN <<>> = {}
  BY NothingLoaded
<1> QED
  BY <1>1, <1>2 DEF Mirrors

(* Where ids are given once, a result is noted only of a test that has one.*)
LEMMA AllIsWritten ==
  ASSUME Base, MemoryInv
  PROVE  ToWrite = dirty
<1> SUFFICES ASSUME NEW d \in dirty, d.kind = "result"
             PROVE  HasResult(coll[d.uid], d.id)
  BY DEF ToWrite
<1> DEFINE c == coll[d.uid]
<1>1. d.uid \in Uid /\ Present(d.uid) /\ HasEntry(c, d.id)
  BY DEF Base, ListsInv, DirtyInv, NotedOK, Present
<1>2. CollOK(c)
  BY <1>1 DEF Base, ListsInv, CollsInv
<1>3. Latest(c, d.id) \in DOMAIN c.entries /\ c.entries[Latest(c, d.id)].id = d.id
  BY <1>1, <1>2, LatestIsThere
<1>4. d = ResultOf(d.uid, d.id)
  BY DEF Base, NotesInv, ResultOf
<1>5. Noted(dirty, d.uid, c, File(d.uid))
  BY <1>1 DEF MemoryInv
<1> QED
  BY <1>3, <1>4, <1>5 DEF Noted, HasResult

(* The bulk write.                                                         *)
LEMMA ResolveSteady ==
  ASSUME Base, ListsInv', SteadyInv, Resolve, ~Fault("io")
  PROVE  SteadyInv'
<1>0. ToWrite = dirty
  BY AllIsWritten DEF SteadyInv
<1>1. /\ saved' = [u \in Uid |-> IF u \in worker.doomed THEN NoFiles ELSE Filed(u, dirty, {})]
      /\ dirty' = {} /\ UNCHANGED <<coll, kstatus, alive, born>> /\ ~At("down")
      /\ worker' = [worker EXCEPT !.doomed = {},
                                  !.at = IF @ = "register" THEN "pass" ELSE "tasks"]
  BY <1>0 DEF Resolve, FilesAfter, clusterVars, At
<1>2. worker'.doomed = {} /\ worker'.changed = worker.changed
  BY <1>1 DEF Base, ListsInv, WorkInv, WorkerOK, Idle
<1>3. FilesInv' /\ FilesInv
  BY DEF Base, ListsInv
<1>4. ASSUME NEW u \in Uid, Present(u)
      PROVE  /\ saved'[u].entity # NoEntity
             /\ File(u)'.entries = coll[u].entries /\ File(u)'.bucket = coll[u].bucket
             /\ Mirrors(saved'[u], File(u)') /\ Whole(NumTests[u], File(u)')
  <2>1. saved'[u] = Filed(u, dirty, {})
    BY <1>1, <1>4 DEF SteadyInv, ObjectInv
  <2> QED
    BY <1>3, <1>4, <2>1, WrittenFiles DEF SteadyInv
<1>5. \A u \in Uid : ~Present(u) => saved'[u] \in {saved[u], NoFiles}
  BY <1>1, FiledNothing
<1>6. SavedInv'
  <2> SUFFICES ASSUME NEW u \in Uid
               PROVE  /\ Mirrors(saved'[u], File(u)')
                      /\ saved'[u].entity = NoEntity => saved'[u] = NoFiles
                      /\ saved'[u].entity # NoEntity => Whole(NumTests[u], File(u)')
    BY DEF SavedInv
  <2>1. CASE Present(u)
    BY <1>4, <2>1
  <2>2. CASE ~Present(u) /\ saved'[u] = saved[u]
    BY <2>2 DEF SteadyInv, SavedInv, File
  <2>3. CASE saved'[u] = NoFiles
    BY <2>3, NoFilesMirror DEF File
  <2> QED
    BY <1>5, <2>1, <2>2, <2>3
<1>7. MemoryInv'
  <2> SUFFICES ASSUME NEW u \in Uid, Present(u)
               PROVE  /\ Whole(NumTests[u], coll[u]) /\ Grown(File(u)', coll[u])
                      /\ Noted({}, u, coll[u], File(u)')
    BY <1>1 DEF MemoryInv, Present
  <2>1. Whole(NumTests[u], coll[u])
    BY DEF SteadyInv, MemoryInv
  <2>2. File(u)'.entries = coll[u].entries /\ File(u)'.bucket = coll[u].bucket
    BY <1>4
  <2>3. Grown(File(u)', coll[u])
    BY <2>2, SameGrown
  <2>4. Noted({}, u, coll[u], File(u)')
    BY <2>2 DEF Noted
  <2> QED
    BY <2>1, <2>3, <2>4
<1>8. ObjectInv'
  <2>1. alive \subseteq Uid
    BY DEF Base, ListsInv, ClusterInv
  <2>2. \A u \in alive : ~Present(u) => saved'[u].entity = NoEntity
    BY <1>1, <1>5, <2>1, NoFilesMirror DEF SteadyInv, ObjectInv
  <2> QED
    BY <1>1, <1>2, <2>2 DEF SteadyInv, ObjectInv, Present
<1>9. WrittenInv'
  BY <1>1, <1>4 DEF WrittenInv, Present
<1>10. ASSUME NEW u \in alive, saved[u].entity # NoEntity
       PROVE  saved'[u].entity # NoEntity /\ Grown(File(u), File(u)')
  <2>1. u \in Uid /\ Present(u)
    BY <1>1, <1>10 DEF SteadyInv, ObjectInv, Base, ListsInv, ClusterInv
  <2>2. Grown(File(u), coll[u]) /\ Grown(coll[u], File(u)')
    <3>1. Grown(File(u), coll[u])
      BY <2>1 DEF SteadyInv, MemoryInv
    <3> QED
      BY <1>4, <2>1, <3>1, SameGrown
  <2> QED
    BY <1>4, <2>1, <2>2, GrownMore
<1>11. PublicInv' /\ PercentEarned'
  BY <1>1, <1>3, <1>6, <1>10, PublicGrows DEF SteadyInv, Base
<1> QED
  BY <1>6, <1>7, <1>8, <1>9, <1>11 DEF SteadyInv

(* The scheduled task removes the files of collections that are not there. *)
LEMMA PruneSteady ==
  ASSUME Base, ListsInv', SteadyInv, PruneFiles
  PROVE  SteadyInv'
<1>1. /\ saved' = [u \in Uid |-> IF Present(u) THEN saved[u] ELSE NoFiles]
      /\ UNCHANGED <<coll, dirty, kstatus, alive, born>> /\ ~At("down") /\ Publishing
      /\ worker' = [worker EXCEPT !.at = "publish"]
  BY DEF PruneFiles, Goto, memory, clusterVars, At, Publishing
<1>2. worker'.doomed = worker.doomed /\ worker'.changed = worker.changed
  BY <1>1 DEF Base, ListsInv, WorkInv, WorkerOK, Idle
<1>3. \A u \in Uid : Present(u) => saved'[u] = saved[u] /\ File(u)' = File(u)
  BY <1>1 DEF File
<1>4. SavedInv'
  <2> SUFFICES ASSUME NEW u \in Uid
               PROVE  /\ Mirrors(saved'[u], File(u)')
                      /\ saved'[u].entity = NoEntity => saved'[u] = NoFiles
                      /\ saved'[u].entity # NoEntity => Whole(NumTests[u], File(u)')
    BY DEF SavedInv
  <2>1. CASE Present(u)
    BY <1>3, <2>1 DEF SteadyInv, SavedInv
  <2>2. CASE ~Present(u)
    BY <1>1, <2>2, NoFilesMirror DEF File
  <2> QED
    BY <2>1, <2>2
<1>5. MemoryInv'
  BY <1>1, <1>3 DEF SteadyInv, MemoryInv, Present
<1>6. ObjectInv'
  <2>1. alive \subseteq Uid
    BY DEF Base, ListsInv, ClusterInv
  <2>2. \A u \in alive : ~Present(u) => saved'[u].entity = NoEntity
    BY <1>1, <2>1, NoFilesMirror
  <2> QED
    BY <1>1, <1>2, <2>2 DEF SteadyInv, ObjectInv, Present
<1>7. WrittenInv'
  BY <1>1, <1>3 DEF SteadyInv, WrittenInv, Present
<1>8. ASSUME NEW u \in alive, saved[u].entity # NoEntity
      PROVE  saved'[u].entity # NoEntity /\ Grown(File(u), File(u)')
  <2>1. u \in Uid /\ Present(u)
    BY <1>1, <1>8 DEF SteadyInv, ObjectInv, Base, ListsInv, ClusterInv
  <2> QED
    BY <1>3, <1>8, <2>1, SameGrown
<1>9. PublicInv' /\ PercentEarned'
  BY <1>1, <1>4, <1>8, PublicGrows DEF SteadyInv, Base, ListsInv
<1> QED
  BY <1>4, <1>5, <1>6, <1>7, <1>9 DEF SteadyInv

-----------------------------------------------------------------------------
(***************************************************************************)
(* Results are published; the operator is killed and restarted; objects    *)
(* come and go.                                                            *)
(***************************************************************************)

(* What is published is of the object it is about, and as it is on file.   *)
LEMMA PublishedIs ==
  ASSUME Base, SteadyInv, NEW u \in Uid, Publish(u)
  PROVE  /\ u \in alive /\ saved[u].entity # NoEntity
         /\ kstatus' = [kstatus EXCEPT ![u] = Public(coll[u])]
         /\ Public(coll[u]).results = saved[u].result
         /\ Public(coll[u]).percent
              = Share(Cardinality(Passing(NumTests[u], File(u), saved[u].result)), NumTests[u])
         /\ Public(coll[u]).status # ""
         /\ Public(coll[u]).status = "Complete" <=> saved[u].entity.bucket = "Completed"
<1> DEFINE c == coll[u]
<1>1. u \in alive /\ Publishing /\ u \in worker.changed
      /\ kstatus' = [kstatus EXCEPT ![Bearer(u)] = Public(c)]
  BY DEF Publish, IsOwn
<1>2. Bearer(u) = u
  <2>1. \E o \in alive : NameOf[o] = NameOf[u]
    BY <1>1
  <2>2. Bearer(u) \in alive /\ NameOf[Bearer(u)] = NameOf[u]
    BY <2>1 DEF Bearer
  <2> QED
    BY <1>1, <2>2 DEF SteadyInv, ObjectInv
<1>3. Present(u)
  BY <1>1 DEF SteadyInv, ObjectInv
<1>4. File(u).entries = c.entries /\ File(u).bucket = c.bucket
  BY <1>1, <1>3 DEF SteadyInv, WrittenInv
<1>5. /\ CollOK(c) /\ Numbered(c) /\ Rooted(NumTests[u], c) /\ CollOK(File(u))
      /\ File(u).bucket = saved[u].entity.bucket /\ Mirrors(saved[u], File(u))
  <2>1. FileOK(saved[u]) /\ CollOK(c)
    BY DEF Base, ListsInv, FilesInv, CollsInv
  <2>2. CollOK(File(u)) /\ File(u).bucket = saved[u].entity.bucket
    BY <2>1, LoadedOK DEF File
  <2>3. Rooted(NumTests[u], c) /\ Numbered(c)
    BY <1>3 DEF SteadyInv, MemoryInv, Whole, Rooted
  <2> QED
    BY <2>1, <2>2, <2>3 DEF SteadyInv, SavedInv
<1> HIDE DEF c
<1>6. saved[u].entity # NoEntity
  BY <1>3, <1>4, <1>5 DEF NoEntity, Entity, NoCollection, Present, c
<1>7. Public(c).results = saved[u].result
  BY <1>4, <1>5, ResultsAre DEF Mirrors
<1>8. Public(c).percent
        = Share(Cardinality(Passing(NumTests[u], File(u), saved[u].result)), NumTests[u])
  BY <1>4, <1>5, <1>7, PercentIs, TestsOf
<1>9. /\ Public(c).status # ""
      /\ Public(c).status = "Complete" <=> saved[u].entity.bucket = "Completed"
  <2>1. Public(c).status = StatusText(c.bucket) /\ c.bucket \in CollState
    BY <1>5 DEF Public, CollOK, Collection
  <2> QED
    BY <1>4, <1>5, <2>1 DEF StatusText, CollState
<1> QED
  BY <1>1, <1>2, <1>6, <1>7, <1>8, <1>9 DEF c

LEMMA PublishSteady ==
  ASSUME Base, SteadyInv, NEW u \in Uid, Publish(u)
  PROVE  SteadyInv'
<1>1. UNCHANGED <<saved, alive>> /\ SavedInv' /\ MemoryInv' /\ ObjectInv' /\ WrittenInv'
  BY OtherSteady DEF Publication
<1> DEFINE p == Public(coll[u])
<1>2. /\ u \in alive /\ saved[u].entity # NoEntity
      /\ kstatus' = [kstatus EXCEPT ![u] = p] /\ p.results = saved[u].result
      /\ p.percent = Share(Cardinality(Passing(NumTests[u], File(u), saved[u].result)), NumTests[u])
      /\ p.status # "" /\ (p.status = "Complete" <=> saved[u].entity.bucket = "Completed")
  BY PublishedIs
<1>3. p = [status |-> p.status, percent |-> p.percent, results |-> p.results]
  BY DEF Public
<1> HIDE DEF p
<1>4. \A v \in Uid : kstatus'[v] = IF v = u THEN p ELSE kstatus[v]
  BY <1>2 DEF SteadyInv, PublicInv
<1>5. PublicInv'
  BY <1>1, <1>2, <1>3, <1>4 DEF SteadyInv, PublicInv
<1>6. PercentEarned'
  <2> SUFFICES ASSUME NEW v \in alive, kstatus'[v].status # ""
               PROVE  kstatus'[v].percent =
                        Share(Cardinality(Passing(NumTests[v], File(v), kstatus'[v].results)),
                              NumTests[v])
    BY <1>1 DEF PercentEarned, Passing, File
  <2>1. v \in Uid
    BY DEF Base, ListsInv, ClusterInv
  <2>2. CASE v = u
    BY <1>2, <1>4, <2>2
  <2>3. CASE v # u
    BY <1>4, <2>1, <2>3 DEF SteadyInv, PercentEarned, Passing, File
  <2> QED
    BY <2>2, <2>3
<1> QED
  BY <1>1, <1>5, <1>6 DEF SteadyInv

(* The operator is killed between two writes.                              *)
LEMMA CrashSteady ==
  ASSUME Base, SteadyInv, Crash
  PROVE  SteadyInv'
<1>1. /\ coll' = [u \in Uid |-> NoCollection] /\ worker' = Down
      /\ UNCHANGED <<saved, kstatus, alive, born>>
  BY DEF Crash, Die, clusterVars
<1>2. \A u \in Uid : ~Present(u)'
  BY <1>1 DEF Present, NoCollection
<1>3. worker'.at = "down" /\ worker'.changed = {} /\ worker'.doomed = {}
  BY <1>1 DEF Down, Idle
<1>4. MemoryInv'
  BY <1>2 DEF MemoryInv
<1>5. ObjectInv'
  BY <1>1, <1>3 DEF SteadyInv, ObjectInv, At
<1>6. WrittenInv'
  BY <1>2 DEF WrittenInv
<1> QED
  BY <1>1, <1>4, <1>5, <1>6, SamePublished DEF SteadyInv

(* It starts from its files.                                               *)
LEMMA LoadSteady ==
  ASSUME Base, SteadyInv, Load, ~Fault("api")
  PROVE  SteadyInv'
<1>1. /\ coll' = [u \in Uid |-> IF u \in Loadable THEN Loaded(saved[u]) ELSE NoCollection]
      /\ worker' = Idle /\ UNCHANGED <<dirty, saved, kstatus, alive, born>>
  BY DEF Load, clusterVars
<1>2. dirty = {}
  BY DEF Load, Base, ListsInv, DirtyInv
<1>3. \A u \in Uid : File(u)' = File(u)
  BY <1>1 DEF File
<1>4. \A u \in Uid : ~Present(u)' <=> u \notin Loadable
  <2>1. ASSUME NEW u \in Uid, u \in Loadable
        PROVE  Loaded(saved[u]).bucket # "absent"
    <3>1. Loaded(saved[u]).bucket = saved[u].entity.bucket
      BY LoadedOK DEF Base, ListsInv, FilesInv
    <3> QED
      BY <2>1, <3>1 DEF Loadable, Base, BornInv
  <2>2. NoCollection.bucket = "absent"
    BY DEF NoCollection
  <2> QED
    BY <1>1, <2>1, <2>2 DEF Present
<1>5. MemoryInv'
  <2> SUFFICES ASSUME NEW u \in Uid, Present(u)'
               PROVE  /\ Whole(NumTests[u], File(u)) /\ Grown(File(u), File(u))
                      /\ Noted({}, u, File(u), File(u)) /\ coll'[u] = File(u)
    BY <1>1, <1>2, <1>3 DEF MemoryInv
  <2>1. u \in Loadable /\ coll'[u] = File(u)
    BY <1>1, <1>4 DEF File
  <2>2. Whole(NumTests[u], File(u))
    BY <2>1 DEF Loadable, SteadyInv, SavedInv
  <2>3. Noted({}, u, File(u), File(u))
    BY DEF Noted
  <2> QED
    BY <2>1, <2>2, <2>3, SameGrown
<1>6. ObjectInv'
  <2>1. alive \subseteq Uid /\ worker'.changed = {} /\ worker'.doomed = {}
    BY <1>1 DEF Base, ListsInv, ClusterInv, Idle
  <2>2. \A u \in alive : ~Present(u)' => saved[u].entity = NoEntity
    BY <1>4, <2>1 DEF Loadable
  <2> QED
    BY <1>1, <2>1, <2>2 DEF SteadyInv, ObjectInv
<1>7. WrittenInv'
  BY <1>1 DEF WrittenInv, Publishing, At, Idle
<1> QED
  BY <1>1, <1>5, <1>6, <1>7, SamePublished DEF SteadyInv

(* An object that is new bears a name that no other has, and nothing is    *)
(* known of it; of one that is deleted nothing is published any more.      *)
LEMMA ObjectSteady ==
  ASSUME Base, SteadyInv, NEW u \in Uid, CreateObject(u) \/ DeleteObject(u)
  PROVE  SteadyInv'
<1>1. UNCHANGED <<coll, saved, dirty, worker>>
  BY DEF CreateObject, DeleteObject, operatorVars, memory
<1>2. \A v \in Uid : File(v)' = File(v) /\ (Present(v)' <=> Present(v))
  BY <1>1 DEF File, Present
<1>3. SavedInv' /\ MemoryInv' /\ WrittenInv'
  BY <1>1, <1>2 DEF SteadyInv, SavedInv, MemoryInv, WrittenInv, Publishing, At
<1>4. alive \subseteq born /\ born \subseteq Uid /\ worker.changed \subseteq Uid
      /\ worker.doomed \subseteq Uid
  BY DEF Base, ListsInv, ClusterInv, WorkInv, WorkerOK
<1>5. CASE CreateObject(u)
  <2>1. /\ u \notin born /\ ~Borne(u) /\ alive' = alive \cup {u} /\ born' = born \cup {u}
        /\ UNCHANGED kstatus
    BY <1>5 DEF CreateObject
  <2>2. ~Present(u) /\ saved[u].entity = NoEntity /\ kstatus[u] = NoStatus
    BY <1>4, <2>1 DEF Base, BornInv, SteadyInv, PublicInv
  <2>3. \A v \in alive' : ~Present(v)' /\ ~At("down")' => saved'[v].entity = NoEntity
    BY <1>1, <1>2, <1>4, <2>1, <2>2 DEF SteadyInv, ObjectInv, At
  <2>4. \A v \in worker'.changed : v \in born' /\ (v \in alive' => Present(v)')
    BY <1>1, <1>2, <1>4, <2>1 DEF SteadyInv, ObjectInv
  <2>5. \A v, w \in alive' : NameOf[v] = NameOf[w] => v = w
    BY <2>1 DEF SteadyInv, ObjectInv, Borne
  <2>6. \A v \in worker'.doomed : ~Present(v)'
    BY <1>1, <1>2, <1>4 DEF SteadyInv, ObjectInv
  <2>7. ObjectInv'
    BY <2>3, <2>4, <2>5, <2>6 DEF ObjectInv
  <2>8. PublicInv'
    BY <1>1, <2>1 DEF SteadyInv, PublicInv
  <2>9. PercentEarned'
    <3>1. NoStatus.status = ""
      BY DEF NoStatus
    <3> QED
      BY <1>1, <2>1, <2>2, <3>1 DEF SteadyInv, PercentEarned
  <2> QED
    BY <1>3, <2>7, <2>8, <2>9 DEF SteadyInv
<1>6. CASE DeleteObject(u)
  <2>1. /\ alive' = alive \ {u} /\ UNCHANGED born
        /\ kstatus' = [kstatus EXCEPT ![u] = NoStatus]
    BY <1>6 DEF DeleteObject
  <2>2. \A v \in Uid : kstatus'[v] = IF v = u THEN NoStatus ELSE kstatus[v]
    BY <2>1 DEF SteadyInv, PublicInv
  <2>3. ObjectInv'
    <3>1. \A v \in alive' : ~Present(v)' /\ ~At("down")' => saved'[v].entity = NoEntity
      BY <1>1, <1>2, <1>4, <2>1 DEF SteadyInv, ObjectInv, At
    <3>2. \A v \in worker'.changed : v \in born' /\ (v \in alive' => Present(v)')
      BY <1>1, <1>2, <1>4, <2>1 DEF SteadyInv, ObjectInv
    <3>3. \A v, w \in alive' : NameOf[v] = NameOf[w] => v = w
      BY <2>1 DEF SteadyInv, ObjectInv
    <3>4. \A v \in worker'.doomed : ~Present(v)'
      BY <1>1, <1>2, <1>4 DEF SteadyInv, ObjectInv
    <3> QED
      BY <3>1, <3>2, <3>3, <3>4 DEF ObjectInv
  <2>4. PublicInv'
    <3>1. NoStatus = [status |-> NoStatus.status, percent |-> NoStatus.percent,
                      results |-> NoStatus.results]
      BY DEF NoStatus
    <3> QED
      BY <1>1, <2>1, <2>2, <3>1 DEF SteadyInv, PublicInv
  <2>5. PercentEarned'
    BY <1>1, <1>4, <2>1, <2>2 DEF SteadyInv, PercentEarned
  <2> QED
    BY <1>3, <2>3, <2>4, <2>5 DEF SteadyInv
<1> QED
  BY <1>5, <1>6

-----------------------------------------------------------------------------
(***************************************************************************)
(* The theorems.                                                           *)
(***************************************************************************)

LEMMA SteadyStep ==
  ASSUME Steady
  PROVE  Base /\ ListsInv' /\ SteadyInv /\ [Next]_vars => SteadyInv'
<1> SUFFICES ASSUME Base, ListsInv', SteadyInv, [Next]_vars PROVE SteadyInv'
  OBVIOUS
<1>1. CASE \/ ListJobs \/ ListFails \/ Examined \/ Start
           \/ \E j \in worker.todo : Examine(j)
  BY <1>1, TurnSteady
<1>2. CASE Promote \/ Settle \/ Resolve \/ PruneFiles \/ Crash
  BY <1>2, PromoteSteady, SettleSteady, ResolveSteady, PruneSteady, CrashSteady DEF Steady
<1>3. CASE \E u \in Uid : Reconcile(u) /\ u \in alive /\ ~Present(u)
  BY <1>3, RegisterSteady
<1>4. CASE \E u \in Uid : Publish(u)
  BY <1>4, PublishSteady
<1>5. CASE /\ ~\E u \in Uid : Publish(u)
           /\ \/ \E u \in Uid : Reconcile(u) /\ ~(u \in alive /\ ~Present(u))
              \/ CleanJobs \/ Publication
              \/ \E j \in jobs : JobStep(j) \/ RemoveJob(j)
              \/ WindowPasses \/ UNCHANGED vars
  BY <1>5, OtherSteady
<1>6. CASE \E u \in Uid : CreateObject(u) \/ DeleteObject(u)
  BY <1>6, ObjectSteady
<1>7. CASE Load
  BY <1>7, LoadSteady DEF Load, Steady, Base, IdsInv
<1>8. CASE CrashWriting
  <2>1. restarts < MaxRestarts /\ Fault("torn")
    BY <1>8 DEF CrashWriting, Killed
  <2>2. restarts \in 0..MaxRestarts /\ MaxRestarts \in Nat
    BY TestAssumption DEF Base, IdsInv
  <2>3. MaxRestarts # 0
    BY <2>1, <2>2
  <2> QED
    BY <2>1, <2>3 DEF Steady
<1>9. CASE \E j \in worker.todo : ExaminePanics(j)
  BY <1>9, NoPanic DEF Base
<1> QED
  BY <1>1, <1>2, <1>3, <1>4, <1>5, <1>6, <1>7, <1>8, <1>9
  DEF Next, Operator, Process, Tasks

LEMMA SteadyInit == Init => Base /\ SteadyInv
<1> SUFFICES ASSUME Init PROVE Base /\ SteadyInv
  OBVIOUS
<1>1. Base
  <2>1. ListsInv /\ IdsInv
    BY ListsInit, IdsInit
  <2>2. BornInv
    BY SubmissionInit DEF SubmissionInv
  <2>3. NotesInv
    BY DEF Init, NotesInv
  <2> QED
    BY <2>1, <2>2, <2>3 DEF Base
<1>2. /\ \A u \in Uid : saved[u] = NoFiles /\ ~Present(u) /\ kstatus[u] = NoStatus
      /\ alive = {} /\ worker.changed = {} /\ worker.doomed = {} /\ DOMAIN kstatus = Uid
  BY DEF Init, Present, NoCollection, Idle
<1>3. SavedInv
  BY <1>2, NoFilesMirror DEF SavedInv, File
<1>4. PublicInv
  <2>1. NoStatus = [status |-> NoStatus.status, percent |-> NoStatus.percent,
                    results |-> NoStatus.results]
    BY DEF NoStatus
  <2> QED
    BY <1>2, <2>1 DEF PublicInv
<1>5. MemoryInv /\ ObjectInv /\ WrittenInv /\ PercentEarned
  BY <1>2 DEF MemoryInv, ObjectInv, WrittenInv, PercentEarned
<1> QED
  BY <1>1, <1>3, <1>4, <1>5 DEF SteadyInv

LEMMA NothingPublished ==
  NoStatus.status = "" /\ NoStatus.percent = 0 /\ NoStatus.results = {}
BY DEF NoStatus

(* At any time the files of a collection are those of a whole collection,  *)
(* memory has grown from them and has noted every difference, and what is  *)
(* published is on file (resolve, load, generateStatus): what the theorems *)
(* that follow are drawn from.                                             *)
THEOREM SteadyInvariant == ASSUME Steady PROVE Spec => [](Base /\ SteadyInv)
<1>1. Once
  BY DEF Steady, Once
<1>2. Base /\ SteadyInv /\ [Next]_vars => (Base /\ SteadyInv)'
  <2> SUFFICES ASSUME Base, SteadyInv, [Next]_vars PROVE (Base /\ SteadyInv)'
    OBVIOUS
  <2>1. ListsInv'
    BY ListsStep DEF Base
  <2>2. IdsInv'
    BY <1>1, IdsStep DEF Base
  <2>3. BornInv' /\ NotesInv'
    BY BornStep, NotesStep DEF Base
  <2>4. SteadyInv'
    BY <2>1, SteadyStep
  <2> QED
    BY <2>1, <2>2, <2>3, <2>4 DEF Base
<1> QED
  BY <1>2, SteadyInit, PTL DEF Spec

(* At any time the files alone are enough to go on from, whatever happens  *)
(* to Jobs and objects: they hold every test of a collection, the result   *)
(* of every test that ended, and the retry of every one that failed and    *)
(* may be retried - what is changed together is written together, by       *)
(* resolve, before anything else is done.                                  *)
THEOREM FilesAreEnough == ASSUME Steady PROVE Spec => []FilesSuffice
<1>1. Base /\ SteadyInv => FilesSuffice
  <2> SUFFICES ASSUME Base, SteadyInv, NEW u \in Uid, saved[u].entity # NoEntity
               PROVE  /\ \A id \in 1..NumTests[u] : HasEntry(File(u), id)
                      /\ \A k \in DOMAIN File(u).entries : Accounted(File(u), k)
    BY DEF FilesSuffice, File, Accounted
  <2>1. Whole(NumTests[u], File(u))
    BY DEF SteadyInv, SavedInv
  <2> QED
    BY <2>1 DEF Whole, Rooted, HasEntry, Index
<1> QED
  BY <1>1, SteadyInvariant, PTL

(* The last run of each test of a collection all of whose runs have ended  *)
(* has passed, or was not to be retried.                                   *)
LEMMA LastRun ==
  ASSUME NEW n \in Nat, NEW c, CollOK(c), Whole(n, c), AllEnded(c), NEW id \in 1..n
  PROVE  \E k \in RunsOf(c, id) : GaveUp(c, k)
<1>1. Rooted(n, c) /\ Numbered(c) /\ c.entries \in Seq(Entry)
  BY DEF Whole, Rooted, CollOK, Collection
<1> DEFINE B == RunsOf(c, id)
<1>2. id \in B
  <2>1. id \in DOMAIN c.entries /\ Root(c, id) = id
    BY <1>1, RootIsTest DEF Rooted
  <2> QED
    BY <1>1, <2>1, RunsAreRooted
<1>3. B \subseteq DOMAIN c.entries /\ B \in SUBSET Nat /\ IsFiniteSet(B)
  <2>1. B \subseteq 1..Len(c.entries)
    BY <1>1 DEF RunsOf
  <2>2. IsFiniteSet(1..Len(c.entries)) /\ DOMAIN c.entries = 1..Len(c.entries)
    BY <1>1, FS_Interval
  <2> QED
    BY <2>1, <2>2, FS_Subset
<1> HIDE DEF B
<1>4. PICK k \in B : \A i \in B : i <= k
  BY <1>2, <1>3, Greatest
<1>5. k \in DOMAIN c.entries /\ Root(c, k) = id /\ c.entries[k] \in Entry
  <2>1. k \in DOMAIN c.entries
    BY <1>3
  <2> QED
    BY <1>1, <1>4, <2>1, RunsAreRooted DEF B
<1>6. Accounted(c, k) /\ c.entries[k].bucket = "Completed"
  BY <1>5 DEF Whole, AllEnded
<1>7. ASSUME NEW i \in DOMAIN c.entries, c.entries[i].from = c.entries[k].id
      PROVE  FALSE
  <2>1. Root(c, i) = id
    BY <1>1, <1>5, <1>7, RootOf
  <2>2. i \in B
    BY <1>1, <2>1, RunsAreRooted DEF B
  <2>3. c.entries[i].from # 0
    BY <1>5, <1>7 DEF CollOK
  <2>4. PICK j \in 1..i - 1 : c.entries[j].id = c.entries[k].id
    BY <1>1, <1>7, <2>3 DEF Numbered
  <2>5. j \in DOMAIN c.entries /\ j < i
    BY <1>1, <2>4
  <2>6. j = k
    BY <1>1, <1>5, <2>4, <2>5, SameId
  <2> QED
    BY <1>3, <1>4, <2>2, <2>5, <2>6
<1>8. GaveUp(c, k)
  <2>1. c.entries[k].result \in {"pass", "fail"}
    BY <1>5, <1>6 DEF Accounted, Entry
  <2> QED
    BY <1>6, <1>7, <2>1 DEF Accounted, GaveUp
<1> QED
  BY <1>4, <1>8 DEF B

(* A KoupletTest is published as complete only when each of its tests has  *)
(* passed, or has failed and been retried to the end, and the files say    *)
(* so (generateStatus): the last run of a test has not been retried.       *)
THEOREM CompleteIsDone == ASSUME Steady PROVE Spec => []CompleteMeansDone
<1>1. Base /\ SteadyInv => CompleteMeansDone
  <2> SUFFICES ASSUME Base, SteadyInv, NEW u \in Uid, kstatus[u].status = "Complete",
                      NEW id \in 1..NumTests[u]
               PROVE  \E k \in RunsOf(File(u), id) : GaveUp(File(u), k)
    BY DEF CompleteMeansDone, File
  <2>1. kstatus[u] # NoStatus
    BY NothingPublished
  <2>2. saved[u].entity # NoEntity /\ saved[u].entity.bucket = "Completed"
    BY <2>1 DEF SteadyInv, PublicInv
  <2>3. CollOK(File(u)) /\ File(u).bucket = "Completed"
    BY <2>2, LoadedOK DEF Base, ListsInv, FilesInv, File
  <2>4. Whole(NumTests[u], File(u)) /\ AllEnded(File(u))
    BY <2>2, <2>3 DEF SteadyInv, SavedInv, Whole
  <2> QED
    BY <2>3, <2>4, LastRun, TestsOf
<1> QED
  BY <1>1, SteadyInvariant, PTL

(* The percentage published of a KoupletTest is that of its tests of which *)
(* some run, by the results published with it and the retries on file, has *)
(* passed (kouplettest_models.go:524).                                     *)
THEOREM PercentIsEarned == ASSUME Steady PROVE Spec => []PercentEarned
<1>1. Base /\ SteadyInv => PercentEarned
  BY DEF SteadyInv
<1> QED
  BY <1>1, SteadyInvariant, PTL

(* Whatever is published was saved before: no restart takes it back.  The  *)
(* bulk write of Process comes before its status updates.                  *)
THEOREM PublishedWasSaved == ASSUME Steady PROVE Spec => []PublishedIsSaved
<1>1. Base /\ SteadyInv => PublishedIsSaved
  <2> SUFFICES ASSUME Base, SteadyInv, NEW u \in alive
               PROVE  /\ kstatus[u].results \subseteq saved[u].result
                      /\ kstatus[u].status = "Complete" => saved[u].entity.bucket = "Completed"
    BY DEF PublishedIsSaved
  <2>1. u \in Uid
    BY DEF Base, ListsInv, ClusterInv
  <2>2. CASE kstatus[u] = NoStatus
    BY <2>2, NothingPublished
  <2>3. CASE kstatus[u] # NoStatus
    BY <2>1, <2>3 DEF SteadyInv, PublicInv
  <2> QED
    BY <2>2, <2>3
<1> QED
  BY <1>1, SteadyInvariant, PTL

(* The percentages published are numbers.                                  *)
LEMMA PercentTyped ==
  ASSUME SteadyInv, NEW u \in Uid
  PROVE  kstatus[u].percent \in Nat
<1>1. CASE kstatus[u] = NoStatus
  <2>1. kstatus[u].percent = 0
    BY <1>1, NothingPublished
  <2>2. 0 \in Nat
    OBVIOUS
  <2> QED
    BY <2>1, <2>2, Zenon
<1>2. CASE kstatus[u] # NoStatus
  <2> DEFINE P == Passing(NumTests[u], File(u), kstatus[u].results)
  <2>1. kstatus[u].percent = Share(Cardinality(P), NumTests[u])
    BY <1>2 DEF SteadyInv, PublicInv, PercentEarned, Passing, File
  <2>2. Cardinality(P) \in Nat
    <3>1. P \subseteq 1..NumTests[u] /\ IsFiniteSet(1..NumTests[u])
      BY TestsOf, FS_Interval DEF Passing
    <3> QED
      BY <3>1, FS_Subset, FS_CardinalityType
  <2> QED
    BY <2>1, <2>2, ShareGrows, TestsOf
<1> QED
  BY <1>1, <1>2

(* What is published next has the results published before, and as high a  *)
(* percentage.                                                             *)
LEMMA PublishedMore ==
  ASSUME Base, SteadyInv, NEW u \in Uid, Publish(u)
  PROVE  /\ kstatus[u].results \subseteq kstatus'[u].results
         /\ kstatus[u].percent <= kstatus'[u].percent
         /\ kstatus[u].status = "Complete" => kstatus'[u] = kstatus[u]
<1> DEFINE n == NumTests[u]
           p == Public(coll[u])
           Earned(results) == Passing(n, File(u), results)
           k == kstatus[u]
<1>1. /\ u \in alive /\ kstatus' = [kstatus EXCEPT ![u] = p]
      /\ p.results = saved[u].result
      /\ p.percent = Share(Cardinality(Earned(saved[u].result)), n)
      /\ p.status = "Complete" <=> saved[u].entity.bucket = "Completed"
  BY PublishedIs
<1>2. p = [status |-> p.status, percent |-> p.percent, results |-> p.results]
  BY DEF Public
<1> HIDE DEF p
<1>3. kstatus'[u] = p
  BY <1>1 DEF SteadyInv, PublicInv
<1>4. n \in Nat \ {0} /\ n \in Nat
  BY TestsOf
<1> HIDE DEF n
<1>5. \A results : IsFiniteSet(Earned(results)) /\ Cardinality(Earned(results)) \in Nat
  <2> SUFFICES ASSUME NEW results
               PROVE  IsFiniteSet(Earned(results)) /\ Cardinality(Earned(results)) \in Nat
    OBVIOUS
  <2>1. Earned(results) \subseteq 1..n /\ IsFiniteSet(1..n)
    BY <1>4, FS_Interval DEF Passing
  <2> QED
    BY <2>1, FS_Subset, FS_CardinalityType
<1>6. CASE k = NoStatus
  <2>1. k.results = {} /\ k.percent = 0 /\ k.status # "Complete"
    BY <1>6, NothingPublished
  <2>2. 0 <= p.percent
    BY <1>1, <1>4, <1>5, ShareGrows
  <2> QED
    BY <1>3, <2>1, <2>2
<1>7. CASE k # NoStatus
  <2>1. /\ k.results \subseteq saved[u].result
        /\ k.status = "Complete" =>
             saved[u].entity.bucket = "Completed" /\ k.results = saved[u].result
        /\ k = [status |-> k.status, percent |-> k.percent, results |-> k.results]
    BY <1>7 DEF SteadyInv, PublicInv
  <2>2. k.percent = Share(Cardinality(Earned(k.results)), n)
    BY <1>1, <1>7 DEF SteadyInv, PublicInv, PercentEarned, Passing, File, n
  <2> HIDE DEF k
  <2>3. Earned(k.results) \subseteq Earned(saved[u].result)
    BY <2>1 DEF Passing
  <2> HIDE DEF Earned
  <2>4. Cardinality(Earned(k.results)) <= Cardinality(Earned(saved[u].result))
    BY <1>5, <2>3, FS_Subset
  <2>5. k.percent <= p.percent
    BY <1>1, <1>4, <1>5, <2>2, <2>4, ShareGrows
  <2>6. k.status = "Complete" => p = k
    BY <1>1, <1>2, <2>1, <2>2
  <2> QED
    BY <1>1, <1>3, <2>1, <2>5, <2>6 DEF k
<1> QED
  BY <1>6, <1>7

(* What is published changes where a status update succeeds, and where an  *)
(* object is deleted.                                                      *)
LEMMA StatusStep ==
  ASSUME Next, ~\E u \in Uid : Publish(u) \/ DeleteObject(u)
  PROVE  UNCHANGED kstatus
<1>1. CASE \/ ListJobs \/ ListFails \/ Examined \/ Start
           \/ \E j \in worker.todo : Examine(j)
  BY <1>1 DEF ListJobs, ListFails, Examined, Start, StartTest, StartFails, StartUnacknowledged,
     StartNoMore, Examine, ExamineAgain, ExamineJob, ExamineHangs, clusterVars
<1>2. CASE Promote \/ Settle \/ Resolve \/ Tasks \/ Publication \/ Load
  BY <1>2 DEF Promote, Settle, Resolve, Tasks, CleanJobs, PruneFiles, Publication, PublishSkips,
     PublishHangs, PublishFails, PublishNone, Load, clusterVars
<1>3. CASE \/ \E u \in Uid : Reconcile(u) \/ CreateObject(u)
           \/ Crash \/ CrashWriting \/ \E j \in worker.todo : ExaminePanics(j)
  BY <1>3 DEF Reconcile, CreateObject, Crash, CrashWriting, ExaminePanics, Die, clusterVars
<1>4. CASE WindowPasses \/ \E j \in jobs : JobStep(j) \/ RemoveJob(j)
  BY <1>4 DEF JobStep, StartJob, FinishJob, ExpireJob, Become, RemoveJob, WindowPasses,
     clusterVars
<1> QED
  BY <1>1, <1>2, <1>3, <1>4 DEF Next, Operator, Process

(* What users were told stays: a published result is not withdrawn, nor    *)
(* changed, the percentage never falls, though the tests that fail are     *)
(* retried, nor is a KoupletTest that was complete anything else later.    *)
THEOREM PublishedForGood == ASSUME Steady PROVE Spec => PublishedStays
<1> DEFINE Stay(u) == /\ kstatus[u].results \subseteq kstatus'[u].results
                      /\ kstatus[u].percent <= kstatus'[u].percent
                      /\ kstatus[u].status = "Complete" => kstatus'[u] = kstatus[u]
<1>1. Base /\ SteadyInv /\ [Next]_vars => [\A u \in alive' : Stay(u)]_vars
  <2> SUFFICES ASSUME Base, SteadyInv, Next, NEW u \in alive'
               PROVE  Stay(u)
    OBVIOUS
  <2>1. u \in Uid
    BY ListsStep DEF Base, ListsInv, ClusterInv
  <2>2. CASE Publish(u)
    BY <2>1, <2>2, PublishedMore
  <2>3. CASE ~Publish(u)
    <3>1. kstatus'[u] = kstatus[u]
      <4>1. CASE \E v \in Uid : Publish(v)
        <5>1. PICK v \in Uid : Publish(v)
          BY <4>1
        <5>2. kstatus' = [kstatus EXCEPT ![v] = Public(coll[v])]
          BY <5>1, PublishedIs
        <5> QED
          BY <2>1, <2>3, <5>1, <5>2 DEF SteadyInv, PublicInv
      <4>2. CASE \E v \in Uid : DeleteObject(v)
        <5>1. PICK v \in Uid : alive' = alive \ {v} /\ kstatus' = [kstatus EXCEPT ![v] = NoStatus]
          BY <4>2 DEF DeleteObject
        <5> QED
          BY <2>1, <5>1 DEF SteadyInv, PublicInv
      <4>3. CASE ~\E v \in Uid : Publish(v) \/ DeleteObject(v)
        BY <4>3, StatusStep
      <4> QED
        BY <4>1, <4>2, <4>3
    <3>2. kstatus[u].percent \in Nat
      BY <2>1, PercentTyped
    <3> QED
      BY <3>1, <3>2
  <2> QED
    BY <2>2, <2>3
<1> QED
  BY <1>1, SteadyInvariant, PTL DEF Spec, PublishedStays
=============================================================================
