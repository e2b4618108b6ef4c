------------------------- MODULE RouterSelectProofs -------------------------
(***************************************************************************)
(* For any backends, setups, requests, slots and loads: the list of a      *)
(* request is well formed, loses nobody, has the excluded last and, with   *)
(* affinity, the warm before the cold; and plain requests are led by       *)
(* everyone in turn.                                                       *)
(*                                                                         *)
(* Lists come first: how many positions they have, what arranging, joining *)
(* and flattening them keeps.  Then the passes, one invariant for all the  *)
(* properties of a single list; then the rotation, over successive lists.  *)
(*                                                                         *)
(* Last, what takes backends out of service: for any backends, names and   *)
(* durations, when the worker takes all the admin requests, permanent      *)
(* snoozes are kept, and no cooldown is revived.                           *)
(***************************************************************************)
EXTENDS RouterSelect, Snooze, FallbackOrder, Functions, FiniteSetTheorems, SequenceTheorems,
        TLAPS

-----------------------------------------------------------------------------
(* Positions.                                                                *)

\* The first n positions of a list.
LEMMA PositionsCount ==
  ASSUME NEW n \in Nat
  PROVE  IsFiniteSet(1..n) /\ Cardinality(1..n) = n
<1>1. IsFiniteSet(1..n) /\ Cardinality(1..n) = IF 1 > n THEN 0 ELSE n - 1 + 1
  BY FS_Interval
<1> QED
  BY <1>1

\* Induction up to n, over a set: the numbers with only numbers of E up to them
\* are as many first ones.
LEMMA Upto ==
  ASSUME NEW n \in Nat, NEW E \in SUBSET (0..n), 0 \in E,
         \A i \in 0..(n - 1) : i \in E => i + 1 \in E
  PROVE  E = 0..n
<1> DEFINE F == {i \in 1..n : \A j \in 1..i : j \in E}
<1>1. IsFiniteSet(F)
  BY PositionsCount, FS_Subset
<1>2. PICK c \in Nat : c = Cardinality(F)
  BY <1>1, FS_CardinalityType
<1>3. ASSUME NEW i \in F
      PROVE  i <= c
  <2>1. 1..i \in SUBSET F
    OBVIOUS
  <2>2. Cardinality(1..i) = i
    BY PositionsCount
  <2> QED
    BY <1>1, <1>2, <2>1, <2>2, FS_Subset
<1>4. F \in SUBSET (1..c)
  BY <1>3
<1>5. F = 1..c
  BY <1>2, <1>4, PositionsCount, FS_Subset
<1>6. c <= n
  <2>1. CASE c = 0
    BY <2>1
  <2>2. CASE c > 0
    <3>1. c \in F
      BY <1>5, <2>2
    <3> QED
      BY <3>1
  <2> QED
    BY <2>1, <2>2
<1>7. \A i \in 0..c : i \in E
  <2>1. \A i \in 1..c : i \in E
    BY <1>5
  <2> QED
    BY <2>1
<1>8. c = n
  <2>1. SUFFICES ASSUME c < n
                 PROVE  FALSE
    BY <1>6
  <2>2. c + 1 \in E
    BY <1>7, <2>1
  <2>3. \A j \in 1..(c + 1) : j \in E
    BY <1>7, <2>2
  <2>4. c + 1 \in F
    BY <2>1, <2>3
  <2> QED
    BY <1>5, <2>4
<1> QED
  BY <1>7, <1>8

-----------------------------------------------------------------------------
(* Lists.                                                                    *)

Distinct(s) == \A i, j \in DOMAIN s : s[i] = s[j] => i = j

\* f puts the positions of s in their order.
Placing(f, s, at, key) ==
  /\ Cardinality(at) \in Nat /\ f \in [1..Cardinality(at) -> at]
  /\ Arranged(s, at, key) = [n \in 1..Cardinality(at) |-> s[f[n]]]
  /\ \A m, n \in 1..Cardinality(at) : f[m] = f[n] => m = n
  /\ \A i \in at : \E n \in 1..Cardinality(at) : f[n] = i
  /\ \A m, n \in 1..Cardinality(at) : m < n =>
       \/ key[s[f[m]]] < key[s[f[n]]]
       \/ key[s[f[m]]] = key[s[f[n]]] /\ f[m] < f[n]

\* Arranged() takes up each position once, in the order of the keys: a
\* position's place is the number of positions up to it.
LEMMA ArrangedFacts ==
  ASSUME NEW S, NEW s \in Seq(S), NEW at \in SUBSET (1..Len(s)), NEW key,
         \A i \in at : key[s[i]] \in Int
  PROVE  \E f : Placing(f, s, at, key)
<1> DEFINE Bef(i, j) == \/ key[s[i]] < key[s[j]]
                        \/ key[s[i]] = key[s[j]] /\ i <= j
           Place(i) == Cardinality({j \in at : Bef(j, i)})
<1>1. IsFiniteSet(at)
  <2>1. Len(s) \in Nat
    OBVIOUS
  <2>2. IsFiniteSet(1..Len(s))
    BY <2>1, PositionsCount
  <2> QED
    BY <2>2, FS_Subset
<1>2. PICK c \in Nat : c = Cardinality(at)
  BY <1>1, FS_CardinalityType
<1>3. \A i \in at : i \in Int
  OBVIOUS
<1>4. ASSUME NEW i \in at
      PROVE  Place(i) \in 1..c
  <2> DEFINE T == {j \in at : Bef(j, i)}
  <2>1. T \in SUBSET at /\ i \in T
    BY <1>3
  <2> HIDE DEF T
  <2>2. IsFiniteSet(T) /\ Cardinality(T) <= c /\ Cardinality(T) \in Nat
    BY <1>1, <1>2, <2>1, FS_Subset, FS_CardinalityType
  <2>3. Cardinality(T) # 0
    BY <2>1, <2>2, FS_EmptySet
  <2>4. Place(i) = Cardinality(T)
    BY DEF T
  <2> QED
    BY <2>2, <2>3, <2>4
<1>5. ASSUME NEW i \in at, NEW k \in at, i # k, Bef(i, k)
      PROVE  Place(i) < Place(k)
  <2> DEFINE T == {j \in at : Bef(j, i)}
             U == {j \in at : Bef(j, k)}
  <2>1. T \in SUBSET U
    BY <1>3, <1>5
  <2>2. k \in U /\ k \notin T
    BY <1>3, <1>5
  <2>3. U \in SUBSET at
    OBVIOUS
  <2> HIDE DEF T, U
  <2>4. IsFiniteSet(U) /\ Cardinality(T) <= Cardinality(U) /\ Cardinality(T) # Cardinality(U)
    BY <1>1, <2>1, <2>2, <2>3, FS_Subset
  <2>5. Cardinality(T) \in Nat /\ Cardinality(U) \in Nat
    BY <2>1, <2>4, FS_Subset, FS_CardinalityType
  <2>6. Place(i) = Cardinality(T) /\ Place(k) = Cardinality(U)
    BY DEF T, U
  <2> QED
    BY <2>4, <2>5, <2>6
<1>6. ASSUME NEW i \in at, NEW k \in at, Place(i) = Place(k)
      PROVE  i = k
  <2>1. SUFFICES ASSUME i # k
                 PROVE  FALSE
    OBVIOUS
  <2>2. Bef(i, k) \/ Bef(k, i)
    BY <1>3
  <2>3. Place(i) \in Int /\ Place(k) \in Int
    BY <1>4
  <2>4. Place(i) < Place(k) \/ Place(k) < Place(i)
    BY <1>5, <2>1, <2>2
  <2> HIDE DEF Place
  <2> QED
    BY <1>6, <2>3, <2>4
<1> DEFINE g == [i \in at |-> Place(i)]
<1> HIDE DEF Place
<1>7. g \in Injection(at, 1..c)
  BY <1>4, <1>6 DEF Injection, IsInjective
<1>8. g \in Surjection(at, 1..c)
  BY <1>2, <1>7, PositionsCount, FS_Injection
<1>9. ASSUME NEW n \in 1..c
      PROVE  \E i \in at : Place(i) = n
  BY <1>8 DEF Surjection
<1> DEFINE f == [n \in 1..c |-> CHOOSE i \in at : Place(i) = n]
<1>10. \A n \in 1..c : f[n] \in at /\ Place(f[n]) = n
  BY <1>9
<1>11. f \in [1..c -> at]
  BY <1>10
<1>12. Arranged(s, at, key) = [n \in 1..c |-> s[f[n]]]
  BY <1>2 DEF Arranged, Place
<1> HIDE DEF f
<1>13. \A m, n \in 1..c : f[m] = f[n] => m = n
  BY <1>10
<1>14. \A i \in at : \E n \in 1..c : f[n] = i
  BY <1>4, <1>6, <1>10
<1>15. ASSUME NEW m \in 1..c, NEW n \in 1..c, m < n
       PROVE  Bef(f[m], f[n]) /\ f[m] # f[n]
  <2>1. f[m] \in at /\ f[n] \in at /\ Place(f[m]) = m /\ Place(f[n]) = n
    BY <1>10
  <2>2. f[m] # f[n]
    BY <1>15, <2>1
  <2>3. ~Bef(f[n], f[m])
    <3> HIDE DEF Bef
    <3>1. Bef(f[n], f[m]) => Place(f[n]) < Place(f[m])
      BY <1>5, <2>1, <2>2
    <3> QED
      BY <1>15, <2>1, <3>1
  <2>4. key[s[f[m]]] \in Int /\ key[s[f[n]]] \in Int /\ f[m] \in Int /\ f[n] \in Int
    BY <1>3, <2>1
  <2> QED
    BY <2>2, <2>3, <2>4
<1>16. \A m, n \in 1..c : m < n =>
         \/ key[s[f[m]]] < key[s[f[n]]]
         \/ key[s[f[m]]] = key[s[f[n]]] /\ f[m] < f[n]
  <2>1. \A n \in 1..c : f[n] \in Int
    BY <1>3, <1>10
  <2> QED
    BY <1>15, <2>1
<1> QED
  BY <1>2, <1>11, <1>12, <1>13, <1>14, <1>16 DEF Placing

\* So the list that results has exactly the members at those positions.
LEMMA ArrangedMembers ==
  ASSUME NEW S, NEW s \in Seq(S), NEW at \in SUBSET (1..Len(s)), NEW key,
         \A i \in at : key[s[i]] \in Int
  PROVE  /\ Arranged(s, at, key) \in Seq(S)
         /\ ToSet(Arranged(s, at, key)) = {s[i] : i \in at}
         /\ Distinct(s) => Distinct(Arranged(s, at, key))
<1>1. PICK f : Placing(f, s, at, key)
  BY ArrangedFacts
<1>2. PICK c \in Nat : c = Cardinality(at)
  BY <1>1 DEF Placing
<1>3. PICK r : r = [n \in 1..c |-> s[f[n]]]
  OBVIOUS
<1>4. /\ f \in [1..c -> at] /\ Arranged(s, at, key) = r
      /\ \A m, n \in 1..c : f[m] = f[n] => m = n
      /\ \A i \in at : \E n \in 1..c : f[n] = i
  BY <1>1, <1>2, <1>3 DEF Placing
<1>5. \A i \in at : i \in DOMAIN s /\ s[i] \in S
  OBVIOUS
<1>6. r \in Seq(S) /\ Len(r) = c /\ DOMAIN r = 1..c
  <2>1. \A n \in 1..c : s[f[n]] \in S
    BY <1>4, <1>5
  <2>2. r \in [1..c -> S]
    BY <1>3, <2>1
  <2> QED
    BY <2>2
<1>7. \A n \in 1..c : r[n] = s[f[n]] /\ f[n] \in at
  BY <1>3, <1>4
<1>8. ToSet(r) = {s[i] : i \in at}
  <2>1. ASSUME NEW i \in at
        PROVE  s[i] \in ToSet(r)
    <3>1. PICK n \in 1..c : f[n] = i
      BY <1>4
    <3> QED
      BY <1>6, <1>7, <3>1 DEF ToSet
  <2>2. ASSUME NEW x \in ToSet(r)
        PROVE  x \in {s[i] : i \in at}
    <3>1. PICK n \in 1..c : x = r[n]
      BY <1>6 DEF ToSet
    <3>2. r[n] = s[f[n]] /\ f[n] \in at
      BY <1>7
    <3> QED
      BY <3>1, <3>2
  <2> QED
    BY <2>1, <2>2
<1>9. Distinct(s) => Distinct(r)
  <2>1. SUFFICES ASSUME Distinct(s), NEW m \in 1..c, NEW n \in 1..c, r[m] = r[n]
                 PROVE  m = n
    BY <1>6 DEF Distinct
  <2>2. f[m] \in DOMAIN s /\ f[n] \in DOMAIN s /\ s[f[m]] = s[f[n]]
    BY <1>5, <1>7, <2>1
  <2>3. f[m] = f[n]
    BY <2>1, <2>2 DEF Distinct
  <2> QED
    BY <1>4, <2>3
<1> QED
  BY <1>4, <1>6, <1>8, <1>9

\* Among(): the members of T.
LEMMA AmongFacts ==
  ASSUME NEW s \in Seq(Backends), NEW T
  PROVE  /\ Among(s, T) \in Seq(Backends)
         /\ ToSet(Among(s, T)) = ToSet(s) \intersect T
         /\ Distinct(s) => Distinct(Among(s, T))
<1>1. PICK a, key : a = {i \in DOMAIN s : s[i] \in T} /\ key = [b \in Backends |-> 0]
  OBVIOUS
<1>2. DOMAIN s = 1..Len(s) /\ \A i \in 1..Len(s) : s[i] \in Backends
  OBVIOUS
<1>3. a \in SUBSET (1..Len(s)) /\ \A i \in a : key[s[i]] \in Int
  BY <1>1, <1>2
<1>4. Among(s, T) = Arranged(s, a, key)
  BY <1>1 DEF Among
<1>5. {s[i] : i \in a} = ToSet(s) \intersect T
  BY <1>1 DEF ToSet
<1>6. /\ Arranged(s, a, key) \in Seq(Backends)
      /\ ToSet(Arranged(s, a, key)) = {s[i] : i \in a}
      /\ Distinct(s) => Distinct(Arranged(s, a, key))
  BY <1>3, ArrangedMembers
<1> QED
  BY <1>4, <1>5, <1>6

\* SortedBy(): all of the list, in another order.
LEMMA SortedFacts ==
  ASSUME NEW s \in Seq(Backends), NEW key, \A b \in Backends : key[b] \in Int
  PROVE  /\ SortedBy(s, key) \in Seq(Backends)
         /\ ToSet(SortedBy(s, key)) = ToSet(s)
         /\ Distinct(s) => Distinct(SortedBy(s, key))
<1>1. PICK a : a = DOMAIN s
  OBVIOUS
<1>2. a = 1..Len(s) /\ \A i \in 1..Len(s) : s[i] \in Backends
  BY <1>1
<1>3. a \in SUBSET (1..Len(s)) /\ \A i \in a : key[s[i]] \in Int
  BY <1>2
<1>4. SortedBy(s, key) = Arranged(s, a, key)
  BY <1>1 DEF SortedBy
<1>5. {s[i] : i \in a} = ToSet(s)
  BY <1>1 DEF ToSet
<1>6. /\ Arranged(s, a, key) \in Seq(Backends)
      /\ ToSet(Arranged(s, a, key)) = {s[i] : i \in a}
      /\ Distinct(s) => Distinct(Arranged(s, a, key))
  BY <1>3, ArrangedMembers
<1> QED
  BY <1>4, <1>5, <1>6

\* The parts of a list that names nobody twice.
LEMMA DistinctParts ==
  ASSUME NEW s \in Seq(Backends), NEW t \in Seq(Backends), Distinct(s \o t)
  PROVE  Distinct(s) /\ Distinct(t) /\ ToSet(s) \intersect ToSet(t) = {}
<1>1. PICK u : u = s \o t
  OBVIOUS
<1>2. /\ DOMAIN s = 1..Len(s) /\ DOMAIN t = 1..Len(t) /\ Len(s) \in Nat /\ Len(t) \in Nat
      /\ DOMAIN u = 1..(Len(s) + Len(t))
      /\ \A i \in 1..Len(s) : u[i] = s[i] /\ i \in DOMAIN u
      /\ \A i \in 1..Len(t) : u[Len(s) + i] = t[i] /\ Len(s) + i \in DOMAIN u
  BY <1>1
<1>3. \A i, j \in DOMAIN u : u[i] = u[j] => i = j
  BY <1>1 DEF Distinct
<1>4. Distinct(s)
  BY <1>2, <1>3 DEF Distinct
<1>5. Distinct(t)
  <2>1. SUFFICES ASSUME NEW i \in 1..Len(t), NEW j \in 1..Len(t), t[i] = t[j] PROVE i = j
    BY <1>2 DEF Distinct
  <2>2. Len(s) + i = Len(s) + j
    BY <1>2, <1>3, <2>1
  <2> QED
    BY <1>2, <2>2
<1>6. ASSUME NEW i \in 1..Len(s), NEW j \in 1..Len(t), s[i] = t[j] PROVE FALSE
  <2>1. i = Len(s) + j
    BY <1>2, <1>3, <1>6
  <2> QED
    BY <1>2, <2>1
<1> QED
  BY <1>2, <1>4, <1>5, <1>6 DEF ToSet

\* Two lists one after the other.
LEMMA ConcatFacts ==
  ASSUME NEW s \in Seq(Backends), NEW t \in Seq(Backends)
  PROVE  /\ s \o t \in Seq(Backends)
         /\ ToSet(s \o t) = ToSet(s) \union ToSet(t)
         /\ Distinct(s) /\ Distinct(t) /\ ToSet(s) \intersect ToSet(t) = {} => Distinct(s \o t)
<1>1. PICK u : u = s \o t
  OBVIOUS
<1>2. /\ u \in Seq(Backends) /\ Len(u) = Len(s) + Len(t)
      /\ \A i \in 1..Len(s) : u[i] = s[i]
      /\ \A i \in 1..Len(t) : u[Len(s) + i] = t[i]
  BY <1>1
<1>3. \A i \in 1..Len(u) : i \in 1..Len(s) \/ (i - Len(s) \in 1..Len(t) /\ u[i] = t[i - Len(s)])
  <2>1. SUFFICES ASSUME NEW i \in 1..Len(u), i \notin 1..Len(s)
                 PROVE  i - Len(s) \in 1..Len(t) /\ u[i] = t[i - Len(s)]
    OBVIOUS
  <2>2. i - Len(s) \in 1..Len(t) /\ i = Len(s) + (i - Len(s))
    BY <1>2, <2>1
  <2> QED
    BY <1>2, <2>2
<1>4. DOMAIN u = 1..Len(u) /\ DOMAIN s = 1..Len(s) /\ DOMAIN t = 1..Len(t)
  BY <1>2
<1>5. ToSet(u) = ToSet(s) \union ToSet(t)
  <2>1. ASSUME NEW x \in ToSet(u)
        PROVE  x \in ToSet(s) \union ToSet(t)
    BY <1>2, <1>3, <1>4 DEF ToSet
  <2>2. ASSUME NEW x \in ToSet(s)
        PROVE  x \in ToSet(u)
    <3>1. PICK i \in 1..Len(s) : x = s[i]
      BY <1>4 DEF ToSet
    <3>2. i \in 1..Len(u) /\ u[i] = x
      BY <1>2, <3>1
    <3> QED
      BY <1>4, <3>2 DEF ToSet
  <2>3. ASSUME NEW x \in ToSet(t)
        PROVE  x \in ToSet(u)
    <3>1. PICK i \in 1..Len(t) : x = t[i]
      BY <1>4 DEF ToSet
    <3>2. Len(s) + i \in 1..Len(u) /\ u[Len(s) + i] = x
      BY <1>2, <3>1
    <3> QED
      BY <1>4, <3>2 DEF ToSet
  <2> QED
    BY <2>1, <2>2, <2>3
<1>6. ASSUME Distinct(s), Distinct(t), ToSet(s) \intersect ToSet(t) = {}
      PROVE  Distinct(u)
  <2>1. SUFFICES ASSUME NEW i \in 1..Len(u), NEW j \in 1..Len(u), u[i] = u[j]
                 PROVE  i = j
    BY <1>4 DEF Distinct
  <2>2. CASE i \in 1..Len(s) /\ j \in 1..Len(s)
    BY <1>2, <1>4, <1>6, <2>1, <2>2 DEF Distinct
  <2>3. CASE i \notin 1..Len(s) /\ j \notin 1..Len(s)
    <3>1. /\ i - Len(s) \in 1..Len(t) /\ u[i] = t[i - Len(s)]
          /\ j - Len(s) \in 1..Len(t) /\ u[j] = t[j - Len(s)]
      BY <1>3, <2>3
    <3>2. i - Len(s) = j - Len(s)
      BY <1>4, <1>6, <2>1, <3>1 DEF Distinct
    <3> QED
      BY <3>2
  <2>4. \A k \in 1..Len(s) : u[k] \in ToSet(s)
    BY <1>2, <1>4 DEF ToSet
  <2>5. \A k \in 1..Len(u) : k \notin 1..Len(s) => u[k] \in ToSet(t)
    BY <1>3, <1>4 DEF ToSet
  <2> QED
    BY <1>6, <2>1, <2>2, <2>3, <2>4, <2>5
<1> QED
  BY <1>1, <1>2, <1>5, <1>6

\* g puts the first m of the lists ls one after the other.
Chains(g, ls, m) == g = [i \in 1..m |-> IF i = 1 THEN ls[i] ELSE g[i - 1] \o ls[i]]

\* There is one for every list of lists.
LEMMA ChainExists ==
  ASSUME NEW ls, NEW n \in Nat
  PROVE  \E g : Chains(g, ls, n)
<1> DEFINE E == {m \in 0..n : \E g : Chains(g, ls, m)}
<1>1. 0 \in E
  <2>1. PICK g : g = [i \in 1..0 |-> i]
    OBVIOUS
  <2>2. Chains(g, ls, 0)
    BY <2>1 DEF Chains
  <2> QED
    BY <2>2
<1>2. ASSUME NEW m \in 0..(n - 1), m \in E
      PROVE  m + 1 \in E
  <2>1. PICK g : Chains(g, ls, m)
    BY <1>2
  <2>2. PICK h : h = [i \in 1..(m + 1) |-> IF i <= m THEN g[i]
                                          ELSE IF i = 1 THEN ls[i] ELSE g[i - 1] \o ls[i]]
    OBVIOUS
  <2>3. \A i \in 1..m : h[i] = g[i]
    BY <2>2
  <2>4. \A i \in 1..m : g[i] = IF i = 1 THEN ls[i] ELSE g[i - 1] \o ls[i]
    BY <2>1 DEF Chains
  <2>5. ASSUME NEW i \in 1..(m + 1)
        PROVE  h[i] = IF i = 1 THEN ls[i] ELSE h[i - 1] \o ls[i]
    <3>1. CASE i = 1
      BY <2>2, <2>4, <3>1
    <3>2. CASE i # 1 /\ i <= m
      <4>1. i - 1 \in 1..m /\ i \in 1..m
        BY <3>2
      <4> QED
        BY <2>3, <2>4, <3>2, <4>1
    <3>3. CASE i # 1 /\ ~(i <= m)
      <4>1. i - 1 \in 1..m
        BY <3>3
      <4> QED
        BY <2>2, <2>3, <3>3, <4>1
    <3> QED
      BY <3>1, <3>2, <3>3
  <2>6. Chains(h, ls, m + 1)
    BY <2>2, <2>5 DEF Chains
  <2> QED
    BY <2>6
<1> HIDE DEF E
<1>3. E = 0..n
  <2>1. E \in SUBSET (0..n)
    BY DEF E
  <2> QED
    BY <1>1, <1>2, <2>1, Upto
<1> QED
  BY <1>3 DEF E

\* FlattenSeq(): the lists one after the other.
LEMMA FlattenFacts ==
  ASSUME NEW ls \in Seq(Seq(Backends))
  PROVE  /\ FlattenSeq(ls) \in Seq(Backends)
         /\ ToSet(FlattenSeq(ls)) = UNION {ToSet(ls[i]) : i \in 1..Len(ls)}
         /\ /\ \A i \in 1..Len(ls) : Distinct(ls[i])
            /\ \A i, j \in 1..Len(ls) : i # j => ToSet(ls[i]) \intersect ToSet(ls[j]) = {}
            => Distinct(FlattenSeq(ls))
<1> DEFINE n == Len(ls)
           Apart == /\ \A i \in 1..n : Distinct(ls[i])
                    /\ \A i, j \in 1..n : i # j => ToSet(ls[i]) \intersect ToSet(ls[j]) = {}
<1>0. n \in Nat /\ \A i \in 1..n : ls[i] \in Seq(Backends)
  OBVIOUS
<1>1. CASE n = 0
  <2>1. FlattenSeq(ls) = ls /\ ls = <<>>
    BY <1>1 DEF FlattenSeq
  <2>2. ToSet(ls) = {} /\ Distinct(ls)
    BY <2>1 DEF ToSet, Distinct
  <2> QED
    BY <1>1, <2>1, <2>2
<1>2. CASE n # 0
  <2>1. PICK g : Chains(g, ls, n) /\ FlattenSeq(ls) = g[n]
    <3>1. PICK g : g = CHOOSE h : Chains(h, ls, n)
      OBVIOUS
    <3>2. Chains(g, ls, n)
      BY <1>0, <3>1, ChainExists
    <3>3. FlattenSeq(ls) = g[n]
      BY <1>2, <3>1 DEF FlattenSeq, Chains
    <3> QED
      BY <3>2, <3>3
  <2> DEFINE P(m) == /\ g[m] \in Seq(Backends)
                     /\ ToSet(g[m]) = UNION {ToSet(ls[i]) : i \in 1..m}
                     /\ Apart => Distinct(g[m])
             E == {m \in 0..n : m = 0 \/ P(m)}
  <2>2. \A i \in 1..n : g[i] = IF i = 1 THEN ls[i] ELSE g[i - 1] \o ls[i]
    BY <2>1 DEF Chains
  <2>3. ASSUME NEW m \in 0..(n - 1), m \in E
        PROVE  m + 1 \in E
    <3>0. m + 1 \in 1..n /\ ls[m + 1] \in Seq(Backends)
      BY <1>0
    <3>1. CASE m = 0
      <4>0. m + 1 = 1 /\ 1 \in 1..n
        <5>1. m + 1 = 1
          BY <3>1
        <5> QED
          BY <3>0, <5>1
      <4>1. g[1] = ls[1]
        BY <2>2, <4>0
      <4>2. UNION {ToSet(ls[i]) : i \in 1..1} = ToSet(ls[1])
        OBVIOUS
      <4>3. P(1)
        BY <3>0, <4>0, <4>1, <4>2
      <4> HIDE DEF P
      <4> QED
        BY <3>0, <4>0, <4>3
    <3>2. CASE m # 0
      <4>1. g[m + 1] = g[m] \o ls[m + 1] /\ P(m)
        <5>1. m + 1 # 1 /\ (m + 1) - 1 = m
          BY <3>2
        <5> QED
          BY <2>2, <2>3, <3>0, <3>2, <5>1
      <4>2. UNION {ToSet(ls[i]) : i \in 1..(m + 1)}
              = (UNION {ToSet(ls[i]) : i \in 1..m}) \union ToSet(ls[m + 1])
        <5>1. 1..(m + 1) = (1..m) \union {m + 1}
          OBVIOUS
        <5> QED
          BY <5>1
      <4>3. ASSUME Apart
            PROVE  ToSet(g[m]) \intersect ToSet(ls[m + 1]) = {} /\ Distinct(ls[m + 1])
        <5>1. \A i \in 1..m : i \in 1..n /\ i # m + 1
          BY <3>0
        <5>2. \A i \in 1..m : ToSet(ls[i]) \intersect ToSet(ls[m + 1]) = {}
          BY <3>0, <4>3, <5>1
        <5> QED
          BY <3>0, <4>1, <4>3, <5>2
      <4> HIDE DEF Apart
      <4>4. P(m + 1)
        <5>1. /\ g[m] \o ls[m + 1] \in Seq(Backends)
              /\ ToSet(g[m] \o ls[m + 1]) = ToSet(g[m]) \union ToSet(ls[m + 1])
              /\ Apart => Distinct(g[m] \o ls[m + 1])
          BY <3>0, <4>1, <4>3, ConcatFacts
        <5> QED
          BY <4>1, <4>2, <5>1
      <4> HIDE DEF P
      <4> QED
        BY <3>0, <4>4
    <3> QED
      BY <3>1, <3>2
  <2>4. 0 \in E /\ E \in SUBSET (0..n)
    BY <1>0
  <2> HIDE DEF E
  <2>5. E = 0..n
    BY <1>0, <2>3, <2>4, Upto
  <2>6. n \in E
    BY <1>0, <2>5
  <2>7. P(n)
    BY <1>2, <2>6 DEF E
  <2> QED
    BY <2>1, <2>7
<1> QED
  BY <1>1, <1>2

\* A provider's last place in `order' exists.
LEMMA LastExists ==
  ASSUME NEW n \in Nat, NEW at \in SUBSET (1..n), at # {}
  PROVE  \E i \in at : \A j \in at : j <= i
<1>1. PICK s, key : s = [i \in 1..n |-> i] /\ key = [i \in 1..n |-> 0]
  OBVIOUS
<1>2. s \in Seq(Int) /\ Len(s) = n /\ \A i \in at : key[s[i]] = 0
  BY <1>1
<1>3. PICK f : Placing(f, s, at, key)
  <2>1. at \in SUBSET (1..Len(s)) /\ \A i \in at : key[s[i]] \in Int
    BY <1>2
  <2> QED
    BY <1>2, <2>1, ArrangedFacts
<1>4. PICK c \in Nat : c = Cardinality(at)
  BY <1>3 DEF Placing
<1>5. /\ f \in [1..c -> at]
      /\ \A i \in at : \E k \in 1..c : f[k] = i
      /\ \A k, m \in 1..c : k < m => key[s[f[k]]] < key[s[f[m]]] \/ f[k] < f[m]
  BY <1>3, <1>4 DEF Placing
<1>6. c \in 1..c /\ \A i \in at : i \in Int
  <2>1. PICK i \in at : TRUE
    OBVIOUS
  <2>2. PICK k \in 1..c : f[k] = i
    BY <1>5
  <2> QED
    BY <2>2
<1>7. \A k \in 1..c : f[k] <= f[c]
  <2>1. SUFFICES ASSUME NEW k \in 1..c
                 PROVE  f[k] <= f[c]
    OBVIOUS
  <2>2. f[k] \in at /\ f[c] \in at /\ f[k] \in Int /\ f[c] \in Int
    BY <1>5, <1>6
  <2>3. CASE k = c
    BY <2>2, <2>3
  <2>4. CASE k < c
    <3>1. key[s[f[k]]] = 0 /\ key[s[f[c]]] = 0
      BY <1>2, <2>2
    <3>2. f[k] < f[c]
      BY <1>5, <1>6, <2>4, <3>1
    <3> QED
      BY <2>2, <3>2
  <2> QED
    BY <2>3, <2>4
<1> QED
  BY <1>5, <1>6, <1>7

-----------------------------------------------------------------------------
(* The candidates.                                                           *)

\* What the selection works on is a configuration, and lists of backends.
Typed ==
  /\ setup \in Setups /\ limited \in SUBSET Backends
  /\ load \in [Backends -> Nat] /\ rotation \in 0..(RotationModulus - 1)
  /\ warmth \in [Backends -> [known : BOOLEAN, left : 0..TTL, hit : BOOLEAN]]
  /\ stage \in {"idle", "only", "only2", "tiers", "tiers2", "preferred", "emit", "done"}
  /\ avail \in SUBSET Backends /\ held \in SUBSET Backends
  /\ flat \in SUBSET Backends /\ freed \in SUBSET Backends
  /\ out \in Seq(Backends) /\ req.order \in Seq(ToSet(req.order))

\* The config names each backend once.
LEMMA ListedOnce ==
  Listed \in Seq(Backends) /\ Distinct(Listed) /\ ToSet(Listed) = Backends
  BY SetupsAssumption DEF Distinct, Backends

\* Tiers, weights and measured scores are numbers.
LEMMA FactsAreNumbers ==
  ASSUME setup \in Setups
  PROVE  /\ \A b \in Backends : Tier[b] \in Nat /\ Fact(b).score \in Nat
         /\ setup.spill \in Nat
  BY SetupsAssumption DEF Tier, Fact

\* The eligible backends, each once.
LEMMA EligibleFacts ==
  ASSUME NEW q
  PROVE  Eligible(q) \in Seq(Backends) /\ Distinct(Eligible(q))
  BY ListedOnce, AmongFacts DEF Eligible

\* `order' picks its backends from the eligible ones, and none of them twice
\* unless it names a provider twice.
LEMMA PreferredFacts ==
  ASSUME setup \in Setups, NEW q, q.order \in Seq(ToSet(q.order))
  PROVE  /\ Preferred(q) \in Seq(Backends)
         /\ ToSet(Preferred(q)) \subseteq ToSet(Eligible(q))
         /\ Once(q.order) => Distinct(Preferred(q))
<1>1. PICK s : s = SortedBy(Eligible(q), Tier)
  OBVIOUS
<1>2. s \in Seq(Backends) /\ ToSet(s) = ToSet(Eligible(q)) /\ Distinct(s)
  <2>1. \A b \in Backends : Tier[b] \in Int
    BY FactsAreNumbers
  <2> QED
    BY <1>1, <2>1, EligibleFacts, SortedFacts
<1>3. PICK n \in Nat : n = Len(q.order)
  OBVIOUS
<1>4. PICK of : of = [i \in 1..n |-> {b \in Backends : Provider[b] = q.order[i]}]
  OBVIOUS
<1>5. PICK ls : ls = [i \in 1..n |-> Among(s, of[i])]
  OBVIOUS
<1>6. \A i \in 1..n : /\ ls[i] \in Seq(Backends)
                      /\ ToSet(ls[i]) = ToSet(s) \intersect of[i]
                      /\ Distinct(ls[i])
  BY <1>2, <1>5, AmongFacts
<1>7. ls \in Seq(Seq(Backends)) /\ Len(ls) = n
  <2>1. ls \in [1..n -> Seq(Backends)]
    BY <1>5, <1>6
  <2> QED
    BY <2>1
<1>8. Preferred(q) = FlattenSeq(ls)
  <2>1. ls = [i \in 1..Len(q.order) |-> Among(s, {b \in Backends : Provider[b] = q.order[i]})]
    BY <1>3, <1>4, <1>5
  <2> QED
    BY <1>1, <2>1 DEF Preferred
<1>9. ASSUME Once(q.order)
      PROVE  \A i, j \in 1..n : i # j => ToSet(ls[i]) \intersect ToSet(ls[j]) = {}
  <2>1. \A i, j \in 1..n : i # j => of[i] \intersect of[j] = {}
    BY <1>3, <1>4, <1>9 DEF Once
  <2> QED
    BY <1>6, <2>1
<1>10. /\ FlattenSeq(ls) \in Seq(Backends)
       /\ ToSet(FlattenSeq(ls)) = UNION {ToSet(ls[i]) : i \in 1..n}
       /\ Once(q.order) => Distinct(FlattenSeq(ls))
  BY <1>6, <1>7, <1>9, FlattenFacts
<1>11. UNION {ToSet(ls[i]) : i \in 1..n} \subseteq ToSet(Eligible(q))
  BY <1>2, <1>6
<1> QED
  BY <1>8, <1>10, <1>11

\* The tiers have the others; with affinity they have everybody.
LEMMA TieredFacts ==
  ASSUME setup \in Setups, NEW q, q.order \in Seq(ToSet(q.order))
  PROVE  /\ Tiered(q) \in Seq(Backends) /\ Distinct(Tiered(q))
         /\ ByAffinity(q) => ToSet(Tiered(q)) = ToSet(Eligible(q))
         /\ ~ByAffinity(q) => ToSet(Tiered(q)) = ToSet(Eligible(q)) \ ToSet(Preferred(q))
<1>1. /\ Among(Eligible(q), Backends \ ToSet(Preferred(q))) \in Seq(Backends)
      /\ ToSet(Among(Eligible(q), Backends \ ToSet(Preferred(q))))
           = ToSet(Eligible(q)) \intersect (Backends \ ToSet(Preferred(q)))
      /\ Distinct(Among(Eligible(q), Backends \ ToSet(Preferred(q))))
  BY EligibleFacts, AmongFacts
<1>2. ToSet(Eligible(q)) \subseteq Backends
  BY EligibleFacts DEF ToSet
<1>3. ToSet(Eligible(q)) \intersect (Backends \ ToSet(Preferred(q)))
        = ToSet(Eligible(q)) \ ToSet(Preferred(q))
  BY <1>2
<1> QED
  BY <1>1, <1>3, EligibleFacts DEF Tiered

\* A sort loses nobody.
LEMMA SortFacts ==
  ASSUME setup \in Setups, NEW q, NEW s \in Seq(Backends)
  PROVE  /\ Sort(q, s) \in Seq(Backends) /\ ToSet(Sort(q, s)) = ToSet(s)
         /\ Distinct(s) => Distinct(Sort(q, s))
<1>1. PICK key : key = [b \in Backends |-> SortKey(q, b)]
  OBVIOUS
<1>2. \A b \in Backends : key[b] \in Int
  BY <1>1, FactsAreNumbers DEF SortKey, NoLimit
<1>3. /\ SortedBy(s, key) \in Seq(Backends) /\ ToSet(SortedBy(s, key)) = ToSet(s)
      /\ Distinct(s) => Distinct(SortedBy(s, key))
  BY <1>2, SortedFacts
<1> QED
  BY <1>1, <1>3 DEF Sort

\* Breaking ties loses nobody.
LEMMA TieBreakFacts ==
  ASSUME NEW q, q.order \in Seq(ToSet(q.order)), NEW s \in Seq(Backends)
  PROVE  /\ TieBreak(q, s) \in Seq(Backends) /\ ToSet(TieBreak(q, s)) = ToSet(s)
         /\ Distinct(s) => Distinct(TieBreak(q, s))
<1>1. PICK key : key = [b \in Backends |-> Rank(q, b)]
  OBVIOUS
<1>2. ASSUME NEW b \in Backends
      PROVE  Rank(q, b) \in Int
  <2>1. PICK n \in Nat : n = Len(q.order)
    OBVIOUS
  <2>2. PICK at \in SUBSET (1..n) : at = {i \in 1..Len(q.order) : q.order[i] = Provider[b]}
    BY <2>1
  <2>3. Rank(q, b) = IF at = {} THEN n + 1 ELSE CHOOSE i \in at : \A j \in at : j <= i
    BY <2>1, <2>2 DEF Rank
  <2>4. at # {} => (CHOOSE i \in at : \A j \in at : j <= i) \in at
    BY LastExists
  <2>5. \A i \in at : i \in Int
    OBVIOUS
  <2>6. CASE at = {}
    BY <2>3, <2>6
  <2>7. CASE at # {}
    BY <2>3, <2>4, <2>5, <2>7
  <2> QED
    BY <2>6, <2>7
<1>3. \A b \in Backends : key[b] \in Int
  BY <1>1, <1>2
<1> QED
  BY <1>1, <1>3, SortedFacts DEF TieBreak

\* Four lists that part s by the bands.
FourBands(w, x, y, z, s) ==
  /\ w \in Seq(Backends) /\ x \in Seq(Backends) /\ y \in Seq(Backends) /\ z \in Seq(Backends)
  /\ ToSet(w) = {b \in ToSet(s) : Band(b) = 1}
  /\ ToSet(x) = {b \in ToSet(s) : Band(b) = 2}
  /\ ToSet(y) = {b \in ToSet(s) : Band(b) = 3}
  /\ ToSet(z) = {b \in ToSet(s) : Band(b) = 4}
  /\ Distinct(s) => Distinct(w) /\ Distinct(x) /\ Distinct(y) /\ Distinct(z)

\* The four bands, which part the candidates.
LEMMA BandsFacts ==
  ASSUME Typed, NEW q, q.order \in Seq(ToSet(q.order)), NEW s \in Seq(Backends)
  PROVE  \E w, x, y, z : FourBands(w, x, y, z, s) /\ Bands(q, s) = ((w \o x) \o y) \o z
<1>1. PICK warm, idle, over : /\ warm = {b \in Backends : Warm(b)}
                              /\ idle = {b \in Backends : load[b] = 0}
                              /\ over = {b \in Backends : load[b] >= setup.spill}
  OBVIOUS
<1> DEFINE busy(S) == TieBreak(q, SortedBy(Among(s, S \ idle), load))
<1>2. ASSUME NEW S
      PROVE  /\ TieBreak(q, Among(s, S)) \in Seq(Backends)
             /\ ToSet(TieBreak(q, Among(s, S))) = ToSet(s) \intersect S
             /\ Distinct(s) => Distinct(TieBreak(q, Among(s, S)))
  BY AmongFacts, TieBreakFacts
<1>3. ASSUME NEW S
      PROVE  /\ busy(S) \in Seq(Backends)
             /\ ToSet(busy(S)) = ToSet(s) \intersect (S \ idle)
             /\ Distinct(s) => Distinct(busy(S))
  <2>1. PICK a : a = Among(s, S \ idle)
    OBVIOUS
  <2>2. /\ a \in Seq(Backends) /\ ToSet(a) = ToSet(s) \intersect (S \ idle)
        /\ Distinct(s) => Distinct(a)
    BY <2>1, AmongFacts
  <2>3. \A b \in Backends : load[b] \in Int
    BY DEF Typed
  <2>4. /\ SortedBy(a, load) \in Seq(Backends) /\ ToSet(SortedBy(a, load)) = ToSet(a)
        /\ Distinct(a) => Distinct(SortedBy(a, load))
    BY <2>2, <2>3, SortedFacts
  <2>5. /\ TieBreak(q, SortedBy(a, load)) \in Seq(Backends)
        /\ ToSet(TieBreak(q, SortedBy(a, load))) = ToSet(a)
        /\ Distinct(a) => Distinct(TieBreak(q, SortedBy(a, load)))
    BY <2>4, TieBreakFacts
  <2> QED
    BY <2>1, <2>2, <2>5
<1>4. PICK bw, bc : bw = busy(warm) /\ bc = busy(Backends \ warm)
  OBVIOUS
<1>5. /\ bw \in Seq(Backends) /\ ToSet(bw) = ToSet(s) \intersect (warm \ idle)
      /\ Distinct(s) => Distinct(bw)
      /\ bc \in Seq(Backends) /\ ToSet(bc) = ToSet(s) \intersect ((Backends \ warm) \ idle)
      /\ Distinct(s) => Distinct(bc)
  BY <1>3, <1>4
<1> HIDE DEF busy
<1>6. PICK w, x, y, v, z : /\ w = TieBreak(q, Among(s, warm \intersect idle))
                           /\ x = Among(bw, Backends \ over)
                           /\ y = TieBreak(q, Among(s, idle \ warm))
                           /\ v = Among(bw, over) \o bc
                           /\ z = TieBreak(q, v)
  OBVIOUS
<1>7. /\ w \in Seq(Backends) /\ ToSet(w) = ToSet(s) \intersect (warm \intersect idle)
      /\ y \in Seq(Backends) /\ ToSet(y) = ToSet(s) \intersect (idle \ warm)
      /\ Distinct(s) => Distinct(w) /\ Distinct(y)
  BY <1>2, <1>6
<1>8. /\ x \in Seq(Backends) /\ ToSet(x) = ToSet(bw) \intersect (Backends \ over)
      /\ Distinct(s) => Distinct(x)
  BY <1>5, <1>6, AmongFacts
<1>9. /\ Among(bw, over) \in Seq(Backends) /\ ToSet(Among(bw, over)) = ToSet(bw) \intersect over
      /\ Distinct(s) => Distinct(Among(bw, over))
  BY <1>5, AmongFacts
<1>10. ToSet(Among(bw, over)) \intersect ToSet(bc) = {}
  BY <1>5, <1>9
<1>11. /\ v \in Seq(Backends) /\ ToSet(v) = ToSet(Among(bw, over)) \union ToSet(bc)
       /\ Distinct(s) => Distinct(v)
  BY <1>5, <1>6, <1>9, <1>10, ConcatFacts
<1>12. /\ z \in Seq(Backends) /\ ToSet(z) = ToSet(v)
       /\ Distinct(s) => Distinct(z)
  BY <1>6, <1>11, TieBreakFacts
<1>13. Bands(q, s) = ((w \o x) \o y) \o z
  BY <1>1, <1>4, <1>6 DEF Bands, busy
<1>14. \A b \in ToSet(s) : b \in Backends /\ load[b] \in Nat /\ setup.spill \in Nat
  BY FactsAreNumbers DEF Typed, ToSet
<1>15. \A b \in ToSet(s) : /\ b \in warm <=> Warm(b)
                           /\ b \in idle <=> load[b] = 0
                           /\ b \in over <=> ~(load[b] < setup.spill)
  BY <1>1, <1>14
<1>16. \A b \in ToSet(s) :
         /\ Band(b) = 1 <=> b \in warm /\ b \in idle
         /\ Band(b) = 2 <=> b \in warm /\ b \notin idle /\ b \notin over
         /\ Band(b) = 3 <=> b \notin warm /\ b \in idle
         /\ Band(b) = 4 <=> b \notin idle /\ (b \in over \/ b \notin warm)
  BY <1>14, <1>15 DEF Band
<1>17. ToSet(w) = {b \in ToSet(s) : Band(b) = 1} /\ ToSet(y) = {b \in ToSet(s) : Band(b) = 3}
  BY <1>7, <1>16
<1>18. ToSet(x) = {b \in ToSet(s) : Band(b) = 2}
  BY <1>5, <1>8, <1>14, <1>16
<1>19. ToSet(z) = {b \in ToSet(s) : Band(b) = 4}
  <2>1. ToSet(z) = (ToSet(bw) \intersect over) \union ToSet(bc)
    BY <1>9, <1>11, <1>12
  <2>2. \A b \in ToSet(z) : b \in ToSet(s)
    BY <1>5, <2>1
  <2>3. \A b \in ToSet(s) : b \in ToSet(z) <=> b \notin idle /\ (b \in over \/ b \notin warm)
    BY <1>5, <1>14, <2>1
  <2> QED
    BY <1>16, <2>2, <2>3
<1>20. FourBands(w, x, y, z, s)
  BY <1>7, <1>8, <1>12, <1>17, <1>18, <1>19 DEF FourBands
<1> QED
  BY <1>13, <1>20

\* While the configuration stays, a request keeps its candidates.
LEMMA SameLists ==
  ASSUME setup' = setup, NEW q, req' = q
  PROVE  /\ Eligible(req)' = Eligible(q) /\ Preferred(req)' = Preferred(q)
         /\ Tiered(req)' = Tiered(q) /\ OnlyPreferred(req)' = OnlyPreferred(q)
         /\ ByAffinity(req)' = ByAffinity(q)
<1>1. Eligible(req)' = Eligible(q)
  BY DEF Eligible, Fits, Fact
<1>2. Preferred(req)' = Preferred(q)
  BY <1>1 DEF Preferred, Tier, Fact
<1>3. ByAffinity(req)' = ByAffinity(q)
  BY DEF ByAffinity
<1> QED
  BY <1>1, <1>2, <1>3 DEF Tiered, OnlyPreferred

-----------------------------------------------------------------------------
(* The list that is made.                                                    *)

\* The members of a list are finitely many.
LEMMA MembersFinite ==
  ASSUME NEW s \in Seq(Backends)
  PROVE  IsFiniteSet(ToSet(s))
<1>1. PICK n \in Nat : n = Len(s) /\ DOMAIN s = 1..n
  OBVIOUS
<1>2. PICK T : T = ToSet(s)
  OBVIOUS
<1>3. s \in Surjection(1..n, T)
  <2>1. s \in [1..n -> T] /\ \A x \in T : \E i \in 1..n : s[i] = x
    BY <1>1, <1>2 DEF ToSet
  <2> QED
    BY <2>1 DEF Surjection
<1>4. IsFiniteSet(1..n)
  BY PositionsCount
<1> QED
  BY <1>2, <1>3, <1>4, FS_Surjection

\* A finite set in a row.
LEMMA RowFacts ==
  ASSUME NEW S \in SUBSET Backends, NEW l \in SetToSeqs(S)
  PROVE  l \in Seq(Backends) /\ ToSet(l) = S /\ Distinct(l)
<1>1. IsFiniteSet(Backends)
  BY ListedOnce, MembersFinite
<1>2. PICK n \in Nat : n = Cardinality(S) /\ IsFiniteSet(S)
  BY <1>1, FS_Subset, FS_CardinalityType
<1>3. l \in [1..n -> S] /\ \A i, j \in 1..n : i # j => l[i] # l[j]
  BY <1>2 DEF SetToSeqs
<1>4. l \in Injection(1..n, S)
  BY <1>3 DEF Injection, IsInjective
<1>5. l \in Surjection(1..n, S)
  BY <1>2, <1>4, PositionsCount, FS_Injection
<1>6. ToSet(l) = S
  BY <1>3, <1>5 DEF Surjection, ToSet
<1>7. l \in [1..n -> Backends]
  BY <1>3
<1> QED
  BY <1>3, <1>6, <1>7 DEF Distinct

\* A line-up is all of its candidates.
LEMMA LineUpFacts ==
  ASSUME NEW q, NEW s \in Seq(Backends), NEW place, NEW l \in LineUps(q, s, place)
  PROVE  l \in Seq(Backends) /\ ToSet(l) = ToSet(s) /\ Distinct(l)
<1>1. l \in SetToSeqs(ToSet(s))
  BY DEF LineUps
<1>2. ToSet(s) \in SUBSET Backends
  BY DEF ToSet
<1> QED
  BY <1>1, <1>2, RowFacts

\* The held ones, a list of their own.
LEMMA HeldFacts ==
  ASSUME Typed, NEW S
  PROVE  /\ HeldByTier(S) \in Seq(Backends) /\ Distinct(HeldByTier(S))
         /\ ToSet(HeldByTier(S)) = ToSet(Tiered(req)) \intersect S
<1>1. setup \in Setups /\ req.order \in Seq(ToSet(req.order))
  BY DEF Typed
<1>2. Tiered(req) \in Seq(Backends) /\ Distinct(Tiered(req))
  BY <1>1, TieredFacts
<1>3. PICK a : a = Among(Tiered(req), S)
  OBVIOUS
<1>4. a \in Seq(Backends) /\ Distinct(a) /\ ToSet(a) = ToSet(Tiered(req)) \intersect S
  BY <1>2, <1>3, AmongFacts
<1>5. PICK t : t = Sort(req, a)
  OBVIOUS
<1>6. t \in Seq(Backends) /\ Distinct(t) /\ ToSet(t) = ToSet(a)
  BY <1>1, <1>4, <1>5, SortFacts
<1>7. \A b \in Backends : Tier[b] \in Int
  BY <1>1, FactsAreNumbers
<1>8. /\ SortedBy(t, Tier) \in Seq(Backends) /\ Distinct(SortedBy(t, Tier))
      /\ ToSet(SortedBy(t, Tier)) = ToSet(t)
  BY <1>6, <1>7, SortedFacts
<1> QED
  BY <1>3, <1>4, <1>5, <1>6, <1>8 DEF HeldByTier

\* b comes before every c of the list.
Leads(l, b, c) == \A j \in DOMAIN l : l[j] = c => \E i \in 1..(j - 1) : l[i] = b

\* Who leads in a list leads however it goes on.
LEMMA LeadsOn ==
  ASSUME NEW s \in Seq(Backends), NEW t \in Seq(Backends), NEW b \in ToSet(s), NEW c,
         Leads(s, b, c) \/ c \notin ToSet(s)
  PROVE  Leads(s \o t, b, c) /\ b \in ToSet(s \o t)
<1>1. PICK u : u = s \o t
  OBVIOUS
<1>2. /\ u \in Seq(Backends) /\ Len(u) = Len(s) + Len(t)
      /\ DOMAIN u = 1..Len(u) /\ DOMAIN s = 1..Len(s)
      /\ \A i \in 1..Len(s) : u[i] = s[i]
  BY <1>1
<1>3. PICK k \in 1..Len(s) : s[k] = b
  BY <1>2 DEF ToSet
<1>4. ASSUME NEW j \in 1..Len(u), u[j] = c
      PROVE  \E i \in 1..(j - 1) : u[i] = b
  <2>1. CASE j \in 1..Len(s)
    <3>1. s[j] = c /\ c \in ToSet(s)
      BY <1>2, <1>4, <2>1 DEF ToSet
    <3>2. PICK i \in 1..(j - 1) : s[i] = b
      BY <1>2, <2>1, <3>1 DEF Leads
    <3>3. i \in 1..Len(s)
      BY <2>1
    <3> QED
      BY <1>2, <3>2, <3>3
  <2>2. CASE j \notin 1..Len(s)
    <3>1. k \in 1..(j - 1)
      BY <2>2
    <3> QED
      BY <1>2, <1>3, <3>1
  <2> QED
    BY <2>1, <2>2
<1>5. k \in 1..Len(u) /\ u[k] = b
  BY <1>2, <1>3
<1> QED
  BY <1>1, <1>2, <1>4, <1>5 DEF Leads, ToSet

\* A list that names nobody twice is as long as the set it names.
LEMMA DistinctCount ==
  ASSUME NEW s \in Seq(Backends), Distinct(s)
  PROVE  Cardinality(ToSet(s)) = Len(s)
<1>1. PICK n \in Nat : n = Len(s) /\ DOMAIN s = 1..n
  OBVIOUS
<1>2. s \in Injection(1..n, ToSet(s))
  <2>1. s \in [1..n -> ToSet(s)]
    BY <1>1 DEF ToSet
  <2> QED
    BY <1>1, <2>1 DEF Injection, IsInjective, Distinct
<1>3. s \in Surjection(1..n, ToSet(s))
  BY <1>1, <1>2 DEF Injection, Surjection, ToSet
<1>4. IsFiniteSet(ToSet(s))
  BY MembersFinite
<1>5. Cardinality(1..n) = Cardinality(ToSet(s))
  BY <1>2, <1>3, <1>4, FS_Injection
<1> QED
  BY <1>1, <1>5, PositionsCount

\* The bands have everybody once more.
LEMMA BandsSame ==
  ASSUME Typed, NEW s \in Seq(Backends)
  PROVE  /\ Bands(req, s) \in Seq(Backends) /\ ToSet(Bands(req, s)) = ToSet(s)
         /\ Distinct(s) => Distinct(Bands(req, s))
<1>1. PICK w, x, y, z : FourBands(w, x, y, z, s) /\ Bands(req, s) = ((w \o x) \o y) \o z
  BY BandsFacts DEF Typed
<1>2. \A b \in ToSet(s) : Band(b) \in 1..4
  BY DEF Band
<1>3. PICK u : u = w \o x
  OBVIOUS
<1>4. PICK v : v = u \o y
  OBVIOUS
<1>5. /\ w \in Seq(Backends) /\ x \in Seq(Backends) /\ y \in Seq(Backends) /\ z \in Seq(Backends)
      /\ ToSet(w) \intersect ToSet(x) = {}
      /\ (ToSet(w) \union ToSet(x)) \intersect ToSet(y) = {}
      /\ (ToSet(w) \union ToSet(x) \union ToSet(y)) \intersect ToSet(z) = {}
      /\ Distinct(s) => Distinct(w) /\ Distinct(x) /\ Distinct(y) /\ Distinct(z)
      /\ ToSet(w) \union ToSet(x) \union ToSet(y) \union ToSet(z) = ToSet(s)
  BY <1>1, <1>2 DEF FourBands
<1>6. /\ u \in Seq(Backends) /\ ToSet(u) = ToSet(w) \union ToSet(x)
      /\ Distinct(s) => Distinct(u)
  BY <1>3, <1>5, ConcatFacts
<1>7. /\ v \in Seq(Backends) /\ ToSet(v) = ToSet(w) \union ToSet(x) \union ToSet(y)
      /\ Distinct(s) => Distinct(v)
  BY <1>4, <1>5, <1>6, ConcatFacts
<1>8. /\ v \o z \in Seq(Backends) /\ ToSet(v \o z) = ToSet(s)
      /\ Distinct(s) => Distinct(v \o z)
  BY <1>5, <1>7, ConcatFacts
<1> QED
  BY <1>1, <1>3, <1>4, <1>8

\* A backend of a lower band comes before every one of a higher band.
LEMMA BandsLead ==
  ASSUME Typed, NEW s \in Seq(Backends), NEW b \in ToSet(s), NEW c \in ToSet(s),
         Band(b) < Band(c)
  PROVE  Leads(Bands(req, s), b, c)
<1>1. PICK w, x, y, z : FourBands(w, x, y, z, s) /\ Bands(req, s) = ((w \o x) \o y) \o z
  BY BandsFacts DEF Typed
<1>2. Band(b) \in 1..4 /\ Band(c) \in 1..4
  BY DEF Band
<1>3. /\ w \in Seq(Backends) /\ x \in Seq(Backends) /\ y \in Seq(Backends) /\ z \in Seq(Backends)
      /\ b \in ToSet(w) <=> Band(b) = 1
      /\ c \in ToSet(w) <=> Band(c) = 1
      /\ b \in ToSet(x) <=> Band(b) = 2
      /\ c \in ToSet(x) <=> Band(c) = 2
      /\ b \in ToSet(y) <=> Band(b) = 3
      /\ c \in ToSet(y) <=> Band(c) = 3
  BY <1>1 DEF FourBands
<1>4. PICK u : u = w \o x
  OBVIOUS
<1>5. PICK v : v = u \o y
  OBVIOUS
<1>6. u \in Seq(Backends) /\ ToSet(u) = ToSet(w) \union ToSet(x)
  BY <1>3, <1>4, ConcatFacts
<1>7. v \in Seq(Backends) /\ ToSet(v) = ToSet(u) \union ToSet(y)
  BY <1>3, <1>5, <1>6, ConcatFacts
<1>8. Band(b) = 1 => b \in ToSet(u) /\ Leads(u, b, c)
  BY <1>2, <1>3, <1>4, LeadsOn
<1>9. Band(b) \in {1, 2} => b \in ToSet(v) /\ Leads(v, b, c)
  <2>1. Band(b) \in {1, 2} => b \in ToSet(u) /\ (Leads(u, b, c) \/ c \notin ToSet(u))
    BY <1>2, <1>3, <1>6, <1>8
  <2> QED
    BY <1>3, <1>5, <1>6, <2>1, LeadsOn
<1>10. b \in ToSet(v) /\ (Leads(v, b, c) \/ c \notin ToSet(v))
  BY <1>2, <1>3, <1>6, <1>7, <1>9
<1>11. Leads(v \o z, b, c)
  BY <1>3, <1>7, <1>10, LeadsOn
<1> QED
  BY <1>1, <1>4, <1>5, <1>11

\* What the fallback loops take for granted (Orders of Failover): the list is the
\* routable candidates in some order, then the excluded ones in some order.  The
\* clock makes a difference only to those whose exclusion ended while the list was
\* being made, which may be in either part of it, or in none.
ListIsAnOrder ==
  stage = "done" /\ Once(req.order) =>
    \E good \in SUBSET (Candidates \ limited), lost \in SUBSET freed :
      /\ Candidates \ (limited \union freed) \subseteq good
      /\ out \in Deferring(good, Candidates \ (good \union lost))

\* x has routable backends, y backends that were not, and together they have
\* the candidates, but for some whose exclusion ended.
Sound(x, y) ==
  /\ x \in Seq(Backends) /\ y \in Seq(Backends)
  /\ ToSet(x) \intersect limited = {} /\ ToSet(y) \subseteq limited \union freed
  /\ ToSet(x) \union ToSet(y) \subseteq Candidates
  /\ Candidates \ (ToSet(x) \union ToSet(y)) \subseteq freed
  /\ Once(req.order) => Distinct(x \o y)

\* A list that names nobody twice is one way to put its members in a row.
LEMMA InARow ==
  ASSUME NEW s \in Seq(Backends), Distinct(s)
  PROVE  s \in SetToSeqs(ToSet(s))
<1>1. PICK n \in Nat : n = Len(s) /\ DOMAIN s = 1..n
  OBVIOUS
<1>2. Cardinality(ToSet(s)) = n
  BY <1>1, DistinctCount
<1>3. s \in [1..n -> ToSet(s)]
  BY <1>1 DEF ToSet
<1> QED
  BY <1>1, <1>2, <1>3 DEF SetToSeqs, Distinct

\* Such a list is one the fallback loops may get.
LEMMA SoundIsAnOrder ==
  ASSUME NEW x, NEW y, Sound(x, y), Once(req.order)
  PROVE  \E good \in SUBSET (Candidates \ limited), lost \in SUBSET freed :
           /\ Candidates \ (limited \union freed) \subseteq good
           /\ x \o y \in Deferring(good, Candidates \ (good \union lost))
<1>1. PICK good, lost : /\ good = ToSet(x)
                        /\ lost = Candidates \ (ToSet(x) \union ToSet(y))
  OBVIOUS
<1>2. x \in Seq(Backends) /\ y \in Seq(Backends) /\ Distinct(x \o y)
  BY DEF Sound
<1>3. Distinct(x) /\ Distinct(y) /\ ToSet(x) \intersect ToSet(y) = {}
  BY <1>2, DistinctParts
<1>4. good \in SUBSET (Candidates \ limited) /\ lost \in SUBSET freed
  BY <1>1 DEF Sound
<1>5. Candidates \ (limited \union freed) \subseteq good
  BY <1>1 DEF Sound
<1>6. Candidates \ (good \union lost) = ToSet(y)
  BY <1>1, <1>3 DEF Sound
<1>7. x \in SetToSeqs(good) /\ y \in SetToSeqs(ToSet(y))
  BY <1>1, <1>2, <1>3, InARow
<1>8. x \o y \in {x \o q : q \in SetToSeqs(ToSet(y))}
  BY <1>7
<1>9. x \o y \in Deferring(good, ToSet(y))
  BY <1>7, <1>8 DEF Deferring
<1> QED
  BY <1>4, <1>5, <1>6, <1>9

\* Such a list loses nobody and has the excluded ones last.
LEMMA SoundListMade ==
  ASSUME NEW x, NEW y, Sound(x, y), stage' = "done", out' = x \o y,
         UNCHANGED <<setup, limited, req, freed>>
  PROVE  out' \in Seq(Backends) /\ NobodyIsLost' /\ ExcludedComeLast' /\ ListIsAnOrder'
<1>1. Candidates' = Candidates
  BY SameLists DEF Candidates
<1>2. PICK l : l = x \o y
  OBVIOUS
<1>3. l \in Seq(Backends) /\ ToSet(l) = ToSet(x) \union ToSet(y) /\ out' = l
  BY <1>2, ConcatFacts DEF Sound
<1>4. Once(req.order) => Cardinality(ToSet(l)) = Len(l)
  BY <1>2, <1>3, DistinctCount DEF Sound
<1>5. NobodyIsLost'
  BY <1>1, <1>3, <1>4 DEF NobodyIsLost, Sound, Once
<1>6. ExcludedComeLast'
  <2>1. SUFFICES ASSUME NEW b \in ToSet(l), NEW c \in ToSet(l),
                        b \in limited, c \notin limited \union freed
                 PROVE  Leads(l, c, b)
    BY <1>3 DEF ExcludedComeLast, Ahead, Leads
  <2>2. c \in ToSet(x) /\ b \notin ToSet(x)
    BY <1>3, <2>1 DEF Sound
  <2> QED
    BY <1>2, <2>2, LeadsOn DEF Sound
<1>7. ListIsAnOrder'
  <2>1. ASSUME Once(req.order)
        PROVE  \E good \in SUBSET (Candidates \ limited), lost \in SUBSET freed :
                 /\ Candidates \ (limited \union freed) \subseteq good
                 /\ x \o y \in Deferring(good, Candidates \ (good \union lost))
    BY <2>1, SoundIsAnOrder
  <2> QED
    BY <1>1, <2>1 DEF ListIsAnOrder, Once
<1> QED
  BY <1>3, <1>5, <1>6, <1>7

-----------------------------------------------------------------------------
(* The passes.                                                               *)

\* S is what a pass over T found routable: whoever is not in S was excluded then,
\* and is still or was freed since.
Answered(S, T) == S \subseteq T /\ S \intersect limited = {} /\ T \ S \subseteq limited \union freed

\* What the passes so far have found.
PassInv ==
  /\ stage \in {"only", "only2"} => OnlyPreferred(req)
  /\ stage \in {"tiers", "tiers2", "preferred", "emit"} => ~OnlyPreferred(req)
  /\ stage = "only2" => Answered(avail, ToSet(Preferred(req)))
  /\ stage \in {"tiers2", "preferred", "emit"} => Answered(avail, ToSet(Tiered(req)))
  /\ stage \in {"preferred", "emit"} =>
       /\ held \subseteq ToSet(Tiered(req)) \ avail /\ held \subseteq limited \union freed
       /\ ToSet(Tiered(req)) \subseteq avail \union held \union freed
  /\ stage = "emit" => Answered(flat, ToSet(Preferred(req)))

\* The two parts of the list that a call without fallbacks gets.
LEMMA OnlyMakesSound ==
  ASSUME Typed, PassInv, EmitOnly
  PROVE  \E x, y : Sound(x, y) /\ out' = x \o y
<1>1. PICK p : p = Preferred(req)
  OBVIOUS
<1>2. p \in Seq(Backends) /\ (Once(req.order) => Distinct(p))
  BY <1>1, PreferredFacts DEF Typed
<1>3. PICK x, y : x = Sort(req, Among(p, avail)) /\ y = Sort(req, Among(p, limited))
  OBVIOUS
<1>4. ASSUME NEW T
      PROVE  /\ Sort(req, Among(p, T)) \in Seq(Backends)
             /\ ToSet(Sort(req, Among(p, T))) = ToSet(p) \intersect T
             /\ Once(req.order) => Distinct(Sort(req, Among(p, T)))
  BY <1>2, AmongFacts, SortFacts DEF Typed
<1>5. /\ x \in Seq(Backends) /\ ToSet(x) = ToSet(p) \intersect avail
      /\ y \in Seq(Backends) /\ ToSet(y) = ToSet(p) \intersect limited
      /\ Once(req.order) => Distinct(x) /\ Distinct(y)
  BY <1>3, <1>4
<1>6. Answered(avail, ToSet(p)) /\ OnlyPreferred(req)
  BY <1>1 DEF EmitOnly, PassInv
<1>7. Candidates = ToSet(p)
  BY <1>1, <1>6 DEF Candidates
<1>8. ToSet(x) \intersect ToSet(y) = {}
  BY <1>5, <1>6 DEF Answered
<1>9. Once(req.order) => Distinct(x \o y)
  BY <1>5, <1>8, ConcatFacts
<1>10. Sound(x, y)
  BY <1>5, <1>6, <1>7, <1>9 DEF Answered, Sound
<1>11. out' = x \o y
  BY <1>1, <1>3 DEF EmitOnly, Done
<1> QED
  BY <1>10, <1>11

\* The preferred, then the tiers; and the excluded of both.
LEMMA LegacyMakesSound ==
  ASSUME Typed, PassInv, EmitLegacy
  PROVE  \E x, y : Sound(x, y) /\ out' = x \o y
<1>1. PICK p, e, t : p = Preferred(req) /\ e = Eligible(req) /\ t = Tiered(req)
  OBVIOUS
<1>2. /\ p \in Seq(Backends) /\ (Once(req.order) => Distinct(p)) /\ ToSet(p) \subseteq ToSet(e)
      /\ e \in Seq(Backends) /\ t \in Seq(Backends)
  BY <1>1, PreferredFacts, EligibleFacts, TieredFacts DEF Typed
<1>3. ToSet(t) = ToSet(e) \ ToSet(p)
  BY <1>1, TieredFacts DEF Typed, EmitLegacy
<1>4. PICK place, tiers : /\ tiers \in LineUps(req, Among(Tiered(req), avail), place)
                          /\ out' = Sort(req, Among(Preferred(req), flat)) \o tiers
                                    \o Among(Preferred(req), limited) \o HeldByTier(held)
  BY DEF EmitLegacy, Done
<1>5. PICK a, l, h : /\ a = Sort(req, Among(p, flat)) /\ l = Among(p, limited)
                     /\ h = HeldByTier(held)
  OBVIOUS
<1>6. /\ a \in Seq(Backends) /\ ToSet(a) = ToSet(p) \intersect flat
      /\ l \in Seq(Backends) /\ ToSet(l) = ToSet(p) \intersect limited
      /\ Once(req.order) => Distinct(a) /\ Distinct(l)
  BY <1>2, <1>5, AmongFacts, SortFacts DEF Typed
<1>7. h \in Seq(Backends) /\ ToSet(h) = ToSet(t) \intersect held /\ Distinct(h)
  BY <1>1, <1>5, HeldFacts
<1>8. /\ Among(t, avail) \in Seq(Backends) /\ ToSet(Among(t, avail)) = ToSet(t) \intersect avail
  BY <1>2, AmongFacts
<1>9. tiers \in Seq(Backends) /\ ToSet(tiers) = ToSet(t) \intersect avail /\ Distinct(tiers)
  BY <1>1, <1>4, <1>8, LineUpFacts
<1>10. PICK x, y : x = a \o tiers /\ y = l \o h
  OBVIOUS
<1>11. out' = x \o y
  <2>1. out' = ((a \o tiers) \o l) \o h
    BY <1>1, <1>4, <1>5
  <2> QED
    BY <1>6, <1>7, <1>9, <1>10, <2>1
<1>12. /\ Answered(avail, ToSet(t)) /\ Answered(flat, ToSet(p)) /\ ~OnlyPreferred(req)
       /\ held \subseteq ToSet(t) \ avail /\ held \subseteq limited \union freed
       /\ ToSet(t) \subseteq avail \union held \union freed
  BY <1>1 DEF EmitLegacy, PassInv
<1>13. Candidates = ToSet(e)
  BY <1>1, <1>12 DEF Candidates
<1>14. /\ x \in Seq(Backends) /\ ToSet(x) = ToSet(a) \union ToSet(tiers)
       /\ Once(req.order) => Distinct(x)
  <2>1. ToSet(a) \intersect ToSet(tiers) = {}
    BY <1>3, <1>6, <1>9
  <2> QED
    BY <1>6, <1>9, <1>10, <2>1, ConcatFacts
<1>15. /\ y \in Seq(Backends) /\ ToSet(y) = ToSet(l) \union ToSet(h)
       /\ Once(req.order) => Distinct(y)
  <2>1. ToSet(l) \intersect ToSet(h) = {}
    BY <1>3, <1>6, <1>7
  <2> QED
    BY <1>6, <1>7, <1>10, <2>1, ConcatFacts
<1>16. ToSet(x) \intersect ToSet(y) = {}
  BY <1>3, <1>6, <1>7, <1>9, <1>12, <1>14, <1>15 DEF Answered
<1>17. Once(req.order) => Distinct(x \o y)
  BY <1>14, <1>15, <1>16, ConcatFacts
<1>18. ToSet(x) \intersect limited = {} /\ ToSet(y) \subseteq limited \union freed
  BY <1>6, <1>7, <1>9, <1>12, <1>14, <1>15 DEF Answered
<1>19. ToSet(x) \union ToSet(y) \subseteq ToSet(e)
  BY <1>2, <1>3, <1>6, <1>7, <1>9, <1>14, <1>15
<1>20. ToSet(e) \ (ToSet(x) \union ToSet(y)) \subseteq freed
  BY <1>3, <1>6, <1>7, <1>9, <1>12, <1>14, <1>15 DEF Answered
<1>21. Sound(x, y)
  BY <1>13, <1>14, <1>15, <1>17, <1>18, <1>19, <1>20 DEF Sound
<1> QED
  BY <1>11, <1>21

\* The bands of the routable, then the excluded.
LEMMA AffinityMakesSound ==
  ASSUME Typed, PassInv, EmitByAffinity
  PROVE  \E s, y : /\ s \in Seq(Backends) /\ Sound(Bands(req, s), y)
                   /\ out' = Bands(req, s) \o y
                   /\ warmth' = IF s = <<>> THEN warmth ELSE Swept
<1>1. PICK p, e, t : p = Preferred(req) /\ e = Eligible(req) /\ t = Tiered(req)
  OBVIOUS
<1>2. /\ p \in Seq(Backends) /\ (Once(req.order) => Distinct(p)) /\ ToSet(p) \subseteq ToSet(e)
      /\ e \in Seq(Backends) /\ t \in Seq(Backends)
  BY <1>1, PreferredFacts, EligibleFacts, TieredFacts DEF Typed
<1>3. ToSet(t) = ToSet(e)
  BY <1>1, TieredFacts DEF Typed, EmitByAffinity
<1>4. PICK lined :
        /\ lined \in LineUps(req, Among(Eligible(req), avail), Tier)
        /\ LET candidates == Among(Preferred(req), flat)
                             \o Among(lined, Backends \ ToSet(Preferred(req)))
           IN  /\ out' = Bands(req, candidates) \o Among(Preferred(req), limited)
                         \o HeldByTier(held \ ToSet(Preferred(req)))
               /\ warmth' = IF candidates = <<>> THEN warmth ELSE Swept
  BY DEF EmitByAffinity, Done
<1>5. PICK s : s = Among(p, flat) \o Among(lined, Backends \ ToSet(p))
  OBVIOUS
<1>6. /\ out' = Bands(req, s) \o Among(p, limited) \o HeldByTier(held \ ToSet(p))
      /\ warmth' = IF s = <<>> THEN warmth ELSE Swept
  <2>1. s = Among(Preferred(req), flat) \o Among(lined, Backends \ ToSet(Preferred(req)))
    BY <1>1, <1>5
  <2>2. /\ out' = Bands(req, s) \o Among(Preferred(req), limited)
                  \o HeldByTier(held \ ToSet(Preferred(req)))
        /\ warmth' = IF s = <<>> THEN warmth ELSE Swept
    BY <1>4, <2>1
  <2> QED
    BY <1>1, <2>2
<1>7. Among(e, avail) \in Seq(Backends) /\ ToSet(Among(e, avail)) = ToSet(e) \intersect avail
  BY <1>2, AmongFacts
<1>8. lined \in Seq(Backends) /\ ToSet(lined) = ToSet(e) \intersect avail /\ Distinct(lined)
  BY <1>1, <1>4, <1>7, LineUpFacts
<1>9. PICK a, c, l, h : /\ a = Among(p, flat) /\ c = Among(lined, Backends \ ToSet(p))
                        /\ l = Among(p, limited) /\ h = HeldByTier(held \ ToSet(p))
  OBVIOUS
<1>10. /\ a \in Seq(Backends) /\ ToSet(a) = ToSet(p) \intersect flat
       /\ l \in Seq(Backends) /\ ToSet(l) = ToSet(p) \intersect limited
       /\ Once(req.order) => Distinct(a) /\ Distinct(l)
  BY <1>2, <1>9, AmongFacts
<1>11. /\ c \in Seq(Backends) /\ Distinct(c)
       /\ ToSet(c) = (ToSet(e) \intersect avail) \ ToSet(p)
  <2>1. /\ c \in Seq(Backends) /\ Distinct(c)
        /\ ToSet(c) = ToSet(lined) \intersect (Backends \ ToSet(p))
    BY <1>8, <1>9, AmongFacts
  <2>2. avail \subseteq Backends
    BY DEF Typed
  <2> QED
    BY <1>8, <2>1, <2>2
<1>12. h \in Seq(Backends) /\ ToSet(h) = ToSet(t) \intersect (held \ ToSet(p)) /\ Distinct(h)
  BY <1>1, <1>9, HeldFacts
<1>13. /\ s \in Seq(Backends) /\ ToSet(s) = ToSet(a) \union ToSet(c)
       /\ Once(req.order) => Distinct(s)
  <2>1. ToSet(a) \intersect ToSet(c) = {}
    BY <1>10, <1>11
  <2> QED
    BY <1>5, <1>9, <1>10, <1>11, <2>1, ConcatFacts
<1>14. PICK x, y : x = Bands(req, s) /\ y = l \o h
  OBVIOUS
<1>15. /\ x \in Seq(Backends) /\ ToSet(x) = ToSet(a) \union ToSet(c)
       /\ Once(req.order) => Distinct(x)
  BY <1>13, <1>14, BandsSame
<1>16. out' = x \o y
  <2>1. out' = (x \o l) \o h
    BY <1>6, <1>9, <1>14
  <2> QED
    BY <1>10, <1>12, <1>14, <1>15, <2>1
<1>17. /\ Answered(avail, ToSet(t)) /\ Answered(flat, ToSet(p)) /\ ~OnlyPreferred(req)
       /\ held \subseteq ToSet(t) \ avail /\ held \subseteq limited \union freed
       /\ ToSet(t) \subseteq avail \union held \union freed
  BY <1>1 DEF EmitByAffinity, PassInv
<1>18. Candidates = ToSet(e)
  BY <1>1, <1>17 DEF Candidates
<1>19. /\ y \in Seq(Backends) /\ ToSet(y) = ToSet(l) \union ToSet(h)
       /\ Once(req.order) => Distinct(y)
  <2>1. ToSet(l) \intersect ToSet(h) = {}
    BY <1>10, <1>12
  <2> QED
    BY <1>10, <1>12, <1>14, <2>1, ConcatFacts
<1>20. ToSet(x) \intersect ToSet(y) = {}
  BY <1>3, <1>10, <1>11, <1>12, <1>15, <1>17, <1>19 DEF Answered
<1>21. Once(req.order) => Distinct(x \o y)
  BY <1>15, <1>19, <1>20, ConcatFacts
<1>22. ToSet(x) \intersect limited = {} /\ ToSet(y) \subseteq limited \union freed
  BY <1>3, <1>10, <1>11, <1>12, <1>15, <1>17, <1>19 DEF Answered
<1>23. ToSet(x) \union ToSet(y) \subseteq ToSet(e)
  BY <1>2, <1>3, <1>10, <1>11, <1>12, <1>15, <1>19
<1>24. ToSet(e) \ (ToSet(x) \union ToSet(y)) \subseteq freed
  BY <1>3, <1>10, <1>11, <1>12, <1>15, <1>17, <1>19 DEF Answered
<1>25. Sound(x, y)
  BY <1>15, <1>18, <1>19, <1>21, <1>22, <1>23, <1>24 DEF Sound
<1> QED
  BY <1>6, <1>13, <1>14, <1>16, <1>25

-----------------------------------------------------------------------------
(* The invariant.                                                            *)

\* A rotation stays below its modulus.
LEMMA RotationBounded ==
  ASSUME NEW r \in Nat
  PROVE  (r + 1) % RotationModulus \in 0..(RotationModulus - 1)
<1>1. RotationModulus \in Nat \ {0}
  BY SetupsAssumption
<1> QED
  BY <1>1

\* The first state has the types.
LEMMA TypedInit == Init => Typed
<1>1. SUFFICES ASSUME Init PROVE Typed
  OBVIOUS
<1>2. RotationModulus \in Nat \ {0} /\ TTL \in Nat
  BY SetupsAssumption, RequestsAssumption
<1>3. warmth \in [Backends -> [known : BOOLEAN, left : 0..TTL, hit : BOOLEAN]]
  BY <1>1, <1>2 DEF Init, Unseen
<1>4. req.order \in Seq(ToSet(req.order))
  <2>1. req.order = <<>>
    BY <1>1 DEF Init, NoRequest
  <2> QED
    BY <2>1
<1> QED
  BY <1>1, <1>2, <1>3, <1>4 DEF Init, Typed

\* The types of what a call leaves alone.
LEMMA TypedStep ==
  ASSUME Typed, PassInv, [Next]_vars
  PROVE  Typed'
<1>0. TTL \in Nat /\ RotationModulus \in Nat \ {0}
  BY SetupsAssumption, RequestsAssumption
<1>1. ASSUME NEW b \in Backends, Exclude(b)
      PROVE  Typed'
  BY <1>1 DEF Typed, Exclude, locals
<1>2. ASSUME NEW b \in Backends, NEW cached \in BOOLEAN, NEW written \in BOOLEAN,
             Served(b, cached, written)
      PROVE  Typed'
  <2>1. warmth' \in [Backends -> [known : BOOLEAN, left : 0..TTL, hit : BOOLEAN]]
    <3>1. (warmth[b].hit \/ cached) \in BOOLEAN
      OBVIOUS
    <3>2. PICK r : r = [known |-> TRUE, left |-> TTL, hit |-> warmth[b].hit \/ cached]
      OBVIOUS
    <3>3. r \in [known : BOOLEAN, left : 0..TTL, hit : BOOLEAN]
      BY <1>0, <3>1, <3>2
    <3>4. warmth' = [warmth EXCEPT ![b] = r]
      BY <1>2, <3>2 DEF Served
    <3> QED
      BY <3>3, <3>4 DEF Typed
  <2> QED
    BY <1>2, <2>1 DEF Typed, Served, locals
<1>3. ASSUME NEW S \in SUBSET Backends, Elapse(S)
      PROVE  Typed'
  <2>1. freed' \in SUBSET Backends
    BY <1>3 DEF Typed, Elapse
  <2> QED
    BY <1>3, <2>1 DEF Typed, Elapse
<1>4. CASE Cool
  <2>1. \A b \in Backends : [warmth[b] EXCEPT !.left = IF @ > 0 THEN @ - 1 ELSE 0]
                              \in [known : BOOLEAN, left : 0..TTL, hit : BOOLEAN]
    <3>1. SUFFICES ASSUME NEW b \in Backends
                   PROVE  [warmth[b] EXCEPT !.left = IF @ > 0 THEN @ - 1 ELSE 0]
                            \in [known : BOOLEAN, left : 0..TTL, hit : BOOLEAN]
      OBVIOUS
    <3>2. PICK r \in [known : BOOLEAN, left : 0..TTL, hit : BOOLEAN] : r = warmth[b]
      BY DEF Typed
    <3>3. (IF r.left > 0 THEN r.left - 1 ELSE 0) \in 0..TTL
      BY <1>0, <3>2
    <3>4. PICK n \in 0..TTL : n = IF r.left > 0 THEN r.left - 1 ELSE 0
      BY <3>3
    <3>5. [r EXCEPT !.left = n] \in [known : BOOLEAN, left : 0..TTL, hit : BOOLEAN]
      BY <3>2
    <3> QED
      BY <3>2, <3>4, <3>5
  <2>2. warmth' \in [Backends -> [known : BOOLEAN, left : 0..TTL, hit : BOOLEAN]]
    BY <1>4, <2>1 DEF Cool
  <2> QED
    BY <1>4, <2>2 DEF Typed, Cool, locals
<1>5. ASSUME NEW q \in Requests, NEW l \in Loads, Call(q, l)
      PROVE  Typed'
  <2>1. q.order \in Seq(ToSet(q.order)) /\ l \in [Backends -> Nat]
    BY RequestsAssumption
  <2>2. rotation' \in 0..(RotationModulus - 1)
    <3>1. rotation' = rotation \/ rotation' = (rotation + 1) % RotationModulus
      BY <1>5 DEF Call
    <3> QED
      BY <3>1, RotationBounded DEF Typed
  <2>3. out' \in Seq(Backends) /\ stage' \in {"only", "tiers", "done"}
    <3>1. out' = out \/ out' = <<>>
      BY <1>5 DEF Call, Done
    <3>2. out' \in Seq(Backends)
      <4>1. CASE out' = <<>>
        BY <4>1, EmptySeq
      <4>2. CASE out' = out
        BY <4>2 DEF Typed
      <4> QED
        BY <3>1, <4>1, <4>2
    <3>3. stage' \in {"only", "tiers", "done"}
      BY <1>5 DEF Call, Done
    <3> QED
      BY <3>2, <3>3
  <2>4. req' = q /\ load' = l
    BY <1>5 DEF Call
  <2>5. (req.order)' \in Seq(ToSet(req.order))'
    BY <2>1, <2>4
  <2> QED
    BY <1>5, <2>1, <2>2, <2>3, <2>4, <2>5 DEF Typed, Call
<1>6. CASE AskAvailable
  <2>1. avail' \in SUBSET Backends
    <3>1. Preferred(req) \in Seq(Backends) /\ Tiered(req) \in Seq(Backends)
      BY PreferredFacts, TieredFacts DEF Typed
    <3>2. ToSet(Preferred(req)) \subseteq Backends /\ ToSet(Tiered(req)) \subseteq Backends
      BY <3>1 DEF ToSet
    <3> QED
      BY <1>6, <3>2 DEF AskAvailable, Asked
  <2> QED
    BY <1>6, <2>1 DEF Typed, AskAvailable, world
<1>7. CASE EmitOnly
  <2>1. PICK x, y : Sound(x, y) /\ out' = x \o y
    BY <1>7, OnlyMakesSound
  <2>2. out' \in Seq(Backends)
    BY <2>1, ConcatFacts DEF Sound
  <2> QED
    BY <1>7, <2>2 DEF Typed, EmitOnly, Done, world
<1>8. CASE AskLimited
  BY <1>8 DEF Typed, AskLimited, world
<1>9. CASE AskPreferred
  <2>1. flat' \in SUBSET Backends
    <3>1. Preferred(req) \in Seq(Backends)
      BY PreferredFacts DEF Typed
    <3>2. ToSet(Preferred(req)) \subseteq Backends
      BY <3>1 DEF ToSet
    <3> QED
      BY <1>9, <3>2 DEF AskPreferred, Asked
  <2> QED
    BY <1>9, <2>1 DEF Typed, AskPreferred, world
<1>10. Swept \in [Backends -> [known : BOOLEAN, left : 0..TTL, hit : BOOLEAN]]
  BY <1>0 DEF Typed, Swept, Unseen
<1>11. CASE EmitLegacy
  <2>1. PICK x, y : Sound(x, y) /\ out' = x \o y
    BY <1>11, LegacyMakesSound
  <2>2. out' \in Seq(Backends)
    BY <2>1, ConcatFacts DEF Sound
  <2>3. warmth' = Swept \/ warmth' = warmth
    BY <1>11 DEF EmitLegacy
  <2>4. stage' = "done"
    BY <1>11 DEF EmitLegacy, Done
  <2> QED
    BY <1>10, <1>11, <2>2, <2>3, <2>4 DEF Typed, EmitLegacy
<1>12. CASE EmitByAffinity
  <2>1. PICK s, y : /\ Sound(Bands(req, s), y) /\ out' = Bands(req, s) \o y
                    /\ warmth' = IF s = <<>> THEN warmth ELSE Swept
    BY <1>12, AffinityMakesSound
  <2>2. out' \in Seq(Backends)
    BY <2>1, ConcatFacts DEF Sound
  <2>3. warmth' = Swept \/ warmth' = warmth
    BY <2>1
  <2>4. stage' = "done"
    BY <1>12 DEF EmitByAffinity, Done
  <2> QED
    BY <1>10, <1>12, <2>2, <2>3, <2>4 DEF Typed, EmitByAffinity
<1>13. CASE Return
  <2>1. req' = req \/ req' = NoRequest
    BY <1>13 DEF Return
  <2>2. NoRequest.order \in Seq(ToSet(NoRequest.order))
    <3>1. NoRequest.order = <<>>
      BY DEF NoRequest
    <3> QED
      BY <3>1
  <2>3. (req.order)' \in Seq(ToSet(req.order))'
    BY <2>1, <2>2 DEF Typed
  <2> QED
    BY <1>13, <2>3 DEF Typed, Return
<1>14. CASE UNCHANGED vars
  BY <1>14 DEF Typed, vars
<1> QED
  BY <1>1, <1>2, <1>3, <1>4, <1>5, <1>6, <1>7, <1>8, <1>9, <1>11, <1>12, <1>13, <1>14 DEF Next

\* The passes find what PassInv says, and an exclusion that ends is in `freed'.
LEMMA PassStep ==
  ASSUME Typed, PassInv, [Next]_vars
  PROVE  PassInv'
<1>1. ASSUME stage' \in {"idle", "done"}
      PROVE  PassInv'
  BY <1>1 DEF PassInv
<1>2. ASSUME NEW S \in SUBSET Backends, Elapse(S)
      PROVE  PassInv'
  <2>1. CASE stage = "idle"
    BY <1>1, <1>2, <2>1 DEF Elapse
  <2>2. CASE stage # "idle"
    <3>1. /\ Preferred(req)' = Preferred(req) /\ Tiered(req)' = Tiered(req)
          /\ OnlyPreferred(req)' = OnlyPreferred(req)
      BY <1>2, SameLists DEF Elapse
    <3>2. /\ limited' = limited \ S /\ freed' = freed \union S
          /\ stage' = stage /\ avail' = avail /\ held' = held /\ flat' = flat
      BY <1>2, <2>2 DEF Elapse
    <3>3. S \subseteq limited
      BY <1>2 DEF Elapse
    <3>4. limited' \union freed' = limited \union freed /\ limited' \subseteq limited
      BY <3>2, <3>3
    <3>5. ASSUME NEW F, NEW T, Answered(F, T)
          PROVE  F \subseteq T /\ F \intersect limited' = {} /\ T \ F \subseteq limited' \union freed'
      BY <3>4, <3>5 DEF Answered
    <3>6. stage = "only2" => Answered(avail, ToSet(Preferred(req)))'
      BY <3>1, <3>2, <3>5 DEF PassInv, Answered
    <3>7. stage \in {"tiers2", "preferred", "emit"} => Answered(avail, ToSet(Tiered(req)))'
      BY <3>1, <3>2, <3>5 DEF PassInv, Answered
    <3>8. stage = "emit" => Answered(flat, ToSet(Preferred(req)))'
      BY <3>1, <3>2, <3>5 DEF PassInv, Answered
    <3>9. stage \in {"preferred", "emit"} =>
            /\ held' \subseteq ToSet(Tiered(req)') \ avail' /\ held' \subseteq limited' \union freed'
            /\ ToSet(Tiered(req)') \subseteq avail' \union held' \union freed'
      BY <3>1, <3>2, <3>4 DEF PassInv
    <3> QED
      BY <3>1, <3>2, <3>6, <3>7, <3>8, <3>9 DEF PassInv
  <2> QED
    BY <2>1, <2>2
<1>3. ASSUME NEW q \in Requests, NEW l \in Loads, Call(q, l)
      PROVE  PassInv'
  <2>1. OnlyPreferred(req)' = OnlyPreferred(q)
    BY <1>3, SameLists DEF Call
  <2>2. \/ stage' = "done"
        \/ stage' = "only" /\ OnlyPreferred(q)
        \/ stage' = "tiers" /\ ~OnlyPreferred(q)
    BY <1>3 DEF Call, Done
  <2> QED
    BY <2>1, <2>2 DEF PassInv
<1>4. ASSUME UNCHANGED <<setup, limited, req, freed>>
      PROVE  /\ Preferred(req)' = Preferred(req) /\ Tiered(req)' = Tiered(req)
             /\ OnlyPreferred(req)' = OnlyPreferred(req)
             /\ \A S, T : Answered(S, T)' = Answered(S, T)
  BY <1>4, SameLists DEF Answered
<1>5. CASE AskAvailable
  <2>1. /\ Preferred(req)' = Preferred(req) /\ Tiered(req)' = Tiered(req)
        /\ OnlyPreferred(req)' = OnlyPreferred(req)
        /\ limited' = limited /\ freed' = freed
    BY <1>4, <1>5 DEF AskAvailable, world
  <2>2. CASE stage = "only"
    <3>1. avail' = ToSet(Preferred(req)) \ limited /\ stage' = "only2"
      BY <1>5, <2>2 DEF AskAvailable, Asked
    <3>2. Answered(avail, ToSet(Preferred(req)))'
      BY <2>1, <3>1 DEF Answered
    <3> QED
      BY <2>1, <2>2, <3>1, <3>2 DEF PassInv
  <2>3. CASE stage = "tiers"
    <3>1. avail' = ToSet(Tiered(req)) \ limited /\ stage' = "tiers2"
      BY <1>5, <2>3 DEF AskAvailable, Asked
    <3>2. Answered(avail, ToSet(Tiered(req)))'
      BY <2>1, <3>1 DEF Answered
    <3> QED
      BY <2>1, <2>3, <3>1, <3>2 DEF PassInv
  <2> QED
    BY <1>5, <2>2, <2>3 DEF AskAvailable
<1>6. CASE AskLimited
  <2>1. /\ Preferred(req)' = Preferred(req) /\ Tiered(req)' = Tiered(req)
        /\ OnlyPreferred(req)' = OnlyPreferred(req)
        /\ limited' = limited /\ freed' = freed
    BY <1>4, <1>6 DEF AskLimited, world
  <2>2. /\ held' = ToSet(Tiered(req)) \intersect limited /\ avail' = avail
        /\ stage = "tiers2" /\ stage' = "preferred"
    BY <1>6 DEF AskLimited
  <2>3. Answered(avail, ToSet(Tiered(req))) /\ ~OnlyPreferred(req)
    BY <2>2 DEF PassInv
  <2>4. Answered(avail, ToSet(Tiered(req)))'
    BY <2>1, <2>2, <2>3 DEF Answered
  <2>5. /\ held' \subseteq ToSet(Tiered(req)') \ avail' /\ held' \subseteq limited' \union freed'
        /\ ToSet(Tiered(req)') \subseteq avail' \union held' \union freed'
    BY <2>1, <2>2, <2>3 DEF Answered
  <2> QED
    BY <2>1, <2>2, <2>3, <2>4, <2>5 DEF PassInv
<1>7. CASE AskPreferred
  <2>1. /\ Preferred(req)' = Preferred(req) /\ Tiered(req)' = Tiered(req)
        /\ OnlyPreferred(req)' = OnlyPreferred(req)
        /\ limited' = limited /\ freed' = freed
    BY <1>4, <1>7 DEF AskPreferred, world
  <2>2. /\ flat' = ToSet(Preferred(req)) \ limited /\ avail' = avail /\ held' = held
        /\ stage = "preferred" /\ stage' = "emit"
    BY <1>7 DEF AskPreferred, Asked, world
  <2>3. Answered(avail, ToSet(Tiered(req)))'
    BY <2>1, <2>2 DEF Answered, PassInv
  <2>4. Answered(flat, ToSet(Preferred(req)))'
    BY <2>1, <2>2 DEF Answered
  <2>5. /\ held' \subseteq ToSet(Tiered(req)') \ avail' /\ held' \subseteq limited' \union freed'
        /\ ToSet(Tiered(req)') \subseteq avail' \union held' \union freed'
    BY <2>1, <2>2 DEF PassInv
  <2>6. ~OnlyPreferred(req)
    BY <2>2 DEF PassInv
  <2> QED
    BY <2>1, <2>2, <2>3, <2>4, <2>5, <2>6 DEF PassInv
<1>8. CASE UNCHANGED vars
  <2>1. /\ Preferred(req)' = Preferred(req) /\ Tiered(req)' = Tiered(req)
        /\ OnlyPreferred(req)' = OnlyPreferred(req)
        /\ limited' = limited /\ freed' = freed
        /\ stage' = stage /\ avail' = avail /\ held' = held /\ flat' = flat
    BY <1>4, <1>8 DEF vars
  <2> QED
    BY <2>1 DEF PassInv, Answered
<1>9. CASE \/ \E b \in Backends : Exclude(b)
           \/ \E b \in Backends, cached, written \in BOOLEAN : Served(b, cached, written)
           \/ Cool \/ Return
  <2>1. stage' = "idle"
    BY <1>9 DEF Exclude, Served, Cool, Return
  <2> QED
    BY <1>1, <2>1
<1>10. CASE EmitOnly \/ EmitLegacy \/ EmitByAffinity
  <2>1. stage' = "done"
    BY <1>10 DEF EmitOnly, EmitLegacy, EmitByAffinity, Done
  <2> QED
    BY <1>1, <2>1
<1> QED
  BY <1>2, <1>3, <1>5, <1>6, <1>7, <1>8, <1>9, <1>10 DEF Next

\* The sweep of expired entries leaves everybody in their band.
LEMMA BandsKept ==
  ASSUME Typed, UNCHANGED <<setup, load>>, warmth' \in {warmth, Swept}, NEW b \in Backends
  PROVE  Band(b)' = Band(b)
<1>1. Warm(b)' = Warm(b)
  <2>1. CASE warmth' = warmth
    BY <2>1 DEF Warm
  <2>2. CASE warmth' = Swept
    <3>1. warmth'[b] = IF Warm(b) THEN warmth[b] ELSE Unseen
      BY <2>2 DEF Swept
    <3>2. CASE Warm(b)
      BY <3>1, <3>2 DEF Warm
    <3>3. CASE ~Warm(b)
      <4>1. warmth'[b].known = FALSE
        BY <3>1, <3>3 DEF Unseen
      <4> QED
        BY <3>3, <4>1 DEF Warm
    <3> QED
      BY <3>2, <3>3
  <2> QED
    BY <2>1, <2>2
<1> QED
  BY <1>1 DEF Band

\* What affinity makes has the bands in their order.
LEMMA AffinityMakesBands ==
  ASSUME Typed, PassInv, EmitByAffinity
  PROVE  AffinityWins'
<1>1. PICK s, y : /\ s \in Seq(Backends) /\ Sound(Bands(req, s), y)
                  /\ out' = Bands(req, s) \o y
                  /\ warmth' = IF s = <<>> THEN warmth ELSE Swept
  BY AffinityMakesSound
<1>2. PICK x, l : x = Bands(req, s) /\ l = x \o y
  OBVIOUS
<1>3. /\ x \in Seq(Backends) /\ ToSet(x) = ToSet(s) /\ y \in Seq(Backends)
      /\ ToSet(y) \subseteq limited \union freed
  BY <1>1, <1>2, BandsSame DEF Sound
<1>4. ToSet(l) = ToSet(x) \union ToSet(y) /\ ToSet(l) \subseteq Backends
  <2>1. l \in Seq(Backends) /\ ToSet(l) = ToSet(x) \union ToSet(y)
    BY <1>2, <1>3, ConcatFacts
  <2>2. ToSet(l) \subseteq Backends
    BY <2>1 DEF ToSet
  <2> QED
    BY <2>1, <2>2
<1>5. limited' = limited /\ freed' = freed /\ UNCHANGED <<setup, load>> /\ out' = l
  BY <1>1, <1>2 DEF EmitByAffinity
<1>6. ASSUME NEW b \in ToSet(l) \ limited, NEW c \in ToSet(l) \ limited, freed = {},
             Band(b) < Band(c)
      PROVE  Leads(l, b, c)
  <2>1. b \in ToSet(s) /\ c \in ToSet(s)
    BY <1>3, <1>4, <1>6
  <2>2. Leads(x, b, c)
    BY <1>1, <1>2, <1>6, <2>1, BandsLead
  <2> QED
    BY <1>2, <1>3, <2>1, <2>2, LeadsOn
<1>7. \A b \in Backends : Band(b)' = Band(b)
  BY <1>1, <1>5, BandsKept
<1>8. \A b, c : Ahead(b, c)' <=> Leads(l, b, c)
  BY <1>5 DEF Ahead, Leads
<1> QED
  BY <1>4, <1>5, <1>6, <1>7, <1>8 DEF AffinityWins

\* What a finished list is to be; the order of two calls is not asked about here.
Promises == NobodyIsLost /\ ExcludedComeLast /\ ListIsAnOrder /\ AffinityWins

IInv == Typed /\ PassInv /\ Promises

\* Nothing happens to a list before it is used up.
LEMMA DoneKept ==
  ASSUME IInv, UNCHANGED vars
  PROVE  Promises'
<1>1. /\ setup' = setup /\ limited' = limited /\ freed' = freed /\ load' = load
      /\ stage' = stage /\ out' = out /\ req' = req /\ warmth' = warmth
  BY DEF vars
<1>2. Candidates' = Candidates /\ ByAffinity(req)' = ByAffinity(req)
  BY <1>1, SameLists DEF Candidates
<1>3. \A b, c : Ahead(b, c)' = Ahead(b, c)
  BY <1>1 DEF Ahead
<1>4. \A b \in Backends : Band(b)' = Band(b)
  BY <1>1, BandsKept DEF IInv
<1>5. ToSet(out) \subseteq Backends
  BY DEF IInv, Typed, ToSet
<1>6. NobodyIsLost'
  BY <1>1, <1>2 DEF IInv, Promises, NobodyIsLost, Once
<1>7. ExcludedComeLast'
  BY <1>1, <1>3 DEF IInv, Promises, ExcludedComeLast
<1>8. AffinityWins'
  BY <1>1, <1>2, <1>3, <1>4, <1>5 DEF IInv, Promises, AffinityWins
<1>9. ListIsAnOrder'
  BY <1>1, <1>2 DEF IInv, Promises, ListIsAnOrder, Once
<1> QED
  BY <1>6, <1>7, <1>8, <1>9 DEF Promises

\* With nobody eligible the list is empty, as it should be.
LEMMA NothingMade ==
  ASSUME Typed, NEW q \in Requests, NEW l \in Loads, Call(q, l), Eligible(q) = <<>>
  PROVE  Promises'
<1>1. out' = <<>> /\ req' = q /\ setup' = setup
  BY DEF Call, Done
<1>2. ToSet(<<>>) = {} /\ DOMAIN <<>> = {} /\ Len(<<>>) = 0
  <2>1. Len(<<>>) = 0
    BY EmptySeq
  <2> QED
    BY <2>1 DEF ToSet
<1>3. q.order \in Seq(ToSet(q.order)) /\ setup \in Setups
  BY RequestsAssumption DEF Typed
<1>4. ToSet(Preferred(q)) \subseteq {} /\ ToSet(Eligible(q)) = {}
  BY <1>2, <1>3, PreferredFacts
<1>5. Candidates' = {}
  <2>1. Candidates' = IF OnlyPreferred(q) THEN ToSet(Preferred(q)) ELSE ToSet(Eligible(q))
    BY <1>1, SameLists DEF Candidates
  <2> QED
    BY <1>4, <2>1
<1>6. ToSet(out)' = {} /\ Len(out)' = 0
  BY <1>1, <1>2
<1>7. Cardinality({}) = 0
  BY FS_EmptySet
<1>8. NobodyIsLost'
  BY <1>5, <1>6, <1>7 DEF NobodyIsLost
<1>9. ExcludedComeLast' /\ AffinityWins'
  BY <1>6 DEF ExcludedComeLast, AffinityWins
<1>10. ListIsAnOrder'
  <2>1. Distinct(<<>>) /\ <<>> \in Seq(Backends)
    BY <1>2 DEF Distinct
  <2>2. <<>> \in SetToSeqs({})
    BY <1>2, <2>1, InARow
  <2>3. <<>> \o <<>> = <<>>
    OBVIOUS
  <2>4. <<>> \in {<<>> \o r : r \in SetToSeqs({})}
    BY <2>2, <2>3
  <2>5. <<>> \in Deferring({}, {})
    BY <2>2, <2>4 DEF Deferring
  <2> QED
    BY <1>1, <1>5, <2>5 DEF ListIsAnOrder
<1> QED
  BY <1>8, <1>9, <1>10 DEF Promises

\* Every step to a finished list makes one with the three properties.
LEMMA DoneStep ==
  ASSUME IInv, [Next]_vars
  PROVE  Promises'
<1>1. Typed /\ PassInv
  BY DEF IInv
<1>2. ASSUME stage' # "done"
      PROVE  Promises'
  BY <1>2 DEF Promises, NobodyIsLost, ExcludedComeLast, ListIsAnOrder, AffinityWins
<1>3. ASSUME NEW x, NEW y, Sound(x, y), out' = x \o y, stage' = "done",
             UNCHANGED <<setup, limited, req, freed>>
      PROVE  NobodyIsLost' /\ ExcludedComeLast' /\ ListIsAnOrder'
  BY <1>3, SoundListMade
<1>4. ASSUME UNCHANGED <<setup, req>>, ~ByAffinity(req)
      PROVE  AffinityWins'
  <2>1. ~ByAffinity(req)'
    BY <1>4, SameLists
  <2> QED
    BY <2>1 DEF AffinityWins
<1>5. CASE EmitOnly
  <2>1. PICK x, y : Sound(x, y) /\ out' = x \o y
    BY <1>1, <1>5, OnlyMakesSound
  <2>2. ~ByAffinity(req)
    BY <1>1, <1>5 DEF EmitOnly, PassInv, OnlyPreferred
  <2>3. stage' = "done" /\ UNCHANGED <<setup, limited, req, freed>>
    BY <1>5 DEF EmitOnly, Done, world
  <2> QED
    BY <1>3, <1>4, <2>1, <2>2, <2>3 DEF Promises
<1>6. CASE EmitLegacy
  <2>1. PICK x, y : Sound(x, y) /\ out' = x \o y
    BY <1>1, <1>6, LegacyMakesSound
  <2>2. ~ByAffinity(req)
    BY <1>6 DEF EmitLegacy
  <2>3. stage' = "done" /\ UNCHANGED <<setup, limited, req, freed>>
    BY <1>6 DEF EmitLegacy, Done
  <2> QED
    BY <1>3, <1>4, <2>1, <2>2, <2>3 DEF Promises
<1>7. CASE EmitByAffinity
  <2>1. PICK s, y : Sound(Bands(req, s), y) /\ out' = Bands(req, s) \o y
    BY <1>1, <1>7, AffinityMakesSound
  <2>2. stage' = "done" /\ UNCHANGED <<setup, limited, req, freed>>
    BY <1>7 DEF EmitByAffinity, Done
  <2> QED
    BY <1>1, <1>3, <1>7, <2>1, <2>2, AffinityMakesBands DEF Promises
<1>8. ASSUME NEW q \in Requests, NEW l \in Loads, Call(q, l)
      PROVE  Promises'
  <2>1. CASE Eligible(q) = <<>>
    BY <1>1, <1>8, <2>1, NothingMade
  <2>2. CASE Eligible(q) # <<>>
    <3>1. stage' # "done"
      BY <1>8, <2>2 DEF Call
    <3> QED
      BY <1>2, <3>1
  <2> QED
    BY <2>1, <2>2
<1>9. CASE UNCHANGED vars
  BY <1>9, DoneKept
<1>10. CASE \/ \E b \in Backends : Exclude(b)
            \/ \E b \in Backends, cached, written \in BOOLEAN : Served(b, cached, written)
            \/ \E S \in SUBSET Backends : Elapse(S)
            \/ Cool \/ Return \/ AskAvailable \/ AskLimited \/ AskPreferred
  <2>1. stage' # "done"
    BY <1>10 DEF Exclude, Served, Elapse, Cool, Return, AskAvailable, AskLimited, AskPreferred
  <2> QED
    BY <1>2, <2>1
<1> QED
  BY <1>5, <1>6, <1>7, <1>8, <1>9, <1>10 DEF Next

\* The invariant holds in every state.
LEMMA Invariant == Spec => []IInv
<1>1. Init => IInv
  <2>1. Init => stage = "idle"
    BY DEF Init
  <2> QED
    BY <2>1, TypedInit
    DEF IInv, PassInv, Promises, NobodyIsLost, ExcludedComeLast, ListIsAnOrder, AffinityWins
<1>2. IInv /\ [Next]_vars => IInv'
  BY TypedStep, PassStep, DoneStep DEF IInv
<1> QED
  BY <1>1, <1>2, PTL DEF Spec

\* Every state of a selection is well formed: the rotation counter stays below
\* its modulus, and a list names backends of the model only.
THEOREM TypeCorrect == Spec => []TypeOK
<1>1. IInv => TypeOK
  BY DEF IInv, Typed, TypeOK, ToSet
<1> QED
  BY <1>1, Invariant, PTL

\* select_backends() offers nobody who is not a candidate, nobody twice, and
\* leaves out no candidate but one whose exclusion ended between two passes:
\* with every config, whatever the tiers, weights, sorts, draws and warmth.
THEOREM NobodyLost == Spec => []NobodyIsLost
<1>1. IInv => NobodyIsLost
  BY DEF IInv, Promises
<1> QED
  BY <1>1, Invariant, PTL

\* A backend that select_backends() found excluded in every pass comes after
\* every backend it found routable in every pass.
THEOREM ExcludedLast == Spec => []ExcludedComeLast
<1>1. IInv => ExcludedComeLast
  BY DEF IInv, Promises
<1> QED
  BY <1>1, Invariant, PTL

\* The list is one the fallback loops are made for, whatever mode made it: routable
\* candidates in some order, then the excluded, deferred but not dropped.
THEOREM MakesAnOrder == Spec => []ListIsAnOrder
<1>1. IInv => ListIsAnOrder
  BY DEF IInv, Promises
<1> QED
  BY <1>1, Invariant, PTL

\* With cache affinity on, the five bands of the documentation order the
\* routable backends, and nothing else does before them.
THEOREM WarmWins == Spec => []AffinityWins
<1>1. IInv => AffinityWins
  BY DEF IInv, Promises
<1> QED
  BY <1>1, Invariant, PTL

-----------------------------------------------------------------------------
(* The rotation.                                                             *)

\* Quotient and remainder.
LEMMA Euclid ==
  ASSUME NEW x \in Int, NEW n \in Nat \ {0}
  PROVE  x \div n \in Int /\ x % n \in 0..(n - 1) /\ x = n * (x \div n) + (x % n)
<1>1. x \div n \in Int
  OBVIOUS
<1>2. x % n \in 0..(n - 1)
  OBVIOUS
<1>3. x = n * (x \div n) + (x % n)
  OBVIOUS
<1> QED
  BY <1>1, <1>2, <1>3

\* And the remainder is the only one.
LEMMA RemainderUnique ==
  ASSUME NEW n \in Nat \ {0}, NEW a \in Int, NEW b \in Int,
         NEW r \in 0..(n - 1), NEW s \in 0..(n - 1), n * a + r = n * b + s
  PROVE  r = s
<1>1. ASSUME NEW d \in Int, d > 0
      PROVE  n * d >= n
  BY <1>1
<1>2. a > b => n * (a - b) >= n
  BY <1>1
<1>3. b > a => n * (b - a) >= n
  BY <1>1
<1>4. n * (a - b) = n * a - n * b /\ n * (b - a) = n * b - n * a
  OBVIOUS
<1> QED
  BY <1>2, <1>3, <1>4

\* The place after p, among n.
Succ(p, n) == IF p = n - 1 THEN 0 ELSE p + 1

\* The remainder of the next number is the next, or 0.
LEMMA NextRemainder ==
  ASSUME NEW x \in Int, NEW n \in Nat \ {0}
  PROVE  (x + 1) % n = Succ(x % n, n)
<1>1. PICK a \in Int, r \in 0..(n - 1) : x = n * a + r /\ r = x % n
  BY Euclid
<1>2. PICK b \in Int, s \in 0..(n - 1) : x + 1 = n * b + s /\ s = (x + 1) % n
  <2>1. PICK y \in Int : y = x + 1
    OBVIOUS
  <2>2. y \div n \in Int /\ y % n \in 0..(n - 1) /\ y = n * (y \div n) + (y % n)
    BY Euclid
  <2> QED
    BY <2>1, <2>2
<1>3. CASE r = n - 1
  <2>1. n * (a + 1) = n * a + n
    OBVIOUS
  <2>2. n * (a + 1) + 0 = n * b + s
    BY <1>1, <1>2, <1>3, <2>1
  <2>3. s = 0
    BY <2>2, RemainderUnique
  <2> QED
    BY <1>1, <1>2, <1>3, <2>3 DEF Succ
<1>4. CASE r # n - 1
  <2>1. n * a + (r + 1) = n * b + s
    BY <1>1, <1>2
  <2>2. s = r + 1
    BY <1>4, <2>1, RemainderUnique
  <2> QED
    BY <1>1, <1>2, <1>4, <2>2 DEF Succ
<1> QED
  BY <1>3, <1>4

\* A step of the counter, kept modulo a multiple of n, is a step modulo n.
LEMMA CounterSteps ==
  ASSUME NEW r \in 0..(RotationModulus - 1), NEW n \in 1..Len(Listed)
  PROVE  (((r + 1) % RotationModulus) - 1) % n = r % n
<1>1. RotationModulus \in Nat \ {0} /\ RotationModulus % n = 0 /\ n \in Nat \ {0}
  BY SetupsAssumption
<1>2. CASE r + 1 < RotationModulus
  <2>1. (r + 1) % RotationModulus = r + 1
    BY <1>1, <1>2
  <2> QED
    BY <1>1, <2>1
<1>3. CASE r + 1 = RotationModulus
  <2>1. (r + 1) % RotationModulus = 0
    BY <1>1, <1>3
  <2>2. (-1) % n = n - 1
    BY <1>1
  <2>3. 0 = Succ(r % n, n)
    <3>1. r \in Int /\ (r + 1) % n = 0
      BY <1>1, <1>3
    <3> QED
      BY <1>1, <3>1, NextRemainder
  <2>4. r % n \in 0..(n - 1)
    BY <1>1
  <2>5. r % n = n - 1
    BY <1>1, <2>3, <2>4 DEF Succ
  <2> QED
    BY <2>1, <2>2, <2>5
<1> QED
  BY <1>1, <1>2, <1>3

\* The candidates somebody may be led by, and the leading tier of them in order.
Open(q) == Among(Tiered(q), Backends \ limited)
Leaders(q) == {b \in ToSet(Open(q)) : \A c \in ToSet(Open(q)) : Tier[b] <= Tier[c]}
Row(q) == Among(Open(q), Leaders(q))

\* Who are among a list depends on its members only.
LEMMA AmongSame ==
  ASSUME NEW s \in Seq(Backends), NEW S, NEW T, \A b \in ToSet(s) : b \in S <=> b \in T
  PROVE  Among(s, S) = Among(s, T)
<1>1. {i \in DOMAIN s : s[i] \in S} = {i \in DOMAIN s : s[i] \in T}
  BY DEF ToSet
<1> QED
  BY <1>1 DEF Among

\* The first of a list stays the first.
LEMMA AmongFirst ==
  ASSUME NEW s \in Seq(Backends), s # <<>>, NEW S, s[1] \in S
  PROVE  Among(s, S) # <<>> /\ Among(s, S)[1] = s[1]
<1>1. PICK a, key : a = {i \in DOMAIN s : s[i] \in S} /\ key = [b \in Backends |-> 0]
  OBVIOUS
<1>2. Len(s) \in Nat /\ 1 \in 1..Len(s) /\ DOMAIN s = 1..Len(s) /\ \A i \in 1..Len(s) : s[i] \in Backends
  OBVIOUS
<1>3. a \in SUBSET (1..Len(s)) /\ 1 \in a /\ \A i \in a : key[s[i]] = 0
  BY <1>1, <1>2
<1>4. PICK f : Placing(f, s, a, key)
  <2>1. \A i \in a : key[s[i]] \in Int
    BY <1>3
  <2> QED
    BY <1>3, <2>1, ArrangedFacts
<1>5. PICK c \in Nat : c = Cardinality(a)
  BY <1>4 DEF Placing
<1>6. /\ f \in [1..c -> a] /\ Among(s, S) = [n \in 1..c |-> s[f[n]]]
      /\ \A i \in a : \E n \in 1..c : f[n] = i
      /\ \A m, n \in 1..c : m < n => key[s[f[m]]] < key[s[f[n]]] \/ f[m] < f[n]
  BY <1>1, <1>4, <1>5 DEF Placing, Among
<1>7. PICK n \in 1..c : f[n] = 1
  BY <1>3, <1>6
<1>8. 1 \in 1..c /\ f[1] \in a /\ f[n] \in a
  BY <1>6, <1>7
<1>9. f[1] = 1
  <2>1. 1 < n => f[1] < f[n]
    <3>1. key[s[f[1]]] = 0 /\ key[s[f[n]]] = 0
      BY <1>3, <1>8
    <3>2. 1 < n => key[s[f[1]]] < key[s[f[n]]] \/ f[1] < f[n]
      BY <1>6, <1>8
    <3> QED
      BY <3>1, <3>2
  <2>2. f[1] \in 1..Len(s)
    BY <1>3, <1>8
  <2> QED
    BY <1>2, <1>7, <1>8, <2>1, <2>2
<1>10. Among(s, S)[1] = s[1]
  BY <1>6, <1>8, <1>9
<1>11. Among(s, S) # <<>>
  <2>1. 1 \in DOMAIN Among(s, S)
    BY <1>6, <1>8
  <2> QED
    BY <2>1
<1> QED
  BY <1>10, <1>11

\* Taken from place i on, a list starts with what is at i.
LEMMA FromFirst ==
  ASSUME NEW s \in Seq(Backends), NEW i \in 1..Len(s)
  PROVE  From(s, i)[1] = s[i]
<1>1. PICK t, u : t = SubSeq(s, i, Len(s)) /\ u = SubSeq(s, 1, i - 1)
  OBVIOUS
<1>2. t \in Seq(Backends) /\ Len(t) = Len(s) - i + 1 /\ t[1] = s[i]
  BY <1>1
<1>3. u \in Seq(Backends)
  BY <1>1
<1>4. (t \o u)[1] = t[1]
  BY <1>2, <1>3
<1> QED
  BY <1>1, <1>2, <1>4 DEF From

\* Without `order' nobody is preferred.
LEMMA NonePreferred ==
  ASSUME setup \in Setups, NEW q, q.order = <<>>
  PROVE  /\ Preferred(q) = <<>> /\ Tiered(q) \in Seq(Backends) /\ Distinct(Tiered(q))
         /\ ToSet(Tiered(q)) = ToSet(Eligible(q))
<1>1. Preferred(q) = <<>>
  <2>1. PICK ls : ls = [i \in 1..Len(q.order) |->
                          Among(SortedBy(Eligible(q), Tier), {b \in Backends : Provider[b] = q.order[i]})]
    OBVIOUS
  <2>2. ls = <<>>
    BY <2>1
  <2>3. FlattenSeq(ls) = ls
    BY <2>2 DEF FlattenSeq
  <2> QED
    BY <2>1, <2>2, <2>3 DEF Preferred
<1>2. q.order \in Seq(ToSet(q.order))
  BY EmptySeq
<1>3. ToSet(Preferred(q)) = {}
  BY <1>1 DEF ToSet
<1> QED
  BY <1>1, <1>2, <1>3, TieredFacts

\* The row is the leading tier, each once.
LEMMA RowOfLeaders ==
  ASSUME setup \in Setups, NEW q, q.order \in Seq(ToSet(q.order))
  PROVE  /\ Open(q) \in Seq(Backends) /\ ToSet(Open(q)) = ToSet(Tiered(q)) \ limited
         /\ Row(q) \in Seq(Backends) /\ Distinct(Row(q)) /\ ToSet(Row(q)) = Leaders(q)
         /\ Len(Row(q)) \in 0..Len(Listed)
<1>1. Tiered(q) \in Seq(Backends) /\ Distinct(Tiered(q))
  BY TieredFacts
<1>2. /\ Open(q) \in Seq(Backends) /\ Distinct(Open(q))
      /\ ToSet(Open(q)) = ToSet(Tiered(q)) \intersect (Backends \ limited)
  BY <1>1, AmongFacts DEF Open
<1>3. ToSet(Tiered(q)) \subseteq Backends
  BY <1>1 DEF ToSet
<1>4. /\ Row(q) \in Seq(Backends) /\ Distinct(Row(q))
      /\ ToSet(Row(q)) = ToSet(Open(q)) \intersect Leaders(q)
  BY <1>2, AmongFacts DEF Row
<1>5. Leaders(q) \subseteq ToSet(Open(q))
  BY DEF Leaders
<1>6. Len(Row(q)) <= Len(Listed)
  <2>1. Cardinality(ToSet(Row(q))) = Len(Row(q)) /\ Cardinality(Backends) = Len(Listed)
    BY <1>4, ListedOnce, DistinctCount
  <2>2. IsFiniteSet(Backends)
    BY ListedOnce, MembersFinite
  <2>3. ToSet(Row(q)) \in SUBSET Backends
    BY <1>4 DEF ToSet
  <2>4. Cardinality(ToSet(Row(q))) <= Cardinality(Backends)
    BY <2>2, <2>3, FS_Subset
  <2> QED
    BY <2>1, <2>4
<1>7. Len(Row(q)) \in Nat /\ Len(Listed) \in Nat
  BY <1>4, ListedOnce
<1> QED
  BY <1>2, <1>3, <1>4, <1>5, <1>6, <1>7

\* A list for a plain request is led by the member of the row whose turn it is.
LEMMA LeaderInTurn ==
  ASSUME Typed, PassInv, EmitLegacy, Plain(req), freed = {}, Row(req) # <<>>
  PROVE  out' # <<>> /\ Head(out') = Row(req)[((rotation - 1) % Len(Row(req))) + 1]
<1>1. PICK s, r, t : s = Open(req) /\ r = Row(req) /\ t = Tiered(req)
  OBVIOUS
<1>2. setup \in Setups /\ req.order = <<>> /\ req.order \in Seq(ToSet(req.order))
  BY DEF Typed, Plain
<1>3. t \in Seq(Backends) /\ Preferred(req) = <<>>
  BY <1>1, <1>2, NonePreferred
<1>4. /\ s \in Seq(Backends) /\ ToSet(s) = ToSet(t) \ limited
      /\ r \in Seq(Backends) /\ ToSet(r) = Leaders(req) /\ r # <<>>
  BY <1>1, <1>2, RowOfLeaders
<1>5. Among(t, avail) = s
  <2>1. Answered(avail, ToSet(t))
    BY <1>1 DEF EmitLegacy, PassInv
  <2>2. ToSet(t) \subseteq Backends
    BY <1>3 DEF ToSet
  <2>3. \A b \in ToSet(t) : b \in avail <=> b \in Backends \ limited
    BY <2>1, <2>2 DEF Answered
  <2> QED
    BY <1>1, <1>3, <2>3, AmongSame DEF Open
<1>6. TierOrders(req) = {Tier}
  BY DEF Plain, TierOrders
<1>7. PICK tiers : /\ tiers \in LineUps(req, s, Tier)
                   /\ out' = Sort(req, Among(Preferred(req), flat)) \o tiers
                             \o Among(Preferred(req), limited) \o HeldByTier(held)
  BY <1>1, <1>5, <1>6 DEF EmitLegacy, Done
<1>8. tiers \in Seq(Backends) /\ ToSet(tiers) = ToSet(s)
  BY <1>4, <1>7, LineUpFacts
<1>9. /\ \A i, j \in DOMAIN tiers : i < j => Tier[tiers[i]] <= Tier[tiers[j]]
      /\ \A b \in ToSet(s) : OfTier(tiers, Tier[b]) \in Lined(req, OfTier(s, Tier[b]))
  BY <1>7 DEF LineUps
<1>10. tiers # <<>> /\ DOMAIN tiers = 1..Len(tiers) /\ Len(tiers) \in Nat /\ 1 \in 1..Len(tiers)
  <2>1. r[1] \in ToSet(r)
    BY <1>4 DEF ToSet
  <2>2. r[1] \in ToSet(tiers)
    BY <1>1, <1>4, <1>8, <2>1 DEF Leaders
  <2>3. DOMAIN tiers = 1..Len(tiers) /\ Len(tiers) \in Nat
    BY <1>8
  <2>4. 1 \in 1..Len(tiers)
    BY <2>2, <2>3 DEF ToSet
  <2> QED
    BY <2>3, <2>4
<1>11. PICK h : h = tiers[1] /\ h \in ToSet(s) /\ h \in Backends
  <2>1. tiers[1] \in ToSet(tiers)
    BY <1>10 DEF ToSet
  <2>2. tiers[1] \in Backends
    BY <1>8, <1>10
  <2> QED
    BY <1>8, <2>1, <2>2
<1>12. ASSUME NEW b \in ToSet(s)
       PROVE  Tier[h] <= Tier[b] /\ Tier[b] \in Nat /\ Tier[h] \in Nat
  <2>1. PICK j \in 1..Len(tiers) : tiers[j] = b
    BY <1>8, <1>10 DEF ToSet
  <2>2. b \in Backends
    BY <1>4 DEF ToSet
  <2>3. Tier[b] \in Nat /\ Tier[h] \in Nat
    BY <1>2, <1>11, <2>2, FactsAreNumbers
  <2>4. j = 1 \/ 1 < j
    BY <2>1
  <2> QED
    BY <1>9, <1>10, <1>11, <2>1, <2>3, <2>4
<1>13. PICK same : same = {b \in Backends : Tier[b] = Tier[h]}
  OBVIOUS
<1>14. Among(s, same) = r
  <2>1. \A b \in ToSet(s) : b \in same <=> b \in Leaders(req)
    <3>1. ToSet(s) \subseteq Backends
      BY <1>4 DEF ToSet
    <3> QED
      BY <1>1, <1>11, <1>12, <1>13, <3>1 DEF Leaders
  <2> QED
    BY <1>1, <1>4, <2>1, AmongSame DEF Row
<1>15. Lined(req, r) = {Rotated(r)}
  <2>1. \A b \in ToSet(r) : Fact(b).weight = 1
    <3>1. ToSet(r) \subseteq Backends
      BY <1>4 DEF ToSet
    <3> QED
      BY <3>1 DEF Plain
  <2> QED
    BY <2>1 DEF Lined, Plain
<1>16. Among(tiers, same) = Rotated(r)
  <2>1. OfTier(tiers, Tier[h]) = Among(tiers, same) /\ OfTier(s, Tier[h]) = Among(s, same)
    BY <1>13 DEF OfTier
  <2>2. OfTier(tiers, Tier[h]) \in Lined(req, OfTier(s, Tier[h]))
    BY <1>9, <1>11
  <2> QED
    BY <1>14, <1>15, <2>1, <2>2
<1>17. Among(tiers, same)[1] = h
  <2>1. tiers[1] \in same
    BY <1>11, <1>13
  <2> QED
    BY <1>8, <1>10, <1>11, <2>1, AmongFirst
<1>18. Rotated(r)[1] = r[((rotation - 1) % Len(r)) + 1]
  <2>1. Len(r) \in Nat \ {0}
    BY <1>4
  <2>2. PICK i : i = ((rotation - 1) % Len(r)) + 1
    OBVIOUS
  <2>3. i \in 1..Len(r)
    <3>1. rotation - 1 \in Int
      BY DEF Typed
    <3> QED
      BY <2>1, <2>2, <3>1
  <2>4. Rotated(r) = From(r, i)
    BY <1>4, <2>2 DEF Rotated
  <2> QED
    BY <1>4, <2>2, <2>3, <2>4, FromFirst
<1>19. out' # <<>> /\ Head(out') = h
  <2>1. Sort(req, Among(Preferred(req), flat)) = <<>> /\ Among(Preferred(req), limited) = <<>>
    <3>1. ASSUME NEW S
          PROVE  Among(<<>>, S) = <<>>
      <4>1. ToSet(<<>>) = {} /\ <<>> \in Seq(Backends)
        BY EmptySeq DEF ToSet
      <4>2. Among(<<>>, S) \in Seq(Backends) /\ ToSet(Among(<<>>, S)) = {}
        BY <4>1, AmongFacts
      <4>3. PICK l \in Seq(Backends) : l = Among(<<>>, S) /\ ToSet(l) = {}
        BY <4>2
      <4>4. l # <<>> => l[1] \in ToSet(l)
        BY DEF ToSet
      <4> QED
        BY <4>3, <4>4
    <3>2. req.sort = "none"
      BY DEF Plain
    <3> QED
      BY <1>3, <3>1, <3>2 DEF Sort
  <2>2. HeldByTier(held) \in Seq(Backends)
    BY HeldFacts
  <2>3. PICK g \in Seq(Backends) : g = HeldByTier(held)
    BY <2>2
  <2>4. out' = ((<<>> \o tiers) \o <<>>) \o g
    BY <1>7, <2>1, <2>3
  <2>5. out' = tiers \o g
    BY <1>8, <2>3, <2>4, ConcatEmptySeq
  <2> QED
    BY <1>8, <1>10, <1>11, <2>5
<1> QED
  BY <1>1, <1>16, <1>17, <1>18, <1>19

\* Those of f have their places in the row one after the other, and the next
\* place is `next'.
Turns(f, row, next) ==
  \E p \in [1..Len(f) -> 0..(Len(row) - 1)] :
    /\ \A i \in 1..Len(f) : f[i] = row[p[i] + 1]
    /\ \A i \in 1..(Len(f) - 1) : p[i + 1] = Succ(p[i], Len(row))
    /\ next = Succ(p[Len(f)], Len(row))

\* The next in turn goes on with the turns.
LEMMA TurnsGoOn ==
  ASSUME NEW f \in Seq(Backends), NEW row \in Seq(Backends), row # <<>>,
         NEW next \in 0..(Len(row) - 1), NEW h, h = row[next + 1],
         f # <<>> => Turns(f, row, next)
  PROVE  Turns(Append(f, h), row, Succ(next, Len(row)))
<1>1. PICK n \in Nat \ {0} : n = Len(row)
  OBVIOUS
<1>2. PICK m \in Nat : m = Len(f)
  OBVIOUS
<1>3. PICK g : g = Append(f, h) /\ Len(g) = m + 1 /\ g[m + 1] = h /\ \A i \in 1..m : g[i] = f[i]
  <2>1. next + 1 \in 1..Len(row)
    BY <1>1
  <2>2. h \in Backends
    BY <2>1
  <2>3. /\ Len(Append(f, h)) = m + 1 /\ Append(f, h)[m + 1] = h
        /\ \A i \in 1..m : Append(f, h)[i] = f[i]
    BY <1>2, <2>2, AppendProperties
  <2> QED
    BY <2>3
<1>4. PICK p \in [1..m -> 0..(n - 1)] :
        /\ \A i \in 1..m : f[i] = row[p[i] + 1]
        /\ \A i \in 1..(m - 1) : p[i + 1] = Succ(p[i], n)
        /\ m # 0 => next = Succ(p[m], n)
  <2>1. CASE m = 0
    <3>1. PICK p : p = [i \in 1..0 |-> 0]
      OBVIOUS
    <3>2. p \in [1..m -> 0..(n - 1)]
      BY <2>1, <3>1
    <3>3. /\ \A i \in 1..m : f[i] = row[p[i] + 1]
          /\ \A i \in 1..(m - 1) : p[i + 1] = Succ(p[i], n)
      BY <2>1
    <3> QED
      BY <2>1, <3>2, <3>3
  <2>2. CASE m # 0
    <3>1. Turns(f, row, next)
      BY <1>2, <2>2
    <3> QED
      BY <1>1, <1>2, <3>1 DEF Turns
  <2> QED
    BY <2>1, <2>2
<1>5. PICK r : r = [i \in 1..(m + 1) |-> IF i <= m THEN p[i] ELSE next]
  OBVIOUS
<1>6. r \in [1..(m + 1) -> 0..(n - 1)]
  BY <1>1, <1>5
<1>7. \A i \in 1..m : r[i] = p[i]
  BY <1>5
<1>8. r[m + 1] = next
  BY <1>5
<1>9. \A i \in 1..(m + 1) : g[i] = row[r[i] + 1]
  <2>1. ASSUME NEW i \in 1..(m + 1)
        PROVE  g[i] = row[r[i] + 1]
    <3>1. CASE i = m + 1
      BY <1>3, <1>8, <3>1
    <3>2. CASE i # m + 1
      <4>1. i \in 1..m
        BY <3>2
      <4> QED
        BY <1>3, <1>4, <1>7, <4>1
    <3> QED
      BY <3>1, <3>2
  <2> QED
    BY <2>1
<1>10. \A i \in 1..m : r[i + 1] = Succ(r[i], n)
  <2>1. ASSUME NEW i \in 1..m
        PROVE  r[i + 1] = Succ(r[i], n)
    <3>1. CASE i = m
      <4>1. r[m] = p[m] /\ r[m + 1] = next
        BY <1>7, <1>8, <2>1, <3>1
      <4> QED
        BY <1>4, <2>1, <3>1, <4>1
    <3>2. CASE i # m
      <4>1. i \in 1..(m - 1) /\ i + 1 \in 1..m
        BY <3>2
      <4>2. r[i] = p[i] /\ r[i + 1] = p[i + 1]
        BY <1>7, <2>1, <4>1
      <4> QED
        BY <1>4, <4>1, <4>2
    <3> QED
      BY <3>1, <3>2
  <2> QED
    BY <2>1
<1>11. Turns(g, row, Succ(next, n))
  <2>1. /\ r \in [1..Len(g) -> 0..(Len(row) - 1)]
        /\ \A i \in 1..Len(g) : g[i] = row[r[i] + 1]
        /\ \A i \in 1..(Len(g) - 1) : r[i + 1] = Succ(r[i], Len(row))
        /\ Succ(next, n) = Succ(r[Len(g)], Len(row))
    <3>1. Len(g) = m + 1 /\ Len(g) - 1 = m
      BY <1>3
    <3> QED
      BY <1>1, <1>6, <1>8, <1>9, <1>10, <3>1
  <2> QED
    BY <2>1 DEF Turns
<1> QED
  BY <1>1, <1>3, <1>11

\* The first of them may be forgotten.
LEMMA TurnsForget ==
  ASSUME NEW f \in Seq(Backends), Len(f) > 1, NEW row \in Seq(Backends), NEW next,
         Turns(f, row, next)
  PROVE  Turns(Tail(f), row, next)
<1>1. PICK m \in Nat : m = Len(f) /\ m > 1
  OBVIOUS
<1>2. PICK g : g = Tail(f) /\ Len(g) = m - 1 /\ \A i \in 1..(m - 1) : g[i] = f[i + 1]
  <2>1. f # <<>>
    BY EmptySeq
  <2>2. Len(Tail(f)) = m - 1 /\ \A i \in 1..(m - 1) : Tail(f)[i] = f[i + 1]
    BY <1>1, <2>1, HeadTailProperties
  <2> QED
    BY <2>2
<1>3. PICK n : n = Len(row)
  OBVIOUS
<1>4. PICK p \in [1..m -> 0..(n - 1)] :
        /\ \A i \in 1..m : f[i] = row[p[i] + 1]
        /\ \A i \in 1..(m - 1) : p[i + 1] = Succ(p[i], n)
        /\ next = Succ(p[m], n)
  BY <1>1, <1>3 DEF Turns
<1>5. PICK r : r = [i \in 1..(m - 1) |-> p[i + 1]]
  OBVIOUS
<1>6. \A i \in 1..(m - 1) : i + 1 \in 1..m
  OBVIOUS
<1>7. r \in [1..(m - 1) -> 0..(n - 1)]
  BY <1>4, <1>5, <1>6
<1>8. \A i \in 1..(m - 1) : g[i] = row[r[i] + 1]
  BY <1>2, <1>4, <1>5, <1>6
<1>9. \A i \in 1..(m - 2) : r[i + 1] = Succ(r[i], n)
  <2>1. ASSUME NEW i \in 1..(m - 2)
        PROVE  r[i + 1] = Succ(r[i], n)
    <3>1. i + 1 \in 1..(m - 1) /\ i \in 1..(m - 1)
      OBVIOUS
    <3>2. r[i + 1] = p[(i + 1) + 1] /\ r[i] = p[i + 1]
      BY <1>5, <3>1
    <3> QED
      BY <1>4, <3>1, <3>2
  <2> QED
    BY <2>1
<1>10. r[m - 1] = p[m]
  <2>1. m - 1 \in 1..(m - 1) /\ (m - 1) + 1 = m
    BY <1>1
  <2> QED
    BY <1>5, <2>1
<1>11. /\ r \in [1..Len(g) -> 0..(Len(row) - 1)]
       /\ \A i \in 1..Len(g) : g[i] = row[r[i] + 1]
       /\ \A i \in 1..(Len(g) - 1) : r[i + 1] = Succ(r[i], Len(row))
       /\ next = Succ(r[Len(g)], Len(row))
  BY <1>1, <1>2, <1>3, <1>4, <1>7, <1>8, <1>9, <1>10
<1> QED
  BY <1>2, <1>11 DEF Turns

\* d places after v, and the place after that.
LEMMA PlacesOn ==
  ASSUME NEW n \in Nat, NEW v \in 0..(n - 1), NEW d \in Nat, d + 1 < n
  PROVE  Succ(IF v + d < n THEN v + d ELSE v + d - n, n)
           = IF v + (d + 1) < n THEN v + (d + 1) ELSE v + (d + 1) - n
<1>1. CASE v + d + 1 < n
  BY <1>1 DEF Succ
<1>2. CASE v + d + 1 = n
  BY <1>2 DEF Succ
<1>3. CASE v + d + 1 > n
  BY <1>3 DEF Succ
<1> QED
  BY <1>1, <1>2, <1>3

\* Closer than the length of the row, two of them differ.
LEMMA TurnsDiffer ==
  ASSUME NEW f \in Seq(Backends), NEW row \in Seq(Backends), Distinct(row), NEW next,
         Turns(f, row, next), NEW i \in 1..Len(f), NEW j \in 1..Len(f), i < j,
         j < i + Len(row)
  PROVE  f[i] # f[j]
<1>1. PICK n \in Nat : n = Len(row)
  OBVIOUS
<1>2. PICK m \in Nat : m = Len(f)
  OBVIOUS
<1>3. PICK p \in [1..m -> 0..(n - 1)] :
        /\ \A k \in 1..m : f[k] = row[p[k] + 1]
        /\ \A k \in 1..(m - 1) : p[k + 1] = Succ(p[k], n)
  BY <1>1, <1>2 DEF Turns
<1> DEFINE D == j - i
           Off(d) == IF p[i] + d < n THEN p[i] + d ELSE p[i] + d - n
           E == {d \in 0..D : p[i + d] = Off(d)}
<1>4. D \in Nat /\ D < n /\ D > 0 /\ i + D = j /\ i \in 1..m /\ j \in 1..m
  BY <1>1, <1>2
<1>5. p[i] \in 0..(n - 1)
  BY <1>3, <1>4
<1>6. 0 \in E
  BY <1>4, <1>5
<1>7. ASSUME NEW d \in 0..(D - 1), d \in E
      PROVE  d + 1 \in E
  <2>1. i + d \in 1..(m - 1) /\ d \in Nat /\ d + 1 < n /\ d + 1 \in 0..D
    BY <1>4
  <2>2. p[i + d] = Off(d)
    BY <1>7
  <2>3. p[(i + d) + 1] = Succ(p[i + d], n)
    BY <1>3, <2>1
  <2>4. (i + d) + 1 = i + (d + 1)
    BY <1>4, <2>1
  <2>5. Succ(Off(d), n) = Off(d + 1)
    BY <1>1, <1>5, <2>1, PlacesOn
  <2> QED
    BY <2>1, <2>2, <2>3, <2>4, <2>5
<1>8. E \in SUBSET (0..D)
  OBVIOUS
<1> HIDE DEF E
<1>9. E = 0..D
  <2> HIDE DEF D
  <2> QED
    BY <1>4, <1>6, <1>7, <1>8, Upto
<1>10. p[j] = Off(D)
  <2>1. D \in E
    BY <1>4, <1>9
  <2> QED
    BY <1>4, <2>1 DEF E
<1>11. p[i] # p[j]
  BY <1>4, <1>5, <1>10
<1>12. row[p[i] + 1] # row[p[j] + 1]
  <2>1. p[i] + 1 \in DOMAIN row /\ p[j] + 1 \in DOMAIN row /\ p[i] + 1 # p[j] + 1
    <3>1. DOMAIN row = 1..n
      BY <1>1
    <3>2. p[i] \in 0..(n - 1) /\ p[j] \in 0..(n - 1)
      BY <1>3, <1>4
    <3> QED
      BY <1>11, <3>1, <3>2
  <2> QED
    BY <2>1 DEF Distinct
<1> QED
  BY <1>3, <1>4, <1>12

\* Whose turn it is in the row.
Turn(q) == (IF stage = "idle" THEN rotation ELSE rotation - 1) % Len(Row(q))

\* The latest plain calls were led by the row in turn, and the call that is
\* finished goes on with that.
FairInv ==
  /\ firsts \in Seq(Backends)
  /\ stage = "idle" => freed = {}
  /\ Plain(req) /\ freed = {} /\ Row(req) # <<>> =>
       /\ firsts # <<>> => Turns(firsts, Row(req), Turn(req))
       /\ stage = "done" => out # <<>> /\ Head(out) = Row(req)[Turn(req) + 1]

\* While the exclusions stay, too, a request keeps its row.
LEMMA SameRow ==
  ASSUME setup' = setup, limited' = limited, NEW q, req' = q
  PROVE  Row(req)' = Row(q) /\ Plain(req)' = Plain(q)
<1>1. Open(req)' = Open(q)
  BY SameLists DEF Open
<1>2. Leaders(req)' = Leaders(q)
  BY <1>1 DEF Leaders, Tier, Fact
<1>3. Plain(req)' = Plain(q)
  BY SameLists DEF Plain, Fact
<1> QED
  BY <1>1, <1>2, <1>3 DEF Row

\* A step in a call leaves the turns alone.
LEMMA TurnsKept ==
  ASSUME Typed, FairInv, UNCHANGED <<setup, limited, req, freed, rotation, firsts>>,
         (stage = "idle") = (stage' = "idle"),
         stage' = "done" /\ Plain(req) /\ freed = {} /\ Row(req) # <<>> =>
           out' # <<>> /\ Head(out') = Row(req)[Turn(req) + 1]
  PROVE  FairInv'
<1>1. Row(req)' = Row(req) /\ Plain(req)' = Plain(req)
  BY SameRow
<1>2. Turn(req)' = Turn(req)
  BY <1>1 DEF Turn
<1>3. Turns(firsts, Row(req), Turn(req))' = Turns(firsts, Row(req), Turn(req))
  BY <1>1, <1>2 DEF Turns
<1> QED
  BY <1>1, <1>2, <1>3 DEF FairInv

\* A plain call takes the next turn.
LEMMA CallTakesTurn ==
  ASSUME Typed, FairInv, NEW q \in Requests, NEW l \in Loads, Call(q, l)
  PROVE  FairInv'
<1>1. setup \in Setups /\ q.order \in Seq(ToSet(q.order)) /\ req' = q /\ freed' = {}
  BY RequestsAssumption DEF Typed, Call
<1>2. Row(req)' = Row(q) /\ Plain(req)' = Plain(q)
  BY SameRow DEF Call
<1>3. firsts' = <<>> \/ (q = req /\ firsts' = firsts)
  BY DEF Call
<1>4. firsts' \in Seq(Backends) /\ stage' # "idle"
  <2>1. firsts' = <<>> => firsts' \in Seq(Backends)
    BY EmptySeq
  <2>2. stage' # "idle"
    BY DEF Call, Done
  <2> QED
    BY <1>3, <2>1, <2>2 DEF FairInv
<1>5. ASSUME Plain(q), Row(q) # <<>>
      PROVE  /\ firsts' # <<>> => Turns(firsts', Row(q), (rotation' - 1) % Len(Row(q)))
             /\ stage' # "done"
  <2>1. q.order = <<>>
    BY <1>5 DEF Plain
  <2>2. /\ Row(q) \in Seq(Backends) /\ ToSet(Row(q)) \subseteq ToSet(Eligible(q))
        /\ Len(Row(q)) \in 1..Len(Listed)
    <3>1. ToSet(Tiered(q)) = ToSet(Eligible(q))
      BY <1>1, <2>1, NonePreferred
    <3>2. /\ ToSet(Open(q)) = ToSet(Tiered(q)) \ limited
          /\ Row(q) \in Seq(Backends) /\ ToSet(Row(q)) = Leaders(q)
          /\ Len(Row(q)) \in 0..Len(Listed)
      BY <1>1, RowOfLeaders
    <3>3. Len(Row(q)) # 0
      BY <1>5, <3>2
    <3>4. Leaders(q) \subseteq ToSet(Open(q))
      BY DEF Leaders
    <3> QED
      BY <3>1, <3>2, <3>3, <3>4
  <2>3. Eligible(q) # <<>>
    <3>1. Row(q)[1] \in ToSet(Row(q))
      BY <2>2 DEF ToSet
    <3>2. ToSet(Eligible(q)) # {}
      BY <2>2, <3>1
    <3> QED
      BY <3>2 DEF ToSet
  <2>4. ~OnlyPreferred(q)
    BY <1>1, <2>1, NonePreferred DEF OnlyPreferred
  <2>5. stage' = "tiers" /\ rotation' = (rotation + 1) % RotationModulus /\ stage = "idle"
    BY <2>3, <2>4 DEF Call
  <2>6. (rotation' - 1) % Len(Row(q)) = rotation % Len(Row(q))
    BY <2>2, <2>5, CounterSteps DEF Typed
  <2>7. ASSUME firsts' # <<>>
        PROVE  Turns(firsts', Row(q), rotation % Len(Row(q)))
    <3>1. q = req /\ firsts' = firsts
      BY <1>3, <2>7
    <3>2. Plain(req) /\ freed = {} /\ Row(req) # <<>> /\ firsts # <<>>
      BY <1>5, <2>5, <2>7, <3>1 DEF FairInv
    <3>3. Turns(firsts, Row(req), Turn(req))
      BY <3>2 DEF FairInv
    <3>4. Turn(req) = rotation % Len(Row(q))
      BY <2>5, <3>1 DEF Turn
    <3> QED
      BY <3>1, <3>3, <3>4
  <2> QED
    BY <2>5, <2>6, <2>7
<1>6. Turn(req)' = (rotation' - 1) % Len(Row(q))
  BY <1>2, <1>4 DEF Turn
<1>7. \A n : Turns(firsts, Row(req), n)' = Turns(firsts', Row(q), n)
  BY <1>2 DEF Turns
<1> QED
  BY <1>1, <1>2, <1>4, <1>5, <1>6, <1>7 DEF FairInv

\* The finished call joins the turns.
LEMMA ReturnJoinsTurns ==
  ASSUME Typed, FairInv, Return
  PROVE  FairInv'
<1>1. /\ stage = "done" /\ stage' = "idle" /\ freed' = {} /\ setup' = setup
      /\ limited' = limited /\ rotation' = rotation
  BY DEF Return
<1>2. CASE firsts' = <<>>
  <2>1. firsts' \in Seq(Backends)
    BY <1>2, EmptySeq
  <2> QED
    BY <1>1, <1>2, <2>1 DEF FairInv
<1>3. CASE firsts' # <<>>
  <2>1. PICK s : s = Append(firsts, Head(out))
    OBVIOUS
  <2>2. /\ Plain(req) /\ out # <<>> /\ req' = req /\ freed = {}
        /\ firsts' = IF Len(s) > Len(Listed) THEN Tail(s) ELSE s
    BY <1>3, <2>1 DEF Return
  <2>3. Head(out) \in Backends
    BY <2>2, HeadTailProperties DEF Typed
  <2>4. s \in Seq(Backends) /\ s # <<>>
    BY <2>1, <2>3, AppendProperties DEF FairInv
  <2>5. firsts' \in Seq(Backends)
    BY <2>2, <2>4, HeadTailProperties
  <2>6. Row(req)' = Row(req) /\ Plain(req)' = Plain(req)
    BY <1>1, <2>2, SameRow
  <2>7. ASSUME Row(req) # <<>>
        PROVE  Turns(firsts', Row(req), rotation % Len(Row(req)))
    <3>1. PICK row, n : row = Row(req) /\ n = Len(Row(req))
      OBVIOUS
    <3>2. setup \in Setups /\ req.order \in Seq(ToSet(req.order))
      BY DEF Typed
    <3>3. row \in Seq(Backends) /\ n \in 0..Len(Listed) /\ n = Len(row) /\ row # <<>>
      BY <2>7, <3>1, <3>2, RowOfLeaders
    <3>4. n \in Nat \ {0} /\ n <= Len(Listed) /\ Len(Listed) \in Nat
      BY <3>3, ListedOnce
    <3>5. PICK x \in Int : x = rotation - 1 /\ rotation = x + 1
      BY SetupsAssumption DEF Typed
    <3>6. PICK turn \in 0..(n - 1) : turn = x % n
      BY <3>4, <3>5
    <3>7. Turn(req) = turn
      BY <1>1, <3>1, <3>5, <3>6 DEF Turn
    <3>8. /\ firsts \in Seq(Backends)
          /\ firsts # <<>> => Turns(firsts, row, turn)
          /\ Head(out) = row[turn + 1]
      BY <1>1, <2>2, <2>7, <3>1, <3>7 DEF FairInv
    <3>9. Turns(s, row, Succ(turn, n))
      <4>1. turn \in 0..(Len(row) - 1)
        BY <3>3
      <4>2. Turns(Append(firsts, Head(out)), row, Succ(turn, Len(row)))
        BY <3>3, <3>8, <4>1, TurnsGoOn
      <4> QED
        BY <2>1, <3>3, <4>2
    <3>10. rotation % n = Succ(turn, n)
      BY <3>4, <3>5, <3>6, NextRemainder
    <3>11. Len(s) > Len(Listed) => Turns(Tail(s), row, Succ(turn, n))
      <4>1. Len(s) > Len(Listed) => Len(s) > 1
        BY <2>4, <3>4
      <4> QED
        BY <2>4, <3>3, <3>9, <4>1, TurnsForget
    <3> QED
      BY <2>2, <3>1, <3>9, <3>10, <3>11
  <2>8. Turn(req)' = rotation % Len(Row(req))
    BY <1>1, <2>6 DEF Turn
  <2>9. \A n : Turns(firsts, Row(req), n)' = Turns(firsts', Row(req), n)
    BY <2>6 DEF Turns
  <2> QED
    BY <1>1, <2>5, <2>6, <2>7, <2>8, <2>9 DEF FairInv
<1> QED
  BY <1>2, <1>3

\* Every step keeps the turns.
LEMMA FairStep ==
  ASSUME Typed, PassInv, FairInv, [Next]_vars
  PROVE  FairInv'
<1>1. ASSUME firsts' = <<>>, stage' = "idle", freed' = {}
      PROVE  FairInv'
  <2>1. firsts' \in Seq(Backends)
    BY <1>1, EmptySeq
  <2> QED
    BY <1>1, <2>1 DEF FairInv
<1>2. CASE \/ \E b \in Backends : Exclude(b)
           \/ \E b \in Backends, cached, written \in BOOLEAN : Served(b, cached, written)
           \/ Cool
  <2>1. firsts' = <<>> /\ stage' = "idle" /\ freed' = freed /\ stage = "idle"
    BY <1>2 DEF Exclude, Served, Cool, locals
  <2> QED
    BY <1>1, <2>1 DEF FairInv
<1>3. ASSUME NEW S \in SUBSET Backends, Elapse(S)
      PROVE  FairInv'
  <2>1. CASE stage = "idle"
    <3>1. firsts' = <<>> /\ stage' = "idle" /\ freed' = freed
      BY <1>3, <2>1 DEF Elapse
    <3> QED
      BY <1>1, <2>1, <3>1 DEF FairInv
  <2>2. CASE stage # "idle"
    <3>1. firsts' = firsts /\ stage' # "idle" /\ freed' # {}
      BY <1>3, <2>2 DEF Elapse
    <3> QED
      BY <3>1 DEF FairInv
  <2> QED
    BY <2>1, <2>2
<1>4. ASSUME NEW q \in Requests, NEW l \in Loads, Call(q, l)
      PROVE  FairInv'
  BY <1>4, CallTakesTurn
<1>5. CASE AskAvailable \/ AskLimited \/ AskPreferred
  <2>1. /\ UNCHANGED <<setup, limited, req, freed, rotation, firsts>>
        /\ stage # "idle" /\ stage' # "idle" /\ stage' # "done"
    BY <1>5 DEF AskAvailable, AskLimited, AskPreferred, world
  <2> QED
    BY <2>1, TurnsKept
<1>6. CASE EmitOnly
  <2>1. /\ UNCHANGED <<setup, limited, req, freed, rotation, firsts>>
        /\ stage = "only2" /\ stage' = "done"
    BY <1>6 DEF EmitOnly, Done, world
  <2>2. ~Plain(req)
    <3>1. Preferred(req) # <<>>
      BY <2>1 DEF PassInv, OnlyPreferred
    <3> QED
      BY <3>1, NonePreferred DEF Plain, Typed
  <2> QED
    BY <2>1, <2>2, TurnsKept
<1>7. CASE EmitByAffinity
  <2>1. /\ UNCHANGED <<setup, limited, req, freed, rotation, firsts>>
        /\ stage = "emit" /\ stage' = "done"
    BY <1>7 DEF EmitByAffinity, Done
  <2>2. ~Plain(req)
    BY <1>7 DEF EmitByAffinity, Plain
  <2> QED
    BY <2>1, <2>2, TurnsKept
<1>8. CASE EmitLegacy
  <2>1. /\ UNCHANGED <<setup, limited, req, freed, rotation, firsts>>
        /\ stage = "emit" /\ stage' = "done"
    BY <1>8 DEF EmitLegacy, Done
  <2>2. Plain(req) /\ freed = {} /\ Row(req) # <<>> =>
          out' # <<>> /\ Head(out') = Row(req)[Turn(req) + 1]
    <3>1. Turn(req) = (rotation - 1) % Len(Row(req))
      BY <2>1 DEF Turn
    <3> QED
      BY <1>8, <3>1, LeaderInTurn
  <2> QED
    BY <2>1, <2>2, TurnsKept
<1>9. CASE Return
  BY <1>9, ReturnJoinsTurns
<1>10. CASE UNCHANGED vars
  <2>1. /\ UNCHANGED <<setup, limited, req, freed, rotation, firsts>>
        /\ stage' = stage /\ out' = out
    BY <1>10 DEF vars
  <2>2. stage' = "done" /\ Plain(req) /\ freed = {} /\ Row(req) # <<>> =>
          out' # <<>> /\ Head(out') = Row(req)[Turn(req) + 1]
    BY <2>1 DEF FairInv
  <2> QED
    BY <2>1, <2>2, TurnsKept
<1> QED
  BY <1>2, <1>3, <1>4, <1>5, <1>6, <1>7, <1>8, <1>9, <1>10 DEF Next

\* select_backends() is fair to the leading tier: as many equal plain calls as
\* it has routable backends, with nothing in between, are led by different ones,
\* also when the rotation counter starts anew.
THEOREM RotationFair == Spec => []RotationIsFair
<1>1. Init => FairInv
  <2>1. Init => firsts = <<>> /\ firsts \in Seq(Backends) /\ freed = {} /\ stage = "idle"
    BY EmptySeq DEF Init
  <2> QED
    BY <2>1 DEF FairInv
<1>2. IInv /\ FairInv /\ [Next]_vars => FairInv'
  BY FairStep DEF IInv
<1>3. IInv /\ FairInv => RotationIsFair
  <2>1. SUFFICES ASSUME IInv, FairInv, stage = "idle", Plain(req)
                 PROVE  LET open == ToSet(Eligible(req)) \ limited
                            leaders == {b \in open : \A c \in open : Tier[b] <= Tier[c]}
                        IN  \A i, j \in 1..Len(firsts) :
                              i < j /\ j < i + Cardinality(leaders) => firsts[i] # firsts[j]
    BY DEF RotationIsFair
  <2>2. PICK row : row = Row(req)
    OBVIOUS
  <2>3. PICK open, leaders : /\ open = ToSet(Eligible(req)) \ limited
                             /\ leaders = {b \in open : \A c \in open : Tier[b] <= Tier[c]}
    OBVIOUS
  <2>4. setup \in Setups /\ req.order = <<>> /\ req.order \in Seq(ToSet(req.order))
    BY <2>1 DEF IInv, Typed, Plain
  <2>5. row \in Seq(Backends) /\ Distinct(row) /\ ToSet(row) = leaders
    <3>1. ToSet(Tiered(req)) = ToSet(Eligible(req))
      BY <2>4, NonePreferred
    <3>2. ToSet(Open(req)) = open /\ ToSet(row) = Leaders(req)
      BY <2>2, <2>3, <2>4, <3>1, RowOfLeaders
    <3>3. Leaders(req) = leaders
      BY <2>3, <3>2 DEF Leaders
    <3> QED
      BY <2>2, <2>4, <3>2, <3>3, RowOfLeaders
  <2>6. Cardinality(leaders) = Len(row) /\ Len(row) \in Nat
    BY <2>5, DistinctCount
  <2>7. ASSUME NEW i \in 1..Len(firsts), NEW j \in 1..Len(firsts), i < j, j < i + Len(row)
        PROVE  firsts[i] # firsts[j]
    <3>1. row # <<>> /\ firsts # <<>>
      BY <2>6, <2>7, EmptySeq
    <3>2. firsts \in Seq(Backends) /\ Turns(firsts, row, Turn(req))
      BY <2>1, <2>2, <3>1 DEF FairInv
    <3> QED
      BY <2>5, <2>7, <3>2, TurnsDiffer
  <2> QED
    BY <2>3, <2>6, <2>7
<1> QED
  BY <1>1, <1>2, <1>3, Invariant, PTL DEF Spec
-----------------------------------------------------------------------------
(* What the router takes as out of service: the snoozes of ratelimit.py.     *)

Files == [ok : BOOLEAN, perm : SUBSET Names, left : [Names -> Nat]]
Saves  == [pc : {"saving", "closing"}, hold : SUBSET Providers, freed : SUBSET Names]
Moves  == {m \in [pc : {"renaming"}, from : Names, to : Names] : m.from # m.to}

SnoozeTyped ==
  /\ name \in Injective /\ cut \in BOOLEAN
  /\ up \in [Procs -> BOOLEAN]
  /\ perm \in [Procs -> SUBSET Names] /\ left \in [Procs -> [Names -> Nat]]
  /\ file \in Files /\ asked \in [Names -> Nat]
  /\ job \in [Procs -> {Idle} \union Saves \union Moves]
  /\ hold \in SUBSET Providers

Below(f) == \A k \in Names : f[k] <= asked[k]

\* Every snoozed name is the name of a backend.
InUse == \A k \in perm[Worker] : \E b \in Providers : name[b] = k

\* Between two saves the file says what memory does.
AtRest == file.perm = perm[Worker] /\ Below(file.left)

Resting == AtRest /\ InUse /\ hold = Named(perm[Worker])

Saving(j) ==
  /\ InUse /\ j.hold = Named(perm[Worker])
  /\ \A k \in j.freed : left[Worker][k] = 0

\* The configuration has the new name already, the memory still the old one.
Renaming(j) ==
  /\ AtRest /\ j.to \notin perm[Worker]
  /\ \A b \in Providers : name[b] # j.from
  /\ \E b \in Providers : name[b] = j.to
  /\ \A k \in perm[Worker] : k = j.from \/ \E b \in Providers : name[b] = k
  /\ \A b \in Providers :
       b \in hold <=> IF name[b] = j.to THEN j.from \in perm[Worker] ELSE name[b] \in perm[Worker]

\* The inductive invariant: what is confirmed follows memory only because no
\* name outlives its backend, and the file may lag only inside a request.
Kept ==
  /\ Below(left[Worker])
  /\ job[Worker] = Idle => Resting
  /\ job[Worker].pc \in {"saving", "closing"} => Saving(job[Worker])
  /\ job[Worker].pc = "renaming" => Renaming(job[Worker])

SnoozeIInv == SnoozeTyped /\ (up[Worker] \/ job[Worker] = Idle) /\ (~cut => Kept)

-----------------------------------------------------------------------------
(* Saves. *)

\* save() begins with what memory holds by then.
LEMMA SaveBegins ==
  ASSUME Procs = {Worker}, SnoozeIInv, up[Worker], NEW h \in SUBSET Providers, NEW f \in SUBSET Names,
         SaveFor(Worker, h, f), UNCHANGED <<name, up, hold, cut>>,
         perm' \in [Procs -> SUBSET Names], left' \in [Procs -> [Names -> Nat]],
         asked' \in [Names -> Nat],
         ~cut => InUse' /\ Below(left[Worker])' /\ h = Named(perm'[Worker]),
         \A k \in f : left'[Worker][k] = 0
  PROVE  SnoozeIInv'
<1> DEFINE j == [pc |-> "saving", hold |-> h, freed |-> f]
<1>1. j \in Saves /\ j.pc = "saving" /\ j.hold = h /\ j.freed = f /\ j # Idle
  BY DEF Saves, Idle
<1>2. /\ job' = [job EXCEPT ![Worker] = j] /\ file' \in Files
  BY DEF SaveFor, Torn, None, Files
<1> HIDE DEF j
<1>3. job'[Worker] = j /\ SnoozeTyped'
  BY <1>1, <1>2 DEF SnoozeIInv, SnoozeTyped
<1>4. ASSUME ~cut PROVE Saving(j)'
  BY <1>1, <1>3, <1>4 DEF Saving, Named
<1> QED
  BY <1>1, <1>3, <1>4 DEF SnoozeIInv, Kept

\* And ends with the file as memory is, and the request confirmed.
LEMMA WrittenKeeps ==
  ASSUME Procs = {Worker}, SnoozeIInv, Written(Worker)
  PROVE  SnoozeIInv'
<1> DEFINE j == job[Worker]
<1>1. j \in Saves /\ j.pc \in {"saving", "closing"}
  BY DEF SnoozeIInv, SnoozeTyped, Written, Idle, Moves
<1>2. /\ name \in Injective /\ cut \in BOOLEAN /\ j.hold \in SUBSET Providers
      /\ perm[Worker] \in SUBSET Names /\ left[Worker] \in [Names -> Nat]
      /\ asked \in [Names -> Nat]
  BY <1>1 DEF SnoozeIInv, SnoozeTyped, Saves
<1>3. /\ file'.perm = perm[Worker]
      /\ file'.left = [k \in Names |-> IF k \in perm[Worker] THEN 0 ELSE left[Worker][k]]
      /\ file' \in Files
  BY <1>2 DEF Written, Image, Files
<1>4. /\ hold' = j.hold /\ job'[Worker] = Idle /\ up' \in [Procs -> BOOLEAN]
      /\ job' = [job EXCEPT ![Worker] = Idle] /\ UNCHANGED <<name, perm, left, cut>>
      /\ asked' = [k \in Names |-> IF k \in j.freed THEN 0 ELSE asked[k]]
  BY DEF Written, SnoozeIInv, SnoozeTyped, memory
<1>5. asked' \in [Names -> Nat]
  BY <1>2, <1>4
<1>6. SnoozeTyped'
  BY <1>2, <1>3, <1>4, <1>5 DEF SnoozeIInv, SnoozeTyped
<1>7. ASSUME ~cut PROVE Kept'
  <2>1. Saving(j) /\ Below(left[Worker])
    BY <1>1, <1>7 DEF SnoozeIInv, Kept
  <2>2. InUse' /\ hold' = Named(perm[Worker])'
    BY <2>1, <1>4 DEF Saving, InUse, Named
  <2>3. Below(file.left)'
    BY <1>2, <1>3, <1>4, <1>5, <2>1 DEF Below, Saving
  <2>4. Below(left[Worker])'
    BY <1>1, <1>2, <1>4, <2>1 DEF Below, Saving, Saves
  <2> QED
    BY <1>3, <1>4, <2>2, <2>3, <2>4 DEF Kept, Resting, AtRest, Idle
<1> QED
  BY <1>4, <1>6, <1>7 DEF SnoozeIInv

-----------------------------------------------------------------------------
(* The operations. *)

\* A snooze, a permanent one, and the end of one: memory, then the file.
LEMMA ButtonKeeps ==
  ASSUME Procs = {Worker}, SnoozeIInv, NEW b \in Providers,
         \/ \E n \in Durations : SnoozeFor(Worker, b, n)
         \/ SnoozePermanent(Worker, b)
         \/ Unsnooze(Worker, b)
  PROVE  SnoozeIInv'
<1> DEFINE x == name[b]
<1>1. /\ up[Worker] /\ job[Worker] = Idle /\ x \in Names /\ hold \in SUBSET Providers
      /\ perm[Worker] \in SUBSET Names /\ left[Worker] \in [Names -> Nat]
      /\ asked \in [Names -> Nat] /\ UNCHANGED <<name, up, hold, cut>>
      /\ \A c \in Providers : name[c] = x => c = b
  BY DEF SnoozeFor, SnoozePermanent, Unsnooze, Free, SnoozeIInv, SnoozeTyped, Injective
<1>2. ASSUME ~cut PROVE Below(left[Worker]) /\ InUse /\ hold = Named(perm[Worker])
  BY <1>1, <1>2 DEF SnoozeIInv, Kept, Resting
<1>3. ASSUME NEW n \in Durations, SnoozeFor(Worker, b, n) PROVE SnoozeIInv'
  <2>1. /\ perm' = [perm EXCEPT ![Worker] = @ \ {x}]
        /\ left' = [left EXCEPT ![Worker][x] = n]
        /\ asked' = [asked EXCEPT ![x] = IF @ >= n THEN @ ELSE n]
        /\ SaveFor(Worker, hold \ {b}, {}) /\ n \in Nat
    BY <1>3, SnoozeAssumption DEF SnoozeFor, Raise
  <2>2. /\ perm'[Worker] = perm[Worker] \ {x} /\ perm' \in [Procs -> SUBSET Names]
        /\ left'[Worker] = [left[Worker] EXCEPT ![x] = n] /\ left' \in [Procs -> [Names -> Nat]]
        /\ asked' \in [Names -> Nat]
    BY <1>1, <2>1 DEF SnoozeIInv, SnoozeTyped
  <2>3. ASSUME ~cut PROVE InUse' /\ hold \ {b} = Named(perm'[Worker])
    BY <1>1, <1>2, <2>2, <2>3 DEF InUse, Named
  <2>4. ASSUME ~cut PROVE Below(left[Worker])'
    BY <1>1, <1>2, <2>1, <2>2, <2>4 DEF Below
  <2>5. /\ hold \ {b} \in SUBSET Providers /\ {} \in SUBSET Names /\ asked' \in [Names -> Nat]
        /\ \A k \in {} : left'[Worker][k] = 0
    BY <1>1, <2>1, <2>2
  <2>6. ~cut => InUse' /\ Below(left[Worker])' /\ hold \ {b} = Named(perm'[Worker])
    BY <2>3, <2>4
  <2>7. PICK h, f : h = hold \ {b} /\ f = {}
    OBVIOUS
  <2>8. /\ h \in SUBSET Providers /\ f \in SUBSET Names /\ SaveFor(Worker, h, f)
        /\ \A k \in f : left'[Worker][k] = 0
        /\ ~cut => InUse' /\ Below(left[Worker])' /\ h = Named(perm'[Worker])
    BY <2>1, <2>5, <2>6, <2>7
  <2> QED
    BY <1>1, <2>2, <2>5, <2>8, SaveBegins
<1>4. ASSUME SnoozePermanent(Worker, b) PROVE SnoozeIInv'
  <2>1. /\ perm' = [perm EXCEPT ![Worker] = @ \union {x}]
        /\ left' = [left EXCEPT ![Worker][x] = 0] /\ asked' = asked
        /\ SaveFor(Worker, hold \union {b}, {x})
    BY <1>4 DEF SnoozePermanent
  <2>2. /\ perm'[Worker] = perm[Worker] \union {x} /\ perm' \in [Procs -> SUBSET Names]
        /\ left'[Worker] = [left[Worker] EXCEPT ![x] = 0] /\ left' \in [Procs -> [Names -> Nat]]
    BY <1>1, <2>1 DEF SnoozeIInv, SnoozeTyped
  <2>3. ASSUME ~cut PROVE InUse' /\ hold \union {b} = Named(perm'[Worker])
    BY <1>1, <1>2, <2>2, <2>3 DEF InUse, Named
  <2>4. ASSUME ~cut PROVE Below(left[Worker])'
    BY <1>1, <1>2, <2>1, <2>2, <2>4 DEF Below
  <2>5. /\ hold \union {b} \in SUBSET Providers /\ {x} \in SUBSET Names /\ asked' \in [Names -> Nat]
        /\ \A k \in {x} : left'[Worker][k] = 0
    BY <1>1, <2>1, <2>2
  <2>6. ~cut => InUse' /\ Below(left[Worker])' /\ hold \union {b} = Named(perm'[Worker])
    BY <2>3, <2>4
  <2>7. PICK h, f : h = hold \union {b} /\ f = {x}
    OBVIOUS
  <2>8. /\ h \in SUBSET Providers /\ f \in SUBSET Names /\ SaveFor(Worker, h, f)
        /\ \A k \in f : left'[Worker][k] = 0
        /\ ~cut => InUse' /\ Below(left[Worker])' /\ h = Named(perm'[Worker])
    BY <2>1, <2>5, <2>6, <2>7
  <2> QED
    BY <1>1, <2>2, <2>5, <2>8, SaveBegins
<1>5. ASSUME Unsnooze(Worker, b) PROVE SnoozeIInv'
  <2>1. /\ perm' = [perm EXCEPT ![Worker] = @ \ {x}]
        /\ left' = [left EXCEPT ![Worker][x] = 0] /\ asked' = asked
        /\ SaveFor(Worker, hold \ {b}, {x})
    BY <1>5 DEF Unsnooze
  <2>2. /\ perm'[Worker] = perm[Worker] \ {x} /\ perm' \in [Procs -> SUBSET Names]
        /\ left'[Worker] = [left[Worker] EXCEPT ![x] = 0] /\ left' \in [Procs -> [Names -> Nat]]
    BY <1>1, <2>1 DEF SnoozeIInv, SnoozeTyped
  <2>3. ASSUME ~cut PROVE InUse' /\ hold \ {b} = Named(perm'[Worker])
    BY <1>1, <1>2, <2>2, <2>3 DEF InUse, Named
  <2>4. ASSUME ~cut PROVE Below(left[Worker])'
    BY <1>1, <1>2, <2>1, <2>2, <2>4 DEF Below
  <2>5. /\ hold \ {b} \in SUBSET Providers /\ {x} \in SUBSET Names /\ asked' \in [Names -> Nat]
        /\ \A k \in {x} : left'[Worker][k] = 0
    BY <1>1, <2>1, <2>2
  <2>6. ~cut => InUse' /\ Below(left[Worker])' /\ hold \ {b} = Named(perm'[Worker])
    BY <2>3, <2>4
  <2>7. PICK h, f : h = hold \ {b} /\ f = {x}
    OBVIOUS
  <2>8. /\ h \in SUBSET Providers /\ f \in SUBSET Names /\ SaveFor(Worker, h, f)
        /\ \A k \in f : left'[Worker][k] = 0
        /\ ~cut => InUse' /\ Below(left[Worker])' /\ h = Named(perm'[Worker])
    BY <2>1, <2>5, <2>6, <2>7
  <2> QED
    BY <1>1, <2>2, <2>5, <2>8, SaveBegins
<1> QED
  BY <1>3, <1>4, <1>5

\* The end of all of them, which leaves a file alone that has nothing to lose.
LEMMA ClearKeeps ==
  ASSUME Procs = {Worker}, SnoozeIInv, UnsnoozeAll(Worker)
  PROVE  SnoozeIInv'
<1>1. /\ up[Worker] /\ job[Worker] = Idle /\ hold \in SUBSET Providers /\ asked \in [Names -> Nat]
      /\ perm[Worker] \in SUBSET Names /\ left[Worker] \in [Names -> Nat]
      /\ UNCHANGED <<name, up, hold, asked, cut>>
  BY DEF UnsnoozeAll, Free, SnoozeIInv, SnoozeTyped, history
<1>2. /\ perm'[Worker] = {} /\ perm' \in [Procs -> SUBSET Names]
      /\ left'[Worker] = [k \in Names |-> 0] /\ left' \in [Procs -> [Names -> Nat]]
  BY DEF UnsnoozeAll, None, SnoozeIInv, SnoozeTyped
<1>3. InUse' /\ {} = Named(perm'[Worker]) /\ Below(left[Worker])'
  BY <1>1, <1>2 DEF InUse, Named, Below
<1>4. CASE SaveFor(Worker, {}, Names)
  BY <1>1, <1>2, <1>3, <1>4, SaveBegins
<1>5. CASE (\A k \in Names : Available(Worker, k)) /\ UNCHANGED <<file, job>>
  <2>1. perm[Worker] = {}
    BY <1>1, <1>5 DEF Available
  <2>2. SnoozeTyped'
    BY <1>1, <1>2, <1>5 DEF SnoozeIInv, SnoozeTyped
  <2>3. ASSUME ~cut PROVE Kept'
    BY <1>1, <1>2, <1>3, <1>5, <2>1, <2>3
    DEF SnoozeIInv, Kept, Resting, AtRest, Below, InUse, Named, Idle
  <2> QED
    BY <1>1, <2>2, <2>3 DEF SnoozeIInv
<1> QED
  BY <1>4, <1>5 DEF UnsnoozeAll

\* A rename changes the configuration first: memory has the old name yet.
LEMMA RenameKeeps ==
  ASSUME Procs = {Worker}, SnoozeIInv, NEW b \in Providers, NEW new \in Names, Rename(Worker, b, new)
  PROVE  SnoozeIInv'
<1>0. PICK j : j = [pc |-> "renaming", from |-> name[b], to |-> new]
  OBVIOUS
<1>1. /\ up[Worker] /\ job[Worker] = Idle /\ \A c \in Providers : name[c] # new
      /\ name \in [Providers -> Names] /\ \A c, d \in Providers : name[c] = name[d] => c = d
      /\ hold \in SUBSET Providers /\ name' = [name EXCEPT ![b] = new]
      /\ job' = [job EXCEPT ![Worker] = j]
      /\ UNCHANGED <<up, perm, left, file, hold, asked, cut>>
  BY <1>0 DEF Rename, Free, SnoozeIInv, SnoozeTyped, Injective, memory, history
<1>2. /\ j \in Moves /\ j.pc = "renaming" /\ j.from = name[b] /\ j.to = new /\ j # Idle
      /\ j.pc \notin {"saving", "closing"}
  BY <1>0, <1>1 DEF Moves, Idle
<1>3. name' \in Injective
  BY <1>1 DEF Injective
<1>4. SnoozeTyped' /\ job'[Worker] = j
  BY <1>1, <1>2, <1>3 DEF SnoozeIInv, SnoozeTyped
<1>5. ASSUME ~cut PROVE Kept'
  <2>1. Resting /\ Below(left[Worker])
    BY <1>1, <1>5 DEF SnoozeIInv, Kept
  <2>2. new \notin perm[Worker]
    BY <1>1, <2>1 DEF Resting, InUse
  <2>3. AtRest' /\ Below(left[Worker])'
    BY <1>1, <2>1 DEF Resting, AtRest, Below
  <2>4. \A k \in perm[Worker] : k = name[b] \/ \E c \in Providers : name'[c] = k
    BY <1>1, <2>1 DEF Resting, InUse
  <2>5. /\ \A c \in Providers : name'[c] # name[b]
        /\ name'[b] = new /\ name[b] # new
        /\ \A c \in Providers :
             c \in hold <=> IF name'[c] = new THEN name[b] \in perm[Worker] ELSE name'[c] \in perm[Worker]
    BY <1>1, <2>1 DEF Resting, Named
  <2>6. Renaming(j)'
    BY <1>1, <1>2, <2>2, <2>3, <2>4, <2>5 DEF Renaming
  <2> QED
    BY <1>1, <1>2, <1>4, <2>3, <2>6 DEF Kept
<1> QED
  BY <1>1, <1>4, <1>5 DEF SnoozeIInv

\* Then memory follows, and the file if there is anything to write.
LEMMA RenameKeysKeeps ==
  ASSUME Procs = {Worker}, SnoozeIInv, RenameKeys(Worker)
  PROVE  SnoozeIInv'
<1> DEFINE j == job[Worker]
           old == j.from
           new == j.to
<1>1. /\ j \in Moves /\ j.pc = "renaming" /\ old \in Names /\ new \in Names /\ old # new
      /\ perm[Worker] \in SUBSET Names /\ left[Worker] \in [Names -> Nat]
      /\ asked \in [Names -> Nat] /\ hold \in SUBSET Providers
      /\ UNCHANGED <<name, up, hold, cut>>
  BY DEF RenameKeys, SnoozeIInv, SnoozeTyped, Idle, Saves, Moves
<1>2. perm'[Worker] = (perm[Worker] \ {old}) \union (IF old \in perm[Worker] THEN {new} ELSE {})
  BY DEF RenameKeys, SnoozeIInv, SnoozeTyped
<1>3. perm' \in [Procs -> SUBSET Names]
  BY <1>1, <1>2 DEF RenameKeys, SnoozeIInv, SnoozeTyped
<1>4. asked' = [asked EXCEPT ![new] = IF @ >= asked[old] THEN @ ELSE asked[old]]
  BY DEF RenameKeys, Raise
<1>5. PICK there \in {TRUE, left[Worker][old] > 0} :
        /\ left' = IF there THEN [left EXCEPT ![Worker] = Moved(left[Worker], old, new)] ELSE left
        /\ IF there \/ old \in perm[Worker]
           THEN SaveFor(Worker, hold, {old})
           ELSE job' = [job EXCEPT ![Worker] = Idle] /\ UNCHANGED file
  BY DEF RenameKeys
<1>6. Moved(left[Worker], old, new) \in [Names -> Nat] /\ asked' \in [Names -> Nat]
  BY <1>1, <1>4 DEF Moved
<1>7. /\ left' \in [Procs -> [Names -> Nat]]
      /\ left'[Worker] = IF there THEN Moved(left[Worker], old, new) ELSE left[Worker]
      /\ ~there => left[Worker][old] = 0
  <2>1. left \in [Procs -> [Names -> Nat]]
    BY DEF SnoozeIInv, SnoozeTyped
  <2>2. CASE there
    <3>1. left' = [left EXCEPT ![Worker] = Moved(left[Worker], old, new)]
      BY <1>5, <2>2
    <3> QED
      BY <1>6, <2>1, <2>2, <3>1
  <2>3. CASE ~there
    <3>1. left' = left /\ ~(left[Worker][old] > 0)
      BY <1>5, <2>3
    <3>2. left[Worker][old] = 0
      BY <1>1, <3>1
    <3> QED
      BY <2>1, <2>3, <3>1, <3>2
  <2> QED
    BY <2>2, <2>3
<1>8. up[Worker]
  BY <1>1 DEF SnoozeIInv, Idle
<1>9. ASSUME ~cut PROVE Renaming(j) /\ Below(left[Worker])
  BY <1>1, <1>9 DEF SnoozeIInv, Kept
<1>10. ASSUME ~cut PROVE InUse' /\ Below(left[Worker])' /\ hold = Named(perm'[Worker])
  <2>1. InUse'
    BY <1>1, <1>2, <1>9, <1>10 DEF InUse, Renaming
  <2>2. Below(left[Worker])'
    BY <1>1, <1>4, <1>5, <1>7, <1>9, <1>10 DEF Below, Renaming, Moved
  <2>3. hold = Named(perm'[Worker])
    BY <1>1, <1>2, <1>9, <1>10 DEF Named, Renaming
  <2> QED
    BY <2>1, <2>2, <2>3
<1>11. CASE there \/ old \in perm[Worker]
  <2>1. SaveFor(Worker, hold, {old})
    BY <1>5, <1>11
  <2>2. {old} \in SUBSET Names
    BY <1>1
  <2>3. \A k \in {old} : left'[Worker][k] = 0
    BY <1>1, <1>5, <1>7 DEF Moved
  <2> QED
    BY <1>1, <1>3, <1>6, <1>7, <1>8, <1>10, <2>1, <2>2, <2>3, SaveBegins
<1>12. CASE ~there /\ old \notin perm[Worker]
  <2>1. /\ job' = [job EXCEPT ![Worker] = Idle] /\ file' = file
        /\ perm'[Worker] = perm[Worker]
    BY <1>1, <1>2, <1>5, <1>12
  <2>2. SnoozeTyped' /\ job'[Worker] = Idle
    BY <1>1, <1>3, <1>6, <1>7, <2>1 DEF SnoozeIInv, SnoozeTyped
  <2>3. ASSUME ~cut PROVE Kept'
    <3>1. Below(file.left)'
      BY <1>1, <1>4, <1>9, <2>1, <2>3 DEF Below, Renaming, AtRest, SnoozeIInv, SnoozeTyped, Files
    <3> QED
      BY <1>1, <1>9, <1>10, <2>1, <2>2, <2>3, <3>1
      DEF Kept, Resting, AtRest, Renaming, Named, Idle
  <2> QED
    BY <1>1, <2>2, <2>3 DEF SnoozeIInv
<1> QED
  BY <1>11, <1>12

\* A 429 touches memory only.
LEMMA CoolDownKeeps ==
  ASSUME Procs = {Worker}, SnoozeIInv, NEW b \in Providers, NEW n \in Durations, CoolDown(b, n)
  PROVE  SnoozeIInv'
<1> DEFINE x == name[b]
<1>1. /\ up[Worker] /\ job[Worker] = Idle /\ x \in Names /\ n \in Nat
      /\ left[Worker] \in [Names -> Nat] /\ asked \in [Names -> Nat]
      /\ left' = [left EXCEPT ![Worker][x] = n]
      /\ asked' = [asked EXCEPT ![x] = IF @ >= n THEN @ ELSE n]
      /\ UNCHANGED <<name, up, perm, file, job, hold, cut>>
  BY SnoozeAssumption DEF CoolDown, Raise, Free, SnoozeIInv, SnoozeTyped, Injective
<1>2. left'[Worker] = [left[Worker] EXCEPT ![x] = n] /\ left' \in [Procs -> [Names -> Nat]]
  BY <1>1 DEF SnoozeIInv, SnoozeTyped
<1>3. SnoozeTyped'
  BY <1>1, <1>2 DEF SnoozeIInv, SnoozeTyped
<1>4. ASSUME ~cut PROVE Kept'
  <2>1. Resting /\ Below(left[Worker]) /\ file.left \in [Names -> Nat]
    BY <1>1, <1>4 DEF SnoozeIInv, Kept, SnoozeTyped, Files
  <2>2. Below(left[Worker])' /\ Below(file.left)'
    BY <1>1, <1>2, <2>1 DEF Below, Resting, AtRest
  <2> QED
    BY <1>1, <2>1, <2>2 DEF Kept, Resting, AtRest, InUse, Named, Idle
<1> QED
  BY <1>1, <1>3, <1>4 DEF SnoozeIInv

\* The end of the worker, orderly or not.
LEMMA EndKeeps ==
  ASSUME Procs = {Worker}, SnoozeIInv, Shutdown \/ Kill(Worker)
  PROVE  SnoozeIInv'
<1>1. CASE Shutdown
  <2> DEFINE j == [pc |-> "closing", hold |-> hold, freed |-> {}]
  <2>1. /\ up[Worker] /\ job[Worker] = Idle /\ file' = Torn
        /\ job' = [job EXCEPT ![Worker] = j]
        /\ UNCHANGED <<name, up, perm, left, hold, asked, cut>>
    BY <1>1 DEF Shutdown, Free, memory, history
  <2>2. j \in Saves /\ file' \in Files
    BY <2>1 DEF Saves, Files, Torn, None, SnoozeIInv, SnoozeTyped
  <2>3. job'[Worker] = j /\ SnoozeTyped'
    BY <2>1, <2>2 DEF SnoozeIInv, SnoozeTyped
  <2>4. ASSUME ~cut PROVE Kept'
    BY <2>1, <2>3, <2>4 DEF SnoozeIInv, Kept, Resting, Saving, InUse, Below, Named, Idle
  <2> QED
    BY <2>1, <2>3, <2>4 DEF SnoozeIInv
<1>2. CASE Kill(Worker)
  <2>1. /\ up' = [up EXCEPT ![Worker] = FALSE] /\ job' = [job EXCEPT ![Worker] = Idle]
        /\ cut' = (cut \/ job[Worker] # Idle)
        /\ UNCHANGED <<name, perm, left, file, hold, asked>>
    BY <1>2 DEF Kill, memory, history
  <2>2. SnoozeTyped' /\ job'[Worker] = Idle
    BY <2>1 DEF SnoozeIInv, SnoozeTyped
  <2>3. ASSUME ~cut' PROVE Kept'
    <3>1. ~cut /\ job[Worker] = Idle
      BY <2>1, <2>3
    <3> QED
      BY <2>1, <2>2, <3>1 DEF SnoozeIInv, Kept, Resting, AtRest, InUse, Below, Named, Idle
  <2> QED
    BY <2>2, <2>3 DEF SnoozeIInv
<1> QED
  BY <1>1, <1>2

\* The next worker reads what the last one wrote.
LEMMA BootKeeps ==
  ASSUME Procs = {Worker}, SnoozeIInv, Boot(Worker)
  PROVE  SnoozeIInv'
<1>1. /\ job[Worker] = Idle /\ file \in Files
      /\ up' = [up EXCEPT ![Worker] = TRUE]
      /\ perm' = [perm EXCEPT ![Worker] = file.perm] /\ left' = [left EXCEPT ![Worker] = file.left]
      /\ UNCHANGED <<name, file, job, hold, asked, cut>>
  BY DEF Boot, SnoozeIInv, SnoozeTyped, history
<1>2. perm'[Worker] = file.perm /\ left'[Worker] = file.left /\ SnoozeTyped'
  BY <1>1 DEF SnoozeIInv, SnoozeTyped, Files
<1>3. ASSUME ~cut PROVE Kept'
  BY <1>1, <1>2, <1>3 DEF SnoozeIInv, Kept, Resting, AtRest, InUse, Below, Named, Idle
<1> QED
  BY <1>1, <1>2, <1>3 DEF SnoozeIInv

\* Time runs alike in memory and in the file.
LEMMA TickKeeps ==
  ASSUME Procs = {Worker}, SnoozeIInv, Tick
  PROVE  SnoozeIInv'
<1>1. /\ left[Worker] \in [Names -> Nat] /\ left' = [p \in Procs |-> Less(left[p])]
      /\ file \in Files /\ file.left \in [Names -> Nat] /\ file' = [file EXCEPT !.left = Less(file.left)]
      /\ asked \in [Names -> Nat] /\ asked' = Less(asked)
      /\ UNCHANGED <<name, up, perm, job, hold, cut>>
  BY DEF Tick, SnoozeIInv, SnoozeTyped, Files
<1>2. ASSUME NEW f \in [Names -> Nat]
      PROVE  /\ Less(f) \in [Names -> Nat]
             /\ Below(f) => \A k \in Names : Less(f)[k] <= Less(asked)[k]
             /\ \A k \in Names : f[k] = 0 => Less(f)[k] = 0
  BY <1>1 DEF Less, Below
<1>3. /\ left'[Worker] = Less(left[Worker])
      /\ file'.left = Less(file.left) /\ file'.perm = file.perm /\ file'.ok = file.ok
      /\ file' \in Files /\ left' \in [Procs -> [Names -> Nat]] /\ asked' \in [Names -> Nat]
  BY <1>1, <1>2 DEF Files
<1>4. SnoozeTyped'
  BY <1>1, <1>3 DEF SnoozeIInv, SnoozeTyped
<1>5. /\ Below(left[Worker]) => Below(left[Worker])'
      /\ AtRest => AtRest'
  BY <1>1, <1>2, <1>3 DEF Below, AtRest
<1>6. ASSUME ~cut PROVE Kept'
  <2>1. job' = job /\ job[Worker] \in {Idle} \union Saves \union Moves
    BY <1>1 DEF SnoozeIInv, SnoozeTyped
  <2>2. ASSUME job[Worker] = Idle PROVE Resting'
    BY <1>1, <1>5, <1>6, <2>2 DEF SnoozeIInv, Kept, Resting, InUse, Named
  <2>3. ASSUME job[Worker].pc \in {"saving", "closing"} PROVE Saving(job[Worker])'
    <3>1. job[Worker].freed \in SUBSET Names
      BY <2>1, <2>3 DEF Idle, Saves, Moves
    <3> QED
      BY <1>1, <1>2, <1>3, <1>6, <2>3, <3>1 DEF SnoozeIInv, Kept, Saving, InUse, Named
  <2>4. ASSUME job[Worker].pc = "renaming" PROVE Renaming(job[Worker])'
    BY <1>1, <1>5, <1>6, <2>4 DEF SnoozeIInv, Kept, Renaming
  <2> QED
    BY <1>5, <1>6, <2>1, <2>2, <2>3, <2>4 DEF SnoozeIInv, Kept
<1> QED
  BY <1>1, <1>4, <1>6 DEF SnoozeIInv

-----------------------------------------------------------------------------
(* The theorems. *)

\* Nothing is snoozed when the first worker starts.
LEMMA SnoozeInitInv == SnoozeInit => SnoozeIInv
<1> SUFFICES ASSUME SnoozeInit PROVE SnoozeIInv
  OBVIOUS
<1>1. None \in [Names -> Nat] /\ Worker \in Procs /\ Idle.pc = "idle"
  BY DEF None, Procs, Idle
<1>2. NoFile \in Files /\ NoFile.perm = {} /\ NoFile.left = None
  BY <1>1 DEF NoFile, Files
<1>3. SnoozeTyped
  BY <1>1, <1>2 DEF SnoozeInit, SnoozeTyped
<1>4. /\ perm[Worker] = {} /\ left[Worker] = None /\ file = NoFile /\ asked = None
      /\ job[Worker] = Idle /\ hold = {}
  BY <1>1 DEF SnoozeInit
<1>5. Below(None)
  BY <1>1, <1>4 DEF Below
<1>6. Resting
  BY <1>2, <1>4, <1>5 DEF Resting, AtRest, InUse, Named
<1> QED
  BY <1>1, <1>3, <1>4, <1>5, <1>6 DEF SnoozeIInv, Kept

\* Every step keeps the invariant.
LEMMA SnoozeNextInv ==
  ASSUME Doors = {Worker}, SnoozeIInv, [SnoozeNext]_snoozeVars
  PROVE  SnoozeIInv'
<1>1. Procs = {Worker}
  BY DEF Procs
<1>2. CASE UNCHANGED snoozeVars
  BY <1>2 DEF snoozeVars, memory, history, SnoozeIInv, SnoozeTyped, Kept, Resting, AtRest, InUse, Below, Named,
              Saving, Renaming
<1>3. ASSUME NEW p \in Doors, NEW b \in Providers, NEW new \in Names,
             Rename(p, b, new) \/ RenameKeys(p)
      PROVE  SnoozeIInv'
  BY <1>1, <1>3, RenameKeeps, RenameKeysKeeps
<1>4. ASSUME NEW p \in Procs, Written(p) \/ Kill(p) \/ Boot(p)
      PROVE  SnoozeIInv'
  BY <1>1, <1>4, WrittenKeeps, EndKeeps, BootKeeps
<1>5. ASSUME NEW p \in Doors, NEW b \in Providers,
             \/ SnoozePermanent(p, b) \/ Unsnooze(p, b)
             \/ \E n \in Durations : SnoozeFor(p, b, n)
      PROVE  SnoozeIInv'
  BY <1>1, <1>5, ButtonKeeps
<1>6. ASSUME NEW p \in Doors, RenameKeys(p) \/ UnsnoozeAll(p)
      PROVE  SnoozeIInv'
  BY <1>1, <1>6, RenameKeysKeeps, ClearKeeps
<1> QED
  BY <1>1, <1>2, <1>3, <1>4, <1>5, <1>6, CoolDownKeeps, EndKeeps, TickKeeps DEF SnoozeNext

\* The invariant holds of every run in which one process takes the requests.
LEMMA OneDoorInvariant ==
  ASSUME Doors = {Worker}
  PROVE  SnoozeSpec => []SnoozeIInv
  BY SnoozeInitInv, SnoozeNextInv, PTL DEF SnoozeSpec

\* A permanent snooze is kept, and nothing else is: memory and file agree with
\* the last confirmed request on every backend, through renames and restarts.
THEOREM HoldsKept ==
  ASSUME Doors = {Worker}
  PROVE  SnoozeSpec => []HoldsAreKept
<1>1. SnoozeIInv => HoldsAreKept
  BY DEF SnoozeIInv, Kept, Resting, AtRest, HoldsAreKept, Named
<1> QED
  BY <1>1, OneDoorInvariant, PTL

\* No cooldown comes back from the file, or with a name.
THEOREM NothingRevived ==
  ASSUME Doors = {Worker}
  PROVE  SnoozeSpec => []NothingIsRevived
<1>1. SnoozeIInv => NothingIsRevived
  BY DEF SnoozeIInv, Kept, Resting, AtRest, Below, NothingIsRevived
<1> QED
  BY <1>1, OneDoorInvariant, PTL
=============================================================================
