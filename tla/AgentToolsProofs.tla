-------------------------- MODULE AgentToolsProofs --------------------------
(***************************************************************************)
(* What the tools keep of what the services reply, for every reply, every  *)
(* request and every limit that AgentTools' assumptions admit.             *)
(*                                                                         *)
(* A tool answers in one step, so the invariants follow from Init and that *)
(* step alone; the work is in the algorithms.  They are loops and sorts    *)
(* over lists, stated without recursion (PythonLists): a list that is      *)
(* filtered, sorted or freed of repetitions is a function of positions,    *)
(* and what it keeps is proved by counting the positions before another    *)
(* one (Arranged) and by taking the least position of a kind (Least).      *)
(***************************************************************************)
EXTENDS AgentTools, FiniteSetTheorems, SequenceTheorems, WellFoundedInduction, TLAPS

(***************************************************************************)
(* Lists.                                                                  *)
(***************************************************************************)

\* before[k] are the elements of K that a strict total order puts before k.
IsOrder(K, before) ==
  /\ before \in [K -> SUBSET K]
  /\ \A k \in K : k \notin before[k]
  /\ \A k \in K : \A j \in before[k] : before[j] \subseteq before[k]
  /\ \A j, k \in K : j = k \/ j \in before[k] \/ k \in before[j]

\* f has every element of K once, each after those before it.
IsArranged(f, K, before) ==
  /\ f \in [1..Cardinality(K) -> K]
  /\ \A k \in K : \E n \in 1..Cardinality(K) : f[n] = k
  /\ \A m, n \in 1..Cardinality(K) : m < n <=> f[m] \in before[f[n]]

\* What Arranged returns: each element of K once, in the order given.
LEMMA ArrangedIsArranged ==
  ASSUME NEW K, IsFiniteSet(K), NEW before, IsOrder(K, before)
  PROVE  Cardinality(K) \in Nat /\ IsArranged(Arranged(before), K, before)
<1> DEFINE N == Cardinality(K)
           place == [k \in K |-> Cardinality(before[k]) + 1]
           f == [n \in 1..N |-> CHOOSE k \in K : place[k] = n]
<1>1. N \in Nat
  BY FS_CardinalityType
<1>2. \A k \in K : IsFiniteSet(before[k]) /\ Cardinality(before[k]) \in Nat
                   /\ Cardinality(before[k]) < N
  <2> TAKE k \in K
  <2>1. before[k] \in SUBSET (K \ {k})
    BY DEF IsOrder
  <2>2. IsFiniteSet(K \ {k}) /\ Cardinality(K \ {k}) = N - 1
    BY FS_RemoveElement
  <2>3. IsFiniteSet(before[k]) /\ Cardinality(before[k]) <= N - 1
    BY <2>1, <2>2, FS_Subset
  <2> QED  BY <1>1, <2>3, FS_CardinalityType
<1>3. place \in [K -> 1..N]
  BY <1>1, <1>2
<1>4. \A k \in K : \A j \in before[k] : place[j] < place[k]
  <2> SUFFICES ASSUME NEW k \in K, NEW j \in before[k] PROVE place[j] < place[k]
    OBVIOUS
  <2>1. j \in K /\ before[j] \in SUBSET before[k] /\ j \notin before[j]
    BY DEF IsOrder
  <2>2. Cardinality(before[j]) <= Cardinality(before[k])
        /\ Cardinality(before[j]) # Cardinality(before[k])
    BY <1>2, <2>1, FS_Subset
  <2> QED  BY <1>2, <2>1, <2>2
<1>5. place \in Injection(K, 1..N)
  BY <1>3, <1>4 DEF IsOrder, Injection, IsInjective
<1>6. place \in Surjection(K, 1..N)
  BY <1>1, <1>5, FS_Injection, FS_Interval
<1>7. \A n \in 1..N : f[n] \in K /\ place[f[n]] = n
  BY <1>6 DEF Surjection
<1> HIDE DEF N, place, f
<1>8. \A k \in K : f[place[k]] = k
  BY <1>3, <1>5, <1>7 DEF Injection, IsInjective
<1>9. \A m, n \in 1..N : m < n <=> f[m] \in before[f[n]]
  <2> TAKE m, n \in 1..N
  <2>1. f[m] \in before[f[n]] => m < n
    BY <1>4, <1>7
  <2>2. m < n => f[m] # f[n] /\ f[n] \notin before[f[m]]
    BY <1>1, <1>4, <1>7
  <2> QED  BY <1>7, <2>1, <2>2 DEF IsOrder
<1>12. f = [n \in 1..N |-> f[n]]
  BY DEF f
<1>10. Arranged(before) = f
  BY DEF Arranged, IsOrder, N, place, f
<1>11. IsArranged(f, K, before)
  BY <1>3, <1>7, <1>8, <1>9, <1>12 DEF IsArranged, N
<1> QED  BY <1>1, <1>10, <1>11 DEF N

\* s[i] for the positions K of s, from the first to the last.
IsPicked(t, s, K) ==
  /\ DOMAIN t = 1..Len(t)
  /\ \E at \in [DOMAIN t -> K] :
       /\ \A n \in DOMAIN t : t[n] = s[at[n]]
       /\ \A k \in K : \E n \in DOMAIN t : at[n] = k
       /\ \A m, n \in DOMAIN t : m < n <=> at[m] < at[n]

\* The elements at the positions K: as many as K has, and no others.
LEMMA PickedIsPicked ==
  ASSUME NEW S, NEW s \in Seq(S), NEW K \in SUBSET DOMAIN s
  PROVE  /\ Picked(s, K) \in Seq(S)
         /\ IsFiniteSet(K) /\ Len(Picked(s, K)) = Cardinality(K)
         /\ ToSet(Picked(s, K)) = {s[i] : i \in K}
         /\ IsPicked(Picked(s, K), s, K)
<1> DEFINE before == [i \in K |-> {j \in K : j < i}]
           at == Arranged(before)
           N == Cardinality(K)
           t == [n \in 1..N |-> s[at[n]]]
<1>1. Len(s) \in Nat /\ DOMAIN s = 1..Len(s) /\ \A i \in DOMAIN s : s[i] \in S
  BY LenProperties, ElementOfSeq
<1>2. IsFiniteSet(K) /\ N \in Nat
  <2>1. IsFiniteSet(DOMAIN s)
    BY <1>1, FS_Interval
  <2> QED  BY <2>1, FS_Subset, FS_CardinalityType
<1>3. IsOrder(K, before)
  BY <1>1 DEF IsOrder
<1> HIDE DEF at
<1>4. IsArranged(at, K, before)
  BY <1>2, <1>3, ArrangedIsArranged DEF at
<1>5. /\ at \in [1..N -> K]
      /\ \A k \in K : \E n \in 1..N : at[n] = k
      /\ \A m, n \in 1..N : m < n <=> at[m] < at[n]
  BY <1>4 DEF IsArranged
<1>6. Picked(s, K) = t
  BY <1>5 DEF Picked, at
<1>7. t \in Seq(S) /\ Len(t) = N /\ DOMAIN t = 1..N
  BY <1>1, <1>2, <1>5, LenProperties, IsASeq
<1>8. ToSet(t) = {s[i] : i \in K}
  BY <1>5, <1>7 DEF ToSet
<1>9. IsPicked(t, s, K)
  BY <1>5, <1>7 DEF IsPicked
<1> QED  BY <1>2, <1>6, <1>7, <1>8, <1>9

\* s[:n] is a beginning of s, and all of it when it is not cut off.
LEMMA FirstOfIsPrefix ==
  ASSUME NEW S, NEW s \in Seq(S), NEW n \in Nat
  PROVE  /\ FirstOf(s, n) \in Seq(S)
         /\ Len(FirstOf(s, n)) = IF n < Len(s) THEN n ELSE Len(s)
         /\ \A i \in 1..Len(FirstOf(s, n)) : i \in DOMAIN s /\ FirstOf(s, n)[i] = s[i]
         /\ IsPrefix(FirstOf(s, n), s)
         /\ Len(FirstOf(s, n)) < n => FirstOf(s, n) = s
         /\ ToSet(FirstOf(s, n)) \subseteq ToSet(s)
<1> DEFINE N == IF n < Len(s) THEN n ELSE Len(s)
           t == FirstOf(s, n)
<1>1. Len(s) \in Nat /\ N \in Nat /\ N <= Len(s) /\ DOMAIN s = 1..Len(s)
  BY LenProperties
<1>2. t \in Seq(S) /\ Len(t) = N /\ \A i \in 1..N : t[i] = s[i]
  BY <1>1, SubSeqProperties DEF FirstOf
<1>3. DOMAIN t = 1..N
  BY <1>2, LenProperties
<1>4. ToSet(t) \subseteq ToSet(s)
  BY <1>1, <1>2, <1>3 DEF ToSet
<1>5. N < n => t = s
  BY <1>1, <1>2, SeqEqual
<1>6. IsPrefix(t, s)
  BY <1>1, <1>2, SubSeqFull DEF IsPrefix, FirstOf
<1> HIDE DEF t
<1> QED  BY <1>1, <1>2, <1>4, <1>5, <1>6 DEF t

\* less[i] are the positions of elements that a sort puts before the i-th whatever
\* their order was.
IsWeakOrder(less, P) ==
  /\ less \in [P -> SUBSET P]
  /\ \A i \in P : i \notin less[i]
  /\ \A i \in P : \A j \in less[i] : less[j] \subseteq less[i]
  /\ \A i, j \in P : \A k \in less[i] : j \in less[i] \/ k \in less[j]

Stably(less) ==
  [i \in DOMAIN less |->
     {j \in DOMAIN less : j \in less[i] \/ (i \notin less[j] /\ j < i)}]

\* t has the elements of s, in the order that a stable sort gives them.
IsSortOf(t, s, less) ==
  \E at \in [DOMAIN s -> DOMAIN s] :
    /\ t = [n \in DOMAIN s |-> s[at[n]]]
    /\ \A i \in DOMAIN s : \E n \in DOMAIN s : at[n] = i
    /\ \A m, n \in DOMAIN s : m < n => at[m] # at[n] /\ at[n] \notin less[at[m]]

\* sorted(s) is a permutation of s with no element before a lesser one.
LEMMA SortIsSorted ==
  ASSUME NEW S, NEW s \in Seq(S), NEW less, IsWeakOrder(less, DOMAIN s)
  PROVE  LET at == Arranged(Stably(less))
             t == [n \in DOMAIN at |-> s[at[n]]]
         IN /\ t \in Seq(S) /\ Len(t) = Len(s)
            /\ ToSet(t) = ToSet(s)
            /\ IsSortOf(t, s, less)
<1> DEFINE P == DOMAIN s
           at == Arranged(Stably(less))
           t == [n \in P |-> s[at[n]]]
<1>1. Len(s) \in Nat /\ P = 1..Len(s) /\ \A i \in P : s[i] \in S
  BY LenProperties, ElementOfSeq
<1>2. IsFiniteSet(P) /\ Cardinality(P) = Len(s)
  BY <1>1, FS_Interval
<1>3. IsOrder(P, Stably(less))
  <2>0. IsWeakOrder(less, P)
    OBVIOUS
  <2> DEFINE b == Stably(less)
  <2>1. b = [i \in P |-> {j \in P : j \in less[i] \/ (i \notin less[j] /\ j < i)}]
    BY DEF IsWeakOrder, Stably
  <2> HIDE DEF b, P
  <2>2. b \in [P -> SUBSET P] /\ \A i \in P : i \notin b[i]
    BY <2>0, <1>1, <2>1 DEF IsWeakOrder
  <2>3. \A i, j \in P : j \in b[i] <=> (j \in less[i] \/ (i \notin less[j] /\ j < i))
    BY <2>0, <2>1
  <2>4. \A i, j \in P : i = j \/ i \in b[j] \/ j \in b[i]
    BY <2>0, <1>1, <2>3 DEF IsWeakOrder
  <2>5. ASSUME NEW i \in P, NEW j \in b[i], NEW k \in b[j] PROVE k \in b[i]
    <3>1. j \in P /\ k \in P
      BY <2>2
    <3>2. CASE j \in less[i] /\ k \in less[j]
      BY <2>0, <2>3, <3>1, <3>2 DEF IsWeakOrder
    <3>3. CASE j \in less[i] /\ j \notin less[k]
      BY <2>0, <2>3, <3>1, <3>3 DEF IsWeakOrder
    <3>4. CASE i \notin less[j] /\ k \in less[j]
      BY <2>0, <2>3, <3>1, <3>4 DEF IsWeakOrder
    <3>5. CASE i \notin less[j] /\ j < i /\ j \notin less[k] /\ k < j
      <4>1. i \notin less[k]
        BY <2>0, <3>1, <3>5 DEF IsWeakOrder
      <4> QED  BY <2>0, <1>1, <2>3, <3>1, <3>5, <4>1
    <3> QED  BY <2>0, <2>3, <3>1, <3>2, <3>3, <3>4, <3>5
  <2>6. \A i \in P : \A j \in b[i] : b[j] \subseteq b[i]
    BY <2>5
  <2> QED  BY <2>0, <2>2, <2>4, <2>6 DEF IsOrder, b
<1>4. IsArranged(at, P, Stably(less))
  BY <1>2, <1>3, ArrangedIsArranged
<1>5. /\ at \in [P -> P]
      /\ \A i \in P : \E n \in P : at[n] = i
      /\ \A m, n \in P : m < n => at[m] # at[n] /\ at[n] \notin less[at[m]]
  <2>1. /\ at \in [P -> P]
        /\ \A i \in P : \E n \in P : at[n] = i
        /\ \A m, n \in P : m < n <=> at[m] \in Stably(less)[at[n]]
    BY <1>1, <1>2, <1>4 DEF IsArranged
  <2> HIDE DEF at
  <2>2. ASSUME NEW m \in P, NEW n \in P, m < n
        PROVE  at[m] # at[n] /\ at[n] \notin less[at[m]]
    <3>1. at[m] \in P /\ at[n] \in P /\ at[m] \in Stably(less)[at[n]]
      BY <2>1, <2>2
    <3>2. Stably(less)[at[n]] = {j \in P : j \in less[at[n]] \/ (at[n] \notin less[j] /\ j < at[n])}
      BY <3>1 DEF Stably, IsWeakOrder
    <3>3. at[m] \in less[at[n]] \/ (at[n] \notin less[at[m]] /\ at[m] < at[n])
      BY <3>1, <3>2
    <3> QED  BY <1>1, <3>1, <3>3 DEF IsWeakOrder
  <2> QED  BY <2>1, <2>2
<1>6. t = [n \in DOMAIN at |-> s[at[n]]]
  BY <1>5
<1> HIDE DEF at
<1>7. t \in Seq(S) /\ Len(t) = Len(s) /\ DOMAIN t = P
  BY <1>1, <1>5, LenProperties, IsASeq
<1>8. ToSet(t) = ToSet(s)
  BY <1>5, <1>7 DEF ToSet
<1>9. IsSortOf(t, s, less)
  BY <1>5 DEF IsSortOf
<1> HIDE DEF t
<1> QED  BY <1>6, <1>7, <1>8, <1>9 DEF at

\* The elements of two lists, one after the other.
LEMMA ConcatHasBoth ==
  ASSUME NEW S, NEW s \in Seq(S), NEW t \in Seq(S)
  PROVE  ToSet(s \o t) = ToSet(s) \union ToSet(t)
<1>1. Len(s) \in Nat /\ DOMAIN s = 1..Len(s) /\ Len(t) \in Nat /\ DOMAIN t = 1..Len(t)
  BY LenProperties
<1>2. /\ s \o t \in Seq(S) /\ Len(s \o t) = Len(s) + Len(t)
      /\ \A i \in 1..Len(s) + Len(t) :
           (s \o t)[i] = IF i <= Len(s) THEN s[i] ELSE t[i - Len(s)]
  BY ConcatProperties
<1>3. DOMAIN (s \o t) = 1..Len(s) + Len(t)
  BY <1>2, LenProperties
<1>4. ASSUME NEW i \in DOMAIN (s \o t) PROVE (s \o t)[i] \in ToSet(s) \union ToSet(t)
  BY <1>1, <1>2, <1>3 DEF ToSet
<1>5. ASSUME NEW i \in DOMAIN s PROVE s[i] \in ToSet(s \o t)
  BY <1>1, <1>2, <1>3 DEF ToSet
<1>6. ASSUME NEW i \in DOMAIN t PROVE t[i] \in ToSet(s \o t)
  <2>1. i + Len(s) \in DOMAIN (s \o t) /\ (s \o t)[i + Len(s)] = t[i]
    BY <1>1, <1>2, <1>3
  <2> QED  BY <2>1 DEF ToSet
<1> QED  BY <1>4, <1>5, <1>6 DEF ToSet

\* Of the numbers in a set that is not empty, one is the least.
LEMMA Least ==
  ASSUME NEW X \in SUBSET Nat, NEW x \in X
  PROVE  \E m \in X : m <= x /\ \A k \in X : m <= k
<1> DEFINE R == OpToRel(<, Nat)
<1>1. PICK m \in X : \A k \in X : <<k, m>> \notin R
  BY WFMin, NatLessThanWellFounded
<1>2. \A k \in X : ~(k < m)
  BY <1>1 DEF OpToRel
<1> QED  BY <1>2

\* The positions of the first element of each key.
Firsts(key, n) == {i \in 1..n : \A j \in 1..i - 1 : key[j] # key[i]}

\* Every key has a first element, and only one.
LEMMA FirstsHaveAllKeys ==
  ASSUME NEW n \in Nat, NEW key
  PROVE  /\ \A i \in 1..n : \E k \in Firsts(key, n) : k <= i /\ key[k] = key[i]
         /\ \A i, j \in Firsts(key, n) : key[i] = key[j] => i = j
<1>1. ASSUME NEW i \in 1..n
      PROVE  \E k \in Firsts(key, n) : k <= i /\ key[k] = key[i]
  <2> DEFINE X == {j \in 1..n : key[j] = key[i]}
  <2>1. X \in SUBSET Nat /\ i \in X
    OBVIOUS
  <2>2. PICK m \in X : m <= i /\ \A k \in X : m <= k
    BY <2>1, Least
  <2>3. \A j \in 1..m - 1 : key[j] # key[m]
    BY <2>2
  <2> QED  BY <2>2, <2>3 DEF Firsts
<1>2. ASSUME NEW i \in Firsts(key, n), NEW j \in Firsts(key, n), key[i] = key[j]
      PROVE  i = j
  BY <1>2 DEF Firsts
<1> QED  BY <1>1, <1>2

\* A set that a list gives without repetition has as many elements as the list is long.
LEMMA DistinctAreCounted ==
  ASSUME NEW n \in Nat, NEW f, NEW T,
         \A i \in 1..n : f[i] \in T,
         \A x \in T : \E i \in 1..n : f[i] = x,
         \A i, j \in 1..n : f[i] = f[j] => i = j
  PROVE  IsFiniteSet(T) /\ Cardinality(T) = n
<1> DEFINE g == [i \in 1..n |-> f[i]]
<1>1. g \in Surjection(1..n, T) /\ g \in Injection(1..n, T)
  BY DEF Surjection, Injection, IsInjective
<1>2. IsFiniteSet(1..n) /\ Cardinality(1..n) = n
  BY FS_Interval
<1> QED  BY <1>1, <1>2, FS_Surjection

\* Fractions a/b, c/d and e/f.
LEMMA FractionsAreOrdered ==
  ASSUME NEW a \in Int, NEW b \in Nat \ {0}, NEW c \in Int, NEW d \in Nat \ {0},
         NEW e \in Int, NEW f \in Nat \ {0}
  PROVE  /\ a * d <= c * b /\ c * f <= e * d => a * f <= e * b
         /\ a * d < c * b /\ c * f < e * d => a * f < e * b
OBVIOUS

\* Of fractions a/b and c/d, neither is below e/f and g/h, and one is above.
LEMMA SumsAreOrdered ==
  ASSUME NEW a \in Int, NEW b \in Nat \ {0}, NEW c \in Int, NEW d \in Nat \ {0},
         NEW e \in Int, NEW f \in Nat \ {0}, NEW g \in Int, NEW h \in Nat \ {0},
         a * f >= e * b, c * h >= g * d, a * f > e * b \/ c * h > g * d
  PROVE  (a * d + c * b) * (f * h) > (e * h + g * f) * (b * d)
OBVIOUS

\* Descending fractions num[i]/den[i].
LEMMA FractionsAreWeaklyOrdered ==
  ASSUME NEW P, NEW less \in [P -> SUBSET P], NEW num, NEW den,
         \A i \in P : num[i] \in Int /\ den[i] \in Nat \ {0},
         \A i, j \in P : j \in less[i] <=> num[i] * den[j] < num[j] * den[i]
  PROVE  IsWeakOrder(less, P)
<1>1. \A i \in P : i \notin less[i]
  <2> SUFFICES ASSUME NEW i \in P, i \in less[i] PROVE FALSE
    OBVIOUS
  <2>1. num[i] * den[i] < num[i] * den[i] /\ num[i] * den[i] \in Int
    OBVIOUS
  <2> QED  BY <2>1
<1>2. ASSUME NEW i \in P, NEW j \in less[i], NEW k \in less[j] PROVE k \in less[i]
  <2>1. j \in P /\ k \in P
    OBVIOUS
  <2>2. num[i] * den[j] < num[j] * den[i] /\ num[j] * den[k] < num[k] * den[j]
    BY <2>1
  <2>3. num[i] * den[k] < num[k] * den[i]
    BY <2>1, <2>2, FractionsAreOrdered
  <2> QED  BY <2>1, <2>3
<1>3. ASSUME NEW i \in P, NEW j \in P, NEW k \in less[i], j \notin less[i], k \notin less[j]
      PROVE  FALSE
  <2>1. k \in P
    OBVIOUS
  <2>2. num[k] * den[j] <= num[j] * den[k] /\ num[j] * den[i] <= num[i] * den[j]
    <3>1. /\ num[i] * den[j] \in Int /\ num[j] * den[i] \in Int
          /\ num[j] * den[k] \in Int /\ num[k] * den[j] \in Int
      BY <2>1
    <3>2. /\ ~(num[i] * den[j] < num[j] * den[i])
          /\ ~(num[j] * den[k] < num[k] * den[j])
      BY <1>3, <2>1
    <3> QED  BY <3>1, <3>2
  <2>3. num[k] * den[i] <= num[i] * den[k]
    BY <2>1, <2>2, FractionsAreOrdered
  <2>4. num[i] * den[k] < num[k] * den[i] /\ num[k] * den[i] \in Int /\ num[i] * den[k] \in Int
    BY <2>1
  <2> QED  BY <2>3, <2>4
<1> QED  BY <1>1, <1>2, <1>3 DEF IsWeakOrder

\* An answer tells which tool has given it.
LEMMA OthersAreNot ==
  /\ Search => asked'.tool = "search"
  /\ Book => asked'.tool = "booking"
  /\ SearchWeb => asked'.tool = "web"
  /\ Forecast => asked'.tool = "weather"
  /\ SearchPlaces => asked'.tool = "places"
  /\ Finalize => asked'.tool = "finalizer"
BY DEF Search, Book, SearchWeb, Forecast, SearchPlaces, Finalize

-----------------------------------------------------------------------------
(***************************************************************************)
(* The finalizer.                                                          *)
(***************************************************************************)

\* The elements of t are some of those of s, in their order.
IsPartOf(t, s) ==
  \E at \in [DOMAIN t -> DOMAIN s] :
    /\ \A i \in DOMAIN at : t[i] = s[at[i]]
    /\ \A i, j \in DOMAIN at : i < j => at[i] < at[j]

\* The elements of an answer that it tells of to the end.
Whole(text) == IF text.cut = "flat" THEN Front(text.days) ELSE text.days

\* They are all elements but perhaps the last.
LEMMA WholeIsPrefix ==
  ASSUME NEW text, text.days \in Seq(ToSet(text.days))
  PROVE  \A n \in ToSet(Whole(text)) :
           \E i \in DOMAIN text.days :
             text.days[i] = n /\ (text.cut = "flat" => i < Len(text.days))
<1> DEFINE s == text.days
<1>1. s \in Seq(ToSet(s)) /\ Len(s) \in Nat /\ DOMAIN s = 1..Len(s)
  BY LenProperties
<1>2. CASE text.cut = "flat"
  <2> DEFINE N == Len(s)
  <2>1. /\ Front(s) \in Seq(ToSet(s))
        /\ Len(Front(s)) = IF 1 <= Len(s) - 1 THEN Len(s) - 1 ELSE 0
        /\ \A i \in 1..Len(s) - 1 : Front(s)[i] = s[i]
    <3> HIDE DEF s
    <3>1. \A i \in 1..Len(s) - 1 : s[i] \in ToSet(s)
      BY <1>1 DEF ToSet
    <3> QED  BY <1>1, <3>1, SubSeqProperties DEF Front
  <2>2. DOMAIN Front(s) = 1..Len(Front(s)) /\ Len(Front(s)) \in Nat
    BY <2>1, LenProperties
  <2>3. N \in Nat /\ Len(Front(s)) = IF 1 <= N - 1 THEN N - 1 ELSE 0
    BY <1>1, <2>1
  <2> HIDE DEF N
  <2>4. \A i \in DOMAIN Front(s) : i \in 1..N - 1 /\ i \in 1..N /\ i < N
    BY <2>2, <2>3
  <2>5. \A i \in DOMAIN Front(s) : i \in DOMAIN s /\ i < Len(s) /\ Front(s)[i] = s[i]
    BY <1>1, <2>1, <2>4 DEF N
  <2> QED  BY <1>2, <2>5 DEF Whole, ToSet
<1>3. CASE text.cut # "flat"
  BY <1>3 DEF Whole, ToSet
<1> QED  BY <1>2, <1>3

\* Positions that are picked are picked in their order.
LEMMA PickedIsPart ==
  ASSUME NEW s, s \in Seq(ToSet(s)), NEW K \in SUBSET DOMAIN s
  PROVE  /\ Picked(s, K) \in Seq(ToSet(s))
         /\ ToSet(Picked(s, K)) = {s[i] : i \in K}
         /\ IsPartOf(Picked(s, K), s)
<1> DEFINE t == Picked(s, K)
<1>1. t \in Seq(ToSet(s)) /\ ToSet(t) = {s[i] : i \in K} /\ IsPicked(t, s, K)
  BY PickedIsPicked
<1> HIDE DEF t
<1>2. PICK at \in [DOMAIN t -> K] :
        /\ \A n \in DOMAIN t : t[n] = s[at[n]]
        /\ \A m, n \in DOMAIN t : m < n <=> at[m] < at[n]
  BY <1>1 DEF IsPicked
<1>3. at \in [DOMAIN t -> DOMAIN s] /\ DOMAIN at = DOMAIN t
  BY <1>2
<1>4. IsPartOf(t, s)
  BY <1>2, <1>3 DEF IsPartOf
<1> QED  BY <1>1, <1>4 DEF t

\* A beginning of a part is one.
LEMMA FirstOfPart ==
  ASSUME NEW S, NEW s, NEW t \in Seq(S), IsPartOf(t, s), NEW n \in Nat
  PROVE  IsPartOf(FirstOf(t, n), s)
<1> DEFINE f == FirstOf(t, n)
<1>1. PICK at \in [DOMAIN t -> DOMAIN s] :
        /\ \A i \in DOMAIN at : t[i] = s[at[i]]
        /\ \A i, j \in DOMAIN at : i < j => at[i] < at[j]
  BY DEF IsPartOf
<1>2. f \in Seq(S) /\ \A i \in 1..Len(f) : i \in DOMAIN t /\ f[i] = t[i]
  BY FirstOfIsPrefix
<1> HIDE DEF f
<1>3. DOMAIN f = 1..Len(f)
  BY <1>2, LenProperties
<1> DEFINE b == [i \in DOMAIN f |-> at[i]]
<1>4. b \in [DOMAIN f -> DOMAIN s] /\ DOMAIN b = DOMAIN f /\ \A i \in DOMAIN f : b[i] = at[i]
  BY <1>1, <1>2, <1>3
<1> HIDE DEF b
<1>5. /\ \A i \in DOMAIN f : f[i] = s[b[i]]
      /\ \A i, j \in DOMAIN f : i < j => b[i] < b[j]
  BY <1>1, <1>2, <1>3, <1>4
<1> QED  BY <1>4, <1>5 DEF IsPartOf, f

\* The days that are planned are some of those the answer tells of, in their order.
LEMMA PlannedInOrder ==
  ASSUME NEW text \in ModelAnswers, NEW days \in TripDays
  PROVE  LET planned == DaysPlanned(text, days)
         IN /\ planned \in Seq(ToSet(text.days))
            /\ IsPartOf(planned, text.days)
            /\ \A n \in (ToSet(Whole(text)) \ text.loose) \intersect text.headed :
                 n \notin ToSet(planned) => Len(planned) = days
<1> DEFINE s == text.days
           S == ToSet(s)
           K == {i \in DOMAIN s : s[i] \in text.headed}
           R == {i \in DOMAIN s : \E j \in Objects(text) : i <= j}
           kept == Picked(s, K)
           planned == DaysPlanned(text, days)
<1>1. s \in Seq(S) /\ Unparsed # s /\ Unparsed # Repaired(text) /\ days \in Nat
  BY ItineraryAssumption
<1>2. Len(s) \in Nat /\ DOMAIN s = 1..Len(s)
  BY <1>1, LenProperties
<1>3. \A n \in ToSet(Whole(text)) :
        \E i \in DOMAIN s : s[i] = n /\ (text.cut = "flat" => i < Len(s))
  BY <1>1, WholeIsPrefix
<1>4. HeadedDays(text, days) = FirstOf(kept, days) /\ Repaired(text) = Picked(s, R)
  BY DEF HeadedDays, Kept, Repaired
<1>5. CASE planned = s
  <2> DEFINE at == [i \in DOMAIN s |-> i]
  <2>1. at \in [DOMAIN s -> DOMAIN s] /\ DOMAIN at = DOMAIN s /\ \A i \in DOMAIN s : at[i] = i
    OBVIOUS
  <2> HIDE DEF at
  <2>2. IsPartOf(s, s)
    BY <2>1 DEF IsPartOf
  <2>3. ToSet(Whole(text)) \subseteq ToSet(s)
    BY <1>3 DEF ToSet
  <2> QED  BY <1>1, <1>5, <2>2, <2>3
<1>6. CASE planned = Picked(s, R)
  <2> HIDE DEF s
  <2>1. /\ Picked(s, R) \in Seq(S)
        /\ ToSet(Picked(s, R)) = {s[i] : i \in R}
        /\ IsPartOf(Picked(s, R), s)
    BY <1>1, PickedIsPart
  <2>2. ASSUME NEW n \in ToSet(Whole(text)) \ text.loose
        PROVE  n \in ToSet(Picked(s, R))
    <3>1. PICK i \in DOMAIN s : s[i] = n /\ (text.cut = "flat" => i < Len(s))
      BY <1>3, <2>2
    <3>2. i \in Objects(text) /\ i <= i
      BY <1>2, <2>2, <3>1 DEF Objects, s
    <3>3. i \in R
      BY <3>2
    <3> QED  BY <2>1, <3>1, <3>3
  <2> HIDE DEF R
  <2> QED  BY <1>6, <2>1, <2>2 DEF s
<1>7. CASE planned = FirstOf(kept, days)
  <2> HIDE DEF s
  <2>1. kept \in Seq(S) /\ ToSet(kept) = {s[i] : i \in K} /\ IsPartOf(kept, s)
    BY <1>1, PickedIsPart
  <2> HIDE DEF kept
  <2> DEFINE t == FirstOf(kept, days)
  <2>2. /\ t \in Seq(S)
        /\ Len(t) = IF days < Len(kept) THEN days ELSE Len(kept)
        /\ Len(t) < days => t = kept
    BY <1>1, <2>1, FirstOfIsPrefix
  <2>3. IsPartOf(t, s)
    BY <1>1, <2>1, FirstOfPart
  <2> HIDE DEF t
  <2>4. Len(kept) \in Nat
    BY <2>1, LenProperties
  <2>5. Len(t) = days \/ t = kept
    BY <1>1, <2>2, <2>4
  <2>6. \A n \in ToSet(Whole(text)) \intersect text.headed : n \in ToSet(kept)
    BY <1>3, <2>1
  <2> QED  BY <1>7, <2>2, <2>3, <2>5, <2>6 DEF t, s
<1>8. planned = s \/ planned = Picked(s, R) \/ planned = FirstOf(kept, days)
  <2>1. ParsedDays(text) \in {s, Repaired(text), Unparsed}
    BY DEF ParsedDays
  <2> QED  BY <1>4, <2>1 DEF DaysPlanned
<1> QED  BY <1>5, <1>6, <1>7, <1>8

\* The finalizer raises over a text that stands where a day should, and that is read.
LEMMA RaisesOverText ==
  ASSUME NEW text \in ModelAnswers, ItemsRaise(text)
  PROVE  /\ text.form = "array" /\ text.cut # "nested"
         /\ \E i \in DOMAIN Whole(text) :
              /\ Whole(text)[i] \in text.loose
              /\ text.cut # "no" =>
                   \E j \in DOMAIN Whole(text) : i < j /\ Whole(text)[j] \notin text.loose
<1> DEFINE s == text.days
           S == ToSet(s)
           N == Len(s)
           R == {i \in DOMAIN s : \E j \in Objects(text) : i <= j}
<1>1. s \in Seq(S) /\ Unparsed # s
  BY ItineraryAssumption
<1>2. N \in Nat /\ DOMAIN s = 1..N
  BY <1>1, LenProperties
<1>3. CASE text.form = "array" /\ text.cut = "no"
  <2>1. ParsedDays(text) = s /\ Whole(text) = s
    BY <1>3 DEF ParsedDays, Whole
  <2> QED  BY <1>3, <2>1 DEF ItemsRaise, ToSet
<1>4. CASE text.form = "array" /\ text.cut \in {"prose", "flat"}
  <2>1. ParsedDays(text) = Picked(s, R)
    BY <1>4 DEF ParsedDays, Repaired, ItemsRaise
  <2>2. ToSet(Picked(s, R)) = {s[i] : i \in R}
    BY <1>1, PickedIsPart
  <2>3. PICK i \in DOMAIN s, j \in Objects(text) : i <= j /\ s[i] \in text.loose
    BY <2>1, <2>2 DEF ItemsRaise
  <2>4. j \in DOMAIN s /\ s[j] \notin text.loose /\ (text.cut = "flat" => j < N)
    BY <2>3 DEF Objects
  <2>5. i \in 1..N /\ j \in 1..N /\ i < j
    <3>1. i # j
      BY <2>3, <2>4
    <3>2. i \in 1..N /\ j \in 1..N /\ i <= j
      BY <1>2, <2>3, <2>4
    <3> QED  BY <1>2, <3>1, <3>2
  <2>6. \A k \in {i, j} : k \in DOMAIN Whole(text) /\ Whole(text)[k] = s[k]
    <3>1. CASE text.cut = "flat"
      <4>1. i \in 1..N - 1 /\ j \in 1..N - 1 /\ 1 <= N - 1
        BY <1>2, <2>4, <2>5, <3>1
      <4>2. /\ Front(s) \in Seq(S)
            /\ Len(Front(s)) = IF 1 <= Len(s) - 1 THEN Len(s) - 1 ELSE 0
            /\ \A k \in 1..Len(s) - 1 : Front(s)[k] = s[k]
        <5>1. \A k \in 1..Len(s) - 1 : s[k] \in S
          BY <1>2 DEF ToSet
        <5> HIDE DEF s, S
        <5> QED  BY <1>1, <1>2, <5>1, SubSeqProperties DEF Front
      <4>3. DOMAIN Front(s) = 1..Len(Front(s))
        BY <4>2, LenProperties
      <4>4. DOMAIN Front(s) = 1..N - 1
        BY <4>1, <4>2, <4>3
      <4> QED  BY <3>1, <4>1, <4>2, <4>4 DEF Whole
    <3>2. CASE text.cut # "flat"
      BY <2>3, <2>4, <3>2 DEF Whole
    <3> QED  BY <3>1, <3>2
  <2> QED  BY <1>4, <2>3, <2>4, <2>5, <2>6
<1>5. CASE ~(text.form = "array" /\ text.cut \in {"no", "prose", "flat"})
  BY <1>5 DEF ItemsRaise, ParsedDays
<1> QED  BY <1>3, <1>4, <1>5

\* What the finalizer makes of the model's answer, be it cut off or of another form.
LEMMA FinalizeSalvages == Finalize => AnswerIsSalvaged'
<1> SUFFICES ASSUME NEW text \in ModelAnswers, NEW days \in TripDays,
                    asked' = [tool |-> "finalizer", days |-> days], reply' = text,
                    answer' = IF ItemsRaise(text) THEN [raised |-> TRUE]
                              ELSE [raised |-> FALSE, days |-> DaysPlanned(text, days),
                                    summary |-> Summary(text, days)]
             PROVE  AnswerIsSalvaged'
  BY DEF Finalize
<1> DEFINE planned == DaysPlanned(text, days)
<1>1. CASE ItemsRaise(text)
  <2>1. answer'.raised
    BY <1>1
  <2>2. /\ text.form = "array" /\ text.cut # "nested"
        /\ \E i \in DOMAIN Whole(text) :
             /\ Whole(text)[i] \in text.loose
             /\ text.cut # "no" =>
                  \E j \in DOMAIN Whole(text) : i < j /\ Whole(text)[j] \notin text.loose
    BY <1>1, RaisesOverText
  <2> QED  BY <2>1, <2>2 DEF AnswerIsSalvaged, Whole
<1>2. CASE ~ItemsRaise(text)
  <2>1. /\ planned \in Seq(ToSet(text.days))
        /\ IsPartOf(planned, text.days)
        /\ \A n \in (ToSet(Whole(text)) \ text.loose) \intersect text.headed :
             n \notin ToSet(planned) => Len(planned) = days
    BY PlannedInOrder
  <2>2. ToSet(planned) = {} => planned = <<>>
    <3> HIDE DEF planned
    <3>1. planned # <<>> => Len(planned) \in Nat \ {0} /\ DOMAIN planned = 1..Len(planned)
      BY <2>1, EmptySeq, LenProperties
    <3>2. planned # <<>> => 1 \in DOMAIN planned
      BY <3>1
    <3> QED  BY <3>2 DEF ToSet
  <2>3. ToSet(planned) = {} =>
          Summary(text, days) = IF text.form = "empty" THEN "placeholder" ELSE "answer"
    BY <2>2 DEF Summary
  <2>4. /\ ~answer'.raised /\ answer'.days = planned
        /\ answer'.summary = Summary(text, days) /\ asked'.days = days
    BY <1>2
  <2> HIDE DEF planned
  <2> QED  BY <2>1, <2>3, <2>4 DEF AnswerIsSalvaged, Whole, IsPartOf
<1> QED  BY <1>1, <1>2

\* Whatever the model answers and wherever it is cut off: the finalizer raises only over
\* a text that stands in an array where a day should; otherwise the days of the
\* itinerary are told once and in order, none that was told whole under its heading is
\* lost to a trip with room for it, and an answer without days is shown as it is
\* (AnswerIsSalvaged; finalizer_node).
THEOREM AnswersAreSalvaged == Spec => []AnswerIsSalvaged
<1>1. Init => AnswerIsSalvaged
  BY DEF Init, AnswerIsSalvaged
<1>2. AnswerIsSalvaged /\ [Next]_vars => AnswerIsSalvaged'
  <2> SUFFICES ASSUME AnswerIsSalvaged, [Next]_vars PROVE AnswerIsSalvaged'
    OBVIOUS
  <2>1. CASE Finalize
    BY <2>1, FinalizeSalvages
  <2>2. CASE Next /\ ~Finalize
    BY <2>2, OthersAreNot DEF Next, AnswerIsSalvaged
  <2>3. CASE UNCHANGED vars
    BY <2>3 DEF vars, AnswerIsSalvaged
  <2> QED  BY <2>1, <2>2, <2>3 DEF Next
<1> QED  BY <1>1, <1>2, PTL DEF Spec

-----------------------------------------------------------------------------
(***************************************************************************)
(* Look-ups outside.                                                       *)
(***************************************************************************)

\* The texts of three queries, one after the other, but for those that failed.
LEMMA GatheredFromAll ==
  ASSUME NEW replies \in [1..3 -> WebReplies]
  PROVE  \E S : /\ Gathered(replies) \in Seq(S)
                /\ ToSet(Gathered(replies)) = UNION {ToSet(r) : r \in ToSet(replies) \ {Down}}
<1> DEFINE S == UNION {ToSet(r) : r \in ToSet(replies) \ {Down}}
           seqs == [q \in DOMAIN replies |-> IF replies[q] = Down THEN <<>> ELSE replies[q]]
           flat == [i \in 1..3 |-> IF i = 1 THEN seqs[1]
                                   ELSE IF i = 2 THEN seqs[1] \o seqs[2]
                                   ELSE (seqs[1] \o seqs[2]) \o seqs[3]]
<1>1. \A q \in 1..3 : seqs[q] \in Seq(S)
  <2> TAKE q \in 1..3
  <2>1. CASE replies[q] = Down
    BY <2>1, EmptySeq
  <2>2. CASE replies[q] # Down
    <3>1. replies[q] \in Seq(ToSet(replies[q]))
      BY <2>2, LookupsAssumption
    <3>2. ToSet(replies[q]) \subseteq S
      BY <2>2 DEF ToSet
    <3> QED  BY <2>2, <3>1, <3>2, SeqMonotonic
  <2> QED  BY <2>1, <2>2
<1>2. seqs[1] \o seqs[2] \in Seq(S) /\ (seqs[1] \o seqs[2]) \o seqs[3] \in Seq(S)
  BY <1>1, ConcatProperties
<1>3. Len(seqs) = 3 /\ DOMAIN seqs = 1..3
  OBVIOUS
<1>4. Gathered(replies) = (seqs[1] \o seqs[2]) \o seqs[3]
  <2> DEFINE Flattens(f) == f = [i \in 1..3 |-> IF i = 1 THEN seqs[i] ELSE f[i - 1] \o seqs[i]]
  <2> HIDE DEF seqs
  <2>1. Flattens(flat)
    OBVIOUS
  <2>2. ASSUME NEW f, Flattens(f) PROVE f[3] = (seqs[1] \o seqs[2]) \o seqs[3]
    <3>1. f[1] = seqs[1]
      BY <2>2
    <3>2. \A i \in 1..3 : f[i] = IF i = 1 THEN seqs[i] ELSE f[i - 1] \o seqs[i]
      BY <2>2, Zenon
    <3>3. 2 \in 1..3 /\ 2 # 1 /\ 2 - 1 = 1 /\ 3 \in 1..3 /\ 3 # 1 /\ 3 - 1 = 2
      OBVIOUS
    <3> HIDE DEF Flattens
    <3>4. f[2] = seqs[1] \o seqs[2]
      BY <3>1, <3>2, <3>3, Zenon
    <3>5. f[3] = f[2] \o seqs[3]
      BY <3>2, <3>3, Zenon
    <3> QED  BY <3>4, <3>5
  <2>3. FlattenSeq(seqs) = (CHOOSE f : Flattens(f))[3]
    BY <1>3 DEF FlattenSeq
  <2> QED  BY <2>1, <2>2, <2>3 DEF Gathered, seqs
<1>5. ToSet(Gathered(replies)) = ToSet(seqs[1]) \union ToSet(seqs[2]) \union ToSet(seqs[3])
  <2> HIDE DEF seqs, S
  <2>1. ToSet(seqs[1] \o seqs[2]) = ToSet(seqs[1]) \union ToSet(seqs[2])
    BY <1>1, ConcatHasBoth
  <2>2. seqs[3] \in Seq(S)
    BY <1>1
  <2>3. ToSet((seqs[1] \o seqs[2]) \o seqs[3]) = ToSet(seqs[1] \o seqs[2]) \union ToSet(seqs[3])
    BY <1>2, <2>2, ConcatHasBoth
  <2> QED  BY <1>4, <2>1, <2>3
<1>6. \A q \in 1..3 : ToSet(seqs[q]) = IF replies[q] = Down THEN {} ELSE ToSet(replies[q])
  <2>1. ToSet(<<>>) = {}
    BY DEF ToSet
  <2> QED  BY <2>1
<1>7. ToSet(seqs[1]) \union ToSet(seqs[2]) \union ToSet(seqs[3]) = S
  <2> HIDE DEF seqs
  <2>1. ToSet(replies) = {replies[1], replies[2], replies[3]}
    BY DEF ToSet
  <2>2. ASSUME NEW x, \E q \in 1..3 : x \in ToSet(seqs[q]) PROVE x \in S
    BY <1>6, <2>2 DEF ToSet
  <2>3. ASSUME NEW x \in S PROVE \E q \in 1..3 : x \in ToSet(seqs[q])
    <3>1. PICK r \in ToSet(replies) \ {Down} : x \in ToSet(r)
      OBVIOUS
    <3>2. PICK q \in 1..3 : r = replies[q]
      BY DEF ToSet
    <3> QED  BY <1>6, <3>1, <3>2
  <2> HIDE DEF S
  <2> QED  BY <2>2, <2>3
<1> QED  BY <1>2, <1>4, <1>5, <1>7

\* What one search engine gives: every result once, from the queries that did not fail;
\* all of them if there is room.
LEMMA FoundAreDistinct ==
  ASSUME NEW replies \in [1..3 -> WebReplies]
  PROVE  LET found == Found(replies, WebLimit)
             told == {t.key : t \in ToSet(found)}
             keys == UNION {{t.key : t \in ToSet(r)} : r \in ToSet(replies) \ {Down}}
         IN /\ Cardinality(told) = Len(found)
            /\ told \subseteq keys
            /\ Len(found) < WebLimit => told = keys
<1> DEFINE g == Gathered(replies)
           key == [i \in DOMAIN g |-> g[i].key]
           K == Firsts(key, Len(g))
           kept == Picked(g, K)
           found == Found(replies, WebLimit)
           told == {t.key : t \in ToSet(found)}
           keys == UNION {{t.key : t \in ToSet(r)} : r \in ToSet(replies) \ {Down}}
<1>1. PICK S : g \in Seq(S) /\ ToSet(g) = UNION {ToSet(r) : r \in ToSet(replies) \ {Down}}
  BY GatheredFromAll
<1> HIDE DEF g
<1>2. Len(g) \in Nat /\ DOMAIN g = 1..Len(g) /\ \A i \in 1..Len(g) : key[i] = g[i].key
  BY <1>1, LenProperties
<1> HIDE DEF key
<1>3. keys = {t.key : t \in ToSet(g)}
  BY <1>1
<1>4. found = FirstOf(kept, WebLimit)
  <2>1. K = {i \in DOMAIN g : \A j \in 1..i - 1 : g[j].key # g[i].key}
    <3>1. \A i \in 1..Len(g) : \A j \in 1..i - 1 : j \in 1..Len(g)
      BY <1>2
    <3>2. \A i \in 1..Len(g) : (\A j \in 1..i - 1 : key[j] # key[i])
                                 <=> \A j \in 1..i - 1 : g[j].key # g[i].key
      BY <1>2, <3>1
    <3> QED  BY <1>2, <3>2 DEF Firsts
  <2> QED  BY <2>1 DEF Found, FirstOfEach, g
<1>5. kept \in Seq(S) /\ IsPicked(kept, g, K) /\ ToSet(kept) = {g[i] : i \in K}
  BY <1>1, <1>2, PickedIsPicked DEF Firsts
<1>6. /\ \A i \in 1..Len(g) : \E k \in K : key[k] = key[i]
      /\ \A i, j \in K : key[i] = key[j] => i = j
  BY <1>2, FirstsHaveAllKeys
<1>7. K \subseteq DOMAIN g
  BY <1>2 DEF Firsts
<1> HIDE DEF K, kept
<1>8. /\ found \in Seq(S) /\ \A i \in 1..Len(found) : i \in DOMAIN kept /\ found[i] = kept[i]
      /\ Len(found) < WebLimit => found = kept
      /\ ToSet(found) \subseteq ToSet(kept)
  <2>1. WebLimit \in Nat
    BY LookupsAssumption
  <2> HIDE DEF found
  <2> QED  BY <1>4, <1>5, <2>1, FirstOfIsPrefix
<1>9. {t.key : t \in ToSet(kept)} = keys
  <2>1. ASSUME NEW i \in DOMAIN g PROVE \E t \in ToSet(kept) : t.key = g[i].key
    BY <1>2, <1>5, <1>6, <1>7, <2>1
  <2>2. ToSet(kept) \subseteq ToSet(g)
    BY <1>5, <1>7 DEF ToSet
  <2> QED  BY <1>3, <2>1, <2>2 DEF ToSet
<1>10. \A i, j \in DOMAIN kept : kept[i].key = kept[j].key => i = j
  <2>1. PICK at \in [DOMAIN kept -> K] :
          /\ \A n \in DOMAIN kept : kept[n] = g[at[n]]
          /\ \A m, n \in DOMAIN kept : m < n <=> at[m] < at[n]
    BY <1>5 DEF IsPicked
  <2> SUFFICES ASSUME NEW i \in DOMAIN kept, NEW j \in DOMAIN kept, kept[i].key = kept[j].key
               PROVE  i = j
    OBVIOUS
  <2>2. key[at[i]] = key[at[j]]
    BY <1>2, <1>7, <2>1
  <2>3. at[i] = at[j]
    BY <1>6, <2>1, <2>2
  <2>4. at[i] \in Nat
    BY <1>2, <1>7, <2>1
  <2>5. ~(i < j) /\ ~(j < i)
    BY <2>1, <2>3, <2>4
  <2>6. i \in Nat /\ j \in Nat
    BY <1>5, LenProperties
  <2> QED  BY <2>5, <2>6
<1> HIDE DEF found, keys, key
<1>11. Len(found) \in Nat /\ DOMAIN found = 1..Len(found)
  BY <1>8, LenProperties
<1>12. Cardinality(told) = Len(found)
  <2> DEFINE f == [i \in 1..Len(found) |-> found[i].key]
  <2>1. \A i \in 1..Len(found) : f[i] \in told
    BY <1>11 DEF ToSet
  <2>2. \A x \in told : \E i \in 1..Len(found) : f[i] = x
    BY <1>11 DEF ToSet
  <2>3. \A i, j \in 1..Len(found) : f[i] = f[j] => i = j
    BY <1>8, <1>10
  <2> HIDE DEF f
  <2> QED  BY <1>11, <2>1, <2>2, <2>3, DistinctAreCounted
<1>13. told \subseteq keys
  BY <1>8, <1>9
<1>14. Len(found) < WebLimit => told = keys
  BY <1>8, <1>9
<1> QED  BY <1>12, <1>13, <1>14 DEF found, keys

\* There are eight intervals of three hours in a day.
LEMMA Eighths ==
  \A x \in Nat : /\ x \div 8 \in Nat
                 /\ 8 * (x \div 8) <= x /\ x < 8 * (x \div 8) + 8
OBVIOUS

\* The dates of the intervals begin today and leave none out.
LEMMA DatesOfIntervals ==
  ASSUME NEW days \in Nat, NEW slot \in 0..7
  PROVE  LET s == IntervalDates(days, slot)
             I == Intervals(days)
         IN /\ I \in Nat /\ s \in Seq(Nat) /\ Len(s) = I
            /\ \A i, j \in 1..I : i < j => s[i] <= s[j]
            /\ \A i \in 1..I : \A d \in 0..s[i] : \E j \in 1..I : s[j] = d
            /\ days <= 5 => \A d \in 0..days - 1 : \E j \in 1..I : s[j] = d
<1> DEFINE s == IntervalDates(days, slot)
           I == Intervals(days)
<1>1. I \in Nat /\ (days <= 5 => I = 8 * days)
  BY DEF Intervals
<1>2. \A i \in 1..I : slot + i - 1 \in Nat
  BY <1>1
<1>3. s = [i \in 1..I |-> (slot + i - 1) \div 8]
  BY DEF IntervalDates
<1> HIDE DEF I, s
<1>4. s \in [1..I -> Nat]
  BY <1>2, <1>3, Eighths
<1>5. s \in Seq(Nat) /\ Len(s) = I
  BY <1>1, <1>4
<1>6. \A i \in 1..I : s[i] \in Nat /\ 8 * s[i] <= slot + i - 1 /\ slot + i - 1 < 8 * s[i] + 8
  BY <1>2, <1>3, Eighths
<1>7. \A i, j \in 1..I : i < j => s[i] <= s[j]
  BY <1>1, <1>6
<1>8. ASSUME NEW d \in Nat, NEW i \in 1..I, 8 * d <= slot + i - 1
      PROVE  \E j \in 1..I : s[j] = d
  <2> DEFINE j == IF d = 0 THEN 1 ELSE 8 * d - slot + 1
  <2>1. j \in 1..I
    BY <1>1, <1>8
  <2>2. s[j] \in Nat /\ 8 * s[j] <= slot + j - 1 /\ slot + j - 1 < 8 * s[j] + 8
    BY <1>6, <2>1
  <2>3. s[j] = d
    BY <2>2
  <2> QED  BY <2>1, <2>3
<1>9. \A i \in 1..I : \A d \in 0..s[i] : \E j \in 1..I : s[j] = d
  <2> SUFFICES ASSUME NEW i \in 1..I, NEW d \in 0..s[i] PROVE \E j \in 1..I : s[j] = d
    OBVIOUS
  <2>1. d \in Nat /\ 8 * d <= slot + i - 1
    BY <1>1, <1>6
  <2> QED  BY <1>8, <2>1
<1>10. days <= 5 => \A d \in 0..days - 1 : \E j \in 1..I : s[j] = d
  <2> SUFFICES ASSUME days <= 5, NEW d \in 0..days - 1 PROVE \E j \in 1..I : s[j] = d
    OBVIOUS
  <2>1. d \in Nat /\ I \in 1..I /\ 8 * d <= slot + I - 1
    BY <1>1
  <2> QED  BY <1>8, <2>1
<1> QED  BY <1>1, <1>5, <1>7, <1>9, <1>10 DEF I, s

\* The dates a forecast is parsed into are the first ones, each once; for up to five
\* days none is missing, whatever the time of day.
LEMMA ParsedDatesAreFirst ==
  ASSUME NEW days \in Nat, NEW slot \in 0..7
  PROVE  LET dates == ParsedDates(days, slot)
         IN /\ \A i \in DOMAIN dates : dates[i] = i - 1
            /\ Len(dates) <= days
            /\ days <= 5 => Len(dates) = days
<1> DEFINE s == IntervalDates(days, slot)
           I == Intervals(days)
           K == Firsts(s, I)
           kept == Picked(s, K)
           dates == ParsedDates(days, slot)
<1>1. /\ I \in Nat /\ s \in Seq(Nat) /\ Len(s) = I
      /\ \A i, j \in 1..I : i < j => s[i] <= s[j]
      /\ \A i \in 1..I : \A d \in 0..s[i] : \E j \in 1..I : s[j] = d
      /\ days <= 5 => \A d \in 0..days - 1 : \E j \in 1..I : s[j] = d
  BY DatesOfIntervals
<1>2. DOMAIN s = 1..I /\ \A i \in 1..I : s[i] \in Nat
  BY <1>1, LenProperties, ElementOfSeq
<1>3. dates = FirstOf(kept, days)
  BY <1>2 DEF ParsedDates, FirstOfEach, Firsts
<1> HIDE DEF s, I, dates
<1>4. K \subseteq 1..I
  BY DEF Firsts
<1>5. /\ \A i \in 1..I : \E k \in K : s[k] = s[i]
      /\ \A i, j \in K : s[i] = s[j] => i = j
  <2>1. I \in Nat
    BY <1>1
  <2> HIDE DEF kept
  <2>2. /\ \A i \in 1..I : \E k \in Firsts(s, I) : k <= i /\ s[k] = s[i]
        /\ \A i, j \in Firsts(s, I) : s[i] = s[j] => i = j
    BY <2>1, FirstsHaveAllKeys
  <2> QED  BY <2>2
<1>6. kept \in Seq(Nat) /\ IsPicked(kept, s, K)
  BY <1>1, <1>2, <1>4, PickedIsPicked
<1> HIDE DEF K, kept
<1>7. Len(kept) \in Nat /\ DOMAIN kept = 1..Len(kept) /\ \A n \in 1..Len(kept) : kept[n] \in Nat
  BY <1>6, LenProperties, ElementOfSeq
<1>8. PICK at \in [DOMAIN kept -> K] :
        /\ \A n \in DOMAIN kept : kept[n] = s[at[n]]
        /\ \A k \in K : \E n \in DOMAIN kept : at[n] = k
        /\ \A m, n \in DOMAIN kept : m < n <=> at[m] < at[n]
  BY <1>6 DEF IsPicked
<1>9. ASSUME NEW m \in DOMAIN kept, NEW n \in DOMAIN kept, m < n PROVE kept[m] < kept[n]
  <2>1. at[m] < at[n] /\ at[m] \in 1..I /\ at[n] \in 1..I
    BY <1>4, <1>8, <1>9
  <2>2. s[at[m]] <= s[at[n]] /\ s[at[m]] # s[at[n]]
    BY <1>1, <1>5, <1>8, <2>1
  <2> QED  BY <1>2, <1>8, <2>1, <2>2
<1>10. \A d : (\E j \in 1..I : s[j] = d) => \E m \in DOMAIN kept : kept[m] = d
  BY <1>5, <1>8
<1>11. \A n \in DOMAIN kept : kept[n] = n - 1
  <2> DEFINE X == {n \in DOMAIN kept : kept[n] # n - 1}
  <2> SUFFICES ASSUME X # {} PROVE FALSE
    OBVIOUS
  <2>0. X \in SUBSET Nat
    BY <1>7
  <2>1. PICK n \in X : \A k \in X : n <= k
    BY <2>0, Least
  <2>2. n \in DOMAIN kept /\ n \in Nat /\ n >= 1 /\ kept[n] \in Nat
        /\ \A m \in DOMAIN kept : m < n => kept[m] = m - 1
    BY <1>7, <2>1
  <2>3. kept[n] >= n - 1
    <3>1. CASE n = 1
      BY <2>2, <3>1
    <3>2. CASE n > 1
      <4>1. n - 1 \in DOMAIN kept /\ n - 1 < n
        BY <1>7, <2>2, <3>2
      <4> QED  BY <1>9, <2>2, <4>1
    <3> QED  BY <2>2, <3>1, <3>2
  <2>4. PICK m \in DOMAIN kept : kept[m] = n - 1
    <3>1. at[n] \in 1..I /\ n - 1 \in 0..s[at[n]]
      <4>1. at[n] \in 1..I /\ s[at[n]] = kept[n]
        BY <1>4, <1>8, <2>2
      <4> QED  BY <2>2, <2>3, <4>1
    <3> QED  BY <1>1, <1>10, <3>1
  <2>5. m \in Nat /\ kept[n] # n - 1
    BY <1>7, <2>1
  <2>6. m < n \/ m = n \/ n < m
    BY <2>2, <2>5
  <2> QED  BY <1>9, <2>2, <2>3, <2>4, <2>5, <2>6
<1>12. days <= 5 => days <= Len(kept)
  <2> SUFFICES ASSUME days <= 5, days > 0 PROVE days <= Len(kept)
    BY <1>7
  <2>1. days - 1 \in 0..days - 1
    OBVIOUS
  <2>2. PICK m \in DOMAIN kept : kept[m] = days - 1
    BY <1>1, <1>10, <2>1
  <2> QED  BY <1>7, <1>11, <2>2
<1>13. /\ dates \in Seq(Nat)
       /\ Len(dates) = IF days < Len(kept) THEN days ELSE Len(kept)
       /\ \A i \in 1..Len(dates) : i \in DOMAIN kept /\ dates[i] = kept[i]
  BY <1>3, <1>6, FirstOfIsPrefix
<1>14. \A i \in DOMAIN dates : dates[i] = i - 1
  BY <1>11, <1>13, LenProperties
<1>15. Len(dates) <= days /\ (days <= 5 => Len(dates) = days)
  <2>1. Len(dates) = IF days < Len(kept) THEN days ELSE Len(kept)
    BY <1>13
  <2>2. Len(kept) \in Nat
    BY <1>7
  <2> QED  BY <1>12, <2>1, <2>2
<1> QED  BY <1>14, <1>15 DEF dates

\* The same of the forecast, which is made up when the service fails.
LEMMA ForecastDegrades ==
  ASSUME NEW days \in Days, NEW slot \in 0..7, NEW service \in {"works", Unconfigured, Down}
  PROVE  LET dates == ForecastDates(service, days, slot)
         IN /\ \A i \in DOMAIN dates : dates[i] = i - 1
            /\ Len(dates) <= days
            /\ service # "works" \/ days <= 5 => Len(dates) = days
<1>1. days \in Nat
  BY LookupsAssumption
<1>2. CASE service \in {Unconfigured, Down}
  <2>1. ForecastDates(service, days, slot) = [i \in 1..days |-> i - 1]
    BY <1>2 DEF ForecastDates, MockDates
  <2>2. Len([i \in 1..days |-> i - 1]) = days
    BY <1>1
  <2> QED  BY <1>1, <2>1, <2>2
<1>3. CASE service \notin {Unconfigured, Down}
  <2>1. ForecastDates(service, days, slot) = ParsedDates(days, slot)
    BY <1>3 DEF ForecastDates
  <2>2. service = "works"
    BY <1>3
  <2> DEFINE dates == ParsedDates(days, slot)
  <2>3. /\ \A i \in DOMAIN dates : dates[i] = i - 1
        /\ Len(dates) <= days
        /\ days <= 5 => Len(dates) = days
    BY <1>1, ParsedDatesAreFirst
  <2> QED  BY <2>1, <2>2, <2>3
<1> QED  BY <1>2, <1>3

\* t is the beginning of s, and all of it if there is room.
IsBeginning(t, s) == IsPrefix(t, s) /\ (Len(t) < PlaceLimit => t = s)

\* What there is to take places from without the service.
Curated(curated) == {curated.named, DefaultPlaces} \union ToSet(curated.alike)

\* Without the service there are always places, all from one list and all named.
LEMMA MockPlacesAreCurated ==
  ASSUME NEW curated \in Curations
  PROVE  LET places == MockPlaces(curated, PlaceLimit)
         IN /\ places # <<>>
            /\ Nameless \notin ToSet(places)
            /\ \E source \in Curated(curated) \ {Down, Unconfigured} : IsBeginning(places, source)
<1> DEFINE alike == curated.alike
           source == CASE curated.named # <<>> -> curated.named
                       [] curated.named = <<>> /\ alike # <<>> -> Head(alike)
                       [] OTHER -> DefaultPlaces
           places == MockPlaces(curated, PlaceLimit)
<1>1. PlaceLimit \in Nat /\ PlaceLimit >= 1
  BY LookupsAssumption
<1>2. places = FirstOf(source, PlaceLimit)
  BY DEF MockPlaces
<1>3. alike # <<>> => Head(alike) \in ToSet(alike)
  <2>1. alike \in Seq(ToSet(alike))
    BY LookupsAssumption
  <2> QED  BY <2>1, HeadTailProperties
<1>4. source \in Curated(curated) /\ source # <<>>
  <2>1. DefaultPlaces # <<>> /\ <<>> \notin ToSet(alike)
    BY LookupsAssumption
  <2> QED  BY <1>3, <2>1 DEF Curated
<1> HIDE DEF source
<1>5. source \in Seq(ToSet(source) \ {Nameless}) /\ source \notin {Down, Unconfigured}
  BY <1>4, LookupsAssumption DEF Curated
<1> DEFINE S == ToSet(source) \ {Nameless}
<1> HIDE DEF S, places
<1>6. /\ places \in Seq(S)
      /\ Len(places) = IF PlaceLimit < Len(source) THEN PlaceLimit ELSE Len(source)
      /\ IsPrefix(places, source) /\ (Len(places) < PlaceLimit => places = source)
  BY <1>1, <1>2, <1>5, FirstOfIsPrefix DEF S
<1>7. Nameless \notin ToSet(places)
  <2>1. \A i \in DOMAIN places : places[i] \in S
    BY <1>6, LenProperties, ElementOfSeq
  <2> QED  BY <2>1 DEF ToSet, S
<1>8. places # <<>>
  <2>1. Len(source) \in Nat \ {0}
    BY <1>4, <1>5, EmptySeq DEF S
  <2>2. Len(<<>>) = 0
    OBVIOUS
  <2> QED  BY <1>1, <1>6, <2>1, <2>2
<1> QED  BY <1>4, <1>5, <1>6, <1>7, <1>8 DEF places, IsBeginning

\* The same of the service's own places, unless it knows of none.
LEMMA PlacesDegrade ==
  ASSUME NEW service \in PlaceReplies \union {Unconfigured}, NEW curated \in Curations
  PROVE  LET places == PlacesFound(service, curated, PlaceLimit)
         IN /\ places = <<>> => service = <<>>
            /\ Nameless \notin ToSet(places)
            /\ \E source \in {service} \union Curated(curated) :
                 source \notin {Down, Unconfigured} /\ IsBeginning(places, source)
<1> DEFINE places == PlacesFound(service, curated, PlaceLimit)
<1>1. PlaceLimit \in Nat /\ PlaceLimit >= 1
  BY LookupsAssumption
<1>2. CASE places = MockPlaces(curated, PlaceLimit)
  <2> HIDE DEF places
  <2> QED  BY <1>2, MockPlacesAreCurated DEF places
<1>3. CASE places # MockPlaces(curated, PlaceLimit)
  <2>1. /\ service \notin {Unconfigured, Down}
        /\ Nameless \notin ToSet(FirstOf(service, PlaceLimit))
        /\ places = FirstOf(service, PlaceLimit)
    BY <1>3 DEF PlacesFound, PlacesRead
  <2>2. service \in Seq(ToSet(service))
    BY <2>1, LookupsAssumption
  <2> HIDE DEF places
  <2>3. /\ Len(places) = IF PlaceLimit < Len(service) THEN PlaceLimit ELSE Len(service)
        /\ IsPrefix(places, service) /\ (Len(places) < PlaceLimit => places = service)
    BY <1>1, <2>1, <2>2, FirstOfIsPrefix
  <2>4. places = <<>> => service = <<>>
    <3>1. Len(<<>>) = 0
      OBVIOUS
    <3> QED  BY <1>1, <2>3, <3>1
  <2> QED  BY <2>1, <2>3, <2>4 DEF places, IsBeginning
<1> QED  BY <1>2, <1>3

\* What each of the three tools keeps when services fail.
LEMMA LookupsDegradeInEachTool ==
  /\ SearchWeb => LookupsDegrade'
  /\ Forecast => LookupsDegrade'
  /\ SearchPlaces => LookupsDegrade'
<1>1. ASSUME SearchWeb PROVE LookupsDegrade'
  <2>1. PICK tavily \in [1..3 -> WebReplies] \union {Unconfigured} :
             \E duckduckgo \in IF HandsOver(tavily, WebLimit) THEN [1..3 -> WebReplies]
                               ELSE {Unconfigured} :
               /\ asked' = [tool |-> "web"]
               /\ reply' = [tavily |-> tavily, duckduckgo |-> duckduckgo]
               /\ answer' = WebText(tavily, duckduckgo, WebLimit)
    BY <1>1 DEF SearchWeb
  <2>2. PICK duckduckgo \in IF HandsOver(tavily, WebLimit) THEN [1..3 -> WebReplies]
                            ELSE {Unconfigured} :
               /\ asked' = [tool |-> "web"]
               /\ reply' = [tavily |-> tavily, duckduckgo |-> duckduckgo]
               /\ answer' = WebText(tavily, duckduckgo, WebLimit)
    BY <2>1
  <2> DEFINE replies == IF answer' = <<>> \/ duckduckgo # Unconfigured
                        THEN duckduckgo ELSE tavily
  <2>3. replies \in [1..3 -> WebReplies] /\ answer' = Found(replies, WebLimit)
    <3>1. CASE HandsOver(tavily, WebLimit)
      <4>1. duckduckgo \in [1..3 -> WebReplies] /\ duckduckgo # Unconfigured
        BY <2>2, <3>1, LookupsAssumption
      <4> QED  BY <2>2, <3>1, <4>1 DEF WebText
    <3>2. CASE ~HandsOver(tavily, WebLimit)
      <4>1. tavily \in [1..3 -> WebReplies] /\ duckduckgo = Unconfigured
            /\ Found(tavily, WebLimit) # <<>>
        BY <2>1, <2>2, <3>2 DEF HandsOver
      <4> QED  BY <2>2, <3>2, <4>1 DEF WebText
    <3> QED  BY <3>1, <3>2
  <2>4. asked'.tool = "web" /\ reply'.duckduckgo = duckduckgo /\ reply'.tavily = tavily
    BY <2>2
  <2> HIDE DEF replies
  <2>5. LET told == {t.key : t \in ToSet(answer')}
            keys == UNION {{t.key : t \in ToSet(r)} : r \in ToSet(replies) \ {Down}}
        IN /\ Cardinality(told) = Len(answer')
           /\ told \subseteq keys
           /\ Len(answer') < WebLimit => told = keys
    BY <2>3, FoundAreDistinct
  <2> QED  BY <2>4, <2>5 DEF LookupsDegrade, replies
<1>2. ASSUME Forecast PROVE LookupsDegrade'
  <2>1. PICK days \in Days, slot \in 0..7, service \in {"works", Unconfigured, Down} :
               /\ asked' = [tool |-> "weather", days |-> days]
               /\ reply' = [service |-> service, slot |-> slot]
               /\ answer' = ForecastDates(service, days, slot)
    BY <1>2 DEF Forecast
  <2>2. asked'.tool = "weather" /\ asked'.days = days /\ reply'.service = service
    BY <2>1
  <2> DEFINE dates == ForecastDates(service, days, slot)
  <2>3. /\ \A i \in DOMAIN dates : dates[i] = i - 1
        /\ Len(dates) <= days
        /\ service # "works" \/ days <= 5 => Len(dates) = days
    BY ForecastDegrades
  <2>4. answer' = dates
    BY <2>1
  <2> HIDE DEF dates
  <2> QED  BY <2>2, <2>3, <2>4 DEF LookupsDegrade
<1>3. ASSUME SearchPlaces PROVE LookupsDegrade'
  <2>1. PICK service \in PlaceReplies \union {Unconfigured}, curated \in Curations :
               /\ asked' = [tool |-> "places", curated |-> curated]
               /\ reply' = [service |-> service]
               /\ answer' = PlacesFound(service, curated, PlaceLimit)
    BY <1>3 DEF SearchPlaces
  <2>2. asked'.tool = "places" /\ asked'.curated = curated /\ reply'.service = service
    BY <2>1
  <2>3. /\ answer' = <<>> => service = <<>>
        /\ Nameless \notin ToSet(answer')
        /\ \E source \in {service} \union Curated(curated) :
                 source \notin {Down, Unconfigured} /\ IsBeginning(answer', source)
    BY <2>1, PlacesDegrade
  <2> QED  BY <2>2, <2>3 DEF LookupsDegrade, Curated, IsBeginning
<1> QED  BY <1>1, <1>2, <1>3

\* Whichever queries fail, a look-up answers with all that the others have found, nothing
\* twice, and no more than was asked for (LookupsDegrade; tools/web_search.py,
\* tools/weather.py, tools/places.py).
THEOREM LookupsKeepWhatTheyCan == Spec => []LookupsDegrade
<1>1. Init => LookupsDegrade
  BY DEF Init, LookupsDegrade
<1>2. LookupsDegrade /\ [Next]_vars => LookupsDegrade'
  <2> SUFFICES ASSUME LookupsDegrade, [Next]_vars PROVE LookupsDegrade'
    OBVIOUS
  <2>1. CASE SearchWeb \/ Forecast \/ SearchPlaces
    BY <2>1, LookupsDegradeInEachTool
  <2>2. CASE Search \/ Book \/ Finalize
    BY <2>2, OthersAreNot DEF LookupsDegrade
  <2>3. CASE UNCHANGED vars
    BY <2>3 DEF vars, LookupsDegrade
  <2> QED  BY <2>1, <2>2, <2>3 DEF Next
<1> QED  BY <1>1, <1>2, PTL DEF Spec

-----------------------------------------------------------------------------
(***************************************************************************)
(* Booking.                                                                *)
(***************************************************************************)

\* A stable sort by price.
LEMMA SortedByPrice ==
  ASSUME NEW S, NEW s \in Seq(S), \A o \in S : o.price \in Int
  PROVE  LET t == Sorted(s, Cheaper)
         IN /\ t \in Seq(S) /\ Len(t) = Len(s) /\ ToSet(t) = ToSet(s)
            /\ \E at \in [DOMAIN s -> DOMAIN s] :
                 /\ t = [n \in DOMAIN s |-> s[at[n]]]
                 /\ \A m, n \in DOMAIN s : m < n => at[m] # at[n] /\ t[m].price <= t[n].price
<1> DEFINE P == DOMAIN s
           less == [i \in P |-> {j \in P : s[j].price < s[i].price}]
           t == Sorted(s, Cheaper)
<1>1. \A i \in P : s[i].price \in Int
  BY LenProperties, ElementOfSeq
<1>2. IsWeakOrder(less, P)
  BY <1>1 DEF IsWeakOrder
<1>3. Stably(less) = [i \in P |-> {j \in P : Cheaper(s[j], s[i])
                                             \/ (~Cheaper(s[i], s[j]) /\ j < i)}]
  BY DEF Stably, Cheaper
<1>4. t = LET at == Arranged(Stably(less)) IN [n \in DOMAIN at |-> s[at[n]]]
  BY <1>3 DEF Sorted
<1> HIDE DEF t, less
<1>5. t \in Seq(S) /\ Len(t) = Len(s) /\ ToSet(t) = ToSet(s) /\ IsSortOf(t, s, less)
  BY <1>2, <1>4, SortIsSorted
<1>6. PICK at \in [P -> P] :
        /\ t = [n \in P |-> s[at[n]]]
        /\ \A m, n \in P : m < n => at[m] # at[n] /\ at[n] \notin less[at[m]]
  BY <1>5 DEF IsSortOf
<1>7. ASSUME NEW m \in P, NEW n \in P, m < n PROVE at[m] # at[n] /\ t[m].price <= t[n].price
  <2>1. at[m] \in P /\ at[n] \in P /\ t[m] = s[at[m]] /\ t[n] = s[at[n]]
    BY <1>6
  <2>2. ~(s[at[n]].price < s[at[m]].price)
    BY <1>6, <1>7, <2>1 DEF less
  <2> QED  BY <1>1, <1>6, <1>7, <2>1, <2>2
<1> QED  BY <1>5, <1>6, <1>7 DEF t

\* A stable sort by value for money.
LEMMA SortedByValue ==
  ASSUME NEW S, NEW s \in Seq(S), \A o \in S : o.price \in Int /\ o.rating \in Int
  PROVE  LET t == Sorted(s, BetterValue)
         IN /\ t \in Seq(S) /\ Len(t) = Len(s) /\ ToSet(t) = ToSet(s)
            /\ \E at \in [DOMAIN s -> DOMAIN s] :
                 /\ t = [n \in DOMAIN s |-> s[at[n]]]
                 /\ \A m, n \in DOMAIN s : m < n => at[m] # at[n]
<1> DEFINE P == DOMAIN s
           less == [i \in P |-> {j \in P : BetterValue(s[j], s[i])}]
           t == Sorted(s, BetterValue)
<1>1. \A i \in P : s[i].price \in Int /\ s[i].rating \in Int
  BY LenProperties, ElementOfSeq
<1>2. IsWeakOrder(less, P)
  <2> DEFINE rating == [i \in P |-> s[i].rating]
             cost == [i \in P |-> IF s[i].price > 1 THEN s[i].price ELSE 1]
  <2>1. \A i \in P : rating[i] \in Int /\ cost[i] \in Nat \ {0}
    BY <1>1
  <2>2. \A i, j \in P : j \in less[i] <=> rating[i] * cost[j] < rating[j] * cost[i]
    BY <1>1 DEF BetterValue
  <2>3. less \in [P -> SUBSET P]
    OBVIOUS
  <2> HIDE DEF less, rating, cost
  <2> QED  BY <2>1, <2>2, <2>3, FractionsAreWeaklyOrdered
<1>3. Stably(less) = [i \in P |-> {j \in P : BetterValue(s[j], s[i])
                                             \/ (~BetterValue(s[i], s[j]) /\ j < i)}]
  BY DEF Stably
<1>4. t = LET at == Arranged(Stably(less)) IN [n \in DOMAIN at |-> s[at[n]]]
  BY <1>3 DEF Sorted
<1> HIDE DEF t, less
<1>5. t \in Seq(S) /\ Len(t) = Len(s) /\ ToSet(t) = ToSet(s) /\ IsSortOf(t, s, less)
  BY <1>2, <1>4, SortIsSorted
<1> QED  BY <1>5 DEF t, IsSortOf

\* A list of hotels.
IsHotels(s, S) ==
  s \in Seq(S) /\ \A h \in S : {h.price, h.rating} \subseteq Int \union {Misfit}

\* Hotels have whole-numbered prices and ratings, or misfits in their place.
LEMMA HotelsAreFound ==
  ASSUME NEW options \in HotelReplies, NEW percent \in HotelPercents
  PROVE  \E S : IsHotels(HotelsFound(options, percent), S)
<1>1. CASE HotelsFound(options, percent) = MockHotels(percent)
  <2>1. percent \in Nat
    BY BookingAssumption
  <2>2. \A p \in Nat : (p * percent) \div 100 \in Int
    BY <2>1
  <2>3. MockHotels(percent) \in Seq([price : Int, rating : Int])
    BY <2>2 DEF MockHotels
  <2>4. IsHotels(MockHotels(percent), [price : Int, rating : Int])
    BY <2>3 DEF IsHotels
  <2> QED  BY <1>1, <2>4
<1>2. CASE options # Failed /\ HotelsFound(options, percent) = FirstOf(options, 5)
  <2>1. IsHotels(options, ToSet(options))
    BY <1>2, BookingAssumption DEF IsHotels
  <2>2. FirstOf(options, 5) \in Seq(ToSet(options))
    BY <2>1, FirstOfIsPrefix DEF IsHotels
  <2> QED  BY <1>2, <2>1, <2>2 DEF IsHotels
<1> QED  BY <1>1, <1>2 DEF HotelsFound

\* A hotel within its share of the budget.
IsWithin(h, request) == WithinShare(h.price * request.days, request.budget)

\* Of the hotels beyond their share the first is kept, of the others all.
LEMMA HotelsAreKept ==
  ASSUME NEW S, NEW found \in Seq(S), NEW request
  PROVE  LET s == HotelsKept(found, request)
         IN /\ s \in Seq(S)
            /\ \A h \in ToSet(s) :
                 \E i \in DOMAIN found :
                   /\ found[i] = h
                   /\ \/ IsWithin(found[i], request)
                      \/ \A j \in 1..i - 1 : IsWithin(found[j], request)
            /\ \A h \in ToSet(found) : IsWithin(h, request) => h \in ToSet(s)
            /\ \A m, n \in DOMAIN s :
                 ~IsWithin(s[m], request) /\ ~IsWithin(s[n], request) => m = n
<1> DEFINE W == {i \in DOMAIN found : IsWithin(found[i], request)}
           B == {i \in DOMAIN found : ~IsWithin(found[i], request)}
           within == Picked(found, W)
           others == Picked(found, B)
           beyond == FirstOf(others, 1)
           s == within \o beyond
<1>1. HotelsKept(found, request) = s
  BY DEF HotelsKept, Kept, IsWithin
<1> HIDE DEF W, B
<1>2. W \in SUBSET DOMAIN found /\ B \in SUBSET DOMAIN found
  BY DEF W, B
<1>3. within \in Seq(S) /\ ToSet(within) = {found[i] : i \in W}
  BY <1>2, PickedIsPicked
<1>4. others \in Seq(S) /\ IsPicked(others, found, B)
  BY <1>2, PickedIsPicked
<1> HIDE DEF within, others
<1>5. /\ beyond \in Seq(S)
      /\ Len(beyond) = IF 1 < Len(others) THEN 1 ELSE Len(others)
      /\ \A i \in 1..Len(beyond) : i \in DOMAIN others /\ beyond[i] = others[i]
  BY <1>4, FirstOfIsPrefix
<1>6. Len(others) \in Nat /\ DOMAIN others = 1..Len(others)
  BY <1>4, LenProperties
<1> HIDE DEF beyond
<1>7. DOMAIN beyond = 1..Len(beyond) /\ Len(beyond) \in Nat /\ Len(beyond) <= 1
  <2>1. DOMAIN beyond = 1..Len(beyond) /\ Len(beyond) \in Nat
    BY <1>5, LenProperties
  <2>2. Len(beyond) <= 1
    BY <1>5, <1>6
  <2> QED  BY <2>1, <2>2
<1>8. ASSUME NEW h \in ToSet(beyond)
      PROVE  \E i \in DOMAIN found :
               found[i] = h /\ \A j \in 1..i - 1 : IsWithin(found[j], request)
  <2>1. 1 \in DOMAIN others /\ h = others[1]
    <3>1. PICK n \in 1..Len(beyond) : h = beyond[n]
      BY <1>7 DEF ToSet
    <3>2. n = 1
      BY <1>7, <3>1
    <3> QED  BY <1>5, <3>1, <3>2
  <2>2. PICK at \in [DOMAIN others -> B] :
          /\ \A n \in DOMAIN others : others[n] = found[at[n]]
          /\ \A k \in B : \E n \in DOMAIN others : at[n] = k
          /\ \A m, n \in DOMAIN others : m < n <=> at[m] < at[n]
    BY <1>4 DEF IsPicked
  <2>3. Len(found) \in Nat /\ DOMAIN found = 1..Len(found)
    BY LenProperties
  <2>4. at[1] \in DOMAIN found /\ found[at[1]] = h
    BY <1>2, <2>1, <2>2
  <2>5. ASSUME NEW j \in 1..at[1] - 1, ~IsWithin(found[j], request)
        PROVE  FALSE
    <3>1. j \in DOMAIN found /\ j < at[1]
      BY <2>3, <2>4
    <3>2. j \in B
      BY <2>5, <3>1 DEF B
    <3>3. PICK n \in DOMAIN others : at[n] = j
      BY <2>2, <3>2
    <3>4. n < 1
      BY <2>1, <2>2, <3>1, <3>3
    <3> QED  BY <1>6, <3>3, <3>4
  <2> QED  BY <2>4, <2>5
<1>9. /\ s \in Seq(S)
      /\ Len(s) = Len(within) + Len(beyond)
      /\ \A i \in 1..Len(within) + Len(beyond) : i <= Len(within) => s[i] = within[i]
      /\ ToSet(s) = ToSet(within) \union ToSet(beyond)
  <2>1. within \in Seq(S) /\ beyond \in Seq(S)
    BY <1>3, <1>5
  <2> QED  BY <2>1, ConcatProperties, ConcatHasBoth
<1>10. /\ Len(within) \in Nat /\ DOMAIN within = 1..Len(within)
       /\ DOMAIN s = 1..Len(s)
  BY <1>3, <1>9, LenProperties
<1> HIDE DEF s
<1>11. \A h \in ToSet(within) :
         IsWithin(h, request) /\ \E i \in DOMAIN found : found[i] = h
  BY <1>2, <1>3 DEF W
<1>12. \A i \in DOMAIN s : ~IsWithin(s[i], request) => i = Len(within) + 1
  <2>1. \A i \in 1..Len(within) : IsWithin(within[i], request)
    BY <1>10, <1>11 DEF ToSet
  <2> QED  BY <1>7, <1>9, <1>10, <2>1
<1>13. \A h \in ToSet(found) : IsWithin(h, request) => h \in ToSet(within)
  BY <1>3 DEF ToSet, W
<1>14. ASSUME NEW h \in ToSet(s)
       PROVE  \E i \in DOMAIN found :
                /\ found[i] = h
                /\ \/ IsWithin(found[i], request)
                   \/ \A j \in 1..i - 1 : IsWithin(found[j], request)
  <2>1. CASE h \in ToSet(within)
    BY <1>11, <2>1
  <2>2. CASE h \in ToSet(beyond)
    BY <1>8, <2>2
  <2> QED  BY <1>9, <2>1, <2>2
<1> QED  BY <1>1, <1>9, <1>12, <1>13, <1>14

\* Sorting by value keeps all of it.
LEMMA HotelsAreListed ==
  ASSUME NEW S, NEW found \in Seq(S), NEW request,
         \A h \in S : h.price \in Int,
         \A h \in ToSet(HotelsKept(found, request)) : h.rating \in Int
  PROVE  LET listed == HotelsListed(found, request)
         IN /\ listed \in Seq(S)
            /\ ToSet(listed) \subseteq ToSet(found)
            /\ \A h \in ToSet(found) : IsWithin(h, request) => h \in ToSet(listed)
            /\ \A m, n \in DOMAIN listed :
                 ~IsWithin(listed[m], request) /\ ~IsWithin(listed[n], request) => m = n
<1> DEFINE s == HotelsKept(found, request)
           D == ToSet(s)
           listed == HotelsListed(found, request)
<1>1. /\ s \in Seq(S)
      /\ \A h \in ToSet(s) : \E i \in DOMAIN found : found[i] = h
      /\ \A h \in ToSet(found) : IsWithin(h, request) => h \in ToSet(s)
      /\ \A m, n \in DOMAIN s :
           ~IsWithin(s[m], request) /\ ~IsWithin(s[n], request) => m = n
  BY HotelsAreKept
<1>2. \A h \in D : h.rating \in Int
  OBVIOUS
<1>3. listed = Sorted(s, BetterValue)
  BY DEF HotelsListed
<1> HIDE DEF s, listed
<1>4. /\ Len(s) \in Nat /\ DOMAIN s = 1..Len(s)
      /\ \A i \in DOMAIN s : s[i] \in S
      /\ s = [i \in 1..Len(s) |-> s[i]]
  BY <1>1, LenProperties, ElementOfSeq
<1>5. s \in Seq(D) /\ D \subseteq S
  BY <1>4 DEF ToSet
<1>6. \A h \in D : h.price \in Int /\ h.rating \in Int
  BY <1>2, <1>5
<1> HIDE DEF D
<1>7. /\ listed \in Seq(D) /\ ToSet(listed) = ToSet(s)
      /\ \E at \in [DOMAIN s -> DOMAIN s] :
           /\ listed = [n \in DOMAIN s |-> s[at[n]]]
           /\ \A m, n \in DOMAIN s : m < n => at[m] # at[n]
  BY <1>3, <1>5, <1>6, SortedByValue
<1>8. listed \in Seq(S)
  <2>1. /\ Len(listed) \in Nat
        /\ \A i \in 1..Len(listed) : listed[i] \in D
        /\ listed = [i \in 1..Len(listed) |-> listed[i]]
    BY <1>7, LenProperties, ElementOfSeq
  <2> QED  BY <1>5, <2>1
<1>9. ToSet(s) \subseteq ToSet(found)
  BY <1>1 DEF ToSet
<1>10. ASSUME NEW m \in DOMAIN listed, NEW n \in DOMAIN listed,
              ~IsWithin(listed[m], request), ~IsWithin(listed[n], request)
       PROVE  m = n
  <2>1. PICK at \in [DOMAIN s -> DOMAIN s] :
           /\ listed = [k \in DOMAIN s |-> s[at[k]]]
           /\ \A j, k \in DOMAIN s : j < k => at[j] # at[k]
    BY <1>7
  <2>2. m \in DOMAIN s /\ n \in DOMAIN s /\ listed[m] = s[at[m]] /\ listed[n] = s[at[n]]
    BY <2>1
  <2>3. at[m] = at[n]
    BY <1>1, <1>10, <2>1, <2>2
  <2>4. m \in Nat /\ n \in Nat /\ ~(m < n) /\ ~(n < m)
    BY <1>4, <2>1, <2>2, <2>3
  <2> QED  BY <2>4
<1> QED  BY <1>1, <1>7, <1>8, <1>9, <1>10 DEF listed

\* The cheapest hotel is offered, and no two beyond their share.
LEMMA HotelsAreOffered ==
  ASSUME NEW S, NEW found, IsHotels(found, S), NEW request
  PROVE  LET offered == HotelsOffered(found, request)
         IN /\ ToSet(offered) \subseteq ToSet(found)
            /\ HotelsFail(found, request) => ToSet(offered) = {}
            /\ \A m, n \in DOMAIN offered :
                 ~IsWithin(offered[m], request) /\ ~IsWithin(offered[n], request) => m = n
            /\ ~HotelsFail(found, request) =>
                 \A h \in ToSet(found) :
                   IsWithin(h, request) => \E o \in ToSet(offered) : o.price <= h.price
<1> DEFINE offered == HotelsOffered(found, request)
           listed == HotelsListed(found, request)
           byPrice == Sorted(listed, Cheaper)
           N == Len(listed)
           D == ToSet(found)
<1>1. CASE HotelsFail(found, request)
  <2>1. offered = <<>> /\ ToSet(<<>>) = {} /\ DOMAIN <<>> = {}
    BY <1>1 DEF HotelsOffered, ToSet
  <2> QED  BY <1>1, <2>1
<1>2. CASE ~HotelsFail(found, request)
  <2>1. /\ found \in Seq(D) /\ \A h \in D : h.price \in Int
        /\ \A h \in ToSet(HotelsKept(found, request)) : h.rating \in Int
    <3>1. /\ Len(found) \in Nat /\ DOMAIN found = 1..Len(found)
          /\ \A i \in DOMAIN found : found[i] \in S
          /\ found = [i \in 1..Len(found) |-> found[i]]
      BY LenProperties, ElementOfSeq DEF IsHotels
    <3>2. found \in Seq(D)
      BY <3>1 DEF ToSet
    <3>3. \A h \in D : h.price \in Int
      BY <1>2, <3>1 DEF ToSet, Unpriced, HotelsFail, IsHotels
    <3>4. \A h \in ToSet(HotelsKept(found, request)) : h \in S
      <4>1. \A h \in ToSet(HotelsKept(found, request)) : \E i \in DOMAIN found : found[i] = h
        BY HotelsAreKept DEF IsHotels
      <4> QED  BY <3>1, <4>1
    <3>5. \A h \in ToSet(HotelsKept(found, request)) : h.rating \in Int
      BY <1>2, <3>4 DEF HotelsFail, IsHotels
    <3> QED  BY <3>2, <3>3, <3>5
  <2> HIDE DEF D
  <2>2. /\ listed \in Seq(D)
        /\ ToSet(listed) \subseteq D
        /\ \A h \in D : IsWithin(h, request) => h \in ToSet(listed)
        /\ \A m, n \in DOMAIN listed :
             ~IsWithin(listed[m], request) /\ ~IsWithin(listed[n], request) => m = n
    BY <2>1, HotelsAreListed DEF D
  <2>3. offered = IF N < 3 THEN listed
                  ELSE <<byPrice[1], byPrice[N \div 2 + 1], byPrice[N]>>
    BY <1>2 DEF HotelsOffered
  <2> HIDE DEF listed, offered
  <2>4. N \in Nat /\ DOMAIN listed = 1..N /\ \A i \in 1..N : listed[i] \in D
    BY <2>2, LenProperties, ElementOfSeq
  <2>5. PICK at \in [1..N -> 1..N] :
          /\ byPrice = [n \in 1..N |-> listed[at[n]]]
          /\ \A m, n \in 1..N : m < n => at[m] # at[n] /\ byPrice[m].price <= byPrice[n].price
    <3>1. \A h \in D : h.price \in Int
      BY <2>1
    <3>2. PICK at \in [DOMAIN listed -> DOMAIN listed] :
            /\ byPrice = [n \in DOMAIN listed |-> listed[at[n]]]
            /\ \A m, n \in DOMAIN listed :
                 m < n => at[m] # at[n] /\ byPrice[m].price <= byPrice[n].price
      BY <2>2, <3>1, SortedByPrice
    <3> HIDE DEF byPrice, N
    <3> QED  BY <2>4, <3>2
  <2>6. ToSet(byPrice) = ToSet(listed) /\ DOMAIN byPrice = 1..N
    BY <2>1, <2>2, <2>5, SortedByPrice
  <2> HIDE DEF byPrice, N
  <2>7. CASE N < 3
    <3>1. \A h \in ToSet(listed) : h.price <= h.price
      BY <2>1, <2>2
    <3> QED  BY <1>2, <2>2, <2>3, <2>7, <3>1 DEF offered, D
  <2>8. CASE ~(N < 3)
    <3> DEFINE mid == N \div 2 + 1
               pos == <<1, mid, N>>
    <3>1. 1 \in 1..N /\ mid \in 1..N /\ N \in 1..N /\ 1 < mid /\ mid < N
      BY <2>4, <2>8
    <3> HIDE DEF mid
    <3>2. /\ DOMAIN offered = 1..3
          /\ \A m \in 1..3 : pos[m] \in 1..N /\ offered[m] = byPrice[pos[m]]
          /\ \A m, n \in 1..3 : pos[m] = pos[n] => m = n
      BY <2>3, <2>4, <2>8, <3>1 DEF mid
    <3> HIDE DEF pos
    <3>3. ToSet(offered) \subseteq ToSet(byPrice)
      BY <2>6, <3>2 DEF ToSet
    <3>4. ASSUME NEW m \in 1..3, NEW n \in 1..3,
                 ~IsWithin(offered[m], request), ~IsWithin(offered[n], request)
          PROVE  m = n
      <4>1. offered[m] = listed[at[pos[m]]] /\ offered[n] = listed[at[pos[n]]]
        BY <2>5, <3>2
      <4>2. at[pos[m]] = at[pos[n]]
        BY <2>2, <2>4, <2>5, <3>2, <3>4, <4>1
      <4>3. pos[m] = pos[n]
        <5>1. ~(pos[m] < pos[n]) /\ ~(pos[n] < pos[m])
          BY <2>5, <3>2, <4>2
        <5>2. pos[m] \in 1..N /\ pos[n] \in 1..N
          BY <3>2
        <5> QED  BY <5>1, <5>2
      <4> QED  BY <3>2, <4>3
    <3>5. ASSUME NEW h \in D, IsWithin(h, request)
          PROVE  \E o \in ToSet(offered) : o.price <= h.price
      <4>1. PICK n \in 1..N : byPrice[n] = h
        BY <2>2, <2>6, <3>5 DEF ToSet
      <4>2. byPrice[1].price <= h.price
        <5>1. CASE n = 1
          BY <2>1, <4>1, <5>1
        <5>2. CASE n # 1
          BY <2>4, <2>5, <3>1, <4>1, <5>2
        <5> QED  BY <5>1, <5>2
      <4>3. offered[1] = byPrice[1] /\ 1 \in DOMAIN offered
        BY <2>3, <2>8, <3>2
      <4> QED  BY <4>2, <4>3 DEF ToSet
    <3> QED  BY <1>2, <2>2, <2>6, <3>2, <3>3, <3>4, <3>5 DEF offered, D
  <2> QED  BY <2>7, <2>8
<1> QED  BY <1>1, <1>2

\* A list of transport options.
IsTransport(s, S) == s \in Seq(S) /\ \A t \in S : t.price \in Int

\* Transport has whole-numbered prices only: what has none is left out.
LEMMA TransportIsFound ==
  ASSUME NEW options \in TransportReplies, NEW route
  PROVE  \E S : IsTransport(TransportFound(options, route), S)
<1>1. CASE TransportFound(options, route) = MockTransport(route)
  <2> DEFINE S == [type : {"bus", "train", "flight"}, price : Int]
             buses == <<[type |-> "bus", price |-> 650], [type |-> "bus", price |-> 900]>>
             trains == IF route.train
                       THEN <<[type |-> "train", price |-> 450], [type |-> "train", price |-> 1200]>>
                       ELSE <<>>
             flights == IF route.flight THEN <<[type |-> "flight", price |-> 4500]>> ELSE <<>>
  <2>1. MockTransport(route) = (buses \o trains) \o flights
    BY DEF MockTransport
  <2>2. buses \in Seq(S)
    OBVIOUS
  <2>3. trains \in Seq(S) /\ flights \in Seq(S)
    <3>1. <<[type |-> "train", price |-> 450], [type |-> "train", price |-> 1200]>> \in Seq(S)
          /\ <<[type |-> "flight", price |-> 4500]>> \in Seq(S)
      OBVIOUS
    <3>2. <<>> \in Seq(S)
      BY EmptySeq
    <3> HIDE DEF S
    <3> QED  BY <3>1, <3>2
  <2>4. \A t \in S : t.price \in Int
    OBVIOUS
  <2> HIDE DEF buses, trains, flights, S
  <2>5. MockTransport(route) \in Seq(S)
    BY <2>1, <2>2, <2>3, ConcatProperties
  <2> QED  BY <1>1, <2>4, <2>5 DEF IsTransport
<1>2. CASE options # Failed /\ ~Unpriced(options) /\ TransportFound(options, route) = options
  <2>1. IsTransport(options, ToSet(options))
    BY <1>2, BookingAssumption DEF IsTransport, Unpriced
  <2> QED  BY <1>2, <2>1
<1> QED  BY <1>1, <1>2 DEF TransportFound

IsAffordable(t, request) == WithinShare(t.price, request.budget)

\* The list has all that is affordable, the cheapest first, or else one option.
LEMMA TransportIsListed ==
  ASSUME NEW S, NEW found \in Seq(S), \A t \in S : t.price \in Int, NEW request
  PROVE  LET listed == TransportListed(found, request)
         IN /\ listed \in Seq(S)
            /\ ToSet(listed) \subseteq ToSet(found)
            /\ \A i \in DOMAIN listed : listed[1].price <= listed[i].price
            /\ \A t \in ToSet(found) : IsAffordable(t, request) => t \in ToSet(listed)
            /\ \A t \in ToSet(listed), o \in ToSet(found) :
                 IsAffordable(o, request) => IsAffordable(t, request)
<1> DEFINE W == {i \in DOMAIN found : IsAffordable(found[i], request)}
           affordable == Picked(found, W)
           s == IF affordable = <<>> THEN FirstOf(found, 1) ELSE affordable
           listed == TransportListed(found, request)
<1>1. listed = Sorted(s, Cheaper)
  BY DEF TransportListed, Kept, IsAffordable
<1> HIDE DEF listed
<1>2. affordable \in Seq(S) /\ ToSet(affordable) = {found[i] : i \in W}
  BY PickedIsPicked
<1> HIDE DEF affordable
<1>3. s \in Seq(S) /\ ToSet(s) \subseteq ToSet(found)
  <2>1. FirstOf(found, 1) \in Seq(S) /\ ToSet(FirstOf(found, 1)) \subseteq ToSet(found)
    BY FirstOfIsPrefix
  <2>2. ToSet(affordable) \subseteq ToSet(found)
    BY <1>2 DEF ToSet
  <2> QED  BY <1>2, <2>1, <2>2
<1>4. ASSUME NEW o \in ToSet(found), IsAffordable(o, request)
      PROVE  s = affordable /\ o \in ToSet(affordable)
  <2>1. o \in ToSet(affordable)
    BY <1>2, <1>4 DEF ToSet
  <2>2. ToSet(<<>>) = {}
    BY DEF ToSet
  <2> QED  BY <2>1, <2>2
<1>5. \A t \in ToSet(affordable) : IsAffordable(t, request)
  BY <1>2
<1> HIDE DEF s
<1>6. /\ listed \in Seq(S) /\ ToSet(listed) = ToSet(s) /\ DOMAIN listed = DOMAIN s
      /\ \A m, n \in DOMAIN s : m < n => listed[m].price <= listed[n].price
  <2> DEFINE t == Sorted(s, Cheaper)
  <2>1. /\ t \in Seq(S) /\ Len(t) = Len(s) /\ ToSet(t) = ToSet(s)
        /\ \E at \in [DOMAIN s -> DOMAIN s] :
             /\ t = [n \in DOMAIN s |-> s[at[n]]]
             /\ \A m, n \in DOMAIN s : m < n => at[m] # at[n] /\ t[m].price <= t[n].price
    BY <1>3, SortedByPrice
  <2> HIDE DEF t
  <2>2. DOMAIN t = DOMAIN s /\ \A m, n \in DOMAIN s : m < n => t[m].price <= t[n].price
    BY <2>1
  <2> QED  BY <1>1, <2>1, <2>2 DEF t
<1>7. ASSUME NEW i \in DOMAIN listed PROVE listed[1].price <= listed[i].price
  <2>1. Len(s) \in Nat /\ DOMAIN s = 1..Len(s)
    BY <1>3, LenProperties
  <2>2. listed[i] \in S
    BY <1>6, LenProperties, ElementOfSeq
  <2>3. i = 1 \/ (1 \in DOMAIN s /\ 1 < i)
    BY <1>6, <2>1
  <2> QED  BY <1>6, <2>2, <2>3
<1> QED  BY <1>3, <1>4, <1>5, <1>6, <1>7 DEF listed

\* The first of each type begins with the first of all.  A type that is a misfit does
\* harm only if it can be afforded.
LEMMA TransportIsOffered ==
  ASSUME NEW S, NEW found, IsTransport(found, S), NEW request
  PROVE  LET offered == TransportOffered(found, request)
         IN /\ ToSet(offered) \subseteq ToSet(found)
            /\ \A t \in ToSet(offered), o \in ToSet(found) :
                 IsAffordable(o, request) => IsAffordable(t, request)
            /\ (\A o \in ToSet(found) : IsAffordable(o, request) => o.type # Misfit) =>
                 \A t \in ToSet(found) :
                   IsAffordable(t, request) => \E o \in ToSet(offered) : o.price <= t.price
<1> DEFINE listed == TransportListed(found, request)
           N == Len(listed)
           key == [i \in 1..N |-> listed[i].type]
           K == Firsts(key, N)
           byType == Picked(listed, K)
           choice == IF Len(byType) >= 3 THEN byType ELSE listed
           fails == N >= 3 /\ \E t \in ToSet(listed) : t.type = Misfit
           offered == TransportOffered(found, request)
<1>1. /\ listed \in Seq(S)
      /\ ToSet(listed) \subseteq ToSet(found)
      /\ \A i \in DOMAIN listed : listed[1].price <= listed[i].price
      /\ \A t \in ToSet(found) : IsAffordable(t, request) => t \in ToSet(listed)
      /\ \A t \in ToSet(listed), o \in ToSet(found) :
           IsAffordable(o, request) => IsAffordable(t, request)
  BY TransportIsListed DEF IsTransport
<1>2. N \in Nat /\ DOMAIN listed = 1..N
  BY <1>1, LenProperties
<1>3. offered = IF fails THEN <<>> ELSE FirstOf(choice, 3)
  <2>1. K = {i \in DOMAIN listed : \A j \in 1..i - 1 : listed[j].type # listed[i].type}
    <3> HIDE DEF listed
    <3>1. \A i \in 1..N : \A j \in 1..i - 1 : j \in 1..N
      BY <1>2
    <3> HIDE DEF N
    <3>2. \A i \in 1..N : (\A j \in 1..i - 1 : key[j] # key[i])
                          <=> \A j \in 1..i - 1 : listed[j].type # listed[i].type
      BY <3>1
    <3> HIDE DEF key
    <3> QED  BY <1>2, <3>2 DEF Firsts
  <2> QED  BY <2>1 DEF TransportOffered, FirstOfEach
<1> HIDE DEF listed, offered, key
<1>4. K \subseteq 1..N /\ (N >= 1 => 1 \in K) /\ \A k \in K : k \in Nat /\ k >= 1
  BY <1>2 DEF Firsts
<1>5. byType \in Seq(S) /\ ToSet(byType) = {listed[i] : i \in K} /\ IsPicked(byType, listed, K)
  BY <1>1, <1>2, <1>4, PickedIsPicked
<1> HIDE DEF K, byType, N
<1>6. choice \in Seq(S) /\ ToSet(choice) \subseteq ToSet(listed)
  <2>1. ToSet(byType) \subseteq ToSet(listed)
    BY <1>2, <1>4, <1>5 DEF ToSet
  <2> QED  BY <1>1, <1>5, <2>1
<1>7. N >= 1 => 1 \in DOMAIN choice /\ choice[1] = listed[1]
  <2> SUFFICES ASSUME N >= 1 PROVE 1 \in DOMAIN choice /\ choice[1] = listed[1]
    OBVIOUS
  <2>1. 1 \in DOMAIN byType /\ byType[1] = listed[1]
    <3>1. PICK at \in [DOMAIN byType -> K] :
            /\ \A n \in DOMAIN byType : byType[n] = listed[at[n]]
            /\ \A k \in K : \E n \in DOMAIN byType : at[n] = k
            /\ \A m, n \in DOMAIN byType : m < n <=> at[m] < at[n]
      BY <1>5 DEF IsPicked
    <3>2. PICK n \in DOMAIN byType : at[n] = 1
      BY <1>4, <3>1
    <3>3. DOMAIN byType = 1..Len(byType) /\ Len(byType) \in Nat
      BY <1>5, LenProperties
    <3>4. 1 \in DOMAIN byType /\ at[1] \in K
      BY <3>1, <3>2, <3>3
    <3>5. at[1] \in Nat /\ at[1] >= 1
      BY <1>4, <3>4
    <3>6. ~(1 < n)
      <4>1. 1 < n => at[1] < 1
        BY <3>1, <3>2, <3>4
      <4> QED  BY <3>5, <4>1
    <3>7. n = 1
      BY <3>3, <3>6
    <3> QED  BY <3>1, <3>2, <3>7
  <2> QED  BY <1>2, <2>1
<1> HIDE DEF choice
<1>11. CASE fails
  <2>1. offered = <<>> /\ ToSet(<<>>) = {}
    BY <1>3, <1>11 DEF ToSet
  <2>2. ASSUME NEW t \in ToSet(found), IsAffordable(t, request),
               \A o \in ToSet(found) : IsAffordable(o, request) => o.type # Misfit
        PROVE  FALSE
    <3>1. PICK o \in ToSet(listed) : o.type = Misfit
      BY <1>11
    <3> QED  BY <1>1, <2>2, <3>1
  <2> QED  BY <2>1, <2>2 DEF offered
<1> SUFFICES ASSUME ~fails PROVE
       /\ ToSet(offered) \subseteq ToSet(found)
       /\ \A t \in ToSet(offered), o \in ToSet(found) :
            IsAffordable(o, request) => IsAffordable(t, request)
       /\ \A t \in ToSet(found) :
            IsAffordable(t, request) => \E o \in ToSet(offered) : o.price <= t.price
  BY <1>11 DEF offered
<1>8. /\ offered \in Seq(S)
      /\ Len(offered) = IF 3 < Len(choice) THEN 3 ELSE Len(choice)
      /\ \A i \in 1..Len(offered) : i \in DOMAIN choice /\ offered[i] = choice[i]
      /\ ToSet(offered) \subseteq ToSet(choice)
  BY <1>3, <1>6, FirstOfIsPrefix
<1>9. N >= 1 => listed[1] \in ToSet(offered)
  <2> DEFINE all == Len(choice)
             some == Len(offered)
  <2>1. all \in Nat /\ DOMAIN choice = 1..all /\ DOMAIN offered = 1..some
    BY <1>6, <1>8, LenProperties
  <2>2. some = IF 3 < all THEN 3 ELSE all
    BY <1>8
  <2> HIDE DEF all
  <2>3. N >= 1 => 1 \in 1..some
    BY <1>7, <2>1, <2>2
  <2> QED  BY <1>7, <1>8, <2>1, <2>3 DEF ToSet
<1>10. ASSUME NEW t \in ToSet(found), IsAffordable(t, request)
       PROVE  \E o \in ToSet(offered) : o.price <= t.price
  <2>1. PICK i \in DOMAIN listed : listed[i] = t
    BY <1>1, <1>10 DEF ToSet
  <2>2. N >= 1
    BY <1>2, <2>1
  <2> QED  BY <1>1, <1>9, <2>1, <2>2
<1> QED  BY <1>1, <1>6, <1>8, <1>10 DEF offered

\* What booking_node offers, for whatever hotels and transport were found.
LEMMA BookingIsFair == Book => OffersAreFair'
<1> SUFFICES ASSUME Book PROVE OffersAreFair'
  OBVIOUS
<1>1. PICK request \in BookingRequests, route \in Routes, percent \in HotelPercents,
           h \in HotelReplies, t \in TransportReplies :
       LET hotels == HotelsFound(h, percent)
           transport == TransportFound(t, route)
           offer == [hotels |-> HotelsOffered(hotels, request),
                     transport |-> TransportOffered(transport, request)]
       IN /\ asked' = [tool |-> "booking", request |-> request]
          /\ reply' = [hotels |-> hotels, transport |-> transport]
          /\ answer' = [hotels |-> offer.hotels, transport |-> offer.transport,
                        approval |-> NeedsApproval(offer.hotels, offer.transport, request)]
  BY DEF Book
<1> DEFINE hotels == HotelsFound(h, percent)
           transport == TransportFound(t, route)
           hotelsOffered == HotelsOffered(hotels, request)
           transportOffered == TransportOffered(transport, request)
           Within(cost) == WithinShare(cost, request.budget)
           Hotel(o) == o.price * request.days
           fail == HotelsFail(hotels, request)
           spoilt == \/ Unpriced(hotels)
                     \/ \E i \in DOMAIN hotels :
                          /\ hotels[i].rating = Misfit
                          /\ Within(Hotel(hotels[i])) \/ \A j \in 1..i - 1 : Within(Hotel(hotels[j]))
<1>2. PICK H : IsHotels(hotels, H)
  BY HotelsAreFound
<1>3. PICK T : IsTransport(transport, T)
  BY TransportIsFound
<1>4. request.budget \in Nat /\ request.days \in Nat
  BY BookingAssumption
<1>5. /\ asked'.tool = "booking" /\ asked'.request = request
      /\ reply'.hotels = hotels /\ reply'.transport = transport
      /\ answer'.hotels = hotelsOffered /\ answer'.transport = transportOffered
      /\ answer'.approval = NeedsApproval(hotelsOffered, transportOffered, request)
  BY <1>1
<1> HIDE DEF hotels, transport
<1>6. /\ ToSet(hotelsOffered) \subseteq ToSet(hotels)
      /\ fail => ToSet(hotelsOffered) = {}
      /\ \A m, n \in DOMAIN hotelsOffered :
           ~Within(Hotel(hotelsOffered[m])) /\ ~Within(Hotel(hotelsOffered[n])) => m = n
      /\ ~fail =>
           \A x \in ToSet(hotels) :
             Within(Hotel(x)) => \E o \in ToSet(hotelsOffered) : o.price <= x.price
  BY <1>2, HotelsAreOffered DEF IsWithin
<1>13. fail => spoilt
  <2>1. hotels \in Seq(H)
    BY <1>2 DEF IsHotels
  <2>2. ASSUME NEW x \in ToSet(HotelsKept(hotels, request)), x.rating = Misfit
        PROVE  spoilt
    <3>1. PICK i \in DOMAIN hotels :
            /\ hotels[i] = x
            /\ \/ IsWithin(hotels[i], request)
               \/ \A j \in 1..i - 1 : IsWithin(hotels[j], request)
      BY <2>1, HotelsAreKept
    <3> QED  BY <2>2, <3>1 DEF IsWithin
  <2> QED  BY <2>2 DEF HotelsFail
<1>14. Unpriced(hotels) => fail
  BY DEF HotelsFail
<1>15. HotelsAreSpoilt(request)' <=> spoilt
  BY <1>5 DEF HotelsAreSpoilt, Unpriced
<1>7. /\ ToSet(transportOffered) \subseteq ToSet(transport)
      /\ \A x \in ToSet(transportOffered), o \in ToSet(transport) :
           Within(o.price) => Within(x.price)
      /\ (\A o \in ToSet(transport) : Within(o.price) => o.type # Misfit) =>
           \A x \in ToSet(transport) :
             Within(x.price) => \E o \in ToSet(transportOffered) : o.price <= x.price
  BY <1>3, TransportIsOffered DEF IsAffordable
<1>8. \A x \in ToSet(transport) : x.price \in Int
  BY <1>3, LenProperties, ElementOfSeq DEF IsTransport, ToSet
<1>9. ~Unpriced(hotels) => \A x \in ToSet(hotels) : x.price \in Int
  BY <1>2, LenProperties, ElementOfSeq DEF IsHotels, ToSet, Unpriced
<1>10. \A cost \in Int : IsDear(cost, request.budget) => ~Within(cost)
  BY <1>4 DEF IsDear, WithinShare
<1> HIDE DEF hotelsOffered, transportOffered, Within, fail, spoilt
<1>11. CheapestIsOffered(request)'
  <2>1. ASSUME NEW x \in ToSet(hotels), ~spoilt,
               \A p \in ToSet(hotels) : x.price <= p.price, Within(Hotel(x))
        PROVE  \E o \in ToSet(hotelsOffered) : o.price = x.price
    <3>1. PICK o \in ToSet(hotelsOffered) : o.price <= x.price
      BY <1>6, <1>13, <2>1
    <3>2. o.price \in Int /\ x.price \in Int /\ x.price <= o.price
      BY <1>6, <1>9, <1>13, <1>14, <2>1
    <3> QED  BY <3>1, <3>2
  <2>2. ASSUME NEW x \in ToSet(transport),
               \A o \in ToSet(transport) : Within(o.price) => o.type # Misfit,
               \A p \in ToSet(transport) : x.price <= p.price, Within(x.price)
        PROVE  \E o \in ToSet(transportOffered) : o.price = x.price
    <3>1. PICK o \in ToSet(transportOffered) : o.price <= x.price
      BY <1>7, <2>2
    <3>2. o.price \in Int /\ x.price \in Int /\ x.price <= o.price
      BY <1>7, <1>8, <2>2
    <3> QED  BY <3>1, <3>2
  <2> QED  BY <1>5, <1>15, <2>1, <2>2 DEF CheapestIsOffered, Within
<1>12. DearIsException(request)'
  <2> DEFINE X == {i \in DOMAIN hotelsOffered : ~Within(Hotel(hotelsOffered[i]))}
  <2>1. Cardinality(X) <= 1
    <3>1. \A m, n \in X : m = n
      BY <1>6
    <3>2. X = {} \/ \E x : X = {x}
      BY <3>1
    <3> HIDE DEF X
    <3> QED  BY <3>2, FS_EmptySet, FS_Singleton
  <2>2. \A x \in ToSet(transportOffered) : IsDear(x.price, request.budget) =>
          \A o \in ToSet(transport) : ~Within(o.price)
    BY <1>7, <1>8, <1>10
  <2>3. NeedsApproval(hotelsOffered, transportOffered, request) =>
           \/ /\ ~Unpriced(hotels)
              /\ \E x \in ToSet(hotels) : ~Within(Hotel(x))
           \/ \A x \in ToSet(transport) : ~Within(x.price)
    <3> SUFFICES ASSUME NeedsApproval(hotelsOffered, transportOffered, request)
                 PROVE  \/ ~Unpriced(hotels) /\ \E x \in ToSet(hotels) : ~Within(Hotel(x))
                        \/ \A x \in ToSet(transport) : ~Within(x.price)
      OBVIOUS
    <3>1. CASE \E x \in ToSet(transportOffered) : IsDear(x.price, request.budget)
      BY <2>2, <3>1
    <3>2. CASE \E x \in ToSet(hotelsOffered) : IsDear(Hotel(x), request.budget)
      <4>1. PICK x \in ToSet(hotelsOffered) : IsDear(Hotel(x), request.budget)
        BY <3>2
      <4>2. ~Unpriced(hotels) /\ x \in ToSet(hotels)
        BY <1>6, <1>14, <4>1
      <4>3. Hotel(x) \in Int
        BY <1>4, <1>9, <4>2
      <4> QED  BY <1>10, <4>1, <4>2, <4>3
    <3> QED  BY <3>1, <3>2 DEF NeedsApproval
  <2> QED  BY <1>5, <2>1, <2>2, <2>3 DEF DearIsException, Within
<1> QED  BY <1>5, <1>11, <1>12 DEF OffersAreFair

\* However the options are filtered, sorted and picked from, the cheapest that the budget
\* was made for are offered, at most one hotel is beyond its share, and an approval is
\* asked for only when the shares cannot be kept (OffersAreFair; booking_node).
THEOREM OffersKeepToTheBudget == Spec => []OffersAreFair
<1>1. Init => OffersAreFair
  BY DEF Init, OffersAreFair
<1>2. OffersAreFair /\ [Next]_vars => OffersAreFair'
  <2> SUFFICES ASSUME OffersAreFair, [Next]_vars PROVE OffersAreFair'
    OBVIOUS
  <2>1. CASE Book
    BY <2>1, BookingIsFair
  <2>2. CASE Search \/ SearchWeb \/ Forecast \/ SearchPlaces \/ Finalize
    BY <2>2, OthersAreNot DEF OffersAreFair
  <2>3. CASE UNCHANGED vars
    BY <2>3 DEF vars, OffersAreFair, CheapestIsOffered, DearIsException, HotelsAreSpoilt
  <2> QED  BY <2>1, <2>2, <2>3 DEF Next
<1> QED  BY <1>1, <1>2, PTL DEF Spec

-----------------------------------------------------------------------------
(***************************************************************************)
(* The search of the knowledge base.                                       *)
(***************************************************************************)

\* No element is there twice.
Distinct(s) == \A i, j \in DOMAIN s : s[i] = s[j] => i = j

\* A permutation of a finite set has each of its elements once.
LEMMA PermutationsAreDistinct ==
  ASSUME NEW X, IsFiniteSet(X), NEW s \in SetToSeqs(X)
  PROVE  s \in Seq(X) /\ Distinct(s) /\ Len(s) = Cardinality(X) /\ ToSet(s) = X
<1> DEFINE N == Cardinality(X)
<1>1. N \in Nat
  BY FS_CardinalityType
<1>2. s \in [1..N -> X] /\ \A i, j \in 1..N : i # j => s[i] # s[j]
  BY DEF SetToSeqs
<1>3. s \in Injection(1..N, X)
  BY <1>2 DEF Injection, IsInjective
<1>4. IsFiniteSet(1..N) /\ Cardinality(1..N) = N
  BY <1>1, FS_Interval
<1>5. s \in Surjection(1..N, X)
  BY <1>3, <1>4, FS_Injection
<1> HIDE DEF N
<1>6. s \in Seq(X) /\ Len(s) = N /\ DOMAIN s = 1..N
  BY <1>1, <1>2
<1> QED  BY <1>2, <1>5, <1>6 DEF Distinct, ToSet, Surjection, N

\* What a query returns: rows it selects, each once.
LEMMA RankingsAreDistinct ==
  ASSUME NEW rows, IsFiniteSet(rows), NEW n, NEW s \in Rankings(rows, n)
  PROVE  s \in Seq(rows) /\ Distinct(s)
<1>1. PICK X \in SUBSET rows : s \in SetToSeqs(X)
  BY DEF Rankings, SetToAllKPermutations
<1>2. s \in Seq(X) /\ Distinct(s)
  BY <1>1, FS_Subset, PermutationsAreDistinct
<1> QED  BY <1>1, <1>2, SeqMonotonic

\* A score.
IsFraction(x) == x[1] \in Nat /\ x[2] \in Nat \ {0}

\* What one search gives to the scores of c and d: not less to c unless d is ahead,
\* and more if c is.
LEMMA SharesFollowRanks ==
  ASSUME NEW S, NEW s \in Seq(S), Distinct(s), NEW weight \in Nat, NEW c, NEW d
  PROVE  LET x == Share(weight, s, c)
             y == Share(weight, s, d)
         IN /\ IsFraction(x) /\ IsFraction(y)
            /\ (weight > 0 => ~Ahead(d, c, s)) => x[1] * y[2] >= y[1] * x[2]
            /\ weight > 0 /\ Ahead(c, d, s) => x[1] * y[2] > y[1] * x[2]
<1>1. Len(s) \in Nat /\ DOMAIN s = 1..Len(s)
  BY LenProperties
<1>2. \A e : /\ e \notin ToSet(s) => Share(weight, s, e) = <<0, 1>>
             /\ \A i \in DOMAIN s : s[i] = e => Share(weight, s, e) = <<weight, 60 + i>>
  <2> TAKE e
  <2>1. e \notin ToSet(s) => Share(weight, s, e) = <<0, 1>>
    BY DEF Share
  <2>2. ASSUME NEW i \in DOMAIN s, s[i] = e PROVE Share(weight, s, e) = <<weight, 60 + i>>
    <3>1. (CHOOSE rank \in DOMAIN s : s[rank] = e) = i
      BY <2>2 DEF Distinct
    <3> QED  BY <2>2, <3>1 DEF Share, ToSet, RrfK
  <2> QED  BY <2>1, <2>2
<1>3. \A e : e \in ToSet(s) => \E i \in DOMAIN s : s[i] = e
  BY DEF ToSet
<1>4. \A e : IsFraction(Share(weight, s, e))
  BY <1>1, <1>2, <1>3 DEF IsFraction
<1> DEFINE x == Share(weight, s, c)
           y == Share(weight, s, d)
<1> HIDE DEF x, y
<1>5. ASSUME weight > 0 => ~Ahead(d, c, s) PROVE x[1] * y[2] >= y[1] * x[2]
  <2>1. CASE d \notin ToSet(s)
    BY <1>2, <1>4, <2>1 DEF x, y, IsFraction
  <2>2. CASE weight = 0
    <3>1. x[1] = 0 /\ y[1] = 0
      BY <1>2, <1>3, <2>2 DEF x, y
    <3> QED  BY <1>4, <3>1 DEF x, y, IsFraction
  <2>3. CASE d \in ToSet(s) /\ weight > 0
    <3>1. PICK j \in DOMAIN s : s[j] = d
      BY <1>3, <2>3
    <3>2. PICK i \in 1..j : s[i] = c
      BY <1>5, <2>3, <3>1 DEF Ahead
    <3>3. i \in DOMAIN s /\ i <= j
      BY <1>1, <3>1, <3>2
    <3>4. x = <<weight, 60 + i>> /\ y = <<weight, 60 + j>>
      BY <1>2, <3>1, <3>2, <3>3 DEF x, y
    <3>5. i \in Nat /\ j \in Nat /\ weight * (60 + j) >= weight * (60 + i)
      BY <1>1, <3>1, <3>3
    <3> QED  BY <3>4, <3>5
  <2> QED  BY <2>1, <2>2, <2>3
<1>6. ASSUME weight > 0, Ahead(c, d, s) PROVE x[1] * y[2] > y[1] * x[2]
  <2>1. PICK i \in DOMAIN s : s[i] = c /\ \A j \in 1..i : s[j] # d
    BY <1>6 DEF Ahead
  <2>2. x = <<weight, 60 + i>> /\ i \in Nat
    BY <1>1, <1>2, <2>1 DEF x
  <2>3. CASE d \notin ToSet(s)
    BY <1>2, <1>6, <2>2, <2>3 DEF y
  <2>4. CASE d \in ToSet(s)
    <3>1. PICK j \in DOMAIN s : s[j] = d
      BY <1>3, <2>4
    <3>2. y = <<weight, 60 + j>> /\ j \in Nat /\ i < j
      BY <1>1, <1>2, <2>1, <3>1 DEF y
    <3>3. weight * (60 + j) > weight * (60 + i)
      BY <1>6, <2>2, <3>2
    <3> QED  BY <2>2, <3>2, <3>3
  <2> QED  BY <2>3, <2>4
<1> QED  BY <1>4, <1>5, <1>6 DEF x, y

\* Dominates, in the words of one request.
Beats(c, d, semantic, keyword, request) ==
  /\ request.semantic_weight > 0 => ~Ahead(d, c, semantic)
  /\ request.keyword_weight > 0 => ~Ahead(d, c, keyword)
  /\ \/ request.semantic_weight > 0 /\ Ahead(c, d, semantic)
     \/ request.keyword_weight > 0 /\ Ahead(c, d, keyword)

\* A chunk that beats another one has the higher score.
LEMMA ScoresFollowRanks ==
  ASSUME NEW S, NEW semantic \in Seq(S), Distinct(semantic),
         NEW keyword \in Seq(S), Distinct(keyword),
         NEW request \in SearchRequests, NEW c, NEW d
  PROVE  LET x == RrfScore(c, semantic, keyword, request)
             y == RrfScore(d, semantic, keyword, request)
         IN /\ IsFraction(x) /\ IsFraction(y)
            /\ Beats(c, d, semantic, keyword, request) => Higher(x, y)
<1> DEFINE v == request.semantic_weight
           w == request.keyword_weight
           sc == Share(v, semantic, c)
           sd == Share(v, semantic, d)
           kc == Share(w, keyword, c)
           kd == Share(w, keyword, d)
           x == RrfScore(c, semantic, keyword, request)
           y == RrfScore(d, semantic, keyword, request)
<1>1. v \in Nat /\ w \in Nat
  BY SearchAssumption
<1> HIDE DEF v, w
<1>2. /\ IsFraction(sc) /\ IsFraction(sd)
      /\ (v > 0 => ~Ahead(d, c, semantic)) => sc[1] * sd[2] >= sd[1] * sc[2]
      /\ v > 0 /\ Ahead(c, d, semantic) => sc[1] * sd[2] > sd[1] * sc[2]
  BY <1>1, SharesFollowRanks
<1>3. /\ IsFraction(kc) /\ IsFraction(kd)
      /\ (w > 0 => ~Ahead(d, c, keyword)) => kc[1] * kd[2] >= kd[1] * kc[2]
      /\ w > 0 /\ Ahead(c, d, keyword) => kc[1] * kd[2] > kd[1] * kc[2]
  BY <1>1, SharesFollowRanks
<1>4. /\ x = <<sc[1] * kc[2] + kc[1] * sc[2], sc[2] * kc[2]>>
      /\ y = <<sd[1] * kd[2] + kd[1] * sd[2], sd[2] * kd[2]>>
  BY DEF RrfScore, v, w
<1> HIDE DEF sc, sd, kc, kd, x, y
<1>5. /\ sc[1] \in Nat /\ sd[1] \in Nat /\ kc[1] \in Nat /\ kd[1] \in Nat
      /\ sc[2] \in Nat \ {0} /\ sd[2] \in Nat \ {0}
      /\ kc[2] \in Nat \ {0} /\ kd[2] \in Nat \ {0}
  BY <1>2, <1>3 DEF IsFraction
<1>6. IsFraction(x) /\ IsFraction(y)
  <2>1. \A p, q \in Nat : p + q \in Nat /\ p * q \in Nat
    OBVIOUS
  <2>2. \A p, q \in Nat \ {0} : p * q \in Nat \ {0}
    OBVIOUS
  <2> QED  BY <1>4, <1>5, <2>1, <2>2 DEF IsFraction
<1>7. ASSUME Beats(c, d, semantic, keyword, request) PROVE Higher(x, y)
  <2>1. /\ sc[1] * sd[2] >= sd[1] * sc[2] /\ kc[1] * kd[2] >= kd[1] * kc[2]
        /\ sc[1] * sd[2] > sd[1] * sc[2] \/ kc[1] * kd[2] > kd[1] * kc[2]
    BY <1>2, <1>3, <1>7 DEF Beats, v, w
  <2>2. /\ sc[1] \in Int /\ sd[1] \in Int /\ kc[1] \in Int /\ kd[1] \in Int
    BY <1>5
  <2>3. \A a, e, p, g \in Int : \A b, f, q, h \in Nat \ {0} :
          /\ a * f >= e * b /\ p * h >= g * q
          /\ a * f > e * b \/ p * h > g * q
          => (a * q + p * b) * (f * h) > (e * h + g * f) * (b * q)
    BY SumsAreOrdered
  <2>4. (sc[1] * kc[2] + kc[1] * sc[2]) * (sd[2] * kd[2])
        > (sd[1] * kd[2] + kd[1] * sd[2]) * (sc[2] * kc[2])
    BY <1>5, <2>1, <2>2, <2>3, Zenon
  <2> QED  BY <1>4, <2>4 DEF Higher
<1> QED  BY <1>6, <1>7 DEF x, y

\* The chunks of both searches, each once; none behind one of a lower score.
LEMMA FusedIsRanked ==
  ASSUME NEW S, NEW semantic \in Seq(S), Distinct(semantic),
         NEW keyword \in Seq(S), Distinct(keyword), NEW request \in SearchRequests
  PROVE  LET fused == Fused(semantic, keyword, request)
             Score(c) == RrfScore(c, semantic, keyword, request)
         IN /\ fused \in Seq(S) /\ Distinct(fused)
            /\ ToSet(fused) = ToSet(semantic) \union ToSet(keyword)
            /\ \A m, n \in DOMAIN fused : m < n => ~Higher(Score(fused[n]), Score(fused[m]))
<1> DEFINE Score(c) == RrfScore(c, semantic, keyword, request)
           K == {i \in DOMAIN keyword : keyword[i] \notin ToSet(semantic)}
           others == Picked(keyword, K)
           s == semantic \o others
           P == DOMAIN s
           less == [i \in P |-> {j \in P : Higher(Score(s[j]), Score(s[i]))}]
           fused == Fused(semantic, keyword, request)
<1>1. fused = LET at == Arranged(Stably(less)) IN [n \in DOMAIN at |-> s[at[n]]]
  BY DEF Fused, Kept, Sorted, Stably
<1> HIDE DEF fused
<1>2. others \in Seq(S) /\ ToSet(others) = {keyword[i] : i \in K} /\ IsPicked(others, keyword, K)
  BY PickedIsPicked
<1>3. Distinct(others) /\ \A i \in DOMAIN others : others[i] \notin ToSet(semantic)
  <2> HIDE DEF others
  <2>1. PICK at \in [DOMAIN others -> K] :
          /\ \A n \in DOMAIN others : others[n] = keyword[at[n]]
          /\ \A m, n \in DOMAIN others : m < n <=> at[m] < at[n]
    BY <1>2 DEF IsPicked
  <2>2. ASSUME NEW i \in DOMAIN others, NEW j \in DOMAIN others, others[i] = others[j]
        PROVE  i = j
    <3>1. at[i] = at[j] /\ at[i] \in DOMAIN keyword
      BY <2>1, <2>2 DEF Distinct
    <3>2. i \in Nat /\ j \in Nat /\ at[i] \in Nat
      BY <1>2, <3>1, LenProperties
    <3>3. ~(i < j) /\ ~(j < i)
      BY <2>1, <3>1, <3>2
    <3> QED  BY <3>2, <3>3
  <2> QED  BY <2>1, <2>2 DEF Distinct
<1> HIDE DEF others
<1>4. /\ s \in Seq(S) /\ Len(s) = Len(semantic) + Len(others)
      /\ \A i \in 1..Len(semantic) + Len(others) :
           s[i] = IF i <= Len(semantic) THEN semantic[i] ELSE others[i - Len(semantic)]
      /\ ToSet(s) = ToSet(semantic) \union ToSet(others)
  BY <1>2, ConcatProperties, ConcatHasBoth
<1>5. /\ Len(semantic) \in Nat /\ DOMAIN semantic = 1..Len(semantic)
      /\ Len(others) \in Nat /\ DOMAIN others = 1..Len(others)
      /\ P = 1..Len(semantic) + Len(others)
  BY <1>2, <1>4, LenProperties
<1> HIDE DEF s
<1>6. Distinct(s)
  <2> SUFFICES ASSUME NEW i \in P, NEW j \in P, s[i] = s[j] PROVE i = j
    BY DEF Distinct
  <2> DEFINE N == Len(semantic)
  <2>1. /\ i <= N => i \in DOMAIN semantic /\ s[i] = semantic[i]
        /\ j <= N => j \in DOMAIN semantic /\ s[j] = semantic[j]
        /\ ~(i <= N) => i - N \in DOMAIN others /\ s[i] = others[i - N]
        /\ ~(j <= N) => j - N \in DOMAIN others /\ s[j] = others[j - N]
    BY <1>4, <1>5
  <2>2. N \in Nat /\ i \in Nat /\ j \in Nat
    BY <1>5
  <2> HIDE DEF N
  <2>3. (i <= N <=> j <= N)
    BY <1>3, <2>1 DEF ToSet
  <2>4. CASE i <= N
    BY <2>1, <2>3, <2>4 DEF Distinct
  <2>5. CASE ~(i <= N)
    <3>1. i - N = j - N
      BY <1>3, <2>1, <2>3, <2>5 DEF Distinct
    <3> QED  BY <2>2, <3>1
  <2> QED  BY <2>4, <2>5
<1>7. ToSet(s) = ToSet(semantic) \union ToSet(keyword)
  BY <1>2, <1>4 DEF ToSet
<1>8. IsWeakOrder(less, P)
  <2> DEFINE num == [i \in P |-> Score(s[i])[1]]
             den == [i \in P |-> Score(s[i])[2]]
  <2>1. \A i \in P : num[i] \in Int /\ den[i] \in Nat \ {0}
    BY ScoresFollowRanks DEF IsFraction
  <2>2. \A i, j \in P : j \in less[i] <=> num[i] * den[j] < num[j] * den[i]
    <3> HIDE DEF Score
    <3> TAKE i, j \in P
    <3>1. j \in less[i] <=> num[j] * den[i] > num[i] * den[j]
      BY DEF Higher
    <3>2. num[j] * den[i] \in Int /\ num[i] * den[j] \in Int
      BY <2>1
    <3> QED  BY <3>1, <3>2
  <2>3. less \in [P -> SUBSET P]
    OBVIOUS
  <2> HIDE DEF less, num, den, P
  <2> QED  BY <2>1, <2>2, <2>3, FractionsAreWeaklyOrdered
<1> HIDE DEF less
<1>9. fused \in Seq(S) /\ ToSet(fused) = ToSet(s) /\ IsSortOf(fused, s, less)
  BY <1>1, <1>4, <1>8, SortIsSorted
<1>10. PICK at \in [P -> P] :
         /\ fused = [n \in P |-> s[at[n]]]
         /\ \A m, n \in P : m < n => at[m] # at[n] /\ at[n] \notin less[at[m]]
  BY <1>9 DEF IsSortOf
<1>11. Distinct(fused)
  <2> SUFFICES ASSUME NEW m \in P, NEW n \in P, fused[m] = fused[n] PROVE m = n
    BY <1>10 DEF Distinct
  <2>1. at[m] = at[n]
    BY <1>6, <1>10 DEF Distinct
  <2>2. m \in Nat /\ n \in Nat /\ ~(m < n) /\ ~(n < m)
    BY <1>5, <1>10, <2>1
  <2> QED  BY <2>2
<1>12. ASSUME NEW m \in DOMAIN fused, NEW n \in DOMAIN fused, m < n
       PROVE  ~Higher(Score(fused[n]), Score(fused[m]))
  <2>1. m \in P /\ n \in P /\ at[m] \in P /\ at[n] \in P
        /\ fused[m] = s[at[m]] /\ fused[n] = s[at[n]]
    BY <1>10
  <2>2. at[n] \notin less[at[m]]
    BY <1>10, <1>12, <2>1
  <2> HIDE DEF Score
  <2> QED  BY <2>1, <2>2 DEF less
<1> QED  BY <1>7, <1>9, <1>11, <1>12 DEF fused

\* The start of a list has no element twice either.
LEMMA StartOfDistinct ==
  ASSUME NEW S, NEW s \in Seq(S), Distinct(s), NEW n \in Nat
  PROVE  /\ Distinct(FirstOf(s, n))
         /\ IsFiniteSet(ToSet(FirstOf(s, n)))
         /\ Cardinality(ToSet(FirstOf(s, n))) = Len(FirstOf(s, n))
<1> DEFINE t == FirstOf(s, n)
<1>1. t \in Seq(S) /\ \A i \in 1..Len(t) : i \in DOMAIN s /\ t[i] = s[i]
  BY FirstOfIsPrefix
<1> HIDE DEF t
<1>2. Len(t) \in Nat /\ DOMAIN t = 1..Len(t)
  BY <1>1, LenProperties
<1>3. \A i, j \in 1..Len(t) : t[i] = t[j] => i = j
  BY <1>1 DEF Distinct
<1>4. /\ \A i \in 1..Len(t) : t[i] \in ToSet(t)
      /\ \A x \in ToSet(t) : \E i \in 1..Len(t) : t[i] = x
  BY <1>2 DEF ToSet
<1>5. IsFiniteSet(ToSet(t)) /\ Cardinality(ToSet(t)) = Len(t)
  BY <1>2, <1>3, <1>4, DistinctAreCounted
<1> QED  BY <1>2, <1>3, <1>5 DEF Distinct, t

\* The answer is the start of an order of the candidates: of their own one if there is
\* no reranker.
LEMMA CandidatesAreOrdered ==
  ASSUME NEW S, NEW semantic \in Seq(S), Distinct(semantic),
         NEW keyword \in Seq(S), Distinct(keyword), NEW request \in SearchRequests,
         NEW given \in Answers(semantic, keyword, request)
  PROVE  LET candidates == Candidates(semantic, keyword, request)
         IN \E order \in Seq(S) :
              /\ Distinct(order)
              /\ ToSet(order) = ToSet(candidates) /\ Len(order) = Len(candidates)
              /\ given = FirstOf(order, request.top_k)
              /\ ~request.rerank => order = candidates
<1> DEFINE fused == Fused(semantic, keyword, request)
           m == Oversampling * request.top_k
           candidates == Candidates(semantic, keyword, request)
<1>1. fused \in Seq(S) /\ Distinct(fused)
  BY FusedIsRanked
<1>2. m \in Nat
  BY RagAssumption, SearchAssumption
<1>3. candidates = FirstOf(fused, m)
  BY DEF Candidates
<1>4. /\ candidates \in Seq(S) /\ Distinct(candidates)
      /\ IsFiniteSet(ToSet(candidates)) /\ Cardinality(ToSet(candidates)) = Len(candidates)
  <2> HIDE DEF fused, m, candidates
  <2> QED  BY <1>1, <1>2, <1>3, FirstOfIsPrefix, StartOfDistinct
<1>5. \/ given = FirstOf(candidates, request.top_k)
      \/ request.rerank /\ \E order \in SetToSeqs(ToSet(candidates)) :
                             given = FirstOf(order, request.top_k)
  BY DEF Answers, Reranked
<1> HIDE DEF candidates
<1>6. CASE given = FirstOf(candidates, request.top_k)
  BY <1>4, <1>6 DEF candidates
<1>7. CASE request.rerank /\ \E order \in SetToSeqs(ToSet(candidates)) :
                               given = FirstOf(order, request.top_k)
  <2>1. PICK order \in SetToSeqs(ToSet(candidates)) : given = FirstOf(order, request.top_k)
    BY <1>7
  <2>2. /\ order \in Seq(ToSet(candidates)) /\ Distinct(order)
        /\ Len(order) = Len(candidates) /\ ToSet(order) = ToSet(candidates)
    BY <1>4, PermutationsAreDistinct
  <2>3. ToSet(candidates) \subseteq S
    BY <1>4, LenProperties DEF ToSet
  <2>4. order \in Seq(S)
    BY <2>2, <2>3, SeqMonotonic
  <2> QED  BY <1>7, <2>1, <2>2, <2>4 DEF candidates
<1> QED  BY <1>5, <1>6, <1>7

\* What the service answers: chunks that were found, each once, all of them if there
\* is room; without a reranker none before one that beats it.
LEMMA SearchAnswers ==
  ASSUME NEW S, NEW semantic \in Seq(S), Distinct(semantic),
         NEW keyword \in Seq(S), Distinct(keyword), NEW request \in SearchRequests,
         NEW given \in Answers(semantic, keyword, request)
  PROVE  LET found == ToSet(semantic) \union ToSet(keyword)
         IN /\ ToSet(given) \subseteq found
            /\ Cardinality(ToSet(given)) = Len(given)
            /\ Len(given) <= request.top_k
            /\ Len(given) < request.top_k => ToSet(given) = found
            /\ ~request.rerank =>
                 \A c \in found, d \in ToSet(given) :
                   Beats(c, d, semantic, keyword, request) => Ahead(c, d, given)
<1> DEFINE n == request.top_k
           m == Oversampling * n
           fused == Fused(semantic, keyword, request)
           candidates == Candidates(semantic, keyword, request)
           found == ToSet(semantic) \union ToSet(keyword)
           Score(c) == RrfScore(c, semantic, keyword, request)
<1>1. n \in Nat /\ m \in Nat /\ n <= m
  <2>1. n \in Nat /\ Oversampling \in Nat \ {0}
    BY RagAssumption, SearchAssumption
  <2> HIDE DEF n
  <2>2. \A p \in Nat, q \in Nat \ {0} : q * p \in Nat /\ p <= q * p
    OBVIOUS
  <2> QED  BY <2>1, <2>2
<1>2. /\ fused \in Seq(S) /\ Distinct(fused) /\ ToSet(fused) = found
      /\ \A i, j \in DOMAIN fused : i < j => ~Higher(Score(fused[j]), Score(fused[i]))
  <2>1. fused \in Seq(S) /\ Distinct(fused) /\ ToSet(fused) = found
    BY FusedIsRanked
  <2>2. \A i, j \in DOMAIN fused : i < j => ~Higher(Score(fused[j]), Score(fused[i]))
    <3> HIDE DEF fused
    <3> SUFFICES ASSUME NEW i \in DOMAIN fused, NEW j \in DOMAIN fused, i < j
                 PROVE  ~Higher(Score(fused[j]), Score(fused[i]))
      OBVIOUS
    <3> QED  BY FusedIsRanked DEF fused
  <2> QED  BY <2>1, <2>2
<1>3. \A c, d \in S : Beats(c, d, semantic, keyword, request) => Higher(Score(c), Score(d))
  BY ScoresFollowRanks
<1>4. \A c \in S : ~Higher(Score(c), Score(c))
  <2> TAKE c \in S
  <2>1. IsFraction(Score(c))
    BY ScoresFollowRanks
  <2> HIDE DEF Score
  <2> QED  BY <2>1 DEF IsFraction, Higher
<1>5. PICK order \in Seq(S) :
        /\ Distinct(order)
        /\ ToSet(order) = ToSet(candidates) /\ Len(order) = Len(candidates)
        /\ given = FirstOf(order, n)
        /\ ~request.rerank => order = candidates
  BY CandidatesAreOrdered
<1>6. candidates = FirstOf(fused, m)
  BY DEF Candidates
<1> HIDE DEF n, m, fused, candidates, found, Score
<1>7. /\ candidates \in Seq(S) /\ ToSet(candidates) \subseteq found
      /\ Len(candidates) < m => candidates = fused
      /\ \A i \in 1..Len(candidates) : i \in DOMAIN fused /\ candidates[i] = fused[i]
  BY <1>1, <1>2, <1>6, FirstOfIsPrefix
<1>8. /\ given \in Seq(S) /\ ToSet(given) \subseteq ToSet(order)
      /\ Len(given) = IF n < Len(order) THEN n ELSE Len(order)
      /\ Len(given) < n => given = order
      /\ \A i \in 1..Len(given) : i \in DOMAIN order /\ given[i] = order[i]
  BY <1>1, <1>5, FirstOfIsPrefix
<1>9. Distinct(given) /\ Cardinality(ToSet(given)) = Len(given)
  BY <1>1, <1>5, StartOfDistinct
<1>10. /\ Len(given) \in Nat /\ DOMAIN given = 1..Len(given)
       /\ Len(fused) \in Nat /\ DOMAIN fused = 1..Len(fused)
       /\ Len(order) \in Nat /\ Len(candidates) \in Nat
       /\ DOMAIN candidates = 1..Len(candidates)
  BY <1>2, <1>5, <1>7, <1>8, LenProperties
<1>11. Len(given) <= n
  BY <1>1, <1>8, <1>10
<1>12. ASSUME Len(given) < n PROVE ToSet(given) = found
  <2>1. Len(candidates) < m
    BY <1>1, <1>5, <1>8, <1>10, <1>12
  <2> QED  BY <1>2, <1>5, <1>7, <1>8, <1>12, <2>1
<1>13. ASSUME ~request.rerank, NEW c \in found, NEW d \in ToSet(given),
              Beats(c, d, semantic, keyword, request)
       PROVE  Ahead(c, d, given)
  <2>1. PICK i \in DOMAIN fused : fused[i] = c
    BY <1>2 DEF ToSet
  <2>2. PICK j \in DOMAIN given : given[j] = d
    BY DEF ToSet
  <2>3. j \in DOMAIN fused /\ fused[j] = d
    BY <1>5, <1>7, <1>8, <1>10, <1>13, <2>2
  <2>4. c \in S /\ d \in S
    BY <1>2, <2>1, <2>3
  <2>5. i # j /\ ~(j < i)
    BY <1>2, <1>3, <1>4, <1>13, <2>1, <2>3, <2>4
  <2>6. i \in 1..Len(given) /\ i < j
    BY <1>10, <2>1, <2>2, <2>5
  <2>7. given[i] = c
    BY <1>5, <1>7, <1>8, <1>10, <1>13, <2>1, <2>6
  <2>8. ASSUME NEW k \in 1..i PROVE given[k] # d
    <3>1. k \in DOMAIN given /\ k # j
      BY <1>10, <2>2, <2>6
    <3> QED  BY <1>9, <2>2, <3>1 DEF Distinct
  <2> QED  BY <1>10, <2>6, <2>7, <2>8 DEF Ahead
<1>14. ToSet(given) \subseteq found
  BY <1>5, <1>7, <1>8
<1> QED  BY <1>9, <1>11, <1>12, <1>13, <1>14 DEF n, found

\* What a query returns is selected.
LEMMA QueriesSelect ==
  ASSUME NEW corpus \in Corpora, NEW request \in SearchRequests,
         NEW s \in Rankings(Selected(corpus, request), Limit(request))
  PROVE  /\ s \in Seq(Selected(corpus, request)) /\ Distinct(s)
         /\ request.mine => \A c \in Selected(corpus, request) : c.owner = Asker
<1>1. IsFiniteSet(corpus) /\ Selected(corpus, request) \subseteq corpus
  BY SearchAssumption DEF Selected
<1>2. IsFiniteSet(Selected(corpus, request))
  BY <1>1, FS_Subset
<1> QED  BY <1>2, RankingsAreDistinct DEF Selected

\* A search, whatever is written to the database between its two queries.
LEMMA SearchIsSoundStep == Search => SearchIsSound'
<1> SUFFICES ASSUME Search PROVE SearchIsSound'
  OBVIOUS
<1>1. PICK request \in SearchRequests, atFirst \in Corpora, later \in Corpora :
        \E s \in SemanticResults(atFirst, request), k \in KeywordResults(later, request) :
          /\ asked' = [tool |-> "search", request |-> request]
          /\ reply' = [semantic |-> s, keyword |-> k]
          /\ answer' \in Answers(s, k, request)
  BY DEF Search
<1>2. PICK s \in SemanticResults(atFirst, request), k \in KeywordResults(later, request) :
        /\ asked' = [tool |-> "search", request |-> request]
        /\ reply' = [semantic |-> s, keyword |-> k]
        /\ answer' \in Answers(s, k, request)
  BY <1>1
<1> DEFINE S == Selected(atFirst, request) \union Selected(later, request)
           found == ToSet(s) \union ToSet(k)
<1>3. /\ s \in Seq(Selected(atFirst, request)) /\ Distinct(s)
      /\ k \in Seq(Selected(later, request)) /\ Distinct(k)
      /\ request.mine => \A c \in S : c.owner = Asker
  BY QueriesSelect DEF SemanticResults, KeywordResults
<1>4. s \in Seq(S) /\ k \in Seq(S)
  BY <1>3, SeqMonotonic
<1> HIDE DEF S
<1>5. found \subseteq S
  BY <1>4, LenProperties DEF ToSet
<1>6. /\ ToSet(answer') \subseteq found
      /\ Cardinality(ToSet(answer')) = Len(answer')
      /\ Len(answer') <= request.top_k
      /\ Len(answer') < request.top_k => ToSet(answer') = found
      /\ ~request.rerank =>
           \A c \in found, d \in ToSet(answer') :
             Beats(c, d, s, k, request) => Ahead(c, d, answer')
  BY <1>2, <1>3, <1>4, SearchAnswers
<1>7. /\ asked'.tool = "search" /\ asked'.request = request
      /\ reply'.semantic = s /\ reply'.keyword = k
  BY <1>2
<1>8. request.mine => \A c \in ToSet(answer') : c.owner = Asker
  BY <1>3, <1>5, <1>6
<1>9. \A c, d : Dominates(c, d)' = Beats(c, d, s, k, request)
  BY <1>7 DEF Dominates, Beats
<1> HIDE DEF found
<1>10. ToSet(reply'.semantic) \union ToSet(reply'.keyword) = found
  BY <1>7 DEF found
<1> QED  BY <1>6, <1>7, <1>8, <1>9, <1>10 DEF SearchIsSound

\* For any chunks, weights and orders of the two queries' results: a search of one's own
\* documents finds no others; no chunk is there twice or missing while there is room; and
\* without a reranker none is passed over for one that it beats (SearchIsSound;
\* HybridRetriever.search, RAGService.search).
THEOREM SearchesAreSound == Spec => []SearchIsSound
<1>1. Init => SearchIsSound
  BY DEF Init, SearchIsSound
<1>2. SearchIsSound /\ [Next]_vars => SearchIsSound'
  <2> SUFFICES ASSUME SearchIsSound, [Next]_vars PROVE SearchIsSound'
    OBVIOUS
  <2>1. CASE Search
    BY <2>1, SearchIsSoundStep
  <2>2. CASE Next /\ ~Search
    BY <2>2, OthersAreNot DEF Next, SearchIsSound
  <2>3. CASE UNCHANGED vars
    BY <2>3 DEF vars, SearchIsSound, Dominates
  <2> QED  BY <2>1, <2>2, <2>3
<1> QED  BY <1>1, <1>2, PTL DEF Spec
=============================================================================
