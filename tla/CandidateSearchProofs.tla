------------------------ MODULE CandidateSearchProofs ------------------------
(***************************************************************************)
(* Proofs about the candidate search, for any request and any resources    *)
(* that validation accepts.  The helpers come first: sums, enumerations in *)
(* order, the order of the rankings, what a plan holds and what a score    *)
(* can be.  Then the search: what it has left behind is settled, because   *)
(* the bound is sound and the ranking drops only what is not better.       *)
(***************************************************************************)
EXTENDS CandidateSearch, FiniteSetTheorems, SequenceTheorems, WellFoundedInduction, TLAPS

-----------------------------------------------------------------------------
(***************************************************************************)
(* Induction on the naturals, for a set: the library's theorems take a     *)
(* predicate as a parameter.                                               *)
(***************************************************************************)

(* A set of naturals that holds 0 and every successor holds every natural. *)
LEMMA NatSetInduction ==
    ASSUME NEW S \in SUBSET Nat, 0 \in S, \A n \in S : n + 1 \in S
    PROVE  S = Nat
<1>1. SUFFICES ASSUME Nat \ S # {} PROVE FALSE
  OBVIOUS
<1>2. PICK n \in Nat \ S : \A k \in Nat \ S : ~ (<<k, n>> \in OpToRel(<, Nat))
  BY <1>1, NatLessThanWellFounded, WFMin
<1>3. n - 1 \in Nat /\ n - 1 < n
  OBVIOUS
<1>4. n - 1 \in S
  BY <1>2, <1>3 DEF OpToRel
<1> QED
  BY <1>3, <1>4

(* A nonempty set of naturals has a least element. *)
LEMMA NatSetHasLeast ==
    ASSUME NEW S \in SUBSET Nat, S # {}
    PROVE  \E n \in S : \A k \in S : n <= k
<1>1. PICK n \in S : \A k \in S : ~ (<<k, n>> \in OpToRel(<, Nat))
  BY NatLessThanWellFounded, WFMin
<1>2. ASSUME NEW k \in S PROVE n <= k
  <2>1. ~ (k < n)
    BY <1>1, <1>2 DEF OpToRel
  <2> QED BY <2>1
<1> QED BY <1>2

(* A nonempty set of naturals with an upper bound has a greatest element. *)
LEMMA NatSetHasGreatest ==
    ASSUME NEW S \in SUBSET Nat, S # {}, NEW b \in Nat, \A k \in S : k <= b
    PROVE  Max(S) \in S /\ \A k \in S : k <= Max(S)
<1> DEFINE D == {b - k : k \in S}
<1>1. D \in SUBSET Nat /\ D # {}
  <2>1. ASSUME NEW k \in S PROVE b - k \in Nat
    BY k <= b, k \in Nat
  <2> QED BY <2>1
<1>2. PICK d \in D : \A e \in D : d <= e
  BY <1>1, NatSetHasLeast
<1>3. PICK k \in S : d = b - k
  BY <1>2
<1>4. \A j \in S : k >= j
  <2> TAKE j \in S
  <2>1. d <= b - j
    BY <1>2
  <2> QED BY <1>3, <2>1
<1>5. \E x \in S : \A y \in S : x >= y
  BY <1>4
<1>6. Max(S) \in S /\ \A y \in S : Max(S) >= y
  BY <1>5 DEF Max
<1> QED BY <1>6

-----------------------------------------------------------------------------
(***************************************************************************)
(* Sums.                                                                   *)
(***************************************************************************)

(* The partial sums of integers v[1], ..., v[n]. *)
PartialSums(n, v, g) ==
    /\ g \in [0..n -> Int]
    /\ g[0] = 0
    /\ \A k \in 1..n : g[k] = g[k - 1] + v[k]

(* Every sequence of integers has partial sums. *)
LEMMA PartialSumsExist ==
    ASSUME NEW n \in Nat, NEW v \in [1..n -> Int]
    PROVE  \E g : PartialSums(n, v, g)
<1> DEFINE Sums(m) == {f \in [0..m -> Int] : f[0] = 0 /\ \A k \in 1..m : f[k] = f[k - 1] + v[k]}
           Summable == {m \in Nat : m <= n => Sums(m) # {}}
<1>1. Sums(0) # {}
  <2>1. [k \in 0..0 |-> 0] \in Sums(0)
    OBVIOUS
  <2> QED BY <2>1
<1>2. ASSUME NEW m \in Nat, m + 1 <= n, Sums(m) # {} PROVE Sums(m + 1) # {}
  <2>1. PICK f \in [0..m -> Int] : f[0] = 0 /\ \A k \in 1..m : f[k] = f[k - 1] + v[k]
    BY <1>2
  <2> DEFINE g == [k \in 0..m + 1 |-> IF k = m + 1 THEN f[m] + v[m + 1] ELSE f[k]]
  <2>2. v[m + 1] \in Int /\ f[m] \in Int
    BY <1>2
  <2>3. g \in [0..m + 1 -> Int]
    BY <2>2
  <2>4. g[0] = 0 /\ g[m + 1] = g[m] + v[m + 1]
    BY <2>1
  <2>5. ASSUME NEW k \in 1..m PROVE g[k] = g[k - 1] + v[k]
    BY <2>1
  <2>6. \A k \in 1..m + 1 : k = m + 1 \/ k \in 1..m
    OBVIOUS
  <2> HIDE DEF g
  <2>7. \A k \in 1..m + 1 : g[k] = g[k - 1] + v[k]
    <3> TAKE k \in 1..m + 1
    <3>1. CASE k = m + 1
      BY <2>4, <3>1
    <3>2. CASE k \in 1..m
      BY <2>5, <3>2
    <3> QED BY <2>6, <3>1, <3>2
  <2> QED BY <2>3, <2>4, <2>7
<1> HIDE DEF Sums
<1>3. ASSUME NEW m \in Summable PROVE m + 1 \in Summable
  BY <1>2
<1>4. 0 \in Summable
  BY <1>1
<1>5. Summable = Nat
  <2> HIDE DEF Summable
  <2> QED BY <1>3, <1>4, NatSetInduction DEF Summable
<1>6. Sums(n) # {}
  BY <1>5
<1> QED BY <1>6 DEF Sums, PartialSums

(* The total is the last of the partial sums. *)
LEMMA TotalIsLastSum ==
    ASSUME NEW n \in Nat, NEW v \in [1..n -> Int], NEW g, PartialSums(n, v, g)
    PROVE  Total(v) = g[n]
<1> DEFINE table(f) == [i \in 0..Len(v) |-> IF i = 0 THEN 0 ELSE f[i - 1] + v[i]]
           sum == CHOOSE f : f = table(f)
<1>0. Len(v) = n
  <2>1. v \in Seq(Int)
    OBVIOUS
  <2> QED BY <2>1, LenProperties
<1>1. g = table(g)
  BY <1>0 DEF PartialSums
<1>2. sum = table(sum)
  <2> HIDE DEF table
  <2> QED BY <1>1
<1>3. Total(v) = sum[n]
  BY <1>0 DEF Total
<1> HIDE DEF sum
<1> DEFINE Agree == {m \in Nat : m <= n => sum[m] = g[m]}
<1>4. Agree = Nat
  <2>1. 0 \in Agree
    <3>1. sum[0] = table(sum)[0]
      BY <1>2
    <3> QED BY <3>1, <1>0 DEF PartialSums
  <2>2. ASSUME NEW m \in Agree PROVE m + 1 \in Agree
    <3>1. SUFFICES ASSUME m + 1 <= n PROVE sum[m + 1] = g[m + 1]
      OBVIOUS
    <3>2. m \in Nat /\ sum[m] = g[m] /\ m + 1 \in 1..n /\ m + 1 # 0 /\ (m + 1) - 1 = m
      BY <3>1
    <3>3. sum[m + 1] = table(sum)[m + 1]
      BY <1>2
    <3>4. table(sum)[m + 1] = sum[m] + v[m + 1]
      BY <3>2, <1>0
    <3>5. g[m + 1] = g[m] + v[m + 1]
      BY <3>2 DEF PartialSums
    <3> QED BY <3>2, <3>3, <3>4, <3>5
  <2> HIDE DEF Agree
  <2> QED BY <2>1, <2>2, NatSetInduction DEF Agree
<1>5. sum[n] = g[n]
  BY <1>4
<1> QED BY <1>3, <1>5

(* The total of integers is an integer. *)
LEMMA TotalType ==
    ASSUME NEW n \in Nat, NEW v \in [1..n -> Int]
    PROVE  Total(v) \in Int
<1>1. PICK g : PartialSums(n, v, g)
  BY PartialSumsExist
<1>2. Total(v) = g[n]
  BY <1>1, TotalIsLastSum
<1> QED BY <1>1, <1>2 DEF PartialSums

(* A sum grows with its terms. *)
LEMMA TotalMonotone ==
    ASSUME NEW n \in Nat, NEW v \in [1..n -> Int], NEW w \in [1..n -> Int],
           \A i \in 1..n : v[i] <= w[i]
    PROVE  Total(v) <= Total(w)
<1>1. PICK g : PartialSums(n, v, g)
  BY PartialSumsExist
<1>2. PICK h : PartialSums(n, w, h)
  BY PartialSumsExist
<1> DEFINE Below == {m \in Nat : m <= n => g[m] <= h[m]}
<1>3. Below = Nat
  <2>1. 0 \in Below
    BY <1>1, <1>2 DEF PartialSums
  <2>2. ASSUME NEW m \in Below PROVE m + 1 \in Below
    <3>1. SUFFICES ASSUME m + 1 <= n PROVE g[m + 1] <= h[m + 1]
      OBVIOUS
    <3>2. m + 1 \in 1..n /\ (m + 1) - 1 = m /\ m \in 0..n /\ g[m] <= h[m]
      BY <3>1
    <3>3. g[m + 1] = g[m] + v[m + 1] /\ h[m + 1] = h[m] + w[m + 1]
      BY <3>2, <1>1, <1>2 DEF PartialSums
    <3>4. g[m] \in Int /\ h[m] \in Int /\ v[m + 1] \in Int /\ w[m + 1] \in Int
      BY <3>2, <1>1, <1>2 DEF PartialSums
    <3>5. v[m + 1] <= w[m + 1]
      BY <3>2
    <3> QED BY <3>2, <3>3, <3>4, <3>5
  <2> HIDE DEF Below
  <2> QED BY <2>1, <2>2, NatSetInduction DEF Below
<1>4. g[n] <= h[n]
  BY <1>3
<1> QED BY <1>1, <1>2, <1>4, TotalIsLastSum

(* n equal terms sum up to n times one of them. *)
LEMMA TotalConstant ==
    ASSUME NEW n \in Nat, NEW c \in Int
    PROVE  Total([i \in 1..n |-> c]) = n * c
<1> DEFINE v == [i \in 1..n |-> c]
           g == [k \in 0..n |-> k * c]
<1>1. ASSUME NEW k \in 1..n PROVE k * c = (k - 1) * c + c
  OBVIOUS
<1>2. PartialSums(n, v, g)
  <2>1. g \in [0..n -> Int] /\ g[0] = 0
    OBVIOUS
  <2>2. \A k \in 1..n : g[k] = g[k - 1] + v[k]
    <3> TAKE k \in 1..n
    <3>1. g[k] = k * c /\ g[k - 1] = (k - 1) * c /\ v[k] = c
      OBVIOUS
    <3> QED BY <3>1, <1>1
  <2> QED BY <2>1, <2>2 DEF PartialSums
<1>3. v \in [1..n -> Int] /\ g[n] = n * c
  OBVIOUS
<1> HIDE DEF g, v
<1>4. Total(v) = g[n]
  BY <1>2, <1>3, TotalIsLastSum
<1> QED BY <1>3, <1>4 DEF v

(* A sum is the sum of the first m terms and the sum of the rest. *)
LEMMA TotalSplit ==
    ASSUME NEW n \in Nat, NEW m \in 0..n, NEW v \in [1..n -> Int]
    PROVE  Total(v) = Total([i \in 1..m |-> v[i]]) + Total([i \in 1..n - m |-> v[m + i]])
<1> DEFINE a == [i \in 1..m |-> v[i]]
           b == [i \in 1..n - m |-> v[m + i]]
<1>1. PICK g : PartialSums(n, v, g)
  BY PartialSumsExist
<1> DEFINE f == [k \in 0..m |-> g[k]]
           h == [k \in 0..n - m |-> g[m + k] - g[m]]
<1>2. a \in [1..m -> Int] /\ b \in [1..n - m -> Int] /\ m \in Nat /\ n - m \in Nat
  OBVIOUS
<1>3. g \in [0..n -> Int] /\ g[0] = 0 /\ \A k \in 1..n : g[k] = g[k - 1] + v[k]
  BY <1>1 DEF PartialSums
<1>4. PartialSums(m, a, f)
  <2>1. f \in [0..m -> Int] /\ f[0] = 0
    BY <1>3
  <2>2. \A k \in 1..m : f[k] = f[k - 1] + a[k]
    <3> TAKE k \in 1..m
    <3>1. k \in 1..n /\ k - 1 \in 0..m /\ k \in 0..m
      OBVIOUS
    <3>2. f[k] = g[k] /\ f[k - 1] = g[k - 1] /\ a[k] = v[k]
      BY <3>1
    <3> QED BY <1>3, <3>1, <3>2
  <2> QED BY <2>1, <2>2 DEF PartialSums
<1>5. PartialSums(n - m, b, h)
  <2>1. h \in [0..n - m -> Int] /\ h[0] = 0
    BY <1>3
  <2>2. \A k \in 1..n - m : h[k] = h[k - 1] + b[k]
    <3> TAKE k \in 1..n - m
    <3>1. m + k \in 1..n /\ k - 1 \in 0..n - m /\ k \in 0..n - m /\ m + (k - 1) = (m + k) - 1
      OBVIOUS
    <3>2. h[k] = g[m + k] - g[m] /\ h[k - 1] = g[(m + k) - 1] - g[m] /\ b[k] = v[m + k]
      BY <3>1
    <3>3. g[m + k] \in Int /\ g[m] \in Int /\ g[(m + k) - 1] \in Int /\ v[m + k] \in Int
      BY <3>1, <1>3
    <3>4. g[m + k] = g[(m + k) - 1] + v[m + k]
      BY <3>1, <1>3
    <3> QED BY <3>2, <3>3, <3>4
  <2> QED BY <2>1, <2>2 DEF PartialSums
<1>6. f[m] = g[m] /\ h[n - m] = g[n] - g[m] /\ g[n] \in Int /\ g[m] \in Int
  BY <1>3
<1> HIDE DEF f, h, a, b
<1>7. Total(v) = g[n] /\ Total(a) = f[m] /\ Total(b) = h[n - m]
  BY <1>1, <1>2, <1>4, <1>5, TotalIsLastSum
<1>8. Total(v) = Total(a) + Total(b)
  BY <1>6, <1>7
<1> QED BY <1>8 DEF a, b

-----------------------------------------------------------------------------
(***************************************************************************)
(* Enumerations in order.                                                  *)
(***************************************************************************)

(* R, a set of pairs, is a strict total order of U. *)
StrictlyOrders(R, U) ==
    /\ \A a \in U : <<a, a>> \notin R
    /\ \A a, b, c \in U : <<a, b>> \in R /\ <<b, c>> \in R => <<a, c>> \in R
    /\ \A a, b \in U : a # b => <<a, b>> \in R \/ <<b, a>> \in R

(* The last of a finite set in an order. *)
IsLast(l, C, R) == l \in C /\ \A c \in C \ {l} : <<c, l>> \in R

(* s lists all of C in the order R. *)
Lists(s, C, R) ==
    /\ s \in [1..Cardinality(C) -> C]
    /\ \A i, j \in 1..Cardinality(C) : i < j => <<s[i], s[j]>> \in R
    /\ \A c \in C : \E i \in 1..Cardinality(C) : s[i] = c

(* A nonempty finite set has a last element. *)
LEMMA LastExists ==
    ASSUME NEW U, NEW R, StrictlyOrders(R, U),
           NEW C \in SUBSET U, IsFiniteSet(C), C # {}
    PROVE  \E l : IsLast(l, C, R)
<1> DEFINE P(D) == IsFiniteSet(D) /\ D # {} => \E l : IsLast(l, D, R)
           Sizes == {m \in Nat : \A D \in SUBSET U : Cardinality(D) = m => P(D)}
<1>1. Sizes = Nat
  <2>1. 0 \in Sizes
    <3> SUFFICES ASSUME NEW D \in SUBSET U, Cardinality(D) = 0, IsFiniteSet(D) PROVE D = {}
      OBVIOUS
    <3> QED BY FS_EmptySet
  <2>2. ASSUME NEW m \in Sizes PROVE m + 1 \in Sizes
    <3> SUFFICES ASSUME NEW D \in SUBSET U, Cardinality(D) = m + 1, IsFiniteSet(D), D # {}
                 PROVE  \E l : IsLast(l, D, R)
      OBVIOUS
    <3>1. PICK x \in D : TRUE
      OBVIOUS
    <3> DEFINE E == D \ {x}
    <3>2. E \in SUBSET U /\ IsFiniteSet(E) /\ Cardinality(E) = m
      <4>1. Cardinality(D) - 1 = m
        OBVIOUS
      <4> QED BY <3>1, <4>1, FS_RemoveElement
    <3>3. CASE E = {}
      BY <3>1, <3>3 DEF IsLast
    <3>4. CASE E # {}
      <4>1. PICK l : IsLast(l, E, R)
        BY <3>2, <3>4
      <4>2. l \in E /\ l \in U /\ x \in U /\ l # x /\ \A c \in E \ {l} : <<c, l>> \in R
        BY <3>1, <4>1 DEF IsLast
      <4>3. CASE <<x, l>> \in R
        <5>1. \A c \in D \ {l} : <<c, l>> \in R
          BY <4>2, <4>3
        <5> QED BY <4>2, <5>1 DEF IsLast
      <4>4. CASE <<l, x>> \in R
        <5>1. ASSUME NEW c \in D \ {x} PROVE <<c, x>> \in R
          <6>1. CASE c = l
            BY <4>4, <6>1
          <6>2. CASE c # l
            <7>1. <<c, l>> \in R /\ c \in U
              BY <4>2, <6>2
            <7> QED BY <4>2, <4>4, <7>1 DEF StrictlyOrders
          <6> QED BY <6>1, <6>2
        <5> QED BY <3>1, <5>1 DEF IsLast
      <4> QED BY <4>2, <4>3, <4>4 DEF StrictlyOrders
    <3> QED BY <3>3, <3>4
  <2> HIDE DEF Sizes
  <2> QED BY <2>1, <2>2, NatSetInduction DEF Sizes
<1>2. Cardinality(C) \in Nat
  BY FS_CardinalityType
<1>3. P(C)
  BY <1>1, <1>2
<1> QED BY <1>3

(* A finite set can be listed in order. *)
LEMMA ListExists ==
    ASSUME NEW U, NEW R, StrictlyOrders(R, U),
           NEW C \in SUBSET U, IsFiniteSet(C)
    PROVE  \E s : Lists(s, C, R)
<1> DEFINE P(D) == IsFiniteSet(D) => \E s : Lists(s, D, R)
           Sizes == {m \in Nat : \A D \in SUBSET U : Cardinality(D) = m => P(D)}
<1>1. Sizes = Nat
  <2>1. 0 \in Sizes
    <3> SUFFICES ASSUME NEW D \in SUBSET U, Cardinality(D) = 0, IsFiniteSet(D)
                 PROVE  \E s : Lists(s, D, R)
      OBVIOUS
    <3>1. D = {}
      BY FS_EmptySet
    <3> DEFINE s == [i \in 1..0 |-> 0]
    <3>2. s \in [1..0 -> D]
      OBVIOUS
    <3>3. Lists(s, D, R)
      BY <3>1, <3>2 DEF Lists
    <3> QED BY <3>3
  <2>2. ASSUME NEW m \in Sizes PROVE m + 1 \in Sizes
    <3> SUFFICES ASSUME NEW D \in SUBSET U, Cardinality(D) = m + 1, IsFiniteSet(D)
                 PROVE  \E s : Lists(s, D, R)
      OBVIOUS
    <3>0. m \in Nat /\ D # {}
      BY FS_EmptySet
    <3>1. PICK l : IsLast(l, D, R)
      BY <3>0, LastExists
    <3> DEFINE E == D \ {l}
    <3>2. E \in SUBSET U /\ IsFiniteSet(E) /\ Cardinality(E) = m
      <4>1. Cardinality(D) - 1 = m /\ l \in D
        BY <3>0, <3>1 DEF IsLast
      <4> QED BY <4>1, FS_RemoveElement
    <3>3. PICK s : Lists(s, E, R)
      BY <3>2
    <3>4. s \in [1..m -> E] /\ \A i, j \in 1..m : i < j => <<s[i], s[j]>> \in R
      BY <3>2, <3>3 DEF Lists
    <3> DEFINE t == [i \in 1..m + 1 |-> IF i = m + 1 THEN l ELSE s[i]]
    <3>5. t \in [1..m + 1 -> D]
      BY <3>0, <3>1, <3>4 DEF IsLast
    <3>6. t[m + 1] = l /\ \A i \in 1..m : t[i] = s[i] /\ t[i] \in E
      BY <3>0, <3>4
    <3>7. \A i \in 1..m + 1 : i \in 1..m \/ i = m + 1
      BY <3>0
    <3> HIDE DEF t
    <3>8. ASSUME NEW i \in 1..m + 1, NEW j \in 1..m + 1, i < j PROVE <<t[i], t[j]>> \in R
      <4>1. i \in 1..m
        BY <3>0, <3>8
      <4>2. CASE j \in 1..m
        BY <3>4, <3>6, <3>8, <4>1, <4>2
      <4>3. CASE j = m + 1
        BY <3>1, <3>6, <4>1, <4>3 DEF IsLast
      <4> QED BY <3>7, <4>2, <4>3
    <3>9. ASSUME NEW c \in D PROVE \E i \in 1..m + 1 : t[i] = c
      <4>1. CASE c = l
        BY <3>0, <3>6, <4>1
      <4>2. CASE c # l
        <5>1. \E i \in 1..m : s[i] = c
          BY <3>2, <3>3, <4>2 DEF Lists
        <5> QED BY <3>0, <3>6, <5>1
      <4> QED BY <4>1, <4>2
    <3>10. Lists(t, D, R)
      BY <3>5, <3>8, <3>9 DEF Lists
    <3> QED BY <3>10
  <2> HIDE DEF Sizes
  <2> QED BY <2>1, <2>2, NatSetInduction DEF Sizes
<1>2. Cardinality(C) \in Nat
  BY FS_CardinalityType
<1>3. P(C)
  BY <1>1, <1>2
<1> QED BY <1>3

(* Whatever is in order and as long as a finite set lists all of it. *)
LEMMA InOrderListsAll ==
    ASSUME NEW U, NEW R, StrictlyOrders(R, U),
           NEW C \in SUBSET U, IsFiniteSet(C),
           NEW s \in [1..Cardinality(C) -> C],
           \A i, j \in 1..Cardinality(C) : i < j => <<s[i], s[j]>> \in R
    PROVE  Lists(s, C, R)
<1> DEFINE n == Cardinality(C)
<1>1. n \in Nat
  BY FS_CardinalityType
<1>2. ASSUME NEW i \in 1..n, NEW j \in 1..n, i # j PROVE s[i] # s[j]
  <2>1. i < j \/ j < i
    BY <1>1, <1>2
  <2>2. s[i] \in U /\ s[j] \in U
    OBVIOUS
  <2> QED BY <2>1, <2>2 DEF StrictlyOrders
<1>3. s \in Injection(1..n, C)
  BY <1>2 DEF Injection, IsInjective
<1>4. IsFiniteSet(1..n) /\ Cardinality(1..n) = n
  BY <1>1, FS_Interval
<1>5. s \in Surjection(1..n, C)
  BY <1>3, <1>4, FS_Injection
<1>6. \A c \in C : \E i \in 1..n : s[i] = c
  BY <1>5 DEF Surjection
<1> QED BY <1>6 DEF Lists

-----------------------------------------------------------------------------
(***************************************************************************)
(* Candidates and plans.                                                   *)
(***************************************************************************)

(* A factor, weighted, stays within the weight's range. *)
LEMMA WeightedBounds ==
    ASSUME NEW v \in 0..FactorUnit, NEW w \in -MaxWeight..MaxWeight
    PROVE  v * w \in -(MaxWeight * FactorUnit)..MaxWeight * FactorUnit
<1>1. v \in Int /\ w \in Int /\ 0 <= v /\ v <= 16 /\ -1000 <= w /\ w <= 1000
  BY DEF FactorUnit, MaxWeight
<1>2. v * w \in Int /\ v * w <= v * 1000 /\ -(v * 1000) <= v * w
  BY <1>1
<1>3. v * 1000 <= 16000
  BY <1>1
<1> QED BY <1>1, <1>2, <1>3 DEF FactorUnit, MaxWeight

(* A clamped value is a factor. *)
LEMMA ClampUnitType ==
    ASSUME NEW x \in Int
    PROVE  ClampUnit(x) \in 0..FactorUnit
BY DEF ClampUnit, FactorUnit

(* The weights of a request. *)
LEMMA WeightsType ==
    ASSUME NEW request, RequestOK(request)
    PROVE  LET w == request.weights
           IN  /\ w.Occupancy \in -MaxWeight..MaxWeight
               /\ w.ResidualCapacity \in -MaxWeight..MaxWeight
               /\ w.Suitability \in -MaxWeight..MaxWeight
               /\ w.Fragmentation \in -MaxWeight..MaxWeight
               /\ w.Reuse \in -MaxWeight..MaxWeight
               /\ w.Locality \in -MaxWeight..MaxWeight
               /\ w.DatasetLocality \in -MaxWeight..MaxWeight
               /\ w.TopologyDistance \in -MaxWeight..MaxWeight
               /\ w.Fairness \in -MaxWeight..MaxWeight
               /\ w.Priority \in -MaxWeight..MaxWeight
BY DEF RequestOK, RankingFactors

(* The factors of one resource lie between 0 and 1. *)
LEMMA AdditiveValuesType ==
    ASSUME NEW request, RequestOK(request),
           NEW i \in 1..Len(request.requirements), NEW r \in DOMAIN request.resources
    PROVE  LET v == AdditiveValues(request, request.requirements[i], request.resources[r])
           IN  /\ v.Occupancy \in 0..FactorUnit
               /\ v.ResidualCapacity \in 0..FactorUnit
               /\ v.Suitability \in 0..FactorUnit
               /\ v.Fragmentation \in 0..FactorUnit
               /\ v.Reuse \in 0..FactorUnit
<1> DEFINE requirement == request.requirements[i]
           resource == request.resources[r]
           slots == SlotsOf(request, requirement, resource)
           after == resource.occupied + slots
           residual == IF resource.slots > after THEN resource.slots - after ELSE 0
           v == AdditiveValues(request, requirement, resource)
<1>1. resource.slots \in Nat \ {0} /\ resource.occupied \in Nat /\ resource.suited \in 0..FactorUnit
  BY DEF RequestOK, ResourceOK
<1>2. requirement.slots \in Nat \ {0}
  BY DEF RequestOK
<1>3. after \in Nat /\ residual \in Nat
  <2>1. slots \in Nat
    BY <1>1, <1>2 DEF SlotsOf
  <2> HIDE DEF slots
  <2>2. after \in Nat
    BY <1>1, <2>1
  <2> HIDE DEF after
  <2>3. resource.slots > after => resource.slots - after \in Nat
    BY <1>1, <2>2
  <2> QED BY <2>2, <2>3
<1> HIDE DEF after, residual
<1>4. (after * FactorUnit) \div resource.slots \in Int /\ (residual * FactorUnit) \div resource.slots \in Int
  BY <1>1, <1>3 DEF FactorUnit
<1>5. /\ v.Occupancy = ClampUnit(FactorUnit - (after * FactorUnit) \div resource.slots)
      /\ v.ResidualCapacity = ClampUnit((residual * FactorUnit) \div resource.slots)
      /\ v.Suitability = resource.suited
      /\ v.Fragmentation \in {0, FactorUnit}
      /\ v.Reuse \in {0, FactorUnit}
  BY DEF AdditiveValues, after, residual
<1>6. FactorUnit - (after * FactorUnit) \div resource.slots \in Int
  BY <1>4 DEF FactorUnit
<1>7. v.Occupancy \in 0..FactorUnit /\ v.ResidualCapacity \in 0..FactorUnit
  BY <1>4, <1>5, <1>6, ClampUnitType
<1>8. 0 \in 0..FactorUnit /\ FactorUnit \in 0..FactorUnit
  BY DEF FactorUnit
<1> QED BY <1>1, <1>5, <1>7, <1>8

(* What a candidate is worth by itself is bounded. *)
LEMMA CandidateType ==
    ASSUME NEW request, RequestOK(request),
           NEW i \in 1..Len(request.requirements), NEW r \in DOMAIN request.resources
    PROVE  LET c == Candidate(request, request.requirements[i], r)
           IN  /\ c.resource = r
               /\ c.partial \in Int
               /\ -(5 * MaxWeight * FactorUnit) <= c.partial
<1> DEFINE v == AdditiveValues(request, request.requirements[i], request.resources[r])
           w == request.weights
           c == Candidate(request, request.requirements[i], r)
<1>1. c.resource = r /\ c.partial = WeightedAdditive(request, v)
  BY DEF Candidate
<1>2. /\ v.Occupancy \in 0..FactorUnit
      /\ v.ResidualCapacity \in 0..FactorUnit
      /\ v.Suitability \in 0..FactorUnit
      /\ v.Fragmentation \in 0..FactorUnit
      /\ v.Reuse \in 0..FactorUnit
  BY AdditiveValuesType
<1>3. /\ w.Occupancy \in -MaxWeight..MaxWeight
      /\ w.ResidualCapacity \in -MaxWeight..MaxWeight
      /\ w.Suitability \in -MaxWeight..MaxWeight
      /\ w.Fragmentation \in -MaxWeight..MaxWeight
      /\ w.Reuse \in -MaxWeight..MaxWeight
  BY WeightsType
<1> HIDE DEF v
<1> DEFINE B == -(MaxWeight * FactorUnit)..MaxWeight * FactorUnit
<1>4. /\ v.Occupancy * w.Occupancy \in B
      /\ v.ResidualCapacity * w.ResidualCapacity \in B
      /\ v.Suitability * w.Suitability \in B
      /\ v.Fragmentation * w.Fragmentation \in B
      /\ v.Reuse * w.Reuse \in B
  BY <1>2, <1>3, WeightedBounds
<1>5. \A x \in B : x \in Int /\ -16000 <= x
  BY DEF MaxWeight, FactorUnit
<1>6. c.partial = v.Occupancy * w.Occupancy + v.ResidualCapacity * w.ResidualCapacity
                  + v.Suitability * w.Suitability + v.Fragmentation * w.Fragmentation + v.Reuse * w.Reuse
  BY <1>1 DEF WeightedAdditive
<1> HIDE DEF B, c
<1>7. c.partial \in Int /\ -(5 * MaxWeight * FactorUnit) <= c.partial
  <2>1. ASSUME NEW a \in Int, NEW b \in Int, NEW d \in Int, NEW e \in Int, NEW f \in Int,
               -16000 <= a, -16000 <= b, -16000 <= d, -16000 <= e, -16000 <= f
        PROVE  a + b + d + e + f \in Int /\ -(5 * MaxWeight * FactorUnit) <= a + b + d + e + f
    BY <2>1 DEF MaxWeight, FactorUnit
  <2>2. /\ v.Occupancy * w.Occupancy \in Int /\ -16000 <= v.Occupancy * w.Occupancy
        /\ v.ResidualCapacity * w.ResidualCapacity \in Int
        /\ -16000 <= v.ResidualCapacity * w.ResidualCapacity
        /\ v.Suitability * w.Suitability \in Int /\ -16000 <= v.Suitability * w.Suitability
        /\ v.Fragmentation * w.Fragmentation \in Int /\ -16000 <= v.Fragmentation * w.Fragmentation
        /\ v.Reuse * w.Reuse \in Int /\ -16000 <= v.Reuse * w.Reuse
    BY <1>4, <1>5
  <2> QED BY <1>6, <2>1, <2>2
<1> QED BY <1>1, <1>7 DEF c

(* The order of the candidates, as a set of pairs. *)
BeforeIn(C) == {p \in C \X C : Before(p[1], p[2])}

(* Candidates of one requirement are strictly ordered: two of them differ in their resource. *)
LEMMA BeforeOrders ==
    ASSUME NEW request, RequestOK(request), NEW i \in 1..Len(request.requirements)
    PROVE  LET C == EligibleCandidates(request, request.requirements[i])
           IN  StrictlyOrders(BeforeIn(C), C)
<1> DEFINE C == EligibleCandidates(request, request.requirements[i])
<1>1. ASSUME NEW c \in C
      PROVE  /\ c.resource \in Int /\ c.partial \in Int
             /\ c = Candidate(request, request.requirements[i], c.resource)
  <2>1. PICK r \in DOMAIN request.resources : c = Candidate(request, request.requirements[i], r)
    BY DEF EligibleCandidates, Considered
  <2>2. r \in Int
    BY DEF RequestOK
  <2> QED BY <2>1, <2>2, CandidateType
<1> HIDE DEF C
<1>2. \A a, b \in C : <<a, b>> \in BeforeIn(C) <=> Before(a, b)
  BY DEF BeforeIn
<1>3. \A a \in C : ~ Before(a, a)
  BY <1>1 DEF Before
<1>4. \A a, b, c \in C : Before(a, b) /\ Before(b, c) => Before(a, c)
  BY <1>1 DEF Before
<1>5. \A a, b \in C : a # b => Before(a, b) \/ Before(b, a)
  <2> TAKE a, b \in C
  <2>1. SUFFICES ASSUME a # b PROVE Before(a, b) \/ Before(b, a)
    OBVIOUS
  <2>2. a.resource # b.resource
    BY <1>1, <2>1
  <2> QED BY <1>1, <2>2 DEF Before
<1>6. StrictlyOrders(BeforeIn(C), C)
  BY <1>2, <1>3, <1>4, <1>5 DEF StrictlyOrders
<1> QED BY <1>6 DEF C

(* There are finitely many candidates. *)
LEMMA EligibleFinite ==
    ASSUME NEW request, RequestOK(request), NEW i
    PROVE  IsFiniteSet(EligibleCandidates(request, request.requirements[i]))
<1> DEFINE requirement == request.requirements[i]
           E == {x \in Considered(request, requirement) :
                    Reasons(request, requirement, request.resources[x]) = <<>>}
<1>1. IsFiniteSet(DOMAIN request.resources)
  BY FS_Interval DEF RequestOK
<1>2. E \subseteq DOMAIN request.resources
  BY DEF Considered
<1>3. IsFiniteSet(E)
  BY <1>1, <1>2, FS_Subset
<1> HIDE DEF E
<1> DEFINE image == {Candidate(request, requirement, r) : r \in E}
           f == [r \in E |-> Candidate(request, requirement, r)]
<1>4. IsFiniteSet(image)
  <2>1. f \in Surjection(E, image)
    BY DEF Surjection
  <2> QED BY <1>3, <2>1, FS_Surjection
<1> QED BY <1>4 DEF EligibleCandidates, E

(* s holds candidates of a set, the most promising first. *)
Descending(s) == \A j, k \in 1..Len(s) : j < k => Before(s[j], s[k])

(* Ordered lists a set of candidates in order. *)
LEMMA OrderedLists ==
    ASSUME NEW request, RequestOK(request), NEW i \in 1..Len(request.requirements),
           NEW C \in SUBSET EligibleCandidates(request, request.requirements[i])
    PROVE  /\ Ordered(C) \in Seq(C)
           /\ Descending(Ordered(C))
           /\ ToSet(Ordered(C)) = C
<1> DEFINE U == EligibleCandidates(request, request.requirements[i])
           R == BeforeIn(U)
           n == Cardinality(C)
           s == Ordered(C)
<1>1. StrictlyOrders(R, U)
  BY BeforeOrders
<1>2. IsFiniteSet(C)
  BY EligibleFinite, FS_Subset
<1>3. n \in Nat
  BY <1>2, FS_CardinalityType
<1> HIDE DEF U
<1>4. C \in SUBSET U
  BY DEF U
<1>5. \A a, b \in C : <<a, b>> \in R <=> Before(a, b)
  BY <1>4 DEF BeforeIn
<1> HIDE DEF R
<1>6. \E t : Lists(t, C, R)
  BY <1>1, <1>2, <1>4, ListExists
<1>7. \E t \in [1..n -> C] : \A j, k \in DOMAIN t : j < k => Before(t[j], t[k])
  BY <1>5, <1>6 DEF Lists
<1>8. s \in [1..n -> C] /\ \A j, k \in DOMAIN s : j < k => Before(s[j], s[k])
  BY <1>7 DEF Ordered
<1> HIDE DEF s
<1>9. \A j, k \in 1..n : j < k => <<s[j], s[k]>> \in R
  BY <1>5, <1>8
<1>10. Lists(s, C, R)
  BY <1>1, <1>2, <1>4, <1>8, <1>9, InOrderListsAll
<1> HIDE DEF n
<1>11. s \in Seq(C) /\ Len(s) = n /\ DOMAIN s = 1..n
  <2>1. s \in Seq(C)
    BY <1>3, <1>8, SeqDef
  <2> QED BY <1>3, <1>8, <2>1, LenProperties
<1>12. Descending(s)
  BY <1>8, <1>11 DEF Descending
<1>13. ToSet(s) = C
  BY <1>8, <1>10 DEF ToSet, Lists, n
<1> QED BY <1>11, <1>12, <1>13 DEF s

(* The candidates of a plan are eligible, in order, and all of the distinct ones unless capped. *)
LEMMA PlanCandidates ==
    ASSUME NEW request, RequestOK(request), NEW i \in 1..Len(request.requirements)
    PROVE  LET plan == Plan(request, request.requirements[i])
               E == EligibleCandidates(request, request.requirements[i])
           IN  /\ plan.candidates \in Seq(E)
               /\ Descending(plan.candidates)
               /\ ~ plan.capped => ToSet(plan.candidates) = Collapsed(request, E)
<1> DEFINE E == EligibleCandidates(request, request.requirements[i])
           distinct == Ordered(Collapsed(request, E))
           kept == Capped(request, distinct)
           plan == Plan(request, request.requirements[i])
           m == request.limits.candidates
<1>1. /\ plan.candidates = kept
      /\ plan.capped = (Len(distinct) > m)
  BY DEF Plan
<1>2. Collapsed(request, E) \in SUBSET E
  BY DEF Collapsed
<1>3. distinct \in Seq(E) /\ Descending(distinct) /\ ToSet(distinct) = Collapsed(request, E)
  <2>1. distinct \in Seq(Collapsed(request, E))
    BY <1>2, OrderedLists
  <2>2. distinct \in Seq(E)
    BY <1>2, <2>1
  <2> QED BY <1>2, <2>2, OrderedLists
<1>4. m \in Nat
  BY DEF RequestOK
<1> HIDE DEF distinct, E, plan
<1>5. CASE Len(distinct) > m
  <2>1. kept = SubSeq(distinct, 1, m)
    BY <1>5 DEF Capped
  <2>2. kept \in Seq(E) /\ Len(kept) = m /\ \A j \in 1..m : kept[j] = distinct[j]
    BY <1>3, <1>4, <1>5, <2>1, SubSeqProperties
  <2>3. Descending(kept)
    BY <1>3, <1>4, <1>5, <2>2 DEF Descending
  <2> QED BY <1>1, <1>5, <2>2, <2>3 DEF plan, E
<1>6. CASE ~ (Len(distinct) > m)
  <2>1. kept = distinct
    BY <1>6 DEF Capped
  <2> QED BY <1>1, <1>3, <2>1 DEF plan, E
<1> QED BY <1>5, <1>6

-----------------------------------------------------------------------------
(***************************************************************************)
(* Complete selections and their scores.                                   *)
(***************************************************************************)

(* One eligible candidate for every requirement. *)
Eligible(request) ==
    [i \in 1..Len(request.requirements) |-> EligibleCandidates(request, request.requirements[i])]

(* A selection is as long as the request. *)
LEMMA SelectionLength ==
    ASSUME NEW request, RequestOK(request), NEW s \in AllSelections(Eligible(request))
    PROVE  /\ DOMAIN s = 1..Len(request.requirements)
           /\ Len(s) = Len(request.requirements)
           /\ \A i \in 1..Len(request.requirements) :
                 s[i] \in EligibleCandidates(request, request.requirements[i])
<1> DEFINE n == Len(request.requirements)
           U == UNION {Eligible(request)[i] : i \in DOMAIN Eligible(request)}
<1>1. n \in Nat /\ DOMAIN Eligible(request) = 1..n
  BY DEF RequestOK, Eligible
<1>2. s \in [1..n -> U] /\ \A i \in 1..n : s[i] \in Eligible(request)[i]
  BY <1>1 DEF AllSelections
<1> HIDE DEF U
<1>3. s \in Seq(U)
  BY <1>1, <1>2, SeqDef
<1>4. Len(s) = n
  BY <1>1, <1>2, <1>3, LenProperties
<1> QED BY <1>1, <1>2, <1>4 DEF Eligible

(* What is selected is worth an integer that is not too low. *)
LEMMA SelectedPartial ==
    ASSUME NEW request, RequestOK(request), NEW i \in 1..Len(request.requirements),
           NEW c \in EligibleCandidates(request, request.requirements[i])
    PROVE  /\ c.partial \in Int
           /\ -(5 * MaxWeight * FactorUnit) <= c.partial
           /\ c.resource \in DOMAIN request.resources
           /\ c = Candidate(request, request.requirements[i], c.resource)
<1>1. PICK r \in DOMAIN request.resources : c = Candidate(request, request.requirements[i], r)
  BY DEF EligibleCandidates, Considered
<1> QED BY <1>1, CandidateType

(* Locality lies between 0 and 1. *)
LEMMA LocalityType ==
    ASSUME NEW request, RequestOK(request), NEW s, NEW n \in Nat \ {0},
           DOMAIN s = 1..n, Len(s) = n
    PROVE  Locality(request, s) \in 0..FactorUnit
<1>1. CASE n = 1
  BY <1>1 DEF Locality, FactorUnit
<1>2. CASE n # 1
  <2> DEFINE Share(i) == Cardinality({j \in DOMAIN s : j = i \/ SameDomain(request, s[i], s[j], "Host")})
             shares == {Share(i) : i \in DOMAIN s}
  <2>1. ASSUME NEW i \in 1..n PROVE Share(i) \in Nat /\ Share(i) <= n
    <3> DEFINE near == {j \in DOMAIN s : j = i \/ SameDomain(request, s[i], s[j], "Host")}
    <3>1. IsFiniteSet(1..n) /\ Cardinality(1..n) = n
      BY FS_Interval
    <3>2. near \in SUBSET (1..n)
      OBVIOUS
    <3> HIDE DEF near
    <3> DEFINE all == 1..n
    <3> HIDE DEF all
    <3>3. IsFiniteSet(near) /\ Cardinality(near) <= Cardinality(all)
      <4>1. IsFiniteSet(all) /\ near \in SUBSET all
        BY <3>1, <3>2 DEF all
      <4> QED BY <4>1, FS_Subset
    <3>4. Cardinality(near) \in Nat
      BY <3>3, FS_CardinalityType
    <3>5. Cardinality(near) <= n
      BY <3>1, <3>3 DEF all
    <3> QED BY <3>4, <3>5 DEF near
  <2> HIDE DEF Share
  <2>2. shares \in SUBSET Nat /\ shares # {} /\ \A k \in shares : k <= n
    <3>1. 1 \in 1..n
      OBVIOUS
    <3> QED BY <2>1, <3>1
  <2> HIDE DEF shares
  <2>3. Max(shares) \in Nat
    BY <2>2, NatSetHasGreatest
  <2>4. DominantHostShare(request, s) = Max(shares)
    BY DEF DominantHostShare, shares, Share
  <2> DEFINE d == DominantHostShare(request, s)
  <2>5. d \in Nat
    BY <2>3, <2>4
  <2> HIDE DEF d
  <2>6. n - 1 \in Nat \ {0}
    BY <1>2
  <2>7. ((d - 1) * FactorUnit) \div (n - 1) \in Int
    BY <2>5, <2>6 DEF FactorUnit
  <2>8. Locality(request, s) = ClampUnit(((d - 1) * FactorUnit) \div (n - 1))
    BY <1>2 DEF Locality, d
  <2> QED BY <2>7, <2>8, ClampUnitType
<1> QED BY <1>1, <1>2

(* Domains are counted. *)
LEMMA DomainCountType ==
    ASSUME NEW request, NEW s, NEW n \in Nat, DOMAIN s = 1..n, NEW scope
    PROVE  DomainCount(request, s, scope) \in Int
<1> DEFINE known == KnownAt(request, s, scope)
           places == {Place(request, s[i], scope) : i \in known}
           f == [i \in known |-> Place(request, s[i], scope)]
<1>1. IsFiniteSet(1..n)
  BY FS_Interval
<1>2. known \in SUBSET (1..n)
  BY DEF KnownAt
<1> HIDE DEF known
<1>3. IsFiniteSet(known) /\ IsFiniteSet(1..n \ known)
  BY <1>1, <1>2, FS_Subset
<1>4. f \in Surjection(known, places)
  BY DEF Surjection
<1>5. IsFiniteSet(places)
  BY <1>3, <1>4, FS_Surjection
<1> HIDE DEF places
<1>6. Cardinality(places) \in Nat /\ Cardinality(1..n \ known) \in Nat
  BY <1>3, <1>5, FS_CardinalityType
<1>7. DomainCount(request, s, scope) = Cardinality(places) + Cardinality(1..n \ known)
  BY DEF DomainCount, places, known
<1> QED BY <1>6, <1>7

(* The topology distance lies between 0 and 1. *)
LEMMA TopologyDistanceType ==
    ASSUME NEW request, NEW s, NEW n \in Nat, DOMAIN s = 1..n
    PROVE  TopologyDistance(request, s) \in 0..FactorUnit
<1> DEFINE h == DomainCount(request, s, "Host")
           r == DomainCount(request, s, "Rack")
           c == DomainCount(request, s, "Cluster")
<1>1. h \in Int /\ r \in Int /\ c \in Int
  BY DomainCountType
<1> HIDE DEF h, r, c
<1>2. FactorUnit - (h - 1) * 4 - (r - 1) * 2 - (c - 1) \in Int
  BY <1>1 DEF FactorUnit
<1> QED BY <1>2, ClampUnitType DEF TopologyDistance, h, r, c

(* An average of values up to 1 is at most 1. *)
LEMMA AverageBound ==
    ASSUME NEW d \in Nat \ {0}, NEW x \in Nat, x <= d * FactorUnit
    PROVE  x \div d \in 0..FactorUnit
<1> DEFINE q == x \div d
<1>1. q \in Int /\ d * q <= x /\ x < d * (q + 1)
  OBVIOUS
<1> HIDE DEF q
<1>2. q >= 0
  <2>1. SUFFICES ASSUME q + 1 <= 0 PROVE FALSE
    BY <1>1
  <2>2. d * (q + 1) <= 0
    BY <1>1, <2>1
  <2> QED BY <1>1, <2>2
<1>3. q <= 16
  <2>1. SUFFICES ASSUME q >= 17 PROVE FALSE
    BY <1>1
  <2>2. d * q >= d * 17
    BY <1>1, <2>1
  <2>3. d * 17 <= d * 16
    BY <1>1, <2>2 DEF FactorUnit
  <2> QED BY <2>3
<1> QED BY <1>1, <1>2, <1>3 DEF q, FactorUnit

(* Dataset locality lies between 0 and 1. *)
LEMMA DatasetLocalityType ==
    ASSUME NEW request, NEW s, NEW n \in Nat, DOMAIN s = 1..n
    PROVE  DatasetLocality(request, s) \in 0..FactorUnit
<1> DEFINE datasets == {i \in DOMAIN s : request.requirements[i].class = "Dataset"}
           colocated == {i \in datasets : \E j \in DOMAIN s \ datasets :
                            SameDomain(request, s[j], s[i], "Host")}
           local == {i \in datasets \ colocated : request.resources[s[i].resource].local}
           remote == datasets \ (colocated \cup local)
           x == Cardinality(colocated) * FactorUnit + Cardinality(local) * (FactorUnit \div 2)
                + Cardinality(remote) * (FactorUnit \div 4)
<1>1. DatasetLocality(request, s) =
          IF datasets = {} THEN FactorUnit ELSE x \div Cardinality(datasets)
  BY DEF DatasetLocality
<1>2. IsFiniteSet(datasets)
  <2>1. IsFiniteSet(1..n) /\ datasets \in SUBSET (1..n)
    BY FS_Interval
  <2> QED BY <2>1, FS_Subset
<1>3. /\ colocated \in SUBSET datasets /\ local \in SUBSET datasets
      /\ colocated \cap local = {}
  OBVIOUS
<1> HIDE DEF datasets, colocated, local
<1>4. IsFiniteSet(colocated) /\ IsFiniteSet(local)
  BY <1>2, <1>3, FS_Subset
<1>5. /\ IsFiniteSet(colocated \cup local)
      /\ Cardinality(colocated \cup local) = Cardinality(colocated) + Cardinality(local)
  <2>1. Cardinality(colocated \cap local) = 0
    BY <1>3, FS_EmptySet
  <2>2. /\ IsFiniteSet(colocated \cup local)
        /\ Cardinality(colocated \cup local) =
              Cardinality(colocated) + Cardinality(local) - Cardinality(colocated \cap local)
    BY <1>4, FS_Union
  <2>3. Cardinality(colocated) \in Nat /\ Cardinality(local) \in Nat
    BY <1>4, FS_CardinalityType
  <2> QED BY <2>1, <2>2, <2>3
<1>6. /\ IsFiniteSet(remote)
      /\ Cardinality(remote) = Cardinality(datasets) - Cardinality(colocated \cup local)
  <2>1. datasets \cap (colocated \cup local) = colocated \cup local
    BY <1>3
  <2> DEFINE present == colocated \cup local
  <2> HIDE DEF present
  <2>2. /\ IsFiniteSet(datasets \ present)
        /\ Cardinality(datasets \ present) = Cardinality(datasets) - Cardinality(datasets \cap present)
    BY <1>2, FS_Difference
  <2>3. datasets \cap present = present
    BY <2>1 DEF present
  <2> QED BY <2>2, <2>3 DEF present
<1>7. /\ Cardinality(colocated) \in Nat /\ Cardinality(local) \in Nat /\ Cardinality(remote) \in Nat
      /\ Cardinality(datasets) \in Nat
  BY <1>2, <1>4, <1>6, FS_CardinalityType
<1> HIDE DEF remote
<1>8. x \in Nat /\ x <= Cardinality(datasets) * FactorUnit
  <2>1. FactorUnit \div 2 = 8 /\ FactorUnit \div 4 = 4 /\ FactorUnit = 16
    BY DEF FactorUnit
  <2> DEFINE c == Cardinality(colocated)
             l == Cardinality(local)
             r == Cardinality(remote)
             d == Cardinality(datasets)
  <2>2. x = c * 16 + l * 8 + r * 4 /\ d * FactorUnit = d * 16
    BY <2>1
  <2>3. c \in Nat /\ l \in Nat /\ r \in Nat /\ d \in Nat
    BY <1>7
  <2>4. d = c + l + r
    <3>1. Cardinality(colocated \cup local) = c + l /\ r = d - Cardinality(colocated \cup local)
      BY <1>5, <1>6
    <3> HIDE DEF c, l, r, d
    <3> QED BY <2>3, <3>1
  <2> HIDE DEF c, l, r, d, x
  <2>5. x \in Nat /\ x <= d * 16
    BY <2>2, <2>3, <2>4
  <2> QED BY <2>2, <2>5 DEF d
<1> HIDE DEF x
<1>9. CASE datasets = {}
  BY <1>1, <1>9 DEF FactorUnit
<1>10. CASE datasets # {}
  <2>1. Cardinality(datasets) \in Nat \ {0}
    BY <1>2, <1>7, <1>10, FS_EmptySet
  <2>2. x \div Cardinality(datasets) \in 0..FactorUnit
    BY <1>8, <2>1, AverageBound
  <2> QED BY <1>1, <1>10, <2>2
<1> QED BY <1>9, <1>10

(* The factors of a selection lie between 0 and 1. *)
LEMMA CrossValuesType ==
    ASSUME NEW request, RequestOK(request), NEW s, NEW n \in Nat \ {0},
           DOMAIN s = 1..n, Len(s) = n
    PROVE  LET v == CrossValues(request, s)
           IN  /\ v.Locality \in 0..FactorUnit
               /\ v.DatasetLocality \in 0..FactorUnit
               /\ v.TopologyDistance \in 0..FactorUnit
               /\ v.Fairness \in 0..FactorUnit
               /\ v.Priority \in 0..FactorUnit
<1>1. /\ Locality(request, s) \in 0..FactorUnit
      /\ DatasetLocality(request, s) \in 0..FactorUnit
      /\ TopologyDistance(request, s) \in 0..FactorUnit
  BY LocalityType, DatasetLocalityType, TopologyDistanceType
<1>2. request.fairness \in 0..FactorUnit /\ request.priority \in 0..FactorUnit
  BY DEF RequestOK
<1> QED BY <1>1, <1>2 DEF CrossValues

(* A weighted factor is at most the weight, and nothing if the weight is negative. *)
LEMMA WeightedAtMost ==
    ASSUME NEW v \in 0..FactorUnit, NEW w \in -MaxWeight..MaxWeight
    PROVE  v * w <= (IF w > 0 THEN w ELSE 0) * FactorUnit
<1>1. v \in Int /\ w \in Int /\ 0 <= v /\ v <= 16
  BY DEF FactorUnit, MaxWeight
<1>2. CASE w > 0
  <2>1. v * w <= 16 * w
    BY <1>1, <1>2
  <2> QED BY <1>1, <1>2, <2>1 DEF FactorUnit
<1>3. CASE ~ (w > 0)
  <2>1. v * w <= 0
    BY <1>1, <1>3
  <2> QED BY <1>1, <1>3, <2>1 DEF FactorUnit
<1> QED BY <1>2, <1>3

(* What the factors of a whole selection add, for each requirement. *)
LEMMA WeightedCrossBounds ==
    ASSUME RequestOK(problem), NEW v,
           v.Locality \in 0..FactorUnit, v.DatasetLocality \in 0..FactorUnit,
           v.TopologyDistance \in 0..FactorUnit, v.Fairness \in 0..FactorUnit,
           v.Priority \in 0..FactorUnit
    PROVE  /\ WeightedCross(problem, v) \in Int
           /\ PositiveWeights \in Int
           /\ -(5 * MaxWeight * FactorUnit) <= WeightedCross(problem, v)
           /\ WeightedCross(problem, v) <= PositiveWeights * FactorUnit
<1> DEFINE w == problem.weights
           P(x) == IF x > 0 THEN x ELSE 0
<1>1. /\ w.Locality \in -MaxWeight..MaxWeight /\ w.DatasetLocality \in -MaxWeight..MaxWeight
      /\ w.TopologyDistance \in -MaxWeight..MaxWeight /\ w.Fairness \in -MaxWeight..MaxWeight
      /\ w.Priority \in -MaxWeight..MaxWeight
  BY WeightsType
<1> DEFINE B == -(MaxWeight * FactorUnit)..MaxWeight * FactorUnit
<1>2. /\ v.Locality * w.Locality \in B /\ v.DatasetLocality * w.DatasetLocality \in B
      /\ v.TopologyDistance * w.TopologyDistance \in B /\ v.Fairness * w.Fairness \in B
      /\ v.Priority * w.Priority \in B
  BY <1>1, WeightedBounds
<1>3. /\ v.Locality * w.Locality <= P(w.Locality) * FactorUnit
      /\ v.DatasetLocality * w.DatasetLocality <= P(w.DatasetLocality) * FactorUnit
      /\ v.TopologyDistance * w.TopologyDistance <= P(w.TopologyDistance) * FactorUnit
      /\ v.Fairness * w.Fairness <= P(w.Fairness) * FactorUnit
      /\ v.Priority * w.Priority <= P(w.Priority) * FactorUnit
  BY <1>1, WeightedAtMost
<1>4. /\ P(w.Locality) \in Int /\ P(w.DatasetLocality) \in Int /\ P(w.TopologyDistance) \in Int
      /\ P(w.Fairness) \in Int /\ P(w.Priority) \in Int
  <2>1. \A x \in -MaxWeight..MaxWeight : P(x) \in Int
    BY DEF MaxWeight
  <2> HIDE DEF P
  <2> QED BY <1>1, <2>1
<1>5. PositiveWeights = P(w.Locality) + P(w.DatasetLocality) + P(w.TopologyDistance)
                        + P(w.Fairness) + P(w.Priority)
  BY DEF PositiveWeights
<1>6. WeightedCross(problem, v) =
         v.Locality * w.Locality + v.DatasetLocality * w.DatasetLocality
         + v.TopologyDistance * w.TopologyDistance + v.Fairness * w.Fairness + v.Priority * w.Priority
  BY DEF WeightedCross
<1>7. \A x \in B : x \in Int /\ -16000 <= x
  BY DEF MaxWeight, FactorUnit
<1> HIDE DEF B, P
<1>8. /\ v.Locality * w.Locality \in Int /\ -16000 <= v.Locality * w.Locality
      /\ v.DatasetLocality * w.DatasetLocality \in Int /\ -16000 <= v.DatasetLocality * w.DatasetLocality
      /\ v.TopologyDistance * w.TopologyDistance \in Int
      /\ -16000 <= v.TopologyDistance * w.TopologyDistance
      /\ v.Fairness * w.Fairness \in Int /\ -16000 <= v.Fairness * w.Fairness
      /\ v.Priority * w.Priority \in Int /\ -16000 <= v.Priority * w.Priority
  BY <1>2, <1>7
<1> DEFINE a == v.Locality * w.Locality
           b == v.DatasetLocality * w.DatasetLocality
           c == v.TopologyDistance * w.TopologyDistance
           d == v.Fairness * w.Fairness
           e == v.Priority * w.Priority
           a1 == P(w.Locality)
           b1 == P(w.DatasetLocality)
           c1 == P(w.TopologyDistance)
           d1 == P(w.Fairness)
           e1 == P(w.Priority)
<1>9. /\ a \in Int /\ b \in Int /\ c \in Int /\ d \in Int /\ e \in Int
      /\ a1 \in Int /\ b1 \in Int /\ c1 \in Int /\ d1 \in Int /\ e1 \in Int
      /\ -16000 <= a /\ -16000 <= b /\ -16000 <= c /\ -16000 <= d /\ -16000 <= e
      /\ a <= a1 * 16 /\ b <= b1 * 16 /\ c <= c1 * 16 /\ d <= d1 * 16 /\ e <= e1 * 16
  BY <1>3, <1>4, <1>8 DEF FactorUnit
<1>10. WeightedCross(problem, v) = a + b + c + d + e /\ PositiveWeights = a1 + b1 + c1 + d1 + e1
  BY <1>5, <1>6
<1> HIDE DEF a, b, c, d, e, a1, b1, c1, d1, e1
<1> QED BY <1>9, <1>10 DEF MaxWeight, FactorUnit

(* The worth of the single candidates of a selection. *)
Partials(s) == [i \in DOMAIN s |-> s[i].partial]

(***************************************************************************)
(* A score is above the initial best, and no more than the candidates are  *)
(* worth by themselves and the bound adds.                                 *)
(***************************************************************************)
LEMMA ScoreBounds ==
    ASSUME RequestOK(problem), NEW s \in AllSelections(Eligible(problem))
    PROVE  /\ Partials(s) \in [1..Requirements -> Int]
           /\ Score(problem, s) \in Int
           /\ NoScore < Score(problem, s)
           /\ CrossBound \in Int
           /\ Score(problem, s) <= Total(Partials(s)) + CrossBound
<1> DEFINE n == Requirements
           t == Partials(s)
           x == WeightedCross(problem, CrossValues(problem, s))
           low == -(5 * MaxWeight * FactorUnit)
<1>1. n \in Nat \ {0} /\ n * 10 * MaxWeight * FactorUnit < -NoScore
  BY DEF RequestOK, Requirements
<1>2. /\ DOMAIN s = 1..n /\ Len(s) = n
      /\ \A i \in 1..n : s[i] \in EligibleCandidates(problem, problem.requirements[i])
  BY SelectionLength DEF Requirements
<1>3. \A i \in 1..n : s[i].partial \in Int /\ low <= s[i].partial
  BY <1>2, SelectedPartial DEF Requirements
<1>4. t \in [1..n -> Int] /\ \A i \in 1..n : low <= t[i]
  BY <1>2, <1>3 DEF Partials
<1>5. /\ x \in Int /\ PositiveWeights \in Int
      /\ low <= x /\ x <= PositiveWeights * FactorUnit
  <2>1. LET v == CrossValues(problem, s)
        IN  /\ v.Locality \in 0..FactorUnit
            /\ v.DatasetLocality \in 0..FactorUnit
            /\ v.TopologyDistance \in 0..FactorUnit
            /\ v.Fairness \in 0..FactorUnit
            /\ v.Priority \in 0..FactorUnit
    BY <1>1, <1>2, CrossValuesType
  <2> QED BY <2>1, WeightedCrossBounds
<1>6. Score(problem, s) = Total(t) + n * x
  BY <1>2 DEF Score, Partials
<1>7. CrossBound = n * PositiveWeights * FactorUnit
  BY DEF CrossBound
<1> HIDE DEF n, t, x
<1>8. Total(t) \in Int
  BY <1>1, <1>4, TotalType
<1>9. n * low <= Total(t)
  <2> DEFINE floor == [i \in 1..n |-> low]
  <2>1. low \in Int
    BY DEF MaxWeight, FactorUnit
  <2>2. floor \in [1..n -> Int] /\ \A i \in 1..n : floor[i] <= t[i]
    BY <1>4, <2>1
  <2>3. Total(floor) = n * low
    BY <1>1, <2>1, TotalConstant
  <2>4. Total(floor) <= Total(t)
    <3> HIDE DEF floor
    <3> QED BY <1>1, <1>4, <2>2, TotalMonotone
  <2> QED BY <2>3, <2>4
<1>10. n * low <= n * x /\ n * x \in Int
  <2>1. low = -80000
    BY DEF MaxWeight, FactorUnit
  <2>2. n \in Nat /\ x \in Int /\ -80000 <= x
    BY <1>1, <1>5, <2>1
  <2>3. n * (-80000) <= n * x /\ n * x \in Int
    BY <2>2
  <2> QED BY <2>1, <2>3
<1>11. n * x <= n * PositiveWeights * FactorUnit /\ n * PositiveWeights * FactorUnit \in Int
  <2> DEFINE y == PositiveWeights
  <2>1. n \in Nat /\ x \in Int /\ y \in Int /\ x <= y * 16
    BY <1>1, <1>5 DEF FactorUnit
  <2> HIDE DEF y
  <2>2. n * x <= n * (y * 16) /\ n * (y * 16) \in Int
    BY <2>1
  <2>3. n * y * 16 = n * (y * 16)
    BY <2>1
  <2> QED BY <2>2, <2>3 DEF y, FactorUnit
<1>12. Score(problem, s) \in Int
  BY <1>6, <1>8, <1>10
<1>13. NoScore < Score(problem, s)
  <2>1. n * 160000 < 100000000 /\ low = -80000
    BY <1>1 DEF MaxWeight, FactorUnit, NoScore
  <2> QED BY <1>1, <1>6, <1>8, <1>9, <1>10, <2>1 DEF NoScore
<1>14. CrossBound \in Int /\ Score(problem, s) <= Total(t) + CrossBound
  BY <1>6, <1>7, <1>8, <1>10, <1>11
<1> QED BY <1>4, <1>12, <1>13, <1>14 DEF n, t

-----------------------------------------------------------------------------
(***************************************************************************)
(* The order of the rankings.                                              *)
(***************************************************************************)
LessThan == {p \in Int \X Int : p[1] < p[2]}

(* The integers are strictly ordered. *)
LEMMA LessThanOrders == StrictlyOrders(LessThan, Int)
<1>1. \A a, b \in Int : <<a, b>> \in LessThan <=> a < b
  BY DEF LessThan
<1> QED BY <1>1 DEF StrictlyOrders

(* The identities of a selection without repetition. *)
Identities(s) == {s[i].resource : i \in DOMAIN s}

(* The key that breaks ties lists the identities in ascending order. *)
LEMMA KeyType ==
    ASSUME RequestOK(problem), NEW s \in AllSelections(Eligible(problem)), ~ Repeats(s)
    PROVE  /\ CanonicalResourceKey(s) \in [1..Requirements -> Int]
           /\ Cardinality(Identities(s)) = Requirements
           /\ Lists(CanonicalResourceKey(s), Identities(s), LessThan)
<1> DEFINE n == Requirements
           ids == Identities(s)
           f == [i \in 1..n |-> s[i].resource]
           key == CanonicalResourceKey(s)
<1>1. n \in Nat
  BY DEF RequestOK, Requirements
<1>2. DOMAIN s = 1..n /\ \A i \in 1..n : s[i].resource \in DOMAIN problem.resources
  BY SelectionLength, SelectedPartial DEF Requirements
<1>3. ids \in SUBSET Int
  BY <1>2 DEF RequestOK, Identities
<1>4. IsFiniteSet(1..n) /\ Cardinality(1..n) = n
  BY <1>1, FS_Interval
<1>5. f \in Surjection(1..n, ids)
  BY <1>2 DEF Surjection, Identities
<1>6. f \in Injection(1..n, ids)
  <2>1. ASSUME NEW i \in 1..n, NEW j \in 1..n, i # j PROVE f[i] # f[j]
    <3>1. i < j \/ j < i
      BY <1>1, <2>1
    <3>2. s[i].resource # s[j].resource
      BY <1>2, <3>1 DEF Repeats
    <3> QED BY <3>2
  <2>2. f \in [1..n -> ids]
    BY <1>5 DEF Surjection
  <2> HIDE DEF f
  <2> QED BY <2>1, <2>2 DEF Injection, IsInjective
<1> HIDE DEF f, ids
<1>7. IsFiniteSet(ids)
  BY <1>4, <1>5, FS_Surjection
<1>8. Cardinality(ids) = n
  BY <1>4, <1>5, <1>6, FS_Surjection
<1>9. \E t : Lists(t, ids, LessThan)
  BY <1>3, <1>7, LessThanOrders, ListExists
<1>10. \A a, b \in ids : <<a, b>> \in LessThan <=> a < b
  BY <1>3 DEF LessThan
<1>11. \E t \in [1..Cardinality(ids) -> ids] : \A i, j \in DOMAIN t : i < j => t[i] < t[j]
  BY <1>9, <1>10 DEF Lists
<1>12. key \in [1..Cardinality(ids) -> ids] /\ \A i, j \in DOMAIN key : i < j => key[i] < key[j]
  BY <1>11 DEF CanonicalResourceKey, ids, Identities
<1> HIDE DEF key
<1>13. \A i, j \in 1..Cardinality(ids) : i < j => <<key[i], key[j]>> \in LessThan
  BY <1>10, <1>12
<1>14. Lists(key, ids, LessThan)
  BY <1>3, <1>7, <1>12, <1>13, LessThanOrders, InOrderListsAll
<1>15. key \in [1..n -> Int]
  BY <1>3, <1>8, <1>12
<1> QED BY <1>8, <1>14, <1>15 DEF key, ids

(* What the search ranks: a score and a key as long as the request. *)
IsRanking(c, n) == c.raw \in Int /\ c.tie \in [1..n -> Int]

(* Nothing precedes what it is preceded by. *)
LEMMA PrecedesAsymmetric ==
    ASSUME NEW n \in Nat, NEW x \in [1..n -> Int], NEW y \in [1..n -> Int], Precedes(x, y)
    PROVE  ~ Precedes(y, x)
<1>1. PICK i \in 1..n : x[i] < y[i] /\ \A j \in 1..i - 1 : x[j] = y[j]
  BY DEF Precedes
<1>2. SUFFICES ASSUME NEW k \in 1..n, y[k] < x[k], \A j \in 1..k - 1 : y[j] = x[j]
               PROVE  FALSE
  BY DEF Precedes
<1>3. CASE k < i
  <2>1. k \in 1..i - 1
    BY <1>3
  <2> QED BY <1>1, <1>2, <2>1
<1>4. CASE i < k
  <2>1. i \in 1..k - 1
    BY <1>4
  <2> QED BY <1>1, <1>2, <2>1
<1>5. CASE i = k
  <2>1. x[i] \in Int /\ y[i] \in Int
    OBVIOUS
  <2> QED BY <1>1, <1>2, <1>5, <2>1
<1> QED BY <1>3, <1>4, <1>5

(* Of three keys, the one in the middle is on one side of the other two. *)
LEMMA PrecedesWeak ==
    ASSUME NEW n \in Nat, NEW x \in [1..n -> Int], NEW y \in [1..n -> Int],
           NEW z \in [1..n -> Int], Precedes(x, z)
    PROVE  Precedes(x, y) \/ Precedes(y, z)
<1>1. PICK i \in 1..n : x[i] < z[i] /\ \A j \in 1..i - 1 : x[j] = z[j]
  BY DEF Precedes
<1> DEFINE D == {k \in 1..n : x[k] # y[k]}
<1>2. CASE D = {}
  <2>1. \A j \in 1..n : y[j] = x[j]
    BY <1>2
  <2>2. \A j \in 1..i - 1 : j \in 1..n
    OBVIOUS
  <2> QED BY <1>1, <2>1, <2>2 DEF Precedes
<1>3. CASE D # {}
  <2>0. D \in SUBSET Nat
    OBVIOUS
  <2>1. PICK k \in D : \A j \in D : k <= j
    <3> HIDE DEF D
    <3> QED BY <1>3, <2>0, NatSetHasLeast
  <2>2. k \in 1..n /\ x[k] # y[k] /\ x[k] \in Int /\ y[k] \in Int /\ z[k] \in Int
    BY <2>1
  <2>3. \A j \in 1..k - 1 : x[j] = y[j]
    <3> TAKE j \in 1..k - 1
    <3>1. j \in 1..n /\ ~ (k <= j)
      BY <2>2
    <3> QED BY <2>1, <3>1
  <2>4. CASE x[k] < y[k]
    BY <2>2, <2>3, <2>4 DEF Precedes
  <2>5. CASE y[k] < x[k]
    <3>1. CASE k < i
      <4>1. k \in 1..i - 1 /\ \A j \in 1..k - 1 : j \in 1..i - 1
        BY <2>2, <3>1
      <4>2. y[k] < z[k] /\ \A j \in 1..k - 1 : y[j] = z[j]
        BY <1>1, <2>3, <2>5, <4>1
      <4> QED BY <2>2, <4>2 DEF Precedes
    <3>2. CASE k = i
      <4>1. y[k] < z[k]
        BY <1>1, <2>2, <2>5, <3>2
      <4>2. \A j \in 1..k - 1 : y[j] = z[j]
        BY <1>1, <2>3, <3>2
      <4> QED BY <2>2, <4>1, <4>2 DEF Precedes
    <3>3. CASE i < k
      <4>1. i \in 1..k - 1 /\ \A j \in 1..i - 1 : j \in 1..k - 1
        BY <2>2, <3>3
      <4>2. y[i] < z[i] /\ \A j \in 1..i - 1 : y[j] = z[j]
        BY <1>1, <2>3, <4>1
      <4> QED BY <4>2 DEF Precedes
    <3> QED BY <2>2, <3>1, <3>2, <3>3
  <2> QED BY <2>2, <2>4, <2>5
<1> QED BY <1>2, <1>3

(* No ranking is better than one that is better than it. *)
LEMMA BetterAsymmetric ==
    ASSUME NEW n \in Nat, NEW a, NEW b, IsRanking(a, n), IsRanking(b, n),
           CandidateIsBetter(a, b)
    PROVE  ~ CandidateIsBetter(b, a)
<1>1. a.raw \in Int /\ b.raw \in Int /\ a.tie \in [1..n -> Int] /\ b.tie \in [1..n -> Int]
  BY DEF IsRanking
<1>2. ~ (a.raw > b.raw /\ b.raw >= a.raw)
  BY <1>1
<1>3. CASE a.raw > b.raw
  BY <1>1, <1>3 DEF CandidateIsBetter
<1>4. CASE a.raw = b.raw /\ Precedes(a.tie, b.tie)
  <2>1. ~ Precedes(b.tie, a.tie)
    BY <1>1, <1>4, PrecedesAsymmetric
  <2> QED BY <1>1, <1>4, <2>1 DEF CandidateIsBetter
<1> QED BY <1>3, <1>4 DEF CandidateIsBetter

(* What is not better than something that is not better than c is not better than c. *)
LEMMA NotBetterTransitive ==
    ASSUME NEW n \in Nat, NEW a, NEW b, NEW c,
           IsRanking(a, n), IsRanking(b, n), IsRanking(c, n),
           ~ CandidateIsBetter(a, b), ~ CandidateIsBetter(b, c)
    PROVE  ~ CandidateIsBetter(a, c)
<1>1. /\ a.raw \in Int /\ b.raw \in Int /\ c.raw \in Int
      /\ a.tie \in [1..n -> Int] /\ b.tie \in [1..n -> Int] /\ c.tie \in [1..n -> Int]
  BY DEF IsRanking
<1>2. a.raw <= b.raw /\ b.raw <= c.raw
  BY <1>1 DEF CandidateIsBetter
<1>3. SUFFICES ASSUME a.raw = c.raw, Precedes(a.tie, c.tie) PROVE FALSE
  BY <1>1, <1>2 DEF CandidateIsBetter
<1>4. a.raw = b.raw /\ b.raw = c.raw
  BY <1>1, <1>2, <1>3
<1>5. Precedes(a.tie, b.tie) \/ Precedes(b.tie, c.tie)
  BY <1>1, <1>3, PrecedesWeak
<1> QED BY <1>4, <1>5 DEF CandidateIsBetter

-----------------------------------------------------------------------------
(***************************************************************************)
(* The ranking keeps a bounded number of selections, and the best.         *)
(***************************************************************************)
IsWorst(i, q) ==
    /\ i \in DOMAIN q
    /\ \A j \in DOMAIN q : ~ CandidateIsBetter(q[i], q[j])
    /\ \A j \in 1..i - 1 : CandidateIsBetter(q[j], q[i])

Worst(q) ==
    CHOOSE i \in DOMAIN q :
        /\ \A j \in DOMAIN q : ~ CandidateIsBetter(q[i], q[j])
        /\ \A j \in 1..i - 1 : CandidateIsBetter(q[j], q[i])

(* The ranking q after one more selection. *)
Kept(q, c, limit) ==
    IF Len(q) < limit THEN Append(q, c)
    ELSE IF CandidateIsBetter(c, q[Worst(q)]) THEN ReplaceAt(q, Worst(q), c)
    ELSE q

(* Something in the ranking is at least as good. *)
SettledBy(c, q) == \E i \in DOMAIN q : ~ CandidateIsBetter(c, q[i])

(* best is the highest score in the ranking. *)
HighestIn(best, q) ==
    /\ \A i \in DOMAIN q : q[i].raw <= best
    /\ q # <<>> => \E i \in DOMAIN q : q[i].raw = best

(* A ranking that is not empty has a worst place. *)
LEMMA WorstExists ==
    ASSUME NEW n \in Nat, NEW V, \A c \in V : IsRanking(c, n), NEW q \in Seq(V), q # <<>>
    PROVE  IsWorst(Worst(q), q)
<1> DEFINE L == Len(q)
           Bottom(i, m) == i \in 1..m /\ \A j \in 1..m : ~ CandidateIsBetter(q[i], q[j])
<1>1. L \in Nat \ {0} /\ DOMAIN q = 1..L /\ \A i \in 1..L : q[i] \in V
  BY EmptySeq, LenProperties, ElementOfSeq
<1>2. \A i \in 1..L : IsRanking(q[i], n)
  BY <1>1
<1> HIDE DEF L
<1> DEFINE Good == {m \in Nat : m = 0 \/ m > L \/ \E i : Bottom(i, m)}
<1>3. Good = Nat
  <2>1. 0 \in Good
    OBVIOUS
  <2>2. ASSUME NEW m \in Good PROVE m + 1 \in Good
    <3>0. m \in Nat
      OBVIOUS
    <3>1. SUFFICES ASSUME m + 1 <= L PROVE \E i : Bottom(i, m + 1)
      BY <1>1, <3>0
    <3>2. \A j \in 1..m + 1 : j \in 1..m \/ j = m + 1
      BY <3>0
    <3>3. \A j \in 1..m + 1 : j \in 1..L
      BY <1>1, <3>0, <3>1
    <3>4. ~ CandidateIsBetter(q[m + 1], q[m + 1])
      <4>1. m + 1 \in 1..L
        BY <1>1, <3>0, <3>1
      <4> QED BY <1>2, <4>1, BetterAsymmetric
    <3>5. CASE m = 0
      <4>1. Bottom(m + 1, m + 1)
        BY <3>0, <3>2, <3>4, <3>5
      <4> QED BY <4>1
    <3>6. CASE m # 0
      <4>1. PICK i : Bottom(i, m)
        BY <1>1, <3>0, <3>1, <3>6
      <4>2. i \in 1..m + 1 /\ i \in 1..L /\ m + 1 \in 1..L /\ m + 1 \in 1..m + 1
        BY <1>1, <3>0, <3>1, <4>1
      <4>3. CASE CandidateIsBetter(q[i], q[m + 1])
        <5>1. ~ CandidateIsBetter(q[m + 1], q[i])
          BY <1>2, <4>2, <4>3, BetterAsymmetric
        <5>2. ASSUME NEW j \in 1..m PROVE ~ CandidateIsBetter(q[m + 1], q[j])
          <6>1. ~ CandidateIsBetter(q[i], q[j]) /\ j \in 1..L
            BY <3>0, <3>3, <4>1
          <6> QED BY <1>2, <4>2, <5>1, <6>1, NotBetterTransitive
        <5>3. Bottom(m + 1, m + 1)
          BY <3>2, <3>4, <4>2, <5>2
        <5> QED BY <5>3
      <4>4. CASE ~ CandidateIsBetter(q[i], q[m + 1])
        <5>1. Bottom(i, m + 1)
          BY <3>2, <4>1, <4>2, <4>4
        <5> QED BY <5>1
      <4> QED BY <4>3, <4>4
    <3> QED BY <3>5, <3>6
  <2> HIDE DEF Good
  <2> QED BY <2>1, <2>2, NatSetInduction DEF Good
<1>4. \E i : Bottom(i, L)
  BY <1>1, <1>3
<1> DEFINE Lowest == {i \in Nat : Bottom(i, L)}
<1>5. PICK i \in Lowest : \A k \in Lowest : i <= k
  <2>1. Lowest \in SUBSET Nat /\ Lowest # {}
    BY <1>1, <1>4
  <2> HIDE DEF Lowest
  <2> QED BY <2>1, NatSetHasLeast
<1>6. ASSUME NEW j \in 1..i - 1 PROVE CandidateIsBetter(q[j], q[i])
  <2>1. i \in 1..L /\ j \in 1..L /\ j \in Nat /\ ~ (i <= j)
    BY <1>1, <1>5
  <2>2. PICK k \in 1..L : CandidateIsBetter(q[j], q[k])
    BY <1>5, <2>1
  <2>3. ~ CandidateIsBetter(q[i], q[k])
    BY <1>5, <2>2
  <2> QED BY <1>2, <2>1, <2>2, <2>3, NotBetterTransitive
<1>7. IsWorst(i, q)
  BY <1>1, <1>5, <1>6 DEF IsWorst
<1>8. \E x \in DOMAIN q :
        /\ \A j \in DOMAIN q : ~ CandidateIsBetter(q[x], q[j])
        /\ \A j \in 1..x - 1 : CandidateIsBetter(q[j], q[x])
  BY <1>7 DEF IsWorst
<1> QED BY <1>8 DEF Worst, IsWorst

(***************************************************************************)
(* Ranking one more selection c keeps what was settled settled, settles c, *)
(* and keeps the highest score.                                            *)
(***************************************************************************)
LEMMA KeptProperties ==
    ASSUME NEW n \in Nat, NEW V, \A x \in V : IsRanking(x, n),
           NEW q \in Seq(V), NEW c \in V, NEW limit \in Nat \ {0}, Len(q) <= limit
    PROVE  /\ Kept(q, c, limit) \in Seq(V)
           /\ Kept(q, c, limit) # <<>>
           /\ Len(Kept(q, c, limit)) <= limit
           /\ SettledBy(c, Kept(q, c, limit))
           /\ \A x \in V : SettledBy(x, q) => SettledBy(x, Kept(q, c, limit))
           /\ \A best \in Int :
                 HighestIn(best, q) /\ (q = <<>> => best < c.raw) =>
                     HighestIn(IF c.raw > best THEN c.raw ELSE best, Kept(q, c, limit))
<1> DEFINE L == Len(q)
           r == Kept(q, c, limit)
           w == Worst(q)
<1>1. L \in Nat /\ DOMAIN q = 1..L /\ \A i \in 1..L : q[i] \in V
  BY LenProperties, ElementOfSeq
<1>2. \A i \in 1..L : IsRanking(q[i], n) /\ q[i].raw \in Int
  BY <1>1 DEF IsRanking
<1>3. IsRanking(c, n) /\ c.raw \in Int /\ ~ CandidateIsBetter(c, c)
  <2>1. IsRanking(c, n)
    OBVIOUS
  <2> QED BY <2>1, BetterAsymmetric DEF IsRanking
<1>4. CASE L < limit
  <2>1. r = Append(q, c)
    BY <1>4 DEF Kept
  <2>2. /\ r \in Seq(V) /\ Len(r) = L + 1 /\ DOMAIN r = 1..L + 1 /\ r[L + 1] = c
        /\ \A i \in 1..L : r[i] = q[i]
    <3>1. /\ r \in Seq(V) /\ Len(r) = L + 1 /\ r[L + 1] = c
          /\ \A i \in 1..L : r[i] = q[i]
      BY <2>1, AppendProperties
    <3> HIDE DEF r, L
    <3>2. DOMAIN r = 1..L + 1
      BY <3>1, LenProperties
    <3> QED BY <3>1, <3>2
  <2> HIDE DEF r, L
  <2>3. r # <<>> /\ Len(r) <= limit
    BY <1>1, <1>4, <2>2
  <2>4. L + 1 \in 1..L + 1 /\ \A i \in 1..L : i \in 1..L + 1
    BY <1>1
  <2>5. \A i \in 1..L + 1 : i \in 1..L \/ i = L + 1
    BY <1>1
  <2>6. SettledBy(c, r)
    BY <1>3, <2>2, <2>4 DEF SettledBy
  <2>7. \A x \in V : SettledBy(x, q) => SettledBy(x, r)
    BY <1>1, <2>2, <2>4 DEF SettledBy
  <2>8. ASSUME NEW best \in Int, HighestIn(best, q), q = <<>> => best < c.raw
        PROVE  HighestIn(IF c.raw > best THEN c.raw ELSE best, r)
    <3>1. \A i \in 1..L : q[i].raw <= best
      BY <1>1, <2>8 DEF HighestIn
    <3>2. CASE c.raw > best
      <4>1. \A i \in 1..L + 1 : r[i].raw <= c.raw
        BY <1>2, <1>3, <2>2, <2>5, <3>1, <3>2
      <4> QED BY <2>2, <2>4, <3>2, <4>1 DEF HighestIn
    <3>3. CASE ~ (c.raw > best)
      <4>1. c.raw <= best
        BY <1>3, <3>3
      <4>2. \A i \in 1..L + 1 : r[i].raw <= best
        BY <2>2, <2>5, <3>1, <4>1
      <4>3. \E i \in 1..L : q[i].raw = best
        BY <1>1, <1>3, <2>8, <4>1 DEF HighestIn
      <4>4. \E i \in 1..L + 1 : r[i].raw = best
        BY <2>2, <2>4, <4>3
      <4> QED BY <2>2, <3>3, <4>2, <4>4 DEF HighestIn
    <3> QED BY <3>2, <3>3
  <2> QED BY <2>2, <2>3, <2>6, <2>7, <2>8 DEF r
<1>5. CASE ~ (L < limit)
  <2>1. L = limit /\ q # <<>>
    <3>1. L <= limit /\ limit \in Nat /\ limit # 0
      OBVIOUS
    <3>2. q = <<>> => L = 0
      BY EmptySeq
    <3> HIDE DEF L
    <3> QED BY <1>1, <1>5, <3>1, <3>2
  <2>2. IsWorst(w, q)
    BY <2>1, WorstExists
  <2>3. w \in 1..L /\ \A j \in 1..L : ~ CandidateIsBetter(q[w], q[j])
    BY <1>1, <2>2 DEF IsWorst
  <2> HIDE DEF w
  <2>4. CASE CandidateIsBetter(c, q[w])
    <3>1. r = [q EXCEPT ![w] = c]
      BY <1>5, <2>4 DEF Kept, ReplaceAt, w
    <3>2. /\ r \in Seq(V) /\ Len(r) = L /\ DOMAIN r = 1..L /\ r[w] = c
          /\ \A i \in 1..L : i # w => r[i] = q[i]
      <4>1. r \in Seq(V) /\ Len(r) = L
        BY <2>3, <3>1, ExceptSeq
      <4> QED BY <1>1, <2>3, <3>1, <4>1
    <3> HIDE DEF r, L
    <3>3. r # <<>> /\ Len(r) <= limit
      <4>1. Len(r) # 0
        BY <2>1, <3>2
      <4> QED BY <2>1, <3>2, <4>1, EmptySeq
    <3>4. SettledBy(c, r)
      BY <1>3, <2>3, <3>2 DEF SettledBy
    <3>5. ASSUME NEW x \in V, SettledBy(x, q) PROVE SettledBy(x, r)
      <4>1. PICK i \in 1..L : ~ CandidateIsBetter(x, q[i])
        BY <1>1, <3>5 DEF SettledBy
      <4>2. CASE i = w
        <5>1. ~ CandidateIsBetter(q[w], c)
          BY <1>2, <1>3, <2>3, <2>4, BetterAsymmetric
        <5>2. ~ CandidateIsBetter(x, c)
          BY <1>2, <1>3, <2>3, <4>1, <4>2, <5>1, NotBetterTransitive
        <5> QED BY <2>3, <3>2, <5>2 DEF SettledBy
      <4>3. CASE i # w
        BY <3>2, <4>1, <4>3 DEF SettledBy
      <4> QED BY <4>2, <4>3
    <3>6. ASSUME NEW best \in Int, HighestIn(best, q)
          PROVE  HighestIn(IF c.raw > best THEN c.raw ELSE best, r)
      <4>1. \A i \in 1..L : q[i].raw <= best
        BY <1>1, <3>6 DEF HighestIn
      <4>2. CASE c.raw > best
        <5>1. \A i \in 1..L : r[i].raw <= c.raw
          BY <1>2, <1>3, <3>2, <4>1, <4>2
        <5> QED BY <2>3, <3>2, <4>2, <5>1 DEF HighestIn
      <4>3. CASE ~ (c.raw > best)
        <5>1. c.raw <= best
          BY <1>3, <4>3
        <5>2. \A i \in 1..L : r[i].raw <= best
          BY <3>2, <4>1, <5>1
        <5>3. PICK i \in 1..L : q[i].raw = best
          BY <1>1, <2>1, <3>6 DEF HighestIn
        <5>4. \E j \in 1..L : r[j].raw = best
          <6>1. CASE i = w
            <7>1. c.raw >= q[w].raw
              BY <1>2, <1>3, <2>3, <2>4 DEF CandidateIsBetter
            <7>2. c.raw = best
              BY <1>3, <5>1, <5>3, <6>1, <7>1
            <7> QED BY <2>3, <3>2, <7>2
          <6>2. CASE i # w
            BY <3>2, <5>3, <6>2
          <6> QED BY <6>1, <6>2
        <5> QED BY <3>2, <4>3, <5>2, <5>4 DEF HighestIn
      <4> QED BY <4>2, <4>3
    <3> QED BY <3>2, <3>3, <3>4, <3>5, <3>6 DEF r
  <2>5. CASE ~ CandidateIsBetter(c, q[w])
    <3>1. r = q
      BY <1>5, <2>5 DEF Kept, w
    <3>2. SettledBy(c, q)
      BY <1>1, <2>3, <2>5 DEF SettledBy
    <3>3. ASSUME NEW best \in Int, HighestIn(best, q)
          PROVE  HighestIn(IF c.raw > best THEN c.raw ELSE best, q)
      <4>1. c.raw <= q[w].raw
        BY <1>2, <1>3, <2>3, <2>5 DEF CandidateIsBetter
      <4>2. q[w].raw <= best /\ q[w].raw \in Int
        BY <1>1, <1>2, <2>3, <3>3 DEF HighestIn
      <4>3. ~ (c.raw > best)
        BY <1>3, <4>1, <4>2
      <4> QED BY <3>3, <4>3
    <3> QED BY <2>1, <3>1, <3>2, <3>3
  <2> QED BY <2>4, <2>5
<1> QED BY <1>4, <1>5

-----------------------------------------------------------------------------
(***************************************************************************)
(* Walks.  A walk takes one candidate of every plan, by its place; the     *)
(* search visits walks in lexicographic order.                             *)
(***************************************************************************)
Walks(p, ps) ==
    {f \in [1..Len(p.requirements) -> Nat] :
        \A i \in 1..Len(p.requirements) : f[i] \in DOMAIN ps[i].candidates}

(* Nothing is behind a search that has not begun. *)
LEMMA NothingBehind ==
    ASSUME NEW n \in Nat, NEW f \in [1..n -> Nat]
    PROVE  ~ Behind(f, <<>>, 0)
<1>1. DOMAIN << >> = {} /\ Len(<<>>) = 0
  BY EmptySeq
<1>2. \A i \in DOMAIN f : ~ (f[i] < 0)
  OBVIOUS
<1> QED BY <1>1, <1>2 DEF Behind

(* Opening a node leaves nothing behind: places count from one. *)
LEMMA OpenLeavesNothing ==
    ASSUME NEW f, NEW pth \in Seq(Nat), \A i \in DOMAIN f : f[i] \in Nat \ {0}, Behind(f, pth, 1)
    PROVE  Behind(f, pth, 0)
<1>1. ~ (Len(pth) + 1 \in DOMAIN f /\ f[Len(pth) + 1] < 1)
  OBVIOUS
<1> QED BY <1>1 DEF Behind

(* Taking a candidate leaves nothing behind either. *)
LEMMA TakeLeavesNothing ==
    ASSUME NEW n \in Nat, NEW f \in [1..n -> Nat], NEW pth \in Seq(Nat), NEW cur \in Nat,
           Len(pth) < n, Behind(f, Append(pth, cur), 0)
    PROVE  Behind(f, pth, cur)
<1> DEFINE m == Len(pth)
           new == Append(pth, cur)
<1>1. m \in Nat /\ DOMAIN pth = 1..m
  BY LenProperties
<1>2. /\ new \in Seq(Nat) /\ Len(new) = m + 1 /\ new[m + 1] = cur
      /\ \A i \in 1..m : new[i] = pth[i]
  BY AppendProperties
<1> HIDE DEF new, m
<1>3. DOMAIN new = 1..m + 1
  BY <1>2, LenProperties
<1>4. ~ (Len(new) + 1 \in DOMAIN f /\ f[Len(new) + 1] < 0)
  OBVIOUS
<1>5. PICK d \in 1..m + 1 : f[d] < new[d] /\ \A j \in 1..d - 1 : f[j] = new[j]
  BY <1>3, <1>4 DEF Behind, new
<1>6. CASE d = m + 1
  <2>1. \A j \in 1..m : f[j] = pth[j]
    BY <1>1, <1>2, <1>5, <1>6
  <2>2. m + 1 \in DOMAIN f
    BY <1>1 DEF m
  <2> QED BY <1>1, <1>2, <1>5, <1>6, <2>1, <2>2 DEF Behind, Follows, m
<1>7. CASE d # m + 1
  <2>1. d \in 1..m /\ \A j \in 1..d - 1 : j \in 1..m
    BY <1>1, <1>7
  <2>2. f[d] < pth[d] /\ \A j \in 1..d - 1 : f[j] = pth[j]
    BY <1>2, <1>5, <2>1
  <2> QED BY <1>1, <2>1, <2>2 DEF Behind
<1> QED BY <1>6, <1>7

(* The node above a path. *)
LEMMA FrontFacts ==
    ASSUME NEW pth \in Seq(Nat), pth # <<>>
    PROVE  /\ Len(pth) \in Nat \ {0}
           /\ DOMAIN pth = 1..Len(pth)
           /\ \A i \in 1..Len(pth) : pth[i] \in Nat
           /\ Front(pth) \in Seq(Nat)
           /\ Len(Front(pth)) = Len(pth) - 1
           /\ DOMAIN Front(pth) = 1..Len(pth) - 1
           /\ \A i \in 1..Len(pth) - 1 : Front(pth)[i] = pth[i]
           /\ Last(pth) = pth[Len(pth)]
<1> DEFINE m == Len(pth)
           front == Front(pth)
<1>1. m \in Nat \ {0} /\ DOMAIN pth = 1..m /\ \A i \in 1..m : pth[i] \in Nat
  BY EmptySeq, LenProperties, ElementOfSeq
<1>2. Last(pth) = pth[m]
  BY DEF Last
<1> DEFINE k == m - 1
<1>3. k \in Int /\ \A i \in 1..k : pth[i] \in Nat
  BY <1>1
<1>4. front = SubSeq(pth, 1, k)
  BY DEF Front
<1>5. /\ SubSeq(pth, 1, k) \in Seq(Nat)
      /\ Len(SubSeq(pth, 1, k)) = IF 1 <= k THEN k - 1 + 1 ELSE 0
      /\ \A i \in 1..k - 1 + 1 : SubSeq(pth, 1, k)[i] = pth[1 + i - 1]
  <2> HIDE DEF k
  <2> QED BY <1>3, SubSeqProperties
<1>6. Len(front) = k
  BY <1>1, <1>4, <1>5
<1>7. DOMAIN front = 1..k
  BY <1>4, <1>5, <1>6, LenProperties
<1>8. \A i \in 1..k : front[i] = pth[i]
  BY <1>1, <1>4, <1>5
<1> QED BY <1>1, <1>2, <1>4, <1>5, <1>6, <1>7, <1>8

(* Going back to the node above leaves behind only what is below the path. *)
LEMMA ReturnLeavesThePath ==
    ASSUME NEW n \in Nat, NEW f \in [1..n -> Nat], NEW pth \in Seq(Nat), pth # <<>>,
           NEW cur, Behind(f, Front(pth), Last(pth) + 1)
    PROVE  Behind(f, pth, cur) \/ Follows(f, pth)
<1> DEFINE m == Len(pth)
           front == Front(pth)
<1>1. m \in Nat \ {0} /\ DOMAIN pth = 1..m /\ \A i \in 1..m : pth[i] \in Nat
  BY FrontFacts
<1>2. Last(pth) = pth[m] /\ m \in 1..m
  BY <1>1, FrontFacts
<1>3. /\ Len(front) = m - 1 /\ DOMAIN front = 1..m - 1
      /\ \A i \in 1..m - 1 : front[i] = pth[i]
  BY FrontFacts
<1> HIDE DEF front, m
<1>4. CASE \E d \in DOMAIN front : f[d] < front[d] /\ \A j \in 1..d - 1 : f[j] = front[j]
  <2>1. PICK d \in 1..m - 1 : f[d] < front[d] /\ \A j \in 1..d - 1 : f[j] = front[j]
    BY <1>3, <1>4
  <2>2. d \in 1..m /\ \A j \in 1..d - 1 : j \in 1..m - 1
    BY <1>1
  <2>3. f[d] < pth[d] /\ \A j \in 1..d - 1 : f[j] = pth[j]
    BY <1>3, <2>1, <2>2
  <2> QED BY <1>1, <2>2, <2>3 DEF Behind
<1>5. CASE /\ Len(front) + 1 \in DOMAIN f
           /\ f[Len(front) + 1] < Last(pth) + 1
           /\ Follows(f, front)
  <2>1. Len(front) + 1 = m
    BY <1>1, <1>3
  <2>2. f[m] \in Nat /\ f[m] <= pth[m]
    BY <1>1, <1>2, <1>5, <2>1
  <2>3. \A j \in 1..m - 1 : f[j] = pth[j]
    BY <1>3, <1>5 DEF Follows
  <2>4. CASE f[m] < pth[m]
    BY <1>1, <1>2, <2>3, <2>4 DEF Behind
  <2>5. CASE f[m] = pth[m]
    <3>1. \A j \in 1..m : j \in 1..m - 1 \/ j = m
      BY <1>1
    <3> QED BY <1>1, <2>3, <2>5, <3>1 DEF Follows
  <2> QED BY <1>1, <1>2, <2>2, <2>4, <2>5
<1> QED BY <1>4, <1>5 DEF Behind, front

-----------------------------------------------------------------------------
(***************************************************************************)
(* Plans of the requirements, and what the walks over them choose.         *)
(***************************************************************************)
PlansOK ==
    /\ plans \in Seq({Plan(problem, problem.requirements[i]) : i \in 1..Requirements})
    /\ Len(plans) <= Requirements
    /\ \A i \in 1..Len(plans) : plans[i] = Plan(problem, problem.requirements[i])

KeptChoices(ps) == [i \in DOMAIN ps |-> ToSet(ps[i].candidates)]

(* The candidates of a plan: eligible, and none after a better one. *)
LEMMA PlanFacts ==
    ASSUME RequestOK(problem), PlansOK, NEW i \in 1..Len(plans)
    PROVE  /\ i \in 1..Requirements
           /\ plans[i].candidates \in Seq(EligibleCandidates(problem, problem.requirements[i]))
           /\ Len(plans[i].candidates) \in Nat
           /\ DOMAIN plans[i].candidates = 1..Len(plans[i].candidates)
           /\ \A k \in DOMAIN plans[i].candidates :
                 /\ plans[i].candidates[k] \in EligibleCandidates(problem, problem.requirements[i])
                 /\ plans[i].candidates[k].partial \in Int
           /\ \A j, k \in DOMAIN plans[i].candidates :
                 j <= k => plans[i].candidates[k].partial <= plans[i].candidates[j].partial
           /\ ~ plans[i].capped =>
                 ToSet(plans[i].candidates) =
                     Collapsed(problem, EligibleCandidates(problem, problem.requirements[i]))
<1> DEFINE E == EligibleCandidates(problem, problem.requirements[i])
           c == plans[i].candidates
<1>1. i \in 1..Requirements
  <2>1. Len(plans) \in Nat /\ Requirements \in Nat /\ Len(plans) <= Requirements
    BY LenProperties DEF PlansOK, RequestOK, Requirements
  <2> QED BY <2>1
<1>2. plans[i] = Plan(problem, problem.requirements[i])
  BY DEF PlansOK
<1>3. c \in Seq(E) /\ Descending(c) /\ (~ plans[i].capped => ToSet(c) = Collapsed(problem, E))
  BY <1>1, <1>2, PlanCandidates DEF Requirements
<1>4. Len(c) \in Nat /\ DOMAIN c = 1..Len(c) /\ \A k \in 1..Len(c) : c[k] \in E
  <2> HIDE DEF c, E
  <2> QED BY <1>3, LenProperties, ElementOfSeq
<1>5. \A k \in 1..Len(c) : c[k].partial \in Int
  BY <1>1, <1>4, SelectedPartial DEF Requirements
<1>6. ASSUME NEW j \in 1..Len(c), NEW k \in 1..Len(c), j <= k PROVE c[k].partial <= c[j].partial
  <2>1. CASE j = k
    BY <1>5, <2>1
  <2>2. CASE j # k
    <3>1. j < k
      BY <1>4, <1>6, <2>2
    <3>2. Before(c[j], c[k])
      BY <1>3, <3>1 DEF Descending
    <3> QED BY <1>5, <3>2 DEF Before
  <2> QED BY <2>1, <2>2
<1> QED BY <1>1, <1>3, <1>4, <1>5, <1>6

(* What a walk chooses is a selection of kept, and so of eligible, candidates. *)
LEMMA ChosenType ==
    ASSUME RequestOK(problem), PlansOK, Len(plans) = Requirements,
           NEW f \in Walks(problem, plans)
    PROVE  /\ f \in [1..Requirements -> Nat]
           /\ Requirements \in Nat \ {0}
           /\ \A i \in 1..Requirements : f[i] \in DOMAIN plans[i].candidates /\ f[i] # 0
           /\ DOMAIN Chosen(plans, f) = 1..Requirements
           /\ \A i \in 1..Requirements : Chosen(plans, f)[i] = plans[i].candidates[f[i]]
           /\ Chosen(plans, f) \in AllSelections(Eligible(problem))
           /\ Chosen(plans, f) \in AllSelections(KeptChoices(plans))
<1> DEFINE n == Requirements
           s == Chosen(plans, f)
           E(i) == EligibleCandidates(problem, problem.requirements[i])
<1>1. n \in Nat \ {0}
  BY DEF RequestOK, Requirements
<1>2. f \in [1..n -> Nat] /\ \A i \in 1..n : f[i] \in DOMAIN plans[i].candidates
  BY DEF Walks, Requirements
<1>3. DOMAIN s = 1..n /\ \A i \in 1..n : s[i] = plans[i].candidates[f[i]]
  BY <1>2 DEF Chosen
<1>4. DOMAIN plans = 1..n
  BY LenProperties DEF PlansOK
<1>5. \A i \in 1..n : s[i] \in E(i) /\ s[i] \in ToSet(plans[i].candidates) /\ f[i] # 0
  BY <1>2, <1>3, PlanFacts DEF ToSet
<1>6. s \in AllSelections(Eligible(problem))
  <2>1. DOMAIN Eligible(problem) = 1..n /\ \A i \in 1..n : Eligible(problem)[i] = E(i)
    BY DEF Eligible, Requirements
  <2>2. s = [i \in 1..n |-> s[i]]
    BY <1>2 DEF Chosen
  <2> HIDE DEF s, E
  <2>3. s \in [1..n -> UNION {Eligible(problem)[i] : i \in 1..n}]
    BY <1>5, <2>1, <2>2
  <2> QED BY <1>5, <2>1, <2>3 DEF AllSelections
<1>7. s \in AllSelections(KeptChoices(plans))
  <2>1. /\ DOMAIN KeptChoices(plans) = 1..n
        /\ \A i \in 1..n : KeptChoices(plans)[i] = ToSet(plans[i].candidates)
    BY <1>4 DEF KeptChoices
  <2>2. s = [i \in 1..n |-> s[i]]
    BY <1>2 DEF Chosen
  <2> HIDE DEF s, E
  <2>3. s \in [1..n -> UNION {KeptChoices(plans)[i] : i \in 1..n}]
    BY <1>5, <2>1, <2>2
  <2> QED BY <1>5, <2>1, <2>3 DEF AllSelections
<1> QED BY <1>1, <1>2, <1>3, <1>5, <1>6, <1>7

(* Every selection of kept candidates is chosen by a walk. *)
LEMMA WalkExists ==
    ASSUME RequestOK(problem), PlansOK, Len(plans) = Requirements,
           NEW s \in AllSelections(KeptChoices(plans))
    PROVE  \E f \in Walks(problem, plans) : Chosen(plans, f) = s
<1> DEFINE n == Requirements
           c(i) == plans[i].candidates
           f == [i \in 1..n |-> CHOOSE k \in DOMAIN c(i) : c(i)[k] = s[i]]
<1>1. DOMAIN plans = 1..n
  BY LenProperties DEF PlansOK
<1>2. /\ DOMAIN KeptChoices(plans) = 1..n
      /\ \A i \in 1..n : KeptChoices(plans)[i] = ToSet(c(i))
  BY <1>1 DEF KeptChoices
<1>3. /\ s \in [1..n -> UNION {KeptChoices(plans)[i] : i \in 1..n}]
      /\ \A i \in 1..n : s[i] \in ToSet(c(i))
  BY <1>2 DEF AllSelections
<1>4. \A i \in 1..n : f[i] \in DOMAIN c(i) /\ c(i)[f[i]] = s[i]
  BY <1>3 DEF ToSet
<1>5. \A i \in 1..n : DOMAIN c(i) \subseteq Nat
  BY PlanFacts
<1>6. f \in [1..n -> Nat]
  BY <1>4, <1>5
<1> HIDE DEF f
<1>7. f \in Walks(problem, plans)
  BY <1>4, <1>6 DEF Walks, Requirements
<1>8. Chosen(plans, f) = s
  BY <1>3, <1>4, <1>6 DEF Chosen
<1> QED BY <1>7, <1>8

(***************************************************************************)
(* The bound is sound: no walk through the next candidate of the loop, or  *)
(* through one after it, scores more than the bound says.                  *)
(***************************************************************************)
LEMMA BoundIsSound ==
    ASSUME RequestOK(problem), PlansOK, Len(plans) = Requirements,
           path \in Seq(Nat), Len(path) < Requirements,
           NEW f \in Walks(problem, plans), Follows(f, path),
           cursor \in Nat \ {0}, cursor <= f[Len(path) + 1]
    PROVE  /\ Score(problem, Chosen(plans, f)) \in Int
           /\ Partial + Candidates[cursor].partial + RemainingMax(Depth) + CrossBound \in Int
           /\ Score(problem, Chosen(plans, f)) <=
                 Partial + Candidates[cursor].partial + RemainingMax(Depth) + CrossBound
<1> DEFINE n == Requirements
           m == Len(path)
           s == Chosen(plans, f)
           t == Partials(s)
           c(i) == plans[i].candidates
<1>1. /\ f \in [1..n -> Nat] /\ n \in Nat \ {0}
      /\ \A i \in 1..n : f[i] \in DOMAIN c(i) /\ f[i] # 0
      /\ DOMAIN s = 1..n /\ \A i \in 1..n : s[i] = c(i)[f[i]]
      /\ s \in AllSelections(Eligible(problem))
  BY ChosenType
<1>2. /\ t \in [1..n -> Int] /\ Score(problem, s) \in Int /\ CrossBound \in Int
      /\ Score(problem, s) <= Total(t) + CrossBound
  BY <1>1, ScoreBounds
<1>3. m \in 0..n /\ m \in Nat /\ m < n /\ DOMAIN path = 1..m /\ m + 1 \in 1..n /\ n - m \in Nat
  BY <1>1, LenProperties
<1>4. \A i \in 1..n : t[i] = c(i)[f[i]].partial
  BY <1>1 DEF Partials
<1> HIDE DEF s, t, n, m
<1> DEFINE a == [i \in 1..m |-> t[i]]
           b == [i \in 1..n - m |-> t[m + i]]
           d == [i \in 1..1 |-> b[i]]
           e == [i \in 1..(n - m) - 1 |-> b[1 + i]]
           z == [i \in 1..n - Depth |-> plans[Depth + i].candidates[1].partial]
<1>5. Total(t) = Total(a) + Total(b)
  BY <1>1, <1>2, <1>3, TotalSplit
<1>6. a \in [1..m -> Int] /\ b \in [1..n - m -> Int]
  BY <1>1, <1>2, <1>3
<1>7. Total(a) = Partial /\ Partial \in Int
  <2>1. a = [i \in DOMAIN path |-> plans[i].candidates[path[i]].partial]
    <3>1. \A i \in 1..m : i \in 1..n /\ f[i] = path[i]
      BY <1>1, <1>3 DEF Follows
    <3>2. \A i \in 1..m : t[i] = plans[i].candidates[path[i]].partial
      BY <1>4, <3>1
    <3> QED BY <1>3, <3>2
  <2>2. Total(a) \in Int
    <3> HIDE DEF a
    <3> QED BY <1>3, <1>6, TotalType
  <2> QED BY <2>1, <2>2 DEF Partial
<1>8. Total(b) = Total(d) + Total(e)
  <2>1. 1 \in 0..n - m
    BY <1>1, <1>3
  <2> HIDE DEF b
  <2> QED BY <1>3, <1>6, <2>1, TotalSplit
<1>9. Total(d) = t[m + 1] /\ t[m + 1] \in Int
  <2>1. b[1] = t[m + 1] /\ t[m + 1] \in Int
    BY <1>1, <1>2, <1>3
  <2>2. d = [i \in 1..1 |-> t[m + 1]]
    <3>1. \A i \in 1..1 : i = 1
      OBVIOUS
    <3> HIDE DEF b
    <3> QED BY <2>1, <3>1
  <2>3. Total([i \in 1..1 |-> t[m + 1]]) = 1 * t[m + 1]
    BY <2>1, TotalConstant
  <2> HIDE DEF d, b
  <2> QED BY <2>1, <2>2, <2>3
<1>10. Depth = m + 1 /\ (n - m) - 1 = n - Depth /\ n - Depth \in Nat
  BY <1>1, <1>3 DEF Depth, m
<1>11. t[m + 1] <= Candidates[cursor].partial /\ Candidates[cursor].partial \in Int
  <2>1. Candidates = c(m + 1)
    BY <1>10 DEF Candidates
  <2>2. /\ \A k \in DOMAIN c(m + 1) : c(m + 1)[k].partial \in Int
        /\ \A j, k \in DOMAIN c(m + 1) : j <= k => c(m + 1)[k].partial <= c(m + 1)[j].partial
        /\ Len(c(m + 1)) \in Nat /\ DOMAIN c(m + 1) = 1..Len(c(m + 1))
    BY <1>3, PlanFacts DEF n
  <2>3. f[m + 1] \in DOMAIN c(m + 1) /\ cursor <= f[m + 1]
    BY <1>1, <1>3 DEF m
  <2>4. cursor \in DOMAIN c(m + 1)
    BY <2>2, <2>3
  <2> QED BY <1>3, <1>4, <2>1, <2>2, <2>3, <2>4
<1>12. Total(e) <= RemainingMax(Depth) /\ Total(e) \in Int /\ RemainingMax(Depth) \in Int
  <2>1. ASSUME NEW i \in 1..n - Depth
        PROVE  e[i] \in Int /\ z[i] \in Int /\ e[i] <= z[i]
    <3>1. Depth + i \in 1..n /\ 1 + i \in 1..n - m /\ m + (1 + i) = Depth + i
      BY <1>1, <1>3, <1>10
    <3>2. e[i] = t[Depth + i]
      BY <1>10, <3>1
    <3>3. /\ \A k \in DOMAIN c(Depth + i) : c(Depth + i)[k].partial \in Int
          /\ \A j, k \in DOMAIN c(Depth + i) :
                j <= k => c(Depth + i)[k].partial <= c(Depth + i)[j].partial
          /\ Len(c(Depth + i)) \in Nat /\ DOMAIN c(Depth + i) = 1..Len(c(Depth + i))
      BY <3>1, PlanFacts DEF n
    <3>4. f[Depth + i] \in DOMAIN c(Depth + i)
      BY <1>1, <3>1
    <3>5. 1 \in DOMAIN c(Depth + i) /\ 1 <= f[Depth + i]
      BY <3>3, <3>4
    <3>6. t[Depth + i] = c(Depth + i)[f[Depth + i]].partial
      BY <1>4, <3>1
    <3>7. z[i] = c(Depth + i)[1].partial
      OBVIOUS
    <3> QED BY <3>2, <3>3, <3>4, <3>5, <3>6, <3>7
  <2>2. e \in [1..n - Depth -> Int] /\ z \in [1..n - Depth -> Int]
    <3>1. DOMAIN e = 1..n - Depth /\ e = [i \in 1..n - Depth |-> e[i]]
      BY <1>10
    <3>2. z = [i \in 1..n - Depth |-> z[i]]
      OBVIOUS
    <3> HIDE DEF e, z
    <3> QED BY <2>1, <3>1, <3>2
  <2>3. RemainingMax(Depth) = Total(z)
    BY DEF RemainingMax, n
  <2> HIDE DEF e, z
  <2>4. Total(e) <= Total(z)
    BY <1>10, <2>1, <2>2, TotalMonotone
  <2>5. Total(e) \in Int /\ Total(z) \in Int
    BY <1>10, <2>2, TotalType
  <2> QED BY <2>3, <2>4, <2>5
<1> HIDE DEF a, b, d, e, z
<1>13. Total(t) <= Partial + Candidates[cursor].partial + RemainingMax(Depth) /\ Total(t) \in Int
  BY <1>5, <1>7, <1>8, <1>9, <1>11, <1>12
<1>14. Score(problem, s) <= Partial + Candidates[cursor].partial + RemainingMax(Depth) + CrossBound
  BY <1>2, <1>7, <1>11, <1>12, <1>13
<1> QED BY <1>2, <1>7, <1>11, <1>12, <1>14 DEF s
-----------------------------------------------------------------------------
(***************************************************************************)
(* The invariant of the search.                                            *)
(***************************************************************************)
Valid(p, s) == SelectionFailure(p, s) = "None"

(* The rankings of the valid selections of kept candidates. *)
Rankings(p, ps) ==
    {RankingCandidate(p, s) : s \in {x \in AllSelections(KeptChoices(ps)) : Valid(p, x)}}

(* Something in the ranking q is at least as good as what the walk f chooses, if that is valid. *)
SettledWalk(p, ps, q, f) ==
    Valid(p, Chosen(ps, f)) => SettledBy(RankingCandidate(p, Chosen(ps, f)), q)

SettledBehind(p, ps, pth, cur, q) ==
    \A f \in Walks(p, ps) : Behind(f, pth, cur) => SettledWalk(p, ps, q, f)

SettledAll(p, ps, q) == \A f \in Walks(p, ps) : SettledWalk(p, ps, q, f)

PhaseInv ==
    /\ problem \in Problems
    /\ phase \in {"filter", "search", "choose", "done"}
    /\ PlansOK
    /\ phase # "filter" => Len(plans) = Requirements
    /\ phase = "filter" => path = <<>> /\ cursor = 0 /\ ranked = <<>>
    /\ phase \in {"search", "choose"} => Unsatisfied = {}
    /\ result = Undecided <=> phase # "done"

PathInv ==
    /\ path \in Seq(Nat)
    /\ Len(path) <= Len(plans)
    /\ \A i \in DOMAIN path : path[i] \in DOMAIN plans[i].candidates
    /\ cursor \in Nat
    /\ phase = "search" /\ cursor > 0 => Len(path) < Requirements

CountInv ==
    /\ evaluations \in Nat
    /\ evaluations <= problem.limits.evaluated
    /\ truncated \in BOOLEAN
    /\ rejections \in [ToSet(RejectReasons) -> Nat]

RankedInv ==
    /\ ranked \in Seq(Rankings(problem, plans))
    /\ Len(ranked) <= problem.limits.ranked
    /\ bestRaw \in Int
    /\ HighestIn(bestRaw, ranked)
    /\ ranked = <<>> <=> bestRaw = NoScore

SettledInv ==
    /\ phase \in {"search", "choose"} => SettledBehind(problem, plans, path, cursor, ranked)
    /\ phase = "choose" /\ ~ truncated => SettledAll(problem, plans, ranked)

SearchInv == PhaseInv /\ PathInv /\ CountInv /\ RankedInv /\ SettledInv /\ BestOfTheKept

(* The request is one that validation accepts. *)
LEMMA ProblemOK ==
    ASSUME PhaseInv
    PROVE  RequestOK(problem) /\ Requirements \in Nat \ {0}
BY ProblemsAssumption DEF PhaseInv, RequestOK, Requirements

(* What a valid walk chooses can be ranked, and its score is above the initial best. *)
LEMMA WalkRanking ==
    ASSUME RequestOK(problem), PlansOK, Len(plans) = Requirements,
           NEW f \in Walks(problem, plans), Valid(problem, Chosen(plans, f))
    PROVE  LET c == RankingCandidate(problem, Chosen(plans, f))
           IN  /\ c \in Rankings(problem, plans)
               /\ IsRanking(c, Requirements)
               /\ NoScore < c.raw
               /\ c.raw = Score(problem, Chosen(plans, f))
<1> DEFINE s == Chosen(plans, f)
<1>1. s \in AllSelections(Eligible(problem)) /\ s \in AllSelections(KeptChoices(plans))
  BY ChosenType
<1> HIDE DEF s
<1>2. Valid(problem, s)
  BY DEF s
<1>3. ~ Repeats(s)
  BY <1>2 DEF Valid, SelectionFailure
<1>4. CanonicalResourceKey(s) \in [1..Requirements -> Int]
  BY <1>1, <1>3, KeyType
<1>5. Score(problem, s) \in Int /\ NoScore < Score(problem, s)
  BY <1>1, ScoreBounds
<1>6. /\ RankingCandidate(problem, s).raw = Score(problem, s)
      /\ RankingCandidate(problem, s).tie = CanonicalResourceKey(s)
  BY DEF RankingCandidate
<1>7. RankingCandidate(problem, s) \in Rankings(problem, plans)
  BY <1>1, <1>2 DEF Rankings
<1>8. IsRanking(RankingCandidate(problem, s), Requirements)
  BY <1>4, <1>5, <1>6 DEF IsRanking
<1> QED BY <1>5, <1>6, <1>7, <1>8 DEF s

(* Every ranking is of a valid walk. *)
LEMMA RankingsType ==
    ASSUME RequestOK(problem), PlansOK, Len(plans) = Requirements,
           NEW c \in Rankings(problem, plans)
    PROVE  /\ \E f \in Walks(problem, plans) :
                 /\ Valid(problem, Chosen(plans, f))
                 /\ c = RankingCandidate(problem, Chosen(plans, f))
           /\ IsRanking(c, Requirements)
           /\ NoScore < c.raw
<1>1. PICK s \in AllSelections(KeptChoices(plans)) :
         Valid(problem, s) /\ c = RankingCandidate(problem, s)
  BY DEF Rankings
<1>2. PICK f \in Walks(problem, plans) : Chosen(plans, f) = s
  BY <1>1, WalkExists
<1> QED BY <1>1, <1>2, WalkRanking

(***************************************************************************)
(* A walk along the path that the search leaves, through a candidate it    *)
(* has not tried, was pruned: something that is ranked scores more.        *)
(***************************************************************************)
LEMMA PrunedIsSettled ==
    ASSUME PhaseInv, PathInv, RankedInv, InLoop, ~ MoreCandidates,
           NEW f \in Walks(problem, plans), Follows(f, path), ~ (f[Len(path) + 1] < cursor)
    PROVE  SettledWalk(problem, plans, ranked, f)
<1> DEFINE s == Chosen(plans, f)
           c == RankingCandidate(problem, s)
           bound == Partial + Candidates[cursor].partial + RemainingMax(Depth) + CrossBound
           next == Len(path) + 1
<1>1. RequestOK(problem) /\ PlansOK /\ Len(plans) = Requirements /\ Requirements \in Nat
  BY ProblemOK DEF PhaseInv, InLoop
<1>2. path \in Seq(Nat) /\ Len(path) < Requirements /\ cursor \in Nat \ {0} /\ Len(path) \in Nat
  BY LenProperties DEF PathInv, InLoop
<1>3. next \in 1..Requirements /\ Depth = next
  BY <1>1, <1>2 DEF Depth
<1>4. f[next] \in Nat /\ f[next] \in DOMAIN plans[next].candidates
  BY <1>1, <1>3, ChosenType
<1>5. cursor <= f[next]
  BY <1>2, <1>4
<1>6. cursor <= Len(Candidates)
  <2>1. DOMAIN plans[next].candidates = 1..Len(plans[next].candidates)
        /\ Len(plans[next].candidates) \in Nat
    BY <1>1, <1>3, PlanFacts
  <2>2. Candidates = plans[next].candidates
    BY <1>3 DEF Candidates
  <2> QED BY <1>2, <1>4, <1>5, <2>1, <2>2
<1>7. bound < bestRaw
  BY <1>6 DEF MoreCandidates, Pruned
<1>8. SUFFICES ASSUME Valid(problem, s) PROVE SettledBy(c, ranked)
  BY DEF SettledWalk
<1>9. Score(problem, s) \in Int /\ bound \in Int /\ Score(problem, s) <= bound
  BY <1>1, <1>2, <1>5, BoundIsSound
<1>10. NoScore < c.raw /\ c.raw = Score(problem, s)
  BY <1>1, <1>8, WalkRanking
<1> HIDE DEF bound, c, s
<1>11. bestRaw \in Int /\ bestRaw # NoScore /\ c.raw < bestRaw
  BY <1>7, <1>9, <1>10 DEF RankedInv, NoScore
<1>12. PICK i \in DOMAIN ranked : ranked[i].raw = bestRaw
  BY <1>11 DEF RankedInv, HighestIn
<1>13. ~ CandidateIsBetter(c, ranked[i])
  BY <1>9, <1>10, <1>11, <1>12 DEF CandidateIsBetter
<1> QED BY <1>13 DEF SettledBy

-----------------------------------------------------------------------------
(***************************************************************************)
(* Every action preserves the invariant.                                   *)
(***************************************************************************)

(* The invariant holds at the beginning. *)
LEMMA SearchStarts ==
    ASSUME SearchInit PROVE SearchInv
<1> USE DEF SearchInit
<1>1. Requirements \in Nat /\ RequestOK(problem)
  BY ProblemsAssumption DEF RequestOK, Requirements
<1>2. <<>> \in Seq(Nat) /\ Len(<<>>) = 0 /\ DOMAIN <<>> = {}
  BY EmptySeq
<1>3. PlansOK
  <2>1. plans \in Seq({Plan(problem, problem.requirements[i]) : i \in 1..Requirements})
    BY EmptySeq
  <2> QED BY <1>1, <1>2, <2>1 DEF PlansOK
<1>4. PhaseInv
  BY <1>3 DEF PhaseInv
<1>5. PathInv
  BY <1>2 DEF PathInv
<1>6. CountInv
  <2>1. problem.limits.evaluated \in Nat
    BY <1>1 DEF RequestOK
  <2>2. evaluations = 0 /\ truncated = FALSE
    OBVIOUS
  <2>3. rejections = [reason \in ToSet(RejectReasons) |-> 0]
    OBVIOUS
  <2> HIDE DEF SearchInit
  <2>4. evaluations \in Nat /\ evaluations <= problem.limits.evaluated
    BY <2>1, <2>2
  <2>5. truncated \in BOOLEAN
    BY <2>2
  <2>6. rejections \in [ToSet(RejectReasons) -> Nat]
    BY <2>3
  <2> QED BY <2>4, <2>5, <2>6 DEF CountInv
<1>7. RankedInv
  <2>1. ranked \in Seq(Rankings(problem, plans))
    BY EmptySeq
  <2>2. bestRaw \in Int /\ HighestIn(bestRaw, ranked)
    BY <1>2 DEF HighestIn, NoScore
  <2> QED BY <1>1, <1>2, <2>1, <2>2 DEF RankedInv, RequestOK
<1> QED BY <1>4, <1>5, <1>6, <1>7 DEF SearchInv, SettledInv, BestOfTheKept, SearchedAll

(* Filtering one more requirement adds its plan; nothing is ranked yet. *)
LEMMA PlanRequirementStep ==
    ASSUME SearchInv, PlanRequirement PROVE SearchInv'
<1> DEFINE n == Len(plans)
           new == Plan(problem, problem.requirements[n + 1])
           S == {Plan(problem, problem.requirements[i]) : i \in 1..Requirements}
<1>1. /\ phase = "filter" /\ phase' = phase /\ problem' = problem /\ n < Requirements
      /\ plans' = Append(plans, new)
      /\ path' = path /\ cursor' = cursor /\ evaluations' = evaluations /\ truncated' = truncated
      /\ bestRaw' = bestRaw /\ ranked' = ranked /\ rejections' = rejections /\ result' = result
  BY DEF PlanRequirement
<1>2. /\ Requirements \in Nat /\ PlansOK /\ path = <<>> /\ cursor = 0 /\ ranked = <<>>
      /\ n \in Nat /\ Requirements' = Requirements
  BY <1>1, ProblemOK, LenProperties DEF SearchInv, PhaseInv, PlansOK, Requirements
<1>3. PlansOK'
  <2>1. plans \in Seq(S) /\ new \in S
    BY <1>1, <1>2 DEF PlansOK
  <2> HIDE DEF new, S
  <2>2. /\ plans' \in Seq(S) /\ Len(plans') = n + 1 /\ plans'[n + 1] = new
        /\ \A i \in 1..n : plans'[i] = plans[i]
    BY <1>1, <2>1, AppendProperties
  <2>3. Len(plans') <= Requirements
    BY <1>1, <1>2, <2>2
  <2>4. \A i \in 1..n + 1 : plans'[i] = Plan(problem, problem.requirements[i])
    <3>1. \A i \in 1..n + 1 : i \in 1..n \/ i = n + 1
      BY <1>2
    <3>2. \A i \in 1..n : plans'[i] = Plan(problem, problem.requirements[i])
      BY <1>2, <2>2 DEF PlansOK
    <3> QED BY <2>2, <3>1, <3>2 DEF new
  <2> QED BY <1>1, <1>2, <2>2, <2>3, <2>4 DEF PlansOK, S
<1>4. PhaseInv'
  BY <1>1, <1>3 DEF SearchInv, PhaseInv, Undecided
<1>5. PathInv'
  <2>1. Len(<<>>) = 0 /\ DOMAIN <<>> = {}
    BY EmptySeq
  <2>2. Len(plans') \in Nat
    BY <1>3, LenProperties DEF PlansOK
  <2> QED BY <1>1, <1>2, <2>1, <2>2 DEF SearchInv, PathInv
<1>6. CountInv' /\ SettledInv' /\ BestOfTheKept'
  BY <1>1 DEF SearchInv, CountInv, SettledInv, BestOfTheKept, SearchedAll
<1>7. RankedInv'
  <2>1. ranked' \in Seq(Rankings(problem', plans'))
    BY <1>1, <1>2, EmptySeq
  <2> QED BY <1>1, <2>1 DEF SearchInv, RankedInv
<1> QED BY <1>4, <1>5, <1>6, <1>7 DEF SearchInv

(* What a refusal decides. *)
LEMMA NoPlacementOutcome ==
    ASSUME NEW counts
    PROVE  /\ NoPlacementDecision(counts).outcome = "NoPlacement"
           /\ NoPlacementDecision(counts).reason = DominantReason(counts)
           /\ NoPlacementDecision(counts) # Undecided
<1>1. NoPlacementDecision(counts).outcome = "NoPlacement"
      /\ NoPlacementDecision(counts).reason = DominantReason(counts)
  BY DEF NoPlacementDecision
<1>2. Undecided.outcome = "Undecided"
  BY DEF Undecided
<1> QED BY <1>1, <1>2

(* A requirement without candidates leaves no selection at all. *)
LEMMA RejectUnsatisfiedStep ==
    ASSUME SearchInv, RejectUnsatisfied PROVE SearchInv'
<1>1. /\ phase = "filter" /\ phase' = "done" /\ problem' = problem /\ Len(plans) = Requirements
      /\ plans' = plans /\ Unsatisfied # {}
      /\ path' = path /\ cursor' = cursor /\ evaluations' = evaluations /\ truncated' = truncated
      /\ bestRaw' = bestRaw /\ ranked' = ranked /\ rejections' = rejections
      /\ result'.outcome = "NoPlacement" /\ result' # Undecided
  BY NoPlacementOutcome DEF RejectUnsatisfied
<1>2. PhaseInv'
  BY <1>1 DEF SearchInv, PhaseInv, PlansOK, Requirements, Undecided
<1>3. PathInv' /\ CountInv' /\ RankedInv' /\ SettledInv'
  BY <1>1 DEF SearchInv, PathInv, CountInv, RankedInv, SettledInv, Requirements
<1>4. PICK i \in DOMAIN plans : plans[i].candidates = <<>>
  BY <1>1 DEF Unsatisfied
<1>5. AllSelections(KeptChoices(plans)) = {}
  <2>1. SUFFICES ASSUME NEW s \in AllSelections(KeptChoices(plans)) PROVE FALSE
    OBVIOUS
  <2>2. s[i] \in ToSet(plans[i].candidates)
    BY DEF AllSelections, KeptChoices
  <2> QED BY <1>4, <2>2, EmptySeq DEF ToSet
<1>6. BestOfTheKept'
  BY <1>1, <1>5 DEF BestOfTheKept, IsBestOf, ValidSelections, KeptChoices
<1> QED BY <1>2, <1>3, <1>6 DEF SearchInv

(* A search that begins has left nothing behind. *)
LEMMA BeginSearchStep ==
    ASSUME SearchInv, BeginSearch PROVE SearchInv'
<1>1. /\ phase = "filter" /\ phase' = "search" /\ problem' = problem /\ Len(plans) = Requirements
      /\ plans' = plans /\ Unsatisfied = {} /\ result' = result
      /\ path' = path /\ cursor' = cursor /\ evaluations' = evaluations /\ truncated' = truncated
      /\ bestRaw' = bestRaw /\ ranked' = ranked /\ rejections' = rejections
  BY DEF BeginSearch
<1>2. path = <<>> /\ cursor = 0
  BY <1>1 DEF SearchInv, PhaseInv
<1>3. PhaseInv'
  BY <1>1 DEF SearchInv, PhaseInv, PlansOK, Requirements, Undecided, Unsatisfied
<1>4. PathInv' /\ CountInv' /\ RankedInv' /\ BestOfTheKept'
  BY <1>1, <1>2 DEF SearchInv, PathInv, CountInv, RankedInv, BestOfTheKept, SearchedAll
<1>5. SettledBehind(problem, plans, <<>>, 0, ranked)
  <2>1. ASSUME NEW f \in Walks(problem, plans) PROVE ~ Behind(f, <<>>, 0)
    <3>1. f \in [1..Requirements -> Nat] /\ Requirements \in Nat
      BY ProblemOK DEF SearchInv, Walks, Requirements
    <3> QED BY <3>1, NothingBehind
  <2> QED BY <2>1 DEF SettledBehind
<1>6. SettledInv'
  BY <1>1, <1>2, <1>5 DEF SettledInv
<1> QED BY <1>3, <1>4, <1>6 DEF SearchInv

(* A search that is cut short claims nothing about what is not behind it. *)
LEMMA StopSearchStep ==
    ASSUME SearchInv, StopSearch PROVE SearchInv'
<1>1. /\ phase = "search" /\ phase' = "choose" /\ problem' = problem /\ truncated' = TRUE
      /\ plans' = plans /\ result' = result /\ path' = path /\ cursor' = cursor
      /\ evaluations' = evaluations
      /\ bestRaw' = bestRaw /\ ranked' = ranked /\ rejections' = rejections
  BY DEF StopSearch, Entering
<1>2. PhaseInv'
  BY <1>1 DEF SearchInv, PhaseInv, PlansOK, Requirements, Undecided, Unsatisfied
<1>3. PathInv' /\ CountInv' /\ RankedInv' /\ SettledInv' /\ BestOfTheKept'
  BY <1>1 DEF SearchInv, PathInv, CountInv, RankedInv, SettledInv, BestOfTheKept, SearchedAll
<1> QED BY <1>2, <1>3 DEF SearchInv

(* Opening a node settles nothing and leaves nothing behind. *)
LEMMA OpenRequirementStep ==
    ASSUME SearchInv, OpenRequirement PROVE SearchInv'
<1>1. /\ phase = "search" /\ phase' = phase /\ problem' = problem /\ truncated' = truncated
      /\ plans' = plans /\ result' = result /\ path' = path /\ cursor = 0 /\ cursor' = 1
      /\ evaluations' = evaluations /\ Len(path) < Requirements
      /\ bestRaw' = bestRaw /\ ranked' = ranked /\ rejections' = rejections
  BY DEF OpenRequirement, Entering
<1>2. PhaseInv'
  BY <1>1 DEF SearchInv, PhaseInv, PlansOK, Requirements, Undecided, Unsatisfied
<1>3. PathInv' /\ CountInv' /\ RankedInv' /\ BestOfTheKept'
  BY <1>1 DEF SearchInv, PathInv, CountInv, RankedInv, BestOfTheKept, SearchedAll, Requirements
<1>4. SettledBehind(problem, plans, path, 1, ranked)
  <2>1. SUFFICES ASSUME NEW f \in Walks(problem, plans), Behind(f, path, 1)
                 PROVE  SettledWalk(problem, plans, ranked, f)
    BY DEF SettledBehind
  <2>2. RequestOK(problem) /\ PlansOK /\ Len(plans) = Requirements /\ path \in Seq(Nat)
    BY <1>1, ProblemOK DEF SearchInv, PhaseInv, PathInv
  <2>3. \A i \in DOMAIN f : f[i] \in Nat \ {0}
    <3>1. f \in [1..Requirements -> Nat] /\ \A i \in 1..Requirements : f[i] # 0
      BY <2>2, ChosenType
    <3> QED BY <3>1
  <2>4. Behind(f, path, 0)
    BY <2>1, <2>2, <2>3, OpenLeavesNothing
  <2> QED BY <1>1, <2>4 DEF SearchInv, SettledInv, SettledBehind
<1>5. SettledInv'
  BY <1>1, <1>4 DEF SettledInv
<1> QED BY <1>2, <1>3, <1>5 DEF SearchInv

(* Taking a candidate lengthens the path and leaves nothing behind. *)
LEMMA TryCandidateStep ==
    ASSUME SearchInv, TryCandidate PROVE SearchInv'
<1> DEFINE m == Len(path)
           new == Append(path, cursor)
<1>1. /\ phase = "search" /\ phase' = phase /\ problem' = problem /\ truncated' = truncated
      /\ plans' = plans /\ result' = result /\ path' = new /\ cursor > 0 /\ cursor' = 0
      /\ evaluations' = evaluations /\ cursor <= Len(Candidates)
      /\ bestRaw' = bestRaw /\ ranked' = ranked /\ rejections' = rejections
  BY DEF TryCandidate, InLoop, MoreCandidates
<1>2. /\ RequestOK(problem) /\ Requirements \in Nat /\ PlansOK /\ Len(plans) = Requirements
      /\ path \in Seq(Nat) /\ cursor \in Nat \ {0} /\ m < Requirements
      /\ \A i \in DOMAIN path : path[i] \in DOMAIN plans[i].candidates
  BY <1>1, ProblemOK DEF SearchInv, PhaseInv, PathInv
<1>3. m \in Nat /\ DOMAIN path = 1..m
  BY <1>2, LenProperties
<1>4. /\ new \in Seq(Nat) /\ Len(new) = m + 1 /\ new[m + 1] = cursor
      /\ \A i \in 1..m : new[i] = path[i]
  BY <1>2, AppendProperties
<1> HIDE DEF new
<1>5. DOMAIN new = 1..m + 1
  BY <1>4, LenProperties
<1>6. PhaseInv'
  BY <1>1 DEF SearchInv, PhaseInv, PlansOK, Requirements, Undecided, Unsatisfied
<1>7. PathInv'
  <2>1. cursor \in DOMAIN plans[m + 1].candidates
    <3>1. m + 1 \in 1..Requirements
      BY <1>2, <1>3
    <3>2. DOMAIN plans[m + 1].candidates = 1..Len(plans[m + 1].candidates)
          /\ Len(plans[m + 1].candidates) \in Nat
      BY <1>2, <3>1, PlanFacts
    <3> QED BY <1>1, <1>2, <3>2 DEF Candidates, Depth
  <2>2. \A i \in 1..m + 1 : new[i] \in DOMAIN plans[i].candidates
    <3>1. \A i \in 1..m + 1 : i \in 1..m \/ i = m + 1
      BY <1>3
    <3>2. \A i \in 1..m : new[i] \in DOMAIN plans[i].candidates
      BY <1>2, <1>3, <1>4
    <3> QED BY <1>4, <2>1, <3>1, <3>2
  <2>3. Len(new) <= Len(plans)
    BY <1>2, <1>3, <1>4
  <2> QED BY <1>1, <1>4, <1>5, <2>2, <2>3 DEF PathInv
<1>8. CountInv' /\ RankedInv' /\ BestOfTheKept'
  BY <1>1 DEF SearchInv, CountInv, RankedInv, BestOfTheKept, SearchedAll
<1>9. SettledBehind(problem, plans, new, 0, ranked)
  <2>1. SUFFICES ASSUME NEW f \in Walks(problem, plans), Behind(f, new, 0)
                 PROVE  SettledWalk(problem, plans, ranked, f)
    BY DEF SettledBehind
  <2>2. f \in [1..Requirements -> Nat]
    BY <1>2, ChosenType
  <2>3. Behind(f, path, cursor)
    BY <1>2, <2>1, <2>2, TakeLeavesNothing DEF new
  <2> QED BY <1>1, <2>3 DEF SearchInv, SettledInv, SettledBehind
<1>10. SettledInv'
  BY <1>1, <1>9 DEF SettledInv
<1> QED BY <1>6, <1>7, <1>8, <1>10 DEF SearchInv

(* Back at the node above, the path is in order. *)
LEMMA ReturnKeepsPath ==
    ASSUME PathInv, path # <<>>, path' = Front(path), cursor' = Last(path) + 1, plans' = plans,
           problem' = problem, Requirements \in Nat, Len(plans) = Requirements
    PROVE  PathInv'
<1> DEFINE m == Len(path)
           front == Front(path)
<1>1. /\ path \in Seq(Nat) /\ m <= Requirements
      /\ \A i \in DOMAIN path : path[i] \in DOMAIN plans[i].candidates
  BY DEF PathInv
<1>2. /\ m \in Nat \ {0} /\ DOMAIN path = 1..m /\ \A i \in 1..m : path[i] \in Nat
      /\ front \in Seq(Nat) /\ Len(front) = m - 1 /\ DOMAIN front = 1..m - 1
      /\ \A i \in 1..m - 1 : front[i] = path[i]
      /\ Last(path) = path[m]
  BY <1>1, FrontFacts
<1> HIDE DEF front, m
<1>3. Len(front) <= Len(plans) /\ Len(front) < Requirements
  BY <1>1, <1>2
<1>4. Last(path) + 1 \in Nat
  BY <1>2
<1>5. ASSUME NEW i \in 1..m - 1 PROVE front[i] \in DOMAIN plans[i].candidates
  <2>1. i \in 1..m
    BY <1>2
  <2> QED BY <1>1, <1>2, <2>1
<1>6. path' = front /\ Requirements' = Requirements
  BY DEF front, Requirements
<1> QED BY <1>2, <1>3, <1>4, <1>5, <1>6 DEF PathInv

(* Whoever takes no further candidate of a loop has settled the walks along its path. *)
LEMMA LeavingIsSettled ==
    ASSUME SearchInv, InLoop, ~ MoreCandidates, NEW f \in Walks(problem, plans), Follows(f, path)
    PROVE  SettledWalk(problem, plans, ranked, f)
<1> DEFINE next == Len(path) + 1
<1>1. phase = "search" /\ cursor > 0
  BY DEF InLoop
<1>2. /\ RequestOK(problem) /\ Requirements \in Nat /\ PlansOK /\ Len(plans) = Requirements
      /\ path \in Seq(Nat) /\ Len(path) < Requirements /\ Len(path) \in Nat
  BY <1>1, ProblemOK, LenProperties DEF SearchInv, PhaseInv, PathInv
<1>3. f \in [1..Requirements -> Nat] /\ next \in 1..Requirements
  BY <1>2, ChosenType
<1>4. CASE f[next] < cursor
  <2>1. Behind(f, path, cursor)
    BY <1>3, <1>4 DEF Behind
  <2> QED BY <1>1, <2>1 DEF SearchInv, SettledInv, SettledBehind
<1>5. CASE ~ (f[next] < cursor)
  BY <1>5, PrunedIsSettled DEF SearchInv
<1> QED BY <1>4, <1>5

(* Leaving a node settles every walk along its path. *)
LEMMA LeaveRequirementStep ==
    ASSUME SearchInv, LeaveRequirement PROVE SearchInv'
<1>1. /\ phase = "search" /\ phase' = phase /\ problem' = problem /\ truncated' = truncated
      /\ plans' = plans /\ result' = result /\ path # <<>> /\ evaluations' = evaluations
      /\ path' = Front(path) /\ cursor' = Last(path) + 1
      /\ bestRaw' = bestRaw /\ ranked' = ranked /\ rejections' = rejections
      /\ InLoop /\ ~ MoreCandidates
  BY DEF LeaveRequirement, InLoop, ReturnToParent
<1>2. /\ RequestOK(problem) /\ Requirements \in Nat /\ PlansOK /\ Len(plans) = Requirements
      /\ path \in Seq(Nat)
  BY <1>1, ProblemOK DEF SearchInv, PhaseInv, PathInv
<1>3. PhaseInv'
  BY <1>1 DEF SearchInv, PhaseInv, PlansOK, Requirements, Undecided, Unsatisfied
<1>4. PathInv'
  BY <1>1, <1>2, ReturnKeepsPath DEF SearchInv
<1>5. CountInv' /\ RankedInv' /\ BestOfTheKept'
  BY <1>1 DEF SearchInv, CountInv, RankedInv, BestOfTheKept, SearchedAll
<1>6. SettledBehind(problem, plans, Front(path), Last(path) + 1, ranked)
  <2>1. SUFFICES ASSUME NEW f \in Walks(problem, plans), Behind(f, Front(path), Last(path) + 1)
                 PROVE  SettledWalk(problem, plans, ranked, f)
    BY DEF SettledBehind
  <2>2. f \in [1..Requirements -> Nat]
    BY <1>2, ChosenType
  <2>3. Behind(f, path, cursor) \/ Follows(f, path)
    BY <1>1, <1>2, <2>1, <2>2, ReturnLeavesThePath
  <2>4. CASE Behind(f, path, cursor)
    BY <1>1, <2>4 DEF SearchInv, SettledInv, SettledBehind
  <2>5. CASE Follows(f, path)
    BY <1>1, <2>5, LeavingIsSettled
  <2> QED BY <2>3, <2>4, <2>5
<1>7. SettledInv'
  BY <1>1, <1>6 DEF SettledInv
<1> QED BY <1>3, <1>4, <1>5, <1>7 DEF SearchInv

(* Leaving the root settles every walk. *)
LEMMA FinishSearchStep ==
    ASSUME SearchInv, FinishSearch PROVE SearchInv'
<1>1. /\ phase = "search" /\ phase' = "choose" /\ problem' = problem /\ truncated' = truncated
      /\ plans' = plans /\ result' = result /\ path = <<>> /\ evaluations' = evaluations
      /\ path' = path /\ cursor' = cursor
      /\ bestRaw' = bestRaw /\ ranked' = ranked /\ rejections' = rejections
      /\ InLoop /\ ~ MoreCandidates
  BY DEF FinishSearch, InLoop
<1>2. PhaseInv'
  BY <1>1 DEF SearchInv, PhaseInv, PlansOK, Requirements, Undecided, Unsatisfied
<1>3. PathInv' /\ CountInv' /\ RankedInv' /\ BestOfTheKept'
  BY <1>1 DEF SearchInv, PathInv, CountInv, RankedInv, BestOfTheKept, SearchedAll
<1>4. SettledAll(problem, plans, ranked)
  <2>1. ASSUME NEW f PROVE Follows(f, path)
    BY <1>1, EmptySeq DEF Follows
  <2> QED BY <1>1, <2>1, LeavingIsSettled DEF SettledAll
<1>5. SettledInv'
  BY <1>1, <1>4 DEF SettledInv, SettledAll, SettledBehind
<1> QED BY <1>2, <1>3, <1>5 DEF SearchInv

(* What the ranking becomes with one more valid selection. *)
LEMMA RankKeeps ==
    ASSUME RequestOK(problem), PlansOK, Len(plans) = Requirements, RankedInv,
           NEW c \in Rankings(problem, plans)
    PROVE  LET q == Kept(ranked, c, problem.limits.ranked)
               best == IF c.raw > bestRaw THEN c.raw ELSE bestRaw
           IN  /\ q \in Seq(Rankings(problem, plans))
               /\ Len(q) <= problem.limits.ranked
               /\ best \in Int
               /\ HighestIn(best, q)
               /\ q # <<>> /\ best # NoScore
               /\ SettledBy(c, q)
               /\ \A x \in Rankings(problem, plans) : SettledBy(x, ranked) => SettledBy(x, q)
<1> DEFINE V == Rankings(problem, plans)
           limit == problem.limits.ranked
           q == Kept(ranked, c, limit)
           best == IF c.raw > bestRaw THEN c.raw ELSE bestRaw
<1>1. limit \in Nat \ {0} /\ Requirements \in Nat
  BY DEF RequestOK, Requirements
<1>2. \A x \in V : IsRanking(x, Requirements)
  BY RankingsType
<1>3. NoScore < c.raw /\ c.raw \in Int /\ NoScore \in Int
  BY RankingsType DEF IsRanking, NoScore
<1>4. /\ ranked \in Seq(V) /\ Len(ranked) <= limit /\ bestRaw \in Int /\ HighestIn(bestRaw, ranked)
      /\ ranked = <<>> => bestRaw = NoScore
  BY DEF RankedInv
<1>5. best \in Int /\ c.raw <= best
  BY <1>3, <1>4
<1>6. best # NoScore
  BY <1>3, <1>5
<1> HIDE DEF V, limit
<1>7. c \in V
  BY DEF V
<1>8. /\ q \in Seq(V) /\ q # <<>> /\ Len(q) <= limit /\ SettledBy(c, q)
      /\ \A x \in V : SettledBy(x, ranked) => SettledBy(x, q)
  BY <1>1, <1>2, <1>4, <1>7, KeptProperties
<1>9. HighestIn(best, q)
  <2>1. ranked = <<>> => bestRaw < c.raw
    BY <1>3, <1>4
  <2> QED BY <1>1, <1>2, <1>4, <1>7, <2>1, KeptProperties
<1> QED BY <1>5, <1>6, <1>8, <1>9 DEF V, limit

(* Counting one more keeps a table of counts. *)
LEMMA CountOneMore ==
    ASSUME NEW R, NEW counts \in [R -> Nat], NEW x
    PROVE  [counts EXCEPT ![x] = @ + 1] \in [R -> Nat]
<1>1. CASE x \in R
  BY <1>1
<1>2. CASE x \notin R
  BY <1>2
<1> QED BY <1>1, <1>2

(* Evaluating a leaf settles the one walk that ends there. *)
LEMMA EvaluateSelectionStep ==
    ASSUME SearchInv, EvaluateSelection PROVE SearchInv'
<1> DEFINE s == Chosen(plans, path)
           failure == SelectionFailure(problem, s)
           c == RankingCandidate(problem, s)
<1>1. /\ phase = "search" /\ phase' = phase /\ problem' = problem /\ truncated' = truncated
      /\ plans' = plans /\ result' = result /\ cursor = 0
      /\ ~ Exhausted /\ evaluations' = evaluations + 1 /\ Len(path) = Requirements
      /\ path' = Front(path) /\ cursor' = Last(path) + 1
  BY DEF EvaluateSelection, Entering, ReturnToParent
<1>2. /\ ~ Valid(problem, s) =>
            rejections' = [rejections EXCEPT ![failure] = @ + 1] /\ bestRaw' = bestRaw /\ ranked' = ranked
      /\ Valid(problem, s) =>
            /\ bestRaw' = IF c.raw > bestRaw THEN c.raw ELSE bestRaw
            /\ ranked' = Kept(ranked, c, problem.limits.ranked)
            /\ rejections' = rejections
  BY DEF EvaluateSelection, Valid, Chosen, Rank, Kept, Worst
<1>3. /\ RequestOK(problem) /\ Requirements \in Nat \ {0} /\ PlansOK /\ Len(plans) = Requirements
      /\ path \in Seq(Nat)
      /\ \A i \in DOMAIN path : path[i] \in DOMAIN plans[i].candidates
  BY <1>1, ProblemOK DEF SearchInv, PhaseInv, PathInv
<1>4. path # <<>> /\ DOMAIN path = 1..Requirements
  BY <1>1, <1>3, EmptySeq, LenProperties
<1>5. path \in Walks(problem, plans)
  <2>1. path \in [1..Requirements -> Nat]
    BY <1>3, <1>4, ElementOfSeq, LenProperties
  <2> QED BY <1>3, <1>4, <2>1 DEF Walks, Requirements
<1>6. Valid(problem, s) => c \in Rankings(problem, plans)
  BY <1>3, <1>5, WalkRanking
<1> HIDE DEF s, c
<1>7. PhaseInv'
  BY <1>1 DEF SearchInv, PhaseInv, PlansOK, Requirements, Undecided, Unsatisfied
<1>8. PathInv'
  BY <1>1, <1>3, <1>4, ReturnKeepsPath DEF SearchInv
<1>9. CountInv'
  <2>1. problem.limits.evaluated \in Nat /\ evaluations \in Nat
    BY <1>3 DEF SearchInv, CountInv, RequestOK
  <2>2. evaluations + 1 \in Nat /\ evaluations + 1 <= problem.limits.evaluated
    BY <1>1, <2>1 DEF Exhausted
  <2>3. rejections' \in [ToSet(RejectReasons) -> Nat]
    <3>1. rejections \in [ToSet(RejectReasons) -> Nat]
      BY DEF SearchInv, CountInv
    <3> HIDE DEF failure
    <3>2. [rejections EXCEPT ![failure] = @ + 1] \in [ToSet(RejectReasons) -> Nat]
      BY <3>1, CountOneMore
    <3> QED BY <1>2, <3>1, <3>2
  <2>4. truncated' \in BOOLEAN
    BY <1>1 DEF SearchInv, CountInv
  <2> QED BY <1>1, <2>2, <2>3, <2>4 DEF CountInv
<1>10. RankedInv'
  <2>1. CASE Valid(problem, s)
    <3>1. /\ ranked' \in Seq(Rankings(problem, plans))
          /\ Len(ranked') <= problem.limits.ranked
          /\ bestRaw' \in Int
          /\ HighestIn(bestRaw', ranked')
          /\ ranked' # <<>> /\ bestRaw' # NoScore
      BY <1>2, <1>3, <1>6, <2>1, RankKeeps DEF SearchInv
    <3> QED BY <1>1, <3>1 DEF RankedInv
  <2>2. CASE ~ Valid(problem, s)
    BY <1>1, <1>2, <2>2 DEF SearchInv, RankedInv
  <2> QED BY <2>1, <2>2
<1>11. SettledBehind(problem, plans, Front(path), Last(path) + 1, ranked')
  <2>1. SUFFICES ASSUME NEW f \in Walks(problem, plans), Behind(f, Front(path), Last(path) + 1),
                        Valid(problem, Chosen(plans, f))
                 PROVE  SettledBy(RankingCandidate(problem, Chosen(plans, f)), ranked')
    BY DEF SettledBehind, SettledWalk
  <2>2. f \in [1..Requirements -> Nat]
    BY <1>3, ChosenType
  <2>3. Behind(f, path, cursor) \/ Follows(f, path)
    BY <1>3, <1>4, <2>1, <2>2, ReturnLeavesThePath
  <2>4. CASE Behind(f, path, cursor)
    <3> DEFINE x == RankingCandidate(problem, Chosen(plans, f))
    <3>1. SettledBy(x, ranked)
      BY <1>1, <2>1, <2>4 DEF SearchInv, SettledInv, SettledBehind, SettledWalk
    <3>2. x \in Rankings(problem, plans)
      BY <1>3, <2>1, WalkRanking
    <3> HIDE DEF x
    <3>3. SettledBy(x, ranked')
      <4>1. CASE Valid(problem, s)
        BY <1>2, <1>3, <1>6, <3>1, <3>2, <4>1, RankKeeps DEF SearchInv
      <4>2. CASE ~ Valid(problem, s)
        BY <1>2, <3>1, <4>2
      <4> QED BY <4>1, <4>2
    <3> QED BY <3>3 DEF x
  <2>5. CASE Follows(f, path)
    <3>1. f = path
      <4> DEFINE D == 1..Requirements
      <4>1. path \in [D -> Nat] /\ f \in [D -> Nat]
        BY <1>5, <2>2 DEF Walks, Requirements
      <4>2. \A i \in D : f[i] = path[i]
        BY <1>4, <2>5 DEF Follows
      <4> HIDE DEF D
      <4> QED BY <4>1, <4>2
    <3>2. Valid(problem, s) /\ c = RankingCandidate(problem, Chosen(plans, f))
      BY <2>1, <3>1 DEF s, c
    <3>3. SettledBy(c, ranked')
      BY <1>2, <1>3, <1>6, <3>2, RankKeeps DEF SearchInv
    <3> QED BY <3>2, <3>3
  <2> QED BY <2>3, <2>4, <2>5
<1>12. SettledInv'
  BY <1>1, <1>11 DEF SettledInv
<1>13. BestOfTheKept'
  BY <1>1 DEF BestOfTheKept, SearchedAll
<1> QED BY <1>7, <1>8, <1>9, <1>10, <1>12, <1>13 DEF SearchInv

(* The best of the ranked is the best of all, since all are settled. *)
LEMMA ChooseSelectionStep ==
    ASSUME SearchInv, ChooseSelection PROVE SearchInv'
<1>1. /\ phase = "choose" /\ phase' = "done" /\ problem' = problem /\ truncated' = truncated
      /\ plans' = plans /\ path' = path /\ cursor' = cursor /\ evaluations' = evaluations
      /\ bestRaw' = bestRaw /\ ranked' = ranked /\ rejections' = rejections
  BY DEF ChooseSelection
<1>2. /\ RequestOK(problem) /\ PlansOK /\ Len(plans) = Requirements /\ Requirements \in Nat
  BY <1>1, ProblemOK DEF SearchInv, PhaseInv
<1>3. \/ ranked = <<>> /\ result' = NoPlacementDecision(rejections)
      \/ \E i \in DOMAIN ranked :
            /\ \A j \in DOMAIN ranked : ~ CandidateIsBetter(ranked[j], ranked[i])
            /\ result' = [outcome |-> "Placed", best |-> ranked[i]]
  BY DEF ChooseSelection
<1>4. result' # Undecided
  BY <1>3, NoPlacementOutcome DEF Undecided
<1>5. PhaseInv'
  BY <1>1, <1>4 DEF SearchInv, PhaseInv, PlansOK, Requirements, Undecided
<1>6. PathInv' /\ CountInv' /\ RankedInv' /\ SettledInv'
  BY <1>1 DEF SearchInv, PathInv, CountInv, RankedInv, SettledInv, Requirements
<1>7. BestOfTheKept'
  <2> DEFINE V == Rankings(problem, plans)
  <2>1. V = {RankingCandidate(problem, s) : s \in ValidSelections(KeptChoices(plans))}
    BY DEF Rankings, ValidSelections, Valid
  <2>2. SUFFICES ASSUME ~ truncated
                 PROVE  IF V = {} THEN result'.outcome = "NoPlacement"
                        ELSE /\ result'.outcome = "Placed"
                             /\ result'.best \in V
                             /\ \A other \in V : ~ CandidateIsBetter(other, result'.best)
    BY <1>1, <2>1 DEF BestOfTheKept, SearchedAll, IsBestOf, KeptChoices, ValidSelections
  <2>3. ASSUME NEW c \in V PROVE IsRanking(c, Requirements) /\ SettledBy(c, ranked)
    <3>1. PICK f \in Walks(problem, plans) :
             Valid(problem, Chosen(plans, f)) /\ c = RankingCandidate(problem, Chosen(plans, f))
      BY <1>2, <2>3, RankingsType
    <3>2. SettledBy(c, ranked)
      BY <1>1, <2>2, <3>1 DEF SearchInv, SettledInv, SettledAll, SettledWalk
    <3> QED BY <1>2, <3>2, RankingsType
  <2>4. \A j \in DOMAIN ranked : ranked[j] \in V
    BY ElementOfSeq, LenProperties DEF SearchInv, RankedInv
  <2> HIDE DEF V
  <2>5. CASE ranked = <<>>
    <3>1. V = {}
      BY <2>3, <2>5, EmptySeq DEF SettledBy
    <3>2. result'.outcome = "NoPlacement"
      BY <1>3, <2>5, EmptySeq, NoPlacementOutcome
    <3> QED BY <3>1, <3>2
  <2>6. CASE ranked # <<>>
    <3>1. PICK i \in DOMAIN ranked :
             /\ \A j \in DOMAIN ranked : ~ CandidateIsBetter(ranked[j], ranked[i])
             /\ result' = [outcome |-> "Placed", best |-> ranked[i]]
      BY <1>3, <2>6
    <3>2. result'.outcome = "Placed" /\ result'.best = ranked[i]
      BY <3>1
    <3>3. ASSUME NEW other \in V PROVE ~ CandidateIsBetter(other, ranked[i])
      <4>1. PICK j \in DOMAIN ranked : ~ CandidateIsBetter(other, ranked[j])
        BY <2>3 DEF SettledBy
      <4>2. /\ IsRanking(other, Requirements) /\ IsRanking(ranked[j], Requirements)
            /\ IsRanking(ranked[i], Requirements)
        BY <2>3, <2>4
      <4> QED BY <1>2, <3>1, <4>1, <4>2, NotBetterTransitive
    <3> QED BY <2>4, <3>2, <3>3
  <2> QED BY <2>5, <2>6
<1> QED BY <1>5, <1>6, <1>7 DEF SearchInv

(* Every step preserves the invariant. *)
LEMMA SearchInvStep ==
    ASSUME SearchInv, [SearchNext]_searchVars PROVE SearchInv'
<1>1. CASE UNCHANGED searchVars
  BY <1>1 DEF searchVars, SearchInv, PhaseInv, PathInv, CountInv, RankedInv, SettledInv, PlansOK,
              Requirements, Unsatisfied, BestOfTheKept, SearchedAll, IsBestOf, ValidSelections
<1> QED
  BY <1>1, PlanRequirementStep, RejectUnsatisfiedStep, BeginSearchStep, StopSearchStep,
     EvaluateSelectionStep, OpenRequirementStep, TryCandidateStep, LeaveRequirementStep,
     FinishSearchStep, ChooseSelectionStep DEF SearchNext

(* The invariant holds throughout. *)
THEOREM SearchInvariant == SearchSpec => []SearchInv
<1>1. SearchInit => SearchInv
  BY SearchStarts
<1>2. SearchInv /\ [SearchNext]_searchVars => SearchInv'
  BY SearchInvStep
<1> QED BY <1>1, <1>2, PTL DEF SearchSpec

(***************************************************************************)
(* Types and bounds: the path and the counters of the search stay within   *)
(* the plans and the limits of the request.                                *)
(***************************************************************************)
THEOREM SearchTypesHold == SearchSpec => []SearchTypeOK
<1>1. ASSUME SearchInv PROVE SearchTypeOK
  BY <1>1 DEF SearchInv, PhaseInv, PathInv, CountInv, RankedInv, PlansOK, SearchTypeOK
<1> QED BY <1>1, SearchInvariant, PTL

(***************************************************************************)
(* However many requirements, resources and constraints there are, and     *)
(* whatever the weights: a search that was not cut short finds the best    *)
(* valid combination of the candidates it kept, ties included.             *)
(***************************************************************************)
THEOREM SearchFindsTheBest == SearchSpec => []BestOfTheKept
<1>1. SearchInv => BestOfTheKept
  BY DEF SearchInv
<1> QED BY <1>1, SearchInvariant, PTL

(* Whatever is behind the search is a walk through the plans. *)
LEMMA LeftBehindWalks ==
    ASSUME NEW f \in LeftBehind, PhaseInv PROVE f \in Walks(problem, plans) /\ Behind(f, path, cursor)
<1>1. problem.limits.candidates \in Nat
  BY ProblemOK DEF RequestOK
<1>2. \A i \in 1..problem.limits.candidates : i \in Nat
  BY <1>1
<1>3. f \in [1..Requirements -> Nat]
  BY <1>2 DEF LeftBehind
<1> QED BY <1>3 DEF LeftBehind, Walks, Requirements

(* The best of the ranked is no worse than anything behind the search. *)
LEMMA SeenStep ==
    ASSUME SearchInv, BestOfTheSeen, [SearchNext]_searchVars PROVE BestOfTheSeen'
<1>1. CASE UNCHANGED searchVars
  BY <1>1 DEF searchVars, BestOfTheSeen, LeftBehind, Requirements
<1>2. CASE phase' # "done"
  BY <1>2 DEF BestOfTheSeen
<1>3. CASE RejectUnsatisfied
  <2>1. /\ result'.outcome = "NoPlacement" /\ Unsatisfied # {} /\ Len(plans) = Requirements
        /\ problem' = problem /\ plans' = plans /\ path' = path /\ cursor' = cursor
    BY <1>3, NoPlacementOutcome DEF RejectUnsatisfied
  <2>2. PICK i \in DOMAIN plans : plans[i].candidates = <<>>
    BY <2>1 DEF Unsatisfied
  <2>3. i \in 1..Requirements
    BY <2>1, LenProperties DEF SearchInv, PhaseInv, PlansOK
  <2>4. LeftBehind' = {}
    BY <2>1, <2>2, <2>3, EmptySeq DEF LeftBehind, Requirements
  <2> QED BY <2>1, <2>4 DEF BestOfTheSeen
<1>4. CASE ChooseSelection
  <2>1. /\ phase = "choose" /\ problem' = problem /\ plans' = plans
        /\ path' = path /\ cursor' = cursor /\ LeftBehind' = LeftBehind
    BY <1>4 DEF ChooseSelection, LeftBehind, Requirements
  <2>2. /\ RequestOK(problem) /\ PlansOK /\ Len(plans) = Requirements /\ Requirements \in Nat
    BY <2>1, ProblemOK DEF SearchInv, PhaseInv
  <2>3. ASSUME NEW j \in DOMAIN ranked
        PROVE  ranked[j] \in Rankings(problem, plans) /\ IsRanking(ranked[j], Requirements)
    BY <2>2, RankingsType, ElementOfSeq, LenProperties DEF SearchInv, RankedInv
  <2>4. ASSUME NEW f \in LeftBehind, Valid(problem, Chosen(plans, f))
        PROVE  /\ IsRanking(RankingCandidate(problem, Chosen(plans, f)), Requirements)
               /\ SettledBy(RankingCandidate(problem, Chosen(plans, f)), ranked)
    <3>1. f \in Walks(problem, plans) /\ Behind(f, path, cursor)
      BY LeftBehindWalks DEF SearchInv
    <3>2. SettledBy(RankingCandidate(problem, Chosen(plans, f)), ranked)
      BY <2>1, <2>4, <3>1 DEF SearchInv, SettledInv, SettledBehind, SettledWalk
    <3> QED BY <2>2, <2>4, <3>1, <3>2, WalkRanking
  <2>5. CASE ranked = <<>> /\ result' = NoPlacementDecision(rejections)
    <3>1. \A f \in LeftBehind : ~ Valid(problem, Chosen(plans, f))
      BY <2>4, <2>5, EmptySeq DEF SettledBy
    <3>2. result'.outcome = "NoPlacement"
      BY <2>5, NoPlacementOutcome
    <3> QED BY <2>1, <3>1, <3>2 DEF BestOfTheSeen, Valid
  <2>6. CASE \E i \in DOMAIN ranked :
                /\ \A j \in DOMAIN ranked : ~ CandidateIsBetter(ranked[j], ranked[i])
                /\ result' = [outcome |-> "Placed", best |-> ranked[i]]
    <3>1. PICK i \in DOMAIN ranked :
                /\ \A j \in DOMAIN ranked : ~ CandidateIsBetter(ranked[j], ranked[i])
                /\ result' = [outcome |-> "Placed", best |-> ranked[i]]
      BY <2>6
    <3>2. result'.outcome = "Placed" /\ result'.best = ranked[i]
      BY <3>1
    <3>3. PICK s \in AllSelections(KeptChoices(plans)) :
             Valid(problem, s) /\ ranked[i] = RankingCandidate(problem, s)
      BY <2>3 DEF Rankings
    <3>4. ranked[i].selection = s
      BY <3>3 DEF RankingCandidate
    <3>5. ASSUME NEW f \in LeftBehind, Valid(problem, Chosen(plans, f))
          PROVE  ~ CandidateIsBetter(RankingCandidate(problem, Chosen(plans, f)), ranked[i])
      <4>1. PICK j \in DOMAIN ranked :
               ~ CandidateIsBetter(RankingCandidate(problem, Chosen(plans, f)), ranked[j])
        BY <2>4, <3>5 DEF SettledBy
      <4> QED BY <2>2, <2>3, <2>4, <3>1, <3>5, <4>1, NotBetterTransitive
    <3> QED BY <2>1, <3>2, <3>3, <3>4, <3>5 DEF BestOfTheSeen, Valid, KeptChoices
  <2> QED BY <1>4, <2>5, <2>6 DEF ChooseSelection
<1> QED
  BY <1>1, <1>2, <1>3, <1>4 DEF SearchNext, PlanRequirement, BeginSearch, StopSearch,
     EvaluateSelection, OpenRequirement, TryCandidate, LeaveRequirement, FinishSearch, Entering, InLoop

(***************************************************************************)
(* Wherever the bound on evaluations cuts a search short, for every        *)
(* request and every limit: what it places is valid, and nothing that the  *)
(* search has behind it is better, pruned and dropped walks included.      *)
(***************************************************************************)
THEOREM SearchFindsTheBestSeen == SearchSpec => []BestOfTheSeen
<1>1. SearchInit => BestOfTheSeen
  BY DEF SearchInit, BestOfTheSeen
<1>2. SearchInv /\ BestOfTheSeen /\ [SearchNext]_searchVars => BestOfTheSeen'
  BY SeenStep
<1> QED BY <1>1, <1>2, SearchInvariant, PTL DEF SearchSpec

-----------------------------------------------------------------------------
(***************************************************************************)
(* The reason of a refusal: a fold over the reasons that were counted, in  *)
(* the order of their enumeration.                                         *)
(***************************************************************************)
NoReason == [reason |-> "None", count |-> 0, priority |-> 0]

(* The best reason so far, after one more. *)
After(counts, reason, best) ==
    IF Outranks(reason, counts[reason], best)
    THEN [reason |-> reason, count |-> counts[reason], priority |-> ReasonPriority[reason]]
    ELSE best

(* h tabulates the fold for the sets in SS. *)
FoldsOver(counts, SS, h) ==
    h = [s \in SS |-> IF s = {} THEN NoReason
                      ELSE After(counts, RejectReasons[Max(s)], h[s \ {Max(s)}])]

(* The greatest place in a set of places. *)
LEMMA GreatestPlace ==
    ASSUME NEW m \in Nat, NEW s \in SUBSET (1..m), s # {}
    PROVE  Max(s) \in s /\ \A k \in s : k <= Max(s)
<1>1. s \in SUBSET Nat /\ \A k \in s : k <= m
  OBVIOUS
<1> QED BY <1>1, NatSetHasGreatest

(* The fold is defined for all sets of places. *)
LEMMA FoldExists ==
    ASSUME NEW counts, NEW n \in Nat
    PROVE  \E h : FoldsOver(counts, SUBSET (1..n), h)
<1> DEFINE Defined == {m \in Nat : \E h : FoldsOver(counts, SUBSET (1..m), h)}
<1>1. 0 \in Defined
  <2> DEFINE h == [s \in SUBSET (1..0) |-> NoReason]
  <2>1. \A s \in SUBSET (1..0) : s = {}
    OBVIOUS
  <2>2. FoldsOver(counts, SUBSET (1..0), h)
    BY <2>1 DEF FoldsOver
  <2> QED BY <2>2
<1>2. ASSUME NEW m \in Defined PROVE m + 1 \in Defined
  <2>1. m \in Nat
    OBVIOUS
  <2> DEFINE SS == SUBSET (1..m)
             TT == SUBSET (1..m + 1)
  <2>2. PICK g : FoldsOver(counts, SS, g)
    OBVIOUS
  <2> DEFINE h == [s \in TT |-> IF m + 1 \in s
                                 THEN After(counts, RejectReasons[m + 1], g[s \ {m + 1}])
                                 ELSE g[s]]
  <2>3. ASSUME NEW s \in TT
        PROVE  h[s] = IF s = {} THEN NoReason
                      ELSE After(counts, RejectReasons[Max(s)], h[s \ {Max(s)}])
    <3>1. CASE m + 1 \in s
      <4>0. m + 1 \in Nat /\ s \in SUBSET (1..m + 1) /\ s # {}
        BY <2>1, <3>1
      <4>1. Max(s) \in s /\ m + 1 <= Max(s)
        BY <3>1, <4>0, GreatestPlace
      <4>2. Max(s) = m + 1
        <5>1. Max(s) \in 1..m + 1
          BY <4>0, <4>1
        <5> QED BY <2>1, <4>1, <5>1
      <4>3. s \ {m + 1} \in SS /\ s \ {m + 1} \in TT /\ m + 1 \notin s \ {m + 1}
        BY <2>1
      <4> QED BY <3>1, <4>2, <4>3
    <3>2. CASE m + 1 \notin s
      <4>1. s \in SS
        BY <2>1, <3>2
      <4>2. h[s] = g[s]
        BY <3>2
      <4>3. g[s] = IF s = {} THEN NoReason
                   ELSE After(counts, RejectReasons[Max(s)], g[s \ {Max(s)}])
        BY <2>2, <4>1, Zenon DEF FoldsOver
      <4>4. s \ {Max(s)} \in TT /\ m + 1 \notin s \ {Max(s)}
        BY <3>2
      <4>5. h[s \ {Max(s)}] = g[s \ {Max(s)}]
        BY <4>4
      <4> HIDE DEF h
      <4> QED BY <4>2, <4>3, <4>5
    <3> QED BY <3>1, <3>2
  <2>4. h = [s \in TT |-> h[s]]
    OBVIOUS
  <2> HIDE DEF h, TT
  <2>5. FoldsOver(counts, TT, h)
    BY <2>3, <2>4 DEF FoldsOver
  <2> QED BY <2>1, <2>5 DEF TT
<1> HIDE DEF Defined
<1>3. Defined = Nat
  BY <1>1, <1>2, NatSetInduction DEF Defined
<1> QED BY <1>3 DEF Defined

(* The dominant reason is what the fold over the counted reasons comes to. *)
LEMMA DominantReasonFolds ==
    ASSUME NEW counts, NEW n \in Nat, Counted(counts) \in SUBSET (1..n)
    PROVE  \E h : /\ FoldsOver(counts, SUBSET Counted(counts), h)
                  /\ DominantReason(counts) = h[Counted(counts)].reason
<1> DEFINE C == Counted(counts)
           iter == CHOOSE h : FoldsOver(counts, SUBSET C, h)
<1>1. \E h : FoldsOver(counts, SUBSET C, h)
  <2>1. PICK g : FoldsOver(counts, SUBSET (1..n), g)
    BY FoldExists
  <2> HIDE DEF C
  <2> DEFINE h == [s \in SUBSET C |-> g[s]]
  <2>2. C \in SUBSET (1..n)
    BY DEF C
  <2>3. ASSUME NEW s \in SUBSET C
        PROVE  h[s] = IF s = {} THEN NoReason
                      ELSE After(counts, RejectReasons[Max(s)], h[s \ {Max(s)}])
    <3>1. s \in SUBSET (1..n) /\ s \ {Max(s)} \in SUBSET C
      BY <2>2
    <3>2. h[s] = g[s] /\ h[s \ {Max(s)}] = g[s \ {Max(s)}]
      BY <3>1
    <3>3. g[s] = IF s = {} THEN NoReason
                 ELSE After(counts, RejectReasons[Max(s)], g[s \ {Max(s)}])
      BY <2>1, <3>1, Zenon DEF FoldsOver
    <3> HIDE DEF h
    <3> QED BY <3>2, <3>3
  <2>4. h = [s \in SUBSET C |-> h[s]]
    OBVIOUS
  <2> HIDE DEF h
  <2>5. FoldsOver(counts, SUBSET C, h)
    BY <2>3, <2>4 DEF FoldsOver
  <2> QED BY <2>5
<1>2. FoldsOver(counts, SUBSET C, iter)
  BY <1>1
<1>3. DominantReason(counts) = iter[C].reason
  BY DEF DominantReason, MapThenFoldSet, FoldsOver, After, NoReason
<1> QED BY <1>2, <1>3

(* The reasons are twenty-two, and each has a priority. *)
LEMMA ReasonTable ==
    /\ DOMAIN RejectReasons = 1..22
    /\ \A i \in 1..22 : ReasonPriority[RejectReasons[i]] \in Nat /\ RejectReasons[i] # "None"
BY DEF RejectReasons, ReasonPriority

(* What the fold over the counted reasons up to the k-th has found. *)
Leading(counts, k, best) ==
    LET seen == {i \in Counted(counts) : i <= k}
    IN  IF seen = {} THEN best = NoReason
        ELSE \E i \in seen :
                /\ best.reason = RejectReasons[i]
                /\ best.count = counts[RejectReasons[i]]
                /\ best.priority = ReasonPriority[RejectReasons[i]]
                /\ \A j \in seen :
                      \/ counts[RejectReasons[j]] < counts[RejectReasons[i]]
                      \/ /\ counts[RejectReasons[j]] = counts[RejectReasons[i]]
                         /\ ReasonPriority[RejectReasons[i]] <= ReasonPriority[RejectReasons[j]]

(* One more reason keeps the best of those seen. *)
LEMMA AfterLeads ==
    ASSUME NEW counts \in [ToSet(RejectReasons) -> Nat], NEW k \in Nat, NEW best,
           k + 1 \in Counted(counts), Leading(counts, k, best)
    PROVE  Leading(counts, k + 1, After(counts, RejectReasons[k + 1], best))
<1> DEFINE count(i) == counts[RejectReasons[i]]
           rank(i) == ReasonPriority[RejectReasons[i]]
           seen == {i \in Counted(counts) : i <= k}
           more == {i \in Counted(counts) : i <= k + 1}
           new == After(counts, RejectReasons[k + 1], best)
           one == [reason |-> RejectReasons[k + 1], count |-> count(k + 1), priority |-> rank(k + 1)]
           Leads(i, S) == \A j \in S : count(j) < count(i) \/ (count(j) = count(i) /\ rank(i) <= rank(j))
<1>1. \A i \in Counted(counts) : i \in 1..22 /\ RejectReasons[i] # "None" /\ rank(i) \in Nat
  BY ReasonTable DEF Counted
<1>2. \A i \in Counted(counts) : count(i) \in Nat /\ count(i) > 0
  <2>1. \A i \in Counted(counts) : RejectReasons[i] \in ToSet(RejectReasons)
    BY <1>1, ReasonTable DEF ToSet
  <2> QED BY <2>1 DEF Counted
<1>3. more = seen \cup {k + 1} /\ k + 1 \notin seen /\ k + 1 \in more /\ seen \subseteq Counted(counts)
  BY <1>1
<1>4. one.reason = RejectReasons[k + 1] /\ one.count = count(k + 1) /\ one.priority = rank(k + 1)
  OBVIOUS
<1>5. new = IF Outranks(RejectReasons[k + 1], count(k + 1), best) THEN one ELSE best
  BY DEF After
<1>6. Outranks(RejectReasons[k + 1], count(k + 1), best) <=>
        \/ count(k + 1) > best.count
        \/ count(k + 1) = best.count /\ best.reason # "None" /\ rank(k + 1) < best.priority
  BY DEF Outranks
<1>7. SUFFICES \E i \in more : /\ new.reason = RejectReasons[i] /\ new.count = count(i)
                               /\ new.priority = rank(i) /\ Leads(i, more)
  BY <1>3 DEF Leading
<1>8. CASE seen = {}
  <2>1. best = NoReason
    BY <1>8 DEF Leading
  <2>2. best.count = 0
    BY <2>1 DEF NoReason
  <2>3. new = one
    BY <1>2, <1>5, <1>6, <2>2
  <2>4. Leads(k + 1, more)
    BY <1>1, <1>3, <1>8
  <2> HIDE DEF one, new
  <2> QED BY <1>3, <1>4, <2>3, <2>4
<1>9. CASE seen # {}
  <2>1. PICK i \in seen : /\ best.reason = RejectReasons[i] /\ best.count = count(i)
                          /\ best.priority = rank(i) /\ Leads(i, seen)
    BY <1>9 DEF Leading
  <2>2. /\ i \in Counted(counts) /\ i \in more /\ RejectReasons[i] # "None"
        /\ count(i) \in Nat /\ rank(i) \in Nat
    BY <1>1, <1>2, <1>3
  <2>3. count(k + 1) \in Nat /\ rank(k + 1) \in Nat
    BY <1>1, <1>2
  <2>4. \A j \in seen : count(j) \in Nat /\ rank(j) \in Nat
    BY <1>1, <1>2, <1>3
  <2> HIDE DEF one, new, seen, more, count, rank, Leads
  <2>5. CASE count(k + 1) > count(i) \/ (count(k + 1) = count(i) /\ rank(k + 1) < rank(i))
    <3>1. new = one
      BY <1>5, <1>6, <2>1, <2>2, <2>5
    <3>2. Leads(k + 1, more)
      <4>1. ASSUME NEW j \in more
            PROVE  count(j) < count(k + 1) \/ (count(j) = count(k + 1) /\ rank(k + 1) <= rank(j))
        <5>1. CASE j = k + 1
          BY <2>3, <5>1
        <5>2. CASE j \in seen
          <6>1. count(j) < count(i) \/ (count(j) = count(i) /\ rank(i) <= rank(j))
            BY <2>1, <5>2 DEF Leads
          <6> QED BY <2>2, <2>3, <2>4, <2>5, <5>2, <6>1
        <5> QED BY <1>3, <5>1, <5>2
      <4> QED BY <4>1 DEF Leads
    <3> QED BY <1>3, <1>4, <3>1, <3>2
  <2>6. CASE ~ (count(k + 1) > count(i) \/ (count(k + 1) = count(i) /\ rank(k + 1) < rank(i)))
    <3>1. new = best
      BY <1>5, <1>6, <2>1, <2>6
    <3>2. Leads(i, more)
      <4>1. ASSUME NEW j \in more
            PROVE  count(j) < count(i) \/ (count(j) = count(i) /\ rank(i) <= rank(j))
        <5>1. CASE j = k + 1
          BY <2>2, <2>3, <2>6, <5>1
        <5>2. CASE j \in seen
          BY <2>1, <5>2 DEF Leads
        <5> QED BY <1>3, <5>1, <5>2
      <4> QED BY <4>1 DEF Leads
    <3> QED BY <2>1, <2>2, <3>1, <3>2
  <2> QED BY <2>5, <2>6
<1> QED BY <1>8, <1>9

(* The dominant reason is counted, and leads all others. *)
LEMMA DominantReasonLeads ==
    ASSUME NEW counts \in [ToSet(RejectReasons) -> Nat]
    PROVE  \E best : /\ DominantReason(counts) = best.reason
                     /\ Leading(counts, 22, best)
<1> DEFINE C == Counted(counts)
           seen(k) == {i \in C : i <= k}
<1>1. C \in SUBSET (1..22)
  BY ReasonTable DEF Counted
<1>2. PICK h : FoldsOver(counts, SUBSET C, h) /\ DominantReason(counts) = h[C].reason
  BY <1>1, DominantReasonFolds
<1> DEFINE Led == {k \in Nat : Leading(counts, k, h[seen(k)])}
<1>3. \A s \in SUBSET C : h[s] = IF s = {} THEN NoReason
                               ELSE After(counts, RejectReasons[Max(s)], h[s \ {Max(s)}])
  BY <1>2, Zenon DEF FoldsOver
<1>4. 0 \in Led
  <2>1. seen(0) = {}
    BY <1>1
  <2>2. h[{}] = NoReason
    BY <1>3
  <2> QED BY <2>1, <2>2 DEF Leading
<1>5. ASSUME NEW k \in Led PROVE k + 1 \in Led
  <2>1. k \in Nat /\ Leading(counts, k, h[seen(k)])
    OBVIOUS
  <2>2. CASE k + 1 \in C
    <3>1. seen(k + 1) = seen(k) \cup {k + 1} /\ k + 1 \notin seen(k) /\ seen(k + 1) \in SUBSET C
      BY <1>1, <2>1, <2>2
    <3>2. Max(seen(k + 1)) = k + 1
      <4>1. seen(k + 1) \in SUBSET (1..k + 1) /\ seen(k + 1) # {} /\ k + 1 \in Nat
        BY <1>1, <2>1, <3>1
      <4>2. Max(seen(k + 1)) \in seen(k + 1) /\ k + 1 <= Max(seen(k + 1))
        BY <3>1, <4>1, GreatestPlace
      <4>3. Max(seen(k + 1)) \in 1..k + 1
        BY <4>1, <4>2
      <4> QED BY <2>1, <4>2, <4>3
    <3>3. seen(k + 1) # {} /\ seen(k + 1) \ {k + 1} = seen(k)
      BY <3>1
    <3>4. h[seen(k + 1)] = After(counts, RejectReasons[k + 1], h[seen(k)])
      BY <1>3, <3>1, <3>2, <3>3
    <3>5. Leading(counts, k + 1, h[seen(k + 1)])
      BY <2>1, <2>2, <3>4, AfterLeads
    <3> QED BY <2>1, <3>5
  <2>3. CASE k + 1 \notin C
    <3>1. seen(k + 1) = seen(k)
      BY <1>1, <2>1, <2>3
    <3>2. Leading(counts, k + 1, h[seen(k + 1)])
      BY <2>1, <3>1 DEF Leading
    <3> QED BY <2>1, <3>2
  <2> QED BY <2>2, <2>3
<1> HIDE DEF Led
<1>6. Led = Nat
  BY <1>4, <1>5, NatSetInduction DEF Led
<1>7. seen(22) = C
  BY <1>1
<1>8. Leading(counts, 22, h[C])
  BY <1>6, <1>7 DEF Led
<1> QED BY <1>2, <1>8

(* The reason that is named: the most frequent, and of those the first an operator can act on. *)
Named(counts) ==
    {reason \in DOMAIN counts :
        /\ counts[reason] > 0
        /\ \A x \in DOMAIN counts :
              \/ counts[x] < counts[reason]
              \/ counts[x] = counts[reason] /\ ReasonPriority[reason] <= ReasonPriority[x]}

(* The dominant reason is one that may be named, if any may. *)
LEMMA DominantReasonIsNamed ==
    ASSUME NEW counts \in [ToSet(RejectReasons) -> Nat]
    PROVE  IF Named(counts) = {} THEN DominantReason(counts) = "None"
           ELSE DominantReason(counts) \in Named(counts)
<1> DEFINE C == Counted(counts)
<1>1. PICK best : DominantReason(counts) = best.reason /\ Leading(counts, 22, best)
  BY DominantReasonLeads
<1>2. C \in SUBSET (1..22) /\ {i \in C : i <= 22} = C
  BY ReasonTable DEF Counted
<1>3. \A x \in ToSet(RejectReasons) : \E i \in 1..22 : x = RejectReasons[i]
  BY ReasonTable DEF ToSet
<1>4. \A i \in 1..22 : RejectReasons[i] \in ToSet(RejectReasons)
  BY ReasonTable DEF ToSet
<1>5. CASE C = {}
  <2>1. best.reason = "None"
    BY <1>1, <1>5 DEF Leading, NoReason
  <2>2. \A x \in ToSet(RejectReasons) : ~ (counts[x] > 0)
    BY <1>3, <1>5, ReasonTable DEF Counted
  <2>3. Named(counts) = {}
    BY <2>2 DEF Named
  <2> QED BY <1>1, <2>1, <2>3
<1>6. CASE C # {}
  <2>1. PICK i \in C :
           /\ best.reason = RejectReasons[i]
           /\ \A j \in C :
                 \/ counts[RejectReasons[j]] < counts[RejectReasons[i]]
                 \/ /\ counts[RejectReasons[j]] = counts[RejectReasons[i]]
                    /\ ReasonPriority[RejectReasons[i]] <= ReasonPriority[RejectReasons[j]]
    BY <1>1, <1>2, <1>6, Zenon DEF Leading
  <2> DEFINE r == RejectReasons[i]
  <2>2. r \in ToSet(RejectReasons) /\ counts[r] > 0 /\ counts[r] \in Nat
    BY <1>2, <1>4 DEF Counted
  <2>3. ASSUME NEW x \in ToSet(RejectReasons)
        PROVE  \/ counts[x] < counts[r]
               \/ counts[x] = counts[r] /\ ReasonPriority[r] <= ReasonPriority[x]
    <3>1. PICK j \in 1..22 : x = RejectReasons[j]
      BY <1>3
    <3>2. CASE j \in C
      BY <2>1, <3>1, <3>2
    <3>3. CASE j \notin C
      <4>1. ~ (counts[x] > 0) /\ counts[x] \in Nat
        BY <3>1, <3>3, ReasonTable DEF Counted
      <4> QED BY <2>2, <4>1
    <3> QED BY <3>2, <3>3
  <2> HIDE DEF r
  <2>4. r \in Named(counts)
    BY <2>2, <2>3 DEF Named
  <2> QED BY <1>1, <2>1, <2>4 DEF r
<1> QED BY <1>5, <1>6

(* A plan counts its reasons. *)
LEMMA PlanCounts ==
    ASSUME RequestOK(problem), PlansOK, NEW i \in DOMAIN plans
    PROVE  plans[i].counts \in [ToSet(RejectReasons) -> Nat]
<1> DEFINE requirement == problem.requirements[i]
           at(reason) == {r \in Considered(problem, requirement) :
                             reason \in ToSet(Reasons(problem, requirement, problem.resources[r]))}
<1>1. plans[i].counts = ReasonCounts(problem, requirement)
  <2>1. i \in 1..Len(plans)
    BY LenProperties DEF PlansOK
  <2>2. plans[i] = Plan(problem, requirement)
    BY <2>1 DEF PlansOK
  <2>3. Plan(problem, requirement).counts = ReasonCounts(problem, requirement)
    BY DEF Plan
  <2> HIDE DEF requirement
  <2> QED BY <2>2, <2>3
<1>2. ASSUME NEW reason PROVE Cardinality(at(reason)) \in Nat
  <2>1. IsFiniteSet(DOMAIN problem.resources)
    <3> DEFINE n == Len(problem.resources)
    <3>1. n \in Nat /\ DOMAIN problem.resources = 1..n
      BY DEF RequestOK
    <3> HIDE DEF n
    <3>2. IsFiniteSet(1..n)
      BY <3>1, FS_Interval
    <3> QED BY <3>1, <3>2
  <2>2. at(reason) \subseteq DOMAIN problem.resources
    BY DEF Considered
  <2>3. IsFiniteSet(at(reason))
    BY <2>1, <2>2, FS_Subset
  <2> QED BY <2>3, FS_CardinalityType
<1>3. ReasonCounts(problem, requirement) = [reason \in ToSet(RejectReasons) |-> Cardinality(at(reason))]
  BY DEF ReasonCounts
<1> HIDE DEF at
<1> QED BY <1>1, <1>2, <1>3

(* Every step names the right reason, if it refuses. *)
LEMMA FailureStep ==
    ASSUME SearchInv, FailureNamesTheClosestMiss, [SearchNext]_searchVars
    PROVE  FailureNamesTheClosestMiss'
<1> DEFINE R == ToSet(RejectReasons)
<1>1. CASE UNCHANGED searchVars
  <2>1. /\ phase' = phase /\ plans' = plans /\ rejections' = rejections /\ result' = result
        /\ Unsatisfied' = Unsatisfied
    BY <1>1 DEF searchVars, Unsatisfied
  <2> QED BY <2>1 DEF FailureNamesTheClosestMiss
<1>2. CASE phase' # "done"
  BY <1>2 DEF FailureNamesTheClosestMiss
<1>3. CASE RejectUnsatisfied
  <2> DEFINE first == Min(Unsatisfied)
             counts == plans[first].counts
  <2>1. /\ result' = NoPlacementDecision(counts) /\ plans' = plans /\ Unsatisfied # {}
        /\ RequestOK(problem) /\ PlansOK
    BY <1>3, ProblemOK DEF RejectUnsatisfied, SearchInv, PhaseInv
  <2>2. first \in DOMAIN plans
    <3>1. Unsatisfied \in SUBSET Nat
      BY <2>1, LenProperties DEF Unsatisfied, PlansOK
    <3>2. \E i \in Unsatisfied : \A k \in Unsatisfied : i <= k
      BY <2>1, <3>1, NatSetHasLeast
    <3>3. first \in Unsatisfied
      BY <3>2 DEF Min
    <3> QED BY <3>3 DEF Unsatisfied
  <2>3. counts \in [R -> Nat]
    BY <2>1, <2>2, PlanCounts
  <2>4. Unsatisfied' = Unsatisfied
    BY <2>1 DEF Unsatisfied
  <2>5. result'.reason = DominantReason(counts)
    BY <2>1, NoPlacementOutcome
  <2>6. plans'[Min(Unsatisfied')].counts = counts
    BY <2>1, <2>4
  <2> HIDE DEF counts
  <2>7. IF Named(counts) = {} THEN DominantReason(counts) = "None"
        ELSE DominantReason(counts) \in Named(counts)
    BY <2>3, DominantReasonIsNamed
  <2> QED BY <2>1, <2>4, <2>5, <2>6, <2>7 DEF FailureNamesTheClosestMiss, Named
<1>4. CASE ChooseSelection
  <2>1. /\ Unsatisfied' = Unsatisfied /\ Unsatisfied = {} /\ rejections' = rejections
        /\ rejections \in [R -> Nat]
    BY <1>4 DEF ChooseSelection, SearchInv, PhaseInv, CountInv, Unsatisfied
  <2>2. CASE ranked = <<>>
    <3>1. result'.reason = DominantReason(rejections)
      BY <1>4, <2>2, EmptySeq, NoPlacementOutcome DEF ChooseSelection
    <3>2. IF Named(rejections) = {} THEN DominantReason(rejections) = "None"
          ELSE DominantReason(rejections) \in Named(rejections)
      BY <2>1, DominantReasonIsNamed
    <3> QED BY <2>1, <3>1, <3>2 DEF FailureNamesTheClosestMiss, Named
  <2>3. CASE ranked # <<>>
    <3>1. result'.outcome = "Placed"
      BY <1>4, <2>3 DEF ChooseSelection
    <3> QED BY <3>1 DEF FailureNamesTheClosestMiss
  <2> QED BY <2>2, <2>3
<1> QED
  <2>1. ASSUME SearchNext, ~ RejectUnsatisfied, ~ ChooseSelection PROVE phase' # "done"
    BY <2>1 DEF SearchNext, PlanRequirement, BeginSearch, StopSearch, EvaluateSelection,
       OpenRequirement, TryCandidate, LeaveRequirement, FinishSearch, Entering, InLoop
  <2> QED BY <1>1, <1>2, <1>3, <1>4, <2>1

(***************************************************************************)
(* A refusal names the reason that was counted most often, and of several  *)
(* the one an operator can act on first: the fold over the counts, in the  *)
(* order of the reasons, never settles on another.                         *)
(***************************************************************************)
THEOREM RefusalsNameTheClosestMiss == SearchSpec => []FailureNamesTheClosestMiss
<1>1. SearchInit => FailureNamesTheClosestMiss
  BY DEF SearchInit, FailureNamesTheClosestMiss
<1>2. SearchInv /\ FailureNamesTheClosestMiss /\ [SearchNext]_searchVars => FailureNamesTheClosestMiss'
  BY FailureStep
<1> QED BY <1>1, <1>2, SearchInvariant, PTL DEF SearchSpec

-----------------------------------------------------------------------------
(***************************************************************************)
(* Collapsing.  Candidates with the same key are worth the same and lie in *)
(* the same places, so a selection may take the first of each.             *)
(***************************************************************************)
KeyScopes == {"Host", "Rack", "Cluster"}

(* The key decides all that a selection looks at, save local copies and other scopes. *)
LEMMA KeyDecides ==
    ASSUME RequestOK(problem), NEW i \in 1..Requirements,
           NEW c \in EligibleCandidates(problem, problem.requirements[i]),
           NEW d \in EligibleCandidates(problem, problem.requirements[i]),
           InterchangeabilityKey(problem, c) = InterchangeabilityKey(problem, d)
    PROVE  /\ c.partial = d.partial
           /\ c.exclusive = d.exclusive
           /\ \A scope \in KeyScopes : Place(problem, c, scope) = Place(problem, d, scope)
           /\ problem.resources[c.resource].reused = problem.resources[d.resource].reused
<1> DEFINE requirement == problem.requirements[i]
           rc == problem.resources[c.resource]
           rd == problem.resources[d.resource]
<1>1. /\ c.resource \in DOMAIN problem.resources /\ d.resource \in DOMAIN problem.resources
      /\ c = Candidate(problem, requirement, c.resource)
      /\ d = Candidate(problem, requirement, d.resource)
  BY SelectedPartial DEF Requirements
<1>2. /\ c.additive = d.additive /\ c.exclusive = d.exclusive
      /\ rc.place["Host"] = rd.place["Host"]
      /\ rc.place["Rack"] = rd.place["Rack"]
      /\ rc.place["Cluster"] = rd.place["Cluster"]
  BY DEF InterchangeabilityKey
<1>3. ASSUME NEW r
      PROVE  /\ Candidate(problem, requirement, r).additive =
                    AdditiveValues(problem, requirement, problem.resources[r])
             /\ Candidate(problem, requirement, r).partial =
                    WeightedAdditive(problem, Candidate(problem, requirement, r).additive)
  BY DEF Candidate
<1>4. c.partial = d.partial
  BY <1>1, <1>2, <1>3
<1>5. rc.reused = rd.reused
  <2>1. rc.reused \in BOOLEAN /\ rd.reused \in BOOLEAN
    BY <1>1 DEF RequestOK, ResourceOK
  <2>2. AdditiveValues(problem, requirement, rc).Reuse = AdditiveValues(problem, requirement, rd).Reuse
    BY <1>1, <1>2, <1>3
  <2>3. ASSUME NEW r
        PROVE  AdditiveValues(problem, requirement, r).Reuse = IF r.reused THEN FactorUnit ELSE 0
    BY DEF AdditiveValues
  <2> HIDE DEF rc, rd
  <2>4. (IF rc.reused THEN FactorUnit ELSE 0) = (IF rd.reused THEN FactorUnit ELSE 0)
    BY <2>2, <2>3
  <2> QED BY <2>1, <2>4 DEF FactorUnit
<1>6. \A scope \in KeyScopes : Place(problem, c, scope) = Place(problem, d, scope)
  BY <1>2 DEF Place, KeyScopes
<1> QED BY <1>2, <1>4, <1>5, <1>6

(* The first candidate with the key of c is kept. *)
LEMMA FirstOfTheKey ==
    ASSUME RequestOK(problem), NEW i \in 1..Requirements,
           NEW c \in EligibleCandidates(problem, problem.requirements[i])
    PROVE  \E d \in Collapsed(problem, EligibleCandidates(problem, problem.requirements[i])) :
              /\ InterchangeabilityKey(problem, d) = InterchangeabilityKey(problem, c)
              /\ d.resource <= c.resource
<1> DEFINE E == EligibleCandidates(problem, problem.requirements[i])
           D == {d \in E : InterchangeabilityKey(problem, d) = InterchangeabilityKey(problem, c)}
           ids == {d.resource : d \in D}
<1>1. \A d \in E : d.resource \in Nat /\ d.partial \in Int
  <2>1. DOMAIN problem.resources \subseteq Nat
    BY DEF RequestOK
  <2> QED BY <2>1, SelectedPartial DEF Requirements
<1>2. \A d, e \in D : d.partial = e.partial
  BY KeyDecides
<1> HIDE DEF E
<1>3. ids \in SUBSET Nat /\ ids # {}
  BY <1>1 DEF E
<1>4. PICK least \in ids : \A k \in ids : least <= k
  <2> HIDE DEF ids
  <2> QED BY <1>3, NatSetHasLeast
<1>5. PICK d \in D : d.resource = least
  BY <1>4
<1>6. ASSUME NEW e \in E, Before(e, d),
             InterchangeabilityKey(problem, e) = InterchangeabilityKey(problem, d)
      PROVE  FALSE
  <2>1. e \in D
    BY <1>5, <1>6
  <2>2. e.partial = d.partial /\ least <= e.resource
    BY <1>2, <1>4, <1>5, <2>1
  <2>3. e.resource \in Nat /\ d.resource \in Nat /\ e.partial \in Int /\ d.partial \in Int
    BY <1>1, <1>5
  <2> QED BY <1>5, <1>6, <2>2, <2>3 DEF Before
<1>7. d \in Collapsed(problem, E)
  BY <1>5, <1>6 DEF Collapsed
<1>8. d.resource <= c.resource
  BY <1>4, <1>5 DEF E
<1> QED BY <1>5, <1>7, <1>8 DEF E

(* Two selections that the whole of a score and of a validity check cannot tell apart. *)
Alike(s, t) ==
    /\ s \in AllSelections(Eligible(problem)) /\ t \in AllSelections(Eligible(problem))
    /\ \A i \in 1..Requirements :
          /\ s[i].partial = t[i].partial
          /\ s[i].exclusive = t[i].exclusive
          /\ \A scope \in KeyScopes : Place(problem, s[i], scope) = Place(problem, t[i], scope)
          /\ problem.resources[s[i].resource].reused = problem.resources[t[i].resource].reused
          /\ problem.resources[s[i].resource].local = problem.resources[t[i].resource].local

(* Alike selections are as long as the request. *)
LEMMA AlikeShape ==
    ASSUME RequestOK(problem), NEW s, NEW t, Alike(s, t)
    PROVE  /\ DOMAIN s = 1..Requirements /\ DOMAIN t = 1..Requirements
           /\ Len(s) = Requirements /\ Len(t) = Requirements
BY SelectionLength DEF Alike, Requirements

(* Places of alike selections relate alike. *)
LEMMA AlikePlaces ==
    ASSUME NEW s, NEW t, Alike(s, t), NEW i \in 1..Requirements, NEW j \in 1..Requirements,
           NEW scope \in KeyScopes
    PROVE  /\ SameDomain(problem, s[i], s[j], scope) <=> SameDomain(problem, t[i], t[j], scope)
           /\ ApartDomain(problem, s[i], s[j], scope) <=> ApartDomain(problem, t[i], t[j], scope)
           /\ Place(problem, s[i], scope) = Place(problem, t[i], scope)
BY DEF Alike, SameDomain, ApartDomain

(* Alike selections without repetition are valid together. *)
LEMMA AlikeValid ==
    ASSUME RequestOK(problem), NEW s, NEW t, Alike(s, t), ~ Repeats(t), Valid(problem, s),
           \A c \in problem.affinity \cup problem.antiAffinity : c.scope \in KeyScopes
    PROVE  Valid(problem, t)
<1>1. DOMAIN s = 1..Requirements /\ DOMAIN t = 1..Requirements
  BY AlikeShape
<1>2. /\ AffinityHolds(problem, s) /\ AntiAffinityHolds(problem, s)
      /\ ApartFromExperiment(problem, s)
      /\ ~ (problem.exclusive /\ \E i \in DOMAIN s : ~ s[i].exclusive)
  BY DEF Valid, SelectionFailure
<1>3. ASSUME NEW group PROVE InGroup(problem, s, group) = InGroup(problem, t, group)
                             /\ InGroup(problem, t, group) \subseteq 1..Requirements
  BY <1>1 DEF InGroup
<1>4. AffinityHolds(problem, t)
  <2>1. SUFFICES ASSUME NEW c \in problem.affinity,
                        NEW i \in InGroup(problem, t, c.a), NEW j \in InGroup(problem, t, c.b)
                 PROVE  SameDomain(problem, t[i], t[j], c.scope)
    BY DEF AffinityHolds
  <2>2. SameDomain(problem, s[i], s[j], c.scope)
    BY <1>2, <1>3 DEF AffinityHolds
  <2>3. i \in 1..Requirements /\ j \in 1..Requirements /\ c.scope \in KeyScopes
    BY <1>3
  <2> QED BY <2>2, <2>3, AlikePlaces
<1>5. AntiAffinityHolds(problem, t)
  <2>1. SUFFICES ASSUME NEW c \in problem.antiAffinity,
                        NEW i \in InGroup(problem, t, c.a), NEW j \in InGroup(problem, t, c.b)
                 PROVE  ApartDomain(problem, t[i], t[j], c.scope)
    BY DEF AntiAffinityHolds
  <2>2. ApartDomain(problem, s[i], s[j], c.scope)
    BY <1>2, <1>3 DEF AntiAffinityHolds
  <2>3. i \in 1..Requirements /\ j \in 1..Requirements /\ c.scope \in KeyScopes
    BY <1>3
  <2> QED BY <2>2, <2>3, AlikePlaces
<1>6. ApartFromExperiment(problem, t)
  BY <1>1, <1>2 DEF ApartFromExperiment, Alike
<1>7. ~ (problem.exclusive /\ \E i \in DOMAIN t : ~ t[i].exclusive)
  BY <1>1, <1>2 DEF Alike
<1> QED BY <1>4, <1>5, <1>6, <1>7 DEF Valid, SelectionFailure

(* Alike selections have the same score. *)
LEMMA AlikeScore ==
    ASSUME RequestOK(problem), NEW s, NEW t, Alike(s, t)
    PROVE  Score(problem, s) = Score(problem, t)
<1> DEFINE n == Requirements
<1>1. DOMAIN s = 1..n /\ DOMAIN t = 1..n /\ Len(s) = n /\ Len(t) = n
  BY AlikeShape
<1>2. \A i, j \in 1..n, scope \in KeyScopes :
         /\ SameDomain(problem, s[i], s[j], scope) <=> SameDomain(problem, t[i], t[j], scope)
         /\ Place(problem, s[i], scope) = Place(problem, t[i], scope)
  BY AlikePlaces
<1>3. "Host" \in KeyScopes /\ "Rack" \in KeyScopes /\ "Cluster" \in KeyScopes
  BY DEF KeyScopes
<1> HIDE DEF n
<1>4. DominantHostShare(problem, s) = DominantHostShare(problem, t)
  <2> DEFINE near(i, x) == {j \in 1..n : j = i \/ SameDomain(problem, x[i], x[j], "Host")}
             shares(x) == {Cardinality(near(i, x)) : i \in 1..n}
  <2>1. \A i \in 1..n : near(i, s) = near(i, t)
    BY <1>2, <1>3
  <2>2. shares(s) = shares(t)
    <3> HIDE DEF near
    <3> QED BY <2>1
  <2>3. DominantHostShare(problem, s) = Max(shares(s)) /\ DominantHostShare(problem, t) = Max(shares(t))
    BY <1>1 DEF DominantHostShare
  <2> HIDE DEF shares
  <2> QED BY <2>2, <2>3
<1>5. Locality(problem, s) = Locality(problem, t)
  BY <1>1, <1>4 DEF Locality
<1>6. ASSUME NEW scope \in KeyScopes
      PROVE  DomainCount(problem, s, scope) = DomainCount(problem, t, scope)
  <2> DEFINE K(x) == KnownAt(problem, x, scope)
             places(x) == {Place(problem, x[i], scope) : i \in K(x)}
  <2>1. K(s) = K(t) /\ K(t) \subseteq 1..n
    BY <1>1, <1>2 DEF KnownAt
  <2> HIDE DEF K
  <2>2. places(s) = places(t)
    BY <1>2, <2>1
  <2> HIDE DEF places
  <2>3. /\ DomainCount(problem, s, scope) = Cardinality(places(s)) + Cardinality(1..n \ K(s))
        /\ DomainCount(problem, t, scope) = Cardinality(places(t)) + Cardinality(1..n \ K(t))
    BY <1>1 DEF DomainCount, places, K
  <2> QED BY <2>1, <2>2, <2>3
<1>7. TopologyDistance(problem, s) = TopologyDistance(problem, t)
  BY <1>3, <1>6 DEF TopologyDistance
<1>8. DatasetLocality(problem, s) = DatasetLocality(problem, t)
  <2> DEFINE datasets == {i \in 1..n : problem.requirements[i].class = "Dataset"}
             colocated(x) == {i \in datasets : \E j \in 1..n \ datasets :
                                 SameDomain(problem, x[j], x[i], "Host")}
             local(x) == {i \in datasets \ colocated(x) : problem.resources[x[i].resource].local}
  <2>1. colocated(s) = colocated(t)
    BY <1>2, <1>3
  <2>2. \A i \in 1..n : problem.resources[s[i].resource].local = problem.resources[t[i].resource].local
    BY DEF Alike, n
  <2>3. local(s) = local(t)
    <3> HIDE DEF colocated
    <3> QED BY <2>1, <2>2
  <2>4. \A x \in {s, t} : DatasetLocality(problem, x) =
          IF datasets = {} THEN FactorUnit
          ELSE (Cardinality(colocated(x)) * FactorUnit + Cardinality(local(x)) * (FactorUnit \div 2)
                + Cardinality(datasets \ (colocated(x) \cup local(x))) * (FactorUnit \div 4))
               \div Cardinality(datasets)
    BY <1>1 DEF DatasetLocality
  <2> HIDE DEF datasets, colocated, local
  <2> QED BY <2>1, <2>3, <2>4
<1>9. CrossValues(problem, s) = CrossValues(problem, t)
  BY <1>5, <1>7, <1>8 DEF CrossValues
<1>10. [i \in DOMAIN s |-> s[i].partial] = [i \in DOMAIN t |-> t[i].partial]
  BY <1>1 DEF Alike, n
<1> QED BY <1>1, <1>9, <1>10 DEF Score

(***************************************************************************)
(* Order statistics: if every resource of t comes no later than the one of *)
(* s in its place, the sorted resources of s do not precede those of t.    *)
(***************************************************************************)
LEMMA SmallerKeyDoesNotFollow ==
    ASSUME RequestOK(problem), NEW s \in AllSelections(Eligible(problem)), ~ Repeats(s),
           NEW t \in AllSelections(Eligible(problem)), ~ Repeats(t),
           \A i \in 1..Requirements : t[i].resource <= s[i].resource
    PROVE  ~ Precedes(CanonicalResourceKey(s), CanonicalResourceKey(t))
<1> DEFINE n == Requirements
           a == CanonicalResourceKey(s)
           b == CanonicalResourceKey(t)
<1>1. n \in Nat /\ DOMAIN s = 1..n /\ DOMAIN t = 1..n
  BY SelectionLength DEF RequestOK, Requirements
<1>2. \A i \in 1..n : s[i].resource \in Nat /\ t[i].resource \in Nat
  <2>1. DOMAIN problem.resources \subseteq Nat
    BY DEF RequestOK
  <2>2. \A i \in 1..n : s[i].resource \in DOMAIN problem.resources
                         /\ t[i].resource \in DOMAIN problem.resources
    BY SelectionLength, SelectedPartial DEF Requirements
  <2> QED BY <2>1, <2>2
<1>3. /\ a \in [1..n -> Int] /\ b \in [1..n -> Int]
      /\ Cardinality(Identities(s)) = n /\ Cardinality(Identities(t)) = n
      /\ Lists(a, Identities(s), LessThan) /\ Lists(b, Identities(t), LessThan)
  BY KeyType
<1>4. /\ \A j \in 1..n : \E i \in 1..n : s[i].resource = a[j]
      /\ \A i \in 1..n : \E j \in 1..n : b[j] = t[i].resource
      /\ \A j, k \in 1..n : j < k => a[j] < a[k] /\ b[j] < b[k]
  <2>1. /\ \A j \in 1..n : a[j] \in Identities(s)
        /\ \A x \in Identities(t) : \E j \in 1..n : b[j] = x
        /\ \A j, k \in 1..n : j < k => <<a[j], a[k]>> \in LessThan /\ <<b[j], b[k]>> \in LessThan
    BY <1>3 DEF Lists
  <2>2. \A i \in 1..n : t[i].resource \in Identities(t)
    BY <1>1 DEF Identities
  <2>3. \A j \in 1..n : \E i \in 1..n : s[i].resource = a[j]
    BY <1>1, <2>1 DEF Identities
  <2> HIDE DEF a, b, n
  <2>4. \A j, k \in 1..n : j < k => a[j] < a[k] /\ b[j] < b[k]
    BY <2>1 DEF LessThan
  <2> QED BY <2>1, <2>2, <2>3, <2>4
<1>5. \A i, j \in 1..n : i # j => t[i].resource # t[j].resource
  <2>1. \A i, j \in 1..n : i < j => t[i].resource # t[j].resource
    BY <1>1 DEF Repeats
  <2> HIDE DEF n
  <2> QED BY <1>1, <2>1
<1> HIDE DEF a, b, n
<1>6. SUFFICES ASSUME NEW k \in 1..n, a[k] < b[k] PROVE FALSE
  BY <1>3 DEF Precedes, a, b
<1> DEFINE from(j) == CHOOSE i \in 1..n : s[i].resource = a[j]
           to(j) == CHOOSE x \in 1..n : b[x] = t[from(j)].resource
           f == [j \in 1..k |-> to(j)]
<1>7. ASSUME NEW j \in 1..k
      PROVE  /\ j \in 1..n /\ from(j) \in 1..n /\ s[from(j)].resource = a[j]
             /\ to(j) \in 1..n /\ b[to(j)] = t[from(j)].resource
  <2>1. j \in 1..n
    BY <1>1
  <2>2. from(j) \in 1..n /\ s[from(j)].resource = a[j]
    BY <1>4, <2>1
  <2> HIDE DEF from
  <2> QED BY <1>4, <2>1, <2>2
<1> HIDE DEF from, to
<1>8. ASSUME NEW j \in 1..k PROVE to(j) \in 1..k - 1
  <2>1. a[j] <= a[k] /\ a[j] \in Int /\ a[k] \in Int /\ b[k] \in Int
    <3>1. j = k \/ j < k
      BY <1>1
    <3>2. a[j] \in Int /\ a[k] \in Int /\ b[k] \in Int
      BY <1>3, <1>7
    <3>3. j \in 1..n /\ (j < k => a[j] < a[k])
      BY <1>4, <1>7
    <3>4. j = k => a[j] = a[k]
      OBVIOUS
    <3>5. a[j] <= a[k]
      BY <3>1, <3>2, <3>3, <3>4
    <3> QED BY <3>2, <3>5
  <2>2. b[to(j)] <= a[j] /\ b[to(j)] \in Int
    <3>1. t[from(j)].resource <= s[from(j)].resource
      BY <1>7 DEF n
    <3>2. b[to(j)] \in Int
      BY <1>3, <1>7
    <3> QED BY <1>7, <3>1, <3>2
  <2>3. b[to(j)] < b[k]
    BY <1>6, <2>1, <2>2
  <2>4. ~ (k < to(j)) /\ to(j) # k
    <3>1. k < to(j) => b[k] < b[to(j)]
      BY <1>4, <1>7
    <3> QED BY <2>1, <2>2, <2>3, <3>1
  <2>5. to(j) \in Nat /\ k \in Nat /\ 1 <= to(j)
    BY <1>1, <1>7
  <2> QED BY <2>4, <2>5
<1>9. \A i, j \in 1..k : i # j => to(i) # to(j)
  <2>1. SUFFICES ASSUME NEW i \in 1..k, NEW j \in 1..k, i # j, to(i) = to(j) PROVE FALSE
    OBVIOUS
  <2>2. t[from(i)].resource = t[from(j)].resource
    BY <1>7, <2>1
  <2>3. from(i) = from(j)
    BY <1>5, <1>7, <2>2
  <2>4. a[i] = a[j]
    BY <1>7, <2>3
  <2>5. i < j \/ j < i
    BY <1>1, <2>1
  <2>6. a[i] \in Int /\ a[j] \in Int
    BY <1>3, <1>7
  <2>7. (i < j => a[i] < a[j]) /\ (j < i => a[j] < a[i])
    BY <1>4, <1>7
  <2> QED BY <2>4, <2>5, <2>6, <2>7
<1>10. f \in [1..k -> 1..k - 1] /\ \A j \in 1..k : f[j] = to(j)
  BY <1>8
<1> HIDE DEF f
<1>11. \E i, j \in 1..k : i # j /\ f[i] = f[j]
  <2>1. k \in Nat /\ k - 1 \in Nat
    BY <1>1
  <2>2. /\ IsFiniteSet(1..k) /\ Cardinality(1..k) = k
        /\ IsFiniteSet(1..k - 1) /\ Cardinality(1..k - 1) = k - 1
    <3>1. 1 \in Int /\ k \in Int /\ k - 1 \in Int
      BY <2>1
    <3>2. /\ IsFiniteSet(1..k) /\ Cardinality(1..k) = IF 1 > k THEN 0 ELSE k - 1 + 1
          /\ IsFiniteSet(1..k - 1) /\ Cardinality(1..k - 1) = IF 1 > k - 1 THEN 0 ELSE (k - 1) - 1 + 1
      BY <3>1, FS_Interval
    <3> QED BY <1>1, <2>1, <3>2
  <2>3. Cardinality(1..k - 1) < Cardinality(1..k)
    BY <2>1, <2>2
  <2> QED BY <1>10, <2>2, <2>3, FS_PigeonHole
<1> QED BY <1>9, <1>10, <1>11

(***************************************************************************)
(* For every valid selection of eligible candidates there is one of kept   *)
(* candidates that is at least as good.                                    *)
(***************************************************************************)
LEMMA CollapseKeepsOneAsGood ==
    ASSUME RequestOK(problem), Collapsible,
           NEW s \in AllSelections(Eligible(problem)), Valid(problem, s),
           NEW choices, DOMAIN choices = 1..Requirements,
           \A i \in 1..Requirements :
              choices[i] = Collapsed(problem, EligibleCandidates(problem, problem.requirements[i]))
    PROVE  \E t \in AllSelections(choices) :
              /\ Valid(problem, t)
              /\ t \in AllSelections(Eligible(problem))
              /\ ~ CandidateIsBetter(RankingCandidate(problem, s), RankingCandidate(problem, t))
<1> DEFINE n == Requirements
           E(i) == EligibleCandidates(problem, problem.requirements[i])
           First(i, d) == /\ d \in Collapsed(problem, E(i))
                          /\ InterchangeabilityKey(problem, d) = InterchangeabilityKey(problem, s[i])
                          /\ d.resource <= s[i].resource
           t == [i \in 1..n |-> CHOOSE d : First(i, d)]
<1>1. DOMAIN s = 1..n /\ \A i \in 1..n : s[i] \in E(i)
  BY SelectionLength DEF Requirements
<1>2. ASSUME NEW i \in 1..n PROVE First(i, t[i])
  <2>1. \E d : First(i, d)
    BY <1>1, FirstOfTheKey
  <2> HIDE DEF First
  <2> QED BY <2>1
<1>3. t = [i \in 1..n |-> t[i]] /\ DOMAIN t = 1..n
  OBVIOUS
<1> HIDE DEF t
<1>4. \A i \in 1..n : t[i] \in Collapsed(problem, E(i)) /\ t[i] \in E(i)
  BY <1>2 DEF Collapsed
<1>5. t \in AllSelections(choices)
  <2>1. \A i \in 1..n : t[i] \in choices[i]
    BY <1>4
  <2> HIDE DEF n
  <2>2. DOMAIN choices = 1..n
    BY DEF n
  <2>3. t \in [1..n -> UNION {choices[i] : i \in 1..n}]
    BY <1>3, <2>1
  <2> QED BY <2>1, <2>2, <2>3 DEF AllSelections
<1>6. t \in AllSelections(Eligible(problem))
  <2>1. DOMAIN Eligible(problem) = 1..n /\ \A i \in 1..n : Eligible(problem)[i] = E(i)
    BY DEF Eligible, Requirements
  <2> HIDE DEF n, E
  <2>2. t \in [1..n -> UNION {Eligible(problem)[i] : i \in 1..n}]
    BY <1>3, <1>4, <2>1
  <2> QED BY <1>4, <2>1, <2>2 DEF AllSelections
<1>7. Alike(s, t)
  <2>1. ASSUME NEW i \in 1..n
        PROVE  /\ s[i].partial = t[i].partial
               /\ s[i].exclusive = t[i].exclusive
               /\ \A scope \in KeyScopes : Place(problem, s[i], scope) = Place(problem, t[i], scope)
               /\ problem.resources[s[i].resource].reused = problem.resources[t[i].resource].reused
    BY <1>1, <1>2, <1>4, KeyDecides
  <2>2. ASSUME NEW i \in 1..n
        PROVE  problem.resources[s[i].resource].local = problem.resources[t[i].resource].local
    <3>1. s[i].resource \in DOMAIN problem.resources /\ t[i].resource \in DOMAIN problem.resources
      BY <1>1, <1>4, SelectedPartial DEF Requirements
    <3> QED BY <3>1 DEF Collapsible
  <2> QED BY <1>6, <2>1, <2>2 DEF Alike
<1>8. ~ Repeats(t)
  <2>1. SUFFICES ASSUME NEW i \in 1..n, NEW j \in 1..n, i < j, t[i].resource = t[j].resource
                 PROVE  FALSE
    BY <1>3 DEF Repeats
  <2>2. ASSUME NEW k \in 1..n
        PROVE  problem.resources[t[k].resource].class = problem.requirements[k].class
    <3>1. PICK r \in Considered(problem, problem.requirements[k]) :
             t[k] = Candidate(problem, problem.requirements[k], r)
      BY <1>4 DEF EligibleCandidates
    <3>2. t[k].resource = r
      BY <3>1 DEF Candidate
    <3> QED BY <3>2 DEF Considered
  <2>3. i # j
    BY <2>1, ProblemOK DEF RequestOK, Requirements
  <2> QED BY <2>1, <2>2, <2>3 DEF Collapsible
<1>9. Valid(problem, t)
  <2>1. \A c \in problem.affinity \cup problem.antiAffinity : c.scope \in KeyScopes
    BY DEF Collapsible, KeyScopes
  <2> QED BY <1>7, <1>8, <2>1, AlikeValid
<1>10. ~ Repeats(s)
  BY DEF Valid, SelectionFailure
<1>11. Score(problem, s) = Score(problem, t) /\ Score(problem, s) \in Int
  BY <1>7, AlikeScore, ScoreBounds
<1>12. ~ Precedes(CanonicalResourceKey(s), CanonicalResourceKey(t))
  <2>1. \A i \in 1..n : t[i].resource <= s[i].resource
    BY <1>2
  <2> QED BY <1>6, <1>8, <1>10, <2>1, SmallerKeyDoesNotFollow
<1>13. ~ CandidateIsBetter(RankingCandidate(problem, s), RankingCandidate(problem, t))
  <2>1. ASSUME NEW x
        PROVE  /\ RankingCandidate(problem, x).raw = Score(problem, x)
               /\ RankingCandidate(problem, x).tie = CanonicalResourceKey(x)
    BY DEF RankingCandidate
  <2> QED BY <1>11, <1>12, <2>1 DEF CandidateIsBetter
<1> QED BY <1>5, <1>6, <1>9, <1>13

(* A search that found the best of what it kept found the best there is. *)
LEMMA BestOfAll ==
    ASSUME SearchInv PROVE CollapseKeepsTheBest
<1> DEFINE choices == [i \in 1..Requirements |-> EligibleCandidates(problem, problem.requirements[i])]
           kept == KeptChoices(plans)
<1>1. SUFFICES ASSUME SearchedAll, Collapsible, \A i \in DOMAIN plans : ~ plans[i].capped
               PROVE  IsBestOf(choices)
  BY DEF CollapseKeepsTheBest, CollapseChangesNothing
<1>2. /\ RequestOK(problem) /\ Requirements \in Nat /\ PlansOK /\ Len(plans) = Requirements
  BY <1>1, ProblemOK DEF SearchInv, PhaseInv, SearchedAll
<1>3. choices = Eligible(problem)
  BY DEF Eligible, Requirements
<1>4. /\ DOMAIN plans = 1..Requirements /\ DOMAIN kept = 1..Requirements
      /\ \A i \in 1..Requirements :
            kept[i] = Collapsed(problem, EligibleCandidates(problem, problem.requirements[i]))
  <2>1. DOMAIN plans = 1..Requirements
    BY <1>2, LenProperties DEF PlansOK
  <2>2. \A i \in 1..Requirements : kept[i] = ToSet(plans[i].candidates)
    BY <2>1 DEF KeptChoices
  <2>3. \A i \in 1..Requirements :
           ToSet(plans[i].candidates)
               = Collapsed(problem, EligibleCandidates(problem, problem.requirements[i]))
    BY <1>1, <1>2, <2>1, PlanFacts
  <2> QED BY <2>1, <2>2, <2>3 DEF KeptChoices
<1> DEFINE K == {RankingCandidate(problem, s) : s \in ValidSelections(kept)}
           V == {RankingCandidate(problem, s) : s \in ValidSelections(Eligible(problem))}
<1>5. IF K = {} THEN result.outcome = "NoPlacement"
      ELSE /\ result.outcome = "Placed"
           /\ result.best \in K
           /\ \A other \in K : ~ CandidateIsBetter(other, result.best)
  BY <1>1 DEF SearchInv, BestOfTheKept, IsBestOf, KeptChoices
<1>6. ASSUME NEW c \in K PROVE c \in V /\ IsRanking(c, Requirements)
  <2>1. c \in Rankings(problem, plans)
    BY DEF Rankings, ValidSelections, Valid
  <2>2. PICK f \in Walks(problem, plans) :
           Valid(problem, Chosen(plans, f)) /\ c = RankingCandidate(problem, Chosen(plans, f))
    BY <1>2, <2>1, RankingsType
  <2>3. Chosen(plans, f) \in AllSelections(Eligible(problem))
    BY <1>2, ChosenType
  <2>4. c \in V
    BY <2>2, <2>3 DEF ValidSelections, Valid
  <2> QED BY <1>2, <2>1, <2>4, RankingsType
<1>7. ASSUME NEW c \in V
      PROVE  IsRanking(c, Requirements) /\ \E d \in K : ~ CandidateIsBetter(c, d)
  <2>1. PICK s \in AllSelections(Eligible(problem)) :
           Valid(problem, s) /\ c = RankingCandidate(problem, s)
    BY DEF ValidSelections, Valid
  <2>2. PICK t \in AllSelections(kept) :
           /\ Valid(problem, t)
           /\ ~ CandidateIsBetter(c, RankingCandidate(problem, t))
    <3> HIDE DEF kept
    <3> QED BY <1>1, <1>2, <1>4, <2>1, CollapseKeepsOneAsGood
  <2>3. RankingCandidate(problem, t) \in K
    BY <2>2 DEF ValidSelections, Valid
  <2>4. IsRanking(c, Requirements)
    <3>1. ~ Repeats(s)
      BY <2>1 DEF Valid, SelectionFailure
    <3>2. Score(problem, s) \in Int /\ CanonicalResourceKey(s) \in [1..Requirements -> Int]
      BY <1>2, <3>1, ScoreBounds, KeyType
    <3> QED BY <2>1, <3>2 DEF IsRanking, RankingCandidate
  <2> QED BY <2>2, <2>3, <2>4
<1> HIDE DEF K, V
<1>8. CASE K = {}
  <2>1. V = {}
    BY <1>7, <1>8
  <2>2. result.outcome = "NoPlacement"
    BY <1>5, <1>8
  <2> QED BY <1>3, <2>1, <2>2 DEF IsBestOf, V
<1>9. CASE K # {}
  <2>1. /\ result.outcome = "Placed" /\ result.best \in K
        /\ \A other \in K : ~ CandidateIsBetter(other, result.best)
    BY <1>5, <1>9
  <2>2. result.best \in V /\ IsRanking(result.best, Requirements)
    BY <1>6, <2>1
  <2>3. ASSUME NEW c \in V PROVE ~ CandidateIsBetter(c, result.best)
    <3>1. PICK d \in K : ~ CandidateIsBetter(c, d)
      BY <1>7
    <3>2. IsRanking(c, Requirements) /\ IsRanking(d, Requirements)
      BY <1>6, <1>7
    <3> QED BY <1>2, <2>1, <2>2, <3>1, <3>2, NotBetterTransitive
  <2>4. V # {}
    BY <2>2
  <2> QED BY <1>3, <2>1, <2>2, <2>3, <2>4 DEF IsBestOf, V
<1> QED BY <1>8, <1>9

(***************************************************************************)
(* Exploring one resource of each key costs nothing, where the comment in  *)
(* engine_scheduling.cpp is true: what the search finds is the best of all *)
(* eligible combinations, its tie included, for any number of resources.   *)
(***************************************************************************)
THEOREM CollapsingCostsNothing == SearchSpec => []CollapseKeepsTheBest
<1>1. SearchInv => CollapseKeepsTheBest
  BY BestOfAll
<1> QED BY <1>1, SearchInvariant, PTL
=============================================================================
