---------------------------- MODULE NaturalSums ----------------------------
(***************************************************************************)
(* The sum of a number per prototype, and the number of walks in a graph   *)
(* of prototypes.  Prototypes are numbered from 0, so the sum of h runs    *)
(* over h[0], ..., h[n - 1].  Both are written with recursive functions,   *)
(* which can be reasoned about by induction.  The lemmas behind them rest  *)
(* on the least element of a set of natural numbers.                       *)
(***************************************************************************)
EXTENDS Integers, WellFoundedInduction, FiniteSetTheorems, TLAPS

(* The sums of the first 0, 1, ..., n numbers.                             *)
PartialSums(h, n) ==
    LET sums[k \in 0 .. n] == IF k = 0 THEN 0 ELSE sums[k - 1] + h[k - 1]
    IN  sums

Total(h, n) == PartialSums(h, n)[n]

(* The nodes 0 .. n - 1 of a graph have edges[y][x] edges from y to x.     *)
(* If counts[y] walks end at y, this many end at x that are one edge       *)
(* longer.                                                                 *)
Longer(edges, counts, n) ==
    [x \in 0 .. n - 1 |->
        Total([y \in 0 .. n - 1 |-> IF edges[y][x] = 0 THEN 0 ELSE counts[y] * edges[y][x]], n)]

(* Walks[k][x] is the number of walks of k edges that end at x, when       *)
(* start[y] of them start at y.                                            *)
Walks(edges, start, n) ==
    LET walks[k \in 0 .. n] == IF k = 0 THEN start ELSE Longer(edges, walks[k - 1], n)
    IN  walks

(* The walks that end at x.  No walk of an acyclic graph has n edges.      *)
AllWalks(edges, start, n) ==
    [x \in 0 .. n - 1 |-> Total([k \in 0 .. n - 1 |-> Walks(edges, start, n)[k][x]], n)]

-----------------------------------------------------------------------------

(* The equation that partial sums solve.                                   *)
ArePartialSums(s, h, n) ==
    s = [k \in 0 .. n |-> IF k = 0 THEN 0 ELSE s[k - 1] + h[k - 1]]

(* A set of natural numbers that is not empty has a least element.         *)
LEMMA LeastNatural ==
  ASSUME NEW T, T \subseteq Nat, T # {}
  PROVE  \E x \in T : \A y \in T : x <= y
<1> DEFINE R == OpToRel(<, Nat)
<1>1. IsWellFoundedOn(R, Nat)
  BY NatLessThanWellFounded
<1> HIDE DEF R
<1>2. PICK x \in T : \A y \in T : ~ (<<y, x>> \in R)
  BY <1>1, WFMin
<1>3. \A y \in T : y < x => <<y, x>> \in R
  BY DEF R, OpToRel
<1>4. \A y \in T : ~ (y < x) /\ x \in Nat /\ y \in Nat
  BY <1>2, <1>3
<1> QED BY <1>4

(* A set of numbers that holds 0 and, with a number below n, the next one, *)
(* holds every number up to n.                                             *)
LEMMA InductionUpTo ==
  ASSUME NEW n \in Nat, NEW T, 0 \in T, \A k \in 0 .. n - 1 : k \in T => k + 1 \in T
  PROVE  \A k \in 0 .. n : k \in T
<1> DEFINE missing == {k \in 0 .. n : k \notin T}
<1> SUFFICES ASSUME missing # {} PROVE FALSE
  OBVIOUS
<1>1. missing \subseteq Nat
  OBVIOUS
<1>2. PICK x \in missing : \A y \in missing : x <= y
  BY <1>1, LeastNatural
<1>3. x # 0 /\ x \in 0 .. n /\ x \notin T
  BY <1>2
<1>4. x - 1 \in 0 .. n - 1 /\ x - 1 \in 0 .. n /\ ~ (x <= x - 1)
  BY <1>3
<1>5. x - 1 \notin missing
  BY <1>2, <1>4
<1>6. x - 1 \in T
  BY <1>4, <1>5
<1>7. (x - 1) + 1 \in T
  BY <1>4, <1>6
<1>8. (x - 1) + 1 = x
  BY <1>3
<1> QED BY <1>3, <1>7, <1>8

(* A function that begins with base and goes on by step.                   *)
IsRecursion(f, n, V, base, step) ==
    /\ f \in [0 .. n -> V]
    /\ \A k \in 0 .. n : f[k] = IF k = 0 THEN base ELSE step[<<f[k - 1], k>>]

(* There is one.                                                           *)
LEMMA RecursionExists ==
  ASSUME NEW n \in Nat, NEW V, NEW base \in V, NEW step \in [V \X (1 .. n) -> V]
  PROVE  \E f : IsRecursion(f, n, V, base, step)
<1> DEFINE T == {k \in 0 .. n : \E f : IsRecursion(f, k, V, base, step)}
<1>1. 0 \in T
  <2> DEFINE f == [k \in 0 .. 0 |-> base]
  <2>1. IsRecursion(f, 0, V, base, step)
    BY DEF IsRecursion
  <2> HIDE DEF f
  <2> QED BY <2>1
<1>2. ASSUME NEW k \in 0 .. n - 1, k \in T
      PROVE  k + 1 \in T
  <2>1. PICK f : IsRecursion(f, k, V, base, step)
    BY <1>2
  <2>2. f[k] \in V /\ k + 1 \in 1 .. n
    BY <2>1 DEF IsRecursion
  <2> DEFINE last == step[<<f[k], k + 1>>]
             g == [i \in 0 .. k + 1 |-> IF i = k + 1 THEN last ELSE f[i]]
  <2>3. last \in V
    BY <2>2
  <2>4. ASSUME NEW i \in 0 .. k + 1
        PROVE  g[i] \in V /\ g[i] = IF i = 0 THEN base ELSE step[<<g[i - 1], i>>]
    <3>1. CASE i = k + 1
      <4>1. i # 0 /\ i - 1 = k /\ k \in 0 .. k + 1 /\ k # k + 1
        BY <3>1
      <4>2. g[i] = last /\ g[i - 1] = f[k]
        BY <3>1, <4>1
      <4> QED BY <2>3, <3>1, <4>1, <4>2
    <3>2. CASE i # k + 1
      <4>1. i \in 0 .. k /\ g[i] = f[i]
        BY <3>2
      <4>2. f[i] \in V
        BY <2>1, <4>1 DEF IsRecursion
      <4>3. CASE i = 0
        BY <2>1, <4>1, <4>2, <4>3 DEF IsRecursion
      <4>4. CASE i # 0
        <5>1. i - 1 \in 0 .. k + 1 /\ i - 1 # k + 1
          BY <4>1, <4>4
        <5>2. g[i - 1] = f[i - 1]
          BY <5>1
        <5>3. f[i] = step[<<f[i - 1], i>>]
          BY <2>1, <4>1, <4>4 DEF IsRecursion
        <5> QED BY <4>1, <4>2, <4>4, <5>2, <5>3
      <4> QED BY <4>3, <4>4
    <3> QED BY <3>1, <3>2
  <2>5. g \in [0 .. k + 1 -> V]
    BY <2>4
  <2> HIDE DEF g
  <2>6. IsRecursion(g, k + 1, V, base, step)
    BY <2>4, <2>5 DEF IsRecursion
  <2> QED BY <2>6
<1> HIDE DEF T
<1>3. n \in T
  BY <1>1, <1>2, InductionUpTo
<1> QED BY <1>3 DEF T

(* The partial sums exist.  The sums up to k + 1 extend the sums up to k.  *)
LEMMA PartialSumsExist ==
  ASSUME NEW n \in Nat, NEW h
  PROVE  ArePartialSums(PartialSums(h, n), h, n)
<1> DEFINE T == {k \in 0 .. n : \E s : ArePartialSums(s, h, k)}
<1>1. 0 \in T
  <2> DEFINE s == [k \in 0 .. 0 |-> 0]
  <2>1. ArePartialSums(s, h, 0)
    BY DEF ArePartialSums
  <2> HIDE DEF s
  <2> QED BY <2>1
<1>2. ASSUME NEW k \in 0 .. n - 1, k \in T
      PROVE  k + 1 \in T
  <2>1. PICK s : ArePartialSums(s, h, k)
    BY <1>2
  <2> DEFINE t == [i \in 0 .. k + 1 |-> IF i = k + 1 THEN s[k] + h[k] ELSE s[i]]
  <2>2. s = [i \in 0 .. k |-> IF i = 0 THEN 0 ELSE s[i - 1] + h[i - 1]]
    BY <2>1 DEF ArePartialSums
  <2>3. ASSUME NEW i \in 0 .. k + 1
        PROVE  t[i] = IF i = 0 THEN 0 ELSE t[i - 1] + h[i - 1]
    <3>1. CASE i = k + 1
      <4>1. i # 0 /\ i - 1 = k /\ k \in 0 .. k + 1 /\ k # k + 1
        BY <3>1
      <4>2. t[i] = s[k] + h[k] /\ t[i - 1] = s[k]
        BY <3>1, <4>1
      <4> QED BY <4>1, <4>2
    <3>2. CASE i # k + 1
      <4>1. i \in 0 .. k
        BY <3>2
      <4>2. t[i] = s[i]
        BY <3>2
      <4>3. CASE i = 0
        BY <2>2, <4>1, <4>2, <4>3
      <4>4. CASE i # 0
        <5>1. i - 1 \in 0 .. k + 1 /\ i - 1 # k + 1
          BY <4>1, <4>4
        <5>2. t[i - 1] = s[i - 1]
          BY <5>1
        <5>3. s[i] = s[i - 1] + h[i - 1]
          BY <2>2, <4>1, <4>4
        <5> QED BY <4>2, <4>4, <5>2, <5>3
      <4> QED BY <4>3, <4>4
    <3> QED BY <3>1, <3>2
  <2>4. t = [i \in 0 .. k + 1 |-> IF i = 0 THEN 0 ELSE t[i - 1] + h[i - 1]]
    BY <2>3
  <2> HIDE DEF t
  <2>5. ArePartialSums(t, h, k + 1)
    BY <2>4 DEF ArePartialSums
  <2> QED BY <2>5
<1> HIDE DEF T
<1>3. \A k \in 0 .. n : k \in T
  BY <1>1, <1>2, InductionUpTo
<1>4. \E s : ArePartialSums(s, h, n)
  BY <1>3 DEF T
<1> QED BY <1>4 DEF PartialSums, ArePartialSums

(* The partial sums of integers: where they start, how they go on, and     *)
(* that they are integers.                                                 *)
LEMMA PartialSumsFacts ==
  ASSUME NEW n \in Nat, NEW h, \A i \in 0 .. n - 1 : h[i] \in Int
  PROVE  /\ PartialSums(h, n)[0] = 0
         /\ \A k \in 0 .. n - 1 : PartialSums(h, n)[k + 1] = PartialSums(h, n)[k] + h[k]
         /\ \A k \in 0 .. n : PartialSums(h, n)[k] \in Int
<1> DEFINE s == PartialSums(h, n)
<1>1. s = [k \in 0 .. n |-> IF k = 0 THEN 0 ELSE s[k - 1] + h[k - 1]]
  BY PartialSumsExist DEF ArePartialSums
<1> HIDE DEF s
<1>2. s[0] = 0
  BY <1>1
<1>3. ASSUME NEW k \in 0 .. n - 1
      PROVE  s[k + 1] = s[k] + h[k]
  <2>1. k + 1 \in 0 .. n /\ k + 1 # 0 /\ (k + 1) - 1 = k
    OBVIOUS
  <2> QED BY <1>1, <2>1
<1> DEFINE T == {k \in 0 .. n : s[k] \in Int}
<1>4. 0 \in T
  BY <1>2
<1>5. \A k \in 0 .. n - 1 : k \in T => k + 1 \in T
  BY <1>3
<1> HIDE DEF T
<1>6. \A k \in 0 .. n : k \in T
  BY <1>4, <1>5, InductionUpTo
<1> QED BY <1>2, <1>3, <1>6 DEF s, T

(* A sum of integers is an integer.                                        *)
LEMMA TotalInt ==
  ASSUME NEW n \in Nat, NEW h, \A i \in 0 .. n - 1 : h[i] \in Int
  PROVE  Total(h, n) \in Int
BY PartialSumsFacts DEF Total

(* Sums are monotonic.                                                     *)
LEMMA TotalMonotonic ==
  ASSUME NEW n \in Nat, NEW g, NEW h,
         \A i \in 0 .. n - 1 : g[i] \in Int /\ h[i] \in Int /\ g[i] <= h[i]
  PROVE  Total(g, n) <= Total(h, n)
<1> DEFINE s == PartialSums(g, n)
           t == PartialSums(h, n)
           T == {k \in 0 .. n : s[k] <= t[k]}
<1>1. /\ s[0] = 0 /\ t[0] = 0
      /\ \A k \in 0 .. n - 1 : s[k + 1] = s[k] + g[k] /\ t[k + 1] = t[k] + h[k]
      /\ \A k \in 0 .. n : s[k] \in Int /\ t[k] \in Int
  BY PartialSumsFacts
<1> HIDE DEF s, t
<1>2. 0 \in T
  BY <1>1
<1>3. ASSUME NEW k \in 0 .. n - 1, k \in T PROVE k + 1 \in T
  <2>1. s[k] <= t[k] /\ g[k] <= h[k] /\ k \in 0 .. n /\ k + 1 \in 0 .. n
    BY <1>3
  <2>2. s[k] \in Int /\ t[k] \in Int /\ g[k] \in Int /\ h[k] \in Int
    BY <1>1, <2>1
  <2>3. s[k + 1] <= t[k + 1]
    BY <1>1, <2>1, <2>2
  <2> QED BY <2>1, <2>3
<1> HIDE DEF T
<1>4. n \in T
  BY <1>2, <1>3, InductionUpTo, SMTT(30)
<1> QED BY <1>4 DEF T, s, t, Total

(* Equal numbers have equal sums.                                          *)
LEMMA TotalEqual ==
  ASSUME NEW n \in Nat, NEW g, NEW h,
         \A i \in 0 .. n - 1 : g[i] \in Int /\ g[i] = h[i]
  PROVE  Total(g, n) = Total(h, n)
<1>1. \A i \in 0 .. n - 1 : h[i] \in Int /\ g[i] <= h[i] /\ h[i] <= g[i]
  OBVIOUS
<1>2. Total(g, n) <= Total(h, n) /\ Total(h, n) <= Total(g, n)
  BY <1>1, TotalMonotonic
<1> QED BY <1>1, <1>2, TotalInt

(* Sums where one number is different by d.                                *)
LEMMA TotalChange ==
  ASSUME NEW n \in Nat, NEW g, NEW h, NEW j \in 0 .. n - 1, NEW d \in Int,
         \A i \in 0 .. n - 1 : g[i] \in Int,
         \A i \in 0 .. n - 1 : i # j => h[i] = g[i],
         h[j] = g[j] + d
  PROVE  Total(h, n) = Total(g, n) + d
<1> DEFINE s == PartialSums(g, n)
           t == PartialSums(h, n)
           T == {k \in 0 .. n : t[k] = IF k <= j THEN s[k] ELSE s[k] + d}
<1>0. \A i \in 0 .. n - 1 : h[i] \in Int
  OBVIOUS
<1>1. /\ s[0] = 0 /\ t[0] = 0
      /\ \A k \in 0 .. n - 1 : s[k + 1] = s[k] + g[k] /\ t[k + 1] = t[k] + h[k]
      /\ \A k \in 0 .. n : s[k] \in Int /\ t[k] \in Int
  BY <1>0, PartialSumsFacts
<1> HIDE DEF s, t
<1>2. 0 \in T
  BY <1>1
<1>3. ASSUME NEW k \in 0 .. n - 1, k \in T PROVE k + 1 \in T
  <2>1. t[k] = (IF k <= j THEN s[k] ELSE s[k] + d) /\ k \in 0 .. n /\ k + 1 \in 0 .. n
    BY <1>3
  <2>2. s[k] \in Int /\ t[k] \in Int /\ g[k] \in Int
    BY <1>1, <2>1
  <2>3. s[k + 1] = s[k] + g[k] /\ t[k + 1] = t[k] + h[k]
    BY <1>1
  <2>4. CASE k < j
    BY <2>1, <2>2, <2>3, <2>4
  <2>5. CASE k = j
    BY <2>1, <2>2, <2>3, <2>5
  <2>6. CASE k > j
    BY <2>1, <2>2, <2>3, <2>6
  <2> QED BY <2>4, <2>5, <2>6
<1> HIDE DEF T
<1>4. \A k \in 0 .. n : k \in T
  BY <1>2, <1>3, InductionUpTo
<1>5. t[n] = s[n] + d
  BY <1>4 DEF T
<1> QED BY <1>5 DEF s, t, Total

(* The sum of sums.                                                        *)
LEMMA TotalOfSums ==
  ASSUME NEW n \in Nat, NEW f, NEW g, NEW h,
         \A i \in 0 .. n - 1 : f[i] \in Int /\ g[i] \in Int /\ h[i] = f[i] + g[i]
  PROVE  Total(h, n) = Total(f, n) + Total(g, n)
<1> DEFINE r == PartialSums(f, n)
           s == PartialSums(g, n)
           t == PartialSums(h, n)
           T == {k \in 0 .. n : t[k] = r[k] + s[k]}
<1>0. \A i \in 0 .. n - 1 : h[i] \in Int
  OBVIOUS
<1>1. /\ r[0] = 0 /\ s[0] = 0 /\ t[0] = 0
      /\ \A k \in 0 .. n - 1 : /\ r[k + 1] = r[k] + f[k] /\ s[k + 1] = s[k] + g[k]
                               /\ t[k + 1] = t[k] + h[k]
      /\ \A k \in 0 .. n : r[k] \in Int /\ s[k] \in Int /\ t[k] \in Int
  BY <1>0, PartialSumsFacts
<1> HIDE DEF r, s, t
<1>2. 0 \in T
  BY <1>1
<1>3. ASSUME NEW k \in 0 .. n - 1, k \in T PROVE k + 1 \in T
  <2>1. t[k] = r[k] + s[k] /\ k \in 0 .. n /\ k + 1 \in 0 .. n
    BY <1>3
  <2>2. r[k] \in Int /\ s[k] \in Int /\ f[k] \in Int /\ g[k] \in Int /\ h[k] = f[k] + g[k]
    BY <1>1, <2>1
  <2>3. r[k + 1] = r[k] + f[k] /\ s[k + 1] = s[k] + g[k] /\ t[k + 1] = t[k] + h[k]
    BY <1>1
  <2> QED BY <2>1, <2>2, <2>3
<1> HIDE DEF T
<1>4. n \in T
  BY <1>2, <1>3, InductionUpTo, SMTT(30)
<1> QED BY <1>4 DEF T, r, s, t, Total

(* The sum of zeros.                                                       *)
LEMMA TotalOfZeros ==
  ASSUME NEW n \in Nat, NEW h, \A i \in 0 .. n - 1 : h[i] = 0
  PROVE  Total(h, n) = 0
<1>1. \A i \in 0 .. n - 1 : h[i] \in Int /\ h[i] = h[i] + h[i]
  OBVIOUS
<1>2. Total(h, n) = Total(h, n) + Total(h, n)
  BY <1>1, TotalOfSums
<1>3. Total(h, n) \in Int
  BY <1>1, TotalInt
<1>4. \A x \in Int : x = x + x => x = 0
  OBVIOUS
<1> QED BY <1>2, <1>3, <1>4

(* A sum of natural numbers is one, and none of them is larger.            *)
LEMMA TotalOfNaturals ==
  ASSUME NEW n \in Nat, NEW h, \A i \in 0 .. n - 1 : h[i] \in Nat
  PROVE  /\ Total(h, n) \in Nat
         /\ \A i \in 0 .. n - 1 : h[i] <= Total(h, n)
<1>1. Total(h, n) \in Int
  BY TotalInt
<1> DEFINE zero == [i \in 0 .. n - 1 |-> 0]
<1>2. Total(zero, n) = 0
  <2>1. \A i \in 0 .. n - 1 : zero[i] = 0
    OBVIOUS
  <2> HIDE DEF zero
  <2> QED BY <2>1, TotalOfZeros
<1>3. Total(zero, n) <= Total(h, n)
  <2>1. \A i \in 0 .. n - 1 : zero[i] \in Int /\ h[i] \in Int /\ zero[i] <= h[i]
    OBVIOUS
  <2> HIDE DEF zero
  <2> QED BY <2>1, TotalMonotonic
<1>4. ASSUME NEW j \in 0 .. n - 1
      PROVE  h[j] <= Total(h, n)
  <2> DEFINE one == [i \in 0 .. n - 1 |-> IF i = j THEN h[j] ELSE 0]
  <2>1. (\A i \in 0 .. n - 1 : i # j => one[i] = zero[i]) /\ one[j] = zero[j] + h[j]
    OBVIOUS
  <2>2. \A i \in 0 .. n - 1 : zero[i] \in Int /\ one[i] \in Int /\ one[i] <= h[i]
    OBVIOUS
  <2> HIDE DEF one, zero
  <2>3. Total(one, n) = Total(zero, n) + h[j]
    <3>1. h[j] \in Int /\ \A i \in 0 .. n - 1 : zero[i] \in Int
      BY <2>2
    <3> QED BY <2>1, <3>1, TotalChange
  <2>4. Total(one, n) <= Total(h, n)
    BY <2>2, TotalMonotonic
  <2> QED BY <1>1, <1>2, <2>3, <2>4
<1> QED BY <1>1, <1>2, <1>3, <1>4

(* A sum goes on with the next number.                                     *)
LEMMA TotalStep ==
  ASSUME NEW n \in Nat, NEW h, \A i \in 0 .. n : h[i] \in Int
  PROVE  /\ Total(h, 0) = 0
         /\ Total(h, n + 1) = Total(h, n) + h[n]
<1> DEFINE s == PartialSums(h, n)
           t == PartialSums(h, n + 1)
           T == {k \in 0 .. n : s[k] = t[k]}
<1>0. n + 1 \in Nat /\ (n + 1) - 1 = n /\ 0 \in Nat
  OBVIOUS
<1>1. /\ s[0] = 0
      /\ \A k \in 0 .. n - 1 : s[k + 1] = s[k] + h[k]
  BY PartialSumsFacts
<1>2. /\ t[0] = 0
      /\ \A k \in 0 .. n : t[k + 1] = t[k] + h[k]
  <2> DEFINE m == n + 1
  <2>1. m \in Nat /\ \A i \in 0 .. m - 1 : h[i] \in Int
    BY <1>0
  <2>2. m - 1 = n
    BY <1>0
  <2> HIDE DEF m
  <2>3. /\ PartialSums(h, m)[0] = 0
        /\ \A k \in 0 .. m - 1 : PartialSums(h, m)[k + 1] = PartialSums(h, m)[k] + h[k]
    BY <2>1, PartialSumsFacts
  <2> QED BY <2>2, <2>3 DEF m
<1> HIDE DEF s, t
<1>3. 0 \in T
  BY <1>1, <1>2
<1>4. ASSUME NEW k \in 0 .. n - 1, k \in T PROVE k + 1 \in T
  <2>1. s[k] = t[k] /\ k \in 0 .. n /\ k + 1 \in 0 .. n
    BY <1>4
  <2> QED BY <1>1, <1>2, <2>1
<1> HIDE DEF T
<1>5. \A k \in 0 .. n : k \in T
  BY <1>3, <1>4, InductionUpTo
<1>6. s[n] = t[n] /\ t[n + 1] = t[n] + h[n]
  BY <1>2, <1>5 DEF T
<1>7. Total(h, 0) = 0
  <2>1. \A i \in 0 .. 0 - 1 : h[i] \in Int
    OBVIOUS
  <2> QED BY <1>0, <2>1, PartialSumsFacts DEF Total
<1> QED BY <1>6, <1>7 DEF s, t, Total

(* A common factor.                                                        *)
LEMMA TotalScaled ==
  ASSUME NEW n \in Nat, NEW c \in Int, NEW g, NEW h,
         \A i \in 0 .. n - 1 : g[i] \in Int /\ h[i] = c * g[i]
  PROVE  Total(h, n) = c * Total(g, n)
<1> DEFINE T == {k \in 0 .. n : Total(h, k) = c * Total(g, k)}
<1>0. \A i \in 0 .. n - 1 : h[i] \in Int
  OBVIOUS
<1>1. 0 \in T
  <2>1. Total(g, 0) = 0 /\ Total(h, 0) = 0
    <3>1. \A i \in 0 .. 0 - 1 : g[i] = 0 /\ h[i] = 0
      OBVIOUS
    <3> QED BY <3>1, TotalOfZeros
  <2> QED BY <2>1
<1>2. ASSUME NEW k \in 0 .. n - 1, k \in T PROVE k + 1 \in T
  <2>1. k \in Nat /\ k + 1 \in 0 .. n /\ g[k] \in Int
    OBVIOUS
  <2>2. Total(g, k + 1) = Total(g, k) + g[k] /\ Total(h, k + 1) = Total(h, k) + h[k]
    <3>1. \A i \in 0 .. k : g[i] \in Int /\ h[i] \in Int
      BY <1>0
    <3> QED BY <2>1, <3>1, TotalStep
  <2>3. Total(g, k) \in Int
    <3>1. \A i \in 0 .. k - 1 : g[i] \in Int
      OBVIOUS
    <3> QED BY <2>1, <3>1, TotalInt
  <2>4. \A x, y \in Int : c * (x + y) = c * x + c * y
    OBVIOUS
  <2>5. Total(h, k) = c * Total(g, k) /\ h[k] = c * g[k]
    BY <1>2
  <2>6. c * (Total(g, k) + g[k]) = c * Total(g, k) + c * g[k]
    BY <2>1, <2>3, <2>4
  <2>7. Total(h, k + 1) = c * Total(g, k + 1)
    BY <2>2, <2>5, <2>6
  <2> QED BY <2>1, <2>7
<1> HIDE DEF T
<1>3. \A k \in 0 .. n : k \in T
  BY <1>1, <1>2, InductionUpTo
<1> QED BY <1>3 DEF T

(* A table of numbers, the same turned, and the sums of its rows and of    *)
(* its columns.                                                            *)
IsTable(g, turned, rows, columns, n, m) ==
    /\ \A i \in 0 .. n - 1 : \A j \in 0 .. m - 1 : g[i][j] \in Int /\ turned[j][i] = g[i][j]
    /\ \A i \in 0 .. n - 1 : rows[i] = Total(g[i], m)
    /\ \A j \in 0 .. m - 1 : columns[j] = Total(turned[j], n)

(* The order of summation does not matter.                                 *)
LEMMA TotalExchange ==
  ASSUME NEW n \in Nat, NEW m \in Nat, NEW g, NEW turned, NEW rows, NEW columns,
         IsTable(g, turned, rows, columns, n, m)
  PROVE  Total(rows, n) = Total(columns, m)
<1> USE DEF IsTable
<1> DEFINE Columns(k) == [j \in 0 .. m - 1 |-> Total(turned[j], k)]
           T == {k \in 0 .. n : Total(rows, k) = Total(Columns(k), m)}
<1>1. \A i \in 0 .. n - 1 : rows[i] \in Int
  BY TotalInt
<1>2. \A k \in 0 .. n : \A j \in 0 .. m - 1 : Total(turned[j], k) \in Int
  <2> SUFFICES ASSUME NEW k \in 0 .. n, NEW j \in 0 .. m - 1
               PROVE  Total(turned[j], k) \in Int
    OBVIOUS
  <2>1. k \in Nat /\ \A i \in 0 .. k - 1 : turned[j][i] \in Int
    OBVIOUS
  <2> QED BY <2>1, TotalInt
<1>3. 0 \in T
  <2>1. Total(rows, 0) = 0
    <3>1. \A i \in 0 .. 0 - 1 : rows[i] = 0
      OBVIOUS
    <3> QED BY <3>1, TotalOfZeros
  <2>2. ASSUME NEW j \in 0 .. m - 1 PROVE Columns(0)[j] = 0
    <3>1. \A i \in 0 .. 0 - 1 : turned[j][i] = 0
      OBVIOUS
    <3>2. Total(turned[j], 0) = 0
      BY <3>1, TotalOfZeros
    <3> QED BY <3>2
  <2> HIDE DEF Columns
  <2>3. Total(Columns(0), m) = 0
    BY <2>2, TotalOfZeros
  <2> QED BY <2>1, <2>3
<1>4. ASSUME NEW k \in 0 .. n - 1, k \in T PROVE k + 1 \in T
  <2>1. k \in Nat /\ k \in 0 .. n /\ k + 1 \in 0 .. n
    OBVIOUS
  <2>2. Total(rows, k + 1) = Total(rows, k) + rows[k]
    <3>1. \A i \in 0 .. k : rows[i] \in Int
      BY <1>1
    <3> QED BY <2>1, <3>1, TotalStep
  <2>3. ASSUME NEW j \in 0 .. m - 1
        PROVE  Columns(k + 1)[j] = Columns(k)[j] + g[k][j]
    <3>1. \A i \in 0 .. k : turned[j][i] \in Int
      OBVIOUS
    <3>2. turned[j][k] = g[k][j]
      OBVIOUS
    <3>3. Total(turned[j], k + 1) = Total(turned[j], k) + turned[j][k]
      BY <2>1, <3>1, TotalStep
    <3> QED BY <3>2, <3>3
  <2>4. \A j \in 0 .. m - 1 : Columns(k)[j] \in Int /\ g[k][j] \in Int
    BY <1>2, <2>1
  <2>5. rows[k] = Total(g[k], m) /\ Total(rows, k) = Total(Columns(k), m)
    BY <1>4
  <2> HIDE DEF Columns
  <2>6. Total(Columns(k + 1), m) = Total(Columns(k), m) + Total(g[k], m)
    BY <2>3, <2>4, TotalOfSums
  <2> QED BY <2>1, <2>2, <2>5, <2>6
<1> HIDE DEF T
<1>5. \A k \in 0 .. n : k \in T
  BY <1>3, <1>4, InductionUpTo
<1>6. Total(rows, n) = Total(Columns(n), m)
  BY <1>5 DEF T
<1>7. \A j \in 0 .. m - 1 : Columns(n)[j] \in Int /\ Columns(n)[j] = columns[j]
  BY <1>2
<1> HIDE DEF Columns
<1>8. Total(Columns(n), m) = Total(columns, m)
  BY <1>7, TotalEqual
<1> QED BY <1>6, <1>8

-----------------------------------------------------------------------------
(* The equation that walks solve, up to k edges.                           *)
AreWalks(w, edges, start, n, k) ==
    w = [i \in 0 .. k |-> IF i = 0 THEN start ELSE Longer(edges, w[i - 1], n)]

(* The numbers of walks exist.                                             *)
LEMMA WalksExist ==
  ASSUME NEW n \in Nat, NEW edges, NEW start
  PROVE  AreWalks(Walks(edges, start, n), edges, start, n, n)
<1> DEFINE L(v) == Longer(edges, v, n)
           T == {k \in 0 .. n : \E w : AreWalks(w, edges, start, n, k)}
<1>1. 0 \in T
  <2> DEFINE w == [k \in 0 .. 0 |-> start]
  <2>1. AreWalks(w, edges, start, n, 0)
    BY DEF AreWalks
  <2> HIDE DEF w
  <2> QED BY <2>1
<1>2. ASSUME NEW k \in 0 .. n - 1, k \in T
      PROVE  k + 1 \in T
  <2>1. PICK w : AreWalks(w, edges, start, n, k)
    BY <1>2
  <2> DEFINE t == [i \in 0 .. k + 1 |-> IF i = k + 1 THEN L(w[k]) ELSE w[i]]
  <2>2. w = [i \in 0 .. k |-> IF i = 0 THEN start ELSE L(w[i - 1])]
    BY <2>1 DEF AreWalks
  <2> HIDE DEF L
  <2>3. ASSUME NEW i \in 0 .. k + 1
        PROVE  t[i] = IF i = 0 THEN start ELSE L(t[i - 1])
    <3>1. CASE i = k + 1
      <4>1. i # 0 /\ i - 1 = k /\ k \in 0 .. k + 1 /\ k # k + 1
        BY <3>1
      <4>2. t[i] = L(w[k]) /\ t[i - 1] = w[k]
        BY <3>1, <4>1
      <4> QED BY <4>1, <4>2
    <3>2. CASE i # k + 1
      <4>1. i \in 0 .. k
        BY <3>2
      <4>2. t[i] = w[i]
        BY <3>2
      <4>3. CASE i = 0
        BY <2>2, <4>1, <4>2, <4>3
      <4>4. CASE i # 0
        <5>1. i - 1 \in 0 .. k + 1 /\ i - 1 # k + 1
          BY <4>1, <4>4
        <5>2. t[i - 1] = w[i - 1]
          BY <5>1
        <5>3. w[i] = L(w[i - 1])
          BY <2>2, <4>1, <4>4
        <5> QED BY <4>2, <4>4, <5>2, <5>3
      <4> QED BY <4>3, <4>4
    <3> QED BY <3>1, <3>2
  <2>4. t = [i \in 0 .. k + 1 |-> IF i = 0 THEN start ELSE L(t[i - 1])]
    BY <2>3
  <2> HIDE DEF t
  <2>5. AreWalks(t, edges, start, n, k + 1)
    BY <2>4 DEF AreWalks, L
  <2> QED BY <2>5
<1> HIDE DEF T
<1>3. \A k \in 0 .. n : k \in T
  BY <1>1, <1>2, InductionUpTo
<1>4. \E w : AreWalks(w, edges, start, n, n)
  BY <1>3 DEF T
<1> QED BY <1>4 DEF Walks, AreWalks

(* If counts[y] walks end at y, so many of those that are one edge longer  *)
(* enter x from each y.                                                    *)
Entering(edges, counts, x, n) == [y \in 0 .. n - 1 |-> counts[y] * edges[y][x]]

(* What the assumptions on a graph with natural numbers of edges say.      *)
IsGraph(edges, start, n) ==
    /\ n \in Nat
    /\ \A x \in 0 .. n - 1 : start[x] \in Nat
    /\ \A y, x \in 0 .. n - 1 : edges[y][x] \in Nat

(* The walks of no edges, and those that are one edge longer.              *)
LEMMA WalksFacts ==
  ASSUME NEW n, NEW edges, NEW start, IsGraph(edges, start, n)
  PROVE  /\ Walks(edges, start, n)[0] = start
         /\ \A k \in 0 .. n : \A x \in 0 .. n - 1 : Walks(edges, start, n)[k][x] \in Nat
         /\ \A k \in 0 .. n - 1 : \A x \in 0 .. n - 1 :
               Walks(edges, start, n)[k + 1][x] =
                   Total(Entering(edges, Walks(edges, start, n)[k], x, n), n)
<1> DEFINE w == Walks(edges, start, n)
<1>0. n \in Nat
  BY DEF IsGraph
<1>1. w = [k \in 0 .. n |-> IF k = 0 THEN start ELSE Longer(edges, w[k - 1], n)]
  BY <1>0, WalksExist DEF AreWalks
<1> HIDE DEF w
<1>2. w[0] = start
  BY <1>0, <1>1
<1>3. ASSUME NEW k \in 0 .. n - 1
      PROVE  w[k + 1] = Longer(edges, w[k], n)
  <2>1. k + 1 \in 0 .. n /\ k + 1 # 0 /\ (k + 1) - 1 = k
    BY <1>0
  <2> QED BY <1>1, <2>1
<1>4. ASSUME NEW k \in 0 .. n - 1, \A x \in 0 .. n - 1 : w[k][x] \in Nat,
             NEW x \in 0 .. n - 1
      PROVE  /\ w[k + 1][x] = Total(Entering(edges, w[k], x, n), n)
             /\ w[k + 1][x] \in Nat
  <2> DEFINE g == [y \in 0 .. n - 1 |-> IF edges[y][x] = 0 THEN 0 ELSE w[k][y] * edges[y][x]]
             h == [y \in 0 .. n - 1 |-> w[k][y] * edges[y][x]]
  <2>1. w[k + 1][x] = Total(g, n)
    BY <1>3 DEF Longer
  <2>2. \A a, b \in Nat : a * b \in Nat /\ (b = 0 => a * b = 0)
    OBVIOUS
  <2>3. ASSUME NEW y \in 0 .. n - 1 PROVE g[y] \in Nat /\ g[y] = h[y]
    <3>1. w[k][y] \in Nat /\ edges[y][x] \in Nat
      BY <1>4 DEF IsGraph
    <3>2. /\ w[k][y] * edges[y][x] \in Nat
          /\ edges[y][x] = 0 => w[k][y] * edges[y][x] = 0
      BY <2>2, <3>1
    <3> QED BY <3>2
  <2> HIDE DEF g, h
  <2>4. Total(g, n) = Total(h, n)
    BY <1>0, <2>3, TotalEqual
  <2>5. Total(g, n) \in Nat
    BY <1>0, <2>3, TotalOfNaturals
  <2> QED BY <2>1, <2>4, <2>5 DEF h, Entering
<1> DEFINE T == {k \in 0 .. n : \A x \in 0 .. n - 1 : w[k][x] \in Nat}
<1>5. 0 \in T
  BY <1>0, <1>2 DEF IsGraph
<1>6. \A k \in 0 .. n - 1 : k \in T => k + 1 \in T
  <2> SUFFICES ASSUME NEW k \in 0 .. n - 1, k \in T PROVE k + 1 \in T
    OBVIOUS
  <2>1. k + 1 \in 0 .. n
    BY <1>0
  <2> QED BY <1>4, <2>1
<1> HIDE DEF T
<1>7. \A k \in 0 .. n : k \in T
  BY <1>0, <1>5, <1>6, InductionUpTo
<1>8. \A k \in 0 .. n : \A x \in 0 .. n - 1 : w[k][x] \in Nat
  BY <1>7 DEF T
<1>9. \A k \in 0 .. n - 1 : \A x \in 0 .. n - 1 :
         w[k + 1][x] = Total(Entering(edges, w[k], x, n), n)
  <2> SUFFICES ASSUME NEW k \in 0 .. n - 1, NEW x \in 0 .. n - 1
               PROVE  w[k + 1][x] = Total(Entering(edges, w[k], x, n), n)
    OBVIOUS
  <2>1. k \in 0 .. n
    BY <1>0
  <2> QED BY <1>4, <1>8, <2>1
<1> QED BY <1>2, <1>8, <1>9 DEF w

(* What makes a graph acyclic: every edge leads to a node of higher rank.  *)
IsRanked(edges, rank, n) ==
    /\ \A x \in 0 .. n - 1 : rank[x] \in 1 .. n
    /\ \A y, x \in 0 .. n - 1 : edges[y][x] # 0 => rank[y] < rank[x]

(* A walk ends at a node whose rank is larger than the number of edges.    *)
LEMMA WalksAreShort ==
  ASSUME NEW n, NEW edges, NEW start, NEW rank,
         IsGraph(edges, start, n), IsRanked(edges, rank, n)
  PROVE  \A k \in 0 .. n : \A x \in 0 .. n - 1 :
            Walks(edges, start, n)[k][x] # 0 => k < rank[x]
<1> DEFINE w == Walks(edges, start, n)
           T == {k \in 0 .. n : \A x \in 0 .. n - 1 : w[k][x] # 0 => k < rank[x]}
<1>0. n \in Nat
  BY DEF IsGraph
<1>1. /\ \A k \in 0 .. n : \A x \in 0 .. n - 1 : w[k][x] \in Nat
      /\ \A k \in 0 .. n - 1 : \A x \in 0 .. n - 1 :
            w[k + 1][x] = Total(Entering(edges, w[k], x, n), n)
  BY WalksFacts
<1> HIDE DEF w
<1>2. 0 \in T
  BY <1>0 DEF IsRanked
<1>3. ASSUME NEW k \in 0 .. n - 1, k \in T PROVE k + 1 \in T
  <2> SUFFICES ASSUME NEW x \in 0 .. n - 1, w[k + 1][x] # 0 PROVE k + 1 < rank[x]
    BY <1>0
  <2> DEFINE h == [y \in 0 .. n - 1 |-> w[k][y] * edges[y][x]]
  <2>1. Total(h, n) # 0
    BY <1>1 DEF Entering
  <2>2. PICK y \in 0 .. n - 1 : h[y] # 0
    <3> HIDE DEF h
    <3> QED BY <1>0, <2>1, TotalOfZeros
  <2>3. k \in 0 .. n /\ w[k][y] \in Nat /\ edges[y][x] \in Nat
    BY <1>0, <1>1 DEF IsGraph
  <2>4. \A a, b \in Nat : a * b # 0 => a # 0 /\ b # 0
    OBVIOUS
  <2>5. w[k][y] # 0 /\ edges[y][x] # 0
    BY <2>2, <2>3, <2>4
  <2>6. k < rank[y] /\ rank[y] < rank[x] /\ rank[x] \in 1 .. n /\ rank[y] \in 1 .. n
    BY <1>3, <2>5 DEF IsRanked
  <2> QED BY <2>6
<1> HIDE DEF T
<1>4. \A k \in 0 .. n : k \in T
  BY <1>0, <1>2, <1>3, InductionUpTo
<1> QED BY <1>4 DEF T, w

(* In an acyclic graph the walks that end at x are those that start there  *)
(* and those that enter it over an edge.                                   *)
LEMMA AllWalksEquation ==
  ASSUME NEW n, NEW edges, NEW start, NEW rank,
         IsGraph(edges, start, n), IsRanked(edges, rank, n)
  PROVE  /\ \A x \in 0 .. n - 1 : AllWalks(edges, start, n)[x] \in Nat
         /\ \A x \in 0 .. n - 1 :
               AllWalks(edges, start, n)[x] =
                   start[x] + Total(Entering(edges, AllWalks(edges, start, n), x, n), n)
<1> DEFINE w == Walks(edges, start, n)
           a == AllWalks(edges, start, n)
           Ending(x) == [k \in 0 .. n - 1 |-> w[k][x]]
           Upto(k) == [x \in 0 .. n - 1 |-> Total(Ending(x), k)]
           T == {k \in 0 .. n - 1 : \A x \in 0 .. n - 1 :
                    Upto(k + 1)[x] = start[x] + Total(Entering(edges, Upto(k), x, n), n)}
<1>0. n \in Nat
  BY DEF IsGraph
<1>1. /\ \A x \in 0 .. n - 1 : w[0][x] = start[x]
      /\ \A k \in 0 .. n : \A x \in 0 .. n - 1 : w[k][x] \in Nat
      /\ \A k \in 0 .. n - 1 : \A x \in 0 .. n - 1 :
            w[k + 1][x] = Total(Entering(edges, w[k], x, n), n)
  BY WalksFacts
<1>2. \A k \in 0 .. n : \A x \in 0 .. n - 1 : w[k][x] # 0 => k < rank[x]
  BY WalksAreShort
<1> HIDE DEF w
<1>3. a = Upto(n)
  BY DEF AllWalks, w
<1> HIDE DEF a
<1>4. \A a1, a2, b \in Nat : a1 * b \in Nat /\ (a1 + a2) * b = a1 * b + a2 * b /\ 0 * b = 0
  OBVIOUS
<1>5. ASSUME NEW k \in 0 .. n, NEW x \in 0 .. n - 1
      PROVE  Upto(k)[x] \in Nat
  <2>1. k \in Nat /\ \A i \in 0 .. k - 1 : Ending(x)[i] \in Nat
    BY <1>0, <1>1
  <2> HIDE DEF Ending
  <2>2. Total(Ending(x), k) \in Nat
    BY <2>1, TotalOfNaturals
  <2> QED BY <2>2
<1>6. ASSUME NEW k \in 0 .. n - 1, NEW x \in 0 .. n - 1
      PROVE  Upto(k + 1)[x] = Upto(k)[x] + w[k][x]
  <2>1. k \in Nat /\ \A i \in 0 .. k : Ending(x)[i] \in Int
    BY <1>0, <1>1
  <2>2. Ending(x)[k] = w[k][x]
    OBVIOUS
  <2> HIDE DEF Ending
  <2>3. Total(Ending(x), k + 1) = Total(Ending(x), k) + Ending(x)[k]
    BY <2>1, TotalStep
  <2> QED BY <2>2, <2>3
<1>7. ASSUME NEW x \in 0 .. n - 1 PROVE Upto(0)[x] = 0
  <2>1. \A i \in 0 .. 0 - 1 : Ending(x)[i] = 0
    OBVIOUS
  <2> HIDE DEF Ending
  <2>2. Total(Ending(x), 0) = 0
    BY <2>1, TotalOfZeros
  <2> QED BY <2>2
<1> HIDE DEF Upto
<1>8. CASE n = 0
  BY <1>8
<1>9. CASE n # 0
  <2>0. 0 \in 0 .. n - 1 /\ n - 1 \in 0 .. n - 1 /\ (n - 1) + 1 = n /\ 0 + 1 = 1
    BY <1>0, <1>9
  <2>1. 0 \in T
    <3> SUFFICES ASSUME NEW x \in 0 .. n - 1
                 PROVE  Upto(0 + 1)[x] = start[x] + Total(Entering(edges, Upto(0), x, n), n)
      BY <2>0
    <3>1. Upto(0 + 1)[x] = Upto(0)[x] + w[0][x]
      BY <1>6, <2>0
    <3>2. \A y \in 0 .. n - 1 : Entering(edges, Upto(0), x, n)[y] = 0
      BY <1>4, <1>7 DEF Entering, IsGraph
    <3>3. Total(Entering(edges, Upto(0), x, n), n) = 0
      BY <1>0, <3>2, TotalOfZeros
    <3>4. start[x] \in Nat
      BY DEF IsGraph
    <3> QED BY <1>1, <1>7, <3>1, <3>3, <3>4
  <2>2. ASSUME NEW k \in 0 .. (n - 1) - 1, k \in T PROVE k + 1 \in T
    <3>0. k + 1 \in 0 .. n - 1 /\ k \in 0 .. n - 1 /\ k \in 0 .. n /\ k + 1 \in 0 .. n
      BY <1>0
    <3> SUFFICES ASSUME NEW x \in 0 .. n - 1
                 PROVE  Upto((k + 1) + 1)[x] = start[x] + Total(Entering(edges, Upto(k + 1), x, n), n)
      BY <3>0
    <3> DEFINE e == Entering(edges, Upto(k), x, n)
               f == Entering(edges, w[k], x, n)
               g == Entering(edges, Upto(k + 1), x, n)
    <3>1. Upto((k + 1) + 1)[x] = Upto(k + 1)[x] + w[k + 1][x]
      BY <1>6, <3>0
    <3>2. Upto(k + 1)[x] = start[x] + Total(e, n)
      BY <2>2
    <3>3. w[k + 1][x] = Total(f, n)
      BY <1>1, <3>0
    <3>4. ASSUME NEW y \in 0 .. n - 1
          PROVE  e[y] \in Int /\ f[y] \in Int /\ g[y] = e[y] + f[y]
      <4>1. /\ Upto(k)[y] \in Nat /\ w[k][y] \in Nat /\ edges[y][x] \in Nat
            /\ Upto(k + 1)[y] = Upto(k)[y] + w[k][y]
        BY <1>1, <1>5, <1>6, <3>0 DEF IsGraph
      <4>2. /\ e[y] = Upto(k)[y] * edges[y][x] /\ f[y] = w[k][y] * edges[y][x]
            /\ g[y] = (Upto(k)[y] + w[k][y]) * edges[y][x]
        BY <4>1 DEF Entering
      <4> HIDE DEF e, f, g
      <4> QED BY <1>4, <4>1, <4>2
    <3> HIDE DEF e, f, g
    <3>5. Total(g, n) = Total(e, n) + Total(f, n)
      BY <1>0, <3>4, TotalOfSums
    <3>6. start[x] \in Nat /\ Total(e, n) \in Int /\ Total(f, n) \in Int
      BY <1>0, <3>4, TotalInt DEF IsGraph
    <3>7. Upto((k + 1) + 1)[x] = start[x] + Total(g, n)
      BY <3>1, <3>2, <3>3, <3>5, <3>6
    <3> QED BY <3>7 DEF g
  <2> HIDE DEF T
  <2>3. \A k \in 0 .. n - 1 : k \in T
    BY <1>0, <1>9, <2>1, <2>2, InductionUpTo
  <2>4. ASSUME NEW x \in 0 .. n - 1
        PROVE  Upto(n)[x] = start[x] + Total(Entering(edges, Upto(n), x, n), n)
    <3> DEFINE e == Entering(edges, Upto(n - 1), x, n)
               g == Entering(edges, Upto(n), x, n)
    <3>1. Upto(n)[x] = start[x] + Total(e, n)
      BY <2>0, <2>3 DEF T
    <3>2. ASSUME NEW y \in 0 .. n - 1
          PROVE  e[y] \in Int /\ e[y] = g[y]
      <4>1. /\ Upto(n - 1)[y] \in Nat /\ w[n - 1][y] \in Nat /\ edges[y][x] \in Nat
            /\ Upto(n)[y] = Upto(n - 1)[y] + w[n - 1][y]
        <5>1. n - 1 \in 0 .. n
          BY <1>0, <1>9
        <5> QED BY <1>1, <1>5, <1>6, <2>0, <5>1 DEF IsGraph
      <4>2. /\ e[y] = Upto(n - 1)[y] * edges[y][x]
            /\ g[y] = (Upto(n - 1)[y] + w[n - 1][y]) * edges[y][x]
        BY <4>1 DEF Entering
      <4>3. edges[y][x] # 0 => w[n - 1][y] = 0
        <5>1. SUFFICES ASSUME edges[y][x] # 0, w[n - 1][y] # 0 PROVE FALSE
          OBVIOUS
        <5>2. rank[y] < rank[x] /\ rank[x] \in 1 .. n /\ rank[y] \in 1 .. n
          BY <5>1 DEF IsRanked
        <5>3. n - 1 < rank[y]
          BY <1>0, <1>2, <1>9, <5>1
        <5> QED BY <1>0, <5>2, <5>3
      <4> HIDE DEF e, g
      <4>4. CASE edges[y][x] # 0
        BY <1>4, <4>1, <4>2, <4>3, <4>4
      <4>5. CASE edges[y][x] = 0
        <5>1. \A b \in Nat : b * 0 = 0
          OBVIOUS
        <5> QED BY <4>1, <4>2, <4>5, <5>1
      <4> QED BY <4>4, <4>5
    <3> HIDE DEF e, g
    <3>3. Total(e, n) = Total(g, n)
      BY <1>0, <3>2, TotalEqual
    <3> QED BY <3>1, <3>3 DEF g
  <2>5. n \in 0 .. n
    BY <1>0
  <2> QED BY <1>3, <1>5, <2>4, <2>5 DEF a
<1> QED BY <1>8, <1>9

-----------------------------------------------------------------------------
(* The sum where all numbers but one are 0.                                *)
LEMMA TotalOfOne ==
  ASSUME NEW n \in Nat, NEW h, NEW j \in 0 .. n - 1, NEW d \in Int,
         \A i \in 0 .. n - 1 : h[i] = IF i = j THEN d ELSE 0
  PROVE  Total(h, n) = d
<1> DEFINE zero == [i \in 0 .. n - 1 |-> 0]
<1>1. \A i \in 0 .. n - 1 : zero[i] = 0
  OBVIOUS
<1>2. \A i \in 0 .. n - 1 : zero[i] \in Int
  OBVIOUS
<1>3. (\A i \in 0 .. n - 1 : i # j => h[i] = zero[i]) /\ h[j] = zero[j] + d
  OBVIOUS
<1> HIDE DEF zero
<1>4. Total(zero, n) = 0
  BY <1>1, TotalOfZeros
<1>5. Total(h, n) = Total(zero, n) + d
  BY <1>2, <1>3, TotalChange, ZenonT(30)
<1> QED BY <1>4, <1>5

(* A sum in two parts.                                                     *)
LEMMA TotalJoined ==
  ASSUME NEW a \in Nat, NEW b \in Nat, NEW h, \A i \in 0 .. a + b - 1 : h[i] \in Int
  PROVE  Total(h, a + b) = Total(h, a) + Total([i \in 0 .. b - 1 |-> h[a + i]], b)
<1> DEFINE g == [i \in 0 .. b - 1 |-> h[a + i]]
           T == {k \in 0 .. b : Total(h, a + k) = Total(h, a) + Total(g, k)}
<1>1. \A i \in 0 .. b - 1 : a + i \in 0 .. a + b - 1 /\ g[i] = h[a + i] /\ g[i] \in Int
  OBVIOUS
<1> HIDE DEF g
<1>2. 0 \in T
  <2>1. Total(g, 0) = 0
    <3>1. \A i \in 0 .. 0 - 1 : g[i] = 0
      OBVIOUS
    <3> QED BY <3>1, TotalOfZeros
  <2>2. Total(h, a) \in Int
    <3>1. \A i \in 0 .. a - 1 : h[i] \in Int
      OBVIOUS
    <3> QED BY <3>1, TotalInt
  <2>3. 0 \in 0 .. b /\ a + 0 = a
    OBVIOUS
  <2> QED BY <2>1, <2>2, <2>3
<1>3. ASSUME NEW k \in 0 .. b - 1, k \in T PROVE k + 1 \in T
  <2>1. k \in Nat /\ k + 1 \in 0 .. b /\ a + k \in Nat /\ a + (k + 1) = (a + k) + 1
    OBVIOUS
  <2>2. Total(h, (a + k) + 1) = Total(h, a + k) + h[a + k]
    <3>1. \A i \in 0 .. a + k : h[i] \in Int
      OBVIOUS
    <3> QED BY <2>1, <3>1, TotalStep
  <2>3. Total(g, k + 1) = Total(g, k) + g[k]
    <3>1. \A i \in 0 .. k : g[i] \in Int
      BY <1>1
    <3> QED BY <2>1, <3>1, TotalStep
  <2>4. Total(h, a) \in Int /\ Total(g, k) \in Int
    <3>1. (\A i \in 0 .. a - 1 : h[i] \in Int) /\ \A i \in 0 .. k - 1 : g[i] \in Int
      BY <1>1
    <3> QED BY <2>1, <3>1, TotalInt
  <2>5. g[k] = h[a + k] /\ g[k] \in Int /\ Total(h, a + k) = Total(h, a) + Total(g, k)
    BY <1>1, <1>3
  <2>6. Total(h, a + (k + 1)) = Total(h, a) + Total(g, k + 1)
    BY <2>1, <2>2, <2>3, <2>4, <2>5
  <2> QED BY <2>1, <2>6
<1> HIDE DEF T
<1>4. \A k \in 0 .. b : k \in T
  BY <1>2, <1>3, InductionUpTo
<1> QED BY <1>4 DEF T, g

(* h has the number u[q] for each element q of the list s, and g has it    *)
(* times the number of elements that are q.                                *)
IsGrouped(n, k, s, u, h, g) ==
    /\ \A i \in 0 .. k - 1 : s[i] \in 0 .. n - 1 /\ h[i] = u[s[i]]
    /\ \A q \in 0 .. n - 1 :
          u[q] \in Int /\ g[q] = Cardinality({i \in 0 .. k - 1 : s[i] = q}) * u[q]

(* The sum of a number per element of a list, by the value of the element. *)
LEMMA TotalOfGroups ==
  ASSUME NEW n \in Nat, NEW k \in Nat, NEW s, NEW u, NEW h, NEW g, IsGrouped(n, k, s, u, h, g)
  PROVE  Total(h, k) = Total(g, n)
<1> DEFINE Group(q, m) == {i \in 0 .. m - 1 : s[i] = q}
           Groups(m) == [q \in 0 .. n - 1 |-> Cardinality(Group(q, m)) * u[q]]
           T == {m \in 0 .. k : Total(h, m) = Total(Groups(m), n)}
<1>0. \A i \in 0 .. k - 1 : s[i] \in 0 .. n - 1 /\ h[i] = u[s[i]] /\ h[i] \in Int
  BY DEF IsGrouped
<1>1. ASSUME NEW m \in 0 .. k, NEW q \in 0 .. n - 1
      PROVE  IsFiniteSet(Group(q, m)) /\ Cardinality(Group(q, m)) \in Nat
  <2>1. IsFiniteSet(0 .. m - 1)
    BY FS_Interval
  <2>2. IsFiniteSet(Group(q, m))
    BY <2>1, FS_Subset
  <2> QED BY <2>2, FS_CardinalityType
<1>2. ASSUME NEW m \in 0 .. k - 1, NEW q \in 0 .. n - 1
      PROVE  Cardinality(Group(q, m + 1)) =
                IF q = s[m] THEN Cardinality(Group(q, m)) + 1 ELSE Cardinality(Group(q, m))
  <2>1. CASE s[m] = q
    <3>1. Group(q, m + 1) = Group(q, m) \cup {m} /\ m \notin Group(q, m) /\ m \in 0 .. k
      BY <2>1
    <3>2. IsFiniteSet(Group(q, m))
      BY <1>1, <3>1
    <3> HIDE DEF Group
    <3>3. Cardinality(Group(q, m) \cup {m}) = Cardinality(Group(q, m)) + 1
      BY <3>1, <3>2, FS_AddElement
    <3> QED BY <2>1, <3>1, <3>3
  <2>2. CASE s[m] # q
    <3>1. Group(q, m + 1) = Group(q, m)
      BY <2>2
    <3> QED BY <2>2, <3>1
  <2> QED BY <2>1, <2>2
<1>3. 0 \in T
  <2>1. ASSUME NEW q \in 0 .. n - 1 PROVE Groups(0)[q] = 0
    <3>1. Group(q, 0) = {}
      OBVIOUS
    <3>2. Cardinality(Group(q, 0)) = 0
      BY <3>1, FS_EmptySet
    <3>3. \A x \in Int : 0 * x = 0
      OBVIOUS
    <3>4. u[q] \in Int
      BY DEF IsGrouped
    <3> HIDE DEF Group
    <3> QED BY <3>2, <3>3, <3>4
  <2> HIDE DEF Groups
  <2>2. Total(Groups(0), n) = 0
    BY <2>1, TotalOfZeros
  <2>3. Total(h, 0) = 0
    <3>1. \A i \in 0 .. 0 - 1 : h[i] = 0
      OBVIOUS
    <3> QED BY <3>1, TotalOfZeros
  <2> QED BY <2>2, <2>3
<1>4. ASSUME NEW m \in 0 .. k - 1, m \in T PROVE m + 1 \in T
  <2>1. m \in Nat /\ m \in 0 .. k /\ m + 1 \in 0 .. k
    OBVIOUS
  <2>2. s[m] \in 0 .. n - 1 /\ h[m] = u[s[m]] /\ h[m] \in Int
    BY <1>0
  <2>3. Total(h, m + 1) = Total(h, m) + h[m]
    <3>1. \A i \in 0 .. m : h[i] \in Int
      BY <1>0
    <3> QED BY <2>1, <3>1, TotalStep
  <2>4. ASSUME NEW q \in 0 .. n - 1
        PROVE  /\ Groups(m)[q] \in Int
               /\ Groups(m + 1)[q] = IF q = s[m] THEN Groups(m)[q] + h[m] ELSE Groups(m)[q]
    <3>1. Cardinality(Group(q, m)) \in Nat /\ u[q] \in Int
      BY <1>1, <2>1 DEF IsGrouped
    <3>2. \A a \in Nat, x \in Int : a * x \in Int /\ (a + 1) * x = a * x + x
      OBVIOUS
    <3>3. /\ Groups(m)[q] = Cardinality(Group(q, m)) * u[q]
          /\ Groups(m + 1)[q] = Cardinality(Group(q, m + 1)) * u[q]
      OBVIOUS
    <3> HIDE DEF Group, Groups
    <3> QED BY <1>2, <2>2, <3>1, <3>2, <3>3
  <2>5. Total(Groups(m + 1), n) = Total(Groups(m), n) + h[m]
    <3>1. \A q \in 0 .. n - 1 : Groups(m)[q] \in Int
      BY <2>4
    <3>2. /\ \A q \in 0 .. n - 1 : q # s[m] => Groups(m + 1)[q] = Groups(m)[q]
          /\ Groups(m + 1)[s[m]] = Groups(m)[s[m]] + h[m]
      BY <2>2, <2>4
    <3> HIDE DEF Groups
    <3> QED BY <2>2, <3>1, <3>2, TotalChange, ZenonT(30)
  <2>6. Total(h, m) = Total(Groups(m), n)
    BY <1>4
  <2> QED BY <2>1, <2>3, <2>5, <2>6
<1> HIDE DEF T
<1>5. \A m \in 0 .. k : m \in T
  BY <1>3, <1>4, InductionUpTo
<1>6. Total(h, k) = Total(Groups(k), n)
  BY <1>5 DEF T
<1>7. \A q \in 0 .. n - 1 : Groups(k)[q] \in Int /\ Groups(k)[q] = g[q]
  <2> SUFFICES ASSUME NEW q \in 0 .. n - 1 PROVE Groups(k)[q] \in Int /\ Groups(k)[q] = g[q]
    OBVIOUS
  <2>1. Cardinality(Group(q, k)) \in Nat /\ u[q] \in Int
    <3>1. k \in 0 .. k
      OBVIOUS
    <3> HIDE DEF Group
    <3> QED BY <1>1, <3>1 DEF IsGrouped
  <2>2. \A a \in Nat, x \in Int : a * x \in Int
    OBVIOUS
  <2>3. Groups(k)[q] = Cardinality(Group(q, k)) * u[q] /\ g[q] = Cardinality(Group(q, k)) * u[q]
    BY DEF IsGrouped
  <2> HIDE DEF Group, Groups
  <2> QED BY <2>1, <2>2, <2>3
<1> HIDE DEF Groups
<1>8. Total(Groups(k), n) = Total(g, n)
  BY <1>7, TotalEqual
<1> QED BY <1>6, <1>8

-----------------------------------------------------------------------------
(* counts[q] is 1 at the node m, plus counts[f] for each edge from f to q. *)
FollowsEdges(counts, edges, m, n) ==
    \A q \in 0 .. n - 1 :
        /\ counts[q] \in Nat
        /\ counts[q] = (IF q = m THEN 1 ELSE 0) + Total(Entering(edges, counts, q, n), n)

(* ways[f] is 1 at the node p, plus ways[q] for each edge from f to q.     *)
PrecedesEdges(ways, edges, p, n) ==
    \A f \in 0 .. n - 1 :
        /\ ways[f] \in Nat
        /\ ways[f] = (IF f = p THEN 1 ELSE 0)
                     + Total([q \in 0 .. n - 1 |-> ways[q] * edges[f][q]], n)

HasFewer(few, edges, n) ==
    \A f, q \in 0 .. n - 1 : edges[f][q] \in Nat /\ few[f][q] \in Nat /\ few[f][q] <= edges[f][q]

HasTheSame(few, edges, counts, n) ==
    \A f, q \in 0 .. n - 1 : counts[f] # 0 => few[f][q] = edges[f][q]

(* Counted forward, the walks from m to p are at least as many as counted  *)
(* backward along fewer edges; they are as many if no edge of a node with  *)
(* a walk from m is left out.                                              *)
LEMMA WalksMeet ==
  ASSUME NEW n \in Nat, NEW m \in 0 .. n - 1, NEW p \in 0 .. n - 1,
         NEW edges, NEW few, NEW counts, NEW ways,
         FollowsEdges(counts, edges, m, n), PrecedesEdges(ways, few, p, n),
         HasFewer(few, edges, n)
  PROVE  /\ ways[m] <= counts[p]
         /\ HasTheSame(few, edges, counts, n) => ways[m] = counts[p]
<1> DEFINE product == [f \in 0 .. n - 1 |-> counts[f] * ways[f]]
           all == [q \in 0 .. n - 1 |-> Total(Entering(edges, counts, q, n), n)]
           some == [q \in 0 .. n - 1 |-> Total(Entering(few, counts, q, n), n)]
           fromAll == [q \in 0 .. n - 1 |-> ways[q] * all[q]]
           fromSome == [q \in 0 .. n - 1 |-> ways[q] * some[q]]
           leaving(f) == [q \in 0 .. n - 1 |-> ways[q] * few[f][q]]
           grid == [f \in 0 .. n - 1 |-> [q \in 0 .. n - 1 |-> counts[f] * (ways[q] * few[f][q])]]
           turned == [q \in 0 .. n - 1 |-> [f \in 0 .. n - 1 |-> grid[f][q]]]
           rows == [f \in 0 .. n - 1 |-> counts[f] * Total(leaving(f), n)]
           atP == [f \in 0 .. n - 1 |-> IF f = p THEN counts[p] ELSE 0]
           atM == [f \in 0 .. n - 1 |-> IF f = m THEN ways[m] ELSE 0]
<1>0. \A a, b, c \in Int : /\ a * b \in Int /\ a * (b + c) = a * b + a * c /\ a * b = b * a
                          /\ a * (b * c) = b * (a * c) /\ a * 1 = a /\ a * 0 = 0
  OBVIOUS
<1>1. ASSUME NEW f \in 0 .. n - 1
      PROVE  /\ counts[f] \in Nat /\ ways[f] \in Nat
             /\ \A q \in 0 .. n - 1 : edges[f][q] \in Nat /\ few[f][q] \in Nat /\ few[f][q] <= edges[f][q]
  BY DEF FollowsEdges, PrecedesEdges, HasFewer
<1>2. ASSUME NEW q \in 0 .. n - 1
      PROVE  /\ all[q] \in Int /\ some[q] \in Int /\ some[q] <= all[q]
             /\ HasTheSame(few, edges, counts, n) => some[q] = all[q]
  <2>1. ASSUME NEW f \in 0 .. n - 1
        PROVE  /\ Entering(edges, counts, q, n)[f] \in Int
               /\ Entering(few, counts, q, n)[f] \in Int
               /\ Entering(few, counts, q, n)[f] <= Entering(edges, counts, q, n)[f]
               /\ HasTheSame(few, edges, counts, n) =>
                      Entering(few, counts, q, n)[f] = Entering(edges, counts, q, n)[f]
    <3>1. /\ Entering(edges, counts, q, n)[f] = counts[f] * edges[f][q]
          /\ Entering(few, counts, q, n)[f] = counts[f] * few[f][q]
      BY DEF Entering
    <3>2. \A a, b, c \in Nat : /\ a * b \in Int /\ b <= c => a * b <= a * c
                              /\ a = 0 => a * b = a * c
      OBVIOUS
    <3>3. HasTheSame(few, edges, counts, n) => counts[f] = 0 \/ few[f][q] = edges[f][q]
      BY DEF HasTheSame
    <3> QED BY <1>1, <3>1, <3>2, <3>3
  <2>2. /\ Total(Entering(edges, counts, q, n), n) \in Int
        /\ Total(Entering(few, counts, q, n), n) \in Int
    BY <2>1, TotalInt
  <2>3. Total(Entering(few, counts, q, n), n) <= Total(Entering(edges, counts, q, n), n)
    BY <2>1, TotalMonotonic
  <2>4. ASSUME HasTheSame(few, edges, counts, n)
        PROVE  Total(Entering(few, counts, q, n), n) = Total(Entering(edges, counts, q, n), n)
    BY <2>1, <2>4, TotalEqual
  <2> QED BY <2>2, <2>3, <2>4
<1>3. ASSUME NEW f \in 0 .. n - 1
      PROVE  /\ \A q \in 0 .. n - 1 : leaving(f)[q] \in Int /\ grid[f][q] \in Int
                                       /\ grid[f][q] = counts[f] * leaving(f)[q]
             /\ Total(leaving(f), n) \in Int
             /\ rows[f] \in Int
             /\ rows[f] = Total(grid[f], n)
  <2>1. ASSUME NEW q \in 0 .. n - 1
        PROVE  leaving(f)[q] \in Int /\ grid[f][q] \in Int /\ grid[f][q] = counts[f] * leaving(f)[q]
    BY <1>0, <1>1
  <2>2. rows[f] = counts[f] * Total(leaving(f), n)
    OBVIOUS
  <2> DEFINE l == leaving(f)
             g == grid[f]
  <2>3. counts[f] \in Int /\ \A q \in 0 .. n - 1 : l[q] \in Int /\ g[q] = counts[f] * l[q]
    BY <1>1, <2>1
  <2> HIDE DEF l, g
  <2>4. Total(l, n) \in Int
    BY <2>3, TotalInt
  <2>5. Total(g, n) = counts[f] * Total(l, n)
    BY <2>3, TotalScaled
  <2> USE DEF l, g
  <2> HIDE DEF leaving, grid, rows
  <2>6. rows[f] \in Int
    BY <1>0, <2>2, <2>3, <2>4
  <2> QED BY <2>1, <2>2, <2>4, <2>5, <2>6
<1>4. ASSUME NEW q \in 0 .. n - 1
      PROVE  fromSome[q] = Total(turned[q], n)
  <2> DEFINE column == turned[q]
             entering == Entering(few, counts, q, n)
  <2>1. ASSUME NEW f \in 0 .. n - 1
        PROVE  entering[f] \in Int /\ column[f] = ways[q] * entering[f]
    <3>1. counts[f] \in Int /\ ways[q] \in Int /\ few[f][q] \in Int
      BY <1>1
    <3> QED BY <1>0, <3>1 DEF Entering
  <2>2. fromSome[q] = ways[q] * Total(entering, n)
    OBVIOUS
  <2> HIDE DEF column, entering
  <2>3. ways[q] \in Int
    BY <1>1
  <2>4. Total(column, n) = ways[q] * Total(entering, n)
    BY <2>1, <2>3, TotalScaled
  <2> QED BY <2>2, <2>4 DEF column
<1>5. Total(rows, n) = Total(fromSome, n)
  <2>0. \A f \in 0 .. n - 1 : \A q \in 0 .. n - 1 : turned[q][f] = grid[f][q]
    OBVIOUS
  <2> HIDE DEF rows, grid, turned, fromSome
  <2>1. \A f \in 0 .. n - 1 : \A q \in 0 .. n - 1 : grid[f][q] \in Int /\ turned[q][f] = grid[f][q]
    BY <1>3, <2>0
  <2>2. \A f \in 0 .. n - 1 : rows[f] = Total(grid[f], n)
    BY <1>3
  <2>3. \A q \in 0 .. n - 1 : fromSome[q] = Total(turned[q], n)
    BY <1>4
  <2>4. IsTable(grid, turned, rows, fromSome, n, n)
    BY <2>1, <2>2, <2>3 DEF IsTable
  <2> QED BY <2>4, TotalExchange
<1>6. ASSUME NEW f \in 0 .. n - 1
      PROVE  product[f] = atP[f] + rows[f] /\ atP[f] \in Int
  <2>1. ways[f] = (IF f = p THEN 1 ELSE 0) + Total(leaving(f), n)
    BY DEF PrecedesEdges
  <2>2. counts[f] \in Int /\ Total(leaving(f), n) \in Int
    <3> HIDE DEF leaving, grid, rows
    <3> QED BY <1>1, <1>3
  <2>3. product[f] = counts[f] * ways[f] /\ rows[f] = counts[f] * Total(leaving(f), n)
    OBVIOUS
  <2>4. atP[f] = counts[f] * (IF f = p THEN 1 ELSE 0)
    BY <1>0, <2>2
  <2> HIDE DEF product, rows, leaving, atP
  <2> QED BY <1>0, <2>1, <2>2, <2>3, <2>4
<1>7. ASSUME NEW f \in 0 .. n - 1
      PROVE  product[f] = atM[f] + fromAll[f] /\ atM[f] \in Int
  <2>1. counts[f] = (IF f = m THEN 1 ELSE 0) + all[f]
    BY DEF FollowsEdges
  <2>2. ways[f] \in Int /\ all[f] \in Int /\ counts[f] \in Int
    BY <1>1, <1>2
  <2>3. product[f] = ways[f] * counts[f] /\ fromAll[f] = ways[f] * all[f]
    BY <1>0, <2>2
  <2>4. atM[f] = ways[f] * (IF f = m THEN 1 ELSE 0)
    BY <1>0, <2>2
  <2> HIDE DEF product, fromAll, all, atM
  <2> QED BY <1>0, <2>1, <2>2, <2>3, <2>4
<1>8. \A q \in 0 .. n - 1 : /\ fromAll[q] \in Int /\ fromSome[q] \in Int /\ fromSome[q] <= fromAll[q]
                            /\ HasTheSame(few, edges, counts, n) => fromSome[q] = fromAll[q]
  <2> SUFFICES ASSUME NEW q \in 0 .. n - 1
               PROVE  /\ fromAll[q] \in Int /\ fromSome[q] \in Int /\ fromSome[q] <= fromAll[q]
                      /\ HasTheSame(few, edges, counts, n) => fromSome[q] = fromAll[q]
    OBVIOUS
  <2>1. fromAll[q] = ways[q] * all[q] /\ fromSome[q] = ways[q] * some[q] /\ ways[q] \in Nat
    BY <1>1
  <2>2. \A a \in Nat, b, c \in Int : a * b \in Int /\ (b <= c => a * b <= a * c)
    OBVIOUS
  <2> HIDE DEF fromAll, fromSome, all, some
  <2> QED BY <1>2, <2>1, <2>2
<1>9. Total(atP, n) = counts[p] /\ Total(atM, n) = ways[m] /\ counts[p] \in Int /\ ways[m] \in Int
  <2>1. counts[p] \in Int /\ ways[m] \in Int
    BY <1>1
  <2>2. /\ \A i \in 0 .. n - 1 : atP[i] = IF i = p THEN counts[p] ELSE 0
        /\ \A i \in 0 .. n - 1 : atM[i] = IF i = m THEN ways[m] ELSE 0
    OBVIOUS
  <2> HIDE DEF atP, atM
  <2> QED BY <2>1, <2>2, TotalOfOne
<1> HIDE DEF product, all, some, fromAll, fromSome, leaving, grid, turned, rows, atP, atM
<1>10. Total(product, n) = Total(atP, n) + Total(rows, n)
  BY <1>3, <1>6, TotalOfSums
<1>11. Total(product, n) = Total(atM, n) + Total(fromAll, n)
  BY <1>7, <1>8, TotalOfSums
<1>12. /\ Total(fromSome, n) \in Int /\ Total(fromAll, n) \in Int
       /\ Total(fromSome, n) <= Total(fromAll, n)
  BY <1>8, TotalInt, TotalMonotonic
<1>13. HasTheSame(few, edges, counts, n) => Total(fromSome, n) = Total(fromAll, n)
  BY <1>8, TotalEqual
<1> QED BY <1>5, <1>9, <1>10, <1>11, <1>12, <1>13

(* The numbers from 0 to n - 1, each counted once, are n.                  *)
LEMMA TotalOfUnits ==
  ASSUME NEW n \in Nat, NEW h, \A i \in 0 .. n - 1 : h[i] = 1
  PROVE  Total(h, n) = n
<1> DEFINE T == {k \in 0 .. n : Total(h, k) = k}
<1>1. 0 \in T
  <2>1. \A i \in 0 .. -1 : h[i] = 0
    OBVIOUS
  <2>2. \A i \in 0 .. 0 - 1 : h[i] = 0
    BY <2>1
  <2> QED BY <2>2, TotalOfZeros
<1>2. ASSUME NEW k \in 0 .. n - 1, k \in T
      PROVE  k + 1 \in T
  <2>1. k \in Nat /\ \A i \in 0 .. k : h[i] \in Int
    OBVIOUS
  <2>2. Total(h, k + 1) = Total(h, k) + h[k]
    BY <2>1, TotalStep
  <2> QED BY <1>2, <2>2
<1> HIDE DEF T
<1>3. \A k \in 0 .. n : k \in T
  BY <1>1, <1>2, InductionUpTo
<1> QED BY <1>3 DEF T
=============================================================================
