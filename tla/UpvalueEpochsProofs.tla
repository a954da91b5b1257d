------------------------ MODULE UpvalueEpochsProofs ------------------------
(***************************************************************************)
(* Proofs about the epochs of a captured register, for every function.     *)
(*                                                                         *)
(* EpochsInvariant is inductive.  Its core is that the worklist loses no   *)
(* block: one that is not in it begins with the epochs its predecessors    *)
(* end with (JoinAgrees), and the statements of a processed block follow   *)
(* from what it begins with (BlockAgrees).  Epochs are only ever united,   *)
(* so that what has been made equal stays equal (IsCoarser).  When the     *)
(* worklist is empty, this holds for every block; materialize_ranges then  *)
(* unites nothing any more, and an execution stays with the epochs from    *)
(* block to block (BoxAgrees).                                             *)
(*                                                                         *)
(* ScopesInvariant is inductive relative to it: in a function whose scopes *)
(* nest, the captures that are united capture the same variable.           *)
(***************************************************************************)
EXTENDS UpvalueEpochs, NaturalSums

-----------------------------------------------------------------------------
(* Sequences and blocks in order.                                          *)

(* The concatenation of two sequences has the elements of both.            *)
LEMMA ConcatenationHasBoth ==
  ASSUME NEW S, NEW s \in Seq(S), NEW t \in Seq(S)
  PROVE  /\ s \o t \in Seq(S) /\ ToSet(s \o t) = ToSet(s) \cup ToSet(t)
         /\ IsInjective(s) /\ IsInjective(t) /\ ToSet(s) \cap ToSet(t) = {} => IsInjective(s \o t)
<1> DEFINE a == Len(s)
           b == Len(t)
<1>1. /\ a \in Nat /\ b \in Nat /\ DOMAIN s = 1 .. a /\ DOMAIN t = 1 .. b
      /\ s \o t \in Seq(S) /\ DOMAIN (s \o t) = 1 .. a + b
      /\ \A i \in 1 .. a + b : (s \o t)[i] = IF i <= a THEN s[i] ELSE t[i - a]
  OBVIOUS
<1> HIDE DEF a, b
<1>2. ASSUME NEW i \in 1 .. a + b
      PROVE  \/ i \in 1 .. a /\ (s \o t)[i] = s[i]
             \/ i \notin 1 .. a /\ i - a \in 1 .. b /\ (s \o t)[i] = t[i - a]
  BY <1>1
<1>3. ASSUME NEW i \in 1 .. a
      PROVE  i \in 1 .. a + b /\ (s \o t)[i] = s[i]
  BY <1>1
<1>4. ASSUME NEW i \in 1 .. b
      PROVE  i + a \in 1 .. a + b /\ (s \o t)[i + a] = t[i]
  <2>1. i + a \in 1 .. a + b /\ ~ (i + a <= a) /\ (i + a) - a = i
    BY <1>1
  <2> QED BY <1>1, <2>1
<1>5. ToSet(s \o t) \subseteq ToSet(s) \cup ToSet(t)
  BY <1>1, <1>2 DEF ToSet
<1>6. ToSet(s) \cup ToSet(t) \subseteq ToSet(s \o t)
  <2>1. ASSUME NEW i \in 1 .. a
        PROVE  s[i] \in ToSet(s \o t)
    BY <1>1, <1>3 DEF ToSet
  <2>2. ASSUME NEW i \in 1 .. b
        PROVE  t[i] \in ToSet(s \o t)
    BY <1>1, <1>4 DEF ToSet
  <2> QED BY <1>1, <2>1, <2>2 DEF ToSet
<1>7. ASSUME IsInjective(s), IsInjective(t), ToSet(s) \cap ToSet(t) = {},
             NEW i \in 1 .. a + b, NEW j \in 1 .. a + b, (s \o t)[i] = (s \o t)[j]
      PROVE  i = j
  <2>1. \A k \in 1 .. a, l \in 1 .. b : s[k] # t[l]
    BY <1>1, <1>7 DEF ToSet
  <2>2. i \in 1 .. a <=> j \in 1 .. a
    BY <1>2, <1>7, <2>1
  <2>3. CASE i \in 1 .. a
    BY <1>1, <1>2, <1>7, <2>2, <2>3 DEF IsInjective
  <2>4. CASE i \notin 1 .. a
    <3>1. i - a \in 1 .. b /\ j - a \in 1 .. b /\ t[i - a] = t[j - a]
      BY <1>2, <1>7, <2>2, <2>4
    <3>2. i - a = j - a
      BY <1>1, <1>7, <3>1 DEF IsInjective
    <3> QED BY <1>1, <3>2
  <2> QED BY <2>3, <2>4
<1>8. IsInjective(s) /\ IsInjective(t) /\ ToSet(s) \cap ToSet(t) = {} => IsInjective(s \o t)
  BY <1>1, <1>7 DEF IsInjective
<1> QED BY <1>1, <1>5, <1>6, <1>8

(* A worklist that is not empty consists of its head and its tail.         *)
LEMMA HeadAndTail ==
  ASSUME NEW S, NEW s \in Seq(S), s # <<>>
  PROVE  /\ Head(s) \in S /\ Tail(s) \in Seq(S)
         /\ ToSet(s) = {Head(s)} \cup ToSet(Tail(s))
         /\ IsInjective(s) => IsInjective(Tail(s))
<1> DEFINE n == Len(s)
<1>1. /\ n \in Nat /\ n # 0 /\ DOMAIN s = 1 .. n /\ Head(s) = s[1] /\ Head(s) \in S
      /\ Tail(s) \in Seq(S) /\ DOMAIN Tail(s) = 1 .. n - 1
      /\ \A i \in 1 .. n - 1 : Tail(s)[i] = s[i + 1]
  OBVIOUS
<1> HIDE DEF n
<1>2. \A i \in 1 .. n - 1 : i + 1 \in 1 .. n
  BY <1>1
<1>3. \A i \in 1 .. n : i = 1 \/ (i - 1 \in 1 .. n - 1 /\ Tail(s)[i - 1] = s[i])
  BY <1>1
<1>4. 1 \in 1 .. n
  BY <1>1
<1>5. ToSet(s) \subseteq {Head(s)} \cup ToSet(Tail(s))
  <2>1. ASSUME NEW i \in 1 .. n
        PROVE  s[i] \in {Head(s)} \cup ToSet(Tail(s))
    BY <1>1, <1>3 DEF ToSet
  <2> QED BY <1>1, <2>1 DEF ToSet
<1>6. {Head(s)} \cup ToSet(Tail(s)) \subseteq ToSet(s)
  BY <1>1, <1>2, <1>4 DEF ToSet
<1>7. ASSUME IsInjective(s)
      PROVE  IsInjective(Tail(s))
  <2>1. ASSUME NEW i \in 1 .. n - 1, NEW j \in 1 .. n - 1, Tail(s)[i] = Tail(s)[j]
        PROVE  i = j
    <3>1. s[i + 1] = s[j + 1]
      BY <1>1, <2>1
    <3>2. i + 1 = j + 1
      BY <1>1, <1>2, <1>7, <3>1 DEF IsInjective
    <3> QED BY <1>1, <3>2
  <2> QED BY <1>1, <2>1 DEF IsInjective
<1> QED BY <1>1, <1>5, <1>6, <1>7

IsOrder(order, nodes) ==
    /\ order \in [1 .. Cardinality(nodes) -> nodes]
    /\ \A i, j \in 1 .. Cardinality(nodes) : i < j => order[i] < order[j]

(* A finite set of block indices can be put in order: its least element is *)
(* followed by the rest of it in order.                                    *)
LEMMA OrderExists ==
  ASSUME NEW n \in Nat, NEW nodes \in SUBSET Nat, IsFiniteSet(nodes), Cardinality(nodes) = n
  PROVE  \E order : IsOrder(order, nodes)
<1> DEFINE T == {k \in 0 .. n : \A N \in SUBSET nodes :
                     IsFiniteSet(N) /\ Cardinality(N) = k => \E order : IsOrder(order, N)}
<1>1. 0 \in T
  <2>1. ASSUME NEW N \in SUBSET nodes, Cardinality(N) = 0
        PROVE  IsOrder(<<>>, N)
    BY <2>1 DEF IsOrder
  <2> QED BY <2>1
<1>2. ASSUME NEW k \in 0 .. n - 1, k \in T
      PROVE  k + 1 \in T
  <2> SUFFICES ASSUME NEW N \in SUBSET nodes, IsFiniteSet(N), Cardinality(N) = k + 1
               PROVE  \E order : IsOrder(order, N)
    OBVIOUS
  <2>1. N # {}
    BY FS_EmptySet
  <2>2. PICK least \in N : \A x \in N : least <= x
    BY <2>1, LeastNatural
  <2> DEFINE rest == N \ {least}
  <2>3. IsFiniteSet(rest) /\ Cardinality(rest) = k /\ rest \in SUBSET nodes
    <3>1. IsFiniteSet(rest) /\ Cardinality(rest) = Cardinality(N) - 1
      BY FS_RemoveElement
    <3>2. k \in Int /\ (k + 1) - 1 = k
      OBVIOUS
    <3> QED BY <3>1, <3>2
  <2>4. PICK order : IsOrder(order, rest)
    BY <1>2, <2>3
  <2> DEFINE more == [i \in 1 .. k + 1 |-> IF i = 1 THEN least ELSE order[i - 1]]
  <2>5. \A x \in rest : x \in N /\ x \in Nat /\ least \in Nat /\ least < x
    BY <2>2
  <2>6. /\ \A i \in 1 .. k : order[i] \in rest
        /\ \A i, j \in 1 .. k : i < j => order[i] < order[j]
    BY <2>3, <2>4 DEF IsOrder
  <2> HIDE DEF rest
  <2>7. /\ more[1] = least
        /\ \A i \in 1 .. k + 1 : i # 1 => i - 1 \in 1 .. k /\ more[i] = order[i - 1]
    OBVIOUS
  <2>8. more \in [1 .. k + 1 -> N]
    <3>1. \A i \in 1 .. k + 1 : more[i] \in N
      BY <2>5, <2>6, <2>7
    <3> QED BY <3>1
  <2> HIDE DEF more
  <2>9. ASSUME NEW i \in 1 .. k + 1, NEW j \in 1 .. k + 1, i < j
        PROVE  more[i] < more[j]
    <3>1. j # 1 /\ j - 1 \in 1 .. k /\ more[j] = order[j - 1]
      BY <2>7, <2>9
    <3>2. CASE i = 1
      BY <2>5, <2>6, <2>7, <3>1, <3>2
    <3>3. CASE i # 1
      <4>1. i - 1 \in 1 .. k /\ more[i] = order[i - 1] /\ i - 1 < j - 1
        BY <2>7, <2>9, <3>3
      <4> QED BY <2>6, <3>1, <4>1
    <3> QED BY <3>2, <3>3
  <2>10. IsOrder(more, N)
    BY <2>8, <2>9 DEF IsOrder
  <2> QED BY <2>10
<1> HIDE DEF T
<1>3. \A k \in 0 .. n : k \in T
  BY <1>1, <1>2, InductionUpTo
<1>4. n \in T /\ nodes \in SUBSET nodes
  BY <1>3
<1> QED BY <1>4 DEF T

(* InOrder lists every block of a set once.                                *)
LEMMA InOrderListsEach ==
  ASSUME NEW nodes \in SUBSET Nat, IsFiniteSet(nodes)
  PROVE  /\ InOrder(nodes) \in Seq(nodes) /\ ToSet(InOrder(nodes)) = nodes
         /\ IsInjective(InOrder(nodes))
<1> DEFINE n == Cardinality(nodes)
           order == InOrder(nodes)
<1>1. n \in Nat
  BY FS_CardinalityType
<1>2. \E x : IsOrder(x, nodes)
  BY <1>1, OrderExists
<1>3. IsOrder(order, nodes)
  BY <1>2 DEF IsOrder, InOrder
<1> HIDE DEF order
<1>4. /\ order \in [1 .. n -> nodes]
      /\ \A i, j \in 1 .. n : i < j => order[i] < order[j]
  BY <1>3 DEF IsOrder
<1> HIDE DEF n
<1>5. order \in Seq(nodes) /\ DOMAIN order = 1 .. n
  BY <1>1, <1>4
<1>6. \A i, j \in 1 .. n : order[i] = order[j] => i = j
  <2>1. \A i \in 1 .. n : order[i] \in Nat
    BY <1>4
  <2> QED BY <1>4, <2>1
<1>7. order \in Injection(1 .. n, nodes)
  BY <1>4, <1>6 DEF Injection, IsInjective
<1>8. 1 \in Int /\ n \in Int
  BY <1>1
<1>9. Cardinality(1 .. n) = n /\ n = Cardinality(nodes)
  BY <1>1, <1>8, FS_Interval DEF n
<1>10. order \in Surjection(1 .. n, nodes)
  BY <1>7, <1>9, FS_Injection
<1>11. ToSet(order) = nodes
  BY <1>4, <1>10 DEF Surjection, ToSet
<1>12. IsInjective(order)
  BY <1>5, <1>6 DEF IsInjective
<1> QED BY <1>5, <1>11, <1>12 DEF order

-----------------------------------------------------------------------------
(* The blocks that are reached.                                            *)

IsReached(f, starts, passed, n) ==
    f = [k \in 0 .. n |->
            IF k = 0 THEN starts
            ELSE f[k - 1] \cup UNION {Successors(m) : m \in f[k - 1] \cap passed}]

(* Reached solves its equation.                                            *)
LEMMA ReachedExists ==
  ASSUME function \in Function, NEW starts \in SUBSET Nodes, NEW passed \in SUBSET Nodes
  PROVE  IsReached(Reached(starts, passed), starts, passed, Cardinality(Nodes))
<1> DEFINE n == Cardinality(Nodes)
           V == SUBSET Nodes
           step == [x \in V \X (1 .. n) |-> x[1] \cup UNION {Successors(m) : m \in x[1] \cap passed}]
<1>1. n \in Nat
  BY FunctionsAssumption, FS_CardinalityType
<1> HIDE DEF n
<1>2. \A m \in Nodes : Successors(m) \in SUBSET Nodes
  BY DEF Function, Successors
<1>3. step \in [V \X (1 .. n) -> V]
  BY <1>2
<1>4. \A v \in V, k \in 1 .. n :
         step[<<v, k>>] = v \cup UNION {Successors(m) : m \in v \cap passed}
  OBVIOUS
<1> HIDE DEF step
<1>5. PICK f : IsRecursion(f, n, V, starts, step)
  BY <1>1, <1>3, RecursionExists
<1>6. f \in [0 .. n -> V]
  BY <1>5 DEF IsRecursion
<1>7. ASSUME NEW k \in 0 .. n
      PROVE  f[k] = IF k = 0 THEN starts
                    ELSE f[k - 1] \cup UNION {Successors(m) : m \in f[k - 1] \cap passed}
  <2>1. CASE k = 0
    BY <1>5, <2>1 DEF IsRecursion
  <2>2. CASE k # 0
    <3>1. k - 1 \in 0 .. n /\ k \in 1 .. n
      BY <1>1, <2>2
    <3>2. f[k - 1] \in V
      BY <1>6, <3>1
    <3>3. f[k] = step[<<f[k - 1], k>>]
      BY <1>5, <2>2 DEF IsRecursion
    <3> QED BY <1>4, <2>2, <3>1, <3>2, <3>3
  <2> QED BY <2>1, <2>2
<1>8. IsReached(f, starts, passed, n)
  BY <1>6, <1>7 DEF IsReached
<1>9. \E g : IsReached(g, starts, passed, n)
  BY <1>8
<1> QED BY <1>9 DEF IsReached, Reached, n

(* The blocks reached from some are blocks, these are among them, and so   *)
(* are the successors of each that is passed: if one round over them       *)
(* brings nothing new, none does, and there are no more rounds than        *)
(* blocks.                                                                 *)
LEMMA ReachedIsClosed ==
  ASSUME function \in Function, NEW starts \in SUBSET Nodes, starts # {}, NEW passed \in SUBSET Nodes
  PROVE  /\ ReachedFrom(starts, passed) \subseteq Nodes /\ starts \subseteq ReachedFrom(starts, passed)
         /\ \A m \in ReachedFrom(starts, passed) \cap passed :
               Successors(m) \subseteq ReachedFrom(starts, passed)
<1> DEFINE n == Cardinality(Nodes)
           f == Reached(starts, passed)
           More(k) == f[k] \cup UNION {Successors(m) : m \in f[k] \cap passed}
<1>1. n \in Nat
  BY FunctionsAssumption, FS_CardinalityType
<1>2. \A m \in Nodes : Successors(m) \in SUBSET Nodes
  BY DEF Function, Successors
<1>3. IsReached(f, starts, passed, n)
  BY <1>1, ReachedExists
<1>4. ReachedFrom(starts, passed) = f[n]
  BY DEF ReachedFrom
<1> HIDE DEF f, n
<1>5. f = [k \in 0 .. n |-> IF k = 0 THEN starts ELSE
              f[k - 1] \cup UNION {Successors(m) : m \in f[k - 1] \cap passed}]
  BY <1>3 DEF IsReached
<1>6. f[0] = starts
  BY <1>1, <1>5
<1>7. ASSUME NEW k \in 0 .. n - 1
      PROVE  f[k + 1] = More(k)
  <2>1. k + 1 \in 0 .. n /\ k + 1 # 0 /\ (k + 1) - 1 = k
    BY <1>1
  <2> QED BY <1>5, <2>1
<1> DEFINE Closed(k) == \A m \in f[k] \cap passed : Successors(m) \subseteq f[k]
           T == {k \in 0 .. n : /\ f[k] \subseteq Nodes /\ starts \subseteq f[k]
                                /\ Closed(k) \/ Cardinality(f[k]) >= k + 1}
<1>8. 0 \in T
  <2>1. IsFiniteSet(f[0]) /\ f[0] # {}
    BY <1>6, FunctionsAssumption, FS_Subset
  <2>2. Cardinality(f[0]) \in Nat /\ Cardinality(f[0]) # 0
    BY <2>1, FS_EmptySet, FS_CardinalityType
  <2>3. Cardinality(f[0]) >= 0 + 1
    BY <2>2
  <2>4. 0 \in 0 .. n /\ f[0] \subseteq Nodes /\ starts \subseteq f[0]
    BY <1>1, <1>6
  <2> QED BY <2>3, <2>4
<1>9. ASSUME NEW k \in 0 .. n - 1, k \in T
      PROVE  k + 1 \in T
  <2>1. k \in 0 .. n /\ k + 1 \in 0 .. n /\ k \in Nat
    BY <1>1
  <2>2. f[k] \subseteq Nodes /\ starts \subseteq f[k]
    BY <1>9
  <2>3. f[k + 1] = f[k] \cup UNION {Successors(m) : m \in f[k] \cap passed}
    BY <1>7
  <2>4. f[k] \subseteq f[k + 1] /\ f[k + 1] \subseteq Nodes
    BY <1>2, <2>2, <2>3
  <2>5. CASE Closed(k)
    <3>1. f[k + 1] = f[k]
      BY <2>3, <2>5
    <3> QED BY <1>9, <2>1, <2>2, <2>5, <3>1
  <2>6. CASE ~ Closed(k) /\ Cardinality(f[k]) >= k + 1
    <3>1. f[k] # f[k + 1]
      BY <2>3, <2>6
    <3>2. IsFiniteSet(f[k + 1])
      BY <2>4, FunctionsAssumption, FS_Subset
    <3>3. /\ Cardinality(f[k + 1]) \in Nat /\ IsFiniteSet(f[k]) /\ Cardinality(f[k]) \in Nat
          /\ Cardinality(f[k]) <= Cardinality(f[k + 1])
          /\ Cardinality(f[k]) # Cardinality(f[k + 1])
      BY <2>4, <3>1, <3>2, FS_Subset, FS_CardinalityType
    <3>4. Cardinality(f[k + 1]) >= (k + 1) + 1
      BY <2>1, <2>6, <3>3
    <3> QED BY <2>1, <2>2, <2>4, <3>4
  <2> QED BY <1>9, <2>5, <2>6
<1>10. n \in T
  <2> HIDE DEF T
  <2> QED BY <1>1, <1>8, <1>9, InductionUpTo
<1>11. Closed(n)
  <2>1. f[n] \subseteq Nodes
    BY <1>10
  <2>2. Cardinality(f[n]) <= n
    BY <2>1, FunctionsAssumption, FS_Subset DEF n
  <2>3. Cardinality(f[n]) \in Nat
    BY <2>1, FunctionsAssumption, FS_Subset, FS_CardinalityType
  <2>4. ~ (Cardinality(f[n]) >= n + 1)
    BY <1>1, <2>2, <2>3
  <2> QED BY <1>10, <2>4
<1> QED BY <1>4, <1>10, <1>11

(* No others are reached: a set that holds the blocks one starts from and  *)
(* the successors of those of its blocks that are passed holds them all.   *)
LEMMA ReachedIsLeast ==
  ASSUME function \in Function, NEW starts \in SUBSET Nodes, NEW passed \in SUBSET Nodes,
         NEW T, starts \subseteq T, \A m \in T \cap passed : Successors(m) \subseteq T
  PROVE  ReachedFrom(starts, passed) \subseteq T
<1> DEFINE n == Cardinality(Nodes)
           f == Reached(starts, passed)
           K == {k \in 0 .. n : f[k] \subseteq T}
<1>1. n \in Nat
  BY FunctionsAssumption, FS_CardinalityType
<1>2. IsReached(f, starts, passed, n)
  BY ReachedExists
<1>3. ReachedFrom(starts, passed) = f[n]
  BY DEF ReachedFrom
<1> HIDE DEF f, n
<1>4. f = [k \in 0 .. n |-> IF k = 0 THEN starts ELSE
              f[k - 1] \cup UNION {Successors(m) : m \in f[k - 1] \cap passed}]
  BY <1>2 DEF IsReached
<1>5. 0 \in K
  BY <1>1, <1>4
<1>6. ASSUME NEW k \in 0 .. n - 1, k \in K
      PROVE  k + 1 \in K
  <2>1. k + 1 \in 0 .. n /\ k + 1 # 0 /\ (k + 1) - 1 = k
    BY <1>1
  <2>2. f[k + 1] = f[k] \cup UNION {Successors(m) : m \in f[k] \cap passed}
    BY <1>4, <2>1
  <2> QED BY <1>6, <2>1, <2>2
<1> HIDE DEF K
<1>7. n \in K
  BY <1>1, <1>5, <1>6, InductionUpTo
<1> QED BY <1>3, <1>7 DEF K

(* The blocks of the function that are reached at all.                     *)
LEMMA ReachableIsClosed ==
  ASSUME function \in Function
  PROVE  /\ Reachable \subseteq Nodes /\ Entry \in Reachable
         /\ \A m \in Reachable : Successors(m) \subseteq Reachable
<1>1. {Entry} \in SUBSET Nodes /\ {Entry} # {} /\ Nodes \in SUBSET Nodes
  BY FunctionsAssumption
<1>2. /\ ReachedFrom({Entry}, Nodes) \subseteq Nodes /\ {Entry} \subseteq ReachedFrom({Entry}, Nodes)
      /\ \A m \in ReachedFrom({Entry}, Nodes) \cap Nodes :
            Successors(m) \subseteq ReachedFrom({Entry}, Nodes)
  BY <1>1, ReachedIsClosed
<1> QED BY <1>2 DEF Reachable

(* Of two blocks that are reached, one is reached without passing the      *)
(* other: neither dominates the other, or one of them is the first.  A     *)
(* block is reached without passing itself.                                *)
LEMMA OneIsReachedFirst ==
  ASSUME function \in Function, NEW a \in Reachable, NEW b \in Reachable
  PROVE  \/ a \in ReachedFrom({Entry}, Nodes \ {b})
         \/ b \in ReachedFrom({Entry}, Nodes \ {a})
<1> DEFINE A == ReachedFrom({Entry}, Nodes \ {b})
           B == ReachedFrom({Entry}, Nodes \ {a})
<1> SUFFICES ASSUME a \notin A, b \notin B
             PROVE  FALSE
  OBVIOUS
<1>1. /\ {Entry} \in SUBSET Nodes /\ {Entry} # {} /\ Nodes \in SUBSET Nodes
      /\ Nodes \ {a} \in SUBSET Nodes /\ Nodes \ {b} \in SUBSET Nodes
  BY FunctionsAssumption
<1>2. A \subseteq Nodes /\ {Entry} \subseteq A /\ \A m \in A \cap (Nodes \ {b}) : Successors(m) \subseteq A
  BY <1>1, ReachedIsClosed
<1>3. B \subseteq Nodes /\ {Entry} \subseteq B /\ \A m \in B \cap (Nodes \ {a}) : Successors(m) \subseteq B
  BY <1>1, ReachedIsClosed
<1> HIDE DEF A, B
<1>4. {Entry} \subseteq A \cap B /\ \A m \in (A \cap B) \cap Nodes : Successors(m) \subseteq A \cap B
  BY <1>2, <1>3
<1>5. ReachedFrom({Entry}, Nodes) \subseteq A \cap B
  BY <1>1, <1>4, ReachedIsLeast
<1> QED BY <1>5 DEF Reachable

-----------------------------------------------------------------------------
(* Captures and epochs.                                                    *)

(* A capture is a statement of a block that is reached.                    *)
LEMMA SitesAreStatements ==
  ASSUME function \in Function
  PROVE  /\ \A s \in Sites : /\ s \in Nat \X Nat /\ s[1] \in Reachable
                             /\ s[2] \in DOMAIN Code(s[1]) /\ IsCapture(Effect(s))
         /\ \A node \in Reachable : \A i \in DOMAIN Code(node) :
               IsCapture(Effect(<<node, i>>)) => <<node, i>> \in Sites
         /\ Unattached \notin Sites
         /\ \A node \in Reachable : Code(node) \in Seq(Effects)
<1>1. Reachable \subseteq Nodes /\ Nodes \subseteq Nat
  BY ReachableIsClosed, FunctionsAssumption
<1>2. \A node \in Nodes : Code(node) \in Seq(Effects) /\ DOMAIN Code(node) \subseteq Nat
  <2>1. function.code \in [Nodes -> Seq(Effects)]
    BY DEF Function
  <2> QED BY <2>1 DEF Code
<1>3. ASSUME NEW s \in Sites
      PROVE  /\ s \in Nat \X Nat /\ s[1] \in Reachable
             /\ s[2] \in DOMAIN Code(s[1]) /\ IsCapture(Effect(s))
  <2>1. PICK n \in Reachable : s \in {n} \X DOMAIN Code(n)
    BY <1>3 DEF Sites
  <2>2. IsCapture(Effect(s))
    BY <1>3 DEF Sites
  <2>3. s = <<n, s[2]>> /\ s[1] = n /\ s[2] \in DOMAIN Code(n) /\ s[2] \in Nat /\ n \in Nat
    BY <1>1, <1>2, <2>1
  <2> QED BY <2>2, <2>3
<1>4. ASSUME NEW node \in Reachable, NEW i \in DOMAIN Code(node), IsCapture(Effect(<<node, i>>))
      PROVE  <<node, i>> \in Sites
  BY <1>4 DEF Sites
<1>5. Unattached \notin Sites
  BY <1>3 DEF Unattached
<1> QED BY <1>1, <1>2, <1>3, <1>4, <1>5

(* Captures are ordered.                                                   *)
LEMMA PrecedesIsAnOrder ==
  ASSUME NEW s \in Nat \X Nat, NEW t \in Nat \X Nat, NEW u \in Nat \X Nat
  PROVE  /\ ~ Precedes(s, s)
         /\ Precedes(s, t) /\ Precedes(t, u) => Precedes(s, u)
         /\ Precedes(s, t) \/ s = t \/ Precedes(t, s)
<1>1. /\ s[1] \in Nat /\ s[2] \in Nat /\ t[1] \in Nat /\ t[2] \in Nat /\ u[1] \in Nat /\ u[2] \in Nat
      /\ s = <<s[1], s[2]>> /\ t = <<t[1], t[2]>>
  OBVIOUS
<1> QED BY <1>1 DEF Precedes

(* First answers the first of some captures.                               *)
LEMMA FirstIsFirst ==
  ASSUME NEW sites \in SUBSET (Nat \X Nat), sites # {}
  PROVE  /\ First(sites) \in sites
         /\ \A t \in sites : First(sites) = t \/ Precedes(First(sites), t)
<1> DEFINE nodes == {s[1] : s \in sites}
<1>1. PICK n \in nodes : \A m \in nodes : n <= m
  <2>1. nodes # {} /\ nodes \subseteq Nat
    OBVIOUS
  <2> HIDE DEF nodes
  <2> QED BY <2>1, LeastNatural
<1> DEFINE numbers == {s[2] : s \in {t \in sites : t[1] = n}}
<1>2. numbers # {} /\ numbers \subseteq Nat
  BY <1>1
<1>3. PICK i \in numbers : \A j \in numbers : i <= j
  BY <1>2, LeastNatural
<1>4. PICK s \in sites : s[1] = n /\ s[2] = i
  BY <1>3
<1>5. ASSUME NEW t \in sites
      PROVE  s = t \/ Precedes(s, t)
  <2>1. n <= t[1] /\ (t[1] = n => i <= t[2])
    BY <1>1, <1>3
  <2>2. /\ n \in Nat /\ i \in Nat /\ t[1] \in Nat /\ t[2] \in Nat
        /\ s = <<n, i>> /\ t = <<t[1], t[2]>>
    BY <1>4
  <2> QED BY <1>4, <2>1, <2>2 DEF Precedes
<1> QED BY <1>5 DEF First

(* Every capture has a leader, which is itself one and not behind it.      *)
IsForest(leaders) ==
    /\ leaders \in [Sites -> Sites]
    /\ \A s \in Sites : leaders[leaders[s]] = leaders[s] /\ (leaders[s] = s \/ Precedes(leaders[s], s))

(* What is equal for the first leaders is equal for the second.            *)
IsCoarser(leaders, united) ==
    \A s, t \in Sites : leaders[s] = leaders[t] => united[s] = united[t]

(* Uniting captures makes them equal, keeps what was equal, and makes      *)
(* nothing else equal.                                                     *)
LEMMA UnitedUnites ==
  ASSUME function \in Function, NEW leaders, IsForest(leaders),
         NEW sites \in SUBSET Sites, sites # {}
  PROVE  /\ IsForest(United(leaders, sites)) /\ IsCoarser(leaders, United(leaders, sites))
         /\ \A s, t \in sites : United(leaders, sites)[s] = United(leaders, sites)[t]
         /\ \A s, t \in Sites : United(leaders, sites)[s] = United(leaders, sites)[t] =>
               \/ leaders[s] = leaders[t]
               \/ \E a, b \in sites : leaders[s] = leaders[a] /\ leaders[t] = leaders[b]
<1> DEFINE led == {leaders[s] : s \in sites}
           united == United(leaders, sites)
           first == First(led)
<1>1. /\ leaders \in [Sites -> Sites]
      /\ \A s \in Sites : leaders[s] \in Sites /\ leaders[leaders[s]] = leaders[s]
                          /\ (leaders[s] = s \/ Precedes(leaders[s], s))
  BY DEF IsForest
<1>2. Sites \subseteq Nat \X Nat
  BY SitesAreStatements
<1>3. led \subseteq Sites /\ led # {}
  BY <1>1
<1>4. first \in led /\ first \in Sites /\ \A t \in led : first = t \/ Precedes(first, t)
  BY <1>2, <1>3, FirstIsFirst
<1>5. leaders[first] = first
  BY <1>1, <1>4
<1>6. \A s \in Sites : united[s] = IF leaders[s] \in led THEN first ELSE leaders[s]
  BY <1>1 DEF United
<1>7. united \in [Sites -> Sites]
  BY <1>1, <1>4 DEF United
<1> HIDE DEF united, first
<1>8. ASSUME NEW s \in Sites
      PROVE  united[united[s]] = united[s] /\ (united[s] = s \/ Precedes(united[s], s))
  <2>1. CASE leaders[s] \in led
    <3>1. united[s] = first /\ united[first] = first
      BY <1>4, <1>5, <1>6, <2>1
    <3>2. first = leaders[s] \/ Precedes(first, leaders[s])
      BY <1>4, <2>1
    <3>3. leaders[s] = s \/ Precedes(leaders[s], s)
      BY <1>1
    <3>4. first \in Nat \X Nat /\ leaders[s] \in Nat \X Nat /\ s \in Nat \X Nat
      BY <1>1, <1>2, <1>4
    <3>5. first = s \/ Precedes(first, s)
      BY <3>2, <3>3, <3>4, PrecedesIsAnOrder
    <3> QED BY <3>1, <3>5
  <2>2. CASE leaders[s] \notin led
    <3>1. united[s] = leaders[s]
      BY <1>6, <2>2
    <3>2. united[leaders[s]] = leaders[s]
      BY <1>1, <1>6, <2>2
    <3> QED BY <1>1, <3>1, <3>2
  <2> QED BY <2>1, <2>2
<1>9. IsForest(united)
  BY <1>7, <1>8 DEF IsForest
<1>10. IsCoarser(leaders, united)
  BY <1>6 DEF IsCoarser
<1>11. \A s, t \in sites : united[s] = united[t]
  BY <1>6
<1>12. ASSUME NEW s \in Sites, NEW t \in Sites, united[s] = united[t]
       PROVE  \/ leaders[s] = leaders[t]
              \/ \E a, b \in sites : leaders[s] = leaders[a] /\ leaders[t] = leaders[b]
  <2>1. CASE leaders[s] \in led
    <3>1. united[t] = first
      BY <1>6, <1>12, <2>1
    <3>2. leaders[t] \in led
      BY <1>4, <1>6, <3>1
    <3> QED BY <2>1, <3>2
  <2>2. CASE leaders[s] \notin led
    <3>1. united[s] = leaders[s]
      BY <1>6, <2>2
    <3>2. leaders[t] \notin led
      BY <1>4, <1>6, <1>12, <2>2, <3>1
    <3> QED BY <1>6, <1>12, <3>1, <3>2
  <2> QED BY <2>1, <2>2
<1> QED BY <1>9, <1>10, <1>11, <1>12 DEF united

-----------------------------------------------------------------------------
(* The statements of a block.                                              *)

(* A state of the analysis.                                                *)
State == [leaders : [Sites -> Sites], open : Sites \cup {Unattached}]

IsState(state) ==
    state \in State /\ IsForest(state.leaders)

(* What a capture does to a state: the register is attached by a capture   *)
(* of its epoch, and if it was attached, that is one epoch with it.        *)
LEMMA AttachUnites ==
  ASSUME function \in Function, NEW state, IsState(state), NEW site \in Sites
  PROVE  /\ IsState(Attach(state, site))
         /\ IsCoarser(state.leaders, Attach(state, site).leaders)
         /\ Attach(state, site).open # Unattached
         /\ Attach(state, site).leaders[Attach(state, site).open] = Attach(state, site).leaders[site]
         /\ state.open # Unattached =>
               Attach(state, site).leaders[state.open] = Attach(state, site).leaders[site]
         /\ \A s, t \in Sites : Attach(state, site).leaders[s] = Attach(state, site).leaders[t] =>
               \/ state.leaders[s] = state.leaders[t]
               \/ /\ state.open # Unattached
                  /\ \E a, b \in {state.open, site} :
                        state.leaders[s] = state.leaders[a] /\ state.leaders[t] = state.leaders[b]
<1> DEFINE after == Attach(state, site)
<1>1. /\ state = [leaders |-> state.leaders, open |-> state.open]
      /\ IsForest(state.leaders) /\ state.leaders \in [Sites -> Sites]
      /\ state.open \in Sites \cup {Unattached} /\ Unattached \notin Sites
  BY SitesAreStatements DEF IsState, State
<1>2. CASE state.open = Unattached
  <2>1. after = [leaders |-> state.leaders, open |-> site]
    BY <1>1, <1>2 DEF Attach
  <2>2. after.leaders = state.leaders /\ after.open = site
    BY <2>1
  <2>3. IsState(after)
    BY <1>1, <2>1 DEF IsState, State
  <2> HIDE DEF after
  <2>4. IsCoarser(state.leaders, after.leaders)
    BY <2>2 DEF IsCoarser
  <2> QED BY <1>1, <1>2, <2>2, <2>3, <2>4 DEF after
<1>3. CASE state.open # Unattached
  <2>1. state.open \in Sites /\ {state.open, site} \in SUBSET Sites /\ {state.open, site} # {}
    BY <1>1, <1>3
  <2> DEFINE united == United(state.leaders, {state.open, site})
  <2>2. after = [leaders |-> united, open |-> united[site]]
    BY <1>3 DEF Attach
  <2>3. after.leaders = united /\ after.open = united[site]
    BY <2>2
  <2>4. /\ IsForest(united) /\ IsCoarser(state.leaders, united)
        /\ \A s, t \in {state.open, site} : united[s] = united[t]
        /\ \A s, t \in Sites : united[s] = united[t] =>
              \/ state.leaders[s] = state.leaders[t]
              \/ \E a, b \in {state.open, site} :
                    state.leaders[s] = state.leaders[a] /\ state.leaders[t] = state.leaders[b]
    <3>1. PICK leaders : leaders = state.leaders
      OBVIOUS
    <3>2. PICK sites : sites = {state.open, site}
      OBVIOUS
    <3>3. IsForest(leaders) /\ sites \in SUBSET Sites /\ sites # {}
      BY <1>1, <2>1, <3>1, <3>2
    <3>4. /\ IsForest(United(leaders, sites)) /\ IsCoarser(leaders, United(leaders, sites))
          /\ \A s, t \in sites : United(leaders, sites)[s] = United(leaders, sites)[t]
          /\ \A s, t \in Sites : United(leaders, sites)[s] = United(leaders, sites)[t] =>
                \/ leaders[s] = leaders[t]
                \/ \E a, b \in sites : leaders[s] = leaders[a] /\ leaders[t] = leaders[b]
      BY <3>3, UnitedUnites
    <3> QED BY <3>1, <3>2, <3>4
  <2> HIDE DEF united
  <2>5. united \in [Sites -> Sites] /\ united[united[site]] = united[site] /\ united[site] \in Sites
    BY <2>4 DEF IsForest
  <2>6. IsState(after)
    BY <2>2, <2>4, <2>5 DEF IsState, State
  <2> HIDE DEF after
  <2> QED BY <1>1, <1>3, <2>1, <2>3, <2>4, <2>5, <2>6 DEF after
<1> QED BY <1>2, <1>3

AreStates(states, state, node, n) ==
    states = [i \in 0 .. n |-> IF i = 0 THEN state ELSE Transfer(states[i - 1], <<node, i>>)]

(* StatesIn solves its equation.                                           *)
LEMMA StatesExist ==
  ASSUME function \in Function, NEW state, IsState(state), NEW node \in Reachable
  PROVE  AreStates(StatesIn(state, node), state, node, Len(Code(node)))
<1> DEFINE n == Len(Code(node))
           V == {s \in State : IsState(s)}
           step == [x \in V \X (1 .. n) |-> Transfer(x[1], <<node, x[2]>>)]
<1>1. n \in Nat /\ DOMAIN Code(node) = 1 .. n
  BY SitesAreStatements
<1> HIDE DEF n
<1>2. ASSUME NEW v \in V, NEW k \in 1 .. n
      PROVE  Transfer(v, <<node, k>>) \in V
  <2>1. v = [leaders |-> v.leaders, open |-> v.open] /\ IsState(v)
    BY DEF State
  <2>2. CASE IsCapture(Effect(<<node, k>>))
    <3>1. <<node, k>> \in Sites
      BY <1>1, <2>2, SitesAreStatements
    <3>2. IsState(Attach(v, <<node, k>>))
      BY <2>1, <3>1, AttachUnites
    <3>3. Transfer(v, <<node, k>>) = Attach(v, <<node, k>>)
      BY <2>2 DEF Transfer, IsCapture
    <3>4. Attach(v, <<node, k>>) \in State
      BY <3>2 DEF IsState
    <3> QED BY <3>2, <3>3, <3>4
  <2>3. CASE ~ IsCapture(Effect(<<node, k>>)) /\ Effect(<<node, k>>) = "close"
    <3>1. Transfer(v, <<node, k>>) = [v EXCEPT !.open = Unattached]
      BY <2>3 DEF Transfer
    <3>2. [v EXCEPT !.open = Unattached] = [leaders |-> v.leaders, open |-> Unattached]
      BY <2>1
    <3> QED BY <2>1, <3>1, <3>2 DEF IsState, State
  <2>4. CASE ~ IsCapture(Effect(<<node, k>>)) /\ Effect(<<node, k>>) # "close"
    BY <2>4 DEF Transfer
  <2> QED BY <2>2, <2>3, <2>4
<1> HIDE DEF V
<1>3. step \in [V \X (1 .. n) -> V]
  BY <1>2
<1>4. \A v \in V, k \in 1 .. n : step[<<v, k>>] = Transfer(v, <<node, k>>)
  OBVIOUS
<1> HIDE DEF step
<1>5. state \in V
  BY DEF V, IsState
<1>6. PICK f : IsRecursion(f, n, V, state, step)
  BY <1>1, <1>3, <1>5, RecursionExists
<1>7. f \in [0 .. n -> V]
  BY <1>6 DEF IsRecursion
<1>8. ASSUME NEW k \in 0 .. n
      PROVE  f[k] = IF k = 0 THEN state ELSE Transfer(f[k - 1], <<node, k>>)
  <2>1. CASE k = 0
    BY <1>6, <2>1 DEF IsRecursion
  <2>2. CASE k # 0
    <3>1. k - 1 \in 0 .. n /\ k \in 1 .. n
      BY <1>1, <2>2
    <3>2. f[k - 1] \in V
      BY <1>7, <3>1
    <3>3. f[k] = step[<<f[k - 1], k>>]
      BY <1>6, <2>2 DEF IsRecursion
    <3> QED BY <1>4, <2>2, <3>1, <3>2, <3>3
  <2> QED BY <2>1, <2>2
<1>9. AreStates(f, state, node, n)
  BY <1>7, <1>8 DEF AreStates
<1>10. \E g : AreStates(g, state, node, n)
  BY <1>9
<1> QED BY <1>10 DEF AreStates, StatesIn, n

AreLast(last, open, node, n) ==
    last = [i \in 0 .. n |->
               IF i = 0 THEN open
               ELSE IF IsCapture(Effect(<<node, i>>)) THEN <<node, i>>
               ELSE IF Effect(<<node, i>>) = "close" THEN Unattached
               ELSE last[i - 1]]

(* LastCaptures solves its equation.                                       *)
LEMMA LastCapturesExist ==
  ASSUME function \in Function, NEW open, NEW node \in Reachable
  PROVE  AreLast(LastCaptures(open, node), open, node, Len(Code(node)))
<1> DEFINE n == Len(Code(node))
           V == Sites \cup {Unattached, open}
           Step(v, k) == IF IsCapture(Effect(<<node, k>>)) THEN <<node, k>>
                         ELSE IF Effect(<<node, k>>) = "close" THEN Unattached ELSE v
           step == [x \in V \X (1 .. n) |-> Step(x[1], x[2])]
<1>1. n \in Nat /\ DOMAIN Code(node) = 1 .. n
  BY SitesAreStatements
<1> HIDE DEF n
<1>2. \A k \in 1 .. n : IsCapture(Effect(<<node, k>>)) => <<node, k>> \in Sites
  BY <1>1, SitesAreStatements
<1>3. step \in [V \X (1 .. n) -> V]
  BY <1>2
<1>4. \A v \in V, k \in 1 .. n : step[<<v, k>>] = Step(v, k)
  OBVIOUS
<1>5. open \in V
  OBVIOUS
<1> HIDE DEF step, V
<1>6. PICK f : IsRecursion(f, n, V, open, step)
  BY <1>1, <1>3, <1>5, RecursionExists
<1>7. f \in [0 .. n -> V]
  BY <1>6 DEF IsRecursion
<1>8. ASSUME NEW k \in 0 .. n
      PROVE  f[k] = IF k = 0 THEN open ELSE Step(f[k - 1], k)
  <2>1. CASE k = 0
    BY <1>6, <2>1 DEF IsRecursion
  <2>2. CASE k # 0
    <3>1. k - 1 \in 0 .. n /\ k \in 1 .. n
      BY <1>1, <2>2
    <3>2. f[k - 1] \in V
      BY <1>7, <3>1
    <3>3. f[k] = step[<<f[k - 1], k>>]
      BY <1>6, <2>2 DEF IsRecursion
    <3> QED BY <1>4, <2>2, <3>1, <3>2, <3>3
  <2> QED BY <2>1, <2>2
<1>9. AreLast(f, open, node, n)
  BY <1>7, <1>8 DEF AreLast
<1>10. \E g : AreLast(g, open, node, n)
  BY <1>9
<1> QED BY <1>10 DEF AreLast, LastCaptures, n

(* A statement is a capture, a Close, or does nothing to the register.     *)
IsOther(site) == ~ IsCapture(Effect(site)) /\ Effect(site) # "close"

(* The states of a block, statement by statement.                          *)
AreFollowed(states, state, node) ==
    /\ states[0] = state
    /\ \A i \in 0 .. Len(Code(node)) : IsState(states[i])
    /\ \A i \in DOMAIN Code(node) :
          /\ i - 1 \in 0 .. Len(Code(node)) /\ i \in 0 .. Len(Code(node))
          /\ IsCapture(Effect(<<node, i>>)) =>
                <<node, i>> \in Sites /\ states[i] = Attach(states[i - 1], <<node, i>>)
          /\ Effect(<<node, i>>) = "close" =>
                states[i].leaders = states[i - 1].leaders /\ states[i].open = Unattached
          /\ IsOther(<<node, i>>) => states[i] = states[i - 1]

(* StatesIn answers them.                                                  *)
LEMMA StatesFollow ==
  ASSUME function \in Function, NEW state, IsState(state), NEW node \in Reachable,
         NEW states, states = StatesIn(state, node)
  PROVE  AreFollowed(states, state, node)
<1> DEFINE n == Len(Code(node))
<1>1. n \in Nat /\ DOMAIN Code(node) = 1 .. n
  BY SitesAreStatements
<1>2. AreStates(states, state, node, n)
  BY StatesExist
<1> HIDE DEF n
<1>3. states = [i \in 0 .. n |-> IF i = 0 THEN state ELSE Transfer(states[i - 1], <<node, i>>)]
  BY <1>2 DEF AreStates
<1>4. states[0] = state
  BY <1>1, <1>3
<1>5. ASSUME NEW i \in 1 .. n
      PROVE  /\ i - 1 \in 0 .. n /\ i \in 0 .. n
             /\ IsCapture(Effect(<<node, i>>)) =>
                   <<node, i>> \in Sites /\ states[i] = Attach(states[i - 1], <<node, i>>)
             /\ Effect(<<node, i>>) = "close" => states[i] = [states[i - 1] EXCEPT !.open = Unattached]
             /\ IsOther(<<node, i>>) => states[i] = states[i - 1]
  <2>1. i - 1 \in 0 .. n /\ i \in 0 .. n /\ i # 0
    BY <1>1
  <2>2. states[i] = Transfer(states[i - 1], <<node, i>>)
    BY <1>3, <2>1
  <2>3. IsCapture(Effect(<<node, i>>)) => <<node, i>> \in Sites
    BY <1>1, SitesAreStatements
  <2>4. IsCapture(Effect(<<node, i>>)) => states[i] = Attach(states[i - 1], <<node, i>>)
    BY <2>2 DEF Transfer, IsCapture
  <2>5. Effect(<<node, i>>) = "close" => states[i] = [states[i - 1] EXCEPT !.open = Unattached]
    BY <2>2 DEF Transfer, IsCapture
  <2>6. IsOther(<<node, i>>) => states[i] = states[i - 1]
    BY <2>2 DEF Transfer, IsOther
  <2> QED BY <2>1, <2>3, <2>4, <2>5, <2>6
<1> DEFINE T == {k \in 0 .. n : IsState(states[k])}
<1>6. 0 \in T
  BY <1>1, <1>4
<1>7. ASSUME NEW i \in 1 .. n, IsState(states[i - 1]), Effect(<<node, i>>) = "close"
      PROVE  /\ states[i] = [leaders |-> states[i - 1].leaders, open |-> Unattached]
             /\ IsState(states[i])
  <2>1. /\ states[i - 1] = [leaders |-> states[i - 1].leaders, open |-> states[i - 1].open]
        /\ states[i - 1].leaders \in [Sites -> Sites]
    BY <1>7 DEF IsState, State
  <2>2. states[i] = [leaders |-> states[i - 1].leaders, open |-> Unattached]
    BY <1>5, <1>7, <2>1
  <2> QED BY <1>7, <2>1, <2>2 DEF IsState, State
<1>8. ASSUME NEW k \in 0 .. n - 1, k \in T
      PROVE  k + 1 \in T
  <2>1. k + 1 \in 1 .. n /\ (k + 1) - 1 = k /\ IsState(states[k])
    BY <1>1, <1>8
  <2>2. CASE IsCapture(Effect(<<node, k + 1>>))
    <3>1. IsState(Attach(states[k], <<node, k + 1>>))
      BY <1>5, <2>1, <2>2, AttachUnites
    <3> QED BY <1>5, <2>1, <2>2, <3>1
  <2>3. CASE Effect(<<node, k + 1>>) = "close"
    <3>1. IsState(states[(k + 1) - 1])
      BY <2>1
    <3>2. IsState(states[k + 1])
      BY <1>7, <2>1, <2>3, <3>1
    <3> QED BY <2>1, <3>2
  <2>4. CASE IsOther(<<node, k + 1>>)
    BY <1>5, <2>1, <2>4
  <2> QED BY <2>2, <2>3, <2>4 DEF IsOther
<1> HIDE DEF T
<1>9. \A k \in 0 .. n : k \in T
  BY <1>1, <1>6, <1>8, InductionUpTo
<1>10. \A i \in 0 .. n : IsState(states[i])
  BY <1>9 DEF T
<1>11. ASSUME NEW i \in 1 .. n, Effect(<<node, i>>) = "close"
       PROVE  states[i].leaders = states[i - 1].leaders /\ states[i].open = Unattached
  <2>1. i - 1 \in 0 .. n
    BY <1>1
  <2>2. states[i] = [leaders |-> states[i - 1].leaders, open |-> Unattached]
    BY <1>7, <1>10, <1>11, <2>1
  <2> QED BY <2>2
<1> QED BY <1>1, <1>4, <1>5, <1>10, <1>11 DEF n, AreFollowed

(* The last captures of a block, statement by statement.                   *)
AreFollowedBy(last, open, node) ==
    /\ last[0] = open
    /\ \A i \in 0 .. Len(Code(node)) : last[i] \in Sites \cup {Unattached}
    /\ \A i \in DOMAIN Code(node) :
          /\ IsCapture(Effect(<<node, i>>)) => last[i] = <<node, i>>
          /\ Effect(<<node, i>>) = "close" => last[i] = Unattached
          /\ IsOther(<<node, i>>) => last[i] = last[i - 1]

(* LastCaptures answers them.                                              *)
LEMMA LastCapturesFollow ==
  ASSUME function \in Function, NEW node \in Reachable, NEW open \in Sites \cup {Unattached},
         NEW last, last = LastCaptures(open, node)
  PROVE  AreFollowedBy(last, open, node)
<1> DEFINE n == Len(Code(node))
           T == {k \in 0 .. n : last[k] \in Sites \cup {Unattached}}
<1>1. n \in Nat /\ DOMAIN Code(node) = 1 .. n
  BY SitesAreStatements
<1>2. AreLast(last, open, node, n)
  BY LastCapturesExist
<1> HIDE DEF n
<1>3. last = [i \in 0 .. n |->
                 IF i = 0 THEN open
                 ELSE IF IsCapture(Effect(<<node, i>>)) THEN <<node, i>>
                 ELSE IF Effect(<<node, i>>) = "close" THEN Unattached
                 ELSE last[i - 1]]
  BY <1>2 DEF AreLast
<1>4. last[0] = open
  BY <1>1, <1>3
<1>5. ASSUME NEW i \in 1 .. n
      PROVE  /\ IsCapture(Effect(<<node, i>>)) => last[i] = <<node, i>>
             /\ Effect(<<node, i>>) = "close" => last[i] = Unattached
             /\ IsOther(<<node, i>>) => last[i] = last[i - 1]
  <2>1. i \in 0 .. n /\ i # 0
    BY <1>1
  <2>2. last[i] = IF IsCapture(Effect(<<node, i>>)) THEN <<node, i>>
                  ELSE IF Effect(<<node, i>>) = "close" THEN Unattached
                  ELSE last[i - 1]
    BY <1>3, <2>1
  <2> QED BY <2>2 DEF IsOther, IsCapture
<1>6. 0 \in T
  BY <1>1, <1>4
<1>7. ASSUME NEW k \in 0 .. n - 1, k \in T
      PROVE  k + 1 \in T
  <2>1. k + 1 \in 1 .. n /\ (k + 1) - 1 = k /\ k + 1 \in 0 .. n
    BY <1>1, <1>7
  <2>2. IsCapture(Effect(<<node, k + 1>>)) => <<node, k + 1>> \in Sites
    BY <1>1, <2>1, SitesAreStatements
  <2> QED BY <1>5, <1>7, <2>1, <2>2 DEF IsOther
<1> HIDE DEF T
<1>8. \A k \in 0 .. n : k \in T
  BY <1>1, <1>6, <1>7, InductionUpTo
<1>9. \A i \in 0 .. n : last[i] \in Sites \cup {Unattached}
  BY <1>8 DEF T
<1> QED BY <1>1, <1>4, <1>5, <1>9 DEF n, AreFollowedBy

(* What is equal stays equal: sameness and coarsening.                     *)
LEMMA CoarserKeepsSame ==
  ASSUME NEW first, NEW second, IsCoarser(first, second), Unattached \notin Sites
  PROVE  /\ IsCoarser(first, first)
         /\ \A third : IsCoarser(second, third) => IsCoarser(first, third)
         /\ \A s, t \in Sites \cup {Unattached} : SameOpen(first, s, t) => SameOpen(second, s, t)
BY DEF IsCoarser, SameOpen

(* Sameness is an equivalence.                                             *)
LEMMA SameIsTransitive ==
  ASSUME NEW leaders, NEW s, NEW t, NEW u
  PROVE  /\ SameOpen(leaders, s, s)
         /\ SameOpen(leaders, s, t) => SameOpen(leaders, t, s)
         /\ SameOpen(leaders, s, t) /\ SameOpen(leaders, t, u) => SameOpen(leaders, s, u)
BY DEF SameOpen

(* From a state of the same openness as the block begins with, the         *)
(* analysis of its statements keeps to its last captures, and unites what  *)
(* they say with the captures that come next.                              *)
LEMMA TransferFollows ==
  ASSUME function \in Function, NEW state, IsState(state), NEW node \in Reachable,
         NEW open \in Sites \cup {Unattached},
         NEW states, states = StatesIn(state, node),
         NEW last, last = LastCaptures(open, node),
         NEW leaders, leaders = states[Len(Code(node))].leaders,
         SameOpen(leaders, open, state.open)
  PROVE  /\ IsState(states[Len(Code(node))])
         /\ IsCoarser(state.leaders, leaders)
         /\ SameOpen(leaders, last[Len(Code(node))], states[Len(Code(node))].open)
         /\ \A i \in DOMAIN Code(node) :
               IsCapture(Effect(<<node, i>>)) /\ last[i - 1] # Unattached =>
                   leaders[last[i - 1]] = leaders[<<node, i>>]
<1> DEFINE n == Len(Code(node))
<1>1. n \in Nat /\ DOMAIN Code(node) = 1 .. n /\ Unattached \notin Sites
  BY SitesAreStatements
<1>2. /\ states[0] = state
      /\ \A i \in 0 .. n : IsState(states[i])
      /\ \A i \in 1 .. n :
            /\ i - 1 \in 0 .. n /\ i \in 0 .. n
            /\ IsCapture(Effect(<<node, i>>)) =>
                  <<node, i>> \in Sites /\ states[i] = Attach(states[i - 1], <<node, i>>)
            /\ Effect(<<node, i>>) = "close" =>
                  states[i].leaders = states[i - 1].leaders /\ states[i].open = Unattached
            /\ IsOther(<<node, i>>) => states[i] = states[i - 1]
  <2>1. AreFollowed(states, state, node)
    BY StatesFollow
  <2> QED BY <1>1, <2>1 DEF AreFollowed
<1>3. /\ last[0] = open
      /\ \A i \in 0 .. n : last[i] \in Sites \cup {Unattached}
      /\ \A i \in 1 .. n :
            /\ IsCapture(Effect(<<node, i>>)) => last[i] = <<node, i>>
            /\ Effect(<<node, i>>) = "close" => last[i] = Unattached
            /\ IsOther(<<node, i>>) => last[i] = last[i - 1]
  <2>1. AreFollowedBy(last, open, node)
    BY LastCapturesFollow
  <2> QED BY <1>1, <2>1 DEF AreFollowedBy
<1>4. leaders = states[n].leaders
  OBVIOUS
<1> HIDE DEF n
<1>5. \A i \in 0 .. n : states[i].open \in Sites \cup {Unattached}
  BY <1>2 DEF IsState, State
(* Every statement unites, or leaves the epochs alone.                     *)
<1>6. ASSUME NEW i \in 1 .. n
      PROVE  IsCoarser(states[i - 1].leaders, states[i].leaders)
  <2>1. CASE IsCapture(Effect(<<node, i>>))
    <3>1. IsState(states[i - 1])
      BY <1>2
    <3> QED BY <1>2, <2>1, <3>1, AttachUnites
  <2>2. CASE Effect(<<node, i>>) = "close"
    BY <1>2, <2>2 DEF IsCoarser
  <2>3. CASE IsOther(<<node, i>>)
    BY <1>2, <2>3 DEF IsCoarser
  <2> QED BY <2>1, <2>2, <2>3 DEF IsOther
<1> DEFINE T == {k \in 0 .. n : \A i \in 0 .. k : IsCoarser(states[i].leaders, states[k].leaders)}
<1>7. 0 \in T
  BY <1>1 DEF IsCoarser
<1>8. ASSUME NEW k \in 0 .. n - 1, k \in T
      PROVE  k + 1 \in T
  <2>1. k + 1 \in 1 .. n /\ (k + 1) - 1 = k /\ k + 1 \in 0 .. n
    BY <1>1, <1>8
  <2>2. IsCoarser(states[k].leaders, states[k + 1].leaders)
    BY <1>6, <2>1
  <2>3. ASSUME NEW i \in 0 .. k + 1
        PROVE  IsCoarser(states[i].leaders, states[k + 1].leaders)
    <3>1. CASE i = k + 1
      BY <3>1 DEF IsCoarser
    <3>2. CASE i # k + 1
      <4>1. i \in 0 .. k
        BY <3>2
      <4>2. IsCoarser(states[i].leaders, states[k].leaders)
        BY <1>8, <4>1
      <4> QED BY <2>2, <4>2 DEF IsCoarser
    <3> QED BY <3>1, <3>2
  <2> QED BY <2>1, <2>3
<1> HIDE DEF T
<1>9. \A k \in 0 .. n : k \in T
  BY <1>1, <1>7, <1>8, InductionUpTo
<1>10. n \in 0 .. n /\ 0 \in 0 .. n
  BY <1>1
<1>11. \A i \in 0 .. n : IsCoarser(states[i].leaders, leaders)
  BY <1>4, <1>9, <1>10 DEF T
(* The openness of every statement.                                        *)
<1>12. ASSUME NEW i \in 1 .. n, IsCapture(Effect(<<node, i>>)),
              SameOpen(leaders, last[i - 1], states[i - 1].open)
       PROVE  /\ SameOpen(leaders, last[i], states[i].open)
              /\ last[i - 1] # Unattached => leaders[last[i - 1]] = leaders[<<node, i>>]
  <2> DEFINE site == <<node, i>>
             after == Attach(states[i - 1], site)
  <2>1. /\ site \in Sites /\ states[i] = after /\ last[i] = site
        /\ IsState(states[i - 1]) /\ i \in 0 .. n
        /\ states[i - 1].open \in Sites \cup {Unattached}
    BY <1>2, <1>3, <1>5, <1>12
  <2>2. /\ after.open # Unattached /\ after.leaders[after.open] = after.leaders[site]
        /\ states[i - 1].open # Unattached =>
              after.leaders[states[i - 1].open] = after.leaders[site]
    <3>1. PICK prior : prior = states[i - 1]
      OBVIOUS
    <3>2. /\ IsState(prior) /\ site \in Sites
          /\ after = Attach(prior, site)
      BY <2>1, <3>1
    <3> HIDE DEF site, after
    <3>3. /\ after.open # Unattached /\ after.leaders[after.open] = after.leaders[site]
          /\ prior.open # Unattached => after.leaders[prior.open] = after.leaders[site]
      BY <3>2, AttachUnites
    <3> QED BY <3>1, <3>3
  <2>3. IsCoarser(after.leaders, leaders) /\ after.open \in Sites
    BY <1>5, <1>11, <2>1, <2>2
  <2> HIDE DEF site, after
  <2>4. leaders[after.open] = leaders[site]
    BY <2>1, <2>2, <2>3 DEF IsCoarser
  <2>5. states[i - 1].open # Unattached => leaders[states[i - 1].open] = leaders[site]
    BY <2>1, <2>2, <2>3 DEF IsCoarser
  <2>6. SameOpen(leaders, last[i], states[i].open)
    BY <1>1, <2>1, <2>2, <2>4 DEF SameOpen
  <2>7. last[i - 1] # Unattached => leaders[last[i - 1]] = leaders[site]
    BY <1>12, <2>5 DEF SameOpen
  <2> QED BY <2>6, <2>7 DEF site
<1> DEFINE U == {k \in 0 .. n : SameOpen(leaders, last[k], states[k].open)}
<1>13. 0 \in U
  BY <1>2, <1>3, <1>10
<1>14. ASSUME NEW k \in 0 .. n - 1, k \in U
       PROVE  k + 1 \in U
  <2>1. k + 1 \in 1 .. n /\ (k + 1) - 1 = k /\ k + 1 \in 0 .. n
    BY <1>1, <1>14
  <2>2. SameOpen(leaders, last[(k + 1) - 1], states[(k + 1) - 1].open)
    BY <1>14, <2>1
  <2>3. CASE IsCapture(Effect(<<node, k + 1>>))
    BY <1>12, <2>1, <2>2, <2>3
  <2>4. CASE Effect(<<node, k + 1>>) = "close"
    <3>1. last[k + 1] = Unattached /\ states[k + 1].open = Unattached
      BY <1>2, <1>3, <2>1, <2>4
    <3> QED BY <2>1, <3>1 DEF SameOpen
  <2>5. CASE IsOther(<<node, k + 1>>)
    <3>1. last[k + 1] = last[(k + 1) - 1] /\ states[k + 1] = states[(k + 1) - 1]
      BY <1>2, <1>3, <2>1, <2>5
    <3> QED BY <2>1, <2>2, <3>1
  <2> QED BY <2>3, <2>4, <2>5 DEF IsOther
<1> HIDE DEF U
<1>15. \A k \in 0 .. n : k \in U
  BY <1>1, <1>13, <1>14, InductionUpTo
<1>16. \A i \in 0 .. n : SameOpen(leaders, last[i], states[i].open)
  BY <1>15 DEF U
<1>17. ASSUME NEW i \in 1 .. n, IsCapture(Effect(<<node, i>>)), last[i - 1] # Unattached
       PROVE  leaders[last[i - 1]] = leaders[<<node, i>>]
  <2>1. SameOpen(leaders, last[i - 1], states[i - 1].open)
    BY <1>2, <1>16
  <2> QED BY <1>12, <1>17, <2>1
<1>18. IsState(states[n]) /\ IsCoarser(state.leaders, leaders)
  BY <1>2, <1>10, <1>11
<1>19. SameOpen(leaders, last[n], states[n].open)
  BY <1>10, <1>16
<1> QED BY <1>1, <1>17, <1>18, <1>19 DEF n

-----------------------------------------------------------------------------
(* The steps of the analysis.                                              *)

(* The epochs and the states of the blocks, as far as they are known.      *)
AnalysisTypeOK ==
    /\ function \in Function /\ IsForest(leader)
    /\ DOMAIN exits \subseteq Reachable
    /\ \A n \in DOMAIN exits : /\ entries[n] \in Sites \cup {Unattached}
                               /\ exits[n] \in Sites \cup {Unattached}

(* A join unites what its predecessors end with, and nothing else.         *)
LEMMA MergedUnites ==
  ASSUME AnalysisTypeOK, NEW node \in Reachable
  PROVE  /\ IsState(Merged(node)) /\ IsCoarser(leader, Merged(node).leaders)
         /\ \A s \in OpenExits(node) :
               /\ Merged(node).open # Unattached
               /\ Merged(node).leaders[Merged(node).open] = Merged(node).leaders[s]
         /\ OpenExits(node) \subseteq Sites
         /\ Merged(node).open # Unattached => OpenExits(node) # {}
         /\ \A s, t \in Sites : Merged(node).leaders[s] = Merged(node).leaders[t] =>
               \/ leader[s] = leader[t]
               \/ \E a, b \in OpenExits(node) : leader[s] = leader[a] /\ leader[t] = leader[b]
<1> DEFINE merged == Merged(node)
           open == OpenExits(node)
           united == United(leader, open)
<1>1. function \in Function /\ IsForest(leader) /\ leader \in [Sites -> Sites] /\ Unattached \notin Sites
  BY SitesAreStatements DEF AnalysisTypeOK, IsForest
<1>2. open \subseteq Sites
  BY DEF AnalysisTypeOK, OpenExits
<1>3. CASE open = {}
  <2>1. merged = [leaders |-> leader, open |-> Unattached]
    BY <1>3 DEF Merged
  <2>2. merged.leaders = leader /\ merged.open = Unattached
    BY <2>1
  <2>3. IsState(merged)
    BY <1>1, <2>1 DEF IsState, State
  <2> HIDE DEF merged
  <2>4. IsCoarser(leader, merged.leaders)
    BY <2>2 DEF IsCoarser
  <2> HIDE DEF open
  <2>5. \A s \in open : merged.open # Unattached /\ merged.leaders[merged.open] = merged.leaders[s]
    BY <1>3
  <2> QED BY <1>2, <2>2, <2>3, <2>4, <2>5 DEF merged, open
<1>4. CASE open # {}
  <2>1. merged = [leaders |-> united, open |-> First({united[s] : s \in open})]
    BY <1>4 DEF Merged
  <2>2. PICK sites : sites = open
    OBVIOUS
  <2>3. /\ IsForest(united) /\ IsCoarser(leader, united)
        /\ \A s, t \in open : united[s] = united[t]
        /\ \A s, t \in Sites : united[s] = united[t] =>
              \/ leader[s] = leader[t]
              \/ \E a, b \in open : leader[s] = leader[a] /\ leader[t] = leader[b]
    <3>1. sites \in SUBSET Sites /\ sites # {}
      BY <1>2, <1>4, <2>2
    <3>2. /\ IsForest(United(leader, sites)) /\ IsCoarser(leader, United(leader, sites))
          /\ \A s, t \in sites : United(leader, sites)[s] = United(leader, sites)[t]
          /\ \A s, t \in Sites : United(leader, sites)[s] = United(leader, sites)[t] =>
                \/ leader[s] = leader[t]
                \/ \E a, b \in sites : leader[s] = leader[a] /\ leader[t] = leader[b]
      BY <1>1, <3>1, UnitedUnites
    <3> QED BY <2>2, <3>2
  <2> HIDE DEF united, open
  <2>4. /\ united \in [Sites -> Sites] /\ \A s \in Sites : united[united[s]] = united[s]
    BY <2>3 DEF IsForest
  <2> DEFINE led == {united[s] : s \in open}
  <2>5. led \subseteq Sites /\ led # {} /\ Sites \subseteq Nat \X Nat
    BY <1>1, <1>2, <1>4, <2>4, SitesAreStatements
  <2>6. First(led) \in led
    <3> HIDE DEF led
    <3> QED BY <2>5, FirstIsFirst
  <2>7. merged.leaders = united /\ merged.open = First(led)
    BY <2>1
  <2>8. PICK a \in open : First(led) = united[a]
    BY <2>6
  <2> HIDE DEF led
  <2>9. First(led) \in Sites
    BY <2>5, <2>6
  <2>10. IsState(merged)
    BY <2>1, <2>3, <2>4, <2>9 DEF IsState, State, led
  <2> HIDE DEF merged
  <2>11. \A s \in open : merged.leaders[merged.open] = merged.leaders[s]
    BY <1>2, <2>3, <2>4, <2>7, <2>8
  <2>12. merged.open # Unattached
    BY <1>1, <2>7, <2>9
  <2> QED BY <1>2, <1>4, <2>3, <2>7, <2>10, <2>11, <2>12 DEF merged, open
<1> QED BY <1>3, <1>4

(* One state is changed, to what is given or to the same.                  *)
IsReplaced(replaced, states, node, leaders, open) ==
    /\ DOMAIN replaced = DOMAIN states \cup {node}
    /\ SameOpen(leaders, replaced[node], open)
    /\ replaced[node] = open \/ (node \in DOMAIN states /\ replaced[node] = states[node])
    /\ \A m \in DOMAIN states : m # node => replaced[m] = states[m]
    /\ IsKnown(states, node, leaders, open) => replaced = states

(* Replaced does so.                                                       *)
LEMMA ReplacedReplaces ==
  ASSUME NEW states, NEW node, NEW leaders, NEW open,
         NEW replaced, replaced = Replaced(states, node, leaders, open)
  PROVE  IsReplaced(replaced, states, node, leaders, open)
<1>1. CASE IsKnown(states, node, leaders, open)
  BY <1>1 DEF Replaced, IsKnown, IsReplaced
<1>2. CASE ~ IsKnown(states, node, leaders, open)
  <2>1. replaced = [n \in DOMAIN states \cup {node} |-> IF n = node THEN open ELSE states[n]]
    BY <1>2 DEF Replaced
  <2>2. /\ DOMAIN replaced = DOMAIN states \cup {node} /\ replaced[node] = open
        /\ \A m \in DOMAIN states : m # node => replaced[m] = states[m]
    BY <2>1
  <2> QED BY <1>2, <2>2 DEF SameOpen, IsReplaced
<1> QED BY <1>1, <1>2

(* Uniting captures of one epoch changes nothing.                          *)
LEMMA UnitedKeepsEpochs ==
  ASSUME NEW leaders, leaders \in [Sites -> Sites], NEW s \in Sites, NEW t \in Sites, leaders[s] = leaders[t]
  PROVE  United(leaders, {s, t}) = leaders
<1> DEFINE led == {leaders[x] : x \in {s, t}}
<1>1. led = {leaders[s]}
  OBVIOUS
<1>2. First({leaders[s]}) = leaders[s]
  BY DEF First
<1>3. United(leaders, {s, t}) = [x \in Sites |-> IF leaders[x] \in led THEN First(led) ELSE leaders[x]]
  BY DEF United
<1> HIDE DEF led
<1> QED BY <1>1, <1>2, <1>3

(* materialize_ranges: a block that agrees with the epochs of its captures *)
(* unites nothing.                                                         *)
LEMMA AgreeingBlocksUniteNothing ==
  ASSUME function \in Function, IsForest(leader), NEW node \in Reachable,
         entries[node] \in Sites \cup {Unattached}, BlockAgrees(node),
         NEW states, states = StatesIn([leaders |-> leader, open |-> entries[node]], node)
  PROVE  \A i \in 0 .. Len(Code(node)) :
            /\ states[i].leaders = leader /\ states[i].open \in Sites \cup {Unattached}
            /\ SameOpen(leader, LastIn(node)[i], states[i].open)
<1> DEFINE n == Len(Code(node))
           state == [leaders |-> leader, open |-> entries[node]]
           last == LastIn(node)
<1>1. n \in Nat /\ DOMAIN Code(node) = 1 .. n /\ Unattached \notin Sites
  BY SitesAreStatements
<1>2. IsState(state) /\ leader \in [Sites -> Sites]
  BY DEF IsState, State, IsForest
<1>3. /\ states[0] = state
      /\ \A i \in 0 .. n : IsState(states[i])
      /\ \A i \in 1 .. n :
            /\ i - 1 \in 0 .. n /\ i \in 0 .. n
            /\ IsCapture(Effect(<<node, i>>)) =>
                  <<node, i>> \in Sites /\ states[i] = Attach(states[i - 1], <<node, i>>)
            /\ Effect(<<node, i>>) = "close" =>
                  states[i].leaders = states[i - 1].leaders /\ states[i].open = Unattached
            /\ IsOther(<<node, i>>) => states[i] = states[i - 1]
  <2>1. PICK begin : begin = state
    OBVIOUS
  <2>2. IsState(begin) /\ states = StatesIn(begin, node)
    BY <1>2, <2>1
  <2>3. AreFollowed(states, begin, node)
    BY <2>2, StatesFollow
  <2> QED BY <1>1, <2>1, <2>3 DEF AreFollowed
<1>4. /\ last[0] = entries[node]
      /\ \A i \in 0 .. n : last[i] \in Sites \cup {Unattached}
      /\ \A i \in 1 .. n :
            /\ IsCapture(Effect(<<node, i>>)) => last[i] = <<node, i>>
            /\ Effect(<<node, i>>) = "close" => last[i] = Unattached
            /\ IsOther(<<node, i>>) => last[i] = last[i - 1]
  <2>1. PICK open, captures : open = entries[node] /\ captures = last
    OBVIOUS
  <2>2. open \in Sites \cup {Unattached} /\ captures = LastCaptures(open, node)
    BY <2>1 DEF LastIn
  <2>3. AreFollowedBy(captures, open, node)
    BY <2>2, LastCapturesFollow
  <2> QED BY <1>1, <2>1, <2>3 DEF AreFollowedBy
<1>5. \A i \in 1 .. n : IsCapture(Effect(<<node, i>>)) /\ last[i - 1] # Unattached =>
                            leader[last[i - 1]] = leader[<<node, i>>]
  BY <1>1 DEF BlockAgrees
<1> HIDE DEF n, last
<1>6. \A i \in 0 .. n : states[i].open \in Sites \cup {Unattached}
  BY <1>3 DEF IsState, State
<1> DEFINE T == {k \in 0 .. n : states[k].leaders = leader /\ SameOpen(leader, last[k], states[k].open)}
<1>7. 0 \in T
  BY <1>1, <1>3, <1>4 DEF SameOpen
<1>8. ASSUME NEW k \in 0 .. n - 1, k \in T
      PROVE  k + 1 \in T
  <2> DEFINE i == k + 1
             before == states[k]
  <2>1. /\ i \in 1 .. n /\ i - 1 = k /\ i \in 0 .. n /\ k \in 0 .. n
        /\ before.leaders = leader /\ SameOpen(leader, last[k], before.open)
    BY <1>1, <1>8
  <2> HIDE DEF i, before
  <2>2. CASE IsCapture(Effect(<<node, i>>))
    <3>1. <<node, i>> \in Sites /\ states[i] = Attach(before, <<node, i>>) /\ last[i] = <<node, i>>
      BY <1>3, <1>4, <2>1, <2>2 DEF before
    <3>2. before = [leaders |-> leader, open |-> before.open] /\ before.open \in Sites \cup {Unattached}
      BY <1>3, <1>6, <2>1 DEF IsState, State, before
    <3>3. CASE before.open = Unattached
      <4>1. states[i] = [leaders |-> leader, open |-> <<node, i>>]
        BY <3>1, <3>2, <3>3 DEF Attach
      <4> QED BY <2>1, <3>1, <4>1 DEF SameOpen, i
    <3>4. CASE before.open # Unattached
      <4>1. leader[before.open] = leader[<<node, i>>]
        BY <1>5, <2>1, <2>2, <3>4 DEF SameOpen
      <4>2. United(leader, {before.open, <<node, i>>}) = leader
        BY <1>2, <3>1, <3>2, <3>4, <4>1, UnitedKeepsEpochs
      <4>3. states[i] = [leaders |-> leader, open |-> leader[<<node, i>>]]
        BY <2>1, <3>1, <3>4, <4>2 DEF Attach
      <4>4. states[i].leaders = leader /\ states[i].open = leader[<<node, i>>]
        BY <4>3
      <4>5. leader[leader[<<node, i>>]] = leader[<<node, i>>] /\ leader[<<node, i>>] \in Sites
        BY <3>1 DEF IsForest
      <4> QED BY <1>1, <2>1, <3>1, <4>4, <4>5 DEF SameOpen, i
    <3> QED BY <3>3, <3>4
  <2>3. CASE Effect(<<node, i>>) = "close"
    <3>1. last[i] = Unattached /\ states[i].open = Unattached /\ states[i].leaders = leader
      BY <1>3, <1>4, <2>1, <2>3 DEF before
    <3> QED BY <2>1, <3>1 DEF SameOpen, i
  <2>4. CASE IsOther(<<node, i>>)
    <3>1. last[i] = last[k] /\ states[i] = before
      BY <1>3, <1>4, <2>1, <2>4 DEF before
    <3> QED BY <2>1, <3>1 DEF i
  <2> QED BY <2>2, <2>3, <2>4 DEF IsOther
<1> HIDE DEF T
<1>9. \A k \in 0 .. n : k \in T
  BY <1>1, <1>7, <1>8, InductionUpTo
<1> QED BY <1>6, <1>9 DEF T, n, last

-----------------------------------------------------------------------------
(* The inductive invariant.                                                *)

(* What is said of the function stays the same.                            *)
LEMMA SameFunction ==
  ASSUME function' = function
  PROVE  /\ Sites' = Sites /\ Reachable' = Reachable
         /\ \A node : Code(node)' = Code(node) /\ Predecessors(node)' = Predecessors(node)
         /\ \A s : Effect(s)' = Effect(s)
         /\ \A open, node : LastCaptures(open, node)' = LastCaptures(open, node)
<1>1. \A node : Code(node)' = Code(node)
  BY DEF Code
<1>2. \A node : Successors(node)' = Successors(node)
  BY DEF Successors
<1>3. \A node : Predecessors(node)' = Predecessors(node)
  BY <1>2 DEF Predecessors
<1>4. \A s : Effect(s)' = Effect(s)
  BY <1>1 DEF Effect
<1>5. Reached({Entry}, Nodes)' = Reached({Entry}, Nodes)
  BY DEF Reached, Successors
<1>6. Reachable' = Reachable
  BY <1>5 DEF Reachable, ReachedFrom
<1>7. Sites' = Sites
  BY <1>1, <1>4, <1>6 DEF Sites
<1>8. \A open, node : LastCaptures(open, node)' = LastCaptures(open, node)
  BY <1>1, <1>4 DEF LastCaptures
<1> QED BY <1>1, <1>3, <1>4, <1>6, <1>7, <1>8

(* The types of the function and of the epochs.                            *)
LEMMA TypeIsAnalysisType ==
  ASSUME TypeOK
  PROVE  AnalysisTypeOK /\ worklist \in Seq(Reachable) /\ IsFiniteSet(Reachable)
<1>1. function \in Function
  BY FunctionsAssumption DEF TypeOK
<1>2. IsFiniteSet(Reachable)
  BY <1>1, ReachableIsClosed, FunctionsAssumption, FS_Subset
<1>3. IsForest(leader)
  BY DEF TypeOK, IsForest
<1> QED BY <1>1, <1>2, <1>3 DEF TypeOK, AnalysisTypeOK

(* At the start every block is in the worklist, and every capture is an    *)
(* epoch of its own.                                                       *)
LEMMA EpochsInit ==
  ASSUME Init
  PROVE  EpochsInvariant
<1>1. function \in Functions /\ function \in Function
  BY FunctionsAssumption DEF Init
<1>2. Reachable \in SUBSET Nat /\ IsFiniteSet(Reachable) /\ Entry \in Reachable
  BY <1>1, ReachableIsClosed, FunctionsAssumption, FS_Subset
<1>3. worklist \in Seq(Reachable) /\ ToSet(worklist) = Reachable /\ IsInjective(worklist)
  BY <1>2, InOrderListsEach DEF Init
<1>4. DOMAIN entries = {} /\ DOMAIN exits = {}
  BY DEF Init
<1>5. leader \in [Sites -> Sites] /\ \A s \in Sites : leader[s] = s
  BY DEF Init
<1>6. at[1] = Entry /\ at[2] = 1 /\ Len(Code(Entry)) \in Nat
  BY <1>1, <1>2, SitesAreStatements DEF Init
<1>7. at[2] \in 1 .. Len(Code(at[1])) + 1
  BY <1>6
<1>8. TypeOK
  BY <1>1, <1>2, <1>3, <1>4, <1>5, <1>6, <1>7 DEF TypeOK, Init
<1>9. BoxAgrees
  BY DEF Init, BoxAgrees
<1> QED BY <1>3, <1>4, <1>8, <1>9 DEF EpochsInvariant, Init

(* A block is processed: it joins what its predecessors end with, and      *)
(* unless it ends as before its successors are to be processed again.      *)
LEMMA ProcessBlockKeeps ==
  ASSUME EpochsInvariant, ProcessBlock
  PROVE  EpochsInvariant'
<1>1. /\ TypeOK /\ AnalysisTypeOK /\ worklist \in Seq(Reachable) /\ IsFiniteSet(Reachable)
      /\ function \in Function /\ IsForest(leader) /\ Unattached \notin Sites
      /\ pc = "analyse" /\ worklist # <<>>
      /\ function' = function /\ pc' = pc /\ at' = at /\ box' = box
  BY TypeIsAnalysisType, SitesAreStatements
     DEF EpochsInvariant, AnalysisTypeOK, ProcessBlock, executionVars
<1>2. /\ Sites' = Sites /\ Reachable' = Reachable
      /\ \A node : Code(node)' = Code(node) /\ Predecessors(node)' = Predecessors(node)
      /\ \A s : Effect(s)' = Effect(s)
      /\ \A open, node : LastCaptures(open, node)' = LastCaptures(open, node)
  BY <1>1, SameFunction
<1>3. PICK node, incoming, states, later, ends :
         /\ node = Head(worklist) /\ incoming = Merged(node) /\ states = StatesIn(incoming, node)
         /\ ends = states[Len(Code(node))] /\ later = ends.leaders
  OBVIOUS
<1>4. /\ leader' = later
      /\ entries' = Replaced(entries, node, later, incoming.open)
      /\ exits' = Replaced(exits, node, later, ends.open)
      /\ worklist' = Tail(worklist) \o
            (IF IsKnown(exits, node, later, ends.open) THEN <<>>
             ELSE InOrder(Successors(node) \ ToSet(Tail(worklist))))
  BY <1>3 DEF ProcessBlock, AfterBlock
<1>5. /\ node \in Reachable /\ Tail(worklist) \in Seq(Reachable)
      /\ ToSet(worklist) = {node} \cup ToSet(Tail(worklist))
      /\ IsInjective(Tail(worklist))
  BY <1>1, <1>3, HeadAndTail DEF TypeOK
<1>6. /\ IsState(incoming) /\ IsCoarser(leader, incoming.leaders)
      /\ \A s \in OpenExits(node) :
            /\ incoming.open # Unattached
            /\ incoming.leaders[incoming.open] = incoming.leaders[s]
      /\ OpenExits(node) \subseteq Sites
  BY <1>1, <1>3, <1>5, MergedUnites
<1>7. incoming.open \in Sites \cup {Unattached}
  BY <1>6 DEF IsState, State
(* The states of the block and of the others.                              *)
<1>8. /\ DOMAIN entries' = DOMAIN entries \cup {node}
      /\ SameOpen(later, entries'[node], incoming.open)
      /\ entries'[node] = incoming.open \/ (node \in DOMAIN entries /\ entries'[node] = entries[node])
      /\ \A m \in DOMAIN entries : m # node => entries'[m] = entries[m]
  <2>1. PICK open, replaced : open = incoming.open /\ replaced = entries'
    OBVIOUS
  <2>2. replaced = Replaced(entries, node, later, open)
    BY <1>4, <2>1
  <2>3. IsReplaced(replaced, entries, node, later, open)
    BY <2>2, ReplacedReplaces
  <2> QED BY <2>1, <2>3 DEF IsReplaced
<1>9. /\ DOMAIN exits' = DOMAIN exits \cup {node}
      /\ SameOpen(later, exits'[node], ends.open)
      /\ exits'[node] = ends.open \/ (node \in DOMAIN exits /\ exits'[node] = exits[node])
      /\ \A m \in DOMAIN exits : m # node => exits'[m] = exits[m]
      /\ IsKnown(exits, node, later, ends.open) => exits' = exits
  <2>1. PICK open, replaced : open = ends.open /\ replaced = exits'
    OBVIOUS
  <2>2. replaced = Replaced(exits, node, later, open)
    BY <1>4, <2>1
  <2>3. IsReplaced(replaced, exits, node, later, open)
    BY <2>2, ReplacedReplaces
  <2> QED BY <2>1, <2>3 DEF IsReplaced
<1>10. /\ DOMAIN entries = DOMAIN exits /\ DOMAIN exits \subseteq Reachable
       /\ \A n \in DOMAIN exits : /\ entries[n] \in Sites \cup {Unattached}
                                  /\ exits[n] \in Sites \cup {Unattached}
  BY <1>1 DEF TypeOK
<1>11. entries'[node] \in Sites \cup {Unattached}
  BY <1>7, <1>8, <1>10
<1>12. PICK last : last = LastCaptures(entries'[node], node)
  OBVIOUS
<1>13. /\ IsState(ends) /\ IsCoarser(incoming.leaders, later)
       /\ SameOpen(later, last[Len(Code(node))], ends.open)
       /\ \A i \in DOMAIN Code(node) :
             IsCapture(Effect(<<node, i>>)) /\ last[i - 1] # Unattached =>
                 later[last[i - 1]] = later[<<node, i>>]
  <2>1. PICK open : open = entries'[node]
    OBVIOUS
  <2>2. /\ open \in Sites \cup {Unattached} /\ last = LastCaptures(open, node)
        /\ later = states[Len(Code(node))].leaders /\ SameOpen(later, open, incoming.open)
    BY <1>3, <1>8, <1>11, <1>12, <2>1
  <2>3. /\ IsState(states[Len(Code(node))])
        /\ IsCoarser(incoming.leaders, later)
        /\ SameOpen(later, last[Len(Code(node))], states[Len(Code(node))].open)
        /\ \A i \in DOMAIN Code(node) :
              IsCapture(Effect(<<node, i>>)) /\ last[i - 1] # Unattached =>
                  later[last[i - 1]] = later[<<node, i>>]
    BY <1>1, <1>3, <1>5, <1>6, <2>2, TransferFollows
  <2> QED BY <1>3, <2>3
<1>14. IsCoarser(leader, later) /\ IsForest(later) /\ ends.open \in Sites \cup {Unattached}
  <2>1. IsCoarser(leader, later)
    <3>1. PICK merged : merged = incoming.leaders
      OBVIOUS
    <3>2. IsCoarser(leader, merged) /\ IsCoarser(merged, later)
      BY <1>6, <1>13, <3>1
    <3> QED BY <3>2 DEF IsCoarser
  <2>2. IsForest(later)
    BY <1>3, <1>13 DEF IsState
  <2>3. ends.open \in Sites \cup {Unattached}
    BY <1>13 DEF IsState, State
  <2> QED BY <2>1, <2>2, <2>3
<1>15. \A s, t \in Sites : leader[s] = leader[t] => later[s] = later[t]
  BY <1>14 DEF IsCoarser
<1>16. \A s, t \in Sites \cup {Unattached} : SameOpen(leader, s, t) => SameOpen(later, s, t)
  BY <1>1, <1>15 DEF SameOpen
<1>17. exits'[node] \in Sites \cup {Unattached}
  BY <1>9, <1>10, <1>14
(* The worklist.                                                           *)
<1>18. /\ worklist' \in Seq(Reachable) /\ IsInjective(worklist')
       /\ ToSet(Tail(worklist)) \subseteq ToSet(worklist')
       /\ ~ IsKnown(exits, node, later, ends.open) => Successors(node) \subseteq ToSet(worklist')
  <2> DEFINE more == Successors(node) \ ToSet(Tail(worklist))
             added == IF IsKnown(exits, node, later, ends.open) THEN <<>> ELSE InOrder(more)
  <2>1. more \in SUBSET Reachable /\ more \in SUBSET Nat /\ IsFiniteSet(more)
    BY <1>1, <1>5, ReachableIsClosed, FunctionsAssumption, FS_Subset
  <2>2. InOrder(more) \in Seq(more) /\ ToSet(InOrder(more)) = more /\ IsInjective(InOrder(more))
    <3> HIDE DEF more
    <3> QED BY <2>1, InOrderListsEach
  <2>3. more \cap ToSet(Tail(worklist)) = {} /\ Successors(node) \subseteq more \cup ToSet(Tail(worklist))
    OBVIOUS
  <2> HIDE DEF more
  <2>4. InOrder(more) \in Seq(Reachable)
    <3>1. PICK n, order : n = Len(order) /\ order = InOrder(more)
      OBVIOUS
    <3>2. n \in Nat /\ order \in [1 .. n -> more]
      BY <2>2, <3>1
    <3>3. order \in [1 .. n -> Reachable]
      BY <2>1, <3>2
    <3> QED BY <3>1, <3>2, <3>3
  <2>5. <<>> \in Seq(Reachable) /\ ToSet(<<>>) = {} /\ IsInjective(<<>>)
    BY DEF ToSet, IsInjective
  <2>6. /\ added \in Seq(Reachable) /\ IsInjective(added)
        /\ ToSet(Tail(worklist)) \cap ToSet(added) = {}
        /\ ~ IsKnown(exits, node, later, ends.open) => ToSet(added) = more
    BY <2>2, <2>3, <2>4, <2>5
  <2>7. worklist' = Tail(worklist) \o added
    BY <1>4 DEF more
  <2> HIDE DEF added
  <2>8. /\ worklist' \in Seq(Reachable) /\ IsInjective(worklist')
        /\ ToSet(worklist') = ToSet(Tail(worklist)) \cup ToSet(added)
    <3>1. PICK front, back : front = Tail(worklist) /\ back = added
      OBVIOUS
    <3>2. /\ front \in Seq(Reachable) /\ back \in Seq(Reachable)
          /\ IsInjective(front) /\ IsInjective(back) /\ ToSet(front) \cap ToSet(back) = {}
      BY <1>5, <2>6, <3>1
    <3>3. /\ front \o back \in Seq(Reachable) /\ IsInjective(front \o back)
          /\ ToSet(front \o back) = ToSet(front) \cup ToSet(back)
      BY <3>2, ConcatenationHasBoth
    <3> QED BY <2>7, <3>1, <3>3
  <2> QED BY <2>3, <2>6, <2>8
<1>19. TypeOK'
  <2>1. /\ leader' \in [Sites -> Sites]
        /\ \A s \in Sites : leader'[leader'[s]] = leader'[s]
                            /\ (leader'[s] = s \/ Precedes(leader'[s], s))
    BY <1>4, <1>14 DEF IsForest
  <2>2. DOMAIN entries' = DOMAIN exits' /\ DOMAIN exits' \subseteq Reachable
    BY <1>5, <1>8, <1>9, <1>10
  <2>3. \A n \in DOMAIN exits' : {entries'[n], exits'[n]} \subseteq Sites \cup {Unattached}
    BY <1>8, <1>9, <1>10, <1>11, <1>17
  <2>4. /\ function' \in Functions /\ box' \in Sites \cup {Unattached}
        /\ at' = at /\ at \in Reachable \X Nat /\ at[2] \in 1 .. Len(Code(at[1])) + 1
        /\ pc' \in {"analyse", "validate", "materialize", "run", "rejected"}
    BY <1>1 DEF TypeOK
  <2> QED BY <1>2, <1>18, <2>1, <2>2, <2>3, <2>4 DEF TypeOK, Precedes
(* Joins.                                                                  *)
<1>20. ASSUME NEW n \in Reachable, n \notin ToSet(worklist')
       PROVE  JoinAgrees(n)'
  <2>1. n \in DOMAIN exits'
    <3>1. CASE n = node
      BY <1>9, <3>1
    <3>2. CASE n # node
      <4>1. n \notin ToSet(worklist)
        BY <1>5, <1>18, <1>20, <3>2
      <4> QED BY <1>9, <1>20, <4>1 DEF EpochsInvariant, JoinAgrees
    <3> QED BY <3>1, <3>2
  <2>2. ASSUME NEW m \in Predecessors(n), m \in DOMAIN exits', exits'[m] # Unattached
        PROVE  entries'[n] # Unattached /\ later[entries'[n]] = later[exits'[m]]
    <3>1. exits'[m] = exits[m] /\ m \in DOMAIN exits
      <4>1. CASE m # node
        BY <1>9, <2>2, <4>1
      <4>2. CASE m = node
        <5>1. n \in Successors(node)
          BY <2>2, <4>2 DEF Predecessors
        <5>2. IsKnown(exits, node, later, ends.open)
          BY <1>18, <1>20, <5>1
        <5> QED BY <1>9, <2>2, <5>2
      <4> QED BY <4>1, <4>2
    <3>2. exits[m] \in Sites /\ exits[m] # Unattached
      BY <1>10, <2>2, <3>1
    <3>3. CASE n = node
      <4>1. exits[m] \in OpenExits(node)
        BY <2>2, <3>1, <3>2, <3>3 DEF OpenExits
      <4>2. incoming.open # Unattached /\ incoming.leaders[incoming.open] = incoming.leaders[exits[m]]
        BY <1>6, <4>1
      <4>3. later[incoming.open] = later[exits[m]]
        BY <1>7, <1>13, <3>2, <4>2 DEF IsCoarser
      <4> QED BY <1>8, <3>1, <3>3, <4>2, <4>3 DEF SameOpen
    <3>4. CASE n # node
      <4>1. n \notin ToSet(worklist)
        BY <1>5, <1>18, <1>20, <3>4
      <4>2. n \in DOMAIN exits /\ entries[n] # Unattached /\ leader[entries[n]] = leader[exits[m]]
        BY <1>20, <2>2, <3>1, <3>2, <4>1 DEF EpochsInvariant, JoinAgrees
      <4>3. entries'[n] = entries[n] /\ entries[n] \in Sites
        BY <1>8, <1>10, <3>4, <4>2
      <4> QED BY <1>15, <3>1, <3>2, <4>2, <4>3
    <3> QED BY <3>3, <3>4
  <2> QED BY <1>2, <1>4, <2>1, <2>2 DEF JoinAgrees
(* Blocks.                                                                 *)
<1>21. ASSUME NEW n \in DOMAIN exits'
       PROVE  BlockAgrees(n)'
  <2> DEFINE captures == LastCaptures(entries'[n], n)
  <2>1. LastIn(n)' = captures
    BY <1>2 DEF LastIn
  <2>2. /\ \A i \in DOMAIN Code(n) :
              IsCapture(Effect(<<n, i>>)) /\ captures[i - 1] # Unattached =>
                  later[captures[i - 1]] = later[<<n, i>>]
        /\ SameOpen(later, captures[Len(Code(n))], exits'[n])
    <3>1. CASE n = node
      <4>1. SameOpen(later, last[Len(Code(node))], exits'[node])
        BY <1>9, <1>13, SameIsTransitive
      <4> QED BY <1>12, <1>13, <3>1, <4>1
    <3>2. CASE n # node
      <4>1. n \in DOMAIN exits /\ entries'[n] = entries[n] /\ exits'[n] = exits[n] /\ n \in Reachable
        BY <1>8, <1>9, <1>10, <1>21, <3>2
      <4>2. BlockAgrees(n) /\ captures = LastIn(n)
        BY <4>1 DEF EpochsInvariant, LastIn
      <4>3. PICK open, others : open = entries[n] /\ others = captures
        OBVIOUS
      <4>4. open \in Sites \cup {Unattached} /\ others = LastCaptures(open, n)
        BY <1>10, <4>1, <4>3
      <4>5. AreFollowedBy(others, open, n)
        BY <1>1, <4>1, <4>4, LastCapturesFollow
      <4> HIDE DEF captures
      <4>6. Len(Code(n)) \in Nat /\ DOMAIN Code(n) = 1 .. Len(Code(n))
        BY <1>1, <4>1, SitesAreStatements
      <4>7. \A i \in 0 .. Len(Code(n)) : captures[i] \in Sites \cup {Unattached}
        BY <4>3, <4>5 DEF AreFollowedBy
      <4>8. ASSUME NEW i \in DOMAIN Code(n), IsCapture(Effect(<<n, i>>)), captures[i - 1] # Unattached
            PROVE  later[captures[i - 1]] = later[<<n, i>>]
        <5>1. leader[captures[i - 1]] = leader[<<n, i>>]
          BY <4>2, <4>8 DEF BlockAgrees
        <5>2. i - 1 \in 0 .. Len(Code(n))
          BY <4>6
        <5>3. captures[i - 1] \in Sites /\ <<n, i>> \in Sites
          BY <1>1, <4>1, <4>7, <4>8, <5>2, SitesAreStatements
        <5> QED BY <1>15, <5>1, <5>3
      <4>9. SameOpen(leader, captures[Len(Code(n))], exits[n])
        BY <4>2 DEF BlockAgrees
      <4>10. Len(Code(n)) \in 0 .. Len(Code(n))
        BY <4>6
      <4>11. SameOpen(later, captures[Len(Code(n))], exits'[n])
        BY <1>10, <1>16, <4>1, <4>7, <4>9, <4>10
      <4> QED BY <4>8, <4>11
    <3> QED BY <3>1, <3>2
  <2> HIDE DEF captures
  <2>3. Code(n)' = Code(n) /\ \A i : Effect(<<n, i>>)' = Effect(<<n, i>>)
    BY <1>2
  <2> QED BY <1>4, <2>1, <2>2, <2>3 DEF BlockAgrees, SameOpen
<1>22. BoxAgrees'
  BY <1>1 DEF EpochsInvariant, BoxAgrees
<1> QED BY <1>1, <1>2, <1>19, <1>20, <1>21, <1>22 DEF EpochsInvariant

(* What joins and blocks agree on does not depend on the rest of the state. *)
LEMMA AgreementsStay ==
  ASSUME function' = function, leader' = leader, entries' = entries, exits' = exits
  PROVE  /\ Sites' = Sites /\ Reachable' = Reachable
         /\ \A node : /\ Code(node)' = Code(node) /\ Predecessors(node)' = Predecessors(node)
                      /\ LastIn(node)' = LastIn(node)
         /\ \A s : Effect(s)' = Effect(s)
         /\ \A node : JoinAgrees(node)' <=> JoinAgrees(node)
         /\ \A node : BlockAgrees(node)' <=> BlockAgrees(node)
<1>1. /\ Sites' = Sites /\ Reachable' = Reachable
      /\ \A node : Code(node)' = Code(node) /\ Predecessors(node)' = Predecessors(node)
      /\ \A s : Effect(s)' = Effect(s)
      /\ \A open, node : LastCaptures(open, node)' = LastCaptures(open, node)
  BY SameFunction
<1>2. \A node : LastIn(node)' = LastIn(node)
  BY <1>1 DEF LastIn
<1>3. \A node : JoinAgrees(node)' <=> JoinAgrees(node)
  BY <1>1 DEF JoinAgrees
<1>4. \A node : BlockAgrees(node)' <=> BlockAgrees(node)
  BY <1>1, <1>2 DEF BlockAgrees, SameOpen
<1> QED BY <1>1, <1>2, <1>3, <1>4

(* The types of the state stay, except for those of what a step changes.   *)
LEMMA TypesStay ==
  ASSUME TypeOK, function' = function, leader' = leader, entries' = entries, exits' = exits,
         worklist' = worklist,
         pc' \in {"analyse", "validate", "materialize", "run", "rejected"},
         NEW to, to = at', to \in Reachable \X Nat, to[2] \in 1 .. Len(Code(to[1])) + 1,
         box' \in Sites \cup {Unattached}
  PROVE  TypeOK'
<1>1. /\ Sites' = Sites /\ Reachable' = Reachable
      /\ \A node : Code(node)' = Code(node)
  BY SameFunction
<1> QED BY <1>1 DEF TypeOK, Precedes

(* The analysis ends, or is validated.                                     *)
LEMMA EndsKeep ==
  ASSUME EpochsInvariant, EndAnalysis \/ Validate
  PROVE  EpochsInvariant'
<1>1. /\ UNCHANGED <<function, leader, entries, exits, worklist, opening, at, box>>
      /\ pc # "run" /\ pc' # "run" /\ worklist = <<>>
      /\ pc' \in {"analyse", "validate", "materialize", "run", "rejected"}
  <2>1. CASE EndAnalysis
    BY <2>1 DEF EndAnalysis, executionVars
  <2>2. CASE Validate
    BY <2>2 DEF Validate, executionVars, EpochsInvariant
  <2> QED BY <2>1, <2>2
<1>2. /\ Reachable' = Reachable
      /\ \A node : JoinAgrees(node)' <=> JoinAgrees(node)
      /\ \A node : BlockAgrees(node)' <=> BlockAgrees(node)
  BY <1>1, AgreementsStay
<1>3. PICK to : to = at'
  OBVIOUS
<1>4. to \in Reachable \X Nat /\ to[2] \in 1 .. Len(Code(to[1])) + 1 /\ box' \in Sites \cup {Unattached}
  BY <1>1, <1>3 DEF EpochsInvariant, TypeOK
<1>5. TypeOK'
  BY <1>1, <1>3, <1>4, TypesStay DEF EpochsInvariant
<1>6. BoxAgrees'
  BY <1>1 DEF EpochsInvariant, BoxAgrees
<1> QED BY <1>1, <1>2, <1>5, <1>6 DEF EpochsInvariant

(* When no block is left to be processed, all are known and agree.         *)
LEMMA AllAgree ==
  ASSUME EpochsInvariant, pc # "analyse"
  PROVE  /\ function \in Function /\ IsForest(leader) /\ Unattached \notin Sites
         /\ \A node \in Reachable : /\ node \in DOMAIN exits /\ JoinAgrees(node) /\ BlockAgrees(node)
                                    /\ entries[node] \in Sites \cup {Unattached}
                                    /\ exits[node] \in Sites \cup {Unattached}
<1>1. /\ function \in Function /\ IsForest(leader) /\ Unattached \notin Sites
      /\ \A n \in DOMAIN exits : /\ entries[n] \in Sites \cup {Unattached}
                                 /\ exits[n] \in Sites \cup {Unattached}
  BY TypeIsAnalysisType, SitesAreStatements DEF EpochsInvariant, AnalysisTypeOK
<1>2. ToSet(worklist) = {}
  BY DEF EpochsInvariant, ToSet
<1>3. \A node \in Reachable : JoinAgrees(node)
  BY <1>2 DEF EpochsInvariant
<1>4. \A node \in Reachable : node \in DOMAIN exits
  BY <1>3 DEF JoinAgrees
<1>5. \A node \in Reachable : BlockAgrees(node)
  BY <1>4 DEF EpochsInvariant
<1> QED BY <1>1, <1>3, <1>4, <1>5

(* materialize_ranges records the epochs of the last captures.             *)
LEMMA MaterializeKeeps ==
  ASSUME EpochsInvariant, Materialize
  PROVE  EpochsInvariant'
<1>1. /\ UNCHANGED <<function, leader, entries, exits, worklist, at, box>>
      /\ pc = "materialize" /\ pc' = "run" /\ worklist = <<>>
  BY DEF Materialize, executionVars, EpochsInvariant
<1>2. /\ Reachable' = Reachable
      /\ \A node : JoinAgrees(node)' <=> JoinAgrees(node)
      /\ \A node : BlockAgrees(node)' <=> BlockAgrees(node)
      /\ \A node : LastIn(node)' = LastIn(node) /\ Code(node)' = Code(node)
  BY <1>1, AgreementsStay
<1>3. PICK to : to = at'
  OBVIOUS
<1>4. /\ to \in Reachable \X Nat /\ to[2] \in 1 .. Len(Code(to[1])) + 1 /\ box' \in Sites \cup {Unattached}
      /\ pc' \in {"analyse", "validate", "materialize", "run", "rejected"}
  BY <1>1, <1>3 DEF EpochsInvariant, TypeOK
<1>5. TypeOK'
  BY <1>1, <1>3, <1>4, TypesStay DEF EpochsInvariant
<1>6. /\ function \in Function /\ IsForest(leader) /\ Unattached \notin Sites
      /\ \A node \in Reachable : BlockAgrees(node) /\ entries[node] \in Sites \cup {Unattached}
  BY <1>1, AllAgree
<1>7. ASSUME NEW node \in Reachable, NEW i \in DOMAIN Code(node)
      PROVE  opening'[node][i] = EpochOf(LastIn(node)[i])
  <2>1. PICK states : states = StatesIn([leaders |-> leader, open |-> entries[node]], node)
    OBVIOUS
  <2>2. opening'[node][i] = IF states[i].open = Unattached THEN Unattached
                            ELSE states[i].leaders[states[i].open]
    BY <2>1 DEF Materialize
  <2>3. \A k \in 0 .. Len(Code(node)) :
            /\ states[k].leaders = leader /\ states[k].open \in Sites \cup {Unattached}
            /\ SameOpen(leader, LastIn(node)[k], states[k].open)
    BY <1>6, <2>1, AgreeingBlocksUniteNothing
  <2>4. i \in 0 .. Len(Code(node))
    BY <1>6, SitesAreStatements
  <2>5. states[i].leaders = leader /\ SameOpen(leader, LastIn(node)[i], states[i].open)
    BY <2>3, <2>4
  <2> QED BY <2>2, <2>5 DEF SameOpen, EpochOf
<1>8. \A node \in Reachable : OpeningAgrees(node)'
  BY <1>1, <1>2, <1>7 DEF OpeningAgrees, EpochOf
<1>9. BoxAgrees'
  BY <1>1 DEF EpochsInvariant, BoxAgrees
<1> QED BY <1>1, <1>2, <1>5, <1>8, <1>9 DEF EpochsInvariant

(* A capture attaches the register to a box of its epoch, or finds it      *)
(* attached to one.                                                        *)
LEMMA ExecuteKeeps ==
  ASSUME EpochsInvariant, Execute
  PROVE  EpochsInvariant'
<1>1. /\ UNCHANGED <<function, leader, entries, exits, worklist, opening, pc>>
      /\ pc = "run" /\ worklist = <<>> /\ at[2] <= Len(Code(at[1]))
      /\ at' = <<at[1], at[2] + 1>>
      /\ box' = CASE Effect(at) = "close"                      -> Unattached
                  [] IsCapture(Effect(at)) /\ box = Unattached -> at
                  [] OTHER                                     -> box
  BY DEF Execute, Executing, analysisVars, EpochsInvariant
<1>2. /\ Reachable' = Reachable /\ Sites' = Sites
      /\ \A node : JoinAgrees(node)' <=> JoinAgrees(node)
      /\ \A node : BlockAgrees(node)' <=> BlockAgrees(node)
      /\ \A node : LastIn(node)' = LastIn(node) /\ Code(node)' = Code(node)
  BY <1>1, AgreementsStay
<1>3. /\ function \in Function /\ IsForest(leader) /\ Unattached \notin Sites
      /\ \A node \in Reachable : BlockAgrees(node) /\ entries[node] \in Sites \cup {Unattached}
  BY <1>1, AllAgree
<1>4. PICK node, i : node = at[1] /\ i = at[2]
  OBVIOUS
<1>5. /\ node \in Reachable /\ i \in DOMAIN Code(node) /\ i \in Nat /\ i + 1 \in 1 .. Len(Code(node)) + 1
      /\ i - 1 \in 0 .. Len(Code(node)) /\ i \in 0 .. Len(Code(node)) /\ (i + 1) - 1 = i
  <2>1. node \in Reachable /\ i \in 1 .. Len(Code(node)) + 1 /\ i <= Len(Code(node))
    BY <1>1, <1>4 DEF EpochsInvariant, TypeOK
  <2>2. Len(Code(node)) \in Nat /\ DOMAIN Code(node) = 1 .. Len(Code(node))
    BY <1>3, <2>1, SitesAreStatements
  <2> QED BY <2>1, <2>2
<1>6. Effect(at) = Effect(<<node, i>>)
  BY <1>4 DEF Effect
<1>7. PICK last : last = LastIn(node)
  OBVIOUS
<1>8. /\ last[i - 1] \in Sites \cup {Unattached}
      /\ IsCapture(Effect(<<node, i>>)) => last[i] = <<node, i>>
      /\ Effect(<<node, i>>) = "close" => last[i] = Unattached
      /\ IsOther(<<node, i>>) => last[i] = last[i - 1]
  <2>1. PICK open : open = entries[node]
    OBVIOUS
  <2>2. open \in Sites \cup {Unattached} /\ last = LastCaptures(open, node)
    BY <1>3, <1>5, <1>7, <2>1 DEF LastIn
  <2>3. AreFollowedBy(last, open, node)
    BY <1>3, <1>5, <2>2, LastCapturesFollow
  <2> QED BY <1>5, <2>3 DEF AreFollowedBy
<1>9. box # Unattached => last[i - 1] # Unattached /\ leader[last[i - 1]] = leader[box]
  BY <1>1, <1>4, <1>7 DEF EpochsInvariant, BoxAgrees
<1>10. box \in Sites \cup {Unattached}
  BY DEF EpochsInvariant, TypeOK
<1>11. /\ box' \in Sites \cup {Unattached}
       /\ box' # Unattached => last[i] # Unattached /\ leader[last[i]] = leader[box']
  <2>1. CASE Effect(<<node, i>>) = "close"
    <3>1. box' = Unattached
      BY <1>1, <1>6, <2>1 DEF IsCapture
    <3> QED BY <3>1
  <2>2. CASE IsCapture(Effect(<<node, i>>))
    <3>1. Effect(<<node, i>>) # "close" /\ <<node, i>> \in Sites /\ last[i] = <<node, i>>
      BY <1>3, <1>5, <1>8, <2>2, SitesAreStatements DEF IsCapture
    <3>2. CASE box = Unattached
      <4>1. box' = at
        BY <1>1, <1>6, <2>2, <3>1, <3>2
      <4>2. at[1] = node /\ at[2] = i /\ box' = <<node, i>>
        <5>1. PICK m, k : at = <<m, k>>
          BY DEF EpochsInvariant, TypeOK
        <5> QED BY <1>4, <4>1, <5>1
      <4> QED BY <1>3, <3>1, <4>2
    <3>3. CASE box # Unattached
      <4>1. box' = box
        BY <1>1, <1>6, <2>2, <3>1, <3>3
      <4>2. leader[last[i - 1]] = leader[<<node, i>>]
        BY <1>3, <1>5, <1>7, <1>9, <2>2, <3>3 DEF BlockAgrees
      <4> QED BY <1>3, <1>9, <1>10, <3>1, <3>3, <4>1, <4>2
    <3> QED BY <3>2, <3>3
  <2>3. CASE IsOther(<<node, i>>)
    <3>1. box' = box
      BY <1>1, <1>6, <2>3 DEF IsOther
    <3> QED BY <1>8, <1>9, <1>10, <2>3, <3>1
  <2> QED BY <2>1, <2>2, <2>3 DEF IsOther
<1>12. PICK to : to = at'
  OBVIOUS
<1>13. /\ to[1] = node /\ to[2] = i + 1
       /\ pc' \in {"analyse", "validate", "materialize", "run", "rejected"}
  BY <1>1, <1>4, <1>12
<1>14. to \in Reachable \X Nat /\ to[2] \in 1 .. Len(Code(to[1])) + 1
  BY <1>1, <1>4, <1>5, <1>12, <1>13
<1>15. TypeOK'
  BY <1>1, <1>11, <1>12, <1>13, <1>14, TypesStay DEF EpochsInvariant
<1>16. LastIn(to[1])'[to[2] - 1] = last[i]
  BY <1>2, <1>5, <1>7, <1>13
<1>17. BoxAgrees'
  BY <1>1, <1>11, <1>12, <1>16 DEF BoxAgrees
<1>18. \A n \in Reachable : OpeningAgrees(n)'
  BY <1>1, <1>2 DEF EpochsInvariant, OpeningAgrees, EpochOf
<1> QED BY <1>1, <1>2, <1>15, <1>17, <1>18 DEF EpochsInvariant

(* An execution goes on with the block that joins what this one ends with. *)
LEMMA JumpKeeps ==
  ASSUME EpochsInvariant, Jump
  PROVE  EpochsInvariant'
<1>1. /\ UNCHANGED <<function, leader, entries, exits, worklist, opening, pc, box>>
      /\ pc = "run" /\ worklist = <<>> /\ ~ (at[2] <= Len(Code(at[1])))
  BY DEF Jump, Executing, analysisVars, EpochsInvariant
<1>2. PICK next \in Successors(at[1]) : at' = <<next, 1>>
  BY DEF Jump
<1>3. /\ Reachable' = Reachable /\ Sites' = Sites
      /\ \A node : JoinAgrees(node)' <=> JoinAgrees(node)
      /\ \A node : BlockAgrees(node)' <=> BlockAgrees(node)
      /\ \A node : LastIn(node)' = LastIn(node) /\ Code(node)' = Code(node)
  BY <1>1, AgreementsStay
<1>4. /\ function \in Function /\ IsForest(leader) /\ Unattached \notin Sites
      /\ \A node \in Reachable : /\ node \in DOMAIN exits /\ JoinAgrees(node) /\ BlockAgrees(node)
                                 /\ entries[node] \in Sites \cup {Unattached}
                                 /\ exits[node] \in Sites \cup {Unattached}
  BY <1>1, AllAgree
<1>5. PICK node, n : node = at[1] /\ n = Len(Code(node))
  OBVIOUS
<1>6. node \in Reachable /\ n \in Nat /\ at[2] - 1 = n
  <2>1. node \in Reachable /\ at[2] \in 1 .. n + 1 /\ ~ (at[2] <= n)
    BY <1>1, <1>5 DEF EpochsInvariant, TypeOK
  <2>2. n \in Nat
    BY <1>4, <1>5, <2>1, SitesAreStatements
  <2> QED BY <2>1, <2>2
<1>7. next \in Reachable /\ node \in Predecessors(next) /\ Reachable \subseteq Nodes
  BY <1>2, <1>4, <1>5, <1>6, ReachableIsClosed DEF Predecessors
<1>8. box # Unattached => entries[next] # Unattached /\ leader[entries[next]] = leader[box]
  <2> SUFFICES ASSUME box # Unattached
               PROVE  entries[next] # Unattached /\ leader[entries[next]] = leader[box]
    OBVIOUS
  <2>1. LastIn(node)[n] # Unattached /\ leader[LastIn(node)[n]] = leader[box]
    BY <1>1, <1>5, <1>6 DEF EpochsInvariant, BoxAgrees
  <2>2. exits[node] # Unattached /\ leader[exits[node]] = leader[box]
    BY <1>4, <1>5, <1>6, <2>1 DEF BlockAgrees, SameOpen
  <2> QED BY <1>4, <1>6, <1>7, <2>2 DEF JoinAgrees
<1>9. LastIn(next)[0] = entries[next]
  <2>1. PICK open, last : open = entries[next] /\ last = LastIn(next)
    OBVIOUS
  <2>2. open \in Sites \cup {Unattached} /\ last = LastCaptures(open, next)
    BY <1>4, <1>7, <2>1 DEF LastIn
  <2>3. AreFollowedBy(last, open, next)
    BY <1>4, <1>7, <2>2, LastCapturesFollow
  <2> QED BY <2>1, <2>3 DEF AreFollowedBy
<1>10. PICK to : to = at'
  OBVIOUS
<1>11. to[1] = next /\ to[2] = 1 /\ to[2] - 1 = 0 /\ box' \in Sites \cup {Unattached}
       /\ pc' \in {"analyse", "validate", "materialize", "run", "rejected"}
  BY <1>1, <1>2, <1>10 DEF EpochsInvariant, TypeOK
<1>12. to \in Reachable \X Nat /\ to[2] \in 1 .. Len(Code(to[1])) + 1
  <2>1. Len(Code(next)) \in Nat
    BY <1>4, <1>7, SitesAreStatements
  <2> QED BY <1>2, <1>7, <1>10, <1>11, <2>1
<1>13. TypeOK'
  BY <1>1, <1>10, <1>11, <1>12, TypesStay DEF EpochsInvariant
<1>14. LastIn(to[1])'[to[2] - 1] = entries[next]
  BY <1>3, <1>9, <1>11
<1>15. BoxAgrees'
  BY <1>1, <1>8, <1>10, <1>14 DEF BoxAgrees
<1>16. \A m \in Reachable : OpeningAgrees(m)'
  BY <1>1, <1>3 DEF EpochsInvariant, OpeningAgrees, EpochOf
<1> QED BY <1>1, <1>3, <1>13, <1>15, <1>16 DEF EpochsInvariant

(* Every step keeps the invariant.                                         *)
LEMMA EpochsNext ==
  ASSUME EpochsInvariant, [Next]_vars
  PROVE  EpochsInvariant'
<1>1. CASE ProcessBlock
  BY <1>1, ProcessBlockKeeps
<1>2. CASE EndAnalysis \/ Validate
  BY <1>2, EndsKeep
<1>3. CASE Materialize
  BY <1>3, MaterializeKeeps
<1>4. CASE Execute
  BY <1>4, ExecuteKeeps
<1>5. CASE Jump
  BY <1>5, JumpKeeps
<1>6. CASE UNCHANGED vars
  <2>1. UNCHANGED <<function, leader, entries, exits, worklist, opening, pc, at, box>>
    BY <1>6 DEF vars, analysisVars, executionVars
  <2>2. /\ Reachable' = Reachable
        /\ \A node : JoinAgrees(node)' <=> JoinAgrees(node)
        /\ \A node : BlockAgrees(node)' <=> BlockAgrees(node)
        /\ \A node : LastIn(node)' = LastIn(node) /\ Code(node)' = Code(node)
    BY <2>1, AgreementsStay
  <2>3. PICK to : to = at'
    OBVIOUS
  <2>4. /\ to \in Reachable \X Nat /\ to[2] \in 1 .. Len(Code(to[1])) + 1 /\ box' \in Sites \cup {Unattached}
        /\ pc' \in {"analyse", "validate", "materialize", "run", "rejected"}
    BY <2>1, <2>3 DEF EpochsInvariant, TypeOK
  <2>5. TypeOK'
    BY <2>1, <2>3, <2>4, TypesStay DEF EpochsInvariant
  <2>6. BoxAgrees'
    BY <2>1, <2>2 DEF EpochsInvariant, BoxAgrees
  <2>7. pc = "run" => \A n \in Reachable : OpeningAgrees(n)'
    BY <2>1, <2>2 DEF EpochsInvariant, OpeningAgrees, EpochOf
  <2> QED BY <2>1, <2>2, <2>5, <2>6, <2>7 DEF EpochsInvariant
<1> QED BY <1>1, <1>2, <1>3, <1>4, <1>5, <1>6 DEF Next, Analyse

(* The analysis of openness, its result, and every execution agree:        *)
(* EpochsInvariant always holds.                                           *)
THEOREM EpochsInvariantHolds == Spec => []EpochsInvariant
<1>1. Init => EpochsInvariant
  BY EpochsInit
<1>2. EpochsInvariant /\ [Next]_vars => EpochsInvariant'
  BY EpochsNext
<1> QED BY <1>1, <1>2, PTL DEF Spec

(* In every state of every execution, opening_location names the epoch of  *)
(* the capture that opened the box the register is attached to, wherever   *)
(* the register is read, written or captured.                              *)
THEOREM AttachedRegistersAreOpen == Spec => []AttachedIsOpen
<1>1. EpochsInvariant => AttachedIsOpen
  <2> SUFFICES ASSUME EpochsInvariant, Executing, Effect(at) # "close", box # Unattached
               PROVE  opening[at[1]][at[2]] = leader[box]
    BY DEF AttachedIsOpen
  <2>1. PICK node, i : node = at[1] /\ i = at[2]
    OBVIOUS
  <2>2. pc = "run" /\ node \in Reachable /\ i \in 1 .. Len(Code(node)) + 1 /\ i <= Len(Code(node))
    BY <2>1 DEF Executing, EpochsInvariant, TypeOK
  <2>3. /\ function \in Function /\ Unattached \notin Sites
        /\ \A n \in Reachable : BlockAgrees(n) /\ entries[n] \in Sites \cup {Unattached}
    BY <2>2, AllAgree
  <2>4. i \in DOMAIN Code(node) /\ Effect(at) = Effect(<<node, i>>)
    <3>1. Len(Code(node)) \in Nat /\ DOMAIN Code(node) = 1 .. Len(Code(node))
      BY <2>2, <2>3, SitesAreStatements
    <3> QED BY <2>1, <2>2, <3>1 DEF Effect
  <2>5. PICK last : last = LastIn(node)
    OBVIOUS
  <2>6. last[i - 1] # Unattached /\ leader[last[i - 1]] = leader[box]
    BY <2>1, <2>2, <2>5 DEF EpochsInvariant, BoxAgrees
  <2>7. /\ IsCapture(Effect(<<node, i>>)) => last[i] = <<node, i>>
        /\ IsOther(<<node, i>>) => last[i] = last[i - 1]
    <3>1. PICK open : open = entries[node]
      OBVIOUS
    <3>2. open \in Sites \cup {Unattached} /\ last = LastCaptures(open, node)
      BY <2>2, <2>3, <2>5, <3>1 DEF LastIn
    <3>3. AreFollowedBy(last, open, node)
      BY <2>2, <2>3, <3>2, LastCapturesFollow
    <3> QED BY <2>4, <3>3 DEF AreFollowedBy
  <2>8. opening[node][i] = EpochOf(last[i])
    BY <2>2, <2>4, <2>5 DEF EpochsInvariant, OpeningAgrees
  <2>9. CASE IsCapture(Effect(<<node, i>>))
    <3>1. leader[last[i - 1]] = leader[<<node, i>>]
      BY <2>2, <2>3, <2>4, <2>5, <2>6, <2>9 DEF BlockAgrees
    <3>2. <<node, i>> # Unattached
      BY <2>2, <2>3, <2>4, <2>9, SitesAreStatements
    <3> QED BY <2>1, <2>6, <2>7, <2>8, <2>9, <3>1, <3>2 DEF EpochOf
  <2>10. CASE IsOther(<<node, i>>)
    BY <2>1, <2>6, <2>7, <2>8, <2>10 DEF EpochOf
  <2> QED BY <2>4, <2>9, <2>10 DEF IsOther
<1> QED BY <1>1, EpochsInvariantHolds, PTL

-----------------------------------------------------------------------------
(* Scopes.                                                                 *)

AreScopes(scopes, node, n) ==
    scopes = [i \in 0 .. n |->
                 IF i = 0 THEN function.scope[node]
                 ELSE ScopeAfter(scopes[i - 1], function.code[node][i], <<node, i>>)]

(* ScopesIn solves its equation.                                           *)
LEMMA ScopesExist ==
  ASSUME function \in Function, NEW node \in Reachable
  PROVE  AreScopes(ScopesIn(function, node), node, Len(function.code[node]))
<1> DEFINE n == Len(function.code[node])
           V == Statement \cup {Nothing}
           base == function.scope[node]
           step == [x \in V \X (1 .. n) |-> ScopeAfter(x[1], function.code[node][x[2]], <<node, x[2]>>)]
<1>1. node \in Nodes /\ Code(node) = function.code[node] /\ n \in Nat
  BY ReachableIsClosed, SitesAreStatements DEF Code
<1>2. base \in V
  <2>1. function.scope \in [Nodes -> Statement \cup {Nothing}]
    BY DEF Function
  <2> QED BY <1>1, <2>1
<1> HIDE DEF n, base
<1>3. \A k \in 1 .. n : <<node, k>> \in Statement
  BY <1>1 DEF Statement
<1>4. step \in [V \X (1 .. n) -> V]
  BY <1>3 DEF ScopeAfter
<1>5. \A v \in V, k \in 1 .. n : step[<<v, k>>] = ScopeAfter(v, function.code[node][k], <<node, k>>)
  OBVIOUS
<1> HIDE DEF step, V
<1>6. PICK f : IsRecursion(f, n, V, base, step)
  BY <1>1, <1>2, <1>4, RecursionExists
<1>7. f \in [0 .. n -> V]
  BY <1>6 DEF IsRecursion
<1>8. ASSUME NEW k \in 0 .. n
      PROVE  f[k] = IF k = 0 THEN base
                    ELSE ScopeAfter(f[k - 1], function.code[node][k], <<node, k>>)
  <2>1. CASE k = 0
    BY <1>6, <2>1 DEF IsRecursion
  <2>2. CASE k # 0
    <3>1. k - 1 \in 0 .. n /\ k \in 1 .. n
      BY <1>1, <2>2
    <3>2. f[k - 1] \in V
      BY <1>7, <3>1
    <3>3. f[k] = step[<<f[k - 1], k>>]
      BY <1>6, <2>2 DEF IsRecursion
    <3> QED BY <1>5, <2>2, <3>1, <3>2, <3>3
  <2> QED BY <2>1, <2>2
<1>9. AreScopes(f, node, n)
  BY <1>7, <1>8 DEF AreScopes, base
<1>10. \E g : AreScopes(g, node, n)
  BY <1>9
<1> QED BY <1>10 DEF AreScopes, ScopesIn, n

(* The variable of a register, statement by statement: while there is one, *)
(* only a Close ends it, and only a variable is captured.                  *)
AreScoped(scopes, node) ==
    /\ scopes[0] = function.scope[node]
    /\ \A i \in DOMAIN Code(node) :
          /\ IsCapture(Effect(<<node, i>>)) =>
                /\ Captured(<<node, i>>) = scopes[i] /\ scopes[i] # Nothing
                /\ scopes[i - 1] # Nothing => scopes[i] = scopes[i - 1]
          /\ IsOther(<<node, i>>) /\ scopes[i - 1] # Nothing => scopes[i] = scopes[i - 1]
    /\ \A m \in Successors(node) : function.scope[m] = scopes[Len(Code(node))]

(* In a function whose scopes nest this is so.                             *)
LEMMA ScopesFollow ==
  ASSUME function \in Function, IsLexical(function), NEW node \in Reachable,
         NEW scopes, scopes = ScopesIn(function, node)
  PROVE  AreScoped(scopes, node)
<1> DEFINE n == Len(Code(node))
<1>1. node \in Nodes /\ Code(node) = function.code[node] /\ n \in Nat /\ DOMAIN Code(node) = 1 .. n
  BY ReachableIsClosed, SitesAreStatements DEF Code
<1>2. AreScopes(scopes, node, n)
  BY <1>1, ScopesExist
<1> HIDE DEF n
<1>3. scopes = [i \in 0 .. n |->
                   IF i = 0 THEN function.scope[node]
                   ELSE ScopeAfter(scopes[i - 1], function.code[node][i], <<node, i>>)]
  BY <1>2 DEF AreScopes
<1>4. scopes[0] = function.scope[node]
  BY <1>1, <1>3
<1>5. \A i : ScopeIn(function, node, i) = scopes[i]
  BY DEF ScopeIn
<1>6. /\ \A m \in function.next[node] : function.scope[m] = scopes[n]
      /\ \A i \in 1 .. n :
            /\ function.code[node][i] = "capture" => scopes[i - 1] # Nothing
            /\ IsDeclaration(function.code[node][i]) => scopes[i - 1] = Nothing
  BY <1>1, <1>5 DEF IsLexical, n
<1>7. ASSUME NEW i \in 1 .. n
      PROVE  /\ IsCapture(Effect(<<node, i>>)) =>
                   /\ Captured(<<node, i>>) = scopes[i] /\ scopes[i] # Nothing
                   /\ scopes[i - 1] # Nothing => scopes[i] = scopes[i - 1]
             /\ IsOther(<<node, i>>) /\ scopes[i - 1] # Nothing => scopes[i] = scopes[i - 1]
  <2>1. PICK effect : effect = function.code[node][i]
    OBVIOUS
  <2>2. Effect(<<node, i>>) = effect
    BY <1>1, <2>1 DEF Effect
  <2>3. i \in 0 .. n /\ i # 0
    BY <1>1
  <2>4. scopes[i] = ScopeAfter(scopes[i - 1], effect, <<node, i>>)
    BY <1>3, <2>1, <2>3
  <2>5. /\ effect = "capture" => scopes[i - 1] # Nothing
        /\ effect \in {"declare", "function"} => scopes[i - 1] = Nothing
    BY <1>6, <2>1 DEF IsDeclaration
  <2>6. Captured(<<node, i>>) = scopes[i]
    BY <1>5 DEF Captured
  <2>7. <<node, i>> # Nothing
    BY DEF Nothing
  <2>8. CASE effect = "capture"
    BY <2>2, <2>4, <2>5, <2>6, <2>8 DEF ScopeAfter, IsDeclaration, IsCapture, IsOther
  <2>9. CASE effect = "function"
    BY <2>2, <2>4, <2>5, <2>6, <2>7, <2>9 DEF ScopeAfter, IsDeclaration, IsCapture, IsOther
  <2>10. CASE effect \notin {"capture", "function"}
    BY <2>2, <2>4, <2>5, <2>10 DEF ScopeAfter, IsDeclaration, IsCapture, IsOther
  <2> QED BY <2>8, <2>9, <2>10
<1> QED BY <1>1, <1>4, <1>6, <1>7 DEF AreScoped, Successors, n

(* A capture captures a variable.                                          *)
LEMMA CapturesAreScoped ==
  ASSUME function \in Function, IsLexical(function), NEW s \in Sites
  PROVE  Captured(s) # Nothing
<1>1. PICK node, i : node = s[1] /\ i = s[2]
  OBVIOUS
<1>2. node \in Reachable /\ i \in DOMAIN Code(node) /\ s = <<node, i>> /\ IsCapture(Effect(<<node, i>>))
  BY <1>1, SitesAreStatements
<1>3. PICK scopes : scopes = ScopesIn(function, node)
  OBVIOUS
<1>4. AreScoped(scopes, node)
  BY <1>2, <1>3, ScopesFollow
<1>5. Captured(<<node, i>>) # Nothing
  BY <1>2, <1>4 DEF AreScoped
<1> QED BY <1>2, <1>5

(* The register is attached by a capture of the variable it holds.         *)
IsScoped(open, variable) == open # Unattached => Captured(open) = variable

(* Two captures of one epoch are captures of one variable.                 *)
LEMMA SameIsScoped ==
  ASSUME NEW leaders, EpochsAreScoped(leaders), Unattached \notin Sites, NEW variable,
         NEW s \in Sites \cup {Unattached}, NEW t \in Sites \cup {Unattached},
         SameOpen(leaders, s, t), IsScoped(s, variable)
  PROVE  IsScoped(t, variable)
BY DEF SameOpen, EpochsAreScoped, IsScoped

(* A block that begins with a capture of its variable goes on with         *)
(* captures of the variables its statements find.                          *)
LEMMA LastIsScoped ==
  ASSUME function \in Function, IsLexical(function), NEW node \in Reachable,
         NEW open \in Sites \cup {Unattached}, IsScoped(open, function.scope[node]),
         NEW last, last = LastCaptures(open, node),
         NEW scopes, scopes = ScopesIn(function, node)
  PROVE  \A i \in 0 .. Len(Code(node)) : IsScoped(last[i], scopes[i])
<1> DEFINE n == Len(Code(node))
           T == {k \in 0 .. n : IsScoped(last[k], scopes[k])}
<1>1. n \in Nat /\ DOMAIN Code(node) = 1 .. n
  BY SitesAreStatements
<1>2. AreScoped(scopes, node) /\ AreFollowedBy(last, open, node)
  BY ScopesFollow, LastCapturesFollow
<1>3. \A i \in 0 .. n : last[i] \in Sites \cup {Unattached}
  BY <1>2 DEF AreFollowedBy
<1>4. 0 \in T
  BY <1>1, <1>2 DEF AreScoped, AreFollowedBy
<1>5. ASSUME NEW k \in 0 .. n - 1, k \in T
      PROVE  k + 1 \in T
  <2>1. k + 1 \in DOMAIN Code(node) /\ (k + 1) - 1 = k /\ k + 1 \in 0 .. n /\ k \in 0 .. n
    BY <1>1
  <2>2. CASE IsCapture(Effect(<<node, k + 1>>))
    <3>1. last[k + 1] = <<node, k + 1>> /\ Captured(<<node, k + 1>>) = scopes[k + 1]
      BY <1>2, <2>1, <2>2 DEF AreScoped, AreFollowedBy
    <3> QED BY <2>1, <3>1 DEF IsScoped
  <2>3. CASE Effect(<<node, k + 1>>) = "close"
    <3>1. last[k + 1] = Unattached
      BY <1>2, <2>1, <2>3 DEF AreFollowedBy
    <3> QED BY <2>1, <3>1 DEF IsScoped
  <2>4. CASE IsOther(<<node, k + 1>>)
    <3>1. last[k + 1] = last[k] /\ (scopes[k] # Nothing => scopes[k + 1] = scopes[k])
      BY <1>2, <2>1, <2>4 DEF AreScoped, AreFollowedBy
    <3>2. last[k] # Unattached => Captured(last[k]) # Nothing
      BY <1>3, <2>1, CapturesAreScoped
    <3> QED BY <1>5, <2>1, <3>1, <3>2 DEF IsScoped
  <2> QED BY <2>2, <2>3, <2>4 DEF IsOther
<1> HIDE DEF T
<1>6. \A k \in 0 .. n : k \in T
  BY <1>1, <1>4, <1>5, InductionUpTo
<1> QED BY <1>6 DEF T

(* What is united when a capture attaches the register.                    *)
UnitesOnly(after, before, site) ==
    /\ after.open # Unattached /\ after.leaders[after.open] = after.leaders[site]
    /\ \A s, t \in Sites : after.leaders[s] = after.leaders[t] =>
          \/ before.leaders[s] = before.leaders[t]
          \/ /\ before.open # Unattached
             /\ \E a, b \in {before.open, site} :
                   before.leaders[s] = before.leaders[a] /\ before.leaders[t] = before.leaders[b]

(* It is the epochs of the capture and of the one before.                  *)
LEMMA AttachUnitesOnly ==
  ASSUME function \in Function, NEW state, IsState(state), NEW site \in Sites
  PROVE  UnitesOnly(Attach(state, site), state, site)
BY AttachUnites DEF UnitesOnly

(* The analysis of a block unites captures of one variable only.           *)
LEMMA TransferIsScoped ==
  ASSUME function \in Function, IsLexical(function), NEW node \in Reachable,
         NEW state, IsState(state), EpochsAreScoped(state.leaders),
         IsScoped(state.open, function.scope[node]),
         NEW states, states = StatesIn(state, node)
  PROVE  EpochsAreScoped(states[Len(Code(node))].leaders)
<1> DEFINE n == Len(Code(node))
<1>1. n \in Nat /\ DOMAIN Code(node) = 1 .. n /\ Unattached \notin Sites
  BY SitesAreStatements
<1>2. PICK scopes : scopes = ScopesIn(function, node)
  OBVIOUS
<1>3. AreScoped(scopes, node) /\ AreFollowed(states, state, node)
  BY <1>2, ScopesFollow, StatesFollow
<1>4. \A i \in 0 .. n : IsState(states[i]) /\ states[i].open \in Sites \cup {Unattached}
  BY <1>3 DEF AreFollowed, IsState, State
<1> DEFINE T == {k \in 0 .. n : /\ EpochsAreScoped(states[k].leaders)
                                /\ IsScoped(states[k].open, scopes[k])}
<1>5. 0 \in T
  BY <1>1, <1>3 DEF AreScoped, AreFollowed
<1>6. ASSUME NEW k \in 0 .. n - 1, k \in T
      PROVE  k + 1 \in T
  <2>1. k + 1 \in DOMAIN Code(node) /\ (k + 1) - 1 = k /\ k + 1 \in 0 .. n /\ k \in 0 .. n
    BY <1>1
  <2>2. PICK before, after, site :
           before = states[k] /\ after = states[k + 1] /\ site = <<node, k + 1>>
    OBVIOUS
  <2>3. /\ EpochsAreScoped(before.leaders) /\ IsScoped(before.open, scopes[k]) /\ IsState(before)
        /\ before.open \in Sites \cup {Unattached} /\ after.open \in Sites \cup {Unattached}
        /\ before.open # Unattached => scopes[k] # Nothing
    <3>1. before.open # Unattached => Captured(before.open) # Nothing
      BY <1>4, <2>1, <2>2, CapturesAreScoped
    <3> QED BY <1>4, <1>6, <2>1, <2>2, <3>1 DEF IsScoped
  <2>4. CASE IsCapture(Effect(site))
    <3>1. /\ site \in Sites /\ after = Attach(before, site)
          /\ Captured(site) = scopes[k + 1]
          /\ scopes[k] # Nothing => scopes[k + 1] = scopes[k]
      BY <1>3, <2>1, <2>2, <2>4 DEF AreScoped, AreFollowed
    <3>2. /\ after.open # Unattached /\ after.leaders[after.open] = after.leaders[site]
          /\ \A s, t \in Sites : after.leaders[s] = after.leaders[t] =>
                \/ before.leaders[s] = before.leaders[t]
                \/ /\ before.open # Unattached
                   /\ \E a, b \in {before.open, site} :
                         before.leaders[s] = before.leaders[a] /\ before.leaders[t] = before.leaders[b]
      <4>1. UnitesOnly(Attach(before, site), before, site)
        BY <2>3, <3>1, AttachUnitesOnly
      <4> QED BY <3>1, <4>1 DEF UnitesOnly
    <3>3. before.open # Unattached => Captured(before.open) = Captured(site)
      BY <2>3, <3>1 DEF IsScoped
    <3>4. ASSUME NEW s \in Sites, NEW t \in Sites, after.leaders[s] = after.leaders[t]
          PROVE  Captured(s) = Captured(t)
      <4>1. CASE before.leaders[s] = before.leaders[t]
        BY <2>3, <4>1 DEF EpochsAreScoped
      <4>2. CASE before.leaders[s] # before.leaders[t]
        <5>1. before.open # Unattached /\ before.open \in Sites
          BY <2>3, <3>2, <3>4, <4>2
        <5>2. PICK a \in {before.open, site}, b \in {before.open, site} :
                 before.leaders[s] = before.leaders[a] /\ before.leaders[t] = before.leaders[b]
          BY <3>2, <3>4, <4>2
        <5>3. a \in Sites /\ b \in Sites /\ Captured(a) = Captured(b)
          BY <3>1, <3>3, <5>1
        <5>4. Captured(s) = Captured(a) /\ Captured(t) = Captured(b)
          BY <2>3, <5>2, <5>3 DEF EpochsAreScoped
        <5> QED BY <5>3, <5>4
      <4> QED BY <4>1, <4>2
    <3>5. Captured(after.open) = Captured(site)
      BY <2>3, <3>1, <3>2, <3>4
    <3>6. EpochsAreScoped(after.leaders)
      BY <3>4 DEF EpochsAreScoped
    <3>7. IsScoped(after.open, scopes[k + 1])
      BY <3>1, <3>5 DEF IsScoped
    <3> QED BY <2>1, <2>2, <3>6, <3>7
  <2>5. CASE Effect(site) = "close"
    <3>1. after.leaders = before.leaders /\ after.open = Unattached
      BY <1>3, <2>1, <2>2, <2>5 DEF AreFollowed
    <3> QED BY <2>1, <2>2, <2>3, <3>1 DEF IsScoped
  <2>6. CASE IsOther(site)
    <3>1. after = before /\ (scopes[k] # Nothing => scopes[k + 1] = scopes[k])
      BY <1>3, <2>1, <2>2, <2>6 DEF AreScoped, AreFollowed
    <3> QED BY <2>1, <2>2, <2>3, <3>1 DEF IsScoped
  <2> QED BY <2>4, <2>5, <2>6 DEF IsOther
<1> HIDE DEF T
<1>7. \A k \in 0 .. n : k \in T
  BY <1>1, <1>5, <1>6, InductionUpTo
<1>8. n \in 0 .. n
  BY <1>1
<1> QED BY <1>7, <1>8 DEF T

(* The predecessors of a block that end attached end with the variable it  *)
(* begins with.                                                            *)
LEMMA OpenExitsAreScoped ==
  ASSUME EpochsInvariant, ScopesInvariant, IsLexical(function), NEW node \in Reachable,
         NEW s \in OpenExits(node)
  PROVE  s \in Sites /\ Captured(s) = function.scope[node]
<1>1. /\ AnalysisTypeOK /\ function \in Function /\ Unattached \notin Sites
      /\ EpochsAreScoped(leader)
      /\ \A m \in DOMAIN exits : IsScoped(entries[m], function.scope[m])
  BY TypeIsAnalysisType, SitesAreStatements
     DEF EpochsInvariant, AnalysisTypeOK, ScopesInvariant, IsScoped
<1>2. PICK m \in Predecessors(node) \cap DOMAIN exits : s = exits[m] /\ s # Unattached
  BY DEF OpenExits
<1>3. /\ m \in Reachable /\ node \in Successors(m) /\ BlockAgrees(m)
      /\ entries[m] \in Sites \cup {Unattached} /\ s \in Sites
  BY <1>1, <1>2 DEF AnalysisTypeOK, Predecessors, EpochsInvariant
<1>4. PICK open, last, scopes, n :
         /\ open = entries[m] /\ last = LastIn(m) /\ scopes = ScopesIn(function, m)
         /\ n = Len(Code(m))
  OBVIOUS
<1>5. /\ open \in Sites \cup {Unattached} /\ last = LastCaptures(open, m)
      /\ IsScoped(open, function.scope[m])
  BY <1>1, <1>2, <1>3, <1>4 DEF LastIn
<1>6. \A i \in 0 .. Len(Code(m)) : IsScoped(last[i], scopes[i])
  BY <1>1, <1>3, <1>4, <1>5, LastIsScoped
<1>7. AreFollowedBy(last, open, m) /\ AreScoped(scopes, m) /\ n \in Nat
  BY <1>1, <1>3, <1>4, <1>5, LastCapturesFollow, ScopesFollow, SitesAreStatements
<1>8. n \in 0 .. Len(Code(m))
  BY <1>4, <1>7
<1>9. IsScoped(last[n], scopes[n]) /\ last[n] \in Sites \cup {Unattached}
  BY <1>6, <1>7, <1>8 DEF AreFollowedBy
<1>10. SameOpen(leader, last[n], s)
  BY <1>2, <1>3, <1>4 DEF BlockAgrees
<1>11. IsScoped(s, scopes[n])
  BY <1>1, <1>3, <1>9, <1>10, SameIsScoped
<1>12. function.scope[node] = scopes[n]
  BY <1>3, <1>4, <1>7 DEF AreScoped
<1> QED BY <1>2, <1>3, <1>11, <1>12 DEF IsScoped

(* A join unites captures of one variable only: its predecessors all end   *)
(* with the variable it begins with.                                       *)
LEMMA MergedIsScoped ==
  ASSUME EpochsInvariant, ScopesInvariant, IsLexical(function), NEW node \in Reachable
  PROVE  /\ EpochsAreScoped(Merged(node).leaders)
         /\ IsScoped(Merged(node).open, function.scope[node])
<1>1. PICK merged : merged = Merged(node)
  OBVIOUS
<1>2. /\ AnalysisTypeOK /\ function \in Function /\ Unattached \notin Sites
      /\ EpochsAreScoped(leader)
      /\ \A m \in DOMAIN exits : IsScoped(entries[m], function.scope[m])
  BY TypeIsAnalysisType, SitesAreStatements
     DEF EpochsInvariant, AnalysisTypeOK, ScopesInvariant, IsScoped
<1>3. /\ IsState(merged)
      /\ \A s \in OpenExits(node) : merged.leaders[merged.open] = merged.leaders[s]
      /\ OpenExits(node) \subseteq Sites
      /\ merged.open # Unattached => OpenExits(node) # {}
      /\ \A s, t \in Sites : merged.leaders[s] = merged.leaders[t] =>
            \/ leader[s] = leader[t]
            \/ \E a, b \in OpenExits(node) : leader[s] = leader[a] /\ leader[t] = leader[b]
  BY <1>1, <1>2, MergedUnites
<1>4. \A s \in OpenExits(node) : Captured(s) = function.scope[node]
  BY OpenExitsAreScoped
<1>5. ASSUME NEW s \in Sites, NEW t \in Sites, merged.leaders[s] = merged.leaders[t]
      PROVE  Captured(s) = Captured(t)
  <2>1. CASE leader[s] = leader[t]
    BY <1>2, <2>1 DEF EpochsAreScoped
  <2>2. CASE leader[s] # leader[t]
    <3>1. PICK a \in OpenExits(node), b \in OpenExits(node) :
             leader[s] = leader[a] /\ leader[t] = leader[b]
      BY <1>3, <1>5, <2>2
    <3>2. Captured(s) = Captured(a) /\ Captured(t) = Captured(b)
      BY <1>2, <1>3, <3>1 DEF EpochsAreScoped
    <3> QED BY <1>4, <3>2
  <2> QED BY <2>1, <2>2
<1>6. IsScoped(merged.open, function.scope[node])
  <2> SUFFICES ASSUME merged.open # Unattached
               PROVE  Captured(merged.open) = function.scope[node]
    BY DEF IsScoped
  <2>1. PICK s \in OpenExits(node) : merged.leaders[merged.open] = merged.leaders[s]
    BY <1>3
  <2>2. merged.open \in Sites
    BY <1>3 DEF IsState, State
  <2>3. Captured(merged.open) = Captured(s)
    BY <1>3, <1>5, <2>1, <2>2
  <2> QED BY <1>4, <2>3
<1> QED BY <1>1, <1>5, <1>6 DEF EpochsAreScoped

(* Only the processing of a block changes what the invariant speaks of.    *)
LEMMA ScopesNext ==
  ASSUME EpochsInvariant, ScopesInvariant, [Next]_vars
  PROVE  ScopesInvariant'
<1>1. function' = function
  BY DEF Next, Analyse, ProcessBlock, EndAnalysis, Validate, Materialize, Execute, Jump,
         vars, analysisVars
<1>2. Sites' = Sites /\ \A s : Captured(s)' = Captured(s)
  <2>1. Sites' = Sites
    BY <1>1, SameFunction
  <2> QED BY <1>1, <2>1 DEF Captured
<1>3. CASE UNCHANGED <<leader, entries, exits>>
  BY <1>1, <1>2, <1>3 DEF ScopesInvariant, EpochsAreScoped
<1>4. CASE ProcessBlock
  <2> SUFFICES ASSUME IsLexical(function)
               PROVE  /\ EpochsAreScoped(leader')
                      /\ \A m \in DOMAIN exits' : IsScoped(entries'[m], function.scope[m])
    BY <1>1, <1>2 DEF ScopesInvariant, EpochsAreScoped, IsScoped
  <2>1. /\ AnalysisTypeOK /\ function \in Function /\ Unattached \notin Sites
        /\ worklist \in Seq(Reachable) /\ worklist # <<>>
        /\ \A m \in DOMAIN exits : IsScoped(entries[m], function.scope[m])
    BY <1>4, TypeIsAnalysisType, SitesAreStatements
       DEF EpochsInvariant, AnalysisTypeOK, ProcessBlock, ScopesInvariant, IsScoped
  <2>2. PICK node, incoming, states, later, ends, open, replaced :
           /\ node = Head(worklist) /\ incoming = Merged(node) /\ states = StatesIn(incoming, node)
           /\ ends = states[Len(Code(node))] /\ later = ends.leaders
           /\ open = incoming.open /\ replaced = entries'
    OBVIOUS
  <2>3. /\ leader' = later /\ replaced = Replaced(entries, node, later, open)
        /\ exits' = Replaced(exits, node, later, ends.open)
    BY <1>4, <2>2 DEF ProcessBlock, AfterBlock
  <2>4. node \in Reachable
    BY <2>1, <2>2, HeadAndTail
  <2>5. /\ IsState(incoming) /\ EpochsAreScoped(incoming.leaders)
        /\ IsScoped(incoming.open, function.scope[node])
    BY <2>1, <2>2, <2>4, MergedUnites, MergedIsScoped
  <2>6. EpochsAreScoped(later)
    BY <2>1, <2>2, <2>4, <2>5, TransferIsScoped
  <2>7. IsReplaced(replaced, entries, node, later, open)
    BY <2>3, ReplacedReplaces
  <2>8. PICK ending, final : ending = exits' /\ final = ends.open
    OBVIOUS
  <2>9. IsReplaced(ending, exits, node, later, final)
    <3>1. ending = Replaced(exits, node, later, final)
      BY <2>3, <2>8
    <3> QED BY <3>1, ReplacedReplaces
  <2>10. DOMAIN entries = DOMAIN exits
    BY DEF EpochsInvariant, TypeOK
  <2>11. IsScoped(replaced[node], function.scope[node])
    <3>1. /\ replaced[node] = open \/ (node \in DOMAIN entries /\ replaced[node] = entries[node])
          /\ SameOpen(later, open, replaced[node])
      BY <2>7, SameIsTransitive DEF IsReplaced
    <3>2. open \in Sites \cup {Unattached} /\ replaced[node] \in Sites \cup {Unattached}
      BY <2>1, <2>2, <2>5, <2>10, <3>1 DEF IsState, State, AnalysisTypeOK
    <3>3. IsScoped(open, function.scope[node])
      BY <2>2, <2>5
    <3> QED BY <2>1, <2>6, <3>1, <3>2, <3>3, SameIsScoped
  <2>12. ASSUME NEW m \in DOMAIN ending
         PROVE  IsScoped(replaced[m], function.scope[m])
    <3>1. CASE m = node
      BY <2>11, <3>1
    <3>2. CASE m # node
      <4>1. m \in DOMAIN exits /\ replaced[m] = entries[m]
        BY <2>7, <2>9, <2>10, <2>12, <3>2 DEF IsReplaced
      <4> QED BY <2>1, <4>1
    <3> QED BY <3>1, <3>2
  <2> QED BY <2>2, <2>3, <2>6, <2>8, <2>12
<1>5. CASE ~ ProcessBlock
  <2>1. UNCHANGED <<leader, entries, exits>>
    BY <1>5 DEF Next, Analyse, EndAnalysis, Validate, Materialize, Execute, Jump, vars, analysisVars
  <2> QED BY <1>3, <2>1
<1> QED BY <1>4, <1>5

(* In a function whose scopes nest, the captures of an epoch are captures  *)
(* of one variable, and a block begins with one of the variable it begins  *)
(* with: ScopesInvariant always holds.                                     *)
THEOREM ScopesInvariantHolds == Spec => []ScopesInvariant
<1>1. Init => ScopesInvariant
  <2> SUFFICES ASSUME Init
               PROVE  ScopesInvariant
    OBVIOUS
  <2>1. DOMAIN exits = {} /\ \A s \in Sites : leader[s] = s
    BY DEF Init
  <2> QED BY <2>1 DEF ScopesInvariant, EpochsAreScoped
<1>2. EpochsInvariant /\ ScopesInvariant /\ [Next]_vars => ScopesInvariant'
  BY ScopesNext
<1> QED BY <1>1, <1>2, EpochsInvariantHolds, PTL DEF Spec

(* In a function whose scopes nest, a statement that is found to be open   *)
(* holds the variable that is captured: no epoch runs from one variable of *)
(* the register into the next.                                             *)
THEOREM EpochsAreVariables == Spec => []EpochIsOneVariable
<1>1. EpochsInvariant /\ ScopesInvariant => EpochIsOneVariable
  <2> SUFFICES ASSUME EpochsInvariant, ScopesInvariant, pc = "run", IsLexical(function),
                      NEW node \in Reachable, NEW i \in DOMAIN Code(node),
                      NEW site, site = opening[node][i], site # Unattached
               PROVE  /\ ScopeIn(function, node, i) # Nothing
                      /\ ScopeIn(function, node, i) = ScopeIn(function, site[1], site[2])
    BY DEF EpochIsOneVariable
  <2>1. /\ function \in Function /\ IsForest(leader) /\ Unattached \notin Sites
        /\ node \in DOMAIN exits /\ entries[node] \in Sites \cup {Unattached}
    BY AllAgree
  <2>2. PICK open, last, scopes :
           open = entries[node] /\ last = LastIn(node) /\ scopes = ScopesIn(function, node)
    OBVIOUS
  <2>3. /\ open \in Sites \cup {Unattached} /\ last = LastCaptures(open, node)
        /\ IsScoped(open, function.scope[node])
    BY <2>1, <2>2 DEF LastIn, ScopesInvariant, IsScoped
  <2>4. \A k \in 0 .. Len(Code(node)) : IsScoped(last[k], scopes[k])
    BY <2>1, <2>2, <2>3, LastIsScoped
  <2>5. AreFollowedBy(last, open, node)
    BY <2>1, <2>3, LastCapturesFollow
  <2>6. i \in 0 .. Len(Code(node))
    BY <2>1, SitesAreStatements
  <2>7. IsScoped(last[i], scopes[i]) /\ last[i] \in Sites \cup {Unattached}
    BY <2>4, <2>5, <2>6 DEF AreFollowedBy
  <2>8. site = EpochOf(last[i])
    BY <2>2 DEF EpochsInvariant, OpeningAgrees
  <2>9. last[i] \in Sites /\ site = leader[last[i]] /\ Captured(last[i]) = scopes[i]
    BY <2>7, <2>8 DEF EpochOf, IsScoped
  <2>10. site \in Sites /\ leader[site] = leader[last[i]]
    BY <2>1, <2>9 DEF IsForest
  <2>11. Captured(site) = Captured(last[i])
    BY <2>9, <2>10 DEF ScopesInvariant, EpochsAreScoped
  <2>12. Captured(site) # Nothing
    BY <2>1, <2>10, CapturesAreScoped
  <2>13. ScopeIn(function, node, i) = scopes[i]
    BY <2>2 DEF ScopeIn
  <2> QED BY <2>9, <2>11, <2>12, <2>13 DEF Captured
<1> QED BY <1>1, EpochsInvariantHolds, ScopesInvariantHolds, PTL

-----------------------------------------------------------------------------
(* What may be said of an epoch behind a block.                            *)

Flags == {"live", "detached"}

AreBehind(behind, epoch, flags, node, n) ==
    behind = [i \in 0 .. n |->
                 IF i = 0 THEN flags ELSE FlagsAfter(epoch, behind[i - 1], <<node, i>>)]

(* FlagsIn solves its equation.                                            *)
LEMMA FlagsExist ==
  ASSUME function \in Function, NEW epoch, NEW flags \in SUBSET Flags, NEW node \in Reachable
  PROVE  AreBehind(FlagsIn(epoch, flags, node), epoch, flags, node, Len(Code(node)))
<1> DEFINE n == Len(Code(node))
           V == SUBSET Flags
           step == [x \in V \X (1 .. n) |-> FlagsAfter(epoch, x[1], <<node, x[2]>>)]
<1>1. n \in Nat
  BY SitesAreStatements
<1> HIDE DEF n
<1>2. \A v \in V, k \in 1 .. n : FlagsAfter(epoch, v, <<node, k>>) \in V
  BY DEF FlagsAfter, Flags, IsCapture
<1>3. step \in [V \X (1 .. n) -> V]
  BY <1>2
<1>4. \A v \in V, k \in 1 .. n : step[<<v, k>>] = FlagsAfter(epoch, v, <<node, k>>)
  OBVIOUS
<1> HIDE DEF step, V
<1>5. flags \in V
  BY DEF V
<1>6. PICK f : IsRecursion(f, n, V, flags, step)
  BY <1>1, <1>3, <1>5, RecursionExists
<1>7. f \in [0 .. n -> V]
  BY <1>6 DEF IsRecursion
<1>8. ASSUME NEW k \in 0 .. n
      PROVE  f[k] = IF k = 0 THEN flags ELSE FlagsAfter(epoch, f[k - 1], <<node, k>>)
  <2>1. CASE k = 0
    BY <1>6, <2>1 DEF IsRecursion
  <2>2. CASE k # 0
    <3>1. k - 1 \in 0 .. n /\ k \in 1 .. n
      BY <1>1, <2>2
    <3>2. f[k - 1] \in V
      BY <1>7, <3>1
    <3>3. f[k] = step[<<f[k - 1], k>>]
      BY <1>6, <2>2 DEF IsRecursion
    <3> QED BY <1>4, <2>2, <3>1, <3>2, <3>3
  <2> QED BY <2>1, <2>2
<1>9. AreBehind(f, epoch, flags, node, n)
  BY <1>7, <1>8 DEF AreBehind
<1>10. \E g : AreBehind(g, epoch, flags, node, n)
  BY <1>9
<1> QED BY <1>10 DEF AreBehind, FlagsIn, n

(* The flags of a block, statement by statement.                           *)
AreFlagged(behind, epoch, flags, node) ==
    /\ behind[0] = flags
    /\ \A i \in 0 .. Len(Code(node)) : behind[i] \in SUBSET Flags
    /\ \A i \in DOMAIN Code(node) :
          /\ IsCapture(Effect(<<node, i>>)) /\ leader[<<node, i>>] # epoch => behind[i] = {}
          /\ IsCapture(Effect(<<node, i>>)) /\ leader[<<node, i>>] = epoch =>
                /\ <<node, i>> = epoch => behind[i] = {"live"}
                /\ <<node, i>> # epoch => behind[i] = (behind[i - 1] \cap {"detached"}) \cup {"live"}
          /\ Effect(<<node, i>>) = "close" =>
                /\ "live" \in behind[i - 1] => behind[i] = {"detached"}
                /\ "live" \notin behind[i - 1] => behind[i] = behind[i - 1]
          /\ IsOther(<<node, i>>) => behind[i] = behind[i - 1]

(* FlagsIn answers them.                                                   *)
LEMMA FlagsFollow ==
  ASSUME function \in Function, NEW epoch, NEW flags \in SUBSET Flags, NEW node \in Reachable,
         NEW behind, behind = FlagsIn(epoch, flags, node)
  PROVE  AreFlagged(behind, epoch, flags, node)
<1> DEFINE n == Len(Code(node))
           T == {k \in 0 .. n : behind[k] \in SUBSET Flags}
<1>1. n \in Nat /\ DOMAIN Code(node) = 1 .. n
  BY SitesAreStatements
<1>2. AreBehind(behind, epoch, flags, node, n)
  BY FlagsExist
<1> HIDE DEF n
<1>3. behind = [i \in 0 .. n |->
                   IF i = 0 THEN flags ELSE FlagsAfter(epoch, behind[i - 1], <<node, i>>)]
  BY <1>2 DEF AreBehind
<1>4. behind[0] = flags
  BY <1>1, <1>3
<1>5. ASSUME NEW i \in 1 .. n
      PROVE  behind[i] = FlagsAfter(epoch, behind[i - 1], <<node, i>>)
  <2>1. i \in 0 .. n /\ i # 0
    BY <1>1
  <2> QED BY <1>3, <2>1
<1>6. 0 \in T
  BY <1>1, <1>4
<1>7. ASSUME NEW k \in 0 .. n - 1, k \in T
      PROVE  k + 1 \in T
  <2>1. k + 1 \in 1 .. n /\ (k + 1) - 1 = k /\ k + 1 \in 0 .. n
    BY <1>1
  <2>2. behind[k + 1] = FlagsAfter(epoch, behind[k], <<node, k + 1>>)
    BY <1>5, <2>1
  <2>3. behind[k] \in SUBSET Flags
    BY <1>7
  <2>4. behind[k + 1] \in SUBSET Flags
    BY <2>2, <2>3 DEF FlagsAfter, Flags, IsCapture
  <2> QED BY <2>1, <2>4
<1> HIDE DEF T
<1>8. \A k \in 0 .. n : k \in T
  BY <1>1, <1>6, <1>7, InductionUpTo
<1>9. \A i \in 0 .. n : behind[i] \in SUBSET Flags
  BY <1>8 DEF T
<1>10. ASSUME NEW i \in 1 .. n
       PROVE  /\ IsCapture(Effect(<<node, i>>)) /\ leader[<<node, i>>] # epoch => behind[i] = {}
              /\ IsCapture(Effect(<<node, i>>)) /\ leader[<<node, i>>] = epoch =>
                    /\ <<node, i>> = epoch => behind[i] = {"live"}
                    /\ <<node, i>> # epoch => behind[i] = (behind[i - 1] \cap {"detached"}) \cup {"live"}
              /\ Effect(<<node, i>>) = "close" =>
                    /\ "live" \in behind[i - 1] => behind[i] = {"detached"}
                    /\ "live" \notin behind[i - 1] => behind[i] = behind[i - 1]
              /\ IsOther(<<node, i>>) => behind[i] = behind[i - 1]
  <2>1. behind[i] = FlagsAfter(epoch, behind[i - 1], <<node, i>>)
    BY <1>5
  <2> QED BY <2>1 DEF FlagsAfter, IsCapture, IsOther
<1> QED BY <1>1, <1>4, <1>9, <1>10 DEF AreFlagged, n

ArePasses(passes, epoch, n) ==
    passes = [k \in 0 .. n |-> IF k = 0 THEN [m \in Nodes |-> {}] ELSE Round(epoch, passes[k - 1])]

(* A round answers flags.                                                  *)
LEMMA RoundIsFlagged ==
  ASSUME function \in Function, NEW epoch, NEW pass \in [Nodes -> SUBSET Flags]
  PROVE  /\ Round(epoch, pass) \in [Nodes -> SUBSET Flags]
         /\ \A m \in Nodes : UNION {pass[k] : k \in Predecessors(m)} \in SUBSET Flags
<1>1. \A m \in Nodes : UNION {pass[k] : k \in Predecessors(m)} \in SUBSET Flags
  BY DEF Predecessors
<1>2. ASSUME NEW m \in Nodes, m \in Reachable
      PROVE  FlagsIn(epoch, UNION {pass[k] : k \in Predecessors(m)}, m)[Len(Code(m))] \in SUBSET Flags
  <2>1. PICK flags, behind : /\ flags = UNION {pass[k] : k \in Predecessors(m)}
                             /\ behind = FlagsIn(epoch, flags, m)
    OBVIOUS
  <2>2. flags \in SUBSET Flags
    BY <1>1, <2>1
  <2>3. AreFlagged(behind, epoch, flags, m)
    BY <1>2, <2>1, <2>2, FlagsFollow
  <2>4. Len(Code(m)) \in Nat
    BY <1>2, SitesAreStatements
  <2>5. Len(Code(m)) \in 0 .. Len(Code(m))
    BY <2>4
  <2> QED BY <2>1, <2>3, <2>5 DEF AreFlagged
<1> QED BY <1>1, <1>2 DEF Round

(* Passes goes from round to round.                                        *)
LEMMA PassesFollow ==
  ASSUME function \in Function, NEW epoch, NEW passes, passes = Passes(epoch),
         NEW n, n = 2 * Cardinality(Nodes) + 1
  PROVE  /\ n \in Nat
         /\ \A m \in Nodes : passes[0][m] = {}
         /\ \A k \in 0 .. n : passes[k] \in [Nodes -> SUBSET Flags]
         /\ \A k \in 0 .. n - 1 : passes[k + 1] = Round(epoch, passes[k])
<1> DEFINE V == [Nodes -> SUBSET Flags]
           none == [m \in Nodes |-> {}]
           step == [x \in V \X (1 .. n) |-> Round(epoch, x[1])]
<1>1. n \in Nat
  <2>1. Cardinality(Nodes) \in Nat
    BY FunctionsAssumption, FS_CardinalityType
  <2> QED BY <2>1
<1>2. \A v \in V : Round(epoch, v) \in V
  BY RoundIsFlagged
<1>3. none \in V
  OBVIOUS
<1>4. step \in [V \X (1 .. n) -> V]
  BY <1>2
<1>5. \A v \in V, k \in 1 .. n : step[<<v, k>>] = Round(epoch, v)
  OBVIOUS
<1> HIDE DEF step, V, none
<1>6. PICK f : IsRecursion(f, n, V, none, step)
  BY <1>1, <1>3, <1>4, RecursionExists
<1>7. f \in [0 .. n -> V]
  BY <1>6 DEF IsRecursion
<1>8. ASSUME NEW k \in 0 .. n
      PROVE  f[k] = IF k = 0 THEN none ELSE Round(epoch, f[k - 1])
  <2>1. CASE k = 0
    BY <1>6, <2>1 DEF IsRecursion
  <2>2. CASE k # 0
    <3>1. k - 1 \in 0 .. n /\ k \in 1 .. n
      BY <1>1, <2>2
    <3>2. f[k - 1] \in V
      BY <1>7, <3>1
    <3>3. f[k] = step[<<f[k - 1], k>>]
      BY <1>6, <2>2 DEF IsRecursion
    <3> QED BY <1>5, <2>2, <3>1, <3>2, <3>3
  <2> QED BY <2>1, <2>2
<1>9. f = [k \in 0 .. n |-> IF k = 0 THEN none ELSE Round(epoch, f[k - 1])]
  BY <1>7, <1>8
<1>10. ArePasses(f, epoch, n)
  BY <1>9 DEF ArePasses, none
<1>11. \E g : ArePasses(g, epoch, n)
  BY <1>10
<1>12. ArePasses(passes, epoch, n)
  BY <1>11 DEF ArePasses, Passes
<1>13. passes = [k \in 0 .. n |-> IF k = 0 THEN none ELSE Round(epoch, passes[k - 1])]
  BY <1>12 DEF ArePasses, none
<1>14. passes[0] = none
  BY <1>1, <1>13
<1>15. ASSUME NEW k \in 0 .. n - 1
       PROVE  passes[k + 1] = Round(epoch, passes[k])
  <2>1. k + 1 \in 0 .. n /\ k + 1 # 0 /\ (k + 1) - 1 = k
    BY <1>1
  <2> QED BY <1>13, <2>1
<1> DEFINE T == {k \in 0 .. n : passes[k] \in V}
<1>16. 0 \in T
  BY <1>1, <1>3, <1>14
<1>17. ASSUME NEW k \in 0 .. n - 1, k \in T
       PROVE  k + 1 \in T
  <2>1. k + 1 \in 0 .. n
    BY <1>1
  <2> QED BY <1>2, <1>15, <1>17, <2>1
<1> HIDE DEF T
<1>18. \A k \in 0 .. n : k \in T
  BY <1>1, <1>16, <1>17, InductionUpTo
<1> QED BY <1>1, <1>14, <1>15, <1>18 DEF T, V, none

-----------------------------------------------------------------------------
(* What a compiler emits is accepted.                                      *)

(* The variable of a register, statement by statement, in every function.  *)
AreDeclared(scopes, node) ==
    /\ scopes[0] = function.scope[node]
    /\ \A i \in DOMAIN Code(node) :
          /\ Effect(<<node, i>>) = "close" => scopes[i] = Nothing
          /\ IsDeclaration(Effect(<<node, i>>)) => scopes[i] = <<node, i>>
          /\ Effect(<<node, i>>) # "close" /\ ~ IsDeclaration(Effect(<<node, i>>)) =>
                scopes[i] = scopes[i - 1]

(* It is the one the last declaration or Close says.                       *)
LEMMA ScopesAreDeclared ==
  ASSUME function \in Function, NEW node \in Reachable,
         NEW scopes, scopes = ScopesIn(function, node)
  PROVE  AreDeclared(scopes, node)
<1> DEFINE n == Len(Code(node))
<1>1. node \in Nodes /\ Code(node) = function.code[node] /\ n \in Nat /\ DOMAIN Code(node) = 1 .. n
  BY ReachableIsClosed, SitesAreStatements DEF Code
<1>2. AreScopes(scopes, node, n)
  BY <1>1, ScopesExist
<1> HIDE DEF n
<1>3. scopes = [i \in 0 .. n |->
                   IF i = 0 THEN function.scope[node]
                   ELSE ScopeAfter(scopes[i - 1], function.code[node][i], <<node, i>>)]
  BY <1>2 DEF AreScopes
<1>4. scopes[0] = function.scope[node]
  BY <1>1, <1>3
<1>5. ASSUME NEW i \in 1 .. n
      PROVE  /\ Effect(<<node, i>>) = "close" => scopes[i] = Nothing
             /\ IsDeclaration(Effect(<<node, i>>)) => scopes[i] = <<node, i>>
             /\ Effect(<<node, i>>) # "close" /\ ~ IsDeclaration(Effect(<<node, i>>)) =>
                   scopes[i] = scopes[i - 1]
  <2>1. PICK effect : effect = function.code[node][i]
    OBVIOUS
  <2>2. Effect(<<node, i>>) = effect
    BY <1>1, <2>1 DEF Effect
  <2>3. i \in 0 .. n /\ i # 0
    BY <1>1
  <2>4. scopes[i] = ScopeAfter(scopes[i - 1], effect, <<node, i>>)
    BY <1>3, <2>1, <2>3
  <2> QED BY <2>2, <2>4 DEF ScopeAfter, IsDeclaration
<1> QED BY <1>1, <1>4, <1>5 DEF AreDeclared, n

(* A block that does not begin with a variable does not hold it before it  *)
(* declares it.                                                            *)
LEMMA UndeclaredIsNotHeld ==
  ASSUME function \in Function, NEW node \in Reachable,
         NEW scopes, scopes = ScopesIn(function, node),
         NEW v, v # Nothing, function.scope[node] # v,
         NEW k \in 0 .. Len(Code(node)), \A j \in 1 .. k : <<node, j>> # v
  PROVE  scopes[k] # v
<1> DEFINE T == {j \in 0 .. k : scopes[j] # v}
<1>1. AreDeclared(scopes, node)
  BY ScopesAreDeclared
<1>2. k \in Nat /\ Len(Code(node)) \in Nat /\ DOMAIN Code(node) = 1 .. Len(Code(node))
  BY SitesAreStatements
<1>3. 0 \in T
  BY <1>1, <1>2 DEF AreDeclared
<1>4. ASSUME NEW j \in 0 .. k - 1, j \in T
      PROVE  j + 1 \in T
  <2>1. j + 1 \in DOMAIN Code(node) /\ j + 1 \in 1 .. k /\ (j + 1) - 1 = j /\ j + 1 \in 0 .. k
    BY <1>2
  <2>2. scopes[j + 1] \in {Nothing, <<node, j + 1>>, scopes[j]}
    BY <1>1, <2>1 DEF AreDeclared
  <2> QED BY <1>4, <2>1, <2>2
<1> HIDE DEF T
<1>5. \A j \in 0 .. k : j \in T
  BY <1>2, <1>3, <1>4, InductionUpTo
<1>6. k \in 0 .. k
  BY <1>2
<1> QED BY <1>5, <1>6 DEF T

(* No block that is reached around the one that declares a variable begins *)
(* with it.                                                                *)
LEMMA AroundIsNotHeld ==
  ASSUME function \in Function, IsLexical(function), NEW dn \in Reachable,
         NEW di \in DOMAIN Code(dn),
         NEW m \in ReachedFrom({Entry}, Nodes \ {dn})
  PROVE  function.scope[m] # <<dn, di>>
<1> DEFINE v == <<dn, di>>
           T == {k \in Reachable : function.scope[k] # v}
<1>1. {Entry} \in SUBSET Nodes /\ Nodes \ {dn} \in SUBSET Nodes
  BY FunctionsAssumption
<1>2. v # Nothing
  BY DEF Nothing
<1>3. {Entry} \subseteq T
  <2>1. Len(Code(dn)) \in Nat /\ DOMAIN Code(dn) = 1 .. Len(Code(dn))
    BY SitesAreStatements
  <2>2. di # 0
    BY <2>1
  <2>3. function.scope[Entry] \in {Nothing, <<Entry, 0>>}
    BY DEF IsLexical
  <2>4. function.scope[Entry] # v
    BY <1>2, <2>2, <2>3
  <2> QED BY <2>4, ReachableIsClosed
<1>4. ASSUME NEW k \in T \cap (Nodes \ {dn}), NEW l \in Successors(k)
      PROVE  l \in T
  <2>1. k \in Reachable /\ k # dn /\ function.scope[k] # v
    BY <1>4
  <2>2. PICK scopes, n : scopes = ScopesIn(function, k) /\ n = Len(Code(k))
    OBVIOUS
  <2>3. AreScoped(scopes, k) /\ n \in 0 .. Len(Code(k))
    BY <2>1, <2>2, ScopesFollow, SitesAreStatements
  <2>4. \A j \in 1 .. n : <<k, j>> # v
    BY <2>1
  <2>5. scopes[n] # v
    <3> HIDE DEF v
    <3> QED BY <1>2, <2>1, <2>2, <2>3, <2>4, UndeclaredIsNotHeld
  <2>6. function.scope[l] = scopes[n]
    BY <1>4, <2>2, <2>3 DEF AreScoped
  <2>7. l \in Reachable
    BY <1>4, <2>1, ReachableIsClosed
  <2> QED BY <2>5, <2>6, <2>7
<1>5. \A k \in T \cap (Nodes \ {dn}) : Successors(k) \subseteq T
  BY <1>4
<1>6. ReachedFrom({Entry}, Nodes \ {dn}) \subseteq T
  <2> HIDE DEF T
  <2> QED BY <1>1, <1>3, <1>5, ReachedIsLeast
<1> QED BY <1>6

(* The block is reached around the capture: it is not dominated by it.     *)
IsAround(site, m) ==
    m # site[1] /\ site[1] # Entry /\ m \in ReachedFrom({Entry}, Nodes \ {site[1]})

(* So is the statement, or it is in the block of the capture, before it.   *)
IsBefore(site, m, i) == (m = site[1] /\ i < site[2]) \/ IsAround(site, m)

(* A capture does not dominate the declaration of the variable it captures.*)
LEMMA DeclaredIsBefore ==
  ASSUME function \in Function, IsLexical(function), NEW e \in Sites, NEW dn \in Reachable,
         NEW di \in DOMAIN Code(dn), Captured(e) = <<dn, di>>, e # <<dn, di>>
  PROVE  IsBefore(e, dn, di)
<1>1. PICK en, ei, v, scopes :
         en = e[1] /\ ei = e[2] /\ v = <<dn, di>> /\ scopes = ScopesIn(function, en)
  OBVIOUS
<1>2. en \in Reachable /\ ei \in DOMAIN Code(en) /\ e = <<en, ei>> /\ v # Nothing
  BY <1>1, SitesAreStatements DEF Nothing
<1>3. scopes[ei] = v
  BY <1>1 DEF Captured, ScopeIn
<1>4. /\ Len(Code(en)) \in Nat /\ DOMAIN Code(en) = 1 .. Len(Code(en))
      /\ Len(Code(dn)) \in Nat /\ DOMAIN Code(dn) = 1 .. Len(Code(dn))
  BY <1>2, SitesAreStatements
<1>5. ei \in 0 .. Len(Code(en)) /\ ei \in Nat /\ di \in Nat
  BY <1>2, <1>4
<1>6. ASSUME \A j \in 1 .. ei : <<en, j>> # v
      PROVE  function.scope[en] = v
  BY <1>1, <1>2, <1>3, <1>5, <1>6, UndeclaredIsNotHeld
<1>7. en \in ReachedFrom({Entry}, Nodes \ {dn}) => function.scope[en] # v
  BY <1>1, AroundIsNotHeld
<1>8. CASE dn = en
  <2>1. function.scope[en] # v
    BY <1>2, <1>7, <1>8, OneIsReachedFirst
  <2>2. PICK j \in 1 .. ei : <<en, j>> = v
    BY <1>6, <2>1
  <2>3. di \in 1 .. ei /\ di # ei
    BY <1>1, <1>2, <1>8, <2>2
  <2>4. di < ei
    BY <1>5, <2>3
  <2> QED BY <1>1, <1>8, <2>4 DEF IsBefore
<1>9. CASE dn # en
  <2>1. en \notin ReachedFrom({Entry}, Nodes \ {dn})
    BY <1>1, <1>6, <1>7, <1>9
  <2>2. dn \in ReachedFrom({Entry}, Nodes \ {en})
    BY <1>2, <2>1, OneIsReachedFirst
  <2>3. en # Entry
    <3>1. {Entry} \in SUBSET Nodes /\ {Entry} # {} /\ Nodes \ {dn} \in SUBSET Nodes
      BY FunctionsAssumption
    <3>2. {Entry} \subseteq ReachedFrom({Entry}, Nodes \ {dn})
      BY <3>1, ReachedIsClosed
    <3> QED BY <2>1, <3>2
  <2> QED BY <1>1, <1>9, <2>2, <2>3 DEF IsBefore, IsAround
<1> QED BY <1>8, <1>9

(* What is said of an epoch is true at the end of the blocks: one that may *)
(* be live is the one the register is attached by, and where one may have  *)
(* been detached while its variable is held, its capture does not dominate.*)
IsTold(e, pass) ==
    \A m \in Nodes :
       /\ pass[m] # {} => m \in Reachable
       /\ "live" \in pass[m] => m \in DOMAIN exits /\ EpochOf(exits[m]) = e
       /\ "detached" \in pass[m] /\ ScopeIn(function, m, Len(Code(m))) = Captured(e) => IsAround(e, m)

(* So it is in front of a block, and behind each of its statements.        *)
IsToldOf(e, m, flags, last, scope, i) ==
    /\ "live" \in flags => EpochOf(last) = e
    /\ "detached" \in flags /\ scope = Captured(e) => IsBefore(e, m, i)

(* It is, in front of a block.                                             *)
LEMMA BlockIsTold ==
  ASSUME EpochsInvariant, pc # "analyse", IsLexical(function), NEW e \in Sites,
         NEW pass \in [Nodes -> SUBSET Flags], IsTold(e, pass), NEW m \in Reachable,
         NEW flags, flags = UNION {pass[k] : k \in Predecessors(m)}
  PROVE  IsToldOf(e, m, flags, entries[m], function.scope[m], 0)
<1>1. /\ function \in Function /\ Unattached \notin Sites
      /\ \A node \in Reachable : /\ node \in DOMAIN exits /\ JoinAgrees(node)
                                 /\ entries[node] \in Sites \cup {Unattached}
                                 /\ exits[node] \in Sites \cup {Unattached}
  BY AllAgree
<1>2. e \in Nat \X Nat /\ e[2] \in DOMAIN Code(e[1]) /\ e[1] \in Reachable
  BY <1>1, SitesAreStatements
<1>3. 0 < e[2]
  <2>1. Len(Code(e[1])) \in Nat /\ DOMAIN Code(e[1]) = 1 .. Len(Code(e[1]))
    BY <1>1, <1>2, SitesAreStatements
  <2> QED BY <1>2, <2>1
<1>4. ASSUME "live" \in flags
      PROVE  EpochOf(entries[m]) = e
  <2>1. PICK k \in Predecessors(m) : "live" \in pass[k]
    BY <1>4
  <2>2. k \in Nodes /\ k \in Reachable /\ EpochOf(exits[k]) = e
    BY <2>1 DEF IsTold, Predecessors
  <2>3. exits[k] # Unattached /\ leader[exits[k]] = e
    BY <1>1, <2>2 DEF EpochOf
  <2>4. entries[m] # Unattached /\ leader[entries[m]] = leader[exits[k]]
    BY <1>1, <2>1, <2>2, <2>3 DEF JoinAgrees
  <2> QED BY <2>3, <2>4 DEF EpochOf
<1>5. ASSUME "detached" \in flags, function.scope[m] = Captured(e)
      PROVE  IsBefore(e, m, 0)
  <2>1. PICK k \in Predecessors(m) : "detached" \in pass[k]
    BY <1>5
  <2>2. k \in Nodes /\ k \in Reachable /\ m \in Successors(k)
    BY <2>1 DEF IsTold, Predecessors
  <2>3. PICK scopes : scopes = ScopesIn(function, k)
    OBVIOUS
  <2>4. function.scope[m] = scopes[Len(Code(k))]
    BY <1>1, <2>2, <2>3, ScopesFollow DEF AreScoped
  <2>5. ScopeIn(function, k, Len(Code(k))) = Captured(e)
    BY <1>5, <2>3, <2>4 DEF ScopeIn
  <2>6. k # e[1] /\ e[1] # Entry /\ k \in ReachedFrom({Entry}, Nodes \ {e[1]})
    BY <2>1, <2>2, <2>5 DEF IsTold, IsAround
  <2>7. {Entry} \in SUBSET Nodes /\ {Entry} # {} /\ Nodes \ {e[1]} \in SUBSET Nodes
    BY FunctionsAssumption
  <2>8. m \in ReachedFrom({Entry}, Nodes \ {e[1]})
    BY <1>1, <2>2, <2>6, <2>7, ReachedIsClosed
  <2> QED BY <1>3, <2>6, <2>8 DEF IsBefore, IsAround
<1> QED BY <1>4, <1>5 DEF IsToldOf

(* It stays so from statement to statement.                                *)
LEMMA StatementsAreTold ==
  ASSUME EpochsInvariant, pc # "analyse", IsLexical(function),
         NEW e \in Sites, leader[e] = e, NEW m \in Reachable,
         NEW flags \in SUBSET Flags, IsToldOf(e, m, flags, entries[m], function.scope[m], 0),
         NEW behind, behind = FlagsIn(e, flags, m),
         NEW last, last = LastIn(m), NEW scopes, scopes = ScopesIn(function, m)
  PROVE  \A i \in 0 .. Len(Code(m)) : IsToldOf(e, m, behind[i], last[i], scopes[i], i)
<1> DEFINE n == Len(Code(m))
           T == {k \in 0 .. n : IsToldOf(e, m, behind[k], last[k], scopes[k], k)}
<1>1. PICK open : open = entries[m]
  OBVIOUS
<1>2. /\ function \in Function /\ Unattached \notin Sites /\ n \in Nat /\ DOMAIN Code(m) = 1 .. n
      /\ open \in Sites \cup {Unattached} /\ last = LastCaptures(open, m) /\ Code(m) \in Seq(Effects)
  BY <1>1, AllAgree, SitesAreStatements DEF LastIn
<1>3. AreFlagged(behind, e, flags, m)
  BY <1>2, FlagsFollow
<1>4. AreFollowedBy(last, open, m)
  BY <1>2, LastCapturesFollow
<1>5. AreDeclared(scopes, m)
  BY <1>2, ScopesAreDeclared
<1>6. e \in Nat \X Nat /\ e = <<e[1], e[2]>> /\ e[2] \in Nat
  BY <1>2, SitesAreStatements
<1>7. Captured(e) # Nothing
  BY <1>2, CapturesAreScoped
<1>8. 0 \in T
  <2>1. behind[0] = flags /\ last[0] = entries[m] /\ scopes[0] = function.scope[m]
    BY <1>1, <1>3, <1>4, <1>5 DEF AreFlagged, AreFollowedBy, AreDeclared
  <2> QED BY <1>2, <2>1
<1>9. ASSUME NEW k \in 0 .. n - 1, k \in T
      PROVE  k + 1 \in T
  <2>1. PICK i, site : i = k + 1 /\ site = <<m, i>>
    OBVIOUS
  <2>2. i \in DOMAIN Code(m) /\ i - 1 = k /\ i \in 0 .. n /\ k \in 0 .. n /\ i \in Nat /\ k < i
    BY <1>2, <2>1
  <2>3. IsToldOf(e, m, behind[k], last[k], scopes[k], k)
    BY <1>9
  <2>4. /\ IsCapture(Effect(site)) /\ leader[site] # e => behind[i] = {}
        /\ IsCapture(Effect(site)) /\ leader[site] = e =>
              /\ site = e => behind[i] = {"live"}
              /\ site # e => behind[i] = (behind[k] \cap {"detached"}) \cup {"live"}
        /\ Effect(site) = "close" =>
              /\ "live" \in behind[k] => behind[i] = {"detached"}
              /\ "live" \notin behind[k] => behind[i] = behind[k]
        /\ IsOther(site) => behind[i] = behind[k]
    BY <1>3, <2>1, <2>2 DEF AreFlagged
  <2>5. /\ IsCapture(Effect(site)) => last[i] = site
        /\ Effect(site) = "close" => last[i] = Unattached
        /\ IsOther(site) => last[i] = last[k]
    BY <1>4, <2>1, <2>2 DEF AreFollowedBy
  <2>6. /\ Effect(site) = "close" => scopes[i] = Nothing
        /\ IsDeclaration(Effect(site)) => scopes[i] = site
        /\ Effect(site) # "close" /\ ~ IsDeclaration(Effect(site)) => scopes[i] = scopes[k]
    BY <1>5, <2>1, <2>2 DEF AreDeclared
  <2>7. ASSUME "live" \in behind[i]
        PROVE  EpochOf(last[i]) = e
    <3>1. CASE IsCapture(Effect(site))
      <4>1. leader[site] = e /\ last[i] = site
        BY <2>4, <2>5, <2>7, <3>1
      <4>2. site # Unattached
        BY <2>1 DEF Unattached
      <4> QED BY <4>1, <4>2 DEF EpochOf
    <3>2. CASE Effect(site) = "close"
      BY <2>4, <2>7, <3>2
    <3>3. CASE IsOther(site)
      BY <2>3, <2>4, <2>5, <2>7, <3>3 DEF IsToldOf
    <3> QED BY <3>1, <3>2, <3>3 DEF IsOther
  <2>8. ASSUME "detached" \in behind[i], scopes[i] = Captured(e)
        PROVE  IsBefore(e, m, i)
    <3>1. site # e /\ "detached" \in behind[k] /\ Effect(site) # "close"
      <4>1. Effect(site) # "close"
        BY <1>7, <2>6, <2>8
      <4>2. site # e
        <5>1. IsCapture(Effect(e))
          BY <1>2, SitesAreStatements
        <5> QED BY <2>4, <2>8, <5>1
      <4> QED BY <2>4, <2>8, <4>1, <4>2 DEF IsOther
    <3>2. CASE IsDeclaration(Effect(site))
      <4>1. Captured(e) = <<m, i>> /\ e # <<m, i>>
        BY <2>1, <2>6, <2>8, <3>1, <3>2
      <4> QED BY <1>2, <2>2, <4>1, DeclaredIsBefore
    <3>3. CASE ~ IsDeclaration(Effect(site))
      <4>1. IsBefore(e, m, k)
        BY <2>3, <2>6, <2>8, <3>1, <3>3 DEF IsToldOf
      <4>2. m = e[1] => i # e[2]
        BY <1>6, <2>1, <3>1
      <4>3. m = e[1] /\ k < e[2] => i < e[2]
        BY <1>6, <2>1, <2>2, <4>2
      <4> QED BY <4>1, <4>3 DEF IsBefore
    <3> QED BY <3>2, <3>3
  <2> QED BY <2>1, <2>2, <2>7, <2>8 DEF IsToldOf
<1> HIDE DEF T
<1>10. \A k \in 0 .. n : k \in T
  BY <1>2, <1>8, <1>9, InductionUpTo
<1> QED BY <1>10 DEF T

(* Every round says what is true.                                          *)
LEMMA RoundIsTold ==
  ASSUME EpochsInvariant, pc # "analyse", IsLexical(function), NEW e \in Sites, leader[e] = e,
         NEW pass \in [Nodes -> SUBSET Flags], IsTold(e, pass),
         NEW later, later = Round(e, pass)
  PROVE  IsTold(e, later)
<1>1. /\ function \in Function /\ Unattached \notin Sites
      /\ \A node \in Reachable : /\ node \in DOMAIN exits /\ BlockAgrees(node)
                                 /\ exits[node] \in Sites \cup {Unattached}
  BY AllAgree
<1>2. ASSUME NEW m \in Nodes, m \notin Reachable
      PROVE  later[m] = {}
  BY <1>2 DEF Round
<1>3. ASSUME NEW m \in Reachable
      PROVE  /\ "live" \in later[m] => EpochOf(exits[m]) = e
             /\ "detached" \in later[m] /\ ScopeIn(function, m, Len(Code(m))) = Captured(e) => IsAround(e, m)
  <2>1. PICK n, flags, behind, last, scopes :
           /\ n = Len(Code(m)) /\ flags = UNION {pass[k] : k \in Predecessors(m)}
           /\ behind = FlagsIn(e, flags, m) /\ last = LastIn(m) /\ scopes = ScopesIn(function, m)
    OBVIOUS
  <2>2. later[m] = behind[n]
    BY <1>1, <2>1, ReachableIsClosed DEF Round
  <2>3. flags \in SUBSET Flags
    BY <1>1, <2>1, RoundIsFlagged, ReachableIsClosed
  <2>4. IsToldOf(e, m, flags, entries[m], function.scope[m], 0)
    BY <2>1, BlockIsTold
  <2>5. \A i \in 0 .. Len(Code(m)) : IsToldOf(e, m, behind[i], last[i], scopes[i], i)
    BY <2>1, <2>3, <2>4, StatementsAreTold
  <2>6. n \in Nat /\ n \in 0 .. Len(Code(m)) /\ DOMAIN Code(m) = 1 .. n
    BY <1>1, <2>1, SitesAreStatements
  <2>7. IsToldOf(e, m, behind[n], last[n], scopes[n], n)
    BY <2>5, <2>6
  <2>8. SameOpen(leader, last[n], exits[m])
    BY <1>1, <2>1 DEF BlockAgrees
  <2>9. EpochOf(last[n]) = EpochOf(exits[m])
    BY <2>8 DEF SameOpen, EpochOf
  <2>10. ~ (m = e[1] /\ n < e[2])
    <3>1. e[2] \in DOMAIN Code(e[1])
      BY <1>1, SitesAreStatements
    <3> QED BY <2>6, <3>1
  <2> QED BY <2>1, <2>2, <2>7, <2>9, <2>10 DEF IsToldOf, IsBefore, ScopeIn
<1> QED BY <1>1, <1>2, <1>3 DEF IsTold

(* So does the last.                                                       *)
LEMMA DetachmentIsTold ==
  ASSUME EpochsInvariant, pc # "analyse", IsLexical(function), NEW e \in Sites, leader[e] = e
  PROVE  IsTold(e, Detachment(e))
<1> DEFINE n == 2 * Cardinality(Nodes) + 1
<1>1. PICK passes : passes = Passes(e)
  OBVIOUS
<1>2. function \in Function
  BY AllAgree
<1>3. /\ n \in Nat
      /\ \A m \in Nodes : passes[0][m] = {}
      /\ \A k \in 0 .. n : passes[k] \in [Nodes -> SUBSET Flags]
      /\ \A k \in 0 .. n - 1 : passes[k + 1] = Round(e, passes[k])
  BY <1>1, <1>2, PassesFollow
<1>4. Detachment(e) = passes[n]
  BY <1>1 DEF Detachment
<1> DEFINE T == {k \in 0 .. n : IsTold(e, passes[k])}
<1> HIDE DEF n
<1>5. 0 \in T
  BY <1>3 DEF IsTold
<1>6. ASSUME NEW k \in 0 .. n - 1, k \in T
      PROVE  k + 1 \in T
  <2>1. k \in 0 .. n /\ k + 1 \in 0 .. n
    BY <1>3
  <2>2. PICK pass, later : pass = passes[k] /\ later = passes[k + 1]
    OBVIOUS
  <2>3. pass \in [Nodes -> SUBSET Flags] /\ IsTold(e, pass) /\ later = Round(e, pass)
    BY <1>3, <1>6, <2>1, <2>2
  <2>4. IsTold(e, later)
    BY <2>3, RoundIsTold
  <2> QED BY <2>1, <2>2, <2>4
<1> HIDE DEF T
<1>7. \A k \in 0 .. n : k \in T
  BY <1>3, <1>5, <1>6, InductionUpTo
<1>8. n \in 0 .. n
  BY <1>3
<1> QED BY <1>4, <1>7, <1>8 DEF T

(* No join finds an epoch open on one path that is detached on another.    *)
LEMMA CompiledMeetsNothing ==
  ASSUME EpochsInvariant, ScopesInvariant, pc # "analyse", IsLexical(function),
         NEW node \in Reachable
  PROVE  ~ MeetsDetached(node)
<1> SUFFICES ASSUME MeetsDetached(node)
             PROVE  FALSE
  OBVIOUS
<1>1. PICK s \in OpenExits(node), m \in Predecessors(node) :
         EdgeStatus(leader[s], Detachment(leader[s]), m) \in {"closed", "ambiguous"}
  BY DEF MeetsDetached
<1>2. PICK e, flags : e = leader[s] /\ flags = Detachment(e)
  OBVIOUS
<1>3. /\ function \in Function /\ Unattached \notin Sites /\ IsForest(leader)
      /\ EpochsAreScoped(leader)
  BY AllAgree DEF ScopesInvariant
<1>4. s \in Sites /\ Captured(s) = function.scope[node]
  BY OpenExitsAreScoped
<1>5. e \in Sites /\ leader[e] = e /\ Captured(e) = function.scope[node] /\ e # Unattached
  BY <1>2, <1>3, <1>4 DEF IsForest, EpochsAreScoped
<1>6. IsTold(e, flags)
  BY <1>2, <1>5, DetachmentIsTold
<1>7. m \in Nodes /\ node \in Successors(m)
  BY DEF Predecessors
<1>8. "detached" \in flags[m] => IsAround(e, m)
  <2>1. SUFFICES ASSUME "detached" \in flags[m]
                 PROVE  IsAround(e, m)
    OBVIOUS
  <2>2. m \in Reachable
    BY <1>6, <1>7, <2>1 DEF IsTold
  <2>3. PICK scopes : scopes = ScopesIn(function, m)
    OBVIOUS
  <2>4. scopes[Len(Code(m))] = function.scope[node]
    BY <1>3, <1>7, <2>2, <2>3, ScopesFollow DEF AreScoped
  <2>5. ScopeIn(function, m, Len(Code(m))) = Captured(e)
    BY <1>5, <2>3, <2>4 DEF ScopeIn
  <2> QED BY <1>6, <1>7, <2>1, <2>5 DEF IsTold
<1>9. "live" \in flags[m] => Active(m) = e
  <2>1. SUFFICES ASSUME "live" \in flags[m]
                 PROVE  Active(m) = e
    OBVIOUS
  <2>2. m \in DOMAIN exits /\ EpochOf(exits[m]) = e
    BY <1>6, <1>7, <2>1 DEF IsTold
  <2> QED BY <1>5, <2>2 DEF EpochOf, Active
<1>10. IsAround(e, m) => ~ Dominates(e[1], m)
  BY DEF IsAround, Dominates
<1>11. EdgeStatus(e, flags, m) \notin {"closed", "ambiguous"}
  <2>1. CASE "detached" \in flags[m]
    <3>1. ~ Dominates(e[1], m)
      BY <1>8, <1>10, <2>1
    <3> QED BY <1>5, <2>1, <3>1 DEF EdgeStatus, Status
  <2>2. CASE "detached" \notin flags[m] /\ "live" \in flags[m]
    BY <1>5, <1>9, <2>2 DEF EdgeStatus, Status
  <2>3. CASE "detached" \notin flags[m] /\ "live" \notin flags[m]
    BY <2>3 DEF EdgeStatus, Status
  <2> QED BY <2>1, <2>2, <2>3
<1> QED BY <1>1, <1>2, <1>11

(* A function whose scopes nest is never rejected: where paths meet on     *)
(* which the register was attached and detached, these were different      *)
(* variables, or different lives of one.                                   *)
THEOREM CompiledFunctionsAreAccepted == Spec => []CompiledIsAccepted
<1>1. Init => CompiledIsAccepted
  BY DEF Init, CompiledIsAccepted
<1>2. EpochsInvariant /\ ScopesInvariant /\ CompiledIsAccepted /\ [Next]_vars => CompiledIsAccepted'
  <2> SUFFICES ASSUME EpochsInvariant, ScopesInvariant, CompiledIsAccepted, [Next]_vars,
                      IsLexical(function')
               PROVE  pc' # "rejected"
    BY DEF CompiledIsAccepted
  <2>1. function' = function
    BY DEF Next, Analyse, ProcessBlock, EndAnalysis, Validate, Materialize, Execute, Jump,
           vars, analysisVars
  <2>2. pc # "rejected" /\ IsLexical(function)
    BY <2>1 DEF CompiledIsAccepted
  <2>3. CASE Validate
    <3>1. \A node \in Reachable : ~ IsPathDependent(node)
      BY <2>2, <2>3, CompiledMeetsNothing DEF Validate, IsPathDependent
    <3> QED BY <2>3, <3>1 DEF Validate
  <2>4. CASE ~ Validate
    BY <2>2, <2>4 DEF Next, Analyse, ProcessBlock, EndAnalysis, Materialize, Execute, Jump,
                      vars, analysisVars
  <2> QED BY <2>3, <2>4
<1> QED BY <1>1, <1>2, EpochsInvariantHolds, ScopesInvariantHolds, PTL DEF Spec

-----------------------------------------------------------------------------
(* What is said of the detachment of an epoch is final.                    *)

(* What may be said behind a statement grows with what may be said in front*)
(* of the block.                                                           *)
LEMMA FlagsGrow ==
  ASSUME function \in Function, NEW epoch, NEW node \in Reachable,
         NEW few \in SUBSET Flags, NEW more \in SUBSET Flags, few \subseteq more,
         NEW fewer, fewer = FlagsIn(epoch, few, node),
         NEW others, others = FlagsIn(epoch, more, node)
  PROVE  \A i \in 0 .. Len(Code(node)) : fewer[i] \subseteq others[i]
<1> DEFINE n == Len(Code(node))
           T == {k \in 0 .. n : fewer[k] \subseteq others[k]}
<1>1. n \in Nat /\ DOMAIN Code(node) = 1 .. n
  BY SitesAreStatements
<1>2. AreFlagged(fewer, epoch, few, node) /\ AreFlagged(others, epoch, more, node)
  BY FlagsFollow
<1>3. 0 \in T
  BY <1>1, <1>2 DEF AreFlagged
<1>4. ASSUME NEW k \in 0 .. n - 1, k \in T
      PROVE  k + 1 \in T
  <2>1. PICK i, site : i = k + 1 /\ site = <<node, i>>
    OBVIOUS
  <2>2. i \in DOMAIN Code(node) /\ i - 1 = k /\ i \in 0 .. n /\ k \in 0 .. n
    BY <1>1, <2>1
  <2>3. fewer[k] \subseteq others[k] /\ fewer[k] \subseteq Flags /\ others[k] \subseteq Flags
    BY <1>2, <1>4, <2>2 DEF AreFlagged
  <2>4. CASE IsCapture(Effect(site))
    <3>1. /\ leader[site] # epoch => fewer[i] = {}
          /\ leader[site] = epoch /\ site = epoch => fewer[i] = {"live"} /\ others[i] = {"live"}
          /\ leader[site] = epoch /\ site # epoch =>
                /\ fewer[i] = (fewer[k] \cap {"detached"}) \cup {"live"}
                /\ others[i] = (others[k] \cap {"detached"}) \cup {"live"}
      BY <1>2, <2>1, <2>2, <2>4 DEF AreFlagged
    <3> QED BY <2>1, <2>2, <2>3, <3>1
  <2>5. CASE Effect(site) = "close"
    <3>1. /\ "live" \in fewer[k] => fewer[i] = {"detached"}
          /\ "live" \notin fewer[k] => fewer[i] = fewer[k]
          /\ "live" \in others[k] => others[i] = {"detached"}
          /\ "live" \notin others[k] => others[i] = others[k]
      BY <1>2, <2>1, <2>2, <2>5 DEF AreFlagged
    <3> QED BY <2>1, <2>2, <2>3, <3>1 DEF Flags
  <2>6. CASE IsOther(site)
    <3>1. fewer[i] = fewer[k] /\ others[i] = others[k]
      BY <1>2, <2>1, <2>2, <2>6 DEF AreFlagged
    <3> QED BY <2>1, <2>2, <2>3, <3>1
  <2> QED BY <2>4, <2>5, <2>6 DEF IsOther
<1> HIDE DEF T
<1>5. \A k \in 0 .. n : k \in T
  BY <1>1, <1>3, <1>4, InductionUpTo
<1> QED BY <1>5 DEF T

(* One pass says no less than another.                                     *)
SaysNoLess(more, few) == \A m \in Nodes : few[m] \subseteq more[m]

(* Then so does the round after it.                                        *)
LEMMA RoundGrows ==
  ASSUME function \in Function, NEW epoch,
         NEW few \in [Nodes -> SUBSET Flags], NEW more \in [Nodes -> SUBSET Flags],
         SaysNoLess(more, few)
  PROVE  SaysNoLess(Round(epoch, more), Round(epoch, few))
<1> SUFFICES ASSUME NEW m \in Nodes
             PROVE  Round(epoch, few)[m] \subseteq Round(epoch, more)[m]
  BY DEF SaysNoLess
<1>1. CASE m \notin Reachable
  BY <1>1 DEF Round
<1>2. CASE m \in Reachable
  <2>1. PICK a, b, fewer, others, n :
           /\ a = UNION {few[k] : k \in Predecessors(m)} /\ b = UNION {more[k] : k \in Predecessors(m)}
           /\ fewer = FlagsIn(epoch, a, m) /\ others = FlagsIn(epoch, b, m) /\ n = Len(Code(m))
    OBVIOUS
  <2>2. Round(epoch, few)[m] = fewer[n] /\ Round(epoch, more)[m] = others[n]
    BY <1>2, <2>1 DEF Round
  <2>3. a \in SUBSET Flags /\ b \in SUBSET Flags
    BY <2>1, RoundIsFlagged
  <2>4. a \subseteq b
    BY <2>1 DEF SaysNoLess, Predecessors
  <2>5. \A i \in 0 .. Len(Code(m)) : fewer[i] \subseteq others[i]
    BY <1>2, <2>1, <2>3, <2>4, FlagsGrow
  <2>6. n \in 0 .. Len(Code(m))
    BY <1>2, <2>1, SitesAreStatements
  <2> QED BY <2>2, <2>5, <2>6
<1> QED BY <1>1, <1>2

(* So every pass says no less than the one before.                         *)
LEMMA PassesGrow ==
  ASSUME function \in Function, NEW epoch, NEW passes, passes = Passes(epoch),
         NEW n, n = 2 * Cardinality(Nodes) + 1
  PROVE  \A k \in 0 .. n - 1 : SaysNoLess(passes[k + 1], passes[k])
<1> DEFINE T == {k \in 0 .. n - 1 : SaysNoLess(passes[k + 1], passes[k])}
<1>1. /\ n \in Nat
      /\ \A m \in Nodes : passes[0][m] = {}
      /\ \A k \in 0 .. n : passes[k] \in [Nodes -> SUBSET Flags]
      /\ \A k \in 0 .. n - 1 : passes[k + 1] = Round(epoch, passes[k])
  BY PassesFollow
<1>2. n - 1 \in Nat
  <2>1. Cardinality(Nodes) \in Nat
    BY FunctionsAssumption, FS_CardinalityType
  <2> QED BY <2>1
<1>3. 0 \in T
  BY <1>1, <1>2 DEF SaysNoLess
<1>4. ASSUME NEW k \in 0 .. (n - 1) - 1, k \in T
      PROVE  k + 1 \in T
  <2>1. /\ k \in 0 .. n - 1 /\ k + 1 \in 0 .. n - 1 /\ k \in 0 .. n /\ k + 1 \in 0 .. n
    BY <1>1, <1>2
  <2>2. PICK few, more : few = passes[k] /\ more = passes[k + 1]
    OBVIOUS
  <2>3. /\ few \in [Nodes -> SUBSET Flags] /\ more \in [Nodes -> SUBSET Flags]
        /\ SaysNoLess(more, few)
        /\ passes[k + 1] = Round(epoch, few) /\ passes[(k + 1) + 1] = Round(epoch, more)
    BY <1>1, <1>4, <2>1, <2>2
  <2>4. SaysNoLess(Round(epoch, more), Round(epoch, few))
    BY <2>3, RoundGrows
  <2> QED BY <2>1, <2>3, <2>4
<1> HIDE DEF T
<1>5. \A k \in 0 .. n - 1 : k \in T
  BY <1>2, <1>3, <1>4, InductionUpTo
<1> QED BY <1>5 DEF T

(* What is said of a block is what its statements make of what is said of  *)
(* its predecessors: there are no more passes that say more than there is  *)
(* to say.                                                                 *)
LEMMA DetachmentIsFinal ==
  ASSUME function \in Function, NEW epoch
  PROVE  /\ Detachment(epoch) \in [Nodes -> SUBSET Flags]
         /\ Round(epoch, Detachment(epoch)) = Detachment(epoch)
<1> DEFINE n == 2 * Cardinality(Nodes) + 1
<1>1. PICK passes : passes = Passes(epoch)
  OBVIOUS
<1>2. Detachment(epoch) = passes[n]
  BY <1>1 DEF Detachment
<1>3. /\ n \in Nat
      /\ \A m \in Nodes : passes[0][m] = {}
      /\ \A k \in 0 .. n : passes[k] \in [Nodes -> SUBSET Flags]
      /\ \A k \in 0 .. n - 1 : passes[k + 1] = Round(epoch, passes[k])
  BY <1>1, PassesFollow
<1>4. \A k \in 0 .. n - 1 : SaysNoLess(passes[k + 1], passes[k])
  BY <1>1, PassesGrow
<1> DEFINE Said(k) == {x \in Nodes \X Flags : x[2] \in passes[k][x[1]]}
           T == {k \in 0 .. n : \/ Round(epoch, passes[k]) = passes[k]
                                \/ Cardinality(Said(k)) >= k}
<1>5. /\ IsFiniteSet(Nodes \X Flags) /\ Cardinality(Nodes) \in Nat
      /\ Cardinality(Nodes \X Flags) = 2 * Cardinality(Nodes)
  <2>1. Cardinality(Nodes) \in Nat /\ IsFiniteSet(Nodes)
    BY FunctionsAssumption, FS_CardinalityType
  <2>2. IsFiniteSet(Flags) /\ Cardinality(Flags) = 2
    <3>1. IsFiniteSet({"live"}) /\ Cardinality({"live"}) = 1
      BY FS_Singleton
    <3>2. Flags = {"live"} \cup {"detached"} /\ "detached" \notin {"live"}
      BY DEF Flags
    <3>3. IsFiniteSet(Flags) /\ Cardinality(Flags) = Cardinality({"live"}) + 1
      BY <3>1, <3>2, FS_AddElement
    <3> QED BY <3>1, <3>3
  <2>3. /\ IsFiniteSet(Nodes \X Flags)
        /\ Cardinality(Nodes \X Flags) = Cardinality(Nodes) * Cardinality(Flags)
    BY <2>1, <2>2, FS_Product
  <2> QED BY <2>1, <2>2, <2>3
<1> HIDE DEF n
<1>6. \A k : IsFiniteSet(Said(k)) /\ Cardinality(Said(k)) \in Nat
             /\ Cardinality(Said(k)) <= 2 * Cardinality(Nodes)
  <2> SUFFICES ASSUME NEW k
               PROVE  /\ IsFiniteSet(Said(k)) /\ Cardinality(Said(k)) \in Nat
                      /\ Cardinality(Said(k)) <= 2 * Cardinality(Nodes)
    OBVIOUS
  <2>1. Said(k) \subseteq Nodes \X Flags
    OBVIOUS
  <2> HIDE DEF Said
  <2> QED BY <1>5, <2>1, FS_Subset, FS_CardinalityType
<1>7. 0 \in T
  <2>1. Cardinality(Said(0)) \in Nat
    BY <1>6
  <2>2. 0 \in 0 .. n
    BY <1>3
  <2>3. Cardinality(Said(0)) >= 0
    <3> HIDE DEF Said
    <3> QED BY <2>1
  <2> QED BY <2>2, <2>3
<1>8. ASSUME NEW k \in 0 .. n - 1, k \in T
      PROVE  k + 1 \in T
  <2>1. k \in 0 .. n /\ k + 1 \in 0 .. n /\ k \in Nat
    BY <1>3
  <2>2. passes[k + 1] = Round(epoch, passes[k]) /\ SaysNoLess(passes[k + 1], passes[k])
    BY <1>3, <1>4
  <2>3. /\ passes[k] \in [Nodes -> SUBSET Flags] /\ passes[k + 1] \in [Nodes -> SUBSET Flags]
    BY <1>3, <2>1
  <2>4. CASE passes[k + 1] = passes[k]
    <3>1. Round(epoch, passes[k + 1]) = passes[k + 1]
      BY <2>2, <2>4
    <3> QED BY <2>1, <3>1
  <2>5. CASE passes[k + 1] # passes[k]
    <3>1. Cardinality(Said(k)) >= k
      BY <1>8, <2>2, <2>5
    <3>2. Said(k) \subseteq Said(k + 1)
      BY <2>2 DEF SaysNoLess
    <3>3. PICK m \in Nodes : passes[k][m] # passes[k + 1][m]
      BY <2>3, <2>5
    <3>4. PICK x \in Flags : x \in passes[k + 1][m] /\ x \notin passes[k][m]
      <4>1. passes[k][m] \subseteq passes[k + 1][m] /\ passes[k + 1][m] \subseteq Flags
        BY <2>2, <2>3 DEF SaysNoLess
      <4> QED BY <3>3, <4>1
    <3>5. <<m, x>> \in Said(k + 1) /\ <<m, x>> \notin Said(k)
      BY <3>4
    <3> HIDE DEF Said
    <3>6. /\ Cardinality(Said(k)) <= Cardinality(Said(k + 1))
          /\ Cardinality(Said(k)) # Cardinality(Said(k + 1))
      BY <1>6, <3>2, <3>5, FS_Subset
    <3>7. Cardinality(Said(k)) \in Nat /\ Cardinality(Said(k + 1)) \in Nat
      BY <1>6
    <3>8. Cardinality(Said(k + 1)) >= k + 1
      BY <2>1, <3>1, <3>6, <3>7
    <3> QED BY <2>1, <3>8
  <2> QED BY <2>4, <2>5
<1>9. n \in T
  <2> HIDE DEF T
  <2>1. \A k \in 0 .. n : k \in T
    BY <1>3, <1>7, <1>8, InductionUpTo
  <2>2. n \in 0 .. n
    BY <1>3
  <2> QED BY <2>1, <2>2
<1>10. ~ (Cardinality(Said(n)) >= n)
  <2>1. Cardinality(Said(n)) \in Nat /\ Cardinality(Said(n)) <= 2 * Cardinality(Nodes)
    BY <1>6
  <2> HIDE DEF Said
  <2> QED BY <1>5, <2>1 DEF n
<1>11. n \in 0 .. n
  BY <1>3
<1> QED BY <1>2, <1>3, <1>9, <1>10, <1>11 DEF n

-----------------------------------------------------------------------------
(* The analysis of openness only ever finds more to be open.               *)

(* A block that begins attached, and not only when it begins detached, ends*)
(* attached whenever it would otherwise.                                   *)
LEMMA LastGrows ==
  ASSUME function \in Function, NEW node \in Reachable,
         NEW few \in Sites \cup {Unattached}, NEW more \in Sites \cup {Unattached},
         few # Unattached => more # Unattached,
         NEW fewer, fewer = LastCaptures(few, node), NEW others, others = LastCaptures(more, node)
  PROVE  \A i \in 0 .. Len(Code(node)) : fewer[i] # Unattached => others[i] # Unattached
<1> DEFINE n == Len(Code(node))
           T == {k \in 0 .. n : fewer[k] # Unattached => others[k] # Unattached}
<1>1. n \in Nat /\ DOMAIN Code(node) = 1 .. n
  BY SitesAreStatements
<1>2. AreFollowedBy(fewer, few, node) /\ AreFollowedBy(others, more, node)
  BY LastCapturesFollow
<1>3. 0 \in T
  BY <1>1, <1>2 DEF AreFollowedBy
<1>4. ASSUME NEW k \in 0 .. n - 1, k \in T
      PROVE  k + 1 \in T
  <2>1. k + 1 \in DOMAIN Code(node) /\ (k + 1) - 1 = k /\ k + 1 \in 0 .. n
    BY <1>1
  <2>2. /\ IsCapture(Effect(<<node, k + 1>>)) => others[k + 1] = <<node, k + 1>>
        /\ Effect(<<node, k + 1>>) = "close" => fewer[k + 1] = Unattached
        /\ IsOther(<<node, k + 1>>) => fewer[k + 1] = fewer[k] /\ others[k + 1] = others[k]
    BY <1>2, <2>1 DEF AreFollowedBy
  <2>3. <<node, k + 1>> # Unattached
    BY DEF Unattached
  <2> QED BY <1>4, <2>1, <2>2, <2>3 DEF IsOther
<1> HIDE DEF T
<1>5. \A k \in 0 .. n : k \in T
  BY <1>1, <1>3, <1>4, InductionUpTo
<1> QED BY <1>5 DEF T

(* Blocks that begin attached have a predecessor that ends attached.       *)
EntriesAreJoined == \A node \in DOMAIN exits : entries[node] # Unattached => OpenExits(node) # {}

(* When a block is processed again, it does not become detached.           *)
LEMMA ProcessBlockJoins ==
  ASSUME EpochsInvariant, EntriesAreJoined, ProcessBlock
  PROVE  EntriesAreJoined'
<1>1. /\ TypeOK /\ AnalysisTypeOK /\ worklist \in Seq(Reachable) /\ worklist # <<>>
      /\ function \in Function /\ Unattached \notin Sites /\ function' = function
  BY TypeIsAnalysisType, SitesAreStatements
     DEF EpochsInvariant, AnalysisTypeOK, ProcessBlock
<1>2. \A node : Predecessors(node)' = Predecessors(node)
  BY <1>1, SameFunction
<1>3. PICK node, incoming, states, later, ends, open, final :
         /\ node = Head(worklist) /\ incoming = Merged(node) /\ states = StatesIn(incoming, node)
         /\ ends = states[Len(Code(node))] /\ later = ends.leaders
         /\ open = incoming.open /\ final = ends.open
  OBVIOUS
<1>4. /\ entries' = Replaced(entries, node, later, open)
      /\ exits' = Replaced(exits, node, later, final)
  BY <1>3 DEF ProcessBlock, AfterBlock
<1>5. node \in Reachable
  BY <1>1, <1>3, HeadAndTail
<1>6. /\ IsState(incoming)
      /\ open # Unattached <=> OpenExits(node) # {}
      /\ open \in Sites \cup {Unattached}
  <2>1. /\ IsState(incoming) /\ \A s \in OpenExits(node) : open # Unattached
        /\ open # Unattached => OpenExits(node) # {}
    BY <1>1, <1>3, <1>5, MergedUnites
  <2> QED BY <1>3, <2>1 DEF IsState, State
<1>7. PICK entered, left : entered = entries' /\ left = exits'
  OBVIOUS
<1>8. IsReplaced(entered, entries, node, later, open) /\ IsReplaced(left, exits, node, later, final)
  BY <1>4, <1>7, ReplacedReplaces
<1>9. /\ DOMAIN entries = DOMAIN exits
      /\ \A m \in DOMAIN exits : /\ entries[m] \in Sites \cup {Unattached}
                                 /\ exits[m] \in Sites \cup {Unattached}
  BY <1>1 DEF TypeOK
(* What the block ends with.                                               *)
<1>10. PICK last : last = LastCaptures(open, node)
  OBVIOUS
<1>11. SameOpen(later, last[Len(Code(node))], final)
  <2>1. SameOpen(later, open, incoming.open)
    BY <1>3 DEF SameOpen
  <2> QED BY <1>1, <1>3, <1>5, <1>6, <1>10, <2>1, TransferFollows
<1>12. ASSUME node \in DOMAIN exits, exits[node] # Unattached
       PROVE  final # Unattached
  <2>1. PICK few, fewer : few = entries[node] /\ fewer = LastCaptures(few, node)
    OBVIOUS
  <2>2. few \in Sites \cup {Unattached} /\ (few # Unattached => open # Unattached)
    BY <1>6, <1>9, <1>12, <2>1 DEF EntriesAreJoined
  <2>3. \A i \in 0 .. Len(Code(node)) : fewer[i] # Unattached => last[i] # Unattached
    BY <1>1, <1>5, <1>6, <1>10, <2>1, <2>2, LastGrows
  <2>4. fewer[Len(Code(node))] # Unattached
    BY <1>12, <2>1 DEF EpochsInvariant, BlockAgrees, LastIn, SameOpen
  <2>5. Len(Code(node)) \in 0 .. Len(Code(node))
    BY <1>1, <1>5, SitesAreStatements
  <2>6. last[Len(Code(node))] # Unattached
    BY <2>3, <2>4, <2>5
  <2> QED BY <1>11, <2>6 DEF SameOpen
<1>13. \A m \in DOMAIN exits : m \in DOMAIN left /\ (exits[m] # Unattached => left[m] # Unattached)
  BY <1>8, <1>12 DEF IsReplaced, SameOpen
<1>14. ASSUME NEW m, OpenExits(m) # {}
       PROVE  OpenExits(m)' # {}
  <2>1. PICK k \in Predecessors(m) \cap DOMAIN exits : exits[k] # Unattached
    BY <1>14 DEF OpenExits
  <2>2. k \in DOMAIN left /\ left[k] # Unattached /\ k \in Predecessors(m)'
    BY <1>2, <1>13, <2>1
  <2> QED BY <1>7, <2>2 DEF OpenExits
<1>15. ASSUME NEW m \in DOMAIN left, entered[m] # Unattached
       PROVE  OpenExits(m) # {}
  <2>1. CASE m = node
    BY <1>6, <1>8, <1>15, <2>1 DEF IsReplaced, SameOpen
  <2>2. CASE m # node
    <3>1. m \in DOMAIN exits /\ entered[m] = entries[m]
      BY <1>8, <1>9, <1>15, <2>2 DEF IsReplaced
    <3> QED BY <1>15, <3>1 DEF EntriesAreJoined
  <2> QED BY <2>1, <2>2
<1> QED BY <1>7, <1>14, <1>15 DEF EntriesAreJoined

-----------------------------------------------------------------------------
(* The execution and what is said of it.                                   *)

(* The only capture is the first statement, and its own epoch.             *)
LEMMA OneCapture ==
  ASSUME EpochsInvariant, IsCapturedOnce, NEW c, c = <<Entry, 1>>
  PROVE  /\ Sites = {c} /\ leader[c] = c /\ c # Unattached /\ IsCapture(Effect(c))
         /\ 1 \in DOMAIN Code(Entry)
<1>1. function \in Function /\ IsForest(leader)
  BY TypeIsAnalysisType DEF EpochsInvariant, AnalysisTypeOK
<1>2. Sites = {c} /\ c # Unattached
  BY DEF IsCapturedOnce, Unattached
<1>3. c[1] = Entry /\ c[2] = 1
  OBVIOUS
<1>4. IsCapture(Effect(c)) /\ 1 \in DOMAIN Code(Entry)
  BY <1>1, <1>2, <1>3, SitesAreStatements
<1> QED BY <1>1, <1>2, <1>4 DEF IsForest

(* What is said of an epoch behind the statements of a block.              *)
LEMMA FlagsOfFollow ==
  ASSUME function \in Function, NEW epoch, NEW node \in Reachable,
         NEW behind, behind = FlagsOf(epoch, node)
  PROVE  /\ \E flags \in SUBSET Flags : AreFlagged(behind, epoch, flags, node)
         /\ behind[Len(Code(node))] = Detachment(epoch)[node]
         /\ \A k \in Predecessors(node) : Detachment(epoch)[k] \subseteq behind[0]
<1>1. PICK said, flags :
         said = Detachment(epoch) /\ flags = UNION {said[k] : k \in Predecessors(node)}
  OBVIOUS
<1>2. said \in [Nodes -> SUBSET Flags] /\ Round(epoch, said) = said /\ node \in Nodes
  BY <1>1, DetachmentIsFinal, ReachableIsClosed
<1>3. flags \in SUBSET Flags
  BY <1>1, <1>2, RoundIsFlagged
<1>4. behind = FlagsIn(epoch, flags, node)
  BY <1>1 DEF FlagsOf
<1>5. AreFlagged(behind, epoch, flags, node)
  BY <1>3, <1>4, FlagsFollow
<1>6. Round(epoch, said)[node] = behind[Len(Code(node))]
  BY <1>1, <1>2, <1>4 DEF Round
<1>7. behind[0] = flags
  BY <1>5 DEF AreFlagged
<1> QED BY <1>1, <1>2, <1>3, <1>5, <1>6, <1>7

(* A statement does to the flags what it does to the register.             *)
LEMMA BoxStaysKnown ==
  ASSUME EpochsInvariant, IsCapturedOnce, NEW node \in Reachable, NEW i \in DOMAIN Code(node),
         NEW before \in Sites \cup {Unattached}, NEW after,
         /\ Effect(<<node, i>>) = "close" => after = Unattached
         /\ IsCapture(Effect(<<node, i>>)) => after # Unattached
         /\ IsOther(<<node, i>>) => after = before,
         <<node, i>> # <<Entry, 1>> => BoxIsKnown(before, node, i - 1)
  PROVE  BoxIsKnown(after, node, i)
<1>1. function \in Function
  BY TypeIsAnalysisType DEF EpochsInvariant, AnalysisTypeOK
<1>2. PICK c, site, behind : c = <<Entry, 1>> /\ site = <<node, i>> /\ behind = FlagsOf(c, node)
  OBVIOUS
<1>3. Sites = {c} /\ leader[c] = c
  BY <1>2, OneCapture
<1>4. PICK flags \in SUBSET Flags : AreFlagged(behind, c, flags, node)
  BY <1>1, <1>2, FlagsOfFollow
<1>5. CASE IsCapture(Effect(site))
  <2>1. site = c
    BY <1>1, <1>2, <1>3, <1>5, SitesAreStatements
  <2>2. behind[i] = {"live"}
    BY <1>2, <1>3, <1>4, <1>5, <2>1 DEF AreFlagged
  <2> QED BY <1>2, <1>5, <2>2 DEF BoxIsKnown
<1>6. CASE ~ IsCapture(Effect(site))
  <2>1. IsCapture(Effect(c))
    BY <1>2, OneCapture
  <2>2. (IF before = Unattached THEN "detached" ELSE "live") \in behind[i - 1]
    BY <1>2, <1>6, <2>1 DEF BoxIsKnown
  <2>3. CASE Effect(site) = "close"
    <3>1. "detached" \in behind[i] /\ after = Unattached
      BY <1>2, <1>4, <2>2, <2>3 DEF AreFlagged
    <3> QED BY <1>2, <3>1 DEF BoxIsKnown
  <2>4. CASE IsOther(site)
    <3>1. behind[i] = behind[i - 1] /\ after = before
      BY <1>2, <1>4, <2>4 DEF AreFlagged
    <3> QED BY <1>2, <2>2, <3>1 DEF BoxIsKnown
  <2> QED BY <1>6, <2>3, <2>4 DEF IsOther
<1> QED BY <1>5, <1>6

(* A block that begins attached and has a predecessor that ends detached   *)
(* is a join of both.                                                      *)
LEMMA JoinIsMixed ==
  ASSUME EpochsInvariant, pc # "analyse", IsCapturedOnce, NEW c, c = <<Entry, 1>>,
         NEW node \in Reachable, OpenExits(node) # {},
         NEW m \in Reachable, m \in Predecessors(node), exits[m] = Unattached,
         "detached" \in Detachment(c)[m]
  PROVE  IsMixed(node) /\ MeetsDetached(node)
<1>1. /\ function \in Function /\ m \in DOMAIN exits
      /\ \A n \in Reachable : exits[n] \in Sites \cup {Unattached}
      /\ DOMAIN exits \subseteq Reachable
  BY AllAgree DEF EpochsInvariant, TypeOK
<1>2. Sites = {c} /\ leader[c] = c /\ c # Unattached /\ c[1] = Entry
  BY OneCapture
<1>3. PICK k \in Predecessors(node) \cap DOMAIN exits : exits[k] # Unattached
  BY DEF OpenExits
<1>4. exits[k] = c
  BY <1>1, <1>2, <1>3
<1>5. c \in OpenExits(node)
  BY <1>2, <1>3, <1>4 DEF OpenExits
<1>6. IsMixed(node)
  <2> DEFINE P == Predecessors(node) \cap DOMAIN exits
  <2>1. IsFiniteSet(P)
    <3>1. P \subseteq Nodes
      BY DEF Predecessors
    <3> HIDE DEF P
    <3> QED BY <3>1, FunctionsAssumption, FS_Subset
  <2>2. m \in P /\ k \in P /\ m # k
    BY <1>1, <1>3
  <2> HIDE DEF P
  <2>3. IsFiniteSet({k}) /\ Cardinality({k}) = 1
    BY FS_Singleton
  <2>4. {k} \subseteq P /\ {k} # P
    BY <2>2
  <2>5. Cardinality({k}) <= Cardinality(P) /\ Cardinality({k}) # Cardinality(P)
    BY <2>1, <2>4, FS_Subset
  <2>6. Cardinality(P) \in Nat
    BY <2>1, FS_CardinalityType
  <2>7. Cardinality(P) > 1
    BY <2>3, <2>5, <2>6
  <2>8. \E n \in P : exits[n] = Unattached
    BY <2>2
  <2> QED BY <2>7, <2>8 DEF IsMixed, P
<1>7. MeetsDetached(node)
  <2>1. PICK flags : flags = Detachment(c)
    OBVIOUS
  <2>2. \A n : Dominates(c[1], n)
    BY <1>2 DEF Dominates
  <2>3. Active(k) = c /\ Active(m) = Unattached
    BY <1>1, <1>2, <1>3, <1>4 DEF Active
  <2>4. EdgeStatus(c, flags, k) \in {"open", "ambiguous"}
    BY <1>2, <2>2, <2>3 DEF EdgeStatus, Status
  <2>5. EdgeStatus(c, flags, m) = "closed"
    BY <1>2, <2>1, <2>2, <2>3 DEF EdgeStatus, Status
  <2>6. c \in {leader[s] : s \in OpenExits(node)}
    BY <1>2, <1>5
  <2>7. PICK statuses : statuses = {EdgeStatus(c, flags, n) : n \in Predecessors(node)}
    OBVIOUS
  <2>8. statuses \cap {"open", "ambiguous"} # {} /\ statuses \cap {"closed", "ambiguous"} # {}
    <3>1. EdgeStatus(c, flags, k) \in statuses /\ EdgeStatus(c, flags, m) \in statuses
      BY <1>3, <2>7
    <3> QED BY <2>4, <2>5, <3>1
  <2> QED BY <2>1, <2>6, <2>7, <2>8 DEF MeetsDetached
<1> QED BY <1>6, <1>7

(* What is said of epochs does not depend on the rest of the state.        *)
LEMMA DetachmentStays ==
  ASSUME function' = function, leader' = leader, entries' = entries, exits' = exits
  PROVE  /\ \A node : OpenExits(node)' = OpenExits(node)
         /\ \A node : IsPathDependent(node)' <=> IsPathDependent(node)
         /\ \A open, node, i : BoxIsKnown(open, node, i)' <=> BoxIsKnown(open, node, i)
         /\ \A node, i : JoinIsPassed(node, i)' <=> JoinIsPassed(node, i)
<1>1. /\ Sites' = Sites /\ Reachable' = Reachable
      /\ \A node : Code(node)' = Code(node) /\ Predecessors(node)' = Predecessors(node)
      /\ \A s : Effect(s)' = Effect(s)
  BY SameFunction
<1>2. \A node : Successors(node)' = Successors(node)
  BY DEF Successors
<1>3. \A starts, passed : ReachedFrom(starts, passed)' = ReachedFrom(starts, passed)
  BY DEF ReachedFrom, Reached, Successors
<1>4. \A node : OpenExits(node)' = OpenExits(node)
  BY <1>1 DEF OpenExits
<1>5. \A epoch, flags, site : FlagsAfter(epoch, flags, site)' = FlagsAfter(epoch, flags, site)
  BY <1>1 DEF FlagsAfter
<1>6. \A epoch, flags, node : FlagsIn(epoch, flags, node)' = FlagsIn(epoch, flags, node)
  BY <1>1, <1>5 DEF FlagsIn
<1>7. \A epoch, pass : Round(epoch, pass)' = Round(epoch, pass)
  BY <1>1, <1>6 DEF Round
<1>8. \A epoch : Passes(epoch)' = Passes(epoch)
  BY <1>7 DEF Passes
<1>9. \A epoch : Detachment(epoch)' = Detachment(epoch)
  BY <1>8 DEF Detachment
<1>10. \A epoch, node : FlagsOf(epoch, node)' = FlagsOf(epoch, node)
  BY <1>1, <1>6, <1>9 DEF FlagsOf
<1>11. \A node : Ends(node)' = Ends(node)
  BY <1>1 DEF Ends
<1>12. Quiet' = Quiet
  BY <1>11 DEF Quiet
<1>13. \A node : Unobservable(node)' <=> Unobservable(node)
  <2>1. \A node : ReachedFrom({node}, Quiet)' = ReachedFrom({node}, Quiet)
    BY <1>12 DEF ReachedFrom, Reached, Successors
  <2> QED BY <1>1, <1>11, <2>1 DEF Unobservable
<1>14. \A node : Active(node)' = Active(node)
  BY DEF Active
<1>15. \A dominator, node : Dominates(dominator, node)' <=> Dominates(dominator, node)
  BY <1>3 DEF Dominates
<1>16. \A epoch, flags, node : EdgeStatus(epoch, flags, node)' = EdgeStatus(epoch, flags, node)
  BY <1>14, <1>15 DEF EdgeStatus
<1>17. \A node : IsMixed(node)' <=> IsMixed(node)
  BY <1>1, <1>4 DEF IsMixed
<1>18. \A node : MeetsDetached(node)' <=> MeetsDetached(node)
  BY <1>1, <1>4, <1>9, <1>16 DEF MeetsDetached
<1>19. \A node : IsPathDependent(node)' <=> IsPathDependent(node)
  BY <1>13, <1>17, <1>18 DEF IsPathDependent
<1>20. \A open, node, i : BoxIsKnown(open, node, i)' <=> BoxIsKnown(open, node, i)
  BY <1>10 DEF BoxIsKnown
<1>21. \A node, i : JoinIsPassed(node, i)' <=> JoinIsPassed(node, i)
  <2>1. \A node : ReachedFrom({node}, Quiet)' = ReachedFrom({node}, Quiet)
    BY <1>12 DEF ReachedFrom, Reached, Successors
  <2> QED BY <1>1, <1>17, <1>18, <2>1 DEF JoinIsPassed
<1> QED BY <1>4, <1>19, <1>20, <1>21

(* Behind the join, the first statement that is no read is no observation. *)
LEMMA JoinIsUnobservable ==
  ASSUME function \in Function, NEW node \in Reachable, NEW i \in DOMAIN Code(node),
         \A join \in Reachable : ~ IsPathDependent(join),
         JoinIsPassed(node, i - 1), Code(node)[i] # "read"
  PROVE  ~ IsObservation(Code(node)[i])
<1>1. PICK join \in Reachable :
         IsMixed(join) /\ MeetsDetached(join) /\ node \in ReachedFrom({join}, Quiet)
  BY DEF JoinIsPassed
<1>2. Unobservable(join)
  BY <1>1 DEF IsPathDependent
<1>3. Len(Code(node)) \in Nat /\ DOMAIN Code(node) = 1 .. Len(Code(node))
  BY SitesAreStatements
<1>4. i \in Ends(node) /\ Ends(node) \subseteq Nat
  BY <1>3 DEF Ends
<1>5. \A j \in Ends(node) : i <= j
  <2> SUFFICES ASSUME NEW j \in Ends(node), ~ (i <= j)
               PROVE  FALSE
    OBVIOUS
  <2>1. j \in 1 .. i - 1
    BY <1>3 DEF Ends
  <2> QED BY <2>1 DEF JoinIsPassed, Ends
<1>6. Min(Ends(node)) = i
  BY <1>4, <1>5 DEF Min
<1> QED BY <1>1, <1>2, <1>4, <1>6 DEF Unobservable

(* A statement is executed.                                                *)
LEMMA ExecuteDetaches ==
  ASSUME EpochsInvariant, DetachmentInvariant, Execute
  PROVE  DetachmentInvariant'
<1>1. /\ UNCHANGED <<function, leader, entries, exits, pc>>
      /\ pc = "run" /\ at[2] <= Len(Code(at[1])) /\ at' = <<at[1], at[2] + 1>>
      /\ box' = CASE Effect(at) = "close"                      -> Unattached
                  [] IsCapture(Effect(at)) /\ box = Unattached -> at
                  [] OTHER                                     -> box
  BY DEF Execute, Executing, analysisVars
<1>2. /\ Sites' = Sites /\ Reachable' = Reachable /\ \A n : LastIn(n)' = LastIn(n)
  BY <1>1, AgreementsStay
<1>3. /\ \A n : OpenExits(n)' = OpenExits(n)
      /\ \A n : IsPathDependent(n)' <=> IsPathDependent(n)
      /\ \A open, n, i : BoxIsKnown(open, n, i)' <=> BoxIsKnown(open, n, i)
      /\ \A n, i : JoinIsPassed(n, i)' <=> JoinIsPassed(n, i)
  BY <1>1, DetachmentStays
<1>4. PICK node, i, after, to : node = at[1] /\ i = at[2] /\ after = box' /\ to = at'
  OBVIOUS
<1>5. /\ function \in Function /\ Unattached \notin Sites
      /\ \A n \in Reachable : entries[n] \in Sites \cup {Unattached}
      /\ box \in Sites \cup {Unattached}
  BY <1>1, AllAgree DEF EpochsInvariant, TypeOK
<1>6. /\ node \in Reachable /\ i \in DOMAIN Code(node) /\ i \in Nat
      /\ to[1] = node /\ to[2] = i + 1 /\ (i + 1) - 1 = i /\ at = <<node, i>>
  <2>1. node \in Reachable /\ i \in 1 .. Len(Code(node)) + 1 /\ i <= Len(Code(node))
    BY <1>1, <1>4 DEF EpochsInvariant, TypeOK
  <2>2. Len(Code(node)) \in Nat /\ DOMAIN Code(node) = 1 .. Len(Code(node))
    BY <1>5, <2>1, SitesAreStatements
  <2>3. at = <<node, i>>
    <3>1. PICK m, k : at = <<m, k>>
      BY DEF EpochsInvariant, TypeOK
    <3> QED BY <1>4, <3>1
  <2> QED BY <1>1, <1>4, <2>1, <2>2, <2>3
<1>7. /\ Effect(<<node, i>>) = "close" => after = Unattached
      /\ IsCapture(Effect(<<node, i>>)) => after # Unattached
      /\ IsOther(<<node, i>>) => after = box
  <2>1. at # Unattached
    BY <1>6 DEF Unattached
  <2> QED BY <1>1, <1>4, <1>6, <2>1 DEF IsCapture, IsOther
<1>8. ASSUME IsCapturedOnce
      PROVE  /\ BoxIsKnown(after, node, i)
             /\ after = Unattached /\ LastIn(node)[i] # Unattached => JoinIsPassed(node, i)
  <2>1. <<node, i>> # <<Entry, 1>> =>
           /\ BoxIsKnown(box, node, i - 1)
           /\ box = Unattached /\ LastIn(node)[i - 1] # Unattached => JoinIsPassed(node, i - 1)
    BY <1>1, <1>4, <1>6, <1>8 DEF DetachmentInvariant
  <2>2. BoxIsKnown(after, node, i)
    BY <1>5, <1>6, <1>7, <1>8, <2>1, BoxStaysKnown
  <2>3. ASSUME after = Unattached, LastIn(node)[i] # Unattached
        PROVE  JoinIsPassed(node, i)
    <3>1. PICK open, last : open = entries[node] /\ last = LastIn(node)
      OBVIOUS
    <3>2. open \in Sites \cup {Unattached} /\ last = LastCaptures(open, node)
      BY <1>5, <1>6, <3>1 DEF LastIn
    <3>3. AreFollowedBy(last, open, node)
      BY <1>5, <1>6, <3>2, LastCapturesFollow
    <3>4. /\ IsOther(<<node, i>>) /\ last[i] = last[i - 1] /\ box = Unattached
          /\ ~ IsCapture(Effect(<<node, i>>))
      BY <1>6, <1>7, <2>3, <3>1, <3>3 DEF AreFollowedBy, IsOther
    <3>5. <<node, i>> # <<Entry, 1>>
      BY <1>8, <3>4, OneCapture
    <3>6. JoinIsPassed(node, i - 1)
      BY <2>1, <2>3, <3>1, <3>4, <3>5
    <3>7. Code(node)[i] \in Effects
      <4>1. Code(node) \in Seq(Effects)
        BY <1>5, <1>6, SitesAreStatements
      <4> QED BY <1>6, <4>1
    <3>8. Code(node)[i] = "read"
      <4> SUFFICES ASSUME Code(node)[i] # "read"
                   PROVE  FALSE
        OBVIOUS
      <4>1. \A join \in Reachable : ~ IsPathDependent(join)
        BY <1>1 DEF DetachmentInvariant
      <4>2. ~ IsObservation(Code(node)[i])
        BY <1>5, <1>6, <3>6, <4>1, JoinIsUnobservable
      <4>3. Effect(<<node, i>>) = Code(node)[i]
        BY DEF Effect
      <4> QED BY <3>4, <3>7, <4>2, <4>3 DEF Effects, IsObservation, IsOther, IsCapture
    <3>9. \A j \in 1 .. i : j \in 1 .. i - 1 \/ j = i
      BY <1>6
    <3> QED BY <3>6, <3>8, <3>9 DEF JoinIsPassed
  <2> QED BY <2>2, <2>3
<1>9. IsCapturedOnce' <=> IsCapturedOnce
  BY <1>2 DEF IsCapturedOnce
<1>10. /\ \A n \in DOMAIN exits' : entries'[n] # Unattached => OpenExits(n)' # {}
       /\ pc' \in {"materialize", "run"} => \A n \in Reachable' : ~ IsPathDependent(n)'
  BY <1>1, <1>2, <1>3 DEF DetachmentInvariant
<1>11. IsCapturedOnce' => /\ BoxIsKnown(after, to[1], to[2] - 1)'
                          /\ after = Unattached /\ LastIn(to[1])'[to[2] - 1] # Unattached =>
                                JoinIsPassed(to[1], to[2] - 1)'
  BY <1>2, <1>3, <1>6, <1>8, <1>9
<1> QED BY <1>4, <1>10, <1>11 DEF DetachmentInvariant

(* The execution goes on with a block: what is detached there, and begins  *)
(* attached, has passed a join, or passes one.                             *)
LEMMA JumpDetaches ==
  ASSUME EpochsInvariant, DetachmentInvariant, Jump
  PROVE  DetachmentInvariant'
<1>1. /\ UNCHANGED <<function, leader, entries, exits, pc, box>>
      /\ pc = "run" /\ ~ (at[2] <= Len(Code(at[1])))
  BY DEF Jump, Executing, analysisVars
<1>2. PICK next \in Successors(at[1]) : at' = <<next, 1>>
  BY DEF Jump
<1>3. /\ Sites' = Sites /\ Reachable' = Reachable /\ \A n : LastIn(n)' = LastIn(n)
  BY <1>1, AgreementsStay
<1>4. /\ \A n : OpenExits(n)' = OpenExits(n)
      /\ \A n : IsPathDependent(n)' <=> IsPathDependent(n)
      /\ \A open, n, i : BoxIsKnown(open, n, i)' <=> BoxIsKnown(open, n, i)
      /\ \A n, i : JoinIsPassed(n, i)' <=> JoinIsPassed(n, i)
  BY <1>1, DetachmentStays
<1>5. /\ function \in Function /\ Unattached \notin Sites
      /\ \A n \in Reachable : /\ n \in DOMAIN exits /\ BlockAgrees(n)
                              /\ entries[n] \in Sites \cup {Unattached}
                              /\ exits[n] \in Sites \cup {Unattached}
      /\ box \in Sites \cup {Unattached}
  BY <1>1, AllAgree DEF EpochsInvariant, TypeOK
<1>6. PICK node, n, to : node = at[1] /\ n = Len(Code(node)) /\ to = at'
  OBVIOUS
<1>7. /\ node \in Reachable /\ n \in Nat /\ at[2] - 1 = n /\ to[1] = next /\ to[2] - 1 = 0
      /\ DOMAIN Code(node) = 1 .. n
  <2>1. node \in Reachable /\ at[2] \in 1 .. n + 1 /\ ~ (at[2] <= n)
    BY <1>1, <1>6 DEF EpochsInvariant, TypeOK
  <2>2. n \in Nat /\ DOMAIN Code(node) = 1 .. n
    BY <1>5, <1>6, <2>1, SitesAreStatements
  <2> QED BY <1>2, <1>6, <2>1, <2>2
<1>8. next \in Reachable /\ node \in Predecessors(next) /\ Reachable \subseteq Nodes
  BY <1>2, <1>5, <1>6, <1>7, ReachableIsClosed DEF Predecessors
<1>9. LastIn(next)[0] = entries[next]
  <2>1. PICK open, last : open = entries[next] /\ last = LastIn(next)
    OBVIOUS
  <2>2. open \in Sites \cup {Unattached} /\ last = LastCaptures(open, next)
    BY <1>5, <1>8, <2>1 DEF LastIn
  <2>3. AreFollowedBy(last, open, next)
    BY <1>5, <1>8, <2>2, LastCapturesFollow
  <2> QED BY <2>1, <2>3 DEF AreFollowedBy
<1>10. ASSUME IsCapturedOnce
       PROVE  /\ BoxIsKnown(box, next, 0)
              /\ box = Unattached /\ entries[next] # Unattached => JoinIsPassed(next, 0)
  <2>1. PICK c : c = <<Entry, 1>>
    OBVIOUS
  <2>2. at # c
    <3>1. 1 \in DOMAIN Code(Entry)
      BY <1>10, <2>1, OneCapture
    <3>2. at = c => at[1] = Entry /\ at[2] = 1
      BY <2>1
    <3> QED BY <1>6, <1>7, <3>1, <3>2
  <2>3. /\ BoxIsKnown(box, node, n)
        /\ box = Unattached /\ LastIn(node)[n] # Unattached => JoinIsPassed(node, n)
    BY <1>1, <1>6, <1>7, <1>10, <2>1, <2>2 DEF DetachmentInvariant
  <2>4. (IF box = Unattached THEN "detached" ELSE "live") \in Detachment(c)[node]
    BY <1>5, <1>6, <1>7, <2>1, <2>3, FlagsOfFollow DEF BoxIsKnown
  <2>5. BoxIsKnown(box, next, 0)
    <3>1. Detachment(c)[node] \subseteq FlagsOf(c, next)[0]
      BY <1>5, <1>8, FlagsOfFollow
    <3> QED BY <2>1, <2>4, <3>1 DEF BoxIsKnown
  <2>6. ASSUME box = Unattached, entries[next] # Unattached
        PROVE  JoinIsPassed(next, 0)
    <3>1. Quiet \in SUBSET Nodes /\ \A j \in 1 .. 0 : FALSE
      BY DEF Quiet
    <3>2. CASE LastIn(node)[n] # Unattached
      <4>1. JoinIsPassed(node, n)
        BY <2>3, <2>6, <3>2
      <4>2. PICK join \in Reachable :
               IsMixed(join) /\ MeetsDetached(join) /\ node \in ReachedFrom({join}, Quiet)
        BY <4>1 DEF JoinIsPassed
      <4>3. node \in Quiet
        <5>1. \A j \in DOMAIN Code(node) : Code(node)[j] = "read"
          BY <1>7, <4>1 DEF JoinIsPassed
        <5> QED BY <1>7, <1>8, <5>1 DEF Quiet, Ends
      <4>4. {join} \in SUBSET Nodes /\ {join} # {}
        BY <1>8
      <4>5. next \in ReachedFrom({join}, Quiet)
        BY <1>2, <1>5, <1>6, <3>1, <4>2, <4>3, <4>4, ReachedIsClosed
      <4> QED BY <3>1, <4>2, <4>5 DEF JoinIsPassed
    <3>3. CASE LastIn(node)[n] = Unattached
      <4>1. exits[node] = Unattached
        BY <1>5, <1>6, <1>7, <3>3 DEF BlockAgrees, SameOpen
      <4>2. OpenExits(next) # {}
        BY <1>5, <1>8, <2>6 DEF DetachmentInvariant
      <4>3. "detached" \in Detachment(c)[node]
        BY <2>4, <2>6
      <4>4. IsMixed(next) /\ MeetsDetached(next)
        BY <1>1, <1>7, <1>8, <1>10, <2>1, <4>1, <4>2, <4>3, JoinIsMixed
      <4>5. {next} \in SUBSET Nodes /\ {next} # {}
        BY <1>8
      <4>6. next \in ReachedFrom({next}, Quiet)
        BY <1>5, <3>1, <4>5, ReachedIsClosed
      <4> QED BY <1>8, <3>1, <4>4, <4>6 DEF JoinIsPassed
    <3> QED BY <3>2, <3>3
  <2> QED BY <2>5, <2>6
<1>11. IsCapturedOnce' <=> IsCapturedOnce
  BY <1>3 DEF IsCapturedOnce
<1>12. /\ \A m \in DOMAIN exits' : entries'[m] # Unattached => OpenExits(m)' # {}
       /\ pc' \in {"materialize", "run"} => \A m \in Reachable' : ~ IsPathDependent(m)'
  BY <1>1, <1>3, <1>4 DEF DetachmentInvariant
<1>13. PICK after : after = box'
  OBVIOUS
<1>14. IsCapturedOnce' => /\ BoxIsKnown(after, to[1], to[2] - 1)'
                          /\ after = Unattached /\ LastIn(to[1])'[to[2] - 1] # Unattached =>
                                JoinIsPassed(to[1], to[2] - 1)'
  BY <1>1, <1>3, <1>4, <1>7, <1>9, <1>10, <1>11, <1>13
<1> QED BY <1>6, <1>12, <1>13, <1>14 DEF DetachmentInvariant

(* The other steps.                                                        *)
LEMMA OthersDetach ==
  ASSUME EpochsInvariant, DetachmentInvariant, EndAnalysis \/ Validate \/ Materialize \/ UNCHANGED vars
  PROVE  DetachmentInvariant'
<1>1. UNCHANGED <<function, leader, entries, exits, at, box>>
  BY DEF EndAnalysis, Validate, Materialize, vars, analysisVars, executionVars
<1>2. /\ Sites' = Sites /\ Reachable' = Reachable /\ \A n : LastIn(n)' = LastIn(n)
  BY <1>1, AgreementsStay
<1>3. /\ \A n : OpenExits(n)' = OpenExits(n)
      /\ \A n : IsPathDependent(n)' <=> IsPathDependent(n)
      /\ \A open, n, i : BoxIsKnown(open, n, i)' <=> BoxIsKnown(open, n, i)
      /\ \A n, i : JoinIsPassed(n, i)' <=> JoinIsPassed(n, i)
  BY <1>1, DetachmentStays
<1>4. pc' \in {"materialize", "run"} => \A n \in Reachable : ~ IsPathDependent(n)
  <2>1. CASE Validate
    BY <2>1 DEF Validate
  <2>2. CASE ~ Validate
    BY <2>2 DEF EndAnalysis, Materialize, vars, analysisVars, DetachmentInvariant
  <2> QED BY <2>1, <2>2
<1>5. pc' = "run" => pc = "run" \/ at = <<Entry, 1>>
  BY DEF EndAnalysis, Validate, Materialize, vars, analysisVars, EpochsInvariant, BoxAgrees
<1>6. IsCapturedOnce' <=> IsCapturedOnce
  BY <1>2 DEF IsCapturedOnce
<1>7. PICK node, i, open : node = at[1] /\ i = at[2] - 1 /\ open = box
  OBVIOUS
<1>8. pc' = "run" /\ IsCapturedOnce' /\ at # <<Entry, 1>> =>
         /\ BoxIsKnown(open, node, i)'
         /\ open = Unattached /\ LastIn(node)'[i] # Unattached => JoinIsPassed(node, i)'
  BY <1>2, <1>3, <1>5, <1>6, <1>7 DEF DetachmentInvariant
<1>9. /\ \A n \in DOMAIN exits' : entries'[n] # Unattached => OpenExits(n)' # {}
      /\ pc' \in {"materialize", "run"} => \A n \in Reachable' : ~ IsPathDependent(n)'
  BY <1>1, <1>2, <1>3, <1>4 DEF DetachmentInvariant
<1>10. at' = at /\ box' = open /\ at'[1] = node /\ at'[2] - 1 = i
  BY <1>1, <1>7
<1> QED BY <1>8, <1>9, <1>10 DEF DetachmentInvariant

(* DetachmentInvariant always holds.                                       *)
THEOREM DetachmentInvariantHolds == Spec => []DetachmentInvariant
<1>1. Init => DetachmentInvariant
  <2> SUFFICES ASSUME Init
               PROVE  DetachmentInvariant
    OBVIOUS
  <2>1. DOMAIN exits = {} /\ pc = "analyse"
    BY DEF Init
  <2> QED BY <2>1 DEF DetachmentInvariant
<1>2. EpochsInvariant /\ DetachmentInvariant /\ [Next]_vars => DetachmentInvariant'
  <2> SUFFICES ASSUME EpochsInvariant, DetachmentInvariant, [Next]_vars
               PROVE  DetachmentInvariant'
    OBVIOUS
  <2>1. CASE ProcessBlock
    <3>1. EntriesAreJoined
      BY DEF DetachmentInvariant, EntriesAreJoined
    <3>2. EntriesAreJoined' /\ pc' = "analyse"
      BY <2>1, <3>1, ProcessBlockJoins DEF ProcessBlock
    <3> QED BY <3>2 DEF DetachmentInvariant, EntriesAreJoined
  <2>2. CASE Execute
    BY <2>2, ExecuteDetaches
  <2>3. CASE Jump
    BY <2>3, JumpDetaches
  <2>4. CASE EndAnalysis \/ Validate \/ Materialize \/ UNCHANGED vars
    BY <2>4, OthersDetach
  <2> QED BY <2>1, <2>2, <2>3, <2>4 DEF Next, Analyse
<1> QED BY <1>1, <1>2, EpochsInvariantHolds, PTL DEF Spec

(* A function that passes the validation of its joins never writes a       *)
(* register as the captured variable where the variable is detached from   *)
(* it: with one capture, at the start, for every graph and every path.     *)
THEOREM DetachedRegistersAreNotWritten == Spec => []DetachedIsNotWritten
<1>1. EpochsInvariant /\ DetachmentInvariant => DetachedIsNotWritten
  <2> SUFFICES ASSUME EpochsInvariant, DetachmentInvariant, Executing, IsCapturedOnce,
                      Effect(at) = "write", box = Unattached
               PROVE  opening[at[1]][at[2]] = Unattached
    BY DEF DetachedIsNotWritten
  <2>1. PICK node, i : node = at[1] /\ i = at[2]
    OBVIOUS
  <2>2. pc = "run" /\ node \in Reachable /\ i \in 1 .. Len(Code(node)) + 1 /\ i <= Len(Code(node))
    BY <2>1 DEF Executing, EpochsInvariant, TypeOK
  <2>3. function \in Function /\ \A n \in Reachable : entries[n] \in Sites \cup {Unattached}
    BY <2>2, AllAgree
  <2>4. i \in DOMAIN Code(node) /\ Effect(<<node, i>>) = "write" /\ Code(node)[i] = "write"
    <3>1. Len(Code(node)) \in Nat /\ DOMAIN Code(node) = 1 .. Len(Code(node))
      BY <2>2, <2>3, SitesAreStatements
    <3> QED BY <2>1, <2>2, <3>1 DEF Effect
  <2>5. PICK last, open : last = LastIn(node) /\ open = entries[node]
    OBVIOUS
  <2>6. AreFollowedBy(last, open, node)
    <3>1. open \in Sites \cup {Unattached} /\ last = LastCaptures(open, node)
      BY <2>2, <2>3, <2>5 DEF LastIn
    <3> QED BY <2>2, <2>3, <3>1, LastCapturesFollow
  <2>7. last[i] = last[i - 1]
    BY <2>4, <2>6 DEF AreFollowedBy, IsOther, IsCapture
  <2>8. opening[node][i] = EpochOf(last[i])
    BY <2>2, <2>4, <2>5 DEF EpochsInvariant, OpeningAgrees
  <2>9. at # <<Entry, 1>>
    <3>1. IsCapture(Effect(<<Entry, 1>>))
      BY OneCapture
    <3> QED BY <3>1 DEF IsCapture
  <2>10. last[i] = Unattached
    <3> SUFFICES ASSUME last[i] # Unattached
                 PROVE  FALSE
      OBVIOUS
    <3>1. JoinIsPassed(node, i - 1)
      BY <2>1, <2>2, <2>5, <2>7, <2>9 DEF DetachmentInvariant
    <3>2. \A join \in Reachable : ~ IsPathDependent(join)
      BY <2>2 DEF DetachmentInvariant
    <3>3. ~ IsObservation(Code(node)[i])
      BY <2>2, <2>3, <2>4, <3>1, <3>2, JoinIsUnobservable
    <3> QED BY <2>4, <3>3 DEF IsObservation
  <2> QED BY <2>1, <2>8, <2>10 DEF EpochOf
<1> QED BY <1>1, EpochsInvariantHolds, DetachmentInvariantHolds, PTL
=============================================================================
