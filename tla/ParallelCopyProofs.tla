------------------------- MODULE ParallelCopyProofs -------------------------
(***************************************************************************)
(* Proofs about the sequence of single assignments that replaces a         *)
(* parallel one: it has the same effect, and no value that is still to be  *)
(* read is overwritten, for any number of locals and any assignment whose  *)
(* right sides that are not locals read no destination.                    *)
(***************************************************************************)
EXTENDS ParallelCopy, NaturalSums, SequenceTheorems, FunctionTheorems

-----------------------------------------------------------------------------
(* Selecting from a sequence.                                              *)

(* The selections from the first elements of s, up to the n-th.            *)
AreSelections(f, s, T, n) ==
    f = [i \in 0 .. n |->
            IF i = 0 THEN <<>>
            ELSE IF s[i] \in T THEN Append(f[i - 1], s[i]) ELSE f[i - 1]]

(* r holds the members of T among the first k elements of s, each once.    *)
IsSelection(r, s, T, S, k) ==
    /\ r \in Seq(S)
    /\ ToSet(r) = {s[i] : i \in 1 .. k} \cap T
    /\ IsInjective(r)

(* The recursive definition of Selected has a solution.                    *)
LEMMA SelectionsExist ==
  ASSUME NEW n \in Nat, NEW s, NEW T
  PROVE  \E f : AreSelections(f, s, T, n)
<1> DEFINE K == {k \in 0 .. n : \E f : AreSelections(f, s, T, k)}
<1>1. 0 \in K
  <2> DEFINE f == [k \in 0 .. 0 |-> <<>>]
  <2>1. AreSelections(f, s, T, 0)
    BY DEF AreSelections
  <2> HIDE DEF f
  <2> QED BY <2>1
<1>2. ASSUME NEW k \in 0 .. n - 1, k \in K
      PROVE  k + 1 \in K
  <2>1. PICK f : AreSelections(f, s, T, k)
    BY <1>2
  <2> DEFINE last == IF s[k + 1] \in T THEN Append(f[k], s[k + 1]) ELSE f[k]
             g == [i \in 0 .. k + 1 |-> IF i = k + 1 THEN last ELSE f[i]]
             Step(h, i) == IF s[i] \in T THEN Append(h[i - 1], s[i]) ELSE h[i - 1]
  <2>2. f = [i \in 0 .. k |-> IF i = 0 THEN <<>> ELSE Step(f, i)]
    BY <2>1 DEF AreSelections
  <2>3. ASSUME NEW i \in 0 .. k + 1
        PROVE  g[i] = IF i = 0 THEN <<>> ELSE Step(g, i)
    <3>1. CASE i = k + 1
      <4>1. i # 0 /\ i - 1 = k /\ k \in 0 .. k + 1 /\ k # k + 1
        BY <3>1
      <4>2. g[i] = last /\ g[i - 1] = f[k]
        BY <3>1, <4>1
      <4> QED BY <3>1, <4>1, <4>2
    <3>2. CASE i # k + 1
      <4>1. i \in 0 .. k /\ g[i] = f[i]
        BY <3>2
      <4>2. CASE i = 0
        BY <2>2, <4>1, <4>2
      <4>3. CASE i # 0
        <5>1. i - 1 \in 0 .. k + 1 /\ i - 1 # k + 1
          BY <4>1, <4>3
        <5>2. g[i - 1] = f[i - 1]
          BY <5>1
        <5>3. f[i] = Step(f, i)
          BY <2>2, <4>1, <4>3
        <5>4. Step(f, i) = Step(g, i)
          BY <5>2
        <5> QED BY <4>1, <4>3, <5>3, <5>4
      <4> QED BY <4>2, <4>3
    <3> QED BY <3>1, <3>2
  <2>4. g = [i \in 0 .. k + 1 |-> IF i = 0 THEN <<>> ELSE Step(g, i)]
    BY <2>3
  <2> HIDE DEF g
  <2>5. AreSelections(g, s, T, k + 1)
    BY <2>4 DEF AreSelections
  <2> QED BY <2>5
<1> HIDE DEF K
<1>3. \A k \in 0 .. n : k \in K
  BY <1>1, <1>2, InductionUpTo
<1> QED BY <1>3 DEF K

(* One more element leaves or extends a selection.                         *)
LEMMA SelectionStep ==
  ASSUME NEW S, NEW s \in Seq(S), NEW T, IsInjective(s),
         NEW k \in 0 .. Len(s) - 1, NEW r, IsSelection(r, s, T, S, k)
  PROVE  IsSelection(IF s[k + 1] \in T THEN Append(r, s[k + 1]) ELSE r, s, T, S, k + 1)
<1>1. k \in Nat /\ k + 1 \in 1 .. Len(s) /\ 1 .. k + 1 = 1 .. k \cup {k + 1} /\ s[k + 1] \in S
  BY LenProperties
<1>2. {s[i] : i \in 1 .. k + 1} = {s[i] : i \in 1 .. k} \cup {s[k + 1]}
  BY <1>1
<1>3. CASE s[k + 1] \notin T
  BY <1>2, <1>3 DEF IsSelection
<1>4. CASE s[k + 1] \in T
  <2> DEFINE q == Append(r, s[k + 1])
  <2>1. r \in Seq(S) /\ ToSet(r) = {s[i] : i \in 1 .. k} \cap T /\ IsInjective(r)
    BY DEF IsSelection
  <2>2. /\ q \in Seq(S) /\ DOMAIN q = 1 .. Len(r) + 1 /\ DOMAIN r = 1 .. Len(r) /\ Len(r) \in Nat
        /\ q[Len(r) + 1] = s[k + 1] /\ \A i \in 1 .. Len(r) : q[i] = r[i]
    BY <1>1, <2>1
  <2> HIDE DEF q
  <2>3. ToSet(q) = ToSet(r) \cup {s[k + 1]}
    BY <2>2 DEF ToSet
  <2>4. s[k + 1] \notin ToSet(r)
    <3>1. \A i \in 1 .. k : s[i] # s[k + 1]
      <4> SUFFICES ASSUME NEW i \in 1 .. k, s[i] = s[k + 1] PROVE FALSE
        OBVIOUS
      <4>1. i \in DOMAIN s /\ k + 1 \in DOMAIN s /\ i # k + 1
        BY <1>1
      <4> QED BY <4>1 DEF IsInjective
    <3> QED BY <2>1, <3>1
  <2>5. \A i \in 1 .. Len(r) : r[i] # s[k + 1]
    BY <2>2, <2>4 DEF ToSet
  <2>6. IsInjective(q)
    BY <2>1, <2>2, <2>5 DEF IsInjective
  <2>7. IsSelection(q, s, T, S, k + 1)
    BY <1>2, <1>4, <2>1, <2>2, <2>3, <2>6 DEF IsSelection
  <2> QED BY <1>4, <2>7 DEF q
<1> QED BY <1>3, <1>4

(* Selected(s, T) holds the members of T in s, each once if s does.        *)
LEMMA SelectedSelects ==
  ASSUME NEW S, NEW s \in Seq(S), NEW T, IsInjective(s)
  PROVE  IsSelection(Selected(s, T), s, T, S, Len(s))
<1> DEFINE n == Len(s)
           f == CHOOSE f : AreSelections(f, s, T, n)
           K == {k \in 0 .. n : IsSelection(f[k], s, T, S, k)}
<1>1. n \in Nat
  BY LenProperties
<1>2. AreSelections(f, s, T, n)
  BY <1>1, SelectionsExist
<1>3. Selected(s, T) = f[n]
  BY DEF Selected, AreSelections
<1> HIDE DEF f
<1>4. f = [i \in 0 .. n |->
             IF i = 0 THEN <<>>
             ELSE IF s[i] \in T THEN Append(f[i - 1], s[i]) ELSE f[i - 1]]
  BY <1>2 DEF AreSelections
<1>5. 0 \in K
  <2>1. f[0] = <<>>
    BY <1>1, <1>4
  <2>2. IsSelection(<<>>, s, T, S, 0)
    BY DEF IsSelection, ToSet, IsInjective
  <2> QED BY <1>1, <2>1, <2>2
<1>6. ASSUME NEW k \in 0 .. n - 1, k \in K
      PROVE  k + 1 \in K
  <2>1. k + 1 \in 0 .. n /\ k + 1 # 0 /\ (k + 1) - 1 = k
    BY <1>1
  <2>2. f[k + 1] = IF s[k + 1] \in T THEN Append(f[k], s[k + 1]) ELSE f[k]
    BY <1>4, <2>1
  <2>3. IsSelection(IF s[k + 1] \in T THEN Append(f[k], s[k + 1]) ELSE f[k], s, T, S, k + 1)
    BY <1>6, SelectionStep
  <2> QED BY <2>1, <2>2, <2>3
<1> HIDE DEF K
<1>7. \A k \in 0 .. n : k \in K
  BY <1>1, <1>5, <1>6, InductionUpTo
<1> QED BY <1>1, <1>3, <1>7 DEF K

-----------------------------------------------------------------------------
(* Stacks.                                                                 *)

(* A stack consists of its last element and the rest.                      *)
LEMMA LastAndFront ==
  ASSUME NEW S, NEW s \in Seq(S), s # <<>>
  PROVE  /\ Last(s) \in S /\ Front(s) \in Seq(S)
         /\ ToSet(s) = ToSet(Front(s)) \cup {Last(s)}
         /\ IsInjective(s) => IsInjective(Front(s)) /\ Last(s) \notin ToSet(Front(s))
<1> DEFINE n == Len(s)
<1>1. n \in Nat \ {0} /\ s \in [1 .. n -> S]
  BY EmptySeq, LenProperties
<1>2. Front(s) = [i \in 1 .. n - 1 |-> s[i]]
  BY <1>1 DEF Front
<1>3. /\ Front(s) \in Seq(S) /\ DOMAIN Front(s) = 1 .. n - 1
      /\ \A i \in 1 .. n - 1 : Front(s)[i] = s[i]
  <2>1. n - 1 \in Nat /\ Front(s) \in [1 .. n - 1 -> S]
    BY <1>1, <1>2
  <2>2. Front(s) \in Seq(S)
    BY <2>1, SeqDef
  <2> QED BY <1>2, <2>1, <2>2
<1>4. Last(s) = s[n] /\ n \in 1 .. n /\ 1 .. n = 1 .. n - 1 \cup {n} /\ DOMAIN s = 1 .. n
  BY <1>1 DEF Last
<1> HIDE DEF n
<1>5. \A i \in 1 .. n - 1 : i \in 1 .. n /\ i # n
  <2>1. n \in Nat
    BY <1>1
  <2> QED BY <2>1
<1>6. ToSet(s) = ToSet(Front(s)) \cup {Last(s)}
  BY <1>3, <1>4 DEF ToSet
<1>7. ASSUME IsInjective(s)
      PROVE  IsInjective(Front(s)) /\ Last(s) \notin ToSet(Front(s))
  BY <1>3, <1>4, <1>5, <1>7 DEF IsInjective, ToSet
<1> QED BY <1>1, <1>3, <1>4, <1>6, <1>7

(* One more element on a stack.                                            *)
LEMMA OneMore ==
  ASSUME NEW S, NEW s \in Seq(S), NEW x \in S, x \notin ToSet(s), IsInjective(s)
  PROVE  /\ s \o <<x>> \in Seq(S)
         /\ ToSet(s \o <<x>>) = ToSet(s) \cup {x}
         /\ IsInjective(s \o <<x>>)
<1> DEFINE n == Len(s)
           q == s \o <<x>>
<1>1. n \in Nat /\ DOMAIN s = 1 .. n
  BY LenProperties
<1>2. /\ q \in Seq(S) /\ DOMAIN q = 1 .. n + 1 /\ q[n + 1] = x
      /\ \A i \in 1 .. n : q[i] = s[i]
  BY <1>1
<1>3. 1 .. n + 1 = 1 .. n \cup {n + 1}
  BY <1>1
<1> HIDE DEF n, q
<1>4. ToSet(q) = ToSet(s) \cup {x}
  BY <1>1, <1>2, <1>3 DEF ToSet
<1>5. \A i \in 1 .. n : s[i] # x
  BY <1>1 DEF ToSet
<1>6. IsInjective(q)
  BY <1>1, <1>2, <1>3, <1>5 DEF IsInjective
<1> QED BY <1>2, <1>4, <1>6 DEF q

(* A stack of one.                                                         *)
LEMMA OnlyOne ==
  ASSUME NEW S, NEW x \in S
  PROVE  /\ <<x>> \in Seq(S) /\ ToSet(<<x>>) = {x} /\ IsInjective(<<x>>)
<1>1. DOMAIN <<x>> = 1 .. 1 /\ 1 .. 1 = {1} /\ <<x>>[1] = x /\ <<x>> \in Seq(S)
  OBVIOUS
<1> QED BY <1>1 DEF ToSet, IsInjective

(* The empty stack.                                                        *)
LEMMA NoneLeft ==
  ASSUME NEW S
  PROVE  <<>> \in Seq(S) /\ ToSet(<<>>) = {} /\ IsInjective(<<>>)
BY DEF ToSet, IsInjective

-----------------------------------------------------------------------------
(* The assignment.                                                         *)

(* What the proofs use of it: every target has one source.                 *)
PairsAreKnown ==
    /\ Targets \subseteq Locals /\ Sources \subseteq Locals /\ IsFiniteSet(Targets)
    /\ \A b \in Targets : Pred(b) \in Sources
    /\ \A a \in Sources : \E b \in Targets : Pred(b) = a
    /\ \A side \in Copies : side.dst \in Targets /\ Pred(side.dst) = side.of
    /\ \A side \in ToSet(assignment) \ Copies : side.dst \in Locals \ Targets

(* The destinations differ.                                                *)
LEMMA SidesDiffer ==
  ASSUME assignment \in Assignments
  PROVE  /\ assignment \in Seq(Side) /\ assignment # <<>> /\ Len(assignment) \in Nat
         /\ DOMAIN assignment = 1 .. Len(assignment)
         /\ ToSet(assignment) = {assignment[i] : i \in 1 .. Len(assignment)}
         /\ ToSet(assignment) \subseteq Side
         /\ IsInjective(assignment)
         /\ \A s, t \in ToSet(assignment) : s.dst = t.dst => s = t
<1>1. /\ assignment \in Seq(Side) /\ assignment # <<>>
      /\ \A i, j \in 1 .. Len(assignment) : assignment[i].dst = assignment[j].dst => i = j
  BY AssignmentsAssumption
<1>2. /\ Len(assignment) \in Nat /\ DOMAIN assignment = 1 .. Len(assignment)
      /\ assignment \in [1 .. Len(assignment) -> Side]
  BY <1>1, LenProperties
<1>3. ToSet(assignment) = {assignment[i] : i \in 1 .. Len(assignment)}
  BY <1>2 DEF ToSet
<1>4. ToSet(assignment) \subseteq Side
  BY <1>2, <1>3
<1>5. IsInjective(assignment)
  BY <1>1, <1>2 DEF IsInjective
<1>6. \A s, t \in ToSet(assignment) : s.dst = t.dst => s = t
  BY <1>1, <1>3
<1> QED BY <1>1, <1>2, <1>3, <1>4, <1>5, <1>6

(* An assignment pairs its targets with sources.                           *)
LEMMA PairsKnown ==
  ASSUME assignment \in Assignments
  PROVE  PairsAreKnown
<1>1. /\ ToSet(assignment) \subseteq Side /\ Copies \subseteq ToSet(assignment)
      /\ \A s, t \in ToSet(assignment) : s.dst = t.dst => s = t
  BY SidesDiffer DEF Copies
<1>2. \A side \in ToSet(assignment) : side.dst \in Locals /\ side.of \in Locals
  BY <1>1 DEF Side
<1>3. Targets \subseteq Locals /\ Sources \subseteq Locals
  BY <1>1, <1>2 DEF Targets, Sources
<1>4. ASSUME NEW side \in Copies
      PROVE  side.dst \in Targets /\ Pred(side.dst) = side.of
  <2>1. \A other \in Copies : other.dst = side.dst => other = side
    BY <1>1
  <2>2. (CHOOSE other \in Copies : other.dst = side.dst) = side
    BY <2>1
  <2> QED BY <2>2 DEF Pred, Targets
<1>5. \A b \in Targets : \E side \in Copies : side.dst = b
  BY DEF Targets
<1>6. \A a \in Sources : \E side \in Copies : side.of = a
  BY DEF Sources
<1>7. \A b \in Targets : Pred(b) \in Sources
  BY <1>4, <1>5 DEF Sources
<1>8. \A a \in Sources : \E b \in Targets : Pred(b) = a
  BY <1>4, <1>6
<1>9. \A side \in ToSet(assignment) \ Copies : side.dst \in Locals \ Targets
  <2> SUFFICES ASSUME NEW side \in ToSet(assignment) \ Copies, side.dst \in Targets
               PROVE  FALSE
    BY <1>2
  <2>1. PICK other \in Copies : other.dst = side.dst
    BY <1>5
  <2> QED BY <1>1, <2>1
<1>10. IsFiniteSet(Targets)
  <2> DEFINE n == Len(assignment)
             I == {i \in 1 .. n : assignment[i] \in Copies}
             f == [i \in I |-> assignment[i].dst]
  <2>1. n \in Nat /\ ToSet(assignment) = {assignment[i] : i \in 1 .. n}
    BY SidesDiffer
  <2>2. IsFiniteSet(1 .. n)
    <3>1. 1 \in Int /\ n \in Int
      BY <2>1
    <3> QED BY <3>1, FS_Interval
  <2>3. IsFiniteSet(I)
    BY <2>2, FS_Subset
  <2>4. f \in [I -> Targets]
    BY DEF Targets
  <2>5. \A b \in Targets : \E i \in I : f[i] = b
    BY <1>1, <1>5, <2>1
  <2> HIDE DEF f, I
  <2>6. f \in Surjection(I, Targets)
    BY <2>4, <2>5, Fun_IsSurj
  <2> QED BY <2>3, <2>6, FS_Surjection
<1> QED BY <1>3, <1>4, <1>7, <1>8, <1>9, <1>10 DEF PairsAreKnown

(* A step that leaves the assignment alone leaves its pairs alone.         *)
LEMMA SameAssignment ==
  ASSUME assignment' = assignment
  PROVE  /\ Copies' = Copies /\ Targets' = Targets /\ Sources' = Sources
         /\ \A b : Pred(b)' = Pred(b)
<1>1. Copies' = Copies
  BY DEF Copies
<1> QED BY <1>1 DEF Targets, Sources, Pred

-----------------------------------------------------------------------------
(* The invariant.                                                          *)

(* What is left to make when none is ready are cycles: every source of an  *)
(* unmade copy is the target of an unmade one, and the other way round.    *)
LEMMA TheRestAreCycles ==
  ASSUME PairsAreKnown, TheRestWaits, ready = <<>>
  PROVE  /\ \A b \in Unmade : b \in Sources /\ loc[b] = b /\ Pred(b) \in Unmade
         /\ \A t \in Targets : Pred(t) \in Unmade => t \in Unmade
<1>1. \A b \in Unmade : b \in Targets /\ b \in Sources /\ loc[b] = b
  BY NoneLeft DEF TheRestWaits, Unmade
<1>2. ASSUME NEW b \in Unmade, NEW t \in Targets, Pred(t) = b
      PROVE  t \in Unmade
  BY <1>1, <1>2 DEF TheRestWaits, Unmade
<1> DEFINE f == [t \in Unmade |-> Pred(t)]
           A == {Pred(t) : t \in Unmade}
<1>3. IsFiniteSet(Unmade)
  <2>1. Unmade \subseteq Targets /\ IsFiniteSet(Targets)
    BY DEF PairsAreKnown, Unmade
  <2> QED BY <2>1, FS_Subset
<1>4. Unmade \subseteq A
  <2> SUFFICES ASSUME NEW b \in Unmade PROVE \E t \in Unmade : Pred(t) = b
    OBVIOUS
  <2>1. PICK t \in Targets : Pred(t) = b
    BY <1>1 DEF PairsAreKnown
  <2> QED BY <1>2, <2>1
<1>5. IsFiniteSet(A) /\ Cardinality(A) <= Cardinality(Unmade)
  <2>1. f \in [Unmade -> A] /\ \A a \in A : \E t \in Unmade : f[t] = a
    OBVIOUS
  <2> HIDE DEF f, A
  <2>2. f \in Surjection(Unmade, A)
    BY <2>1, Fun_IsSurj
  <2> QED BY <1>3, <2>2, FS_Surjection
<1> HIDE DEF A
<1>6. Cardinality(Unmade) <= Cardinality(A)
  BY <1>4, <1>5, FS_Subset
<1>7. Cardinality(Unmade) \in Nat /\ Cardinality(A) \in Nat
  BY <1>3, <1>5, FS_CardinalityType
<1>8. Cardinality(A) = Cardinality(Unmade)
  BY <1>5, <1>6, <1>7
<1>9. A = Unmade
  BY <1>4, <1>5, <1>8, FS_Subset
<1>10. \A b \in Unmade : Pred(b) \in Unmade
  BY <1>9 DEF A
<1> QED BY <1>1, <1>2, <1>10

(* The invariant of an assignment of the function.                         *)
Inductive == assignment \in Assignments /\ CopyInvariant

(* It holds at first.                                                      *)
LEMMA InitSatisfies ==
  ASSUME Init
  PROVE  Inductive
<1>1. assignment \in Seq(Side)
  BY SidesDiffer DEF Init
<1>2. CopyTypeOK
  BY <1>1, SpillAssumption DEF Init, CopyTypeOK
<1>3. ~ Walking
  BY DEF Init, Walking
<1> QED BY <1>2, <1>3 DEF Init, Inductive, CopyInvariant

(* Collecting: nothing was made but copies of a local to itself.           *)
LEMMA CollectKeeps ==
  ASSUME Inductive, Collect
  PROVE  Inductive'
<1> DEFINE Free == {side \in Copies : side.dst \notin Sources}
           Rest == ToSet(assignment) \ Copies
<1>1. PairsAreKnown /\ assignment \in Assignments /\ CopyTypeOK
  BY PairsKnown DEF Inductive, CopyInvariant
<1>2. /\ pc = "collect" /\ pc' = "next" /\ assignment' = assignment /\ memory' = memory
      /\ loc' = [x \in Sources |-> x]
      /\ toDo' = Destinations(Selected(assignment, Copies))
      /\ ready' = Destinations(Selected(assignment, Free))
      /\ ends' = Selected(assignment, Rest)
  BY DEF Collect
<1>3. /\ Copies' = Copies /\ Targets' = Targets /\ Sources' = Sources
      /\ \A b : Pred(b)' = Pred(b)
  BY <1>2, SameAssignment
<1>4. /\ Targets \subseteq Locals /\ Sources \subseteq Locals
      /\ \A b \in Targets : Pred(b) \in Sources
      /\ \A x \in Locals : memory[x] = Holds(x)
  BY <1>1, <1>2 DEF PairsAreKnown, CopyTypeOK
<1>5. ASSUME NEW T \in SUBSET ToSet(assignment)
      PROVE  /\ Selected(assignment, T) \in Seq(T)
             /\ ToSet(Selected(assignment, T)) = T
             /\ Destinations(Selected(assignment, T)) \in Seq({side.dst : side \in T})
             /\ ToSet(Destinations(Selected(assignment, T))) = {side.dst : side \in T}
             /\ IsInjective(Destinations(Selected(assignment, T)))
  <2> DEFINE r == Selected(assignment, T)
             D == {side.dst : side \in T}
             d == Destinations(r)
  <2>1. /\ assignment \in Seq(Side) /\ IsInjective(assignment)
        /\ ToSet(assignment) = {assignment[i] : i \in 1 .. Len(assignment)}
        /\ \A s, t \in ToSet(assignment) : s.dst = t.dst => s = t
    BY <1>1, SidesDiffer
  <2>2. r \in Seq(Side) /\ ToSet(r) = T /\ IsInjective(r)
    <3>1. IsSelection(r, assignment, T, Side, Len(assignment))
      BY <2>1, SelectedSelects
    <3> QED BY <2>1, <3>1 DEF IsSelection
  <2> HIDE DEF r
  <2>3. Len(r) \in Nat /\ DOMAIN r = 1 .. Len(r) /\ r \in [1 .. Len(r) -> Side]
    BY <2>2, LenProperties
  <2>4. \A i \in 1 .. Len(r) : r[i] \in T
    BY <2>2, <2>3 DEF ToSet
  <2>5. r \in Seq(T)
    <3>1. r \in [1 .. Len(r) -> T]
      BY <2>3, <2>4
    <3> QED BY <2>3, <3>1, SeqDef
  <2>6. DOMAIN d = 1 .. Len(r) /\ \A i \in 1 .. Len(r) : d[i] = r[i].dst
    BY DEF Destinations
  <2>7. d \in Seq(D)
    <3>1. d \in [1 .. Len(r) -> D]
      BY <2>4 DEF Destinations
    <3> HIDE DEF d, D
    <3> QED BY <2>3, <3>1, SeqDef
  <2>8. ToSet(d) = D
    <3>1. T = {r[i] : i \in 1 .. Len(r)}
      BY <2>2, <2>3 DEF ToSet
    <3> HIDE DEF d
    <3> QED BY <2>6, <3>1 DEF ToSet
  <2>9. IsInjective(d)
    <3> HIDE DEF d
    <3> SUFFICES ASSUME NEW i \in 1 .. Len(r), NEW j \in 1 .. Len(r), d[i] = d[j]
                 PROVE  i = j
      BY <2>6 DEF IsInjective
    <3>1. r[i] = r[j]
      BY <2>1, <2>4, <2>6
    <3> QED BY <2>2, <2>3, <3>1 DEF IsInjective
  <2> QED BY <2>2, <2>5, <2>7, <2>8, <2>9 DEF r
<1>6. toDo' \in Seq(Targets) /\ ToSet(toDo') = Targets
  <2>1. Copies \in SUBSET ToSet(assignment)
    BY DEF Copies
  <2> QED BY <1>2, <1>5, <2>1 DEF Targets
<1>7. /\ ready' \in Seq(Targets) /\ IsInjective(ready')
      /\ ToSet(ready') = {b \in Targets : b \notin Sources}
  <2>1. Free \in SUBSET ToSet(assignment)
    BY DEF Copies
  <2>2. {side.dst : side \in Free} = {b \in Targets : b \notin Sources}
    BY DEF Targets
  <2> HIDE DEF Free
  <2>3. /\ ready' \in Seq({b \in Targets : b \notin Sources}) /\ IsInjective(ready')
        /\ ToSet(ready') = {b \in Targets : b \notin Sources}
    BY <1>2, <1>5, <2>1, <2>2
  <2>4. {b \in Targets : b \notin Sources} \subseteq Targets
    OBVIOUS
  <2> QED BY <2>3, <2>4, SeqMonotonic
<1>8. ends' \in Seq(Rest) /\ ToSet(ends') = Rest
  BY <1>2, <1>5
<1> HIDE DEF Free, Rest
<1>9. CopyTypeOK'
  <2>1. ToSet(assignment)' = ToSet(assignment) /\ Seq(ToSet(assignment) \ Copies)' = Seq(Rest)
    BY <1>2, <1>3 DEF Rest
  <2> QED BY <1>1, <1>2, <1>3, <1>4, <1>6, <1>7, <1>8, <2>1 DEF CopyTypeOK
<1>10. \A b \in Targets : Made(b)' => Pred(b) = b
  BY <1>2, <1>3, <1>4 DEF Made, Holds
<1>11. Walking' => SourcesAreKept' /\ ReadyIsReady' /\ TheRestWaits'
  <2>1. SourcesAreKept'
    BY <1>2, <1>3, <1>4 DEF SourcesAreKept
  <2>2. ReadyIsReady'
    BY <1>2, <1>3, <1>4, <1>7 DEF ReadyIsReady
  <2>3. TheRestWaits'
    <3> SUFFICES ASSUME NEW b \in Unmade'
                 PROVE  /\ b \in ToSet(ready') \/ (b \in Sources /\ loc'[b] = b)
                        /\ b \in Sources /\ loc'[b] = b =>
                              \A t \in Targets : Pred(t) = b /\ t # b => ~ Made(t)'
      BY <1>3 DEF TheRestWaits
    <3>1. b \in Targets
      BY <1>3 DEF Unmade
    <3> QED BY <1>2, <1>3, <1>7, <1>10, <3>1
  <2> QED BY <2>1, <2>2, <2>3
<1>12. Unmade' \subseteq ToSet(toDo') /\ (toDo' = <<>> => Unmade' = {})
  BY <1>3, <1>6, NoneLeft DEF Unmade
<1>13. Walking' <=> toDo' # <<>>
  BY <1>2 DEF Walking
<1>14. (ToSet(assignment) \ Copies)' = Rest
  BY <1>2, <1>3 DEF Rest
<1> QED BY <1>1, <1>2, <1>8, <1>9, <1>11, <1>12, <1>13, <1>14 DEF Inductive, CopyInvariant

(* Taking a target.                                                        *)
LEMMA TakeTargetKeeps ==
  ASSUME Inductive, TakeTarget
  PROVE  Inductive'
<1>1. CopyInvariant /\ CopyTypeOK /\ assignment \in Assignments
  BY DEF Inductive, CopyInvariant
<1>2. /\ pc = "next" /\ toDo # <<>> /\ pc' = "drain" /\ target' = Last(toDo)
      /\ toDo' = Front(toDo) /\ assignment' = assignment /\ memory' = memory
      /\ ready' = ready /\ loc' = loc /\ ends' = ends
  BY DEF TakeTarget
<1>3. /\ Copies' = Copies /\ Targets' = Targets /\ Sources' = Sources
      /\ \A b : Pred(b)' = Pred(b)
  BY <1>2, SameAssignment
<1>4. /\ target' \in Targets /\ toDo' \in Seq(Targets)
      /\ ToSet(toDo) = ToSet(toDo') \cup {target'}
  <2>1. toDo \in Seq(Targets)
    BY <1>1 DEF CopyTypeOK
  <2> QED BY <1>2, <2>1, LastAndFront
<1>5. \A b : Made(b)' <=> Made(b)
  BY <1>2, <1>3 DEF Made
<1>6. Unmade' = Unmade
  BY <1>3, <1>5 DEF Unmade
<1>7. CopyTypeOK'
  BY <1>1, <1>2, <1>3, <1>4 DEF CopyTypeOK
<1>8. Walking /\ Walking'
  BY <1>2 DEF Walking
<1>9. SourcesAreKept /\ ReadyIsReady /\ TheRestWaits
  BY <1>1, <1>8 DEF CopyInvariant
<1>10. SourcesAreKept'
  BY <1>2, <1>3, <1>5, <1>9 DEF SourcesAreKept
<1>11. ReadyIsReady'
  BY <1>2, <1>3, <1>9 DEF ReadyIsReady
<1>12. TheRestWaits'
  BY <1>2, <1>3, <1>5, <1>6, <1>9 DEF TheRestWaits
<1>13. Unmade' \subseteq ToSet(toDo') \cup ToSet(ready') \cup {target'}
  BY <1>1, <1>2, <1>4, <1>6, <1>8 DEF CopyInvariant
<1>14. \A side \in ToSet(assignment) \ Copies : side \in ToSet(ends)
  BY <1>1, <1>8 DEF CopyInvariant
<1> QED
  BY <1>1, <1>2, <1>3, <1>7, <1>8, <1>10, <1>11, <1>12, <1>13, <1>14 DEF Inductive, CopyInvariant

(* Emitting a ready copy.  Its target's old value is nowhere looked for,   *)
(* and its source's value is now in the target too.                        *)
LEMMA EmitReadyKeeps ==
  ASSUME Inductive, EmitReady
  PROVE  Inductive'
<1>1. CopyInvariant /\ CopyTypeOK /\ assignment \in Assignments /\ PairsAreKnown
  BY PairsKnown DEF Inductive, CopyInvariant
<1>2. Walking /\ Walking' /\ pc = "drain" /\ pc' = "drain"
  BY DEF EmitReady, Walking
<1>3. SourcesAreKept /\ ReadyIsReady /\ TheRestWaits
  BY <1>1, <1>2 DEF CopyInvariant
<1>4. PICK b, a, c, rest :
        /\ b = Last(ready) /\ a = Pred(b) /\ c = loc[a] /\ rest = Front(ready)
  OBVIOUS
<1>5. /\ ready # <<>> /\ memory' = [memory EXCEPT ![b] = memory[c]]
      /\ ready' = rest \o IF a = c /\ a \in Targets THEN <<a>> ELSE <<>>
      /\ loc' = Moved(a, b) /\ assignment' = assignment /\ toDo' = toDo
      /\ target' = target /\ ends' = ends
  BY <1>4 DEF EmitReady, Store
<1>6. /\ Copies' = Copies /\ Targets' = Targets /\ Sources' = Sources
      /\ \A x : Pred(x)' = Pred(x)
  BY <1>5, SameAssignment
<1>7. /\ b \in Targets /\ rest \in Seq(Targets) /\ ToSet(ready) = ToSet(rest) \cup {b}
      /\ IsInjective(rest) /\ b \notin ToSet(rest)
  <2>1. ready \in Seq(Targets) /\ IsInjective(ready)
    BY <1>1, <1>3 DEF CopyTypeOK, ReadyIsReady
  <2> QED BY <1>4, <1>5, <2>1, LastAndFront
<1>8. /\ Targets \subseteq Locals /\ Sources \subseteq Locals /\ a \in Sources
      /\ Spill \notin Locals /\ \A x \in Targets : Pred(x) \in Sources
  BY <1>1, <1>4, <1>7, SpillAssumption DEF PairsAreKnown
<1>9. /\ Sources \subseteq DOMAIN loc /\ DOMAIN loc \subseteq Locals
      /\ DOMAIN memory = Locals \cup {Spill}
      /\ \A x \in DOMAIN loc :
            loc[x] = x \/ loc[x] = Spill \/ (loc[x] \in Targets /\ Pred(loc[x]) = x)
  BY <1>1, <1>2 DEF CopyTypeOK
<1>10. /\ memory[c] = Holds(a) /\ (b \in DOMAIN loc => loc[b] # b)
       /\ \A t \in ToSet(rest) :
            /\ t \in DOMAIN loc => loc[t] # t
            /\ memory[loc[Pred(t)]] = Holds(Pred(t))
  BY <1>3, <1>4, <1>7 DEF ReadyIsReady
<1>11. /\ DOMAIN memory' = Locals \cup {Spill} /\ memory'[b] = Holds(a)
       /\ \A x \in Locals \cup {Spill} : x # b => memory'[x] = memory[x]
  BY <1>5, <1>7, <1>8, <1>9, <1>10
<1>12. /\ DOMAIN loc' = DOMAIN loc /\ loc'[a] = b
       /\ \A x \in DOMAIN loc : x # a => loc'[x] = loc[x]
  BY <1>5, <1>8, <1>9 DEF Moved
(* Nobody else's value is in b.                                            *)
<1>13. \A s \in DOMAIN loc : s # a => loc[s] # b
  BY <1>4, <1>7, <1>8, <1>9, <1>10
<1>14. \A s \in DOMAIN loc : s # a => memory'[loc'[s]] = memory[loc[s]]
  BY <1>7, <1>8, <1>9, <1>11, <1>12, <1>13
<1>15. /\ \A t \in Targets : Made(t)' <=> t = b \/ Made(t)
       /\ Unmade' = Unmade \ {b}
  <2>1. \A t \in Targets : Made(t)' <=> t = b \/ Made(t)
    BY <1>4, <1>6, <1>8, <1>11 DEF Made
  <2> QED BY <1>6, <2>1 DEF Unmade
(* The source becomes ready when this is the first copy out of it.         *)
<1>16. a = c => a \notin ToSet(rest) /\ a # b
  BY <1>4, <1>8, <1>9, <1>10
<1>17. /\ ready' \in Seq(Targets) /\ IsInjective(ready')
       /\ ToSet(ready') = ToSet(rest) \cup (IF a = c /\ a \in Targets THEN {a} ELSE {})
  <2>1. CASE a = c /\ a \in Targets
    BY <1>5, <1>7, <1>16, <2>1, OneMore
  <2>2. CASE ~ (a = c /\ a \in Targets)
    <3>1. ready' = rest
      BY <1>5, <1>7, <2>2
    <3> QED BY <1>7, <2>2, <3>1
  <2> QED BY <2>1, <2>2
<1>18. CopyTypeOK'
  <2>1. \A x \in Locals : memory'[x] = Holds(x) \/ \E side \in ToSet(assignment) : side.dst = x
    <3>1. \E side \in ToSet(assignment) : side.dst = b
      BY <1>7 DEF Targets, Copies
    <3>2. \A x \in Locals : memory[x] = Holds(x) \/ \E side \in ToSet(assignment) : side.dst = x
      BY <1>1, <1>2 DEF CopyTypeOK
    <3> QED BY <1>11, <3>1, <3>2
  <2>2. \A x \in DOMAIN loc' :
            loc'[x] = x \/ loc'[x] = Spill \/ (loc'[x] \in Targets /\ Pred(loc'[x]) = x)
    BY <1>4, <1>7, <1>9, <1>12
  <2>3. (\A x \in DOMAIN loc :
            loc[x] = x \/ loc[x] = Spill \/ (loc[x] \in Targets /\ Pred(loc[x]) = x))'
    BY <1>6, <2>2
  <2> QED BY <1>1, <1>2, <1>5, <1>6, <1>9, <1>11, <1>12, <1>17, <2>1, <2>3 DEF CopyTypeOK
<1>19. SourcesAreKept'
  <2> SUFFICES ASSUME NEW s \in Sources
               PROVE  \/ memory'[loc'[s]] = Holds(s)
                      \/ loc'[s] = Spill /\ \A t \in Targets : Pred(t) = s => Made(t)'
    BY <1>6 DEF SourcesAreKept
  <2>1. CASE s = a
    BY <1>11, <1>12, <2>1
  <2>2. CASE s # a
    <3>1. loc'[s] = loc[s] /\ memory'[loc'[s]] = memory[loc[s]]
      BY <1>9, <1>12, <1>14, <2>2
    <3> QED BY <1>3, <1>15, <3>1 DEF SourcesAreKept
  <2> QED BY <2>1, <2>2
<1>20. ReadyIsReady'
  <2> SUFFICES ASSUME NEW t \in ToSet(ready')
               PROVE  /\ t \in DOMAIN loc' => loc'[t] # t
                      /\ memory'[loc'[Pred(t)]] = Holds(Pred(t))
    BY <1>6, <1>17 DEF ReadyIsReady
  <2>1. t \in Targets /\ Pred(t) \in Sources /\ Pred(t) \in DOMAIN loc
    <3>1. t \in Targets
      BY <1>17, LastAndFront DEF ToSet
    <3> QED BY <1>8, <1>9, <3>1
  <2>2. t \in DOMAIN loc' => loc'[t] # t
    BY <1>7, <1>10, <1>12, <1>16, <1>17
  <2>3. CASE Pred(t) = a
    BY <1>11, <1>12, <2>2, <2>3
  <2>4. CASE Pred(t) # a /\ t \in ToSet(rest)
    BY <1>10, <1>14, <2>1, <2>2, <2>4
  <2>5. CASE Pred(t) # a /\ t \notin ToSet(rest)
    <3>1. t = a /\ a = c
      BY <1>17, <2>5
    <3>2. memory[a] = Holds(a) /\ Holds(a) # Holds(Pred(a))
      BY <1>10, <2>5, <3>1 DEF Holds
    <3>3. ~ Made(a)
      BY <3>2 DEF Made
    <3>4. memory[loc[Pred(a)]] = Holds(Pred(a))
      BY <1>3, <2>1, <3>1, <3>3 DEF SourcesAreKept
    <3> QED BY <1>14, <2>1, <2>2, <2>5, <3>1, <3>4
  <2> QED BY <2>3, <2>4, <2>5
<1>21. TheRestWaits'
  <2> SUFFICES ASSUME NEW x \in Unmade'
               PROVE  /\ x \in ToSet(ready') \/ (x \in Sources /\ loc'[x] = x)
                      /\ x \in Sources /\ loc'[x] = x =>
                            \A t \in Targets : Pred(t) = x /\ t # x => ~ Made(t)'
    BY <1>6 DEF TheRestWaits
  <2>1. x \in Unmade /\ x # b /\ x \in Targets
    BY <1>15 DEF Unmade
  <2>2. /\ x \in ToSet(ready) \/ (x \in Sources /\ loc[x] = x)
        /\ x \in Sources /\ loc[x] = x =>
              \A t \in Targets : Pred(t) = x /\ t # x => ~ Made(t)
    BY <1>3, <2>1 DEF TheRestWaits
  <2>3. x \in ToSet(ready') \/ (x \in Sources /\ loc'[x] = x)
    BY <1>4, <1>7, <1>9, <1>12, <1>17, <2>1, <2>2
  <2>4. ASSUME x \in Sources, loc'[x] = x, NEW t \in Targets, Pred(t) = x, t # x
        PROVE  ~ Made(t)'
    <3>1. x # a /\ loc[x] = x
      BY <1>9, <1>12, <2>1, <2>4
    <3>2. t # b
      BY <1>4, <2>4, <3>1
    <3> QED BY <1>15, <2>2, <2>4, <3>1, <3>2
  <2> QED BY <2>3, <2>4
<1>22. Unmade' \subseteq ToSet(toDo') \cup ToSet(ready') \cup {target'}
  <2>1. Unmade \subseteq ToSet(toDo) \cup ToSet(ready) \cup {target}
    BY <1>1, <1>2 DEF CopyInvariant
  <2> QED BY <1>5, <1>7, <1>15, <1>17, <2>1
<1>23. \A side \in ToSet(assignment) \ Copies : side \in ToSet(ends)
  BY <1>1, <1>2 DEF CopyInvariant
<1> QED
  BY <1>1, <1>2, <1>5, <1>6, <1>18, <1>19, <1>20, <1>21, <1>22, <1>23
  DEF Inductive, CopyInvariant

(* Saving a target in the spill local.  If the target is still to be made, *)
(* it is on a cycle, and its value is the one its reader waits for.  If it *)
(* was made before, a copy out of the spill local makes it again.          *)
LEMMA SaveTargetKeeps ==
  ASSUME Inductive, SaveTarget
  PROVE  Inductive'
<1>1. CopyInvariant /\ CopyTypeOK /\ assignment \in Assignments /\ PairsAreKnown
  BY PairsKnown DEF Inductive, CopyInvariant
<1>2. Walking /\ pc = "drain" /\ pc' = "next"
  BY DEF SaveTarget, Walking
<1>3. SourcesAreKept /\ ReadyIsReady /\ TheRestWaits
  BY <1>1, <1>2 DEF CopyInvariant
<1>4. PICK x : x = target
  OBVIOUS
<1>5. /\ ready = <<>> /\ x # loc[Pred(x)] /\ memory' = [memory EXCEPT ![Spill] = memory[x]]
      /\ ready' = <<x>> /\ loc' = Moved(x, Spill) /\ assignment' = assignment
      /\ toDo' = toDo /\ target' = target /\ ends' = ends
  BY <1>4 DEF SaveTarget, Store
<1>6. /\ Copies' = Copies /\ Targets' = Targets /\ Sources' = Sources
      /\ \A b : Pred(b)' = Pred(b)
  BY <1>5, SameAssignment
<1>7. /\ Targets \subseteq Locals /\ Sources \subseteq Locals /\ Spill \notin Locals
      /\ \A b \in Targets : Pred(b) \in Sources
      /\ x \in Targets /\ x \in Locals /\ x # Spill /\ Pred(x) \in Sources
  BY <1>1, <1>2, <1>4, SpillAssumption DEF PairsAreKnown, CopyTypeOK
<1>8. /\ Sources \subseteq DOMAIN loc /\ DOMAIN loc \subseteq Locals
      /\ DOMAIN memory = Locals \cup {Spill}
      /\ \A y \in DOMAIN loc :
            loc[y] = y \/ loc[y] = Spill \/ (loc[y] \in Targets /\ Pred(loc[y]) = y)
  BY <1>1, <1>2 DEF CopyTypeOK
<1>9. /\ \A b \in Unmade : b \in Sources /\ loc[b] = b /\ Pred(b) \in Unmade
      /\ \A t \in Targets : Pred(t) \in Unmade => t \in Unmade
  BY <1>1, <1>3, <1>5, TheRestAreCycles
<1>10. /\ DOMAIN memory' = Locals \cup {Spill} /\ memory'[Spill] = memory[x]
       /\ \A y \in Locals : memory'[y] = memory[y]
  BY <1>5, <1>7, <1>8
<1>11. /\ DOMAIN loc' = DOMAIN loc \cup {x} /\ loc'[x] = Spill
       /\ \A y \in DOMAIN loc : y # x => loc'[y] = loc[y]
  BY <1>5 DEF Moved
<1>12. Unmade' = Unmade /\ \A t \in Targets : Made(t)' <=> Made(t)
  <2>1. \A t \in Targets : Made(t)' <=> Made(t)
    BY <1>6, <1>7, <1>10 DEF Made
  <2> QED BY <1>6, <2>1 DEF Unmade
<1>13. \A t \in Targets : ~ Made(t) => t \in Unmade /\ Pred(t) \in Unmade
  BY <1>9 DEF Unmade
<1>14. ready' \in Seq(Targets) /\ ToSet(ready') = {x} /\ IsInjective(ready')
  BY <1>5, <1>7, OnlyOne
<1>15. CopyTypeOK'
  <2>1. \A y \in Locals : memory'[y] = Holds(y) \/ \E side \in ToSet(assignment) : side.dst = y
    BY <1>1, <1>2, <1>10 DEF CopyTypeOK
  <2>2. \A y \in DOMAIN loc' :
            loc'[y] = y \/ loc'[y] = Spill \/ (loc'[y] \in Targets /\ Pred(loc'[y]) = y)
    BY <1>8, <1>11
  <2>3. (\A y \in DOMAIN loc :
            loc[y] = y \/ loc[y] = Spill \/ (loc[y] \in Targets /\ Pred(loc[y]) = y))'
    BY <1>6, <2>2
  <2>4. Sources \subseteq DOMAIN loc' /\ DOMAIN loc' \subseteq Locals
    BY <1>7, <1>8, <1>11
  <2> QED BY <1>1, <1>2, <1>5, <1>6, <1>10, <1>14, <2>1, <2>3, <2>4 DEF CopyTypeOK
<1>16. SourcesAreKept'
  <2> SUFFICES ASSUME NEW s \in Sources
               PROVE  \/ memory'[loc'[s]] = Holds(s)
                      \/ loc'[s] = Spill /\ \A t \in Targets : Pred(t) = s => Made(t)
    BY <1>6, <1>12 DEF SourcesAreKept
  <2>1. CASE s = x /\ x \in Unmade
    <3>1. memory[loc[x]] = Holds(x) /\ loc[x] = x
      BY <1>3, <1>7, <1>9, <2>1 DEF SourcesAreKept
    <3> QED BY <1>10, <1>11, <2>1, <3>1
  <2>2. CASE s = x /\ x \notin Unmade
    BY <1>11, <1>13, <2>2
  <2>3. CASE s # x /\ loc[s] = Spill
    <3>1. s \notin Unmade
      BY <1>7, <1>9, <2>3
    <3> QED BY <1>8, <1>11, <1>13, <2>3, <3>1
  <2>4. CASE s # x /\ loc[s] # Spill
    <3>1. memory[loc[s]] = Holds(s) /\ loc[s] \in Locals
      BY <1>3, <1>7, <1>8, <2>4 DEF SourcesAreKept
    <3> QED BY <1>8, <1>10, <1>11, <2>4, <3>1
  <2> QED BY <2>1, <2>2, <2>3, <2>4
<1>17. memory'[loc'[Pred(x)]] = Holds(Pred(x))
  <2>1. CASE x \in Unmade
    <3>1. Pred(x) \in Unmade /\ loc[Pred(x)] = Pred(x) /\ Pred(x) # x
      BY <1>5, <1>9, <2>1
    <3>2. memory[Pred(x)] = Holds(Pred(x))
      BY <1>3, <1>7, <3>1 DEF SourcesAreKept
    <3> QED BY <1>7, <1>8, <1>10, <1>11, <3>1, <3>2
  <2>2. CASE x \notin Unmade
    <3>1. memory[x] = Holds(Pred(x))
      BY <1>7, <2>2 DEF Unmade, Made
    <3>2. CASE Pred(x) = x \/ loc[Pred(x)] = Spill
      BY <1>7, <1>8, <1>10, <1>11, <3>1, <3>2
    <3>3. CASE Pred(x) # x /\ loc[Pred(x)] # Spill
      <4>1. memory[loc[Pred(x)]] = Holds(Pred(x)) /\ loc[Pred(x)] \in Locals
        BY <1>3, <1>7, <1>8, <3>3 DEF SourcesAreKept
      <4> QED BY <1>7, <1>8, <1>10, <1>11, <3>3, <4>1
    <3> QED BY <3>2, <3>3
  <2> QED BY <2>1, <2>2
<1>18. ReadyIsReady'
  <2>1. loc'[x] # x
    BY <1>7, <1>11
  <2> QED BY <1>6, <1>14, <1>17, <2>1 DEF ReadyIsReady
<1>19. TheRestWaits'
  <2> SUFFICES ASSUME NEW b \in Unmade
               PROVE  /\ b \in ToSet(ready') \/ (b \in Sources /\ loc'[b] = b)
                      /\ b \in Sources /\ loc'[b] = b =>
                            \A t \in Targets : Pred(t) = b /\ t # b => ~ Made(t)
    BY <1>6, <1>12 DEF TheRestWaits
  <2>1. b \in Sources /\ loc[b] = b /\ b \in DOMAIN loc
    BY <1>8, <1>9
  <2>2. b = x \/ loc'[b] = b
    BY <1>11, <2>1
  <2>3. \A t \in Targets : Pred(t) = b => ~ Made(t)
    BY <1>9 DEF Unmade
  <2> QED BY <1>14, <2>1, <2>2, <2>3
<1>20. Unmade \subseteq ToSet(toDo) \cup {x}
  <2>1. Unmade \subseteq ToSet(toDo) \cup ToSet(ready) \cup {target}
    BY <1>1, <1>2 DEF CopyInvariant
  <2> QED BY <1>4, <1>5, <2>1, NoneLeft
<1>21. toDo = <<>> => Unmade = {}
  <2> SUFFICES ASSUME toDo = <<>>, Unmade # {}
               PROVE  FALSE
    OBVIOUS
  <2>1. Unmade = {x}
    BY <1>20, NoneLeft
  <2> QED BY <1>5, <1>9, <2>1
<1>22. \A side \in ToSet(assignment) \ Copies : side \in ToSet(ends)
  BY <1>1, <1>2 DEF CopyInvariant
<1>23. Walking' <=> toDo # <<>>
  BY <1>2, <1>5 DEF Walking
<1> QED
  BY <1>1, <1>2, <1>5, <1>6, <1>12, <1>14, <1>15, <1>16, <1>18, <1>19, <1>20, <1>21, <1>22, <1>23
  DEF Inductive, CopyInvariant

(* Passing over a target, which was made.                                  *)
LEMMA SkipTargetKeeps ==
  ASSUME Inductive, SkipTarget
  PROVE  Inductive'
<1>1. CopyInvariant /\ CopyTypeOK /\ assignment \in Assignments /\ PairsAreKnown
  BY PairsKnown DEF Inductive, CopyInvariant
<1>2. Walking /\ pc = "drain" /\ pc' = "next"
  BY DEF SkipTarget, Walking
<1>3. SourcesAreKept /\ ReadyIsReady /\ TheRestWaits
  BY <1>1, <1>2 DEF CopyInvariant
<1>4. /\ ready = <<>> /\ target = loc[Pred(target)] /\ assignment' = assignment
      /\ memory' = memory /\ toDo' = toDo /\ ready' = ready /\ loc' = loc
      /\ target' = target /\ ends' = ends
  BY DEF SkipTarget
<1>5. /\ Copies' = Copies /\ Targets' = Targets /\ Sources' = Sources
      /\ \A b : Pred(b)' = Pred(b)
  BY <1>4, SameAssignment
<1>6. target \in Targets /\ target \in Locals /\ Spill \notin Locals /\ Pred(target) \in Sources
  BY <1>1, <1>2, SpillAssumption DEF PairsAreKnown, CopyTypeOK
<1>7. Made(target)
  BY <1>3, <1>4, <1>6 DEF SourcesAreKept, Made
<1>8. Unmade' = Unmade /\ \A b : Made(b)' <=> Made(b)
  <2>1. \A b : Made(b)' <=> Made(b)
    BY <1>4, <1>5 DEF Made
  <2> QED BY <1>5, <2>1 DEF Unmade
<1>9. Unmade \subseteq ToSet(toDo)
  <2>1. Unmade \subseteq ToSet(toDo) \cup ToSet(ready) \cup {target}
    BY <1>1, <1>2 DEF CopyInvariant
  <2> QED BY <1>4, <1>7, <2>1, NoneLeft DEF Unmade
<1>10. CopyTypeOK'
  BY <1>1, <1>2, <1>4, <1>5 DEF CopyTypeOK
<1>11. SourcesAreKept'
  BY <1>3, <1>4, <1>5, <1>8 DEF SourcesAreKept
<1>12. ReadyIsReady'
  BY <1>3, <1>4, <1>5 DEF ReadyIsReady
<1>13. TheRestWaits'
  BY <1>3, <1>4, <1>5, <1>8 DEF TheRestWaits
<1>14. \A side \in ToSet(assignment) \ Copies : side \in ToSet(ends)
  BY <1>1, <1>2 DEF CopyInvariant
<1>15. (toDo = <<>> => Unmade = {}) /\ (Walking' <=> toDo # <<>>)
  BY <1>2, <1>4, <1>9, NoneLeft DEF Walking
<1> QED
  BY <1>1, <1>2, <1>4, <1>5, <1>8, <1>9, <1>10, <1>11, <1>12, <1>13, <1>14, <1>15
  DEF Inductive, CopyInvariant

(* The effect of the assignment, side by side.                             *)
LEMMA AfterSides ==
  ASSUME assignment \in Assignments
  PROVE  /\ \A side \in ToSet(assignment) : After(assignment)[side.dst] = Value(side, Initially)
         /\ \A x \in Locals : (\A side \in ToSet(assignment) : side.dst # x) =>
                After(assignment)[x] = Holds(x)
<1>1. /\ ToSet(assignment) = {assignment[i] : i \in 1 .. Len(assignment)}
      /\ ToSet(assignment) \subseteq Side
      /\ \A s, t \in ToSet(assignment) : s.dst = t.dst => s = t
  BY SidesDiffer
<1>2. ASSUME NEW side \in ToSet(assignment)
      PROVE  After(assignment)[side.dst] = Value(side, Initially)
  <2> DEFINE P(i) == assignment[i].dst = side.dst
             j == CHOOSE i \in 1 .. Len(assignment) : P(i)
  <2>1. side.dst \in Locals
    BY <1>1 DEF Side
  <2>2. \E i \in 1 .. Len(assignment) : P(i)
    BY <1>1
  <2>3. j \in 1 .. Len(assignment) /\ P(j)
    <3> HIDE DEF P
    <3> QED BY <2>2
  <2>4. assignment[j] = side
    <3> HIDE DEF j
    <3> QED BY <1>1, <2>3
  <2>5. After(assignment)[side.dst] = Value(assignment[j], Initially)
    BY <2>1, <2>2 DEF After
  <2> QED BY <2>4, <2>5
<1>3. ASSUME NEW x \in Locals, \A side \in ToSet(assignment) : side.dst # x
      PROVE  After(assignment)[x] = Holds(x)
  <2>1. ~ \E i \in 1 .. Len(assignment) : assignment[i].dst = x
    BY <1>1, <1>3
  <2> QED BY <2>1 DEF After
<1> QED BY <1>2, <1>3

(* What a side that is no copy reads has not been overwritten.             *)
LEMMA EndsReadOldValues ==
  ASSUME Inductive, EndsAreIndependent, pc # "done",
         NEW side \in ToSet(assignment), side.kind # "local"
  PROVE  Value(side, memory) = Value(side, Initially)
<1>1. /\ assignment \in Assignments /\ side \in Side
      /\ ToSet(assignment) = {assignment[i] : i \in 1 .. Len(assignment)}
  BY SidesDiffer DEF Inductive
<1>2. side.of \in Locals /\ side.kind \in {"constant", "expression"}
  BY <1>1 DEF Side
<1>3. CASE side.kind = "constant"
  BY <1>3 DEF Value
<1>4. CASE side.kind = "expression"
  <2>1. \A other \in ToSet(assignment) : side.of # other.dst
    BY <1>1, <1>4 DEF EndsAreIndependent
  <2>2. memory[side.of] = Holds(side.of)
    BY <1>2, <2>1 DEF Inductive, CopyInvariant, CopyTypeOK
  <2>3. Initially[side.of] = Holds(side.of)
    BY <1>2 DEF Initially
  <2> QED BY <1>4, <2>2, <2>3 DEF Value
<1> QED BY <1>2, <1>3, <1>4

(* An assignment to one local is executed as it is.                        *)
LEMMA AssignSingleKeeps ==
  ASSUME Inductive, AssignSingle
  PROVE  Inductive' /\ \A x \in Locals : memory'[x] = After(assignment)[x]
<1>1. CopyInvariant /\ CopyTypeOK /\ assignment \in Assignments
  BY DEF Inductive, CopyInvariant
<1>2. PICK side : side = assignment[1]
  OBVIOUS
<1>3. /\ pc = "collect" /\ pc' = "done" /\ Len(assignment) = 1
      /\ memory' = [memory EXCEPT ![side.dst] = Value(side, memory)]
      /\ assignment' = assignment /\ toDo' = toDo /\ ready' = ready
      /\ loc' = loc /\ ends' = ends
  BY <1>2 DEF AssignSingle, Store
<1>4. ToSet(assignment) = {side} /\ side \in Side
  <2>1. ToSet(assignment) = {assignment[i] : i \in 1 .. 1} /\ ToSet(assignment) \subseteq Side
    BY <1>1, <1>3, SidesDiffer
  <2> QED BY <1>2, <2>1
<1>5. side.dst \in Locals /\ side.of \in Locals
  BY <1>4 DEF Side
<1>6. \A x \in Locals : memory[x] = Holds(x)
  BY <1>1, <1>3 DEF CopyTypeOK
<1>7. Value(side, memory) = Value(side, Initially)
  BY <1>4, <1>5, <1>6 DEF Value, Initially, Side
<1>8. DOMAIN memory = Locals \cup {Spill}
  BY <1>1 DEF CopyTypeOK
<1>9. \A x \in Locals : memory'[x] = After(assignment)[x]
  <2> SUFFICES ASSUME NEW x \in Locals
               PROVE  memory'[x] = After(assignment)[x]
    OBVIOUS
  <2>1. CASE x = side.dst
    BY <1>1, <1>3, <1>4, <1>7, <1>8, <2>1, AfterSides
  <2>2. CASE x # side.dst
    <3>1. memory'[x] = Holds(x)
      BY <1>3, <1>6, <1>8, <2>2
    <3> QED BY <1>1, <1>4, <2>2, <3>1, AfterSides
  <2> QED BY <2>1, <2>2
<1>10. Copies' = Copies /\ Targets' = Targets /\ ToSet(assignment)' = ToSet(assignment)
  BY <1>3, SameAssignment
<1>11. CopyTypeOK'
  BY <1>1, <1>3, <1>8, <1>10 DEF CopyTypeOK
<1>12. ~ Walking' /\ After(assignment)' = After(assignment)
  BY <1>3 DEF Walking
<1> QED BY <1>1, <1>3, <1>9, <1>11, <1>12 DEF Inductive, CopyInvariant

(* Emitting what is not a copy.  All copies are made and stay made.        *)
LEMMA EmitEndKeeps ==
  ASSUME Inductive, EndsAreIndependent, EmitEnd
  PROVE  Inductive'
<1> DEFINE Rest == ToSet(assignment) \ Copies
<1>1. CopyInvariant /\ CopyTypeOK /\ assignment \in Assignments /\ PairsAreKnown
  BY PairsKnown DEF Inductive, CopyInvariant
<1>2. PICK side : side = Head(ends)
  OBVIOUS
<1>3. /\ pc = "next" /\ pc' = "next" /\ toDo = <<>> /\ ends # <<>>
      /\ memory' = [memory EXCEPT ![side.dst] = Value(side, memory)]
      /\ ends' = Tail(ends) /\ assignment' = assignment /\ toDo' = toDo
      /\ ready' = ready /\ loc' = loc
  BY <1>2 DEF EmitEnd, Store
<1>4. /\ Copies' = Copies /\ Targets' = Targets /\ Sources' = Sources
      /\ \A b : Pred(b)' = Pred(b)
  BY <1>3, SameAssignment
<1>5. ~ Walking /\ ~ Walking'
  BY <1>3 DEF Walking
<1>6. /\ side \in Rest /\ ends' \in Seq(Rest) /\ ToSet(ends) = ToSet(ends') \cup {side}
  <2>1. ends \in Seq(Rest)
    BY <1>1 DEF CopyTypeOK
  <2> HIDE DEF Rest
  <2>2. ends' \in Seq(Rest) /\ Len(ends) \in Nat \ {0} /\ Len(ends') = Len(ends) - 1
    BY <1>3, <2>1, EmptySeq, HeadTailProperties
  <2>3. side \in Rest /\ side = ends[1]
    BY <1>2, <1>3, <2>1, HeadTailProperties
  <2>4. \A i \in 1 .. Len(ends') : ends'[i] = ends[i + 1]
    BY <1>3, <2>1, HeadTailProperties
  <2>5. DOMAIN ends = 1 .. Len(ends) /\ DOMAIN ends' = 1 .. Len(ends) - 1
    BY <2>1, <2>2, LenProperties
  <2>6. \A i \in 1 .. Len(ends) : i = 1 \/ (i - 1 \in 1 .. Len(ends) - 1 /\ (i - 1) + 1 = i)
    BY <2>2
  <2>7. \A i \in 1 .. Len(ends) - 1 : i + 1 \in 1 .. Len(ends)
    BY <2>2
  <2>8. 1 \in 1 .. Len(ends)
    BY <2>2
  <2>9. \A y \in ToSet(ends) : y = side \/ y \in ToSet(ends')
    <3> SUFFICES ASSUME NEW i \in 1 .. Len(ends), i # 1
                 PROVE  ends[i] \in ToSet(ends')
      BY <2>3, <2>5 DEF ToSet
    <3>1. i - 1 \in 1 .. Len(ends) - 1 /\ (i - 1) + 1 = i
      BY <2>6
    <3>2. ends'[i - 1] = ends[i]
      BY <2>2, <2>4, <3>1
    <3> QED BY <2>5, <3>1, <3>2 DEF ToSet
  <2>10. \A y \in ToSet(ends') : y \in ToSet(ends)
    BY <2>2, <2>4, <2>5, <2>7 DEF ToSet
  <2>11. side \in ToSet(ends)
    BY <2>3, <2>5, <2>8 DEF ToSet
  <2> QED BY <2>2, <2>3, <2>9, <2>10, <2>11
<1>7. side \in ToSet(assignment) /\ side.kind # "local" /\ side.dst \in Locals \ Targets
  BY <1>1, <1>6 DEF PairsAreKnown, Copies
<1>8. Value(side, memory) = Value(side, Initially)
  BY <1>3, <1>7, EndsReadOldValues
<1>9. /\ DOMAIN memory = Locals \cup {Spill} /\ DOMAIN memory' = Locals \cup {Spill}
      /\ memory'[side.dst] = Value(side, Initially)
      /\ \A x \in Locals : x # side.dst => memory'[x] = memory[x]
  <2>1. DOMAIN memory = Locals \cup {Spill}
    BY <1>1 DEF CopyTypeOK
  <2> QED BY <1>3, <1>7, <1>8, <2>1
<1>10. \A t \in Targets : Made(t)' <=> Made(t)
  <2>1. \A t \in Targets : t \in Locals /\ t # side.dst
    BY <1>1, <1>7 DEF PairsAreKnown
  <2> QED BY <1>4, <1>9, <2>1 DEF Made
<1>11. Unmade' = {}
  BY <1>1, <1>3, <1>4, <1>5, <1>10 DEF CopyInvariant, Unmade
<1>12. ToSet(assignment)' = ToSet(assignment) /\ (ToSet(assignment) \ Copies)' = Rest
  BY <1>3, <1>4
<1>13. CopyTypeOK'
  <2>1. \A x \in Locals : memory'[x] = Holds(x) \/ \E s \in ToSet(assignment) : s.dst = x
    BY <1>1, <1>3, <1>7, <1>9 DEF CopyTypeOK
  <2>2. Seq(ToSet(assignment) \ Copies)' = Seq(Rest)
    BY <1>12
  <2> HIDE DEF Rest
  <2> QED BY <1>1, <1>3, <1>4, <1>6, <1>9, <1>12, <2>1, <2>2 DEF CopyTypeOK
<1>14. \A s \in Rest : s \in ToSet(ends') \/ memory'[s.dst] = Value(s, Initially)
  <2> SUFFICES ASSUME NEW s \in Rest, s \notin ToSet(ends')
               PROVE  memory'[s.dst] = Value(s, Initially)
    OBVIOUS
  <2>1. CASE s = side
    BY <1>9, <2>1
  <2>2. CASE s # side
    <3>1. memory[s.dst] = Value(s, Initially)
      BY <1>1, <1>3, <1>6, <2>2 DEF CopyInvariant
    <3>2. s.dst # side.dst
      BY <1>1, <1>7, <2>2, SidesDiffer
    <3>3. s.dst \in Locals
      BY <1>1 DEF PairsAreKnown
    <3> QED BY <1>9, <3>1, <3>2, <3>3
  <2> QED BY <2>1, <2>2
<1> HIDE DEF Rest
<1> QED BY <1>1, <1>3, <1>5, <1>11, <1>12, <1>13, <1>14 DEF Inductive, CopyInvariant

(* Finishing: every local holds what it was assigned.                      *)
LEMMA FinishKeeps ==
  ASSUME Inductive, Finish
  PROVE  Inductive' /\ \A x \in Locals : memory'[x] = After(assignment)[x]
<1>1. CopyInvariant /\ CopyTypeOK /\ assignment \in Assignments /\ PairsAreKnown
  BY PairsKnown DEF Inductive, CopyInvariant
<1>2. /\ pc = "next" /\ pc' = "done" /\ toDo = <<>> /\ ends = <<>>
      /\ assignment' = assignment /\ memory' = memory /\ toDo' = toDo
      /\ ready' = ready /\ loc' = loc /\ ends' = ends
  BY DEF Finish
<1>3. /\ Copies' = Copies /\ Targets' = Targets /\ ToSet(assignment)' = ToSet(assignment)
  BY <1>2, SameAssignment
<1>4. ~ Walking /\ ~ Walking'
  BY <1>2 DEF Walking
<1>5. /\ Unmade = {}
      /\ \A side \in ToSet(assignment) \ Copies : memory[side.dst] = Value(side, Initially)
  BY <1>1, <1>2, <1>4, NoneLeft DEF CopyInvariant
<1>6. ASSUME NEW side \in ToSet(assignment)
      PROVE  memory[side.dst] = Value(side, Initially)
  <2>1. CASE side \in Copies
    <3>1. Made(side.dst) /\ Pred(side.dst) = side.of /\ side.of \in Locals
      BY <1>1, <1>5, <2>1 DEF PairsAreKnown, Unmade, Sources
    <3>2. side.kind = "local"
      BY <2>1 DEF Copies
    <3> QED BY <3>1, <3>2 DEF Made, Value, Initially
  <2>2. CASE side \notin Copies
    BY <1>5, <2>2
  <2> QED BY <2>1, <2>2
<1>7. ASSUME NEW x \in Locals
      PROVE  memory[x] = After(assignment)[x]
  <2>1. CASE \E side \in ToSet(assignment) : side.dst = x
    BY <1>1, <1>6, <2>1, AfterSides
  <2>2. CASE \A side \in ToSet(assignment) : side.dst # x
    <3>1. memory[x] = Holds(x)
      BY <1>1, <1>2, <2>2 DEF CopyTypeOK
    <3> QED BY <1>1, <2>2, <3>1, AfterSides
  <2> QED BY <2>1, <2>2
<1>8. CopyTypeOK'
  BY <1>1, <1>2, <1>3 DEF CopyTypeOK
<1>9. After(assignment)' = After(assignment)
  BY <1>2
<1> QED BY <1>1, <1>2, <1>4, <1>7, <1>8, <1>9 DEF Inductive, CopyInvariant

(* Every step keeps the invariant.                                         *)
LEMMA StepKeeps ==
  ASSUME Inductive, EndsAreIndependent, [CopyNext]_copyVars
  PROVE  Inductive'
<1>1. CASE UNCHANGED copyVars
  <2>1. /\ assignment' = assignment /\ memory' = memory /\ toDo' = toDo /\ ready' = ready
        /\ loc' = loc /\ target' = target /\ ends' = ends /\ pc' = pc
    BY <1>1 DEF copyVars
  <2>2. /\ Copies' = Copies /\ Targets' = Targets /\ Sources' = Sources
        /\ \A b : Pred(b)' = Pred(b)
    BY <2>1, SameAssignment
  <2>3. \A b : Made(b)' <=> Made(b)
    BY <2>1, <2>2 DEF Made
  <2>4. Unmade' = Unmade /\ (Walking' <=> Walking) /\ ToSet(assignment)' = ToSet(assignment)
    BY <2>1, <2>2, <2>3 DEF Unmade, Walking
  <2>5. CopyTypeOK' <=> CopyTypeOK
    BY <2>1, <2>2, <2>4 DEF CopyTypeOK
  <2>6. /\ SourcesAreKept' <=> SourcesAreKept
        /\ ReadyIsReady' <=> ReadyIsReady
        /\ TheRestWaits' <=> TheRestWaits
    BY <2>1, <2>2, <2>3, <2>4 DEF SourcesAreKept, ReadyIsReady, TheRestWaits
  <2>7. After(assignment)' = After(assignment)
    BY <2>1
  <2> QED BY <2>1, <2>2, <2>4, <2>5, <2>6, <2>7 DEF Inductive, CopyInvariant
<1>2. CASE AssignSingle
  BY <1>2, AssignSingleKeeps
<1>3. CASE Collect
  BY <1>3, CollectKeeps
<1>4. CASE TakeTarget
  BY <1>4, TakeTargetKeeps
<1>5. CASE EmitReady
  BY <1>5, EmitReadyKeeps
<1>6. CASE SaveTarget
  BY <1>6, SaveTargetKeeps
<1>7. CASE SkipTarget
  BY <1>7, SkipTargetKeeps
<1>8. CASE EmitEnd
  BY <1>8, EmitEndKeeps
<1>9. CASE Finish
  BY <1>9, FinishKeeps
<1> QED BY <1>1, <1>2, <1>3, <1>4, <1>5, <1>6, <1>7, <1>8, <1>9 DEF CopyNext

-----------------------------------------------------------------------------
(* Theorems.                                                               *)

(* At every moment of the sequence, the old value of every source that is  *)
(* still to be copied is where loc says, what is ready can be overwritten, *)
(* and what is left when nothing is ready are cycles.                      *)
THEOREM CopyInvariantHolds ==
  ASSUME EndsAreIndependent
  PROVE  CopySpec => []CopyInvariant
<1>1. Init => Inductive
  BY InitSatisfies
<1>2. Inductive /\ [CopyNext]_copyVars => Inductive'
  BY StepKeeps
<1>3. Inductive => CopyInvariant
  BY DEF Inductive
<1> QED BY <1>1, <1>2, <1>3, PTL DEF CopySpec

(* No emitted assignment, and no second use of the one spill local,        *)
(* overwrites a value that a copy still has to read.                       *)
THEOREM CopiesLoseNothing ==
  ASSUME EndsAreIndependent
  PROVE  CopySpec => []NoValueIsLost
<1>1. CopyInvariant => NoValueIsLost
  <2> SUFFICES ASSUME CopyInvariant, pc \in {"next", "drain"}, NEW b \in Targets, ~ Made(b)
               PROVE  memory[loc[Pred(b)]] = Holds(Pred(b))
    BY DEF NoValueIsLost, Made
  <2>1. b \in Unmade
    BY DEF Unmade
  <2>2. Walking
    BY <2>1 DEF CopyInvariant
  <2>3. SourcesAreKept
    BY <2>2 DEF CopyInvariant
  <2>4. Pred(b) \in Sources
    <3>1. PICK side \in Copies : side.dst = b
      BY DEF Targets
    <3>2. (CHOOSE s \in Copies : s.dst = b) \in Copies
      BY <3>1
    <3> QED BY <3>2 DEF Pred, Sources
  <2> QED BY <2>3, <2>4 DEF SourcesAreKept
<1> QED BY <1>1, CopyInvariantHolds, PTL

(* The abstract specification has the same sides, values and effect.       *)
LEMMA SameEffect ==
  /\ Parallel!Side = Side /\ Parallel!Initially = Initially
  /\ \A a : Parallel!After(a) = After(a)
<1>1. Parallel!Side = Side
  BY DEF Side, Parallel!Side
<1>2. Parallel!Initially = Initially
  BY DEF Initially, Parallel!Initially, Holds, Parallel!Holds
<1>3. \A side, m : Parallel!Value(side, m) = Value(side, m)
  BY DEF Value, Parallel!Value
<1>4. \A x : Parallel!Holds(x) = Holds(x)
  BY DEF Holds, Parallel!Holds
<1>5. ASSUME NEW a
      PROVE  Parallel!After(a) = After(a)
  BY <1>2, <1>3, <1>4 DEF After, Parallel!After
<1> QED BY <1>1, <1>2, <1>5

(* The sequence implements the parallel assignment: until it is finished   *)
(* nothing is visible, and its last step is the assignment, all at once.   *)
(* This is the safety part of Implements.                                  *)
THEOREM CopiesAreParallel ==
  ASSUME EndsAreIndependent
  PROVE  CopySpec => Parallel!Init /\ [][Parallel!Assign]_(Parallel!assignVars)
<1>1. Init => Inductive
  BY InitSatisfies
<1>2. Inductive /\ [CopyNext]_copyVars => Inductive'
  BY StepKeeps
<1>3. Init => Parallel!Init
  <2> SUFFICES ASSUME Init PROVE Parallel!Init
    OBVIOUS
  <2>1. assignment \in Seq(Side) /\ pc # "done"
    BY SidesDiffer DEF Init
  <2> QED BY <2>1, SameEffect DEF Parallel!Init
<1>4. Inductive /\ [CopyNext]_copyVars => [Parallel!Assign]_(Parallel!assignVars)
  <2> SUFFICES ASSUME Inductive, [CopyNext]_copyVars
               PROVE  Parallel!Assign \/ UNCHANGED Parallel!assignVars
    OBVIOUS
  <2> DEFINE seen == [x \in Locals |-> memory[x]]
  <2>1. ASSUME AssignSingle \/ Finish
        PROVE  Parallel!Assign
    <3>1. pc # "done" /\ pc' = "done" /\ assignment' = assignment
      BY <2>1 DEF AssignSingle, Finish
    <3>2. \A x \in Locals : memory'[x] = After(assignment)[x]
      BY <2>1, AssignSingleKeeps, FinishKeeps
    <3>3. [x \in Locals |-> memory'[x]] = After(assignment)
      BY <3>2 DEF After
    <3>4. Parallel!After(assignment) = After(assignment)
      BY SameEffect
    <3> QED BY <3>1, <3>3, <3>4 DEF Parallel!Assign
  <2>2. ASSUME Collect \/ TakeTarget \/ EmitReady \/ SaveTarget \/ SkipTarget \/ EmitEnd
        PROVE  UNCHANGED Parallel!assignVars
    <3>1. pc # "done" /\ pc' # "done" /\ assignment' = assignment
      BY <2>2 DEF Collect, TakeTarget, EmitReady, SaveTarget, SkipTarget, EmitEnd
    <3> QED BY <3>1 DEF Parallel!assignVars, Initially
  <2>3. ASSUME UNCHANGED copyVars
        PROVE  UNCHANGED Parallel!assignVars
    BY <2>3 DEF copyVars, Parallel!assignVars
  <2> QED BY <2>1, <2>2, <2>3 DEF CopyNext
<1> QED BY <1>1, <1>2, <1>3, <1>4, PTL DEF CopySpec
=============================================================================
