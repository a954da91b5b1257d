------------------------ MODULE ChunkDecompilerProofs ------------------------
(***************************************************************************)
(* What decompile_chunk guarantees for every chunk, budget and choice of   *)
(* stubs: its worklist never leaves the expansion plan, a prototype whose  *)
(* bytecode was released is not needed again, and every closure of the     *)
(* recovered program has its entry among the upvalues.                     *)
(***************************************************************************)
EXTENDS ChunkDecompiler, PrototypeExpansionProofs

LiveTable == [f \in Prototypes(chunk) |-> [g \in Prototypes(chunk) |-> LiveEdges(f, g)]]

(* The live closures are some of the closures; all of them in a prototype  *)
(* that is expanded and has no dead closure.                               *)
LEMMA LiveFacts ==
  ASSUME ExpansionInvariant, plan = "planned", NEW f \in Prototypes(chunk)
  PROVE  /\ \A g : LiveEdges(f, g) \in Nat /\ LiveEdges(f, g) <= Edges(chunk, f, g)
         /\ \A g : Edges(chunk, f, g) \in Nat
         /\ (~ HasDeadClosure /\ occurrences[f] # 0) => \A g : LiveEdges(f, g) = Edges(chunk, f, g)
<1>1. Len(Code(f)) \in Nat /\ occurrences[f] \in Nat
  BY WalkFacts
<1>2. ASSUME NEW g
      PROVE  /\ LiveEdges(f, g) \in Nat /\ LiveEdges(f, g) <= Edges(chunk, f, g)
             /\ Edges(chunk, f, g) \in Nat
             /\ (~ HasDeadClosure /\ occurrences[f] # 0) => LiveEdges(f, g) = Edges(chunk, f, g)
  <2> DEFINE all == ClosuresOf(chunk, f, g)
             live == LiveClosuresOf(f, g)
  <2>1. live \subseteq all
    BY DEF LiveClosuresOf
  <2>2. IsFiniteSet(all)
    <3>1. all \subseteq 1 .. Len(Code(f))
      BY DEF ClosuresOf, Code
    <3>2. 1 \in Int /\ Len(Code(f)) \in Int
      BY <1>1
    <3> HIDE DEF all
    <3>3. IsFiniteSet(1 .. Len(Code(f)))
      BY <3>2, FS_Interval
    <3> QED BY <3>1, <3>3, FS_Subset
  <2>3. ASSUME ~ HasDeadClosure, occurrences[f] # 0
        PROVE  live = all
    <3> SUFFICES ASSUME NEW i \in all PROVE i \in LiftedPart(Code(f))
      BY <2>1 DEF LiveClosuresOf
    <3>1. i \in 1 .. Len(Code(f)) /\ IsClosure(Code(f)[i])
      BY DEF ClosuresOf, Code
    <3> SUFFICES ASSUME NEW j \in 1 .. i - 1, Code(f)[j].op = "RETURN"
                 PROVE  \E k \in j + 1 .. i - 1 : Code(f)[k].op = "JUMP"
      BY <3>1 DEF LiftedPart
    <3>2. j \in 1 .. Len(Code(f)) /\ j < i /\ occurrences[f] > 0
      BY <1>1, <2>3, <3>1
    <3> QED BY <2>3, <3>1, <3>2 DEF HasDeadClosure
  <2> HIDE DEF all, live
  <2>4. /\ Cardinality(all) \in Nat /\ Cardinality(live) \in Nat
        /\ Cardinality(live) <= Cardinality(all)
    BY <2>1, <2>2, FS_Subset, FS_CardinalityType
  <2> QED BY <2>3, <2>4 DEF LiveEdges, Edges, all, live
<1> QED BY <1>2

(* The instances of p under one instance of f are those under its live     *)
(* children, and itself.                                                   *)
LEMMA UnderFacts ==
  ASSUME ExpansionInvariant, plan = "planned", NEW p \in Prototypes(chunk)
  PROVE  /\ PrecedesEdges(Under(p), LiveTable, p, chunk.count)
         /\ \A f \in Prototypes(chunk) : Under(p)[f] \in Nat
         /\ Under(p)[p] >= 1
<1> DEFINE P == Prototypes(chunk)
           n == chunk.count
           start == [f \in P |-> IF f = p THEN 1 ELSE 0]
           edges == LiveEdgesInto
           ways == Under(p)
           back == [f \in P |-> n + 1 - PlaceOf(f)]
<1>1. n \in Nat /\ P = 0 .. n - 1 /\ SearchInvariant /\ result = "accepted"
  BY WalkFacts
<1>2. \A f, g \in P : /\ LiveEdges(f, g) \in Nat /\ Edges(chunk, f, g) \in Nat
                      /\ LiveEdges(f, g) <= Edges(chunk, f, g)
  BY LiveFacts
<1>3. \A f, g \in P : edges[g][f] = LiveEdges(f, g) /\ LiveTable[f][g] = LiveEdges(f, g)
  BY DEF LiveEdgesInto, LiveTable
<1>4. IsGraph(edges, start, n)
  <2>1. \A x \in 0 .. n - 1 : start[x] \in Nat
    BY <1>1
  <2>2. ASSUME NEW y \in 0 .. n - 1, NEW x \in 0 .. n - 1
        PROVE  edges[y][x] \in Nat
    <3>1. edges[y][x] = LiveEdges(x, y) /\ LiveEdges(x, y) \in Nat
      BY <1>1, <1>2, <1>3
    <3> QED BY <3>1
  <2> HIDE DEF edges, start
  <2> QED BY <1>1, <2>1, <2>2 DEF IsGraph
<1>5. IsRanked(edges, back, n)
  <2>1. \A f \in P : PlaceOf(f) \in 1 .. n
    <3> SUFFICES ASSUME NEW f \in P PROVE PlaceOf(f) \in 1 .. n
      OBVIOUS
    <3>1. PlaceOf(f) \in 1 .. Len(postorder) /\ Len(postorder) \in Nat /\ Len(postorder) <= n
      BY <1>1, OrderFacts
    <3> QED BY <1>1, <3>1
  <2>2. \A f, g \in P : Edges(chunk, f, g) # 0 => PlaceOf(f) < PlaceOf(g)
    <3>1. IsRanked(EdgeCounts(chunk), Place, n)
      BY <1>1, ChunkIsGraph
    <3> QED BY <1>1, <3>1 DEF IsRanked, EdgeCounts, Place
  <2>3. \A x \in 0 .. n - 1 : back[x] \in 1 .. n
    BY <1>1, <2>1
  <2>4. ASSUME NEW y \in 0 .. n - 1, NEW x \in 0 .. n - 1, edges[y][x] # 0
        PROVE  back[y] < back[x]
    <3>1. LiveEdges(x, y) # 0
      BY <1>1, <1>3, <2>4
    <3>2. Edges(chunk, x, y) # 0
      <4>1. /\ LiveEdges(x, y) \in Nat /\ Edges(chunk, x, y) \in Nat
            /\ LiveEdges(x, y) <= Edges(chunk, x, y)
        BY <1>1, <1>2
      <4> QED BY <3>1, <4>1
    <3>3. PlaceOf(x) < PlaceOf(y)
      BY <1>1, <2>2, <3>2
    <3> QED BY <1>1, <2>1, <3>3
  <2> QED BY <2>3, <2>4 DEF IsRanked
<1>6. ways = AllWalks(edges, start, n)
  BY DEF Under
<1> HIDE DEF ways, edges, start, back
<1>7. \A f \in 0 .. n - 1 : /\ ways[f] \in Nat
                            /\ ways[f] = start[f] + Total(Entering(edges, ways, f, n), n)
  BY <1>4, <1>5, <1>6, AllWalksEquation
<1>8. ASSUME NEW f \in P
      PROVE  Entering(edges, ways, f, n) = [q \in 0 .. n - 1 |-> ways[q] * LiveTable[f][q]]
  BY <1>1, <1>3 DEF Entering
<1>9. \A f \in P : start[f] = IF f = p THEN 1 ELSE 0
  BY DEF start
<1>10. PrecedesEdges(ways, LiveTable, p, n)
  <2> SUFFICES ASSUME NEW f \in 0 .. n - 1
               PROVE  /\ ways[f] \in Nat
                      /\ ways[f] = (IF f = p THEN 1 ELSE 0)
                                   + Total([q \in 0 .. n - 1 |-> ways[q] * LiveTable[f][q]], n)
    BY DEF PrecedesEdges
  <2>1. /\ Entering(edges, ways, f, n) = [q \in 0 .. n - 1 |-> ways[q] * LiveTable[f][q]]
        /\ start[f] = IF f = p THEN 1 ELSE 0
    BY <1>1, <1>8, <1>9
  <2> QED BY <1>7, <2>1
<1>11. ways[p] >= 1
  <2> DEFINE entering == Entering(edges, ways, p, n)
  <2>1. \A q \in 0 .. n - 1 : entering[q] \in Nat
    <3> SUFFICES ASSUME NEW q \in 0 .. n - 1 PROVE entering[q] \in Nat
      OBVIOUS
    <3>1. entering[q] = ways[q] * LiveEdges(p, q) /\ ways[q] \in Nat /\ LiveEdges(p, q) \in Nat
      BY <1>1, <1>2, <1>3, <1>7 DEF Entering
    <3>2. \A a, b \in Nat : a * b \in Nat
      OBVIOUS
    <3> HIDE DEF entering
    <3> QED BY <3>1, <3>2
  <2> HIDE DEF entering
  <2>2. Total(entering, n) \in Nat
    BY <1>1, <2>1, TotalOfNaturals
  <2>3. ways[p] = 1 + Total(entering, n)
    BY <1>1, <1>7, <1>9 DEF entering
  <2> QED BY <2>2, <2>3
<1> QED BY <1>1, <1>7, <1>10, <1>11 DEF ways

(* The worklist with main leads to no more than the plan, and to all of it *)
(* without dead closures.                                                  *)
LEMMA UnderMainIsPlanned ==
  ASSUME ExpansionInvariant, plan = "planned", NEW p \in Prototypes(chunk)
  PROVE  /\ Under(p)[chunk.main] \in Nat
         /\ Under(p)[chunk.main] <= occurrences[p]
         /\ ~ HasDeadClosure => Under(p)[chunk.main] = occurrences[p]
<1> DEFINE P == Prototypes(chunk)
           n == chunk.count
           edges == EdgeCounts(chunk)
<1>1. n \in Nat /\ P = 0 .. n - 1 /\ chunk.main \in P
  BY WalkFacts
<1>2. PrecedesEdges(Under(p), LiveTable, p, n) /\ Under(p)[chunk.main] \in Nat
  BY <1>1, UnderFacts
<1>3. FollowsEdges(occurrences, edges, chunk.main, n)
  BY PlanFollowsEdges
<1>4. \A f, g \in P : /\ edges[f][g] = Edges(chunk, f, g) /\ LiveTable[f][g] = LiveEdges(f, g)
                      /\ LiveEdges(f, g) \in Nat /\ Edges(chunk, f, g) \in Nat
                      /\ LiveEdges(f, g) <= Edges(chunk, f, g)
  BY LiveFacts DEF EdgeCounts, LiveTable
<1>5. HasFewer(LiveTable, edges, n)
  <2> SUFFICES ASSUME NEW f \in 0 .. n - 1, NEW g \in 0 .. n - 1
               PROVE  /\ edges[f][g] \in Nat /\ LiveTable[f][g] \in Nat
                      /\ LiveTable[f][g] <= edges[f][g]
    BY DEF HasFewer
  <2>1. f \in P /\ g \in P
    BY <1>1
  <2> HIDE DEF P, n, edges
  <2> QED BY <1>4, <2>1
<1>6. ~ HasDeadClosure => HasTheSame(LiveTable, edges, occurrences, n)
  <2> SUFFICES ASSUME ~ HasDeadClosure, NEW f \in 0 .. n - 1, NEW g \in 0 .. n - 1,
                      occurrences[f] # 0
               PROVE  LiveTable[f][g] = edges[f][g]
    BY DEF HasTheSame
  <2>1. f \in P /\ g \in P
    BY <1>1
  <2>2. LiveEdges(f, g) = Edges(chunk, f, g)
    BY <2>1, LiveFacts
  <2> HIDE DEF P, n, edges
  <2> QED BY <1>4, <2>1, <2>2
<1>8. p \in 0 .. n - 1 /\ chunk.main \in 0 .. n - 1
  BY <1>1
<1> HIDE DEF edges, n, P
<1>7. /\ Under(p)[chunk.main] <= occurrences[p]
      /\ HasTheSame(LiveTable, edges, occurrences, n) => Under(p)[chunk.main] = occurrences[p]
  <2> DEFINE main == chunk.main
             ways == Under(p)
             few == LiveTable
             counts == occurrences
  <2>1. /\ n \in Nat /\ main \in 0 .. n - 1 /\ p \in 0 .. n - 1
        /\ FollowsEdges(counts, edges, main, n) /\ PrecedesEdges(ways, few, p, n)
        /\ HasFewer(few, edges, n)
    BY <1>1, <1>2, <1>3, <1>5, <1>8
  <2> HIDE DEF main, ways, few, counts
  <2>2. /\ ways[main] <= counts[p]
        /\ HasTheSame(few, edges, counts, n) => ways[main] = counts[p]
    BY <2>1, WalksMeet
  <2> QED BY <2>2 DEF main, ways, few, counts
<1> QED BY <1>2, <1>6, <1>7

(* The closures the lifter meets in f are its live closures.               *)
ClosuresMet(f) == {i \in LiftedPart(Code(f)) : IsClosure(Code(f)[i])}

MetChild(f, i) == ClosureChild(chunk, f, Code(f)[i])

(* How many of them create a prototype below g.                            *)
MetBelow(f, g) == Cardinality({i \in ClosuresMet(f) : MetChild(f, i) < g})

(* The lifter meets finitely many closures, and those below g + 1 are      *)
(* those below g and the live edges to g.                                  *)
LEMMA MetFacts ==
  ASSUME ExpansionInvariant, plan = "planned", NEW f \in Prototypes(chunk), occurrences[f] > 0
  PROVE  /\ IsFiniteSet(ClosuresMet(f)) /\ Cardinality(ClosuresMet(f)) \in Nat
         /\ MetBelow(f, 0) = 0
         /\ MetBelow(f, chunk.count) = Cardinality(ClosuresMet(f))
         /\ \A g \in 0 .. chunk.count : MetBelow(f, g) \in Nat
         /\ \A g \in Prototypes(chunk) : MetBelow(f, g + 1) = MetBelow(f, g) + LiveEdges(f, g)
         /\ \A g, h \in 0 .. chunk.count : g <= h => MetBelow(f, g) <= MetBelow(f, h)
<1> DEFINE P == Prototypes(chunk)
           n == chunk.count
           all == ClosuresMet(f)
           child(i) == MetChild(f, i)
           under(g) == {i \in all : child(i) < g}
<1>1. /\ n \in Nat /\ P = 0 .. n - 1 /\ IsChunk(chunk)
      /\ Code(f) \in Seq(Instruction) /\ Len(Code(f)) \in Nat
  BY WalkFacts
<1>2. all \subseteq 1 .. Len(Code(f))
  BY DEF ClosuresMet, LiftedPart
<1>3. IsFiniteSet(all) /\ Cardinality(all) \in Nat
  <2>1. 1 \in Int /\ Len(Code(f)) \in Int
    BY <1>1
  <2> HIDE DEF all
  <2>2. IsFiniteSet(1 .. Len(Code(f)))
    BY <2>1, FS_Interval
  <2> QED BY <1>2, <2>2, FS_Subset, FS_CardinalityType
<1>4. \A i \in all : ValidClosure(chunk, f, Code(f)[i])
  <2>1. PlanCoversClosures
    BY InvariantGivesCoverage
  <2> QED BY <1>2, <2>1 DEF PlanCoversClosures, ClosuresMet
<1>5. \A i \in all : child(i) \in P
  <2> SUFFICES ASSUME NEW i \in all PROVE child(i) \in P
    OBVIOUS
  <2>1. i \in 1 .. Len(Code(f))
    BY <1>2
  <2>2. Code(f)[i] \in Instruction
    BY <1>1, <2>1, ElementOfSeq
  <2>3. ValidClosure(chunk, f, Code(f)[i])
    BY <1>4
  <2> QED BY <1>1, <2>2, <2>3, ClosureFacts DEF MetChild
<1>6. \A g : LiveClosuresOf(f, g) = {i \in all : child(i) = g}
  BY <1>4 DEF LiveClosuresOf, ClosuresOf, ClosuresMet, LiftedPart, Code, MetChild
<1>7. \A g : MetBelow(f, g) = Cardinality(under(g))
  BY DEF MetBelow
<1>8. \A i \in all : child(i) \in Int /\ child(i) >= 0 /\ child(i) < n
  BY <1>1, <1>5
<1> HIDE DEF all, child, P, n
<1>9. \A g : under(g) \subseteq all
  OBVIOUS
<1>10. \A g : IsFiniteSet(under(g)) /\ Cardinality(under(g)) \in Nat
  <2> HIDE DEF under
  <2> QED BY <1>3, <1>9, FS_Subset, FS_CardinalityType
<1>11. Cardinality(under(0)) = 0
  <2>1. under(0) = {}
    BY <1>8
  <2> QED BY <2>1, FS_EmptySet
<1>12. under(n) = all
  BY <1>8
<1>13. ASSUME NEW g \in P
       PROVE  Cardinality(under(g + 1)) = Cardinality(under(g)) + LiveEdges(f, g)
  <2> DEFINE here == {i \in all : child(i) = g}
  <2>0. g \in Int
    BY <1>1
  <2>1. under(g + 1) = under(g) \cup here
    BY <1>8, <2>0
  <2>2. under(g) \cap here = {}
    BY <1>8, <2>0
  <2>3. IsFiniteSet(here)
    <3>1. here \subseteq all
      OBVIOUS
    <3> HIDE DEF here
    <3> QED BY <1>3, <3>1, FS_Subset
  <2>4. LiveEdges(f, g) = Cardinality(here)
    BY <1>6 DEF LiveEdges
  <2> HIDE DEF under, here
  <2>5. Cardinality(under(g) \cup here) = Cardinality(under(g)) + Cardinality(here) - Cardinality(under(g) \cap here)
    BY <1>10, <2>3, FS_Union
  <2>6. Cardinality(under(g) \cap here) = 0
    BY <2>2, FS_EmptySet
  <2>7. Cardinality(here) \in Nat
    BY <2>3, FS_CardinalityType
  <2>8. Cardinality(under(g)) \in Nat
    BY <1>10
  <2>9. Cardinality(under(g + 1)) = Cardinality(under(g)) + Cardinality(here) - 0
    BY <2>1, <2>5, <2>6
  <2> QED BY <2>4, <2>7, <2>8, <2>9
<1>14. ASSUME NEW g \in 0 .. n, NEW h \in 0 .. n, g <= h
       PROVE  Cardinality(under(g)) <= Cardinality(under(h))
  <2>1. under(g) \subseteq under(h)
    BY <1>1, <1>8, <1>14
  <2> HIDE DEF under
  <2> QED BY <1>10, <2>1, FS_Subset
<1> HIDE DEF under
<1> QED BY <1>3, <1>7, <1>10, <1>11, <1>12, <1>13, <1>14 DEF all, P, n

(* The children of an instance of f: one per live closure, each of the     *)
(* prototype the closure creates.                                          *)
LEMMA ChildrenFacts ==
  ASSUME ExpansionInvariant, plan = "planned", NEW f \in Prototypes(chunk), occurrences[f] > 0,
         f \notin released
  PROVE  /\ Len(LiftedChildren(f)) \in Nat
         /\ DOMAIN LiftedChildren(f) = 1 .. Len(LiftedChildren(f))
         /\ \A i \in 1 .. Len(LiftedChildren(f)) : LiftedChildren(f)[i] \in Prototypes(chunk)
         /\ \A q \in Prototypes(chunk) :
               Cardinality({i \in 0 .. Len(LiftedChildren(f)) - 1 : LiftedChildren(f)[i + 1] = q})
                  = LiveEdges(f, q)
<1> DEFINE P == Prototypes(chunk)
           n == chunk.count
           k == Cardinality(ClosuresMet(f))
           b(g) == MetBelow(f, g)
           list == LiftedChildren(f)
<1>1. n \in Nat /\ P = 0 .. n - 1
  BY WalkFacts
<1>2. /\ k \in Nat /\ b(0) = 0 /\ b(n) = k
      /\ \A g \in 0 .. n : b(g) \in Nat
      /\ \A g \in P : b(g + 1) = b(g) + LiveEdges(f, g)
      /\ \A g, h \in 0 .. n : g <= h => b(g) <= b(h)
  BY MetFacts
<1>3. list = [i \in 1 .. k |-> CHOOSE g \in P : b(g) < i /\ i <= b(g + 1)]
  <2>1. KeptCode(f) = Code(f)
    BY DEF KeptCode
  <2> QED BY <2>1 DEF LiftedChildren, MetBelow, MetChild, ClosuresMet
<1> HIDE DEF k, b, list, P, n
<1>5. ASSUME NEW i \in 1 .. k
      PROVE  \E g \in P : b(g) < i /\ i <= b(g + 1)
  <2> DEFINE T == {g \in 0 .. n : i <= b(g)}
  <2>1. n \in T /\ T \subseteq Nat
    BY <1>1, <1>2
  <2>2. PICK h \in T : \A g \in T : h <= g
    <3> HIDE DEF T
    <3> QED BY <2>1, LeastNatural
  <2>3. h \in 0 .. n /\ i <= b(h) /\ h # 0
    <3>1. ~ (i <= b(0)) /\ i \in Nat
      BY <1>2
    <3> QED BY <2>2, <3>1
  <2>4. h - 1 \in P /\ h - 1 \in 0 .. n /\ h = (h - 1) + 1 /\ ~ (h <= h - 1)
    BY <1>1, <2>3
  <2>5. ~ (i <= b(h - 1))
    BY <2>2, <2>4
  <2>6. b(h - 1) \in Nat /\ i \in Nat
    BY <1>2, <2>4
  <2>7. b(h - 1) < i
    BY <2>5, <2>6
  <2>8. i <= b((h - 1) + 1)
    BY <2>3, <2>4
  <2> QED BY <2>4, <2>7, <2>8
<1>6. \A i \in 1 .. k : list[i] \in P /\ b(list[i]) < i /\ i <= b(list[i] + 1)
  BY <1>3, <1>5
<1>7. /\ DOMAIN list = 1 .. k /\ Len(list) = k
  <2>1. DOMAIN list = 1 .. k
    BY <1>3
  <2>2. list \in Seq(P)
    BY <1>2, <1>3, <1>6
  <2>3. Len(list) \in Nat /\ DOMAIN list = 1 .. Len(list)
    BY <2>2, LenProperties
  <2> QED BY <1>2, <2>1, <2>3
<1>8. ASSUME NEW q \in P
      PROVE  Cardinality({i \in 0 .. k - 1 : list[i + 1] = q}) = LiveEdges(f, q)
  <2> DEFINE S == {i \in 0 .. k - 1 : list[i + 1] = q}
             from == b(q)
             to == b(q + 1)
  <2>1. /\ from \in Nat /\ to \in Nat /\ to = from + LiveEdges(f, q) /\ to <= k /\ from <= to
        /\ LiveEdges(f, q) \in Nat
    <3>1. q \in 0 .. n /\ q + 1 \in 0 .. n /\ q <= q + 1 /\ q + 1 <= n /\ n \in 0 .. n
      BY <1>1
    <3>2. LiveEdges(f, q) \in Nat
      BY LiveFacts
    <3> QED BY <1>2, <3>1, <3>2
  <2>2. ASSUME NEW i \in 0 .. k - 1
        PROVE  list[i + 1] = q <=> from <= i /\ i <= to - 1
    <3> DEFINE g == list[i + 1]
    <3>1. i + 1 \in 1 .. k /\ i \in Nat
      BY <1>2
    <3>2. g \in P /\ b(g) < i + 1 /\ i + 1 <= b(g + 1)
      BY <1>6, <3>1
    <3>3. /\ g \in 0 .. n /\ g + 1 \in 0 .. n /\ q \in 0 .. n /\ q + 1 \in 0 .. n
          /\ g \in Int /\ q \in Int
      BY <1>1, <3>2
    <3>4. b(g) \in Nat /\ b(g + 1) \in Nat
      BY <1>2, <3>3
    <3> HIDE DEF g, S
    <3>5. CASE g = q
      BY <2>1, <3>1, <3>2, <3>4, <3>5 DEF g
    <3>6. CASE g < q
      <4>1. g + 1 <= q
        BY <3>3, <3>6
      <4>2. b(g + 1) <= b(q)
        BY <1>2, <3>3, <4>1
      <4> QED BY <2>1, <3>1, <3>2, <3>3, <3>4, <3>6, <4>2 DEF g
    <3>7. CASE q < g
      <4>1. q + 1 <= g
        BY <3>3, <3>7
      <4>2. b(q + 1) <= b(g)
        BY <1>2, <3>3, <4>1
      <4> QED BY <2>1, <3>1, <3>2, <3>3, <3>4, <3>7, <4>2 DEF g
    <3> QED BY <3>3, <3>5, <3>6, <3>7
  <2>3. S = from .. to - 1
    <3> HIDE DEF from, to
    <3>1. \A i \in from .. to - 1 : i \in 0 .. k - 1
      BY <1>2, <2>1
    <3> QED BY <1>2, <2>1, <2>2, <3>1
  <2> HIDE DEF from, to, S
  <2>4. Cardinality(from .. to - 1) = IF from > to - 1 THEN 0 ELSE (to - 1) - from + 1
    <3>1. from \in Int /\ to - 1 \in Int
      BY <2>1
    <3> QED BY <3>1, FS_Interval
  <2>5. Cardinality(S) = LiveEdges(f, q)
    BY <2>1, <2>3, <2>4
  <2> QED BY <2>5 DEF S
<1> QED BY <1>2, <1>6, <1>7, <1>8 DEF list, P

-----------------------------------------------------------------------------
(* The worklist after an instance of f, the last one on it, was replaced   *)
(* by its children.                                                        *)
Item == [instance : Nat, function : Prototypes(chunk)]

Items(children, m) == [n \in DOMAIN children |-> [instance |-> m + n, function |-> children[n]]]

IsListOf(children, k) ==
    /\ k \in Nat /\ DOMAIN children = 1 .. k
    /\ \A i \in 1 .. k : children[i] \in Prototypes(chunk)

IsReplaced(later, w, children, k, m) ==
    /\ later \in Seq(Item)
    /\ Len(later) = (Len(w) - 1) + k
    /\ \A i \in 1 .. Len(w) - 1 : later[i] = w[i]
    /\ \A j \in 1 .. k : later[(Len(w) - 1) + j] = [instance |-> m + j, function |-> children[j]]

(* Front and concatenation, item by item.                                  *)
LEMMA ReplacedFacts ==
  ASSUME NEW w \in Seq(Item), w # <<>>, NEW m \in Nat, NEW children, NEW k, IsListOf(children, k)
  PROVE  /\ Len(w) \in Nat /\ Len(w) >= 1 /\ w[Len(w)] \in Item
         /\ IsReplaced(Front(w) \o Items(children, m), w, children, k, m)
<1> DEFINE new == Items(children, m)
           l == Len(w)
<1> USE DEF IsListOf
<1>1. l \in Nat /\ l >= 1 /\ w[l] \in Item
  <2>1. l \in Nat /\ l # 0
    BY LenProperties
  <2>2. l \in 1 .. l
    BY <2>1
  <2> QED BY <2>1, <2>2, ElementOfSeq
<1>2. new = [n \in 1 .. k |-> [instance |-> m + n, function |-> children[n]]]
  BY DEF Items
<1>3. new \in Seq(Item) /\ Len(new) = k
  <2>1. \A n \in 1 .. k : [instance |-> m + n, function |-> children[n]] \in Item
    BY DEF Item
  <2>2. new \in [1 .. k -> Item]
    BY <1>2, <2>1
  <2>3. new \in Seq(Item)
    BY <2>2
  <2>4. Len(new) \in Nat /\ DOMAIN new = 1 .. Len(new)
    BY <2>3, LenProperties
  <2>5. DOMAIN new = 1 .. k
    BY <1>2
  <2> HIDE DEF new
  <2> DEFINE len == Len(new)
  <2>6. len \in Nat /\ 1 .. len = 1 .. k
    BY <2>4, <2>5
  <2> HIDE DEF len
  <2>7. \A a, b \in Nat : 1 .. a = 1 .. b => a = b
    <3> SUFFICES ASSUME NEW a \in Nat, NEW b \in Nat, 1 .. a = 1 .. b, a < b PROVE FALSE
      <4>1. \A a, b \in Nat : a < b \/ b < a \/ a = b
        OBVIOUS
      <4> QED BY <4>1
    <3>1. b \in 1 .. b /\ b \notin 1 .. a
      OBVIOUS
    <3> QED BY <3>1
  <2>8. len = k
    BY <2>6, <2>7
  <2> QED BY <2>3, <2>8 DEF len
<1>4. /\ Front(w) \in Seq(Item) /\ Len(Front(w)) = l - 1
      /\ \A i \in 1 .. l - 1 : Front(w)[i] = w[i]
  BY <1>1, FrontFacts
<1> HIDE DEF new, l
<1>5. /\ Front(w) \o new \in Seq(Item)
      /\ Len(Front(w) \o new) = (l - 1) + k
      /\ \A i \in 1 .. (l - 1) + k :
            (Front(w) \o new)[i] = IF i <= l - 1 THEN Front(w)[i] ELSE new[i - (l - 1)]
  <2> DEFINE first == Front(w)
  <2>1. first \in Seq(Item) /\ Len(first) = l - 1 /\ Len(new) = k /\ new \in Seq(Item)
    BY <1>3, <1>4
  <2> HIDE DEF first
  <2>2. /\ first \o new \in Seq(Item)
        /\ Len(first \o new) = Len(first) + Len(new)
        /\ \A i \in 1 .. Len(first) + Len(new) :
              (first \o new)[i] = IF i <= Len(first) THEN first[i] ELSE new[i - Len(first)]
    BY <2>1, ConcatProperties
  <2> QED BY <2>1, <2>2 DEF first
<1>6. ASSUME NEW i \in 1 .. l - 1 PROVE (Front(w) \o new)[i] = w[i]
  <2>1. i \in 1 .. (l - 1) + k /\ i <= l - 1
    BY <1>1
  <2> QED BY <1>4, <1>5, <2>1
<1>7. ASSUME NEW j \in 1 .. k
      PROVE  (Front(w) \o new)[(l - 1) + j] = [instance |-> m + j, function |-> children[j]]
  <2> DEFINE i == (l - 1) + j
  <2>1. i \in 1 .. (l - 1) + k /\ ~ (i <= l - 1) /\ i - (l - 1) = j
    BY <1>1
  <2> HIDE DEF i
  <2>2. (Front(w) \o new)[i] = new[j]
    BY <1>5, <2>1
  <2> QED BY <1>2, <2>2 DEF i
<1> QED BY <1>1, <1>5, <1>6, <1>7 DEF new, l, IsReplaced

AheadOf(w, p) == Total([n \in 0 .. Len(w) - 1 |-> Under(p)[w[n + 1].function]], Len(w))

(* The instances of p ahead are no fewer than those under an instance that *)
(* is on the worklist.                                                     *)
LEMMA AheadFacts ==
  ASSUME ExpansionInvariant, plan = "planned", NEW w \in Seq(Item), NEW p \in Prototypes(chunk)
  PROVE  /\ AheadOf(w, p) \in Nat
         /\ \A i \in 1 .. Len(w) : Under(p)[w[i].function] <= AheadOf(w, p)
         /\ w = <<>> => AheadOf(w, p) = 0
<1> DEFINE h == [n \in 0 .. Len(w) - 1 |-> Under(p)[w[n + 1].function]]
           l == Len(w)
<1>1. l \in Nat
  BY LenProperties
<1>2. \A i \in 1 .. l : w[i] \in Item /\ w[i].function \in Prototypes(chunk)
  <2>1. \A i \in 1 .. l : w[i] \in Item
    BY ElementOfSeq
  <2> QED BY <2>1 DEF Item
<1>3. \A f \in Prototypes(chunk) : Under(p)[f] \in Nat
  BY UnderFacts
<1>4. \A n \in 0 .. l - 1 : n + 1 \in 1 .. l /\ h[n] = Under(p)[w[n + 1].function] /\ h[n] \in Nat
  BY <1>1, <1>2, <1>3
<1>5. \A i \in 1 .. l : i - 1 \in 0 .. l - 1 /\ h[i - 1] = Under(p)[w[i].function]
  <2> SUFFICES ASSUME NEW i \in 1 .. l
               PROVE  i - 1 \in 0 .. l - 1 /\ h[i - 1] = Under(p)[w[i].function]
    OBVIOUS
  <2>1. i - 1 \in 0 .. l - 1 /\ (i - 1) + 1 = i
    BY <1>1
  <2> QED BY <1>4, <2>1
<1>6. AheadOf(w, p) = Total(h, l)
  BY DEF AheadOf
<1>7. w = <<>> => l = 0
  BY EmptySeq
<1> HIDE DEF h, l
<1>8. Total(h, l) \in Nat /\ \A n \in 0 .. l - 1 : h[n] <= Total(h, l)
  BY <1>1, <1>4, TotalOfNaturals
<1>9. l = 0 => Total(h, l) = 0
  <2> SUFFICES ASSUME l = 0 PROVE Total(h, l) = 0
    OBVIOUS
  <2>1. \A n \in 0 .. l - 1 : h[n] = 0
    BY <1>1
  <2> QED BY <1>1, <2>1, TotalOfZeros
<1> QED BY <1>5, <1>6, <1>7, <1>8, <1>9 DEF l

(* To replace an instance of f by its children takes one instance of f out *)
(* of what is ahead, and nothing else.                                     *)
LEMMA AheadChanges ==
  ASSUME ExpansionInvariant, plan = "planned", NEW w \in Seq(Item), w # <<>>,
         NEW f, f = w[Len(w)].function, occurrences[f] > 0, f \notin released,
         NEW m \in Nat, NEW p \in Prototypes(chunk)
  PROVE  AheadOf(Front(w) \o Items(LiftedChildren(f), m), p) =
            AheadOf(w, p) - (IF p = f THEN 1 ELSE 0)
<1> DEFINE P == Prototypes(chunk)
           n == chunk.count
           l == Len(w)
           children == LiftedChildren(f)
           k == Len(children)
           later == Front(w) \o Items(children, m)
           u == Under(p)
           old == [i \in 0 .. l - 1 |-> u[w[i + 1].function]]
           new == [i \in 0 .. ((l - 1) + k) - 1 |-> u[later[i + 1].function]]
           own == [i \in 0 .. k - 1 |-> new[(l - 1) + i]]
           edges == [q \in 0 .. n - 1 |-> LiveEdges(f, q) * u[q]]
           turned == [q \in 0 .. n - 1 |-> u[q] * LiveTable[f][q]]
<1>1. n \in Nat /\ P = 0 .. n - 1
  BY WalkFacts
<1>2. l \in Nat /\ l >= 1 /\ f \in P
  <2>1. l \in Nat /\ l # 0
    BY EmptySeq, LenProperties
  <2>2. l \in 1 .. l
    BY <2>1
  <2>3. w[l] \in Item
    BY <2>1, <2>2, ElementOfSeq
  <2> QED BY <2>1, <2>3 DEF Item
<1>3. /\ k \in Nat /\ DOMAIN children = 1 .. k
      /\ \A i \in 1 .. k : children[i] \in P
      /\ \A q \in P : Cardinality({i \in 0 .. k - 1 : children[i + 1] = q}) = LiveEdges(f, q)
  BY <1>2, ChildrenFacts
<1>4. /\ later \in Seq(Item) /\ Len(later) = (l - 1) + k
      /\ \A i \in 1 .. l - 1 : later[i] = w[i]
      /\ \A j \in 1 .. k : later[(l - 1) + j] = [instance |-> m + j, function |-> children[j]]
  <2> DEFINE list == children
             len == k
  <2>1. IsListOf(list, len)
    BY <1>3 DEF IsListOf
  <2> HIDE DEF list, len
  <2>2. IsReplaced(Front(w) \o Items(list, m), w, list, len, m)
    BY <2>1, ReplacedFacts
  <2> QED BY <2>2 DEF list, len, IsReplaced
<1>5. /\ \A q \in P : u[q] \in Nat
      /\ u[f] = (IF f = p THEN 1 ELSE 0) + Total(turned, n)
  <2>1. PrecedesEdges(u, LiveTable, p, n) /\ \A q \in P : u[q] \in Nat
    BY UnderFacts
  <2>2. f \in 0 .. n - 1
    BY <1>1, <1>2
  <2> QED BY <2>1, <2>2 DEF PrecedesEdges
<1>6. \A i \in 1 .. l : w[i].function \in P
  <2>1. \A i \in 1 .. l : w[i] \in Item
    BY ElementOfSeq
  <2> QED BY <2>1 DEF Item
<1>7. AheadOf(w, p) = Total(old, l) /\ AheadOf(later, p) = Total(new, (l - 1) + k)
  BY <1>4 DEF AheadOf
<1>8. \A i \in 0 .. l - 1 : i + 1 \in 1 .. l /\ old[i] = u[w[i + 1].function] /\ old[i] \in Nat
  BY <1>2, <1>5, <1>6
<1>9. \A i \in 0 .. (l - 1) - 1 : new[i] = old[i] /\ old[i] \in Nat
  <2> SUFFICES ASSUME NEW i \in 0 .. (l - 1) - 1
               PROVE  new[i] = old[i] /\ old[i] \in Nat
    OBVIOUS
  <2>1. i \in 0 .. l - 1 /\ i \in 0 .. ((l - 1) + k) - 1 /\ i + 1 \in 1 .. l - 1
    BY <1>2, <1>3
  <2>2. new[i] = u[later[i + 1].function]
    BY <2>1
  <2>3. later[i + 1] = w[i + 1]
    BY <1>4, <2>1
  <2> QED BY <1>8, <2>1, <2>2, <2>3
<1>10. \A i \in 0 .. k - 1 : own[i] = u[children[i + 1]] /\ own[i] \in Nat /\ own[i] = new[(l - 1) + i]
                             /\ children[i + 1] \in P
  <2> SUFFICES ASSUME NEW i \in 0 .. k - 1
               PROVE  /\ own[i] = u[children[i + 1]] /\ own[i] \in Nat /\ own[i] = new[(l - 1) + i]
                      /\ children[i + 1] \in P
    OBVIOUS
  <2>1. (l - 1) + i \in 0 .. ((l - 1) + k) - 1 /\ i + 1 \in 1 .. k
        /\ ((l - 1) + i) + 1 = (l - 1) + (i + 1)
    BY <1>2, <1>3
  <2>2. own[i] = new[(l - 1) + i] /\ new[(l - 1) + i] = u[later[((l - 1) + i) + 1].function]
    BY <2>1
  <2>3. later[(l - 1) + (i + 1)].function = children[i + 1] /\ children[i + 1] \in P
    <3> DEFINE j == i + 1
    <3>1. j \in 1 .. k
      BY <2>1
    <3> HIDE DEF j, later, k, l, children
    <3>2. later[(l - 1) + j] = [instance |-> m + j, function |-> children[j]]
      BY <1>4, <3>1
    <3>3. later[(l - 1) + j].function = children[j] /\ children[j] \in P
      BY <1>3, <3>1, <3>2
    <3> QED BY <3>3 DEF j
  <2> QED BY <1>5, <2>1, <2>2, <2>3
<1>11. \A q \in P : LiveEdges(f, q) \in Nat
  BY <1>2, LiveFacts
<1>12. Total(edges, n) = Total(turned, n)
  <2>1. \A q \in 0 .. n - 1 : edges[q] \in Int /\ edges[q] = turned[q]
    <3> SUFFICES ASSUME NEW q \in 0 .. n - 1 PROVE edges[q] \in Int /\ edges[q] = turned[q]
      OBVIOUS
    <3>1. edges[q] = LiveEdges(f, q) * u[q] /\ turned[q] = u[q] * LiveEdges(f, q)
      BY <1>1, <1>2 DEF LiveTable
    <3>2. LiveEdges(f, q) \in Nat /\ u[q] \in Nat
      BY <1>1, <1>5, <1>11
    <3>3. \A a, b \in Nat : a * b \in Int /\ a * b = b * a
      OBVIOUS
    <3> HIDE DEF edges, turned, u
    <3> QED BY <3>1, <3>2, <3>3
  <2> HIDE DEF edges, turned
  <2> QED BY <1>1, <2>1, TotalEqual
<1>13. Total(own, k) = Total(edges, n)
  <2> DEFINE s == [i \in 0 .. k - 1 |-> children[i + 1]]
  <2>1. ASSUME NEW q \in 0 .. n - 1
        PROVE  /\ u[q] \in Int
               /\ edges[q] = Cardinality({i \in 0 .. k - 1 : s[i] = q}) * u[q]
    <3>1. {i \in 0 .. k - 1 : s[i] = q} = {i \in 0 .. k - 1 : children[i + 1] = q}
      OBVIOUS
    <3>2. Cardinality({i \in 0 .. k - 1 : children[i + 1] = q}) = LiveEdges(f, q)
      BY <1>1, <1>3
    <3>3. edges[q] = LiveEdges(f, q) * u[q]
      OBVIOUS
    <3>4. u[q] \in Nat
      BY <1>1, <1>5
    <3>5. u[q] \in Int
      BY <3>4
    <3> HIDE DEF edges, s, u, children, k
    <3> QED BY <3>1, <3>2, <3>3, <3>5
  <2>2. \A i \in 0 .. k - 1 : s[i] \in 0 .. n - 1 /\ own[i] = u[s[i]]
    <3>1. \A i \in 0 .. k - 1 : s[i] = children[i + 1]
      OBVIOUS
    <3> HIDE DEF s, own, children, u, k
    <3> QED BY <1>1, <1>10, <3>1
  <2> HIDE DEF s, own, edges, u, children, k, n
  <2>3. IsGrouped(n, k, s, u, own, edges)
    BY <2>1, <2>2 DEF IsGrouped
  <2> QED BY <1>1, <1>3, <2>3, TotalOfGroups
<1>14. Total(new, (l - 1) + k) = Total(new, l - 1) + Total(own, k)
  <2>1. \A i \in 0 .. ((l - 1) + k) - 1 : new[i] \in Int
    <3> SUFFICES ASSUME NEW i \in 0 .. ((l - 1) + k) - 1 PROVE new[i] \in Int
      OBVIOUS
    <3>1. CASE i <= l - 2
      <4>1. i \in 0 .. (l - 1) - 1
        BY <1>2, <3>1
      <4> HIDE DEF new, old
      <4> QED BY <1>9, <4>1
    <3>2. CASE ~ (i <= l - 2)
      <4> DEFINE j == i - (l - 1)
      <4>1. j \in 0 .. k - 1 /\ i = (l - 1) + j
        BY <1>2, <1>3, <3>2
      <4> HIDE DEF new, own, j
      <4>2. own[j] = new[(l - 1) + j] /\ own[j] \in Nat
        BY <1>10, <4>1
      <4> QED BY <4>1, <4>2
    <3> QED BY <3>1, <3>2
  <2>2. own = [i \in 0 .. k - 1 |-> new[(l - 1) + i]]
    OBVIOUS
  <2> DEFINE a == l - 1
  <2> HIDE DEF own, new
  <2>0. a \in Nat
    BY <1>2
  <2>3. a \in Nat /\ k \in Nat /\ own = [i \in 0 .. k - 1 |-> new[a + i]]
        /\ \A i \in 0 .. a + k - 1 : new[i] \in Int
    BY <1>3, <2>0, <2>1, <2>2
  <2> HIDE DEF a, k, own, new
  <2>4. Total(new, a + k) = Total(new, a) + Total([i \in 0 .. k - 1 |-> new[a + i]], k)
    BY <2>3, TotalJoined, ZenonT(30)
  <2> QED BY <2>3, <2>4 DEF a
<1>15. Total(old, l) = Total(old, l - 1) + old[l - 1] /\ Total(old, l - 1) \in Int
  <2> DEFINE a == l - 1
  <2>1. a \in Nat /\ a + 1 = l /\ \A i \in 0 .. a : old[i] \in Int
    BY <1>2, <1>8
  <2> HIDE DEF old, a
  <2>2. Total(old, a + 1) = Total(old, a) + old[a]
    BY <2>1, TotalStep
  <2>3. Total(old, a) \in Int
    <3>1. \A i \in 0 .. a - 1 : old[i] \in Int
      BY <2>1
    <3> QED BY <2>1, <3>1, TotalInt
  <2> QED BY <2>1, <2>2, <2>3 DEF a
<1>16. Total(new, l - 1) = Total(old, l - 1)
  <2> DEFINE a == l - 1
  <2> HIDE DEF old, new
  <2>0. a \in Nat
    BY <1>2
  <2>1. a \in Nat /\ \A i \in 0 .. a - 1 : old[i] \in Int /\ old[i] = new[i]
    BY <1>9, <2>0
  <2> HIDE DEF old, new, a
  <2>2. Total(old, a) = Total(new, a)
    BY <2>1, TotalEqual
  <2> QED BY <2>2 DEF a
<1>17. old[l - 1] = u[f] /\ u[f] \in Nat
  <2>1. l - 1 \in 0 .. l - 1 /\ (l - 1) + 1 = l
    BY <1>2
  <2> QED BY <1>2, <1>5, <1>8, <2>1
<1>18. Total(turned, n) \in Int
  <2>1. Total(turned, n) = u[f] - (IF f = p THEN 1 ELSE 0) \/ Total(turned, n) \in Int
    <3>1. \A q \in 0 .. n - 1 : turned[q] \in Int
      <4> SUFFICES ASSUME NEW q \in 0 .. n - 1 PROVE turned[q] \in Int
        OBVIOUS
      <4>1. turned[q] = u[q] * LiveEdges(f, q)
        BY <1>1, <1>2 DEF LiveTable
      <4>2. LiveEdges(f, q) \in Nat /\ u[q] \in Nat
        BY <1>1, <1>5, <1>11
      <4>3. \A a, b \in Nat : a * b \in Int
        OBVIOUS
      <4> HIDE DEF turned, u
      <4> QED BY <4>1, <4>2, <4>3
    <3> HIDE DEF turned
    <3> QED BY <1>1, <3>1, TotalInt
  <2> QED BY <1>17, <2>1
<1> HIDE DEF old, new, own, edges, turned, u, later, l, k, n, children
<1>19. Total(new, (l - 1) + k) = Total(old, l) - (IF p = f THEN 1 ELSE 0)
  BY <1>5, <1>12, <1>13, <1>14, <1>15, <1>16, <1>17, <1>18
<1> QED BY <1>7, <1>19 DEF later, children

-----------------------------------------------------------------------------
(* What the chunk and the plan say does not change while they do not.      *)
LEMMA SamePlan ==
  ASSUME UNCHANGED <<graphVars, expansionVars>>
  PROVE  /\ chunk' = chunk /\ plan' = plan /\ occurrences' = occurrences
         /\ instances' = instances /\ instructions' = instructions
         /\ Prototypes(chunk)' = Prototypes(chunk)
         /\ \A f : Code(f)' = Code(f)
         /\ \A p : Under(p)' = Under(p)
         /\ HasDeadClosure' = HasDeadClosure
         /\ \A p : Ahead(p) = AheadOf(worklist, p)
         /\ \A p : Ahead(p)' = AheadOf(worklist', p)
<1>1. /\ chunk' = chunk /\ plan' = plan /\ occurrences' = occurrences
      /\ instances' = instances /\ instructions' = instructions
  BY DEF graphVars, expansionVars
<1>2. Prototypes(chunk)' = Prototypes(chunk)
  BY <1>1 DEF Prototypes
<1>3. \A f : Code(f)' = Code(f)
  BY <1>1 DEF Code
<1>4. LiveEdgesInto' = LiveEdgesInto
  <2>1. \A f : LiftedPart(Code(f))' = LiftedPart(Code(f))
    BY <1>3 DEF LiftedPart
  <2>2. \A f, g : ClosuresOf(chunk, f, g)' = ClosuresOf(chunk, f, g)
    BY <1>1 DEF ClosuresOf
  <2>3. \A f, g : LiveClosuresOf(f, g)' = LiveClosuresOf(f, g)
    BY <2>1, <2>2 DEF LiveClosuresOf
  <2>4. \A f, g : LiveEdges(f, g)' = LiveEdges(f, g)
    BY <2>3 DEF LiveEdges
  <2> QED BY <1>2, <2>4 DEF LiveEdgesInto
<1>5. \A p : Under(p)' = Under(p)
  BY <1>1, <1>2, <1>4 DEF Under
<1>6. HasDeadClosure' = HasDeadClosure
  BY <1>1, <1>2, <1>3 DEF HasDeadClosure
<1>7. \A p : Ahead(p) = AheadOf(worklist, p)
  BY DEF Ahead, AheadOf
<1>8. \A p : Ahead(p)' = AheadOf(worklist', p)
  BY <1>5 DEF Ahead, AheadOf
<1> QED BY <1>1, <1>2, <1>3, <1>5, <1>6, <1>7, <1>8

(* A worklist that leads to no more than what is left of the plan is no    *)
(* longer than what is left.                                               *)
LEMMA WorklistFits ==
  ASSUME ExpansionInvariant, plan = "planned", NEW w \in Seq(Item), NEW left,
         \A p \in Prototypes(chunk) : left[p] \in Nat /\ AheadOf(w, p) <= left[p]
  PROVE  Len(w) <= Total(left, chunk.count)
<1> DEFINE P == Prototypes(chunk)
           n == chunk.count
           l == Len(w)
           g == [i \in 0 .. l - 1 |-> [p \in 0 .. n - 1 |-> Under(p)[w[i + 1].function]]]
           turned == [p \in 0 .. n - 1 |-> [i \in 0 .. l - 1 |-> Under(p)[w[i + 1].function]]]
           rows == [i \in 0 .. l - 1 |-> Total(g[i], n)]
           columns == [p \in 0 .. n - 1 |-> Total(turned[p], l)]
           units == [i \in 0 .. l - 1 |-> 1]
<1>1. n \in Nat /\ P = 0 .. n - 1 /\ l \in Nat
  BY WalkFacts, LenProperties
<1>2. \A i \in 0 .. l - 1 : w[i + 1].function \in P
  <2> SUFFICES ASSUME NEW i \in 0 .. l - 1 PROVE w[i + 1].function \in P
    OBVIOUS
  <2>1. i + 1 \in 1 .. l
    BY <1>1
  <2>2. w[i + 1] \in Item
    BY <2>1, ElementOfSeq
  <2> QED BY <2>2 DEF Item
<1>3. \A p, f \in P : Under(p)[f] \in Nat
  BY UnderFacts
<1>4. \A p \in P : Under(p)[p] >= 1
  BY UnderFacts
<1>5. \A i \in 0 .. l - 1 : \A p \in 0 .. n - 1 :
         /\ g[i][p] = Under(p)[w[i + 1].function] /\ turned[p][i] = g[i][p]
         /\ g[i][p] \in Nat
  BY <1>1, <1>2, <1>3
<1>6. \A i \in 0 .. l - 1 : rows[i] = Total(g[i], n) /\ rows[i] \in Int /\ 1 <= rows[i]
  <2> SUFFICES ASSUME NEW i \in 0 .. l - 1
               PROVE  rows[i] = Total(g[i], n) /\ rows[i] \in Int /\ 1 <= rows[i]
    OBVIOUS
  <2> DEFINE row == g[i]
             f == w[i + 1].function
  <2>1. \A p \in 0 .. n - 1 : row[p] \in Nat
    BY <1>5
  <2>2. f \in 0 .. n - 1 /\ row[f] >= 1
    <3>1. f \in P
      BY <1>2
    <3>2. row[f] = Under(f)[f]
      BY <1>1, <1>5, <3>1
    <3> QED BY <1>1, <1>4, <3>1, <3>2
  <2>3. rows[i] = Total(row, n)
    OBVIOUS
  <2> HIDE DEF row, f, rows
  <2>4. Total(row, n) \in Nat /\ row[f] <= Total(row, n)
    BY <1>1, <2>1, <2>2, TotalOfNaturals
  <2>5. row[f] \in Nat
    BY <2>1, <2>2
  <2>6. Total(row, n) \in Int /\ 1 <= Total(row, n)
    BY <2>2, <2>4, <2>5
  <2> QED BY <2>3, <2>6 DEF row
<1>7. \A p \in 0 .. n - 1 : /\ columns[p] = Total(turned[p], l) /\ columns[p] \in Int
                            /\ left[p] \in Int /\ columns[p] <= left[p]
  <2> SUFFICES ASSUME NEW p \in 0 .. n - 1
               PROVE  /\ columns[p] = Total(turned[p], l) /\ columns[p] \in Int
                      /\ left[p] \in Int /\ columns[p] <= left[p]
    OBVIOUS
  <2>1. p \in P
    BY <1>1
  <2>2. AheadOf(w, p) \in Nat /\ left[p] \in Nat /\ AheadOf(w, p) <= left[p]
    BY <2>1, AheadFacts
  <2>3. columns[p] = Total(turned[p], l) /\ columns[p] = AheadOf(w, p)
    BY DEF AheadOf
  <2> HIDE DEF columns, turned
  <2> QED BY <2>2, <2>3
<1> HIDE DEF g, turned, rows, columns, l, n
<1>8. IsTable(g, turned, rows, columns, l, n)
  BY <1>5, <1>6, <1>7 DEF IsTable
<1>9. Total(rows, l) = Total(columns, n)
  BY <1>1, <1>8, TotalExchange
<1>10. Total(columns, n) <= Total(left, n)
  BY <1>1, <1>7, TotalMonotonic
<1>11. Total(units, l) = l
  <2>1. \A i \in 0 .. l - 1 : units[i] = 1
    OBVIOUS
  <2> HIDE DEF units
  <2> QED BY <1>1, <2>1, TotalOfUnits
<1>12. Total(units, l) <= Total(rows, l)
  <2>1. \A i \in 0 .. l - 1 : units[i] \in Int /\ rows[i] \in Int /\ units[i] <= rows[i]
    BY <1>6
  <2> HIDE DEF units
  <2> QED BY <1>1, <2>1, TotalMonotonic
<1>13. Total(columns, n) \in Int /\ Total(left, n) \in Int
  BY <1>1, <1>7, TotalInt
<1>14. l <= Total(left, n)
  BY <1>1, <1>9, <1>10, <1>11, <1>12, <1>13
<1> QED BY <1>14 DEF l, n

(* What was lifted when left is what is left of the plan.                  *)
LiftedWith(left) == [p \in Prototypes(chunk) |-> occurrences[p] - left[p]]

ProcessedWith(left) == [p \in Prototypes(chunk) |-> (occurrences[p] - left[p]) * Len(Code(p))]

IsLeft(left, w) ==
    \A p \in Prototypes(chunk) :
        left[p] \in Nat /\ left[p] <= occurrences[p] /\ AheadOf(w, p) <= left[p]

(* What was lifted and what is on the worklist together are no more than   *)
(* the plan has, and all of it when nothing is left.                       *)
LEMMA BooksFit ==
  ASSUME ExpansionInvariant, plan = "planned", NEW w \in Seq(Item), NEW left, IsLeft(left, w)
  PROVE  /\ Total(LiftedWith(left), chunk.count) + Len(w) <= instances
         /\ Total(ProcessedWith(left), chunk.count) <= instructions
         /\ Total(ProcessedWith(left), chunk.count) \in Nat
         /\ Total(LiftedWith(left), chunk.count) \in Nat
         /\ (\A p \in Prototypes(chunk) : left[p] = 0) =>
               /\ Total(LiftedWith(left), chunk.count) = instances
               /\ Total(ProcessedWith(left), chunk.count) = instructions
<1> DEFINE P == Prototypes(chunk)
           n == chunk.count
           lifted == LiftedWith(left)
           processing == ProcessedWith(left)
           all == [p \in P |-> Instantiations(chunk)[p] * Len(chunk.functions[p].code)]
<1>1. n \in Nat /\ P = 0 .. n - 1
  BY WalkFacts
<1>2. \A p \in P : occurrences[p] \in Nat /\ Len(Code(p)) \in Nat
  BY WalkFacts
<1>3. \A p \in P : left[p] \in Nat /\ left[p] <= occurrences[p] /\ AheadOf(w, p) <= left[p]
  BY DEF IsLeft
<1>4. instances = Total(occurrences, n) /\ instructions = Total(all, n)
  <2>1. /\ occurrences = Instantiations(chunk) /\ instances = AllInstantiations(chunk)
        /\ instructions = AllExpanded(chunk)
    BY CountsAreExact
  <2> QED BY <2>1 DEF AllInstantiations, AllExpanded
<1>5. \A p \in P : all[p] = occurrences[p] * Len(Code(p))
  <2>1. occurrences = Instantiations(chunk)
    BY CountsAreExact
  <2> QED BY <2>1 DEF Code
<1>6. \A p \in P : lifted[p] = occurrences[p] - left[p] /\ lifted[p] \in Nat
  BY <1>2, <1>3 DEF LiftedWith
<1>7. \A p \in P : /\ processing[p] \in Nat /\ all[p] \in Nat /\ processing[p] <= all[p]
                   /\ left[p] = 0 => processing[p] = all[p]
  <2> SUFFICES ASSUME NEW p \in P
               PROVE  /\ processing[p] \in Nat /\ all[p] \in Nat /\ processing[p] <= all[p]
                      /\ left[p] = 0 => processing[p] = all[p]
    OBVIOUS
  <2> DEFINE a == occurrences[p] - left[p]
             b == left[p]
             c == Len(Code(p))
  <2>1. a \in Nat /\ b \in Nat /\ c \in Nat /\ occurrences[p] = a + b
    BY <1>2, <1>3
  <2>2. processing[p] = a * c /\ all[p] = occurrences[p] * c
    BY <1>5 DEF ProcessedWith
  <2>3. b = left[p]
    OBVIOUS
  <2> HIDE DEF a, b, c, processing, all
  <2>4. \A x, y, z \in Nat : /\ x * z \in Nat /\ (x + y) * z \in Nat /\ x * z <= (x + y) * z
                             /\ y = 0 => x * z = (x + y) * z
    <3>1. \A x, y, z \in Nat : x * z \in Nat /\ y * z \in Nat /\ (x + y) * z = x * z + y * z
      OBVIOUS
    <3> QED BY <3>1
  <2> QED BY <2>1, <2>2, <2>3, <2>4
<1> HIDE DEF lifted, processing, all, P, n
<1>8. Len(w) <= Total(left, n)
  BY <1>3, WorklistFits DEF P, n
<1>9. /\ Total(occurrences, n) = Total(lifted, n) + Total(left, n)
  <2>1. \A p \in 0 .. n - 1 : lifted[p] \in Int /\ left[p] \in Int /\ occurrences[p] = lifted[p] + left[p]
    BY <1>1, <1>2, <1>3, <1>6
  <2> QED BY <1>1, <2>1, TotalOfSums
<1>10. Total(lifted, n) \in Nat /\ Total(left, n) \in Nat /\ Total(processing, n) \in Nat
  <2>1. \A p \in 0 .. n - 1 : lifted[p] \in Nat /\ left[p] \in Nat /\ processing[p] \in Nat
    BY <1>1, <1>3, <1>6, <1>7
  <2> QED BY <1>1, <2>1, TotalOfNaturals
<1>11. Total(processing, n) <= Total(all, n)
  <2>1. \A p \in 0 .. n - 1 : processing[p] \in Int /\ all[p] \in Int /\ processing[p] <= all[p]
    BY <1>1, <1>7
  <2> QED BY <1>1, <2>1, TotalMonotonic
<1>12. ASSUME \A p \in P : left[p] = 0
       PROVE  Total(left, n) = 0 /\ Total(processing, n) = Total(all, n)
  <2>1. \A p \in 0 .. n - 1 : processing[p] \in Int /\ processing[p] = all[p] /\ left[p] = 0
    BY <1>1, <1>7, <1>12
  <2>2. Total(left, n) = 0
    BY <1>1, <2>1, TotalOfZeros
  <2>3. Total(processing, n) = Total(all, n)
    BY <1>1, <2>1, TotalEqual
  <2> QED BY <2>2, <2>3
<1>13. Len(w) \in Nat
  BY LenProperties
<1> QED BY <1>4, <1>8, <1>9, <1>10, <1>11, <1>12, <1>13 DEF lifted, processing, P, n

-----------------------------------------------------------------------------
(* The instance on top of the worklist is in the plan: some instance of    *)
(* its prototype is left, and the prototype still has its bytecode.        *)
LEMMA PendingFacts ==
  ASSUME ExpansionInvariant, DriverInvariant, Popping
  PROVE  /\ plan = "planned" /\ scheduled \in Nat /\ worklist \in Seq(Item)
         /\ Len(worklist) \in Nat /\ Len(worklist) >= 1
         /\ Pending.function \in Prototypes(chunk) /\ Pending.instance \in 1 .. scheduled
         /\ remaining[Pending.function] \in Nat /\ remaining[Pending.function] > 0
         /\ occurrences[Pending.function] > 0
         /\ Pending.function \notin released
         /\ PendingCode = Code(Pending.function)
         /\ Len(Code(Pending.function)) \in Nat
         /\ IsLeft(remaining, worklist)
<1> DEFINE f == Pending.function
           l == Len(worklist)
           S == [instance : 1 .. scheduled, function : Prototypes(chunk)]
<1>1. plan = "planned" /\ phase = "lifting" /\ worklist # <<>> /\ scheduled \in Nat
  BY BoundsAssumption DEF DriverInvariant, DriverIsInStep, DriverTypeOK, Popping
<1>2. worklist \in Seq(S) /\ l \in Nat /\ \A i \in 1 .. l : worklist[i] \in S
  <2>1. worklist \in Seq(S)
    BY DEF DriverInvariant, DriverTypeOK
  <2> HIDE DEF S
  <2> QED BY <2>1, ElementOfSeq, LenProperties
<1>3. worklist \in Seq(Item)
  <2>1. \A i \in 1 .. l : worklist[i] \in Item
    BY <1>1, <1>2 DEF Item
  <2>2. DOMAIN worklist = 1 .. l /\ worklist = [i \in 1 .. l |-> worklist[i]]
    BY <1>2, LenProperties
  <2>3. worklist \in [1 .. l -> Item]
    BY <2>1, <2>2
  <2> HIDE DEF l
  <2> QED BY <1>2, <2>3
<1>4. l >= 1 /\ l \in 1 .. l
  <2>1. l # 0
    BY <1>1, <1>2, EmptySeq
  <2> QED BY <1>2, <2>1
<1>5. Pending \in S /\ f \in Prototypes(chunk) /\ Pending.instance \in 1 .. scheduled
  <2>1. Pending \in S
    BY <1>2, <1>4 DEF Pending
  <2> QED BY <2>1
<1>6. \A p \in Prototypes(chunk) : remaining[p] \in Nat /\ occurrences[p] \in Nat
  <2>1. \A p \in Prototypes(chunk) : occurrences[p] \in Nat
    BY <1>1, WalkFacts
  <2>2. remaining \in [Prototypes(chunk) -> 0 .. MaxUsize] /\ MaxUsize \in Nat
    BY BoundsAssumption DEF DriverInvariant, DriverTypeOK
  <2> QED BY <2>1, <2>2
<1>7. IsLeft(remaining, worklist)
  <2> SUFFICES ASSUME NEW p \in Prototypes(chunk)
               PROVE  remaining[p] \in Nat /\ remaining[p] <= occurrences[p]
                      /\ AheadOf(worklist, p) <= remaining[p]
    BY DEF IsLeft
  <2>1. Ahead(p) = AheadOf(worklist, p)
    BY DEF Ahead, AheadOf
  <2> QED BY <1>1, <1>6, <2>1 DEF DriverInvariant, LiftedIsStruckOff, WorkIsPlanned
<1>8. remaining[f] > 0
  <2>1. Under(f)[f] >= 1 /\ Under(f)[f] \in Nat
    BY <1>1, <1>5, UnderFacts
  <2>2. AheadOf(worklist, f) \in Nat /\ Under(f)[f] <= AheadOf(worklist, f)
    <3>1. worklist[l].function = f
      BY DEF Pending
    <3> QED BY <1>1, <1>3, <1>4, <1>5, <3>1, AheadFacts
  <2>3. AheadOf(worklist, f) <= remaining[f] /\ remaining[f] \in Nat
    BY <1>5, <1>7 DEF IsLeft
  <2> HIDE DEF f
  <2> QED BY <2>1, <2>2, <2>3
<1>9. occurrences[f] > 0
  <2>1. remaining[f] <= occurrences[f] /\ remaining[f] \in Nat /\ occurrences[f] \in Nat
    BY <1>5, <1>6, <1>7 DEF IsLeft
  <2> HIDE DEF f
  <2> QED BY <1>8, <2>1
<1>10. f \notin released
  BY <1>1, <1>8 DEF DriverInvariant, LiftedIsStruckOff
<1>11. PendingCode = Code(f)
  BY <1>10 DEF PendingCode, KeptCode
<1>12. Len(Code(f)) \in Nat
  BY <1>1, <1>5, WalkFacts
<1> QED BY <1>1, <1>2, <1>3, <1>4, <1>5, <1>6, <1>7, <1>8, <1>9, <1>10, <1>11, <1>12

(* A step that takes the instance on top of the worklist keeps to the      *)
(* plan, whatever body it gives it.                                        *)
IsBody(body, last) == body = {} \/ body = scheduled + 1 .. last

(* Recover and Stub are such steps; they differ in the body.               *)
LEMMA InstanceStep ==
  ASSUME ExpansionInvariant, DriverInvariant, Popping, UNCHANGED <<graphVars, expansionVars>>,
         Schedule(LiftedChildren(Pending.function)),
         \E body : IsBody(body, scheduled') /\ Fill(body),
         ExpansionTypeOK'
  PROVE  DriverInvariant'
<1> DEFINE P == Prototypes(chunk)
           n == chunk.count
           f == Pending.function
           l == Len(worklist)
           children == LiftedChildren(f)
           k == Len(children)
<1>1. /\ plan = "planned" /\ scheduled \in Nat /\ worklist \in Seq(Item)
      /\ l \in Nat /\ l >= 1 /\ f \in P /\ Pending.instance \in 1 .. scheduled
      /\ remaining[f] \in Nat /\ remaining[f] > 0 /\ occurrences[f] > 0 /\ f \notin released
      /\ PendingCode = Code(f) /\ Len(Code(f)) \in Nat /\ IsLeft(remaining, worklist)
  BY PendingFacts
<1>2. /\ chunk' = chunk /\ plan' = plan /\ occurrences' = occurrences /\ P' = P
      /\ instances' = instances /\ instructions' = instructions
      /\ \A p : Code(p)' = Code(p)
      /\ HasDeadClosure' = HasDeadClosure
      /\ \A p : Ahead(p) = AheadOf(worklist, p) /\ Ahead(p)' = AheadOf(worklist', p)
  BY SamePlan
<1>3. worklist # <<>> /\ phase = "lifting"
  BY DEF Popping
<1>4. /\ k \in Nat /\ DOMAIN children = 1 .. k /\ \A i \in 1 .. k : children[i] \in P
  BY <1>1, ChildrenFacts
<1>5. /\ remaining' = [remaining EXCEPT ![f] = @ - 1]
      /\ released' = IF remaining[f] = 1 THEN released \cup {f} ELSE released
      /\ processed' = processed + Len(Code(f))
      /\ scheduled' = scheduled + k
      /\ phase' = IF scheduled' > instances THEN "beyond_plan" ELSE "lifting"
      /\ worklist' = Front(worklist) \o Items(children, scheduled)
  BY <1>1 DEF Schedule, Items
<1>6. IsReplaced(worklist', worklist, children, k, scheduled)
  <2> DEFINE list == children
             len == k
  <2>1. IsListOf(list, len) /\ worklist' = Front(worklist) \o Items(list, scheduled)
    BY <1>4, <1>5 DEF IsListOf
  <2> HIDE DEF list, len, k, children
  <2>2. IsReplaced(Front(worklist) \o Items(list, scheduled), worklist, list, len, scheduled)
    BY <1>1, <1>3, <2>1, ReplacedFacts
  <2>3. IsReplaced(worklist', worklist, list, len, scheduled)
    BY <2>1, <2>2
  <2> QED BY <2>3 DEF list, len
<1>7. worklist' \in Seq(Item) /\ Len(worklist') = (l - 1) + k
  BY <1>6 DEF IsReplaced
<1>8. ASSUME NEW p \in P
      PROVE  AheadOf(worklist', p) = AheadOf(worklist, p) - (IF p = f THEN 1 ELSE 0)
  <2>1. f = worklist[Len(worklist)].function
    BY DEF Pending
  <2> HIDE DEF f, k, children
  <2> QED BY <1>1, <1>3, <1>5, <2>1, AheadChanges DEF children
<1>9. \A p \in P : /\ remaining[p] \in Nat /\ remaining[p] <= occurrences[p]
                   /\ occurrences[p] \in Nat /\ Len(Code(p)) \in Nat
                   /\ AheadOf(worklist, p) <= remaining[p] /\ AheadOf(worklist, p) \in Nat
  <2>1. \A p \in P : occurrences[p] \in Nat /\ Len(Code(p)) \in Nat
    BY <1>1, WalkFacts
  <2>2. \A p \in P : AheadOf(worklist, p) \in Nat
    BY <1>1, AheadFacts
  <2> QED BY <1>1, <2>1, <2>2 DEF IsLeft
<1>10. \A p \in P : remaining'[p] = remaining[p] - (IF p = f THEN 1 ELSE 0)
  <2>1. DOMAIN remaining = P
    BY DEF DriverInvariant, DriverTypeOK
  <2> QED BY <1>1, <1>5, <1>9, <2>1
<1> HIDE DEF P, n, f, l, children, k
<1>11. \A p \in P : /\ remaining'[p] \in Nat /\ remaining'[p] <= occurrences[p]
                    /\ AheadOf(worklist', p) <= remaining'[p]
  <2> SUFFICES ASSUME NEW p \in P
               PROVE  /\ remaining'[p] \in Nat /\ remaining'[p] <= occurrences[p]
                      /\ AheadOf(worklist', p) <= remaining'[p]
    OBVIOUS
  <2>1. /\ remaining[p] \in Nat /\ remaining[p] <= occurrences[p] /\ occurrences[p] \in Nat
        /\ AheadOf(worklist, p) <= remaining[p] /\ AheadOf(worklist, p) \in Nat
    BY <1>9
  <2>2. AheadOf(worklist', p) = AheadOf(worklist, p) - (IF p = f THEN 1 ELSE 0)
    BY <1>8
  <2>3. remaining'[p] = remaining[p] - (IF p = f THEN 1 ELSE 0)
    BY <1>10
  <2> QED BY <1>1, <2>1, <2>2, <2>3
<1>12. IsLeft(remaining', worklist')
  BY <1>11 DEF IsLeft, P
<1>13. /\ Total(LiftedWith(remaining'), n) + Len(worklist') <= instances
       /\ Total(ProcessedWith(remaining'), n) <= instructions
       /\ Total(ProcessedWith(remaining'), n) \in Nat
       /\ Total(LiftedWith(remaining'), n) \in Nat
  <2> DEFINE w == worklist'
             left == remaining'
  <2>1. w \in Seq(Item) /\ IsLeft(left, w)
    BY <1>7, <1>12
  <2> HIDE DEF w, left
  <2>2. /\ Total(LiftedWith(left), n) + Len(w) <= instances
        /\ Total(ProcessedWith(left), n) <= instructions
        /\ Total(ProcessedWith(left), n) \in Nat
        /\ Total(LiftedWith(left), n) \in Nat
    BY <1>1, <2>1, BooksFit DEF n
  <2> QED BY <2>2 DEF w, left
<1>14. n \in Nat /\ P = 0 .. n - 1
  BY <1>1, WalkFacts DEF n, P
<1>15. /\ scheduled = Total(LiftedWith(remaining), n) + l
       /\ processed = Total(ProcessedWith(remaining), n)
  BY <1>3 DEF DriverInvariant, LiftedIsStruckOff, LiftedInstances, LiftedInstructions, LiftedWith,
              ProcessedWith, n, l
<1>16. Total(LiftedWith(remaining'), n) = Total(LiftedWith(remaining), n) + 1
  <2> DEFINE g == LiftedWith(remaining)
             h == LiftedWith(remaining')
  <2>1. \A p \in P : g[p] = occurrences[p] - remaining[p] /\ h[p] = occurrences[p] - remaining'[p]
    BY DEF LiftedWith, P
  <2>2. \A p \in 0 .. n - 1 : g[p] \in Int
    <3> SUFFICES ASSUME NEW p \in P PROVE g[p] \in Int
      BY <1>14
    <3>1. occurrences[p] \in Nat /\ remaining[p] \in Nat
      BY <1>9
    <3> HIDE DEF g
    <3> QED BY <2>1, <3>1
  <2>3. \A p \in 0 .. n - 1 : p # f => h[p] = g[p]
    <3> SUFFICES ASSUME NEW p \in P, p # f PROVE h[p] = g[p]
      BY <1>14
    <3>1. remaining'[p] = remaining[p]
      BY <1>9, <1>10
    <3> HIDE DEF g, h
    <3> QED BY <2>1, <3>1
  <2>4. h[f] = g[f] + 1
    BY <1>1, <1>9, <1>10, <2>1
  <2>5. f \in 0 .. n - 1 /\ 1 \in Int
    BY <1>1, <1>14
  <2> HIDE DEF g, h
  <2>6. Total(h, n) = Total(g, n) + 1
    BY <1>14, <2>2, <2>3, <2>4, <2>5, TotalChange
  <2> QED BY <2>6 DEF g, h
<1>17. Total(ProcessedWith(remaining'), n) = Total(ProcessedWith(remaining), n) + Len(Code(f))
  <2> DEFINE g == ProcessedWith(remaining)
             h == ProcessedWith(remaining')
             d == Len(Code(f))
  <2>1. \A p \in P : /\ g[p] = (occurrences[p] - remaining[p]) * Len(Code(p))
                     /\ h[p] = (occurrences[p] - remaining'[p]) * Len(Code(p))
    BY DEF ProcessedWith, P
  <2>2. \A p \in 0 .. n - 1 : g[p] \in Int
    <3> SUFFICES ASSUME NEW p \in P PROVE g[p] \in Int
      BY <1>14
    <3>1. occurrences[p] - remaining[p] \in Nat /\ Len(Code(p)) \in Nat
      BY <1>9
    <3>2. \A x, y \in Nat : x * y \in Int
      OBVIOUS
    <3> HIDE DEF g
    <3> QED BY <2>1, <3>1, <3>2
  <2>3. \A p \in 0 .. n - 1 : p # f => h[p] = g[p]
    <3> SUFFICES ASSUME NEW p \in P, p # f PROVE h[p] = g[p]
      BY <1>14
    <3>1. remaining'[p] = remaining[p]
      BY <1>9, <1>10
    <3> HIDE DEF g, h
    <3> QED BY <2>1, <3>1
  <2>4. h[f] = g[f] + d
    <3> DEFINE a == occurrences[f] - remaining[f]
    <3>1. a \in Nat /\ d \in Nat
      BY <1>1, <1>9
    <3>2. occurrences[f] - remaining'[f] = a + 1
      BY <1>1, <1>9, <1>10
    <3>3. g[f] = a * d /\ h[f] = (a + 1) * d
      BY <1>1, <2>1, <3>2
    <3>4. \A x, y \in Nat : (x + 1) * y = x * y + y
      OBVIOUS
    <3> HIDE DEF a, d, g, h
    <3> QED BY <3>1, <3>3, <3>4
  <2>5. f \in 0 .. n - 1 /\ d \in Int
    BY <1>1, <1>14
  <2> HIDE DEF g, h, d
  <2>6. Total(h, n) = Total(g, n) + d
    BY <1>14, <2>2, <2>3, <2>4, <2>5, TotalChange
  <2> QED BY <2>6 DEF g, h, d
<1>18. Total(LiftedWith(remaining), n) \in Nat /\ Total(ProcessedWith(remaining), n) \in Nat
  BY <1>1, BooksFit DEF n
<1>19. /\ scheduled' = Total(LiftedWith(remaining'), n) + Len(worklist')
       /\ processed' = Total(ProcessedWith(remaining'), n)
       /\ scheduled' \in Nat /\ scheduled' > 0 /\ scheduled' <= instances /\ processed' \in Nat
       /\ processed' <= instructions /\ scheduled <= scheduled'
  <2> DEFINE a == Total(LiftedWith(remaining), n)
             b == Total(ProcessedWith(remaining), n)
             c == Total(LiftedWith(remaining'), n)
             d == Total(ProcessedWith(remaining'), n)
             m == Len(worklist')
  <2>1. /\ scheduled = a + l /\ scheduled' = scheduled + k /\ m = (l - 1) + k /\ c = a + 1
        /\ l \in Nat /\ l >= 1 /\ k \in Nat /\ a \in Nat /\ scheduled \in Nat
        /\ c + m <= instances
    BY <1>1, <1>4, <1>5, <1>7, <1>13, <1>15, <1>16, <1>18
  <2>2. processed' = processed + Len(Code(f)) /\ processed = b /\ d = b + Len(Code(f))
    BY <1>5, <1>15, <1>17
  <2>3. d <= instructions /\ d \in Nat
    BY <1>13
  <2> HIDE DEF a, b, c, d, m
  <2>4. scheduled' = c + m /\ scheduled' \in Nat /\ scheduled' > 0 /\ scheduled <= scheduled'
    BY <2>1
  <2>5. processed' = d
    BY <2>2
  <2>6. scheduled' <= instances
    BY <2>1, <2>4
  <2> QED BY <2>3, <2>4, <2>5, <2>6 DEF c, d, m
<1>20. phase' = "lifting"
  <2>1. instances \in Nat
    BY DEF ExpansionInvariant, ExpansionTypeOK
  <2>2. ~ (scheduled' > instances)
    BY <1>19, <2>1
  <2> QED BY <1>5, <2>2
<1>21. instances \in 0 .. MaxUsize /\ instructions \in 0 .. MaxUsize /\ MaxUsize \in Nat
  BY <1>1, BoundsAssumption DEF ExpansionInvariant, ExpansionTypeOK
<1>22. /\ bodies \in [1 .. scheduled -> SUBSET (1 .. scheduled)]
       /\ upvalues \subseteq 1 .. scheduled
       /\ \A i, j \in 1 .. scheduled : i # j => bodies[i] \cap bodies[j] = {}
  BY DEF DriverInvariant, DriverTypeOK, EveryClosureLinks
<1>23. PICK body : IsBody(body, scheduled') /\ Fill(body)
  OBVIOUS
<1>24. /\ bodies' = [i \in 1 .. scheduled' |-> IF i = Pending.instance THEN body
                                              ELSE IF i <= scheduled THEN bodies[i] ELSE {}]
       /\ upvalues' = upvalues \cup {Pending.instance}
  BY <1>23 DEF Fill
<1>25. \A i \in body : i \in scheduled + 1 .. scheduled'
  BY <1>23 DEF IsBody
<1>26. /\ bodies' \in [1 .. scheduled' -> SUBSET (1 .. scheduled')]
       /\ upvalues' \subseteq 1 .. scheduled'
  <2>1. \A i \in 1 .. scheduled : i \in 1 .. scheduled'
    BY <1>1, <1>19
  <2>2. body \subseteq 1 .. scheduled'
    BY <1>1, <1>19, <1>25
  <2>3. \A i \in 1 .. scheduled' :
           (IF i = Pending.instance THEN body ELSE IF i <= scheduled THEN bodies[i] ELSE {})
              \in SUBSET (1 .. scheduled')
    <3> SUFFICES ASSUME NEW i \in 1 .. scheduled'
                 PROVE  (IF i = Pending.instance THEN body ELSE IF i <= scheduled THEN bodies[i] ELSE {})
                           \subseteq 1 .. scheduled'
      OBVIOUS
    <3>1. i <= scheduled => bodies[i] \subseteq 1 .. scheduled
      BY <1>1, <1>19, <1>22
    <3> QED BY <2>1, <2>2, <3>1
  <2> QED BY <1>1, <1>22, <1>24, <2>1, <2>3
<1>27. \A i, j \in DOMAIN bodies' : i # j => bodies'[i] \cap bodies'[j] = {}
  <2> SUFFICES ASSUME NEW i \in 1 .. scheduled', NEW j \in 1 .. scheduled', i # j,
                      NEW x, x \in bodies'[i], x \in bodies'[j]
               PROVE  FALSE
    BY <1>24
  <2> DEFINE top == Pending.instance
  <2> HIDE DEF top
  <2>1. ASSUME NEW q \in 1 .. scheduled', x \in bodies'[q]
        PROVE  /\ q = top => x \in body
               /\ q # top => q \in 1 .. scheduled /\ x \in bodies[q]
    <3>1. bodies'[q] = IF q = top THEN body ELSE IF q <= scheduled THEN bodies[q] ELSE {}
      BY <1>24 DEF top
    <3>2. q <= scheduled => q \in 1 .. scheduled
      BY <1>1, <1>19
    <3> QED BY <2>1, <3>1, <3>2
  <2>2. \A q \in 1 .. scheduled : x \in bodies[q] => x \in 1 .. scheduled
    BY <1>22
  <2>3. ~ (x \in body /\ x \in 1 .. scheduled)
    BY <1>1, <1>19, <1>25
  <2> QED BY <1>22, <2>1, <2>2, <2>3
<1>28. ASSUME NEW j \in 1 .. Len(worklist')
       PROVE  worklist'[j] \in [instance : 1 .. scheduled', function : P]
  <2>1. CASE j <= l - 1
    <3>1. j \in 1 .. Len(worklist) - 1 /\ j \in 1 .. Len(worklist)
      BY <1>1, <1>7, <2>1 DEF l
    <3>2. worklist'[j] = worklist[j]
      BY <1>6, <3>1 DEF IsReplaced
    <3>3. worklist[j] \in [instance : 1 .. scheduled, function : P]
      <4> DEFINE S == [instance : 1 .. scheduled, function : P]
      <4>1. worklist \in Seq(S)
        BY DEF DriverInvariant, DriverTypeOK, P
      <4> HIDE DEF S
      <4> QED BY <3>1, <4>1, ElementOfSeq DEF S
    <3>4. \A i \in 1 .. scheduled : i \in 1 .. scheduled'
      BY <1>1, <1>19
    <3> QED BY <3>2, <3>3, <3>4
  <2>2. CASE ~ (j <= l - 1)
    <3> DEFINE i == j - (l - 1)
    <3>1. i \in 1 .. k /\ j = (l - 1) + i
      BY <1>1, <1>4, <1>7, <2>2
    <3> HIDE DEF i
    <3>2. worklist'[j] = [instance |-> scheduled + i, function |-> children[i]]
      BY <1>6, <3>1 DEF IsReplaced, l
    <3>3. scheduled + i \in 1 .. scheduled' /\ children[i] \in P
      BY <1>1, <1>4, <1>5, <3>1
    <3> QED BY <3>2, <3>3
  <2> QED BY <2>1, <2>2
<1>29. worklist' \in Seq([instance : 1 .. scheduled', function : P])
  <2> DEFINE S == [instance : 1 .. scheduled', function : P]
             w == worklist'
             len == Len(w)
  <2>1. w \in Seq(Item)
    BY <1>7
  <2>2. \A j \in 1 .. len : w[j] \in S
    BY <1>28
  <2> HIDE DEF S, w
  <2>3. len \in Nat /\ DOMAIN w = 1 .. len /\ w = [j \in 1 .. len |-> w[j]]
    BY <2>1, LenProperties
  <2>4. w \in [1 .. len -> S]
    BY <2>2, <2>3
  <2> HIDE DEF len
  <2>5. w \in Seq(S)
    BY <2>3, <2>4
  <2> QED BY <2>5 DEF S, w
<1>30. DriverTypeOK'
  <2>1. remaining' \in [P -> 0 .. MaxUsize]
    <3>1. remaining \in [P -> 0 .. MaxUsize]
      BY DEF DriverInvariant, DriverTypeOK, P
    <3>2. \A p \in P : remaining'[p] \in 0 .. MaxUsize
      BY <1>3, <1>9, <1>10, <1>11, <1>21, <3>1
    <3> QED BY <1>5, <3>1, <3>2
  <2>2. released' \subseteq P
    <3>1. released \subseteq P
      BY DEF DriverInvariant, DriverTypeOK, P
    <3> QED BY <1>1, <1>5, <3>1
  <2>3. scheduled' \in 0 .. MaxUsize /\ processed' \in 0 .. MaxUsize
    BY <1>19, <1>21
  <2> QED BY <1>2, <1>20, <1>26, <1>29, <2>1, <2>2, <2>3 DEF DriverTypeOK, Phases, P
<1>31. LiftedHasEntry'
  <2> SUFFICES ASSUME NEW i \in 1 .. scheduled'
               PROVE  i \in upvalues' \/ \E j \in 1 .. Len(worklist') : worklist'[j].instance = i
    BY DEF LiftedHasEntry
  <2>1. CASE i <= scheduled
    <3>1. i \in 1 .. scheduled
      BY <1>1, <1>19, <2>1
    <3>2. i \in upvalues \/ \E j \in 1 .. l : worklist[j].instance = i
      BY <1>3, <3>1 DEF DriverInvariant, LiftedHasEntry, l
    <3>3. ASSUME NEW j \in 1 .. l, worklist[j].instance = i
          PROVE  i \in upvalues' \/ \E q \in 1 .. Len(worklist') : worklist'[q].instance = i
      <4>1. CASE j = l
        BY <1>24, <3>3, <4>1 DEF Pending, l
      <4>2. CASE j # l
        <5>1. j \in 1 .. Len(worklist) - 1 /\ j \in 1 .. Len(worklist')
          BY <1>1, <1>4, <1>7, <4>2 DEF l
        <5>2. worklist'[j] = worklist[j]
          BY <1>6, <5>1 DEF IsReplaced
        <5> QED BY <3>3, <5>1, <5>2
      <4> QED BY <4>1, <4>2
    <3> QED BY <1>24, <3>2, <3>3
  <2>2. CASE ~ (i <= scheduled)
    <3> DEFINE q == i - scheduled
    <3>0. i \in Nat /\ i <= scheduled + k /\ scheduled < i /\ scheduled \in Nat
      BY <1>1, <1>5, <1>19, <2>2
    <3>1. q \in 1 .. k /\ i = scheduled + q /\ (l - 1) + q \in 1 .. Len(worklist')
      BY <1>1, <1>4, <1>7, <3>0
    <3> HIDE DEF q
    <3>2. worklist'[(l - 1) + q] = [instance |-> scheduled + q, function |-> children[q]]
      BY <1>6, <3>1 DEF IsReplaced, l
    <3>3. worklist'[(l - 1) + q].instance = i
      BY <3>1, <3>2
    <3> QED BY <3>1, <3>3
  <2> QED BY <2>1, <2>2
<1>32. WorkIsPlanned'
  <2> SUFFICES ASSUME NEW p \in P
               PROVE  /\ AheadOf(worklist', p) <= remaining'[p]
                      /\ ~ HasDeadClosure => AheadOf(worklist', p) = remaining'[p]
    <3>1. Prototypes(chunk)' = P
      BY <1>2 DEF P
    <3> QED BY <1>2, <3>1 DEF WorkIsPlanned
  <2>1. ~ HasDeadClosure => AheadOf(worklist, p) = remaining[p]
    <3>1. ~ HasDeadClosure => Ahead(p) = remaining[p]
      BY <1>3 DEF DriverInvariant, WorkIsPlanned, P
    <3> QED BY <1>2, <3>1
  <2> QED BY <1>8, <1>10, <1>11, <2>1
<1>33. LiftedIsStruckOff'
  <2>1. \A p \in released' : remaining'[p] = 0
    <3>1. released \subseteq P /\ \A p \in released : remaining[p] = 0
      BY <1>3 DEF DriverInvariant, DriverTypeOK, LiftedIsStruckOff, P
    <3>2. f \in released' => remaining[f] = 1
      BY <1>1, <1>5
    <3>3. \A p \in released' : p = f \/ p \in released
      BY <1>5
    <3> SUFFICES ASSUME NEW p \in released' PROVE remaining'[p] = 0
      OBVIOUS
    <3>4. p \in P
      BY <1>1, <3>1, <3>3
    <3>5. /\ p = f => remaining'[p] = remaining[p] - 1
          /\ p # f => remaining'[p] = remaining[p]
      BY <1>9, <1>10, <3>4
    <3>6. CASE p = f
      BY <3>2, <3>5, <3>6
    <3>7. CASE p # f
      <4>1. remaining[p] = 0
        BY <3>1, <3>3, <3>7
      <4> QED BY <3>5, <3>7, <4>1
    <3> QED BY <3>6, <3>7
  <2>2. /\ (LiftedInstances)' = LiftedWith(remaining')
        /\ (LiftedInstructions)' = ProcessedWith(remaining')
    BY <1>2 DEF LiftedInstances, LiftedInstructions, LiftedWith, ProcessedWith, P
  <2>3. chunk.count' = n
    BY <1>2 DEF n
  <2>4. scheduled' = Total(LiftedInstances', chunk.count') + Len(worklist')
    BY <1>19, <2>2, <2>3
  <2>5. processed' = Total(LiftedInstructions', chunk.count')
    BY <1>19, <2>2, <2>3
  <2>6. \A p \in Prototypes(chunk)' : remaining'[p] <= occurrences'[p]
    BY <1>2, <1>11 DEF P
  <2> QED BY <2>1, <2>4, <2>5, <2>6 DEF LiftedIsStruckOff
<1> QED
  BY <1>1, <1>2, <1>19, <1>20, <1>27, <1>30, <1>31, <1>32, <1>33
  DEF DriverInvariant, DriverIsInStep, PlanIsFollowed, EveryClosureLinks

(* The driver begins with an instance of main, whose tree is the plan.     *)
LEMMA DecompileStep ==
  ASSUME ExpansionInvariant, DriverInvariant, Decompile, UNCHANGED <<graphVars, expansionVars>>,
         ExpansionTypeOK'
  PROVE  DriverInvariant'
<1> DEFINE P == Prototypes(chunk)
           n == chunk.count
           main == chunk.main
           item == [instance |-> 1, function |-> main]
           w == <<item>>
<1>1. /\ phase = "idle" /\ plan = "planned" /\ phase' = "lifting" /\ worklist' = w
      /\ remaining' = occurrences /\ scheduled' = 1 /\ bodies' = <<{}>>
      /\ released' = released /\ processed' = processed /\ upvalues' = upvalues
  BY DEF Decompile
<1>2. released = {} /\ upvalues = {} /\ processed = 0
  BY <1>1 DEF DriverInvariant, DriverIsInStep
<1>3. /\ chunk' = chunk /\ plan' = plan /\ occurrences' = occurrences /\ P' = P
      /\ \A p : Code(p)' = Code(p)
      /\ HasDeadClosure' = HasDeadClosure
      /\ \A p : Ahead(p)' = AheadOf(worklist', p)
  BY SamePlan
<1>4. n \in Nat /\ P = 0 .. n - 1 /\ main \in P
  BY <1>1, WalkFacts
<1>5. \A p \in P : occurrences[p] \in Nat /\ Len(Code(p)) \in Nat
  BY <1>1, WalkFacts
<1>6. item \in Item /\ w \in Seq(Item) /\ Len(w) = 1 /\ w[1] = item /\ item.function = main
  BY <1>4 DEF Item
<1>7. ASSUME NEW p \in P
      PROVE  AheadOf(w, p) = Under(p)[main]
  <2> DEFINE h == [i \in 0 .. 1 - 1 |-> Under(p)[w[i + 1].function]]
             d == Under(p)[main]
  <2>1. d \in Int
    BY <1>1, <1>4, UnderFacts
  <2>2. \A i \in 0 .. 1 - 1 : h[i] = IF i = 0 THEN d ELSE 0
    BY <1>6
  <2>3. 0 \in 0 .. 1 - 1 /\ 1 \in Nat
    OBVIOUS
  <2>4. AheadOf(w, p) = Total(h, 1)
    BY <1>6 DEF AheadOf
  <2> HIDE DEF h, d
  <2>5. Total(h, 1) = d
    BY <2>1, <2>2, <2>3, TotalOfOne
  <2> QED BY <2>4, <2>5 DEF d
<1>8. ASSUME NEW p \in P
      PROVE  /\ AheadOf(w, p) <= occurrences[p]
             /\ ~ HasDeadClosure => AheadOf(w, p) = occurrences[p]
  BY <1>1, <1>7, UnderMainIsPlanned
<1>9. MaxUsize \in Nat /\ MaxUsize >= 1
  BY BoundsAssumption
<1>10. occurrences \in [P -> 0 .. MaxUsize]
  BY DEF ExpansionInvariant, ExpansionTypeOK
<1>11. DriverTypeOK'
  <2>1. worklist' \in Seq([instance : 1 .. scheduled', function : P])
    <3>1. item \in [instance : 1 .. scheduled', function : P]
      BY <1>1, <1>4
    <3> HIDE DEF item
    <3> QED BY <1>1, <3>1
  <2>2. bodies' \in [1 .. scheduled' -> SUBSET (1 .. scheduled')]
    BY <1>1
  <2> QED BY <1>1, <1>2, <1>3, <1>9, <1>10, <2>1, <2>2 DEF DriverTypeOK, Phases
<1>12. WorkIsPlanned'
  <2> HIDE DEF P, w
  <2>1. \A p \in P : /\ Ahead(p)' <= remaining'[p]
                     /\ ~ HasDeadClosure' => Ahead(p)' = remaining'[p]
    BY <1>1, <1>3, <1>8
  <2>2. Prototypes(chunk)' = P
    BY <1>3 DEF P
  <2> QED BY <2>1, <2>2 DEF WorkIsPlanned
<1>13. LiftedIsStruckOff'
  <2> DEFINE g == LiftedWith(occurrences)
             h == ProcessedWith(occurrences)
  <2>1. /\ (LiftedInstances)' = g
        /\ (LiftedInstructions)' = h
    BY <1>1, <1>3 DEF LiftedInstances, LiftedInstructions, LiftedWith, ProcessedWith
  <2>2. \A p \in 0 .. n - 1 : g[p] = 0 /\ h[p] = 0
    <3> SUFFICES ASSUME NEW p \in P PROVE g[p] = 0 /\ h[p] = 0
      BY <1>4
    <3>1. g[p] = occurrences[p] - occurrences[p] /\ h[p] = (occurrences[p] - occurrences[p]) * Len(Code(p))
      BY DEF LiftedWith, ProcessedWith
    <3>2. occurrences[p] - occurrences[p] = 0 /\ Len(Code(p)) \in Nat
      BY <1>5
    <3>3. \A x \in Nat : 0 * x = 0
      OBVIOUS
    <3> HIDE DEF g, h
    <3> QED BY <3>1, <3>2, <3>3
  <2> HIDE DEF g, h
  <2>3. Total(g, n) = 0 /\ Total(h, n) = 0
    BY <1>4, <2>2, TotalOfZeros
  <2>4. chunk.count' = n
    BY <1>3
  <2>5. scheduled' = Total(LiftedInstances', chunk.count') + Len(worklist')
    BY <1>1, <1>6, <2>1, <2>3, <2>4
  <2>6. processed' = Total(LiftedInstructions', chunk.count')
    BY <1>1, <1>2, <2>1, <2>3, <2>4
  <2>7. \A p \in Prototypes(chunk)' : remaining'[p] <= occurrences'[p]
    BY <1>1, <1>3, <1>5
  <2> QED BY <1>1, <1>2, <2>5, <2>6, <2>7 DEF LiftedIsStruckOff
<1>14. LiftedHasEntry'
  <2>1. 1 \in 1 .. Len(worklist') /\ worklist'[1].instance = 1
    BY <1>1, <1>6
  <2>2. \A i \in 1 .. scheduled' : i = 1
    BY <1>1
  <2> QED BY <2>1, <2>2 DEF LiftedHasEntry
<1>15. EveryClosureLinks' /\ PlanIsFollowed'
  BY <1>1 DEF EveryClosureLinks, PlanIsFollowed
<1>16. DriverIsInStep'
  BY <1>1, <1>3 DEF DriverIsInStep
<1> QED BY <1>11, <1>12, <1>13, <1>14, <1>15, <1>16 DEF DriverInvariant

(* The check at the end of the loop finds the plan used up, unless the     *)
(* chunk has dead closures.                                                *)
LEMMA EmptyWorklist ==
  ASSUME ExpansionInvariant, DriverInvariant, phase = "lifting", worklist = <<>>, ~ HasDeadClosure
  PROVE  PlanUsedUp
<1> DEFINE n == chunk.count
           S == [instance : 1 .. scheduled, function : Prototypes(chunk)]
<1>1. plan = "planned" /\ scheduled \in Nat
  BY BoundsAssumption DEF DriverInvariant, DriverIsInStep, DriverTypeOK
<1>2. worklist \in Seq(Item) /\ Len(worklist) = 0
  BY EmptySeq
<1>3. \A p \in Prototypes(chunk) : Ahead(p) = AheadOf(worklist, p) /\ AheadOf(worklist, p) = 0
  <2>1. \A p \in Prototypes(chunk) : AheadOf(worklist, p) = 0
    BY <1>1, <1>2, AheadFacts
  <2>2. \A p : Ahead(p) = AheadOf(worklist, p)
    BY DEF Ahead, AheadOf
  <2> QED BY <2>1, <2>2
<1>4. \A p \in Prototypes(chunk) : remaining[p] = 0
  BY <1>3 DEF DriverInvariant, WorkIsPlanned
<1>5. IsLeft(remaining, worklist)
  <2>1. \A p \in Prototypes(chunk) : occurrences[p] \in Nat
    BY <1>1, WalkFacts
  <2>2. \A p \in Prototypes(chunk) :
           remaining[p] \in Nat /\ remaining[p] <= occurrences[p] /\ AheadOf(worklist, p) <= remaining[p]
    BY <1>3, <1>4, <2>1
  <2> QED BY <2>2 DEF IsLeft
<1>6. Total(LiftedWith(remaining), n) = instances /\ Total(ProcessedWith(remaining), n) = instructions
  BY <1>1, <1>2, <1>4, <1>5, BooksFit
<1>7. instances \in Nat
  BY DEF ExpansionInvariant, ExpansionTypeOK
<1>8. /\ scheduled = Total(LiftedWith(remaining), n) + Len(worklist)
      /\ processed = Total(ProcessedWith(remaining), n)
  BY DEF DriverInvariant, LiftedIsStruckOff, LiftedInstances, LiftedInstructions, LiftedWith, ProcessedWith
<1>9. scheduled = instances /\ processed = instructions
  BY <1>2, <1>6, <1>7, <1>8
<1> QED BY <1>4, <1>9 DEF PlanUsedUp

(* The walk of the bodies from main stays among the scheduled instances.   *)
IsTreeWalk(b, k) ==
    b = [i \in 0 .. k |-> IF i = 0 THEN {1} ELSE b[i - 1] \cup UNION {bodies[j] : j \in b[i - 1]}]

(* So link_upvalues only meets instances that were scheduled.              *)
LEMMA TreeIsScheduled ==
  ASSUME scheduled \in Nat, scheduled > 0, bodies \in [1 .. scheduled -> SUBSET (1 .. scheduled)]
  PROVE  InTree \subseteq 1 .. scheduled
<1> DEFINE n == scheduled
           L(v) == v \cup UNION {bodies[j] : j \in v}
           S == {k \in 0 .. n : \E b : IsTreeWalk(b, k)}
<1>1. 0 \in S
  <2> DEFINE b == [k \in 0 .. 0 |-> {1}]
  <2>1. IsTreeWalk(b, 0)
    BY DEF IsTreeWalk
  <2> HIDE DEF b
  <2> QED BY <2>1
<1>2. ASSUME NEW k \in 0 .. n - 1, k \in S
      PROVE  k + 1 \in S
  <2>1. PICK b : IsTreeWalk(b, k)
    BY <1>2
  <2> DEFINE t == [i \in 0 .. k + 1 |-> IF i = k + 1 THEN L(b[k]) ELSE b[i]]
  <2>2. b = [i \in 0 .. k |-> IF i = 0 THEN {1} ELSE L(b[i - 1])]
    BY <2>1 DEF IsTreeWalk
  <2> HIDE DEF L
  <2>3. ASSUME NEW i \in 0 .. k + 1
        PROVE  t[i] = IF i = 0 THEN {1} ELSE L(t[i - 1])
    <3>1. CASE i = k + 1
      <4>1. i # 0 /\ i - 1 = k /\ k \in 0 .. k + 1 /\ k # k + 1
        BY <3>1
      <4>2. t[i] = L(b[k]) /\ t[i - 1] = b[k]
        BY <3>1, <4>1
      <4> QED BY <4>1, <4>2
    <3>2. CASE i # k + 1
      <4>1. i \in 0 .. k
        BY <3>2
      <4>2. t[i] = b[i]
        BY <3>2
      <4>3. CASE i = 0
        BY <2>2, <4>1, <4>2, <4>3
      <4>4. CASE i # 0
        <5>1. i - 1 \in 0 .. k + 1 /\ i - 1 # k + 1
          BY <4>1, <4>4
        <5>2. t[i - 1] = b[i - 1]
          BY <5>1
        <5>3. b[i] = L(b[i - 1])
          BY <2>2, <4>1, <4>4
        <5> QED BY <4>2, <4>4, <5>2, <5>3
      <4> QED BY <4>3, <4>4
    <3> QED BY <3>1, <3>2
  <2>4. t = [i \in 0 .. k + 1 |-> IF i = 0 THEN {1} ELSE L(t[i - 1])]
    BY <2>3
  <2> HIDE DEF t
  <2>5. IsTreeWalk(t, k + 1)
    BY <2>4 DEF IsTreeWalk, L
  <2> QED BY <2>5
<1> HIDE DEF S
<1>3. \A k \in 0 .. n : k \in S
  BY <1>1, <1>2, InductionUpTo
<1>4. \E b : IsTreeWalk(b, n)
  BY <1>3 DEF S
<1>5. PICK b : IsTreeWalk(b, n) /\ InTree = b[n]
  <2>1. InTree = (CHOOSE b : IsTreeWalk(b, n))[n]
    BY DEF InTree, IsTreeWalk
  <2> QED BY <1>4, <2>1
<1>6. b = [i \in 0 .. n |-> IF i = 0 THEN {1} ELSE L(b[i - 1])]
  BY <1>5 DEF IsTreeWalk
<1> DEFINE R == {k \in 0 .. n : b[k] \subseteq 1 .. n}
<1>7. 0 \in R
  BY <1>6
<1>8. ASSUME NEW k \in 0 .. n - 1, k \in R
      PROVE  k + 1 \in R
  <2> DEFINE v == b[k]
  <2>1. v \subseteq 1 .. n
    BY <1>8
  <2>2. k + 1 \in 0 .. n /\ k + 1 # 0 /\ (k + 1) - 1 = k
    OBVIOUS
  <2>3. b[k + 1] = L(v)
    <3> HIDE DEF L
    <3> QED BY <1>6, <2>2
  <2> HIDE DEF v
  <2>4. \A j \in v : bodies[j] \subseteq 1 .. n
    BY <2>1
  <2>5. L(v) \subseteq 1 .. n
    BY <2>1, <2>4
  <2> QED BY <2>2, <2>3, <2>5
<1> HIDE DEF R
<1>9. \A k \in 0 .. n : k \in R
  BY <1>7, <1>8, InductionUpTo
<1> QED BY <1>5, <1>9 DEF R

(* The remaining steps of the driver: a prototype that cannot be lifted,   *)
(* the end of the loop, and the linking.                                   *)
LEMMA EndingStep ==
  ASSUME ExpansionInvariant, DriverInvariant, FailLift \/ EndLifting \/ Link,
         UNCHANGED <<graphVars, expansionVars>>, ExpansionTypeOK'
  PROVE  DriverInvariant'
<1> DEFINE P == Prototypes(chunk)
<1>1. /\ chunk' = chunk /\ plan' = plan /\ P' = P /\ HasDeadClosure' = HasDeadClosure
  BY SamePlan
<1>2. DriverTypeOK /\ DriverIsInStep /\ EveryClosureLinks /\ MaxUsize \in Nat
  BY BoundsAssumption DEF DriverInvariant
<1>3. CASE FailLift
  <2> DEFINE f == Pending.function
             S == [instance : 1 .. scheduled, function : P]
  <2>1. /\ phase = "lifting" /\ phase' = "lift_error" /\ worklist' = Front(worklist)
        /\ processed' = processed + Len(PendingCode) /\ remaining' = remaining
        /\ released' = released /\ scheduled' = scheduled /\ bodies' = bodies /\ upvalues' = upvalues
        /\ worklist # <<>>
    BY <1>3 DEF FailLift, Popping
  <2>2. /\ plan = "planned" /\ f \in P /\ IsLeft(remaining, worklist) /\ worklist \in Seq(Item)
        /\ remaining[f] \in Nat /\ remaining[f] > 0 /\ PendingCode = Code(f) /\ Len(Code(f)) \in Nat
        /\ scheduled \in Nat
    BY <2>1, PendingFacts DEF Popping
  <2>3. worklist' \in Seq(S)
    <3>1. worklist \in Seq(S)
      BY <1>2 DEF DriverTypeOK
    <3> HIDE DEF S
    <3> QED BY <2>1, <3>1, FrontFacts
  <2>4. processed' \in 0 .. MaxUsize
    <3> DEFINE n == chunk.count
               g == ProcessedWith(remaining)
               whole == ProcessedWith([p \in P |-> 0])
    <3>1. n \in Nat /\ P = 0 .. n - 1
      BY <2>2, WalkFacts
    <3>2. \A p \in P : /\ remaining[p] \in Nat /\ remaining[p] <= occurrences[p]
                       /\ occurrences[p] \in Nat /\ Len(Code(p)) \in Nat
      BY <2>2, WalkFacts DEF IsLeft
    <3>3. processed = Total(g, n)
      BY <2>1 DEF DriverInvariant, LiftedIsStruckOff, LiftedInstructions, ProcessedWith
    <3>4. Total(whole, n) = instructions
      <4> DEFINE all == [p \in P |-> Instantiations(chunk)[p] * Len(chunk.functions[p].code)]
      <4>1. occurrences = Instantiations(chunk) /\ instructions = Total(all, n)
        BY <2>2, CountsAreExact DEF AllExpanded
      <4>2. \A p \in 0 .. n - 1 : whole[p] \in Int /\ whole[p] = all[p]
        <5> SUFFICES ASSUME NEW p \in P PROVE whole[p] \in Int /\ whole[p] = all[p]
          BY <3>1
        <5> DEFINE x == occurrences[p]
                   y == Len(Code(p))
        <5>1. x \in Nat /\ y \in Nat
          BY <3>2
        <5>2. whole[p] = (x - 0) * y
          BY DEF ProcessedWith
        <5>3. all[p] = x * y
          BY <4>1 DEF Code
        <5> HIDE DEF x, y, whole, all
        <5>4. x - 0 = x /\ \A a, b \in Nat : a * b \in Int
          BY <5>1
        <5> QED BY <5>1, <5>2, <5>3, <5>4
      <4> HIDE DEF whole, all
      <4>3. Total(whole, n) = Total(all, n)
        BY <3>1, <4>2, TotalEqual
      <4> QED BY <4>1, <4>3
    <3> DEFINE d == Len(Code(f))
               h == [p \in P |-> IF p = f THEN g[f] + d ELSE g[p]]
    <3>5. \A p \in P : /\ g[p] \in Nat /\ whole[p] \in Nat /\ g[p] <= whole[p]
                       /\ p = f => g[p] + d <= whole[p]
      <4> SUFFICES ASSUME NEW p \in P
                   PROVE  /\ g[p] \in Nat /\ whole[p] \in Nat /\ g[p] <= whole[p]
                          /\ p = f => g[p] + d <= whole[p]
        OBVIOUS
      <4> DEFINE x == occurrences[p] - remaining[p]
                 y == remaining[p]
                 z == Len(Code(p))
      <4>1. x \in Nat /\ y \in Nat /\ z \in Nat /\ occurrences[p] = x + y
        BY <3>2
      <4>2. g[p] = x * z /\ whole[p] = (x + y) * z
        <5>1. g[p] = x * z /\ whole[p] = (occurrences[p] - 0) * z
          BY DEF ProcessedWith
        <5>2. occurrences[p] - 0 = x + y
          BY <3>2
        <5> HIDE DEF g, whole
        <5> QED BY <5>1, <5>2
      <4>3. p = f => y > 0 /\ z = d
        BY <2>2
      <4> HIDE DEF x, y, z, d, g, whole, f
      <4>4. \A a, b, c \in Nat : /\ a * c \in Nat /\ (a + b) * c \in Nat /\ a * c <= (a + b) * c
                                 /\ b > 0 => a * c + c <= (a + b) * c
        <5> SUFFICES ASSUME NEW a \in Nat, NEW b \in Nat, NEW c \in Nat
                     PROVE  /\ a * c \in Nat /\ (a + b) * c \in Nat /\ a * c <= (a + b) * c
                            /\ b > 0 => a * c + c <= (a + b) * c
          OBVIOUS
        <5>1. a * c \in Nat /\ b * c \in Nat /\ (a + b) * c = a * c + b * c
          OBVIOUS
        <5>2. CASE b > 0
          <6>1. b - 1 \in Nat
            BY <5>2
          <6>2. (b - 1) * c \in Nat /\ b * c = (b - 1) * c + c
            BY <6>1
          <6> QED BY <5>1, <6>2
        <5> QED BY <5>1, <5>2
      <4> QED BY <4>1, <4>2, <4>3, <4>4
    <3>6. \A p \in 0 .. n - 1 : g[p] \in Int
      BY <3>1, <3>5
    <3>7. f \in 0 .. n - 1 /\ d \in Int
      BY <2>2, <3>1
    <3> HIDE DEF g, whole
    <3>8. h[f] = g[f] + d /\ \A p \in 0 .. n - 1 : p # f => h[p] = g[p]
      BY <2>2, <3>1
    <3>9. \A p \in 0 .. n - 1 : h[p] \in Nat /\ whole[p] \in Int /\ h[p] <= whole[p]
      <4> SUFFICES ASSUME NEW p \in P PROVE h[p] \in Nat /\ whole[p] \in Int /\ h[p] <= whole[p]
        BY <3>1
      <4>1. d \in Nat
        BY <2>2
      <4>2. h[p] = IF p = f THEN g[p] + d ELSE g[p]
        OBVIOUS
      <4> HIDE DEF h, d, f
      <4> QED BY <3>5, <4>1, <4>2
    <3> HIDE DEF h, d, n, f
    <3>10. Total(h, n) = Total(g, n) + d
      BY <3>1, <3>6, <3>7, <3>8, TotalChange
    <3>11. Total(h, n) <= Total(whole, n)
      <4>1. \A p \in 0 .. n - 1 : h[p] \in Int /\ whole[p] \in Int /\ h[p] <= whole[p]
        BY <3>9
      <4> QED BY <3>1, <4>1, TotalMonotonic
    <3>12. Total(h, n) \in Nat
      BY <3>1, <3>9, TotalOfNaturals
    <3>13. instructions \in 0 .. MaxUsize
      BY <2>2 DEF ExpansionInvariant, ExpansionTypeOK
    <3>14. processed' = Total(h, n)
      BY <2>1, <2>2, <3>3, <3>10 DEF d, f
    <3> QED BY <1>2, <3>4, <3>11, <3>12, <3>13, <3>14
  <2>5. DriverTypeOK'
    BY <1>1, <1>2, <2>1, <2>3, <2>4 DEF DriverTypeOK, Phases
  <2> QED
    BY <1>1, <1>2, <2>1, <2>2, <2>5
    DEF DriverInvariant, DriverIsInStep, WorkIsPlanned, LiftedIsStruckOff, LiftedHasEntry, PlanIsFollowed,
        EveryClosureLinks
<1>4. CASE EndLifting
  <2>1. /\ phase = "lifting" /\ worklist = <<>>
        /\ phase' = IF PlanUsedUp THEN "linking" ELSE "mismatch"
        /\ worklist' = worklist /\ processed' = processed /\ remaining' = remaining
        /\ released' = released /\ scheduled' = scheduled /\ bodies' = bodies /\ upvalues' = upvalues
    BY <1>4 DEF EndLifting
  <2>2. phase' = "mismatch" => HasDeadClosure
    BY <2>1, EmptyWorklist
  <2>3. DriverTypeOK'
    BY <1>1, <1>2, <2>1 DEF DriverTypeOK, Phases
  <2>4. LiftedHasEntry'
    BY <2>1 DEF DriverInvariant, LiftedHasEntry
  <2> QED
    BY <1>1, <1>2, <2>1, <2>2, <2>3, <2>4
    DEF DriverInvariant, DriverIsInStep, WorkIsPlanned, LiftedIsStruckOff, PlanIsFollowed, EveryClosureLinks
<1>5. CASE Link
  <2>1. /\ phase = "linking"
        /\ phase' = IF InTree \subseteq upvalues THEN "linked" ELSE "link_panic"
        /\ upvalues' = upvalues \ {1}
        /\ worklist' = worklist /\ processed' = processed /\ remaining' = remaining
        /\ released' = released /\ scheduled' = scheduled /\ bodies' = bodies
    BY <1>5 DEF Link
  <2>2. worklist = <<>> /\ scheduled \in Nat /\ scheduled > 0 /\ plan = "planned"
    BY <1>2, <2>1 DEF DriverIsInStep, DriverTypeOK
  <2>3. 1 .. scheduled \subseteq upvalues
    <3>1. 1 .. Len(worklist) = {}
      <4>1. Len(worklist) = 0
        BY <2>2, EmptySeq
      <4> QED BY <4>1
    <3> QED BY <2>1, <3>1 DEF DriverInvariant, LiftedHasEntry
  <2>4. InTree \subseteq 1 .. scheduled
    <3>1. bodies \in [1 .. scheduled -> SUBSET (1 .. scheduled)]
      BY <1>2 DEF DriverTypeOK
    <3> QED BY <2>2, <3>1, TreeIsScheduled
  <2>5. phase' = "linked"
    BY <2>1, <2>3, <2>4
  <2>6. DriverTypeOK'
    BY <1>1, <1>2, <2>1, <2>5 DEF DriverTypeOK, Phases
  <2> QED
    BY <1>1, <1>2, <2>1, <2>2, <2>5, <2>6
    DEF DriverInvariant, DriverIsInStep, WorkIsPlanned, LiftedIsStruckOff, LiftedHasEntry, PlanIsFollowed,
        EveryClosureLinks
<1> QED BY <1>3, <1>4, <1>5

(* While the plan is made the driver has not begun.                        *)
LEMMA PlanningStep ==
  ASSUME ExpansionInvariant, DriverInvariant, ExpansionNext, UNCHANGED driverVars, ExpansionTypeOK'
  PROVE  DriverInvariant'
<1>1. plan # "planned" /\ chunk' = chunk
  <2>1. CASE Next /\ UNCHANGED expansionVars
    <3>1. result = "running" /\ chunk' = chunk
      BY <2>1 DEF Next, SkipRoot, StartRoot, Accept, Visit, Descend, PassFinished, RejectCycle,
                  RejectMissing, Finish, HasChild
    <3> QED BY <3>1, WalkFacts
  <2>2. CASE (Plan \/ Walk) /\ UNCHANGED graphVars
    BY <2>2 DEF Plan, Walk, SkipUnused, Charge, PassInstruction, RejectClosure, CountClosure, AcceptPlan,
                BetweenPrototypes, Scanning, graphVars
  <2> QED BY <2>1, <2>2 DEF ExpansionNext
<1>2. phase = "idle"
  BY <1>1 DEF DriverInvariant, DriverIsInStep
<1>3. /\ worklist' = worklist /\ remaining' = remaining /\ released' = released
      /\ scheduled' = scheduled /\ processed' = processed /\ bodies' = bodies
      /\ upvalues' = upvalues /\ phase' = phase
  BY DEF driverVars
<1>4. Prototypes(chunk)' = Prototypes(chunk)
  BY <1>1 DEF Prototypes
<1>5. DriverTypeOK /\ DriverIsInStep /\ EveryClosureLinks
  BY DEF DriverInvariant
<1>6. DriverTypeOK'
  BY <1>2, <1>3, <1>4, <1>5 DEF DriverTypeOK
<1> QED
  BY <1>2, <1>3, <1>5, <1>6
  DEF DriverInvariant, DriverIsInStep, WorkIsPlanned, LiftedIsStruckOff, LiftedHasEntry, PlanIsFollowed,
      EveryClosureLinks

(* A step that changes nothing keeps the invariant.                        *)
LEMMA DriverStutter ==
  ASSUME DriverInvariant, UNCHANGED allVars, ExpansionTypeOK'
  PROVE  DriverInvariant'
<1>1. UNCHANGED <<graphVars, expansionVars>> /\ UNCHANGED driverVars
  BY DEF allVars
<1>2. /\ chunk' = chunk /\ plan' = plan /\ occurrences' = occurrences
      /\ Prototypes(chunk)' = Prototypes(chunk)
      /\ \A f : Code(f)' = Code(f)
      /\ HasDeadClosure' = HasDeadClosure
      /\ \A p : Ahead(p) = AheadOf(worklist, p) /\ Ahead(p)' = AheadOf(worklist', p)
  BY <1>1, SamePlan
<1>3. /\ worklist' = worklist /\ remaining' = remaining /\ released' = released
      /\ scheduled' = scheduled /\ processed' = processed /\ bodies' = bodies
      /\ upvalues' = upvalues /\ phase' = phase
  BY <1>1 DEF driverVars
<1>4. DriverTypeOK' /\ DriverIsInStep' /\ PlanIsFollowed' /\ EveryClosureLinks' /\ LiftedHasEntry'
  BY <1>2, <1>3
  DEF DriverInvariant, DriverTypeOK, DriverIsInStep, PlanIsFollowed, EveryClosureLinks, LiftedHasEntry
<1>5. WorkIsPlanned'
  BY <1>2, <1>3 DEF DriverInvariant, WorkIsPlanned
<1>6. (LiftedInstances)' = LiftedInstances /\ (LiftedInstructions)' = LiftedInstructions
  BY <1>2, <1>3 DEF LiftedInstances, LiftedInstructions
<1>7. LiftedIsStruckOff'
  BY <1>2, <1>3, <1>6 DEF DriverInvariant, LiftedIsStruckOff
<1> QED BY <1>4, <1>5, <1>7 DEF DriverInvariant

-----------------------------------------------------------------------------
(* The driver leaves the walk that makes the plan alone: every step of the *)
(* whole is a step of the walk or keeps its variables.                     *)
LEMMA DriverStepExpands ==
  ASSUME [DriverNext]_allVars
  PROVE  [ExpansionNext]_<<graphVars, expansionVars>>
BY DEF DriverNext, allVars

(* The invariant holds before the first step.                              *)
LEMMA DriverStart ==
  ASSUME DriverInit
  PROVE  ExpansionInvariant /\ DriverInvariant
<1>1. ExpansionInvariant
  BY ExpansionStart DEF DriverInit
<1>2. /\ worklist = <<>> /\ remaining = [p \in Prototypes(chunk) |-> 0] /\ released = {}
      /\ scheduled = 0 /\ processed = 0 /\ bodies = <<>> /\ upvalues = {} /\ phase = "idle"
  BY DEF DriverInit
<1>3. DriverTypeOK
  <2>1. ExpansionTypeOK
    BY <1>1 DEF ExpansionInvariant
  <2>2. MaxUsize \in Nat
    BY BoundsAssumption
  <2>3. bodies \in [1 .. scheduled -> SUBSET (1 .. scheduled)]
    BY <1>2
  <2> QED BY <1>2, <2>1, <2>2, <2>3, EmptySeq DEF DriverTypeOK, Phases
<1> QED
  BY <1>1, <1>2, <1>3
  DEF DriverInvariant, DriverIsInStep, WorkIsPlanned, LiftedIsStruckOff, LiftedHasEntry, PlanIsFollowed,
      EveryClosureLinks

(* Every step of the driver and of the walks before it keeps the           *)
(* invariant.                                                              *)
LEMMA DriverStep ==
  ASSUME ExpansionInvariant, DriverInvariant, [DriverNext]_allVars
  PROVE  ExpansionInvariant' /\ DriverInvariant'
<1>1. ExpansionInvariant' /\ ExpansionTypeOK'
  <2>1. ExpansionInvariant'
    BY DriverStepExpands, ExpansionStep
  <2> QED BY <2>1 DEF ExpansionInvariant
<1>2. CASE ExpansionNext /\ UNCHANGED driverVars
  BY <1>1, <1>2, PlanningStep
<1>3. CASE Decompile /\ UNCHANGED <<graphVars, expansionVars>>
  BY <1>1, <1>3, DecompileStep
<1>4. CASE (Recover \/ Stub) /\ UNCHANGED <<graphVars, expansionVars>>
  <2>1. Popping
    BY <1>4 DEF Recover, Stub
  <2>2. remaining[Pending.function] # 0
    <3>1. remaining[Pending.function] \in Nat /\ remaining[Pending.function] > 0
      BY <2>1, PendingFacts
    <3> QED BY <3>1
  <2>3. Schedule(LiftedChildren(Pending.function))
    BY <1>4, <2>2 DEF Recover, Stub
  <2>4. \E body : IsBody(body, scheduled') /\ Fill(body)
    <3>1. Fill(scheduled + 1 .. scheduled') \/ Fill({})
      BY <1>4, <2>2 DEF Recover, Stub
    <3> QED BY <3>1 DEF IsBody
  <2> QED BY <1>1, <1>4, <2>1, <2>3, <2>4, InstanceStep
<1>5. CASE (FailLift \/ EndLifting \/ Link) /\ UNCHANGED <<graphVars, expansionVars>>
  BY <1>1, <1>5, EndingStep
<1>6. CASE UNCHANGED allVars
  BY <1>1, <1>6, DriverStutter
<1> QED BY <1>1, <1>2, <1>3, <1>4, <1>5, <1>6 DEF DriverNext, DecompileNext

(* The walk that makes the plan behaves in the driver as it does alone, so *)
(* everything that is proved about the plan holds of the plan the driver   *)
(* follows.                                                                *)
THEOREM DriverFollowsExpansion ==
  DriverSpec => ExpansionInit /\ [][ExpansionNext]_<<graphVars, expansionVars>>
<1>1. DriverInit => ExpansionInit
  BY DEF DriverInit
<1>2. [DriverNext]_allVars => [ExpansionNext]_<<graphVars, expansionVars>>
  BY DriverStepExpands
<1> QED BY <1>1, <1>2, PTL DEF DriverSpec

(* The books of decompile_chunk balance in every state: what was lifted,   *)
(* what is on the worklist and what is left of the plan.                   *)
THEOREM DriverInvariantHolds == DriverSpec => [](ExpansionInvariant /\ DriverInvariant)
<1>1. DriverInit => ExpansionInvariant /\ DriverInvariant
  BY DriverStart
<1>2. ExpansionInvariant /\ DriverInvariant /\ [DriverNext]_allVars
        => (ExpansionInvariant /\ DriverInvariant)'
  BY DriverStep
<1> QED BY <1>1, <1>2, PTL DEF DriverSpec

(* The driver's counters hold usize values, and its tables have an entry   *)
(* per scheduled instance.                                                 *)
THEOREM DriverTypeCorrect == DriverSpec => []DriverTypeOK
<1>1. DriverInvariant => DriverTypeOK
  BY DEF DriverInvariant
<1> QED BY <1>1, DriverInvariantHolds, PTL

(* The checks of decompile_chunk against the plan never fire inside its    *)
(* loop, and the one at the end only for a chunk with dead closures.       *)
THEOREM TheLoopKeepsToThePlan == DriverSpec => []PlanIsFollowed
<1>1. DriverInvariant => PlanIsFollowed
  BY DEF DriverInvariant
<1> QED BY <1>1, DriverInvariantHolds, PTL

(* What the worklist leads to is in the plan, and all of it without dead   *)
(* closures.                                                               *)
THEOREM TheWorklistIsPlanned == DriverSpec => []WorkIsPlanned
<1>1. DriverInvariant => WorkIsPlanned
  BY DEF DriverInvariant
<1> QED BY <1>1, DriverInvariantHolds, PTL

(* A released prototype has nothing left of the plan, so nothing is ahead. *)
LEMMA ReleasedLeadsNowhere ==
  ASSUME ExpansionInvariant, DriverInvariant
  PROVE  ReleasedIsUnneeded
<1> SUFFICES ASSUME phase = "lifting", NEW p \in released PROVE Ahead(p) = 0
  BY DEF ReleasedIsUnneeded
<1>1. p \in Prototypes(chunk) /\ remaining[p] = 0 /\ plan = "planned"
  BY DEF DriverInvariant, DriverTypeOK, DriverIsInStep, LiftedIsStruckOff
<1>2. Ahead(p) <= 0
  BY <1>1 DEF DriverInvariant, WorkIsPlanned
<1>3. Ahead(p) \in Nat
  <2>1. Ahead(p) = AheadOf(worklist, p)
    BY DEF Ahead, AheadOf
  <2>2. worklist \in Seq(Item)
    <3>1. CASE worklist = <<>>
      BY <3>1, EmptySeq
    <3>2. CASE worklist # <<>>
      BY <3>2, PendingFacts DEF Popping
    <3> QED BY <3>1, <3>2
  <2> QED BY <1>1, <2>1, <2>2, AheadFacts
<1> QED BY <1>2, <1>3

(* The bytecode of a prototype is dropped only when nothing the driver     *)
(* still has to lift needs it.                                             *)
THEOREM ReleaseIsSafe == DriverSpec => []ReleasedIsUnneeded
<1>1. ExpansionInvariant /\ DriverInvariant => ReleasedIsUnneeded
  BY ReleasedLeadsNowhere
<1> QED BY <1>1, DriverInvariantHolds, PTL

(* Linking finds the upvalues of every closure, whichever instances were   *)
(* stubbed, and no instance is created twice.                              *)
THEOREM LinkingFindsEveryClosure == DriverSpec => []EveryClosureLinks
<1>1. DriverInvariant => EveryClosureLinks
  BY DEF DriverInvariant
<1> QED BY <1>1, DriverInvariantHolds, PTL
=============================================================================
