------------------------- MODULE PrototypeExpansion -------------------------
(***************************************************************************)
(* validate_expansion_budget (luau-lifter/src/lib.rs), which follows       *)
(* validate_prototype_graph: it walks the prototype order once and counts  *)
(* how often every prototype will be instantiated when main is decompiled, *)
(* one instance per closure instruction of each instance of its parent.    *)
(* It refuses a chunk whose expansion is larger than the input, nests too  *)
(* deep, or names a closure that does not exist.                           *)
(***************************************************************************)
EXTENDS PrototypeGraph, FiniteSets, NaturalSums

CONSTANTS
  Budgets,     \* the sizes in bytes the input may have
  MaxDepth,    \* MAX_SAFE_PROTOTYPE_DEPTH, 512
  MaxUsize     \* the largest usize

ASSUME BoundsAssumption ==
    /\ MaxUsize \in Nat
    /\ MaxDepth \in 1 .. MaxUsize - 1
    /\ Budgets \subseteq 0 .. MaxUsize

VARIABLES
  budget,        \* input_bytes
  position,      \* the prototype order is processed up to here
  cursor,        \* the instructions of the current prototype are, up to here
  occurrences,   \* instances per prototype
  depths,        \* the longest closure chain that reaches it
  instances,     \* the sum of the occurrences seen so far
  instructions,  \* the instructions of all those instances
  plan           \* "idle", "running", or what the function returned

expansionVars == <<budget, position, cursor, occurrences, depths, instances, instructions, plan>>

Current == PrototypeOrder[position]
Code(f) == chunk.functions[f].code

ExpansionInit ==
    /\ Init
    /\ budget \in Budgets
    /\ position = 0 /\ cursor = 0
    /\ occurrences = [p \in Prototypes(chunk) |-> 0]
    /\ depths = [p \in Prototypes(chunk) |-> 0]
    /\ instances = 0 /\ instructions = 0
    /\ plan = "idle"

-----------------------------------------------------------------------------
(* The driver calls validate_expansion_budget with the accepted order.     *)
Plan ==
    /\ plan = "idle" /\ result = "accepted"
    /\ plan' = "running"
    /\ occurrences' = [occurrences EXCEPT ![chunk.main] = 1]
    /\ depths' = [depths EXCEPT ![chunk.main] = 1]
    /\ UNCHANGED <<budget, position, cursor, instances, instructions>>

(* The outer loop is between two prototypes; next is the one it takes.     *)
BetweenPrototypes ==
    /\ plan = "running"
    /\ position > 0 => cursor = Len(Code(Current))

NextPrototype == PrototypeOrder[position + 1]

(* A prototype that main never reaches is skipped.                         *)
SkipUnused ==
    /\ BetweenPrototypes /\ position < Len(PrototypeOrder)
    /\ occurrences[NextPrototype] = 0
    /\ position' = position + 1
    /\ cursor' = Len(Code(NextPrototype))
    /\ UNCHANGED <<budget, occurrences, depths, instances, instructions, plan>>

(* A plausible slip: a prototype is charged once, not once per instance.   *)
ExpandedOnce(f) == Len(Code(f))

Expanded(f) == Len(Code(f)) * occurrences[f]

(* A plausible slip: the budget itself is already too much.                *)
ChargeBefore ==
    /\ BetweenPrototypes /\ position < Len(PrototypeOrder)
    /\ occurrences[NextPrototype] # 0
    /\ position' = position + 1
    /\ cursor' = 0
    /\ instances' = instances + occurrences[NextPrototype]
    /\ instructions' = instructions + Expanded(NextPrototype)
    /\ plan' = IF instances' >= budget \/ instructions' >= budget THEN "over_budget"
               ELSE "running"
    /\ UNCHANGED <<budget, occurrences, depths>>

(* A prototype is charged for all its instances.  Every sum is checked, so *)
(* that one that does not fit a usize ends the walk.                       *)
Charge ==
    /\ BetweenPrototypes /\ position < Len(PrototypeOrder)
    /\ occurrences[NextPrototype] # 0
    /\ position' = position + 1
    /\ cursor' = 0
    /\ instances' = instances + occurrences[NextPrototype]
    /\ instructions' = instructions + Expanded(NextPrototype)
    /\ plan' = IF instances' > MaxUsize \/ instructions' > MaxUsize THEN "overflow"
               ELSE IF instances' > budget \/ instructions' > budget THEN "over_budget"
               ELSE "running"
    /\ UNCHANGED <<budget, occurrences, depths>>

(* The inner loop looks for closure instructions.                          *)
Scanning ==
    /\ plan = "running" /\ position > 0
    /\ cursor < Len(Code(Current))

Scanned == Code(Current)[cursor + 1]

PassInstruction ==
    /\ Scanning /\ ~ IsClosure(Scanned)
    /\ cursor' = cursor + 1
    /\ UNCHANGED <<budget, position, occurrences, depths, instances, instructions, plan>>

RejectClosure ==
    /\ Scanning /\ IsClosure(Scanned) /\ ~ ValidClosure(chunk, Current, Scanned)
    /\ plan' = "invalid_closure"
    /\ UNCHANGED <<budget, position, cursor, occurrences, depths, instances, instructions>>

Larger(m, n) == IF m < n THEN n ELSE m

(* A plausible slip: a closure counts once, whatever the instances of its  *)
(* parent.                                                                 *)
CountOnce ==
    /\ Scanning /\ IsClosure(Scanned) /\ ValidClosure(chunk, Current, Scanned)
    /\ LET child == ClosureChild(chunk, Current, Scanned)
           depth == Larger(depths[child], depths[Current] + 1)
       IN  /\ occurrences' = [occurrences EXCEPT ![child] = @ + 1]
           /\ depths' = [depths EXCEPT ![child] = depth]
           /\ plan' = IF depth > MaxDepth THEN "too_deep" ELSE "running"
           /\ cursor' = cursor + 1
    /\ UNCHANGED <<budget, position, instances, instructions>>

(* Each instance of the current prototype creates one of the child.        *)
CountClosure ==
    /\ Scanning /\ IsClosure(Scanned) /\ ValidClosure(chunk, Current, Scanned)
    /\ LET child == ClosureChild(chunk, Current, Scanned)
           sum   == occurrences[child] + occurrences[Current]
           depth == Larger(depths[child], depths[Current] + 1)
       IN  IF sum > MaxUsize
           THEN plan' = "overflow" /\ UNCHANGED <<occurrences, depths, cursor>>
           ELSE /\ occurrences' = [occurrences EXCEPT ![child] = sum]
                /\ depths' = [depths EXCEPT ![child] = depth]
                /\ plan' = IF depth > MaxDepth THEN "too_deep" ELSE "running"
                /\ cursor' = cursor + 1
    /\ UNCHANGED <<budget, position, instances, instructions>>

AcceptPlan ==
    /\ BetweenPrototypes /\ position = Len(PrototypeOrder)
    /\ plan' = "planned"
    /\ UNCHANGED <<budget, position, cursor, occurrences, depths, instances, instructions>>

Walk == \/ SkipUnused
        \/ Charge
        \/ PassInstruction
        \/ RejectClosure
        \/ CountClosure
        \/ AcceptPlan

ExpansionNext == \/ Next /\ UNCHANGED expansionVars
                 \/ (Plan \/ Walk) /\ UNCHANGED graphVars

ExpansionSpec ==
    /\ ExpansionInit
    /\ [][ExpansionNext]_<<graphVars, expansionVars>>
    /\ WF_<<graphVars, expansionVars>>(ExpansionNext)

-----------------------------------------------------------------------------
Plans == {"idle", "running", "planned", "overflow", "over_budget", "invalid_closure", "too_deep"}

(* The counters hold usize values as long as the walk goes on.             *)
ExpansionTypeOK ==
    /\ TypeOK
    /\ budget \in Budgets
    /\ position \in 0 .. Len(postorder)
    /\ cursor \in Nat
    /\ occurrences \in [Prototypes(chunk) -> 0 .. MaxUsize]
    /\ depths \in [Prototypes(chunk) -> 0 .. MaxDepth + 1]
    /\ instances \in Nat /\ instructions \in Nat
    /\ plan \in Plans
    /\ plan \in {"idle", "running", "planned"} =>
          instances \in 0 .. MaxUsize /\ instructions \in 0 .. MaxUsize

(* The instructions of f that create a closure of g.  The closure          *)
(* instructions of the prototypes are the edges of a graph.                *)
ClosuresOf(c, f, g) ==
    {i \in 1 .. Len(c.functions[f].code) :
        LET instruction == c.functions[f].code[i]
        IN  /\ IsClosure(instruction)
            /\ ValidClosure(c, f, instruction)
            /\ ClosureChild(c, f, instruction) = g}

(* How many edges lead from f to g.                                        *)
Edges(c, f, g) == Cardinality(ClosuresOf(c, f, g))

EdgeCounts(c) == [f \in Prototypes(c) |-> [g \in Prototypes(c) |-> Edges(c, f, g)]]

OnlyMain(c) == [g \in Prototypes(c) |-> IF g = c.main THEN 1 ELSE 0]

(* PathCounts(c)[n][g] is the number of paths of n edges from main to g.   *)
PathCounts(c) == Walks(EdgeCounts(c), OnlyMain(c), c.count)

(* How often each prototype is instantiated: once per path that leads to   *)
(* it from main.                                                           *)
Instantiations(c) == AllWalks(EdgeCounts(c), OnlyMain(c), c.count)

AllInstantiations(c) == Total(Instantiations(c), c.count)

AllExpanded(c) ==
    Total([g \in Prototypes(c) |-> Instantiations(c)[g] * Len(c.functions[g].code)], c.count)

(* One walk in prototype order is enough to count every path: the numbers  *)
(* the decompiler will be held to are those of the full expansion tree.    *)
PlanIsExact ==
    plan = "planned" =>
        /\ occurrences = Instantiations(chunk)
        /\ instances = AllInstantiations(chunk)
        /\ instructions = AllExpanded(chunk)
        /\ instances <= budget /\ instructions <= budget

(* A chunk is only refused for its size if its full expansion is larger    *)
(* than the input: not even a sum that does not fit a usize refuses a      *)
(* chunk whose expansion is within the budget.  It is only refused for its *)
(* depth if a chain of closures that starts at main is longer than         *)
(* MaxDepth.                                                               *)
RefusalIsJustified ==
    /\ plan \in {"overflow", "over_budget"} =>
          AllInstantiations(chunk) > budget \/ AllExpanded(chunk) > budget
    /\ plan = "too_deep" =>
          \E n \in MaxDepth .. chunk.count : \E g \in Prototypes(chunk) : PathCounts(chunk)[n][g] > 0

(* Every closure instruction is charged before it is counted, so that the  *)
(* occurrences never outgrow the instructions: the checked additions of    *)
(* the closure loop cannot fail, only those of the charge can.             *)
OverflowIsCharged ==
    /\ plan = "overflow" => instances > MaxUsize \/ instructions > MaxUsize
    /\ plan = "planned" => \A p \in Prototypes(chunk) : occurrences[p] <= instructions + 1

(* A planned chunk has no dangling closure in a prototype that main        *)
(* reaches, plans an instance for every closure such a prototype creates   *)
(* and numbers the depths along every chain.                               *)
PlanCoversClosures ==
    plan = "planned" =>
        \A f \in Prototypes(chunk) : \A i \in 1 .. Len(Code(f)) :
            (occurrences[f] > 0 /\ IsClosure(Code(f)[i])) =>
                /\ ValidClosure(chunk, f, Code(f)[i])
                /\ LET child == ClosureChild(chunk, f, Code(f)[i])
                   IN  /\ occurrences[child] >= occurrences[f]
                       /\ depths[child] > depths[f]
                       /\ depths[child] <= MaxDepth

-----------------------------------------------------------------------------
(* The inductive invariant of the walk.  A prototype has a place in the    *)
(* order, and the walk has passed some of its instructions.                *)
PlaceOf(p) == CHOOSE i \in 1 .. Len(postorder) : PrototypeOrder[i] = p

PassedOf(f) == IF PlaceOf(f) < position THEN Len(Code(f))
               ELSE IF PlaceOf(f) = position THEN cursor ELSE 0

EdgesPassed(f, g, n) == Cardinality({i \in ClosuresOf(chunk, f, g) : i <= n})

(* The walk begins with the counters at 0 once the order is accepted; it   *)
(* looks into the code of used prototypes only, and finishes all of them.  *)
WalkIsInOrder ==
    /\ IF plan = "idle"
       THEN /\ position = 0 /\ instances = 0 /\ instructions = 0
            /\ \A p \in Prototypes(chunk) : occurrences[p] = 0 /\ depths[p] = 0
       ELSE result = "accepted"
    /\ IF position = 0 THEN cursor = 0 ELSE cursor <= Len(Code(Current))
    /\ Scanning => occurrences[Current] > 0
    /\ plan = "planned" => /\ position = Len(postorder)
                           /\ position > 0 => cursor = Len(Code(Current))

(* A prototype's occurrences are those of the closures passed so far, once *)
(* for each occurrence of the prototype they are in; main has one more.    *)
CountedInto(p) ==
    [f \in Prototypes(chunk) |-> occurrences[f] * EdgesPassed(f, p, PassedOf(f))]

ClosuresAreCounted ==
    plan # "idle" =>
        \A p \in Prototypes(chunk) :
            occurrences[p] = (IF p = chunk.main THEN 1 ELSE 0) + Total(CountedInto(p), chunk.count)

(* The prototypes up to the current one are charged.                       *)
ChargedInstances ==
    [f \in Prototypes(chunk) |-> IF PlaceOf(f) <= position THEN occurrences[f] ELSE 0]

ChargedInstructions ==
    [f \in Prototypes(chunk) |-> IF PlaceOf(f) <= position THEN Expanded(f) ELSE 0]

InstancesAreCharged ==
    /\ plan # "idle" => /\ instances = Total(ChargedInstances, chunk.count)
                        /\ instructions = Total(ChargedInstructions, chunk.count)
    /\ plan \in {"idle", "running", "planned"} => instances <= budget /\ instructions <= budget
    /\ plan = "over_budget" => instances > budget \/ instructions > budget
    /\ plan = "overflow" => instances > MaxUsize \/ instructions > MaxUsize

(* Nothing that comes before main in the order is used.                    *)
UseStartsAtMain ==
    plan # "idle" =>
        \A p \in Prototypes(chunk) : occurrences[p] > 0 => PlaceOf(p) >= PlaceOf(chunk.main)

(* The closures passed so far are valid, and their children are planned at *)
(* least as often as the prototype itself, and deeper.                     *)
PassedIsCovered ==
    plan \in {"running", "planned"} =>
        \A f \in Prototypes(chunk) : \A i \in 1 .. Len(Code(f)) :
            (i <= PassedOf(f) /\ occurrences[f] > 0 /\ IsClosure(Code(f)[i])) =>
                /\ ValidClosure(chunk, f, Code(f)[i])
                /\ LET child == ClosureChild(chunk, f, Code(f)[i])
                   IN  /\ occurrences[child] >= occurrences[f]
                       /\ depths[child] > depths[f]
                       /\ depths[child] <= MaxDepth

(* Occurrences never exceed the instantiations, and a depth is the length  *)
(* of a chain of closures that exists.                                     *)
CountsAreReal ==
    plan # "idle" =>
        /\ \A p \in Prototypes(chunk) :
              /\ occurrences[p] <= Instantiations(chunk)[p]
              /\ occurrences[p] > 0 => depths[p] > 0
              /\ depths[p] > 0 => /\ depths[p] <= chunk.count
                                  /\ PathCounts(chunk)[depths[p] - 1][p] > 0
        /\ plan = "too_deep" <=> \E p \in Prototypes(chunk) : depths[p] > MaxDepth

ExpansionInvariant ==
    /\ SearchInvariant
    /\ ExpansionTypeOK
    /\ WalkIsInOrder
    /\ ClosuresAreCounted
    /\ InstancesAreCharged
    /\ UseStartsAtMain
    /\ PassedIsCovered
    /\ CountsAreReal
=============================================================================
