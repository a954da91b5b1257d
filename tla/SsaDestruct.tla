---------------------------- MODULE SsaDestruct ----------------------------
(***************************************************************************)
(* Destructor (cfg/src/ssa/destruct.rs): the way out of SSA form.  Every   *)
(* argument of an edge and every parameter of a block gets a temporary of  *)
(* its own, assigned at the end of the edge and at the start of the block. *)
(* Locals are then put into congruence classes, the classes become the     *)
(* locals of the result, and a copy within a class disappears.  Members of *)
(* a class must not be in each other's way: where one is needed, the class *)
(* holds its value.  The analysis that decides this is bounded by a budget *)
(* of work.  After it, the model executes the SSA function and its result  *)
(* side by side.                                                           *)
(***************************************************************************)
EXTENDS Integers, FiniteSets, SequencesExt, TLC

CONSTANTS
  Functions,    \* the SSA functions that are destructed
  Budgets,      \* the work that may be left for coalescing
  MaxSteps      \* bound: statements and jumps that are executed

(* Nodes and locals are numbers below 100.  A value is a copy of the local *)
(* it reads, or anything else that reads some locals; a statement assigns  *)
(* its values at once, and what exceeds them is the rest of a call's.      *)
IsValue(v) == v.reads \subseteq 1 .. 99 /\ (v.copy => Cardinality(v.reads) = 1)

Copied(v) == CHOOSE l \in v.reads : TRUE

Defs(stmt) == ToSet(stmt.left)
Reads(stmt) == UNION {v.reads : v \in ToSet(stmt.right)}

(* The copies of a statement, by their position.                           *)
CopiesOf(stmt) ==
    {i \in DOMAIN stmt.left : i \in DOMAIN stmt.right /\ stmt.right[i].copy}

(* A function has its nodes, the successors of each in the order a search  *)
(* follows them, the code and the parameters of each node, in the order    *)
(* sort_params gives them, and the value an edge passes for each.  A       *)
(* register that a closure captures by reference has a group: the locals   *)
(* that are its versions.                                                  *)
NodesOf(f) == DOMAIN f.next
Entry == 0

Params(f, n) == f.params[n]
Preds(f, n) == {m \in NodesOf(f) : n \in ToSet(f.next[m])}

ASSUME FunctionsAssumption ==
    /\ \A f \in Functions :
          /\ Entry \in NodesOf(f) /\ NodesOf(f) \subseteq 0 .. 8 /\ Params(f, Entry) = <<>>
          /\ f.group \subseteq 1 .. 98
          /\ \A n \in NodesOf(f) :
                /\ ToSet(f.next[n]) \subseteq NodesOf(f)
                /\ \A i \in DOMAIN f.code[n] : \A j \in DOMAIN f.code[n][i].right :
                      IsValue(f.code[n][i].right[j])
                /\ \A m \in Preds(f, n) : \A p \in ToSet(Params(f, n)) : IsValue(f.args[m][p])
    /\ Budgets \subseteq Nat /\ MaxSteps \in Nat

None == 0

(* The value after n steps.  (As the member of a set it is evaluated once, *)
(* although a step may use it several times.)                              *)
Repeated(step(_), start, n) ==
    LET after[k \in 0 .. n] ==
            IF k = 0 THEN start ELSE CHOOSE y \in {step(x) : x \in {after[k - 1]}} : TRUE
    IN  after[n]

VARIABLES
  function,
  lifted,       \* its blocks after lift_params: their code and successors
  facts,        \* what the analyses found: see Analyse
  of,           \* congruence_classes: the class of a local
  members,      \* the locals a class holds
  equalIn,      \* equal_ancestor_in
  equalOut,     \* equal_ancestor_out
  known,        \* value classes with a snapshot in value_class_members
  work,         \* coalescing_work_remaining
  copies,       \* copies to be looked at
  removed,      \* copies that were taken out
  attempt,      \* the locals whose classes are compared, and what for
  sharers,      \* copies of the value that are still to be tried
  walk,         \* check_interfere: locals to come, and those on the stack
  names,        \* build_local_map: what every local is called in the result
  pc,           \* the function that is executed, "run" or "panicked"
  at,           \* execution: the node and statement to be executed next
  steps,        \* statements and jumps executed so far
  ssa,          \* the values of the SSA locals
  result        \* the values of the locals of the result

classVars == <<of, members, equalIn, equalOut>>
attemptVars == <<attempt, sharers, walk>>
copyVars == <<copies, removed>>
executionVars == <<at, steps, ssa, result>>
vars == <<function, lifted, facts, classVars, known, work, copyVars, attemptVars, names, pc,
          executionVars>>

-----------------------------------------------------------------------------
(* lift_params.  The temporaries of a parameter, and of the argument that  *)
(* a node passes for it.                                                   *)
ParamTemp(p) == 1000 + p
ArgTemp(m, p) == 100 * (m + 1) + p

CopyOf(l) == [copy |-> TRUE, reads |-> {l}]

ParamAssign(f, n) ==
    IF Params(f, n) = <<>> THEN <<>>
    ELSE <<[left  |-> Params(f, n),
            right |-> [i \in DOMAIN Params(f, n) |-> CopyOf(ParamTemp(Params(f, n)[i]))]]>>

EdgeAssign(f, m, n) ==
    IF Params(f, n) = <<>> THEN <<>>
    ELSE <<[left  |-> [i \in DOMAIN Params(f, n) |-> ArgTemp(m, Params(f, n)[i])],
            right |-> [i \in DOMAIN Params(f, n) |-> f.args[m][Params(f, n)[i]]]]>>

(* Blocks are named by their node; the block that a conditional edge gets  *)
(* for its assignment is named by the edge.                                *)
HasEdgeBlock(f, m, n) == Len(f.next[m]) > 1 /\ Params(f, n) # <<>>

Blocks(f) ==
    {<<n>> : n \in NodesOf(f)} \cup
    {b \in NodesOf(f) \X NodesOf(f) : b[2] \in ToSet(f.next[b[1]]) /\ HasEdgeBlock(f, b[1], b[2])}

BlockCode(f, b) ==
    IF Len(b) = 2 THEN EdgeAssign(f, b[1], b[2])
    ELSE ParamAssign(f, b[1]) \o f.code[b[1]] \o
         (IF Len(f.next[b[1]]) = 1 THEN EdgeAssign(f, b[1], f.next[b[1]][1]) ELSE <<>>)

(* An edge that gets a block of its own is removed and added again, which  *)
(* makes it the last one that a search follows.                            *)
BlockNext(f, b) ==
    IF Len(b) = 2 THEN <<<<b[2]>>>>
    ELSE LET kept  == SelectSeq(f.next[b[1]], LAMBDA n : ~ HasEdgeBlock(f, b[1], n))
             added == SetToSortSeq({n \in ToSet(f.next[b[1]]) : HasEdgeBlock(f, b[1], n)}, <)
         IN  [i \in DOMAIN kept |-> <<kept[i]>>] \o [i \in DOMAIN added |-> <<b[1], added[i]>>]

Edges(f) == {e \in NodesOf(f) \X NodesOf(f) : e[2] \in ToSet(f.next[e[1]])}

Lifted(f) ==
    [code |-> [b \in Blocks(f) |-> BlockCode(f, b)], next |-> [b \in Blocks(f) |-> BlockNext(f, b)]]

ParamTemps(block) ==
    IF Len(block) = 2 THEN {} ELSE {ParamTemp(p) : p \in ToSet(Params(function, block[1]))}

BlockDefs(block) == UNION {Defs(s) : s \in ToSet(lifted.code[block])}
BlockReads(block) == UNION {Reads(s) : s \in ToSet(lifted.code[block])}

(* upvalue_to_group: a temporary joins the group with what it stands for.  *)
Captured ==
    function.group \cup
    UNION {{ParamTemp(p) : p \in ToSet(Params(function, n)) \cap function.group} : n \in NodesOf(function)}
    \cup
    UNION {{ArgTemp(e[1], p) : p \in {q \in ToSet(Params(function, e[2])) :
                function.args[e[1]][q].copy /\ Copied(function.args[e[1]][q]) \in function.group}} :
              e \in Edges(function)}

(* The local that stands for the group.                                    *)
Box == 99

Locals ==
    UNION {BlockDefs(b) \cup ParamTemps(b) : b \in DOMAIN lifted.code} \cup
    (IF function.group = {} THEN {} ELSE {Box})

-----------------------------------------------------------------------------
(* build_def_use.  The search that numbers the blocks is one of the graph, *)
(* not of the dominator tree it was made for.                              *)
Searched ==
    LET visit(s) ==
            IF s.stack = <<>> THEN s
            ELSE LET block == Last(s.stack)
                 IN  IF block \in ToSet(s.order) THEN [s EXCEPT !.stack = Front(@)]
                     ELSE [order |-> Append(s.order, block),
                           stack |-> Front(s.stack) \o Reverse(lifted.next[block])]
        start == [order |-> <<>>, stack |-> <<<<Entry>>>>]
    IN  Repeated(visit, start, 3 * Cardinality(DOMAIN lifted.next)).order

Successors(block) == ToSet(lifted.next[block])

(* The strict dominators of a block: it is not reached around them.        *)
Around(d) ==
    Repeated(LAMBDA reached : reached \cup (UNION {Successors(b) : b \in reached} \ {d}),
             {<<Entry>>} \ {d}, Cardinality(DOMAIN lifted.next))

Dominators(block) == {d \in DOMAIN lifted.next \ {block} : block \notin Around(d)}

(* Where a local is defined: its block, and a key that puts the number of  *)
(* the block first, then parameters before statements, then their order.   *)
Key(number, isStatement, i) == 1000 * number + (IF isStatement THEN 100 ELSE 0) + i

Definition(order, l) ==
    IF l = Box THEN [block |-> <<Entry>>, key |-> Key(1, FALSE, 0)] ELSE
    LET block  == CHOOSE b \in DOMAIN lifted.code : l \in BlockDefs(b) \cup ParamTemps(b)
        number == CHOOSE k \in DOMAIN order : order[k] = block
        code   == lifted.code[block]
        params == Params(function, block[1])
    IN  [block |-> block,
         key |-> IF l \in BlockDefs(block)
                 THEN Key(number, TRUE, CHOOSE i \in DOMAIN code : l \in Defs(code[i]))
                 ELSE Key(number, FALSE, CHOOSE i \in DOMAIN params : l = ParamTemp(params[i]))]

(* Liveness::calculate.  By then an edge passes the temporaries of its     *)
(* arguments for those of the parameters of its target.                    *)
Passed(block) ==
    LET target == lifted.next[block][1]
    IN  IF Len(lifted.next[block]) # 1 THEN {}
        ELSE {ArgTemp(block[1], p) : p \in ToSet(Params(function, target[1]))}

(* Pairs of a block and a local that is live at its start.                 *)
Live ==
    LET blocks == DOMAIN lifted.code
        used   == UNION {{<<b, l>> : l \in (BlockReads(b) \cup Passed(b)) \ BlockDefs(b)} : b \in blocks}
        spread(live) ==
            live \cup UNION {{<<b, u[2]>> : b \in {c \in blocks : u[1] \in Successors(c)
                                                            /\ u[2] \notin BlockDefs(c)}} :
                                u \in {v \in live : v[2] \notin ParamTemps(v[1])}}
    IN  Repeated(spread, used, Cardinality(blocks))

LiveOut(live, block) ==
    Passed(block) \cup {u[2] : u \in {v \in live : v[1] \in Successors(block) /\ v[2] \notin ParamTemps(v[1])}}

LastUse(order, l, block) ==
    LET uses == {i \in DOMAIN lifted.code[block] : l \in Reads(lifted.code[block][i])}
    IN  IF uses = {} THEN 0
        ELSE Key(CHOOSE k \in DOMAIN order : order[k] = block, TRUE, Max(uses))

(* compute_value_interference: the locals that are copies of one another.  *)
CopyPairs ==
    UNION {UNION {{<<s.left[i], Copied(s.right[i])>> : i \in CopiesOf(s)} : s \in ToSet(lifted.code[b])} :
                b \in DOMAIN lifted.code}

ValueClass(pairs, l) ==
    Repeated(LAMBDA same : same \cup {p[1] : p \in {q \in pairs : q[2] \in same}}
                                \cup {p[2] : p \in {q \in pairs : q[1] \in same}},
             {l}, Cardinality(pairs))

KeyOf(l) == facts.defs[l].key
BlockOf(l) == facts.defs[l].block

(* check_pre_dom_order                                                     *)
Before(a, b) == KeyOf(a) < KeyOf(b)

Dominates(a, b) ==
    IF BlockOf(a) = BlockOf(b) THEN Before(a, b) ELSE BlockOf(a) \in facts.dominators[BlockOf(b)]

SameValue(a, b) == b \in facts.value[a]

(* A plausible slip: a use further down the block is forgotten.            *)
IntersectAtTheEnd(a, b) == b \in facts.liveOut[BlockOf(a)]

(* intersect: whether b, which is defined first, is live where a is        *)
(* defined.                                                                *)
Intersect(a, b) ==
    \/ b \in facts.liveOut[BlockOf(a)]
    \/ /\ b \in facts.liveIn[BlockOf(a)] \/ BlockOf(a) = BlockOf(b)
       /\ facts.lastUse[b][BlockOf(a)] > KeyOf(a)

Init ==
    /\ function \in Functions
    /\ lifted = <<>> /\ facts = <<>>
    /\ of = <<>> /\ members = <<>> /\ equalIn = <<>> /\ equalOut = <<>>
    /\ known = {} /\ work \in Budgets
    /\ copies = <<>> /\ removed = {}
    /\ attempt = <<>> /\ sharers = <<>> /\ walk = <<>> /\ names = <<>>
    /\ pc = "lift"
    /\ at = <<Entry, 1>> /\ steps = 0 /\ ssa = <<>> /\ result = <<>>

LiftParams ==
    /\ pc = "lift" /\ pc' = "analyse"
    /\ lifted' = Lifted(function)
    /\ UNCHANGED <<function, facts, classVars, known, work, copyVars, attemptVars, names,
                   executionVars>>

Analyse ==
    /\ pc = "analyse" /\ pc' = "parameters"
    /\ LET order == Searched
           live  == Live
           pairs == CopyPairs
           blocks == DOMAIN lifted.code
       IN  facts' = [order |-> order,
                     dominators |-> [b \in blocks |-> Dominators(b)],
                     defs |-> [l \in Locals |-> Definition(order, l)],
                     liveIn |-> [b \in blocks |-> {u[2] : u \in {v \in live : v[1] = b}}],
                     liveOut |-> [b \in blocks |-> LiveOut(live, b)],
                     lastUse |-> [l \in Locals |-> [b \in blocks |-> LastUse(order, l, b)]],
                     value |-> [l \in Locals |-> ValueClass(pairs, l)],
                     captured |-> Captured]
    /\ UNCHANGED <<function, lifted, classVars, known, work, copyVars, attemptVars, names,
                   executionVars>>

(* The temporaries of a parameter and of its arguments.                    *)
ParamClass(p) ==
    LET n == CHOOSE n \in NodesOf(function) : p \in ToSet(Params(function, n))
    IN  {ParamTemp(p)} \cup {ArgTemp(m, p) : m \in Preds(function, n)}

(* The block for an edge out of the head of a for loop is undesirable; its *)
(* copies are looked at first.                                             *)
IsUndesirable(block) == Len(block) = 2 /\ block[1] \in function.forNext

CopiesAlong(blocks) ==
    LET ofStatement(b, i) ==
            LET positions == SetToSortSeq(CopiesOf(lifted.code[b][i]), <)
            IN  [k \in DOMAIN positions |-> <<b, i, positions[k]>>]
        ofBlock(b) == FlattenSeq([i \in DOMAIN lifted.code[b] |-> ofStatement(b, i)])
    IN  FlattenSeq([k \in DOMAIN blocks |-> ofBlock(blocks[k])])

(* The versions of a captured register are one class from the start.  Then *)
(* the class of a parameter gets the temporaries of its arguments; the     *)
(* class they leave, if they had one, keeps them.                          *)
Gather ==
    /\ pc = "parameters" /\ pc' = "coalesce"
    /\ LET params == UNION {ToSet(Params(function, n)) : n \in NodesOf(function)}
           group(l) == IF l \in facts.captured THEN Box ELSE l
           class(l) == IF \E p \in params : l \in ParamClass(p)
                       THEN group(ParamTemp(CHOOSE p \in params : l \in ParamClass(p))) ELSE group(l)
       IN  /\ of' = [l \in Locals |-> class(l)]
           /\ members' = [l \in Locals |-> {m \in Locals : l \in {class(m), group(m)}}]
    /\ equalIn' = [l \in Locals |-> None] /\ equalOut' = equalIn'
    /\ copies' = CopiesAlong(SelectSeq(facts.order, IsUndesirable)) \o CopiesAlong(facts.order)
    /\ ssa' = [l \in Locals |-> <<0, 0>>] /\ result' = ssa'
    /\ UNCHANGED <<function, lifted, facts, known, work, removed, attemptVars, names, at, steps>>

-----------------------------------------------------------------------------
(* Congruence classes: a class keeps its locals by key, so that one takes  *)
(* the place of another with the same key.  Classes are compared by what   *)
(* they hold.                                                              *)
Held(l) == members[of[l]]

With(class, added) == added \cup {m \in class : \A l \in added : KeyOf(l) # KeyOf(m)}

InKeyOrder(class) ==
    [i \in 1 .. Cardinality(class) |->
        CHOOSE l \in class : Cardinality({m \in class : Before(m, l)}) = i - 1]

(* reserve_work: a request that cannot be met uses up what is left.        *)
HasWork(amount) == amount <= work

Reserve(amount) == work' = IF HasWork(amount) THEN work - amount ELSE 0

(* coalesce_copies_for_block, for the copy it is at.                       *)
Copy == Head(copies)
Target == lifted.code[Copy[1]][Copy[2]].left[Copy[3]]
Source == Copied(lifted.code[Copy[1]][Copy[2]].right[Copy[3]])

coalesceVars == <<function, lifted, facts, names, executionVars>>

EndCopy(isRemoved) ==
    /\ removed' = IF isRemoved THEN removed \cup {Copy} ELSE removed
    /\ copies' = Tail(copies)
    /\ pc' = "coalesce"

Panic == pc' = "panicked" /\ UNCHANGED copyVars

SkipRemoved ==
    /\ pc = "coalesce" /\ copies # <<>> /\ Copy \in removed
    /\ EndCopy(TRUE)
    /\ UNCHANGED <<coalesceVars, classVars, known, work, attemptVars>>

(* A copy of or to a captured register stays.                              *)
IsCaptured == {Source, Target} \cap facts.captured # {}

KeepCaptured ==
    /\ pc = "coalesce" /\ copies # <<>> /\ Copy \notin removed /\ IsCaptured
    /\ EndCopy(FALSE)
    /\ UNCHANGED <<coalesceVars, classVars, known, work, attemptVars>>

TryCopy ==
    /\ pc = "coalesce" /\ copies # <<>> /\ Copy \notin removed /\ ~ IsCaptured
    /\ attempt' = [left |-> Source, right |-> Target, isSharing |-> FALSE]
    /\ pc' = "value"
    /\ UNCHANGED <<coalesceVars, classVars, known, work, copyVars, sharers, walk>>

(* try_coalesce_copy_by_value                                              *)
Left == Held(attempt.left)
Right == Held(attempt.right)

(* What its callers do with the answer that it has not coalesced.          *)
NotCoalesced ==
    /\ pc' = IF attempt.isSharing THEN "sharers" ELSE "sharing"
    /\ UNCHANGED copyVars

Continue(next) == pc' = next /\ UNCHANGED copyVars

CompareClasses ==
    /\ pc = "value"
    /\ LET cost == Min({Cardinality(Left), Cardinality(Right)}) + 1
       IN  /\ Reserve(cost)
           /\ \/ ~ HasWork(cost) /\ NotCoalesced
              \/ /\ HasWork(cost)
                 /\ \/ Left = Right /\ EndCopy(TRUE)
                    \/ /\ Left # Right
                       /\ Continue(IF cost = 2 /\ Cardinality(Left) = Cardinality(Right)
                                   THEN "single" ELSE "interfere")
    /\ UNCHANGED <<coalesceVars, classVars, known, attemptVars>>

(* check_interfere_single.  It answers whether the two locals interfere,   *)
(* and its caller takes that for the answer whether they were coalesced.   *)
Red == CHOOSE l \in Left : TRUE
Blue == CHOOSE l \in Right : TRUE
First == IF Before(Red, Blue) THEN Red ELSE Blue
Second == IF Before(Red, Blue) THEN Blue ELSE Red

InterfereSingle ==
    /\ pc = "single"
    /\ Reserve(4)
    /\ \/ /\ ~ HasWork(4) \/ (Intersect(Second, First) /\ ~ SameValue(Second, First))
          /\ EndCopy(TRUE)
          /\ UNCHANGED classVars
       \/ /\ HasWork(4)
          /\ ~ Intersect(Second, First) \/ SameValue(Second, First)
          /\ equalIn' = [equalIn EXCEPT ![Second] = First]
          /\ members' = [members EXCEPT ![of[Red]] = With(@, {First})]
          /\ of' = [of EXCEPT ![First] = of[Red]]
          /\ NotCoalesced
          /\ UNCHANGED equalOut
    /\ UNCHANGED <<coalesceVars, known, attemptVars>>

(* check_interfere: the locals of two classes in their common order; those *)
(* that dominate the current one are on a stack.  (Ancestors come earlier  *)
(* in the order than the local they are compared with, and so does what is *)
(* on the stack: the assertions that the local does not dominate them      *)
(* hold.)                                                                  *)
Interfere ==
    /\ pc = "interfere"
    /\ LET reds == InKeyOrder(Left)
           blues == InKeyOrder(Right)
           cost == Cardinality(Left) + Cardinality(Right)
       IN  /\ Reserve(cost)
           /\ \/ ~ HasWork(cost) /\ NotCoalesced /\ UNCHANGED <<equalOut, walk>>
              \/ HasWork(cost) /\ {} \in {Left, Right} /\ Panic /\ UNCHANGED <<equalOut, walk>>
              \/ /\ HasWork(cost) /\ {} \notin {Left, Right} /\ Continue("walk")
                 /\ equalOut' = [equalOut EXCEPT ![reds[1]] = None, ![blues[1]] = None]
                 /\ walk' = [red |-> reds, blue |-> blues, stack |-> <<>>]
    /\ UNCHANGED <<coalesceVars, of, members, equalIn, known, attempt, sharers>>

TakesRed == walk.blue = <<>> \/ (walk.red # <<>> /\ Before(walk.red[1], walk.blue[1]))
Color == IF TakesRed THEN "red" ELSE "blue"
Current == IF TakesRed THEN walk.red[1] ELSE walk.blue[1]

Dominating(stack) ==
    SubSeq(stack, 1, Max({0} \cup {k \in DOMAIN stack : Dominates(stack[k][1], Current)}))

Walked ==
    [red |-> IF TakesRed THEN Tail(walk.red) ELSE walk.red,
     blue |-> IF TakesRed THEN walk.blue ELSE Tail(walk.blue),
     stack |-> Append(Dominating(walk.stack), <<Current, Color>>)]

IsDone(w) ==
    LET colors == {w.stack[k][2] : k \in DOMAIN w.stack}
    IN  /\ w.red = <<>> \/ ("blue" \notin colors /\ w.blue = <<>>)
        /\ w.blue = <<>> \/ ("red" \notin colors /\ w.red = <<>>)

(* The local that the current one is compared with, if there is one: the   *)
(* closest one that dominates it, or its equal ancestor in the other class.*)
Opponent ==
    LET kept == Dominating(walk.stack)
    IN  IF kept = <<>> THEN None
        ELSE IF Last(kept)[2] = Color THEN equalOut[Last(kept)[1]] ELSE Last(kept)[1]

(* A local and its equal ancestors, each the ancestor of the one before.   *)
Ancestors(l) ==
    Repeated(LAMBDA chain : IF equalIn[Last(chain)] = None THEN chain
                            ELSE Append(chain, equalIn[Last(chain)]),
             <<l>>, Cardinality(Locals))

(* interference                                                            *)
Met(chain) == {k \in DOMAIN chain : Intersect(Current, chain[k])}
Cost(chain) == IF Met(chain) = {} THEN Len(chain) ELSE Min(Met(chain))
Found(chain) == IF Met(chain) = {} THEN None ELSE chain[Min(Met(chain))]

PassLocal(out) ==
    /\ equalOut' = [equalOut EXCEPT ![Current] = out]
    /\ walk' = Walked
    /\ Continue(IF IsDone(walk') THEN "merge" ELSE "walk")

MeetOpponent(chain) ==
    /\ Reserve(Cost(chain))
    /\ \/ /\ HasWork(Cost(chain)) /\ SameValue(Current, Opponent)
          /\ PassLocal(Found(chain))
       \/ /\ HasWork(Cost(chain)) /\ ~ SameValue(Current, Opponent) /\ Met(chain) = {}
          /\ PassLocal(None)
       \/ /\ ~ HasWork(Cost(chain)) \/ (~ SameValue(Current, Opponent) /\ Met(chain) # {})
          /\ equalOut' = [equalOut EXCEPT ![Current] = None]
          /\ NotCoalesced
          /\ UNCHANGED walk

WalkLocal ==
    /\ pc = "walk"
    /\ \/ /\ Opponent = None /\ UNCHANGED work
          /\ PassLocal(IF Dominating(walk.stack) = <<>> THEN equalOut[Current] ELSE None)
       \/ Opponent # None /\ \E chain \in {Ancestors(Opponent)} : MeetOpponent(chain)
    /\ UNCHANGED <<coalesceVars, of, members, equalIn, known, attempt, sharers>>

(* merge_congruence_classes: the smaller class goes into the larger one.   *)
MergeInto(target, source) ==
    LET merged == With(members[target], members[source])
        inner(l) == CASE l \notin merged \/ equalOut[l] = None -> equalIn[l]
                      [] equalIn[l] = None                     -> equalOut[l]
                      [] OTHER -> IF Before(equalIn[l], equalOut[l]) THEN equalOut[l] ELSE equalIn[l]
    IN  /\ of' = [l \in DOMAIN of |-> IF l \in members[source] THEN target ELSE of[l]]
        /\ members' = [members EXCEPT ![target] = merged, ![source] = {}]
        /\ equalIn' = [l \in DOMAIN equalIn |-> inner(l)]

(* A plausible slip: a merge that is too expensive counts as one.          *)
MergeOrRemove ==
    /\ pc = "merge"
    /\ LET a == of[attempt.left]
           b == of[attempt.right]
           larger == Max({Cardinality(Left), Cardinality(Right)})
           cost == larger + 2 * Min({Cardinality(Left), Cardinality(Right)}) + 1
       IN  /\ Reserve(cost) /\ EndCopy(TRUE)
           /\ \/ ~ HasWork(cost) /\ UNCHANGED <<of, members, equalIn>>
              \/ /\ HasWork(cost)
                 /\ IF Cardinality(Left) = larger THEN MergeInto(a, b) ELSE MergeInto(b, a)
    /\ UNCHANGED <<coalesceVars, equalOut, known, attemptVars>>

Merge ==
    /\ pc = "merge"
    /\ LET a == of[attempt.left]
           b == of[attempt.right]
           larger == Max({Cardinality(Left), Cardinality(Right)})
           cost == larger + 2 * Min({Cardinality(Left), Cardinality(Right)}) + 1
       IN  /\ Reserve(cost)
           /\ \/ ~ HasWork(cost) /\ NotCoalesced /\ UNCHANGED <<of, members, equalIn>>
              \/ /\ HasWork(cost) /\ EndCopy(TRUE)
                 /\ IF Cardinality(Left) = larger THEN MergeInto(a, b) ELSE MergeInto(b, a)
    /\ UNCHANGED <<coalesceVars, equalOut, known, attemptVars>>

(* try_coalesce_copy_by_sharing.  The members of a value class come in any *)
(* order; those that are defined earlier and are live there are tried.     *)
Orders(locals) == {o \in [1 .. Cardinality(locals) -> locals] : IsInjective(o)}

Sharers ==
    {l \in facts.value[Source] \ {Source, Target} : Before(l, Source) /\ Intersect(Source, l)}

BeginSharing ==
    /\ pc = "sharing"
    /\ LET class == facts.value[Source]
           cost  == Cardinality(class) * (IF class \in known THEN 1 ELSE 2)
       IN  /\ Reserve(cost)
           /\ \/ ~ HasWork(cost) /\ EndCopy(FALSE) /\ UNCHANGED <<known, sharers>>
              \/ /\ HasWork(cost) /\ Continue("sharers")
                 /\ known' = known \cup {class}
                 /\ sharers' \in Orders(Sharers)
    /\ UNCHANGED <<coalesceVars, classVars, attempt, walk>>

IsShared(l) == Held(Source) = Held(l) /\ Held(Source) # Held(Target)
IsApart(l) == Held(Target) \notin {Held(Source), Held(l)} /\ Held(Source) # Held(l)

TrySharer ==
    /\ pc = "sharers"
    /\ \/ sharers = <<>> /\ EndCopy(FALSE) /\ UNCHANGED <<attempt, sharers>>
       \/ /\ sharers # <<>> /\ sharers' = Tail(sharers)
          /\ \/ IsShared(Head(sharers)) /\ EndCopy(TRUE) /\ UNCHANGED attempt
             \/ /\ IsApart(Head(sharers)) /\ Continue("value")
                /\ attempt' = [left |-> Source, right |-> Head(sharers), isSharing |-> TRUE]
             \/ /\ ~ IsShared(Head(sharers)) /\ ~ IsApart(Head(sharers))
                /\ Continue("sharers") /\ UNCHANGED attempt
    /\ UNCHANGED <<coalesceVars, classVars, known, work, walk>>

-----------------------------------------------------------------------------
(* build_local_map and apply_local_map, which follows the map to its end.  *)
Name(l) ==
    Repeated(LAMBDA m : InKeyOrder(Held(m))[1], l, Cardinality(Locals))

ApplyMap ==
    /\ pc = "coalesce" /\ copies = <<>>
    /\ IF \E l \in Locals : Held(l) = {}
       THEN pc' = "panicked" /\ UNCHANGED names
       ELSE pc' = "run" /\ names' = [l \in Locals |-> Name(l)]
    /\ UNCHANGED <<function, lifted, facts, classVars, known, work, copyVars, attemptVars,
                   executionVars>>

-----------------------------------------------------------------------------
(* The execution of the SSA function and of the result.                    *)
Assigned(env, stmt, name(_), gone, fresh) ==
    LET value(i) == IF i \in CopiesOf(stmt) THEN env[name(Copied(stmt.right[i]))] ELSE <<fresh, i>>
        writers(l) == {i \in DOMAIN stmt.left \ gone : name(stmt.left[i]) = l}
    IN  [l \in DOMAIN env |-> IF writers(l) = {} THEN env[l] ELSE value(Max(writers(l)))]

AssignedInSsa(env, stmt) == Assigned(env, stmt, LAMBDA l : l, {}, steps + 1)

Gone(block, i) == {copy[3] : copy \in {r \in removed : r[1] = block /\ r[2] = i}}

AssignedInResult(env, block, i) ==
    Assigned(env, lifted.code[block][i], LAMBDA l : names[l], Gone(block, i), steps + 1)

(* Where a statement of a node stands in its block.                        *)
Place(n, i) == IF Params(function, n) = <<>> THEN i ELSE i + 1

Running == pc = "run" /\ steps < MaxSteps
AtStatement == at[2] <= Len(function.code[at[1]])

Execute ==
    /\ Running /\ AtStatement
    /\ ssa' = AssignedInSsa(ssa, function.code[at[1]][at[2]])
    /\ result' = AssignedInResult(result, <<at[1]>>, Place(at[1], at[2]))
    /\ at' = <<at[1], at[2] + 1>> /\ steps' = steps + 1
    /\ UNCHANGED <<function, lifted, facts, classVars, known, work, copyVars, attemptVars, names, pc>>

Passing(n) ==
    LET block == IF HasEdgeBlock(function, at[1], n) THEN <<at[1], n>> ELSE <<at[1]>>
    IN  AssignedInResult(AssignedInResult(result, block, Len(lifted.code[block])), <<n>>, 1)

Jump ==
    /\ Running /\ ~ AtStatement
    /\ \E n \in ToSet(function.next[at[1]]) :
          /\ at' = <<n, 1>>
          /\ IF Params(function, n) = <<>> THEN UNCHANGED <<ssa, result>>
             ELSE /\ ssa' = AssignedInSsa(ssa,
                        [left  |-> Params(function, n),
                         right |-> [i \in DOMAIN Params(function, n) |->
                                        function.args[at[1]][Params(function, n)[i]]]])
                  /\ result' = Passing(n)
    /\ steps' = steps + 1
    /\ UNCHANGED <<function, lifted, facts, classVars, known, work, copyVars, attemptVars, names, pc>>

TryValue == \/ CompareClasses
            \/ InterfereSingle
            \/ Interfere
            \/ WalkLocal
            \/ Merge

CoalesceCopies == \/ SkipRemoved
                  \/ KeepCaptured
                  \/ TryCopy
                  \/ TryValue
                  \/ BeginSharing
                  \/ TrySharer

Destruct == \/ LiftParams
            \/ Analyse
            \/ Gather
            \/ CoalesceCopies
            \/ ApplyMap

Next == \/ Destruct
        \/ Execute
        \/ Jump

Spec == Init /\ [][Next]_vars

-----------------------------------------------------------------------------
DestructTypeOK ==
    /\ pc \in {"lift", "analyse", "parameters", "coalesce", "value", "single", "interfere", "walk",
               "merge", "sharing", "sharers", "run", "panicked"}
    /\ work \in Nat /\ steps \in 0 .. MaxSteps
    /\ pc \notin {"lift", "analyse", "parameters"} =>
          /\ of \in [Locals -> Locals] /\ members \in [Locals -> SUBSET Locals]
          /\ equalIn \in [Locals -> Locals \cup {None}]
          /\ equalOut \in [Locals -> Locals \cup {None}]
    /\ \A copy \in removed : copy[3] \in CopiesOf(lifted.code[copy[1]][copy[2]])

(* What the execution reads next, copies apart.                            *)
ReadsOf(values) == UNION {v.reads : v \in {w \in values : ~ w.copy}}

NextReads ==
    IF AtStatement THEN ReadsOf(ToSet(function.code[at[1]][at[2]].right))
    ELSE UNION {ReadsOf({function.args[at[1]][p] : p \in ToSet(Params(function, n))}) :
                    n \in ToSet(function.next[at[1]])}

LocalsOf(copy) ==
    LET stmt == lifted.code[copy[1]][copy[2]]
    IN  {stmt.left[copy[3]], Copied(stmt.right[copy[3]])}

(* Copies that were taken out although their two locals stay two.          *)
Lost == {copy \in removed : Cardinality({names[l] : l \in LocalsOf(copy)}) = 2}

(* Wherever the result reads a local, it holds the value that the SSA      *)
(* local would hold: no class merges locals that are in each other's way,  *)
(* and no copy that is needed was taken out.  (Where one was,              *)
(* RemovedIsMerged says how that came about.)                              *)
ReadsAreKept ==
    pc = "run" /\ Lost = {} => \A l \in NextReads : result[names[l]] = ssa[l]

(* Wherever the work runs out, no class is left half merged and copies     *)
(* stay, with the one exception that check_interfere_single makes: when    *)
(* its four units cannot be had it answers that the locals interfere,      *)
(* which its caller takes for "coalesced" (destruct.rs:582 and 518).  That *)
(* uses up the work, so it takes one copy at most, between two locals that *)
(* are alone in their classes for good; every other copy that went has     *)
(* locals that became one.                                                 *)
RemovedIsMerged ==
    pc = "run" =>
        /\ Cardinality(Lost) <= 1
        /\ \A copy \in Lost : work = 0 /\ \A l \in LocalsOf(copy) : Held(l) = {l}

(* Without the exception: "If that work cannot be charged, leave this      *)
(* optional copy untouched" (destruct.rs:509).  The code does not keep to  *)
(* it.                                                                     *)
UnchargedStays == pc = "run" => Lost = {}
=============================================================================
