----------------------------- MODULE AstScopes -----------------------------
(***************************************************************************)
(* Declarations and scopes: where locals are declared                      *)
(* (local_declarations.rs), whether every reference resolves to a          *)
(* declaration (binding_validation.rs), how crowded blocks are divided     *)
(* into do blocks so that registers are released (scope_narrowing.rs), and *)
(* how declarations are joined into lists (local_grouping.rs).             *)
(***************************************************************************)
EXTENDS Ast

CONSTANTS
  LocalOrder,              \* every local, in the order of their identities
  FunctionBudget,          \* locals one function may hold in scope (FUNCTION_BUDGET)
  MinScopeDeclarations,    \* declarations worth a scope (MIN_SCOPE_DECLARATIONS)
  MinimumBudget,           \* what a nested block is left at least (MINIMUM_BUDGET)
  MaxAddedDepth,           \* scopes added around a block (MAX_ADDED_DEPTH)
  MaxGroup                 \* names of a joined declaration (MAX_GROUP)

Ordered(locals) == SelectSeq(LocalOrder, LAMBDA x : x \in locals)
LocalList(names) == [i \in DOMAIN names |-> Local(names[i])]
SmallestOf(S) == CHOOSE n \in S : \A m \in S : n <= m
LargestOf(S) == CHOOSE n \in S : \A m \in S : n >= m

(***************************************************************************)
(* Declarations.  A block is known by its path: the statement and the      *)
(* branch of every block around it, from the outside in.  A usage is       *)
(* [local, path, at]; "at" may be one past the end, for the condition of a *)
(* repeat, which is evaluated in the scope of the body.                    *)
(***************************************************************************)
RECURSIVE Usages(_, _)
Usages(block, path) ==
  UNION {LET s == block[i]
             here == CASE s.kind = "for" -> ToSet(StatReads(s))
                       [] s.kind = "repeat" -> {}
                       [] OTHER -> StatValues(s)
             condition == IF s.kind = "repeat" THEN ReadSet(s.right[1]) ELSE {}
         IN {[local |-> x, path |-> path, at |-> i] : x \in here}
              \cup {[local |-> x, path |-> path \o <<i, 1>>, at |-> Len(s.blocks[1]) + 1] : x \in condition}
              \cup UNION {Usages(s.blocks[b], path \o <<i, b>>) : b \in DOMAIN s.blocks}
         : i \in DOMAIN block}

\* The bodies in which a loop declares the local itself.
RECURSIVE IntrinsicScopes(_, _, _)
IntrinsicScopes(block, path, x) ==
  UNION {(IF block[i].kind = "for" /\ block[i].left = <<Local(x)>> THEN {path \o <<i, 1>>} ELSE {})
           \cup UNION {IntrinsicScopes(block[i].blocks[b], path \o <<i, b>>, x) :
                        b \in DOMAIN block[i].blocks}
         : i \in DOMAIN block}

\* A slip: the block of the first usage is taken.
DeclaredAtFirst(usages) ==
  LET one == CHOOSE u \in usages : \A v \in usages : u.at <= v.at
  IN [path |-> one.path, at |-> one.at]

\* Where a local is declared: the innermost block around all its usages, at
\* the first statement that has one.  Two branches of an if meet outside it.
DeclarationOf(usages) ==
  LET one == CHOOSE u \in usages : TRUE
      common == LargestOf({n \in 0 .. Len(one.path) :
                            \A u \in usages : n <= Len(u.path) /\ SubSeq(u.path, 1, n) = SubSeq(one.path, 1, n)})
      depth == common - (common % 2)
      First(u) == IF Len(u.path) = depth THEN u.at ELSE u.path[depth + 1]
  IN [path |-> SubSeq(one.path, 1, depth), at |-> SmallestOf({First(u) : u \in usages})]

\* Declared locals of a block: where is the place of each, [x |-> [path, at]].
RECURSIVE DeclareIn(_, _, _)
DeclareIn(block, path, where) ==
  LET At(i) == {x \in DOMAIN where : where[x] = [path |-> path, at |-> i]}
      Inner(i) == [block[i] EXCEPT !.blocks =
                     [b \in DOMAIN @ |-> DeclareIn(@[b], path \o <<i, b>>, where)]]
      \* an assignment to nothing but locals declared here becomes their declaration
      Becomes(i) == /\ i \in DOMAIN block /\ block[i].kind = "assign"
                    /\ \A j \in DOMAIN block[i].left :
                         block[i].left[j].op = "local" /\ block[i].left[j].name \in At(i)
      Bare(i) == At(i) \ (IF Becomes(i) THEN StatWrites(block[i]) ELSE {})
      Before(i) == IF Bare(i) = {} THEN <<>> ELSE <<Declare(LocalList(Ordered(Bare(i))), <<>>)>>
  IN FlattenSeq([i \in 1 .. Len(block) + 1 |->
       IF i > Len(block) THEN Before(i)
       ELSE Before(i) \o <<IF At(i) # {} /\ Becomes(i) THEN [Inner(i) EXCEPT !.prefix = TRUE] ELSE Inner(i)>>])

DeclareLocals(block, ignored) ==
  LET all == Usages(block, <<>>)
      Outside(x) == {u \in all : /\ u.local = x
                                 /\ ~\E scope \in IntrinsicScopes(block, <<>>, x) : IsPrefix(scope, u.path)}
      declared == {x \in {u.local : u \in all} \ ignored : Outside(x) # {}}
  IN DeclareIn(block, <<>>, [x \in declared |-> DeclarationOf(Outside(x))])

(***************************************************************************)
(* Validation.  A scope is [ok, visible].                                  *)
(***************************************************************************)
\* A local function may name itself.
AssignResolves(s, visible) ==
  LET declared == StatWrites(s)
      See(e, own) == ReadSet(e) \subseteq visible \cup (IF e.op = "closure" THEN own ELSE {})
  IN /\ \A i \in DOMAIN s.left : ToSet(TargetReads(s.left[i])) \subseteq visible
     /\ \A i \in DOMAIN s.right : See(s.right[i], IF s.prefix THEN declared ELSE {})
     /\ IF s.prefix THEN declared \cap visible = {} ELSE declared \subseteq visible

RECURSIVE ScopeAfter(_, _)
\* What is visible behind a block, and whether all of it resolves.
ScopeAfter(block, visible) ==
  FoldLeft(LAMBDA scope, s :
    LET Sees(e) == ReadSet(e) \subseteq scope.visible
        reads == \A i \in DOMAIN s.right : Sees(s.right[i])
        child(b, more) == ScopeAfter(s.blocks[b], scope.visible \cup more)
    IN CASE ~scope.ok -> scope
         [] scope.ok /\ s.kind = "assign" ->
              [ok |-> AssignResolves(s, scope.visible),
               visible |-> scope.visible \cup (IF s.prefix THEN StatWrites(s) ELSE {})]
         [] scope.ok /\ s.kind \in {"if", "while", "do"} ->
              [scope EXCEPT !.ok = reads /\ \A b \in DOMAIN s.blocks : child(b, {}).ok]
         [] scope.ok /\ s.kind = "repeat" ->
              [scope EXCEPT !.ok = child(1, {}).ok /\ ReadSet(s.right[1]) \subseteq child(1, {}).visible]
         [] scope.ok /\ s.kind = "for" ->
              [scope EXCEPT !.ok = /\ reads /\ s.left[1].name \notin scope.visible
                                   /\ child(1, {s.left[1].name}).ok]
         [] OTHER -> [scope EXCEPT !.ok = reads],
    [ok |-> TRUE, visible |-> visible], block)

ValidBindings(block, visible) == ScopeAfter(block, visible).ok

(***************************************************************************)
(* Narrowing.  A run is a pair of statement positions, first and last.     *)
(***************************************************************************)
DeclaredBy(s) == IF s.kind = "assign" /\ s.prefix THEN [i \in DOMAIN s.left |-> s.left[i].name] ELSE <<>>

CountDeclared(block, first, last) ==
  FoldLeft(LAMBDA n, i : n + Len(DeclaredBy(block[i])), 0, [i \in 1 .. last - first + 1 |-> first + i - 1])

RECURSIVE Mentioned(_)
Mentioned(s) ==
  StatValues(s) \cup UNION {UNION {Mentioned(t) : t \in ToSet(s.blocks[b])} : b \in DOMAIN s.blocks}

IsTerminator(s) == s.kind \in {"return", "break", "continue"}
ResistsGrouping(block) == \E i \in 1 .. Len(block) - 1 : IsTerminator(block[i])

LastReference(block, x) ==
  LET at == {i \in DOMAIN block : x \in Mentioned(block[i])} IN IF at = {} THEN 0 ELSE LargestOf(at)

\* Runs that hold the whole live range of every local they declare; the
\* locals in kept stay in the block and hold no run open.
Partition(block, kept) ==
  LET Reach(i) == LargestOf({i} \cup {LastReference(block, x) : x \in ToSet(DeclaredBy(block[i])) \ kept})
      walked == FoldLeft(LAMBDA acc, i :
                  LET open == LargestOf({acc.open, Reach(i)})
                  IN IF i >= open
                     THEN [runs |-> Append(acc.runs, <<acc.start, i>>), start |-> i + 1, open |-> i + 1]
                     ELSE [acc EXCEPT !.open = open],
                  [runs |-> <<>>, start |-> 1, open |-> 1], [i \in DOMAIN block |-> i])
  IN walked.runs \o (IF walked.start <= Len(block) THEN <<<<walked.start, Len(block)>>>> ELSE <<>>)

\* Runs that touch are joined until each is worth a scope.
MergeRuns(block, runs) ==
  FoldLeft(LAMBDA merged, run :
    IF /\ merged # <<>> /\ Last(merged)[2] + 1 = run[1]
       /\ CountDeclared(block, Last(merged)[1], Last(merged)[2]) < MinScopeDeclarations
    THEN [merged EXCEPT ![Len(merged)][2] = run[2]]
    ELSE Append(merged, run), <<>>, runs)

WorthWrapping(block, run) ==
  /\ CountDeclared(block, run[1], run[2]) >= MinScopeDeclarations
  /\ run[1] > 1 \/ run[2] < Len(block)

\* The locals that may be held back, widest live range first, of equal ones the
\* last.
Candidates(block, pinned) ==
  LET all == FlattenSeq([i \in DOMAIN block |->
               [j \in DOMAIN DeclaredBy(block[i]) |->
                 [x |-> DeclaredBy(block[i])[j],
                  width |-> LargestOf({i, LastReference(block, DeclaredBy(block[i])[j])}) - i]]])
      free == SelectSeq(all, LAMBDA c : c.x \notin pinned)
      Rank(i) == Cardinality({j \in DOMAIN free : \/ free[j].width > free[i].width
                                                  \/ free[j].width = free[i].width /\ j > i}) + 1
  IN [r \in DOMAIN free |-> free[CHOOSE i \in DOMAIN free : Rank(i) = r].x]

\* Locals are held back, in batches that double, until the scopes fit.
RECURSIVE ChooseRuns(_, _, _, _, _)
ChooseRuns(block, budget, kept, candidates, batch) ==
  LET Sizes(runs) == {CountDeclared(block, r[1], r[2]) : r \in {q \in ToSet(runs) : WorthWrapping(block, q)}}
      Suffices(sizes) == sizes # {} /\ (LargestOf(sizes) <= budget \/ Cardinality(kept) >= budget)
      room == IF budget > Cardinality(kept) THEN budget - Cardinality(kept) ELSE 0
      take == SmallestOf({batch, room, Len(candidates)})
      Choose(runs) ==
        IF Suffices(Sizes(runs)) \/ take = 0 THEN [runs |-> runs, kept |-> kept]
        ELSE ChooseRuns(block, budget, kept \cup ToSet(SubSeq(candidates, 1, take)),
                        SubSeq(candidates, take + 1, Len(candidates)), 2 * batch)
  IN Choose(MergeRuns(block, Partition(block, kept)))

Fits(total, budget) == total <= budget

HoldsKept(s, kept) == ToSet(DeclaredBy(s)) \cap kept # {}

\* A run as a scope, with the declarations of kept locals in front of it.
Wrapped(body, kept) ==
  LET hoisted == FlattenSeq([i \in DOMAIN body |-> IF HoldsKept(body[i], kept) THEN DeclaredBy(body[i]) ELSE <<>>])
      rest == FlattenSeq([i \in DOMAIN body |->
                IF ~HoldsKept(body[i], kept) THEN <<body[i]>>
                ELSE IF body[i].right = <<>> THEN <<>> ELSE <<[body[i] EXCEPT !.prefix = FALSE]>>])
  IN (IF hoisted = <<>> THEN <<>> ELSE <<Declare(LocalList(hoisted), <<>>)>>) \o <<Do(rest)>>


\* The declarations of these statements that a scope would hold.
Relieved(body, kept) ==
  FoldLeft(LAMBDA n, s : IF HoldsKept(s, kept) THEN n ELSE n + Len(DeclaredBy(s)), 0, body)

\* The chosen runs, those that are worth it as scopes.
Grouped(block, chosen) ==
  LET Part(run) == SubSeq(block, run[1], run[2])
      Take(acc, run) ==
        IF WorthWrapping(block, run)
        THEN [block |-> acc.block \o Wrapped(Part(run), chosen.kept),
              held |-> acc.held - Relieved(Part(run), chosen.kept)]
        ELSE [acc EXCEPT !.block = @ \o Part(run)]
  IN FoldLeft(Take, [block |-> <<>>, held |-> CountDeclared(block, 1, Len(block))], chosen.runs)

\* The block grouped, and the declarations it still holds.
GroupDeclarations(block, budget, pinned) ==
  LET Group(total) ==
        IF Fits(total, budget) \/ ResistsGrouping(block) THEN [block |-> block, held |-> total]
        ELSE Grouped(block, ChooseRuns(block, budget, pinned, Candidates(block, pinned), 1))
  IN Group(CountDeclared(block, 1, Len(block)))

AtLeast(n, floor) == IF n > floor THEN n ELSE floor

RECURSIVE Narrow(_, _, _, _)
Narrow(block, budget, depth, pinned) ==
  LET Inside(s, remaining) ==
        [s EXCEPT !.blocks = [b \in DOMAIN @ |->
           Narrow(@[b], IF s.kind = "for" THEN AtLeast(remaining - 1, 0) ELSE remaining,
                  IF s.kind = "do" THEN depth + 1 ELSE depth,
                  IF s.kind = "repeat" THEN ReadSet(s.right[1]) ELSE {})]]
      NarrowAll(grouped) ==
        [i \in DOMAIN grouped.block |-> Inside(grouped.block[i], AtLeast(budget - grouped.held, MinimumBudget))]
  IN NarrowAll(IF depth < MaxAddedDepth THEN GroupDeclarations(block, budget, pinned)
               ELSE [block |-> block, held |-> CountDeclared(block, 1, Len(block))])

NarrowLocalScopes(block) == Narrow(block, FunctionBudget, 0, {})

(***************************************************************************)
(* Joining declarations.                                                   *)
(***************************************************************************)
IsSelect(e) == e.op \in {"selectcall", "selectmethod"}
IsSimpleDeclaration(s) ==
  /\ s.kind = "assign" /\ s.prefix /\ ~s.parallel /\ Len(s.left) = 1 /\ Len(s.right) = 1
  /\ s.left[1].op = "local" /\ ~IsSelect(s.right[1])

RunsProgramCode(e) ==
  \E sub \in Subexpressions(e) : sub.op \in {"call", "method", "selectcall", "selectmethod"}

\* The declarations from "from" on that make one list: none reads what the
\* list binds, and at most one runs code.
GroupEnd(block, from) ==
  LET Name(i) == block[i].left[1].name
      Value(i) == block[i].right[1]
      Joins(end) ==
        /\ \A i \in from .. end : IsSimpleDeclaration(block[i])
        /\ \A i, j \in from .. end : Name(j) = Name(i) => i = j
        /\ \A i \in from .. end : ReadSet(Value(i)) \cap {Name(j) : j \in from .. i} = {}
        /\ Cardinality({i \in from .. end : RunsProgramCode(Value(i))}) <= 1
  IN LargestOf({from} \cup {end \in from .. Len(block) : end - from < MaxGroup /\ Joins(end)})

RECURSIVE CombineFrom(_, _), CombineDeclarations(_)
CombineFrom(block, i) ==
  IF i > Len(block) THEN <<>>
  ELSE LET end == GroupEnd(block, i)
       IN IF end = i THEN <<block[i]>> \o CombineFrom(block, i + 1)
          ELSE <<Declare([j \in 1 .. end - i + 1 |-> block[i + j - 1].left[1]],
                         [j \in 1 .. end - i + 1 |-> block[i + j - 1].right[1]])>> \o CombineFrom(block, end + 1)

CombineDeclarations(block) ==
  LET combined == CombineFrom(block, 1)
  IN [i \in DOMAIN combined |-> [combined[i] EXCEPT !.blocks =
       [b \in DOMAIN @ |-> CombineDeclarations(@[b])]]]
=============================================================================
