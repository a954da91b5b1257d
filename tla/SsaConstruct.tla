---------------------------- MODULE SsaConstruct ----------------------------
(* SsaConstructor (cfg/src/ssa/construct.rs): the way into SSA form. Blocks   *)
(* are renamed in the order of a depth-first search; a register that is read  *)
(* is looked for backwards, and where paths meet it becomes a parameter of    *)
(* the block. A block that may still get predecessors keeps its parameters    *)
(* incomplete until it is sealed. Then the versions of captured registers are *)
(* put into groups, copies are propagated, and parameters that always get the *)
(* same argument are removed (remove_unnecessary_params). After it, the model *)
(* executes the function and its SSA form side by side.                       *)
EXTENDS Integers, FiniteSets, SequencesExt, FiniteSetsExt, TLC

CONSTANTS
  Functions,    \* the functions to be constructed
  MaxSteps      \* bound: statements and jumps that are executed

(* A function has its nodes, the successors of each, and their statements:    *)
(*   [left, right, kind]                                                      *)
(* where left and reads are registers and kind is "assign", "closure" (which  *)
(* captures what it reads by reference), "call" or "close". A right side is a *)
(* copy of one register or reads some. Locals are numbers from 101 on.        *)
Entry == 0
NodesOf(f) == DOMAIN f.next
EdgesOf(f) == {<<m, i>> \in NodesOf(f) \X {1, 2} : i \in DOMAIN f.next[m]}
Into(f, n) == {e \in EdgesOf(f) : f.next[e[1]][e[2]] = n}
Sources(f, n) == {e[1] : e \in Into(f, n)}
Registers(f) == f.parameters \cup f.upvalues \cup
  UNION {UNION {ToSet(s.left) \cup ToSet(s.right) : s \in ToSet(f.code[n])} : n \in NodesOf(f)}

(* What UpvaluesOpen finds: from its capture on, in the entry block, until it *)
(* is closed, a register is attached to a box. An upvalue always is.          *)
ClosedAt(f, r, n, i) == \E k \in 1..i : f.code[n][k].kind = "close" /\ r \in ToSet(f.code[n][k].right)
CapturedAt(f, r, i) == \E k \in 1..i : f.code[Entry][k].kind = "closure" /\ r \in ToSet(f.code[Entry][k].right)
Captured(f) == {r \in Registers(f) \ f.upvalues : CapturedAt(f, r, Len(f.code[Entry]))}
IsOpen(f, r, n, i) ==
  \/ r \in f.upvalues
  \/ r \in Captured(f) /\ ~ClosedAt(f, r, n, i) /\ (n = Entry => CapturedAt(f, r, i))

VARIABLES
  function,
  dfs,          \* the order in which blocks are renamed
  at,           \* the node and statement that is renamed, or executed, next
  code,         \* the statements, renamed as far as they are
  form,         \* current_definition, edge arguments, incomplete_params, old_locals
  filled,       \* filled_blocks
  sealed,       \* sealed_blocks
  groups,       \* new_upvalues_in and upvalues_passed: the locals of a box
  map,          \* local_map, not applied yet
  graph,        \* ParamDependencyGraph of the node: its nodes, edges and indices
  removable,    \* parameters of the node that can be removed, and their argument
  zero,         \* those among them that depend on no other
  rounds,       \* how often parameters were removed
  pc,
  steps,        \* statements and jumps executed so far
  registers,    \* execution: the values of the registers
  ssa,          \* of the locals
  boxes         \* of the groups

formVars == <<code, form, filled, sealed>>
paramVars == <<map, graph, removable, zero>>
executionVars == <<steps, registers, ssa, boxes>>
vars == <<function, dfs, at, formVars, groups, paramVars, rounds, pc, executionVars>>

----------------------------------------------------------------------------
(* Depth-first order: the stack holds nodes that may have been visited.       *)
RECURSIVE Visit(_, _, _)
Visit(f, stack, seen) ==
  IF stack = <<>> THEN seen
  ELSE LET n == Last(stack) IN
       IF n \in ToSet(seen) THEN Visit(f, Front(stack), seen)
       ELSE Visit(f, Front(stack) \o SelectSeq(f.next[n], LAMBDA m : m \notin ToSet(seen)), Append(seen, n))

(* Blocks that never execute are removed first.                               *)
Reached(f) == ToSet(Visit(f, <<Entry>>, <<>>))
WithoutDeadBlocks(f) ==
  [f EXCEPT !.next = [n \in Reached(f) |-> f.next[n]], !.code = [n \in Reached(f) |-> f.code[n]]]

(* The parameters of a node are those that its edges pass.                    *)
Passed(e) == form.args[e]
AnEdge(n) == CHOOSE e \in Into(function, n) : \A d \in Into(function, n) : e[1] < d[1] \/ (e[1] = d[1] /\ e[2] <= d[2])

NewLocal(s) == 101 + Cardinality(DOMAIN s.old)
Defined(s, n, r, l) == [s EXCEPT !.defs = (<<r, n>> :> l) @@ @]
Created(s, r) == [s EXCEPT !.old = (NewLocal(s) :> r) @@ @]

(* find_local and add_param_args: the form after it, and the local.           *)
RECURSIVE Find(_, _, _)
RECURSIVE AddArguments(_, _, _, _, _)
Find(s, n, r) ==
  IF <<r, n>> \in DOMAIN s.defs THEN [form |-> s, local |-> s.defs[<<r, n>>]]
  ELSE LET p == NewLocal(s) IN
       IF n \notin sealed
       THEN [form |-> [Defined(Created(s, r), n, r, p) EXCEPT !.incomplete = @ \cup {<<n, r, p>>}], local |-> p]
       ELSE IF Cardinality(Into(function, n)) = 1
       THEN LET found == Find(s, AnEdge(n)[1], r) IN
            [form |-> Defined(found.form, n, r, found.local), local |-> found.local]
       ELSE [form |-> AddArguments(Defined(Created(s, r), n, r, p), r, p,
                                   SetToSortSeq(Into(function, n), LAMBDA e, d : e[1] < d[1] \/ (e[1] = d[1] /\ e[2] < d[2])), 1),
             local |-> p]

AddArguments(s, r, p, edges, k) ==
  IF k > Len(edges) THEN s
  ELSE LET found == Find(s, edges[k][1], r) IN
       AddArguments([found.form EXCEPT !.args[edges[k]] = Append(@, <<p, found.local>>)], r, p, edges, k + 1)

RECURSIVE FindAll(_, _, _)
FindAll(s, n, rs) ==
  IF rs = <<>> THEN [form |-> s, locals |-> <<>>]
  ELSE LET first == Find(s, n, Head(rs))
           rest == FindAll(first.form, n, Tail(rs)) IN
       [form |-> rest.form, locals |-> <<first.local>> \o rest.locals]

RECURSIVE WriteAll(_, _, _)
WriteAll(s, n, rs) ==
  IF rs = <<>> THEN [form |-> s, locals |-> <<>>]
  ELSE LET l == NewLocal(s)
           rest == WriteAll(Defined(Created(s, Head(rs)), n, Head(rs), l), n, Tail(rs)) IN
       [form |-> rest.form, locals |-> <<l>> \o rest.locals]

(* What a statement reads is renamed before what it writes, unless it is a    *)
(* closure: that may capture the variable it is assigned to.                  *)
Renamed(s, n, stmt) ==
  IF stmt.kind = "closure"
  THEN LET written == WriteAll(s, n, stmt.left)
           read == FindAll(written.form, n, stmt.right) IN
       [form |-> read.form, stmt |-> [stmt EXCEPT !.left = written.locals, !.right = read.locals]]
  ELSE LET read == FindAll(s, n, stmt.right)
           written == WriteAll(read.form, n, stmt.left) IN
       [form |-> written.form, stmt |-> [stmt EXCEPT !.left = written.locals, !.right = read.locals]]

----------------------------------------------------------------------------
Init ==
  /\ \E f \in Functions : function = WithoutDeadBlocks(f)
  /\ dfs = Visit(function, <<Entry>>, <<>>)
  /\ at = <<1, 1>>
  /\ code = function.code
  /\ form = [defs |-> <<>>, args |-> [e \in EdgesOf(function) |-> <<>>], incomplete |-> {}, old |-> <<>>]
  /\ filled = {} /\ sealed = {}
  /\ groups = <<>>
  /\ map = <<>> /\ graph = [nodes |-> <<>>, edges |-> {}, index |-> <<>>] /\ removable = <<>> /\ zero = {}
  /\ rounds = 0 /\ pc = "rename"
  /\ steps = 0 /\ registers = <<>> /\ ssa = <<>> /\ boxes = <<>>

Current == dfs[at[1]]

RenameStatement ==
  /\ pc = "rename" /\ at[2] <= Len(code[Current])
  /\ LET renamed == Renamed(form, Current, code[Current][at[2]]) IN
     /\ form' = renamed.form
     /\ code' = [code EXCEPT ![Current][at[2]] = renamed.stmt]
  /\ at' = <<at[1], at[2] + 1>>
  /\ UNCHANGED <<function, dfs, filled, sealed, groups, paramVars, rounds, pc, executionVars>>

FillBlock ==
  /\ pc = "rename" /\ at[2] > Len(code[Current])
  /\ filled' = filled \cup {Current}
  /\ pc' = "seal"
  /\ UNCHANGED <<function, dfs, at, code, form, sealed, groups, paramVars, rounds, executionVars>>

(* Blocks visited so far whose predecessors are all filled.                   *)
Sealable(n) == n # Entry /\ n \notin sealed /\ Sources(function, n) \subseteq filled

ToSeal == {k \in 1..at[1] : Sealable(dfs[k])}

IncompleteOf(n) == {x \in form.incomplete : x[1] = n}

(* The parameters of versions of an upvalue get no arguments: they are one    *)
(* variable.                                                                  *)
SealBlock ==
  /\ pc = "seal" /\ ToSeal # {}
  /\ LET n == dfs[Min(ToSeal)] IN
     IF IncompleteOf(n) # {}
     THEN \E x \in IncompleteOf(n) :
            LET s == [form EXCEPT !.incomplete = @ \ {x}] IN
            /\ form' = IF x[2] \in function.upvalues THEN s
                       ELSE AddArguments(s, x[2], x[3], SetToSeq(Into(function, n)), 1)
            /\ UNCHANGED sealed
     ELSE /\ sealed' = sealed \cup {n}
          /\ UNCHANGED form
  /\ UNCHANGED <<function, dfs, at, code, filled, groups, paramVars, rounds, pc, executionVars>>

NextBlock ==
  /\ pc = "seal" /\ ToSeal = {}
  /\ IF at[1] < Len(dfs) THEN at' = <<at[1] + 1, 1>> /\ pc' = "rename"
     ELSE /\ pc' = IF \A x \in form.incomplete : x[1] = Entry THEN "mark" ELSE "panicked"
          /\ UNCHANGED at
  /\ UNCHANGED <<function, dfs, formVars, groups, paramVars, rounds, executionVars>>

----------------------------------------------------------------------------
(* mark_upvalues: versions that a statement mentions while their register is  *)
(* attached alias one box. Close statements are removed; a statement that is  *)
(* gone keeps its place in the model.                                         *)
Gone == [left |-> <<>>, right |-> <<>>, kind |-> "gone"]

Values(stmt) == ToSet(stmt.left) \cup ToSet(stmt.right)
Old(l) == form.old[l]

(* A slip: only what is written while the register is attached is marked.     *)
MarkedWritten(r) ==
  UNION {UNION {{l \in ToSet(code[n][i].left) : Old(l) = r /\ IsOpen(function, r, n, i)} :
                i \in DOMAIN code[n]} : n \in DOMAIN code}

Marked(r) ==
  UNION {UNION {{l \in Values(code[n][i]) : Old(l) = r /\ IsOpen(function, r, n, i)} :
                i \in DOMAIN code[n]} : n \in DOMAIN code}

WithoutClose == [n \in DOMAIN code |-> [i \in DOMAIN code[n] |-> IF code[n][i].kind = "close" THEN Gone ELSE code[n][i]]]

MarkUpvalues ==
  /\ pc = "mark"
  /\ groups' = [r \in Captured(function) \cup function.upvalues |->
                  IF r \in function.upvalues THEN {l \in DOMAIN form.old : Old(l) = r} ELSE Marked(r)]
  /\ code' = WithoutClose
  /\ pc' = "propagate"
  /\ UNCHANGED <<function, dfs, at, form, filled, sealed, paramVars, rounds, executionVars>>

RECURSIVE Resolved(_, _)
Resolved(m, l) == IF l \in DOMAIN m THEN Resolved(m, m[l]) ELSE l

(* Copies between registers that are not captured are propagated.             *)
IsCaptured(r) == r \in function.upvalues \/ (r \in DOMAIN groups /\ groups[r] # {})

(* A slip: the variable may be captured.                                      *)
PropagatesToAny(m, stmt) == stmt.kind = "assign" /\ Len(stmt.left) = 1 /\ stmt.copy

Propagates(m, stmt) ==
  /\ stmt.kind = "assign" /\ Len(stmt.left) = 1 /\ stmt.copy
  /\ ~IsCaptured(Old(stmt.left[1]))
  /\ ~IsCaptured(Old(Resolved(m, stmt.right[1])))

NodesInOrder == SetToSortSeq(NodesOf(function), <)
SitesInOrder ==
  FoldLeft(LAMBDA acc, n : acc \o [i \in DOMAIN code[n] |-> <<n, i>>], <<>>, NodesInOrder)

PropagateSite(acc, site) ==
  LET stmt == code[site[1]][site[2]] IN
  IF Propagates(acc.map, stmt)
  THEN [map |-> (stmt.left[1] :> Resolved(acc.map, stmt.right[1])) @@ acc.map, code |-> [acc.code EXCEPT ![site[1]][site[2]] = Gone]]
  ELSE acc

PropagateCopies ==
  /\ pc = "propagate"
  /\ LET after == FoldLeft(PropagateSite, [map |-> map, code |-> code], SitesInOrder) IN
     map' = after.map /\ code' = after.code
  /\ pc' = "apply"
  /\ UNCHANGED <<function, dfs, at, form, filled, sealed, groups, graph, removable, zero, rounds, executionVars>>

(* apply_local_map and rename_upvalues_passed, or, once the groups are what   *)
(* the structuring passes keep, apply_local_map_to_upvalue_groups.            *)
Applied(stmt) ==
  [stmt EXCEPT !.left = [i \in DOMAIN @ |-> Resolved(map, @[i])], !.right = [i \in DOMAIN @ |-> Resolved(map, @[i])]]

(* The constructor keeps all names of an upvalue; the pass renames them too.  *)
Finished == rounds = 2

RenamedGroups ==
  [r \in DOMAIN groups |-> IF r \in function.upvalues /\ ~Finished THEN groups[r]
                           ELSE {Resolved(map, l) : l \in groups[r]}]

ApplyMap ==
  /\ pc = "apply"
  /\ code' = [n \in DOMAIN code |-> [i \in DOMAIN code[n] |-> Applied(code[n][i])]]
  /\ form' = [form EXCEPT !.args = [e \in DOMAIN @ |->
                [k \in DOMAIN @[e] |-> <<Resolved(map, @[e][k][1]), Resolved(map, @[e][k][2])>>]]]
  /\ groups' = RenamedGroups
  /\ map' = <<>>
  /\ at' = <<1, 1>>
  /\ pc' = IF Finished THEN "begin" ELSE "params"
  /\ UNCHANGED <<function, dfs, filled, sealed, graph, removable, zero, rounds, executionVars>>

----------------------------------------------------------------------------
(* remove_unnecessary_params, once by the constructor and once as a pass: a   *)
(* parameter that all edges pass the same local is replaced by it. Nodes are  *)
(* looked at in the order of their indices.                                   *)
Node == NodesInOrder[at[1]]
EdgesInto(n) == SetToSortSeq(Into(function, n), LAMBDA e, d : e[1] < d[1] \/ (e[1] = d[1] /\ e[2] < d[2]))
ParametersOf(n) == LET e == AnEdge(n) IN [k \in DOMAIN Passed(e) |-> Passed(e)[k][1]]

(* ParamDependencyGraph: a parameter depends on those whose values it gets.   *)
(* An edge of it is there once for every edge of the function that passes it. *)
DependencyGraph(n) ==
  LET params == ParametersOf(n)
      Depends(e) == [k \in DOMAIN Passed(e) |-> Passed(e)[k]]
      all == FoldLeft(LAMBDA acc, e : acc \o Depends(e), <<>>, EdgesInto(n)) IN
  [nodes |-> params,
   edges |-> SelectSeq(all, LAMBDA d : d[2] \in ToSet(params) /\ d[1] # d[2]),
   index |-> [p \in ToSet(params) |-> CHOOSE k \in DOMAIN params : params[k] = p]]

(* A node is removed by its index. The last node moves into the gap, and keeps *)
(* the index it had in local_to_node.                                         *)
WithoutNode(g, k) ==
  IF k \notin DOMAIN g.nodes THEN g
  ELSE LET l == g.nodes[k] IN
       [nodes |-> Front([g.nodes EXCEPT ![k] = Last(g.nodes)]),
        edges |-> SelectSeq(g.edges, LAMBDA d : l \notin {d[1], d[2]}),
        index |-> [x \in DOMAIN g.index \ {l} |-> g.index[x]]]

DependsOn(g, l) == SelectSeq(g.edges, LAMBDA d : d[1] = l /\ g.index[l] \in DOMAIN g.nodes)
DependentsOf(g, l) == {d[1] : d \in {d \in ToSet(g.edges) : d[2] = l /\ g.index[l] \in DOMAIN g.nodes}}

ArgumentsAt(n, k) == {Passed(e)[k][2] : e \in Into(function, n)}
Unnecessary(n) == {k \in DOMAIN ParametersOf(n) : Cardinality(ArgumentsAt(n, k)) = 1}
TheArgument(n, k) == Resolved(map, CHOOSE l \in ArgumentsAt(n, k) : TRUE)
Trivial(n, k) == TheArgument(n, k) = Resolved(map, ParametersOf(n)[k])

FreeOf(g, ls) == {l \in ls : DependsOn(g, l) = <<>>}

ScanParameters ==
  /\ pc = "params" /\ at[1] <= Cardinality(NodesOf(function)) /\ zero = {}
  /\ LET n == Node IN
     IF Into(function, n) = {} THEN UNCHANGED <<form, graph, removable, zero>>
     ELSE LET params == ParametersOf(n)
              Name(k) == Resolved(map, params[k])
              trivial == {k \in Unnecessary(n) : Trivial(n, k)}
              replaced == Unnecessary(n) \ trivial
              gone == {Name(k) : k \in Unnecessary(n)}
              g == FoldLeft(LAMBDA acc, k : IF k \in trivial /\ Name(k) \in DOMAIN acc.index
                                            THEN WithoutNode(acc, acc.index[Name(k)]) ELSE acc,
                            DependencyGraph(n), [k \in DOMAIN params |-> k]) IN
          /\ removable' = [l \in {Name(k) : k \in replaced} |->
                             TheArgument(n, CHOOSE k \in replaced : Name(k) = l)]
          /\ form' = [form EXCEPT !.args = [e \in DOMAIN @ |->
                        IF e \in Into(function, n)
                        THEN SelectSeq(@[e], LAMBDA pa : Resolved(map, pa[1]) \notin gone)
                        ELSE @[e]]]
          /\ graph' = g
          /\ zero' = FreeOf(g, DOMAIN removable')
  /\ at' = <<at[1] + 1, 1>>
  /\ UNCHANGED <<function, dfs, code, filled, sealed, groups, map, rounds, pc, executionVars>>

(* The parameters are popped in the order a hash map left them in.            *)
ReplaceParameter ==
  /\ pc = "params"
  /\ \E p \in zero :
       LET freed == {l \in DependentsOf(graph, p) \cap DOMAIN removable : Len(DependsOn(graph, l)) = 1} IN
       /\ map' = (p :> Resolved(map, removable[p])) @@ map
       /\ graph' = WithoutNode(graph, graph.index[p])
       /\ zero' = (zero \ {p}) \cup freed
  /\ UNCHANGED <<function, dfs, at, formVars, groups, removable, rounds, pc, executionVars>>

EndOfParameters ==
  /\ pc = "params" /\ at[1] > Cardinality(NodesOf(function)) /\ zero = {}
  /\ rounds' = rounds + 1 /\ removable' = <<>>
  /\ pc' = "apply"
  /\ UNCHANGED <<function, dfs, at, formVars, groups, map, graph, zero, executionVars>>

----------------------------------------------------------------------------
(* Execution of the function and of its form. A value is the step in which it *)
(* was made. A call writes every variable that a closure has captured and that *)
(* is open. The members of a group are one variable, their box.               *)
Unset == -1
GroupOf(l) == {r \in DOMAIN groups : l \in groups[r]}
SsaValue(l) ==
  IF GroupOf(l) # {} THEN boxes[CHOOSE r \in GroupOf(l) : TRUE]
  ELSE IF l \in DOMAIN ssa THEN ssa[l] ELSE Unset

(* The version of a register that the entry begins with.                      *)
Initial(r) == IF r \in function.parameters \cup function.upvalues THEN r ELSE Unset
BeginsWith == {x \in form.incomplete : x[1] = Entry}

Assigned(lvs) ==
  /\ ssa' = [l \in DOMAIN ssa \cup {lv[1] : lv \in lvs} |->
               IF \E lv \in lvs : lv[1] = l THEN (CHOOSE lv \in lvs : lv[1] = l)[2] ELSE ssa[l]]
  /\ boxes' = [r \in DOMAIN boxes |->
                 IF \E lv \in lvs : lv[1] \in groups[r] THEN (CHOOSE lv \in lvs : lv[1] \in groups[r])[2] ELSE boxes[r]]

Begin ==
  /\ pc = "begin"
  /\ registers' = [r \in Registers(function) |-> Initial(r)]
  /\ ssa' = [l \in {x[3] : x \in BeginsWith} |-> Initial((CHOOSE x \in BeginsWith : x[3] = l)[2])]
  /\ boxes' = [r \in DOMAIN groups |-> Initial(r)]
  /\ at' = <<Entry, 1>>
  /\ pc' = "execute"
  /\ UNCHANGED <<function, dfs, formVars, groups, paramVars, rounds, steps>>

Source(n, i) == function.code[n][i]

(* What a call, or an assignment, does to the registers and to the form.      *)
Values1(f, stmt) == IF stmt.copy THEN {<<stmt.left[1], f[stmt.right[1]]>>} ELSE {<<l, 1000 + steps>> : l \in ToSet(stmt.left)}

Execute ==
  /\ pc = "execute" /\ steps < MaxSteps /\ at[2] <= Len(function.code[at[1]])
  /\ LET source == Source(at[1], at[2])
         stmt == code[at[1]][at[2]]
         written == Values1(registers, source)
         touched == IF source.kind = "call" THEN {r \in DOMAIN groups : IsOpen(function, r, at[1], at[2])} ELSE {} IN
     /\ registers' = [r \in DOMAIN registers |->
                        IF \E w \in written : w[1] = r THEN (CHOOSE w \in written : w[1] = r)[2]
                        ELSE IF r \in touched THEN 2000 + steps ELSE registers[r]]
     /\ IF stmt.kind = "gone" THEN UNCHANGED <<ssa, boxes>>
        ELSE LET lvs == IF stmt.copy THEN {<<stmt.left[1], SsaValue(stmt.right[1])>>}
                        ELSE {<<l, 1000 + steps>> : l \in ToSet(stmt.left)} IN
             /\ ssa' = [l \in DOMAIN ssa \cup {lv[1] : lv \in lvs} |->
                          IF \E lv \in lvs : lv[1] = l THEN (CHOOSE lv \in lvs : lv[1] = l)[2] ELSE ssa[l]]
             /\ boxes' = [r \in DOMAIN boxes |->
                            IF \E lv \in lvs : lv[1] \in groups[r] THEN (CHOOSE lv \in lvs : lv[1] \in groups[r])[2]
                            ELSE IF r \in touched THEN 2000 + steps ELSE boxes[r]]
  /\ at' = <<at[1], at[2] + 1>>
  /\ steps' = steps + 1
  /\ UNCHANGED <<function, dfs, formVars, groups, paramVars, rounds, pc>>

(* A jump assigns the parameters of its target in parallel.                   *)
Jump ==
  /\ pc = "execute" /\ steps < MaxSteps /\ at[2] > Len(function.code[at[1]])
  /\ \E i \in DOMAIN function.next[at[1]] :
       /\ at' = <<function.next[at[1]][i], 1>>
       /\ Assigned({<<pa[1], SsaValue(pa[2])>> : pa \in ToSet(Passed(<<at[1], i>>))})
  /\ steps' = steps + 1
  /\ UNCHANGED <<function, dfs, formVars, groups, paramVars, rounds, pc, registers>>

Stopped ==
  /\ pc = "execute"
  /\ steps = MaxSteps \/ (at[2] > Len(function.code[at[1]]) /\ function.next[at[1]] = <<>>)
  /\ UNCHANGED vars

Next ==
  \/ RenameStatement \/ FillBlock \/ SealBlock \/ NextBlock \/ MarkUpvalues
  \/ PropagateCopies \/ ApplyMap \/ ScanParameters \/ ReplaceParameter
  \/ EndOfParameters \/ Begin \/ Execute \/ Jump \/ Stopped

Spec == Init /\ [][Next]_vars

----------------------------------------------------------------------------
(* What a statement reads in SSA form is what it reads in the registers, over *)
(* renaming, marking, propagation and the removal of parameters (the promise  *)
(* of construct.rs).                                                          *)
ReadsAreTheSame ==
  pc = "execute" /\ at[2] <= Len(function.code[at[1]]) /\ code[at[1]][at[2]].kind # "gone" =>
    LET source == Source(at[1], at[2])
        stmt == code[at[1]][at[2]] IN
    \A k \in DOMAIN source.right : SsaValue(stmt.right[k]) = registers[source.right[k]]

(* "A capture group is the set of SSA values that alias one runtime box"      *)
(* (construct.rs:206): a captured register that is read gives what the box    *)
(* holds. It fails for a version that only merges others while a call writes. *)
CapturedReadsAreTheSame ==
  pc = "execute" /\ at[2] <= Len(function.code[at[1]]) /\ code[at[1]][at[2]].kind # "gone" =>
    LET source == Source(at[1], at[2])
        stmt == code[at[1]][at[2]] IN
    \A k \in DOMAIN source.right :
      source.right[k] \in Captured(function) => SsaValue(stmt.right[k]) = registers[source.right[k]]

(* Two boxes never become one local (the assertion at construct.rs:226).      *)
GroupsStayApart ==
  \A r, q \in DOMAIN groups : r # q => groups[r] \cap groups[q] = {}

=============================================================================
