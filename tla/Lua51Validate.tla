--------------------------- MODULE Lua51Validate ---------------------------
(* The checks a Lua 5.1 function passes before it is lifted                   *)
(* (src/lua51-lifter/src/validate.rs). Instructions are counted from zero, as *)
(* in the code: At(f, pc) is the instruction at pc. An error ends the whole   *)
(* decompilation, so a check is an operator that tells whether it passes.     *)
EXTENDS Lua51Code

CONSTANT MaxDepth       \* MAX_FUNCTION_DEPTH

HasArg == 1
IsVararg == 2
NeedsArg == 4
HasBit(flags, bit) == (flags \div bit) % 2 = 1

CodeSize(f) == Len(f.code)
At(f, pc) == f.code[pc + 1]
Pcs(f) == 0..(CodeSize(f) - 1)

JumpTarget(pc, skip) == pc + 1 + skip

InStack(f, r) == r < f.stack
HasConstant(f, k) == k < Len(f.constants)
HasString(f, k) == HasConstant(f, k) /\ f.constants[k + 1] = "string"
HasUpvalue(f, u) == u < f.upvalues
HasOperand(f, o) == IF o[1] = "r" THEN InStack(f, o[2]) ELSE HasConstant(f, o[2])
HasWindow(f, start, count) == start + count <= f.stack
JumpsInside(f, pc, skip) == JumpTarget(pc, skip) \in 0..CodeSize(f)
FallsInside(f, pc) == pc + 2 <= CodeSize(f)

ValidData(f, pc, i) ==
  CASE i.op = "Move" -> InStack(f, i.destination) /\ InStack(f, i.source)
    [] i.op = "LoadConstant" -> InStack(f, i.destination) /\ HasConstant(f, i.source)
    [] i.op = "LoadBoolean" -> InStack(f, i.destination) /\ (i.skip_next => FallsInside(f, pc))
    [] i.op = "LoadNil" -> \A r \in ToSet(i.registers) : InStack(f, r)
    [] i.op = "GetUpvalue" -> InStack(f, i.destination) /\ HasUpvalue(f, i.upvalue)
    [] i.op = "GetGlobal" -> InStack(f, i.destination) /\ HasString(f, i.global)
    [] i.op = "GetIndex" -> InStack(f, i.destination) /\ InStack(f, i.object) /\ HasOperand(f, i.key)
    [] i.op = "SetGlobal" -> HasString(f, i.destination) /\ InStack(f, i.value)
    [] i.op = "SetUpvalue" -> HasUpvalue(f, i.destination) /\ InStack(f, i.source)
    [] i.op = "SetIndex" -> InStack(f, i.object) /\ HasOperand(f, i.key) /\ HasOperand(f, i.value)
    [] i.op = "NewTable" -> InStack(f, i.destination)
    [] i.op = "PrepMethodCall" -> /\ {i.destination, i.self_arg, i.object} \subseteq 0..(f.stack - 1)
                                  /\ HasOperand(f, i.method)

ValidOperator(f, i) ==
  CASE i.op \in Arithmetic -> InStack(f, i.destination) /\ HasOperand(f, i.lhs) /\ HasOperand(f, i.rhs)
    [] i.op \in UnaryCodes -> InStack(f, i.destination) /\ InStack(f, i.operand)
    [] i.op = "Concatenate" -> /\ InStack(f, i.destination)
                               /\ Len(i.operands) >= 2
                               /\ \A r \in ToSet(i.operands) : InStack(f, r)

ValidControl(f, pc, i) ==
  CASE i.op = "Jump" -> JumpsInside(f, pc, i.skip)
    [] i.op \in Comparisons -> HasOperand(f, i.lhs) /\ HasOperand(f, i.rhs) /\ FallsInside(f, pc)
    [] i.op = "Test" -> InStack(f, i.value) /\ FallsInside(f, pc)
    [] i.op = "TestSet" -> /\ InStack(f, i.destination) /\ InStack(f, i.value)
                           /\ FallsInside(f, pc) /\ At(f, pc + 1).op = "Jump"
    [] i.op = "Call" -> /\ InStack(f, i.function)
                        /\ i.arguments > 0 => HasWindow(f, i.function, i.arguments)
                        /\ i.return_values > 0 => HasWindow(f, i.function, i.return_values - 1)
    [] i.op = "TailCall" -> /\ InStack(f, i.function)
                            /\ i.arguments > 0 => HasWindow(f, i.function, i.arguments)
    [] i.op = "Return" -> /\ InStack(f, i.start)
                          /\ i.count > 0 => HasWindow(f, i.start, i.count - 1)
    [] i.op \in {"IterateNumericForLoop", "InitNumericForLoop"} ->
         (\A r \in ToSet(i.control) : InStack(f, r)) /\ JumpsInside(f, pc, i.skip)
    [] i.op = "IterateGenericForLoop" ->
         /\ {i.generator, i.state, i.internal_control} \cup ToSet(i.vars) \subseteq 0..(f.stack - 1)
         /\ FallsInside(f, pc)

ValidSetList(f, i) ==
  /\ InStack(f, i.table)
  /\ i.block_number > 0
  /\ i.number_of_elements > 0 => HasWindow(f, i.table + 1, i.number_of_elements)

(* The words behind a closure instruction say what it captures. *)
ValidClosure(f, pc, i) ==
  /\ InStack(f, i.destination)
  /\ i.function < Len(f.closures)
  /\ \A capture \in 1..(f.closures[i.function + 1].upvalues) :
       /\ pc + capture \in Pcs(f)
       /\ LET c == At(f, pc + capture) IN
            \/ c.op = "Move" /\ InStack(f, c.source)
            \/ c.op = "GetUpvalue" /\ HasUpvalue(f, c.upvalue)

ValidVarArg(f, i) ==
  /\ InStack(f, i.start)
  /\ HasBit(f.vararg, IsVararg)
  /\ i.count > 0 => HasWindow(f, i.start, i.count - 1)

ValidInstruction(f, pc) ==
  LET i == At(f, pc) IN
  CASE i.op = "SetList" -> ValidSetList(f, i)
    [] i.op = "Closure" -> ValidClosure(f, pc, i)
    [] i.op = "VarArg" -> ValidVarArg(f, i)
    [] i.op = "Close" -> InStack(f, i.start)
    [] i.op = "ExtraWord" -> TRUE
    [] i.op \in Arithmetic \cup UnaryCodes \cup {"Concatenate"} -> ValidOperator(f, i)
    [] i.op \in Comparisons \cup {"Jump", "Test", "TestSet", "Call", "TailCall", "Return",
                                  "IterateNumericForLoop", "InitNumericForLoop", "IterateGenericForLoop"} ->
         ValidControl(f, pc, i)
    [] OTHER -> ValidData(f, pc, i)

SkipsOne == Comparisons \cup {"Test", "TestSet", "IterateGenericForLoop"}

StartsAfter(f, pc) ==
  LET i == At(f, pc) IN
  CASE i.op \in SkipsOne \/ (i.op = "LoadBoolean" /\ i.skip_next) -> {pc + 1, pc + 2}
    [] i.op \in {"Jump", "IterateNumericForLoop", "InitNumericForLoop"} ->
         {JumpTarget(pc, i.skip), pc + 1}
    [] i.op = "Return" -> {pc + 1}
    [] OTHER -> {}

ControlFlowBlockStarts(f) == {0} \cup UNION {StartsAfter(f, pc) : pc \in Pcs(f)}

(* A slip: only the word behind a SETLIST is taken for data.                  *)
ExtraWords(f) == {pc \in Pcs(f) : At(f, pc).op = "ExtraWord"}

Auxiliary(f) ==
  {pc \in Pcs(f) : At(f, pc).op = "ExtraWord"} \cup
  UNION {(pc + 1)..(pc + f.closures[At(f, pc).function + 1].upvalues) :
           pc \in {p \in Pcs(f) : At(f, p).op = "Closure"}}

ValidTargets(f) == ControlFlowBlockStarts(f) \cap Auxiliary(f) = {}

BlockEnd(f, start) ==
  LET later == {s \in ControlFlowBlockStarts(f) : s > start} IN
  IF later = {} THEN CodeSize(f) ELSE CHOOSE e \in later : \A s \in later : e <= s

TakesOpen(i) ==
  \/ i.op \in {"Call", "TailCall"} /\ i.arguments = 0
  \/ i.op = "Return" /\ i.count = 0
  \/ i.op = "SetList" /\ i.number_of_elements = 0

LeavesOpen(i) ==
  \/ i.op = "Call" /\ i.return_values = 0
  \/ i.op = "VarArg" /\ i.count = 0

(* The walk over a block knows whether the instruction before left an open    *)
(* number of results. It ends at a tail call.                                 *)
RECURSIVE OpenResultsFrom(_, _, _, _)
OpenResultsFrom(f, pc, end, open) ==
  IF pc >= end THEN ~open
  ELSE LET i == At(f, pc) IN
       /\ open = TakesOpen(i)
       /\ i.op = "TailCall" \/ OpenResultsFrom(f, pc + 1, end, LeavesOpen(i))

ValidOpenResults(f) ==
  \A start \in ControlFlowBlockStarts(f) :
    start < CodeSize(f) => OpenResultsFrom(f, start, BlockEnd(f, start), FALSE)

(* The locals of the debug section are ordered by their start; the register   *)
(* of one is the number of those that are active when it starts.              *)
RECURSIVE ActiveEnds(_, _)
ActiveEnds(locals, n) ==
  IF n = 0 THEN <<>>
  ELSE LET l == locals[n]
           active == SelectSeq(ActiveEnds(locals, n - 1), LAMBDA e : e > l[1]) IN
       IF l[1] < l[2] THEN Append(active, l[2]) ELSE active

ActiveBefore(locals, n) ==
  Len(SelectSeq(ActiveEnds(locals, n - 1), LAMBDA e : e > locals[n][1]))

ValidLocals(f) ==
  \A n \in DOMAIN f.locals :
    LET l == f.locals[n] IN
    /\ l[1] <= l[2] /\ l[2] <= CodeSize(f)
    /\ n > 1 => f.locals[n - 1][1] <= l[1]
    /\ l[1] < l[2] => ActiveBefore(f.locals, n) < f.stack

ValidHeader(f) ==
  /\ CodeSize(f) > 0
  /\ f.parameters <= f.stack
  /\ f.vararg < 8
  /\ HasBit(f.vararg, HasArg) => HasBit(f.vararg, IsVararg) /\ f.parameters < f.stack
  /\ HasBit(f.vararg, NeedsArg) => HasBit(f.vararg, HasArg)
  /\ "infinite" \notin ToSet(f.constants)

ValidFunction(f) ==
  /\ ValidHeader(f)
  /\ ValidLocals(f)
  /\ \A pc \in Pcs(f) : ValidInstruction(f, pc)
  /\ ValidTargets(f)
  /\ ValidOpenResults(f)

(* The functions of a tree, with their depths, parents first. *)
RECURSIVE Tree(_, _)
Tree(f, depth) ==
  <<[function |-> f, depth |-> depth]>> \o
  FlattenSeq([c \in DOMAIN f.closures |-> Tree(f.closures[c], depth + 1)])

WorkOf(nodes) == FoldSeq(LAMBDA n, sum : sum + CodeSize(n.function), 0, nodes)

FunctionTree(root, budget) ==
  LET nodes == Tree(root, 1) IN
  /\ \A n \in ToSet(nodes) : n.depth <= MaxDepth /\ ValidFunction(n.function)
  /\ WorkOf(nodes) <= budget

(* A slip: one instance for every prototype. *)
ChildrenOnce(f) == f.closures

(* The same for the instances: one for every closure instruction. *)
ChildrenOf(f) ==
  LET at == SelectSeq(f.code, LAMBDA i : i.op = "Closure") IN
  [c \in DOMAIN at |-> f.closures[at[c].function + 1]]

RECURSIVE Expanded(_, _)
Expanded(f, depth) ==
  <<[function |-> f, depth |-> depth]>> \o
  FlattenSeq([c \in DOMAIN ChildrenOf(f) |-> Expanded(ChildrenOf(f)[c], depth + 1)])

ExpansionPlan(root) == [instances |-> Len(Expanded(root, 1)), instructions |-> WorkOf(Expanded(root, 1))]

ExpansionFits(root, budget) ==
  /\ \A n \in ToSet(Expanded(root, 1)) : n.depth <= MaxDepth
  /\ ExpansionPlan(root).instructions <= budget

Accepted(root, budget) == FunctionTree(root, budget) /\ ExpansionFits(root, budget)
=============================================================================
