---------------------------- MODULE Lua51Lifter ----------------------------
(* A chunk of Lua 5.1 on its way from words to a control flow graph:          *)
(* deserialized, validated, and lifted block by block                         *)
(* (src/lua51-lifter/src/lifter.rs). Blocks are nodes <<"at", pc>> of the     *)
(* graph, <<"entry">> sets registers to nil and <<"between", n>> holds what   *)
(* is assigned on the way out of n. The lifter takes many things for granted  *)
(* that the checks before it are to ensure: `failed' tells that one was not   *)
(* so, where the program panics.                                              *)
EXTENDS Lua51Validate, Lua51Machine

CONSTANTS
  Chunks,       \* function trees, with words in place of instructions
  Oracles,      \* sequences of bits, the conditions of an execution
  Budget        \* the bytes of a chunk

VARIABLES
  words,        \* the chunk, as read from the input
  stage,        \* what is done next
  function,     \* the root, deserialized
  starts,       \* blocks that are not lifted
  pc,           \* the next instruction of the block that is being lifted
  top,          \* open results: <<value, register>>, or <<>>
  block,        \* statements of this block
  blocks,       \* the graph: statements and successors of every node
  between,      \* insert_between
  instances,    \* next_function_id
  failed

vars == <<words, stage, function, starts, pc, top, block, blocks, between, instances, failed>>

At0(n) == <<"at", n>>
Local(r) == <<"local", r>>
Locals(first, count) == [i \in 1..count |-> Local(first + i - 1)]
Operand(o) == IF o[1] = "r" THEN Local(o[2]) ELSE <<"constant", o[2]>>
Assign(left, right) == [op |-> "Assign", left |-> left, right |-> right]
Set(left, right) == Assign(<<left>>, <<right>>)
If(condition) == [op |-> "If", condition |-> condition]
Inverted(invert, value) == IF invert THEN <<"unary", "Not", value>> ELSE value

(* A register that is no local, a constant that is not there.                 *)
RECURSIVE Defined(_)
Defined(e) ==
  CASE e[1] = "local" -> e[2] < function.stack
    [] e[1] = "upvalue" -> e[2] < function.upvalues
    [] e[1] = "constant" -> e[2] < Len(function.constants)
    [] e[1] = "global" -> HasString(function, e[2])
    [] e[1] \in {"index", "binary"} -> Defined(e[Len(e) - 1]) /\ Defined(e[Len(e)])
    [] e[1] = "unary" -> Defined(e[3])
    [] e[1] = "call" -> Defined(e[2]) /\ \A i \in DOMAIN e[3] : Defined(e[3][i])
    [] e[1] = "select" -> Defined(e[3])
    [] e[1] = "closure" -> \A i \in DOMAIN e[3] : Defined(e[3][i])
    [] OTHER -> TRUE

DefinedStatement(s) ==
  CASE s.op = "Assign" -> \A e \in ToSet(s.left \o s.right) : Defined(e)
    [] s.op = "If" -> Defined(s.condition)
    [] s.op \in {"Call", "Return", "SetList", "Close", "NumForInit", "NumForNext"} ->
         \A e \in ToSet(s.values) : Defined(e)

(* What an instruction with count b takes: registers, and the open results of *)
(* the instruction before it.                                                 *)
TakenValues(first, count, b) ==
  IF b # 0 THEN Locals(first, count) ELSE Append(Locals(first, top[2] - first), top[1])

LiftData(i) ==
  CASE i.op = "Move" -> <<Set(Local(i.destination), Local(i.source))>>
    [] i.op = "LoadConstant" -> <<Set(Local(i.destination), <<"constant", i.source>>)>>
    [] i.op = "LoadBoolean" -> <<Set(Local(i.destination), <<"boolean", i.value>>)>>
    [] i.op = "LoadNil" -> [n \in DOMAIN i.registers |-> Set(Local(i.registers[n]), Nil)]
    [] i.op = "GetGlobal" -> <<Set(Local(i.destination), <<"global", i.global>>)>>
    [] i.op = "SetGlobal" -> <<Set(<<"global", i.destination>>, Local(i.value))>>
    [] i.op = "GetIndex" -> <<Set(Local(i.destination), <<"index", Local(i.object), Operand(i.key)>>)>>

LiftUpvalue(i) ==
  CASE i.op = "GetUpvalue" -> <<Set(Local(i.destination), <<"upvalue", i.upvalue>>)>>
    [] i.op = "SetUpvalue" -> <<Set(<<"upvalue", i.destination>>, Local(i.source))>>

LiftMethod(i) ==
  <<Set(Local(i.self_arg), Local(i.object)),
    Set(Local(i.destination), <<"index", Local(i.object), Operand(i.method)>>)>>

(* The operands of a concatenation associate to the right.                    *)
RECURSIVE Concatenation(_)
Concatenation(operands) ==
  IF Len(operands) = 1 THEN Local(operands[1])
  ELSE <<"binary", "Concat", Local(operands[1]), Concatenation(Tail(operands))>>

LiftUnary(i) == <<Set(Local(i.destination), <<"unary", i.op, Local(i.operand)>>)>>

LiftBinary(i) ==
  <<Set(Local(i.destination), <<"binary", i.op, Operand(i.lhs), Operand(i.rhs)>>)>>

LiftCondition(i) ==
  CASE i.op \in Comparisons -> <<If(Inverted(i.invert, <<"binary", i.op, Operand(i.lhs), Operand(i.rhs)>>))>>
    [] i.op \in {"Test", "TestSet"} -> <<If(Inverted(i.invert, Local(i.value)))>>

CallOf(i) == <<"call", Local(i.function), TakenValues(i.function + 1, i.arguments - 1, i.arguments)>>

LiftReturn(i) == <<[op |-> "Return", values |-> TakenValues(i.start, i.count - 1, i.count)]>>

LiftTailCall(i) == <<[op |-> "Return", values |-> <<CallOf(i)>>]>>

LiftCall(i) ==
  CASE i.return_values = 0 -> <<>>
    [] i.return_values = 1 -> <<[op |-> "Call", values |-> <<CallOf(i)>>]>>
    [] i.return_values > 1 ->
         <<Assign(Locals(i.function, i.return_values - 1), <<<<"select", i.return_values - 1, CallOf(i)>>>>)>>

LiftVarArg(i) ==
  IF i.count > 1
  THEN <<Assign(Locals(i.start, i.count - 1), <<<<"select", i.count - 1, <<"varargs">>>>>>)>>
  ELSE <<>>

LiftTable(i) ==
  CASE i.op = "NewTable" -> <<Set(Local(i.destination), <<"table", <<>>>>)>>
    [] i.op = "SetList" ->
         <<[op |-> "SetList", index |-> (i.block_number - 1) * FieldsPerFlush + 1,
            values |-> <<Local(i.table)>> \o
                       TakenValues(i.table + 1, i.number_of_elements, i.number_of_elements)]>>
    [] i.op = "Close" -> <<[op |-> "Close", values |-> Locals(i.start, function.stack - i.start)]>>
    [] i.op = "SetIndex" -> <<Set(<<"index", Local(i.object), Operand(i.key)>>, Operand(i.value))>>

LiftLoop(i) ==
  CASE i.op = "InitNumericForLoop" ->
         <<[op |-> "NumForInit", values |-> Locals(i.control[1], 3)]>>
    [] i.op = "IterateNumericForLoop" ->
         <<[op |-> "NumForNext", values |-> Locals(i.control[1], 3)]>>
    [] i.op = "IterateGenericForLoop" ->
         <<Assign([n \in DOMAIN i.vars |-> Local(i.vars[n])],
                  <<<<"select", Len(i.vars),
                      <<"call", Local(i.generator), <<Local(i.state), Local(i.internal_control)>>>>>>>>),
           If(<<"binary", "NotEqual", Local(i.vars[1]), Nil>>)>>

CaptureLocals(f, p, i) ==
  [n \in 1..(f.closures[i.function + 1].upvalues) |->
     LET c == At(f, p + n) IN
     IF c.op = "Move" THEN Local(c.source) ELSE <<"upvalue", c.upvalue>>]

LiftClosure(i) == <<Set(Local(i.destination), <<"closure", i.function, CaptureLocals(function, pc, i)>>)>>

Lifted(i) ==
  CASE i.op \in UnaryCodes -> LiftUnary(i)
    [] i.op \in Arithmetic -> LiftBinary(i)
    [] i.op = "Concatenate" -> <<Set(Local(i.destination), Concatenation(i.operands))>>
    [] i.op \in Comparisons \cup {"Test", "TestSet"} -> LiftCondition(i)
    [] i.op = "Return" -> LiftReturn(i)
    [] i.op = "TailCall" -> LiftTailCall(i)
    [] i.op = "Call" -> LiftCall(i)
    [] i.op \in {"GetUpvalue", "SetUpvalue"} -> LiftUpvalue(i)
    [] i.op \in {"InitNumericForLoop", "IterateNumericForLoop", "IterateGenericForLoop"} -> LiftLoop(i)
    [] i.op = "PrepMethodCall" -> LiftMethod(i)
    [] i.op = "VarArg" -> LiftVarArg(i)
    [] i.op \in {"NewTable", "SetList", "Close", "SetIndex"} -> LiftTable(i)
    [] i.op = "Closure" -> LiftClosure(i)
    [] i.op \in {"Jump", "ExtraWord"} -> <<>>
    [] OTHER -> LiftData(i)

LeftOpen(i) ==
  CASE i.op = "Call" /\ i.return_values = 0 -> <<CallOf(i), i.function>>
    [] i.op = "VarArg" /\ i.count = 0 -> <<<<"varargs">>, i.start>>
    [] TakesOpen(i) -> <<>>
    [] OTHER -> top

(* What is assigned on the edge to a successor only: by TESTSET if the test   *)
(* holds, by a loop when another round begins.                                *)
InsertedAfter(i, end) ==
  CASE i.op = "TestSet" ->
         {[to |-> At0(end + 1), statement |-> Set(Local(i.destination), Local(i.value))]}
    [] i.op = "IterateNumericForLoop" ->
         {[to |-> At0(JumpTarget(end, i.skip)), statement |-> Set(Local(i.control[4]), Local(i.control[1]))]}
    [] i.op = "IterateGenericForLoop" ->
         {[to |-> At0(end + 1), statement |-> Set(Local(i.internal_control), Local(i.vars[1]))]}
    [] OTHER -> {}

(* The number of functions that lifting f numbers: those of every closure     *)
(* instruction that the walks over its blocks meet. A walk ends at a return   *)
(* or a tail call.                                                            *)
MetIn(f, start) ==
  LET end == BlockEnd(f, start) - 1
      stops == {p \in start..end : At(f, p).op \in {"Return", "TailCall"}}
      last == IF stops = {} THEN end ELSE CHOOSE p \in stops : \A q \in stops : p <= q IN
  {p \in start..last : At(f, p).op = "Closure"}

RECURSIVE NumberedBy(_)
NumberedBy(f) ==
  1 + FoldSet(LAMBDA p, sum : sum + NumberedBy(f.closures[At(f, p).function + 1]), 0,
              UNION {MetIn(f, s) : s \in {s \in ControlFlowBlockStarts(f) : s < CodeSize(f)}})

RECURSIVE Parsed(_)
Parsed(f) == [f EXCEPT !.code = ParseCode(@), !.closures = [c \in DOMAIN @ |-> Parsed(@[c])]]

RECURSIVE Parses(_)
Parses(f) == CodeParses(f.code) /\ \A c \in DOMAIN f.closures : Parses(f.closures[c])

----------------------------------------------------------------------------

Init ==
  /\ words \in Chunks
  /\ function = words
  /\ stage = "deserialize"
  /\ starts = {} /\ pc = 0 /\ top = <<>> /\ block = <<>>
  /\ blocks = <<>> /\ between = <<>>
  /\ instances = 0
  /\ failed = FALSE

Graph == <<starts, pc, top, block, blocks, between, instances, failed>>

Deserialize ==
  /\ stage = "deserialize"
  /\ IF Parses(words)
     THEN function' = Parsed(words) /\ stage' = "validate"
     ELSE stage' = "refused" /\ UNCHANGED function
  /\ UNCHANGED <<words, Graph>>

Validate ==
  /\ stage = "validate"
  /\ stage' = IF Accepted(function, Budget) THEN "map" ELSE "refused"
  /\ UNCHANGED <<words, function, Graph>>

CreateBlockMap ==
  /\ stage = "map"
  /\ starts' = ControlFlowBlockStarts(function)
  /\ blocks' = [n \in {At0(s) : s \in ControlFlowBlockStarts(function)} |->
                  [statements |-> <<>>, edges |-> <<>>]]
  /\ instances' = NumberedBy(function)
  /\ stage' = "block"
  /\ UNCHANGED <<words, function, pc, top, block, between, failed>>

First(s) == CHOOSE n \in s : \A m \in s : n <= m

(* The block behind the last instruction is empty.                            *)
BeginBlock ==
  /\ stage = "block" /\ starts # {}
  /\ pc' = First(starts)
  /\ IF First(starts) >= CodeSize(function)
     THEN starts' = starts \ {First(starts)} /\ UNCHANGED stage
     ELSE stage' = "lift" /\ UNCHANGED starts
  /\ top' = <<>> /\ block' = <<>>
  /\ UNCHANGED <<words, function, blocks, between, instances, failed>>

End == BlockEnd(function, First(starts)) - 1

Words51(i) == IF i.op = "Closure" THEN 1 + function.closures[i.function + 1].upvalues ELSE 1

(* Open results that no instruction left, or captures that are no longer part *)
(* of the block.                                                              *)
Missing(i) ==
  \/ TakesOpen(i) /\ top = <<>>
  \/ /\ i.op = "Closure"
     /\ \/ pc + Words51(i) > End + 1
        \/ \E n \in 1..(Words51(i) - 1) : At(function, pc + n).op \notin {"Move", "GetUpvalue"}

LiftInstruction ==
  /\ stage = "lift" /\ pc <= End
  /\ LET i == At(function, pc) IN
     IF Missing(i)
     THEN failed' = TRUE /\ stage' = "failed" /\ UNCHANGED <<pc, top, block, between>>
     ELSE LET lifted == Lifted(i) IN
          /\ failed' = ~\A s \in ToSet(lifted) : DefinedStatement(s)
          /\ block' = block \o lifted
          /\ top' = LeftOpen(i)
          /\ between' = IF InsertedAfter(i, End) = {} THEN between
                        ELSE [n \in DOMAIN between \cup {At0(First(starts))} |->
                                IF n = At0(First(starts)) THEN CHOOSE x \in InsertedAfter(i, End) : TRUE
                                ELSE between[n]]
          /\ pc' = IF i.op \in {"Return", "TailCall"} THEN End + 1 ELSE pc + Words51(i)
          /\ stage' = IF failed' THEN "failed" ELSE stage
  /\ UNCHANGED <<words, function, starts, blocks, instances>>

Edge(n, branch) == [to |-> At0(n), branch |-> branch]

EdgesAfter(i, end) ==
  CASE i.op \in SkipsOne -> <<Edge(end + 1, "then"), Edge(end + 2, "else")>>
    [] i.op = "IterateNumericForLoop" ->
         <<Edge(JumpTarget(end, i.skip), "then"), Edge(end + 1, "else")>>
    [] i.op \in {"Jump", "InitNumericForLoop"} -> <<Edge(JumpTarget(end, i.skip), "unconditional")>>
    [] i.op \in {"Return", "TailCall"} -> <<>>
    [] i.op = "LoadBoolean" -> <<Edge(end + (IF i.skip_next THEN 2 ELSE 1), "unconditional")>>
    [] OTHER -> IF end + 1 = CodeSize(function) THEN <<>> ELSE <<Edge(end + 1, "unconditional")>>

EndBlock ==
  /\ stage = "lift" /\ pc > End
  /\ LET edges == EdgesAfter(At(function, End), End)
         node == At0(First(starts)) IN
     /\ failed' = ~\A e \in ToSet(edges) : e.to \in DOMAIN blocks
     /\ blocks' = [blocks EXCEPT ![node] = [statements |-> block, edges |-> edges]]
     /\ stage' = IF failed' THEN "failed" ELSE "block"
  /\ starts' = starts \ {First(starts)}
  /\ UNCHANGED <<words, function, pc, top, block, between, instances>>

Parameters ==
  {r \in 0..(function.stack - 1) :
     r < function.parameters \/ (HasBit(function.vararg, NeedsArg) /\ r = function.parameters)}

EnterStack ==
  /\ stage = "block" /\ starts = {}
  /\ blocks' = [n \in DOMAIN blocks \cup {<<"entry", 0>>} |->
       IF n = <<"entry", 0>>
       THEN [statements |-> [r \in 1..Cardinality(0..(function.stack - 1) \ Parameters) |->
                               Set(Local(SetToSortSeq(0..(function.stack - 1) \ Parameters, <)[r]), Nil)],
             edges |-> <<Edge(0, "unconditional")>>]
       ELSE blocks[n]]
  /\ stage' = "insert"
  /\ UNCHANGED <<words, function, starts, pc, top, block, between, instances, failed>>

EdgesInto(node) ==
  {<<n, e>> \in (DOMAIN blocks) \X (1..2) : e \in DOMAIN blocks[n].edges /\ blocks[n].edges[e].to = node}

(* A slip: the statement always goes to the front of the successor.           *)
InsertInSuccessor(node) ==
  /\ stage = "insert"
  /\ blocks' = [blocks EXCEPT ![between[node].to].statements = <<between[node].statement>> \o @]
  /\ between' = [n \in DOMAIN between \ {node} |-> between[n]]
  /\ UNCHANGED <<words, stage, function, starts, pc, top, block, instances, failed>>

(* The statement goes to the front of a successor with no other predecessor,  *)
(* or to a block of its own on the way there.                                 *)
InsertBetween(node) ==
  /\ stage = "insert"
  /\ LET s == between[node].statement
         to == between[node].to
         own == <<"between", node[2]>> IN
     blocks' = IF Cardinality(EdgesInto(to)) = 1
               THEN [blocks EXCEPT ![to].statements = <<s>> \o @]
               ELSE [n \in DOMAIN blocks \cup {own} |->
                       CASE n = own -> [statements |-> <<s>>, edges |-> <<[to |-> to, branch |-> "unconditional"]>>]
                         [] n = node -> [blocks[n] EXCEPT !.edges = [e \in DOMAIN @ |->
                                           IF @[e].to = to THEN [@[e] EXCEPT !.to = own] ELSE @[e]]]
                         [] OTHER -> blocks[n]]
  /\ between' = [n \in DOMAIN between \ {node} |-> between[n]]
  /\ UNCHANGED <<words, stage, function, starts, pc, top, block, instances, failed>>

Finish ==
  /\ stage = "insert" /\ DOMAIN between = {}
  /\ stage' = "lifted"
  /\ UNCHANGED <<words, function, Graph>>

Next ==
  \/ Deserialize \/ Validate \/ CreateBlockMap \/ BeginBlock \/ LiftInstruction
  \/ EndBlock \/ EnterStack \/ Finish
  \/ \E node \in DOMAIN between : InsertBetween(node)

Spec == Init /\ [][Next]_vars
=============================================================================
