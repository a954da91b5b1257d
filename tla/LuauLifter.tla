----------------------------- MODULE LuauLifter -----------------------------
(* A Luau prototype on its way from words to a control flow graph: parsed,    *)
(* cut into blocks, and lifted block by block, the last one first             *)
(* (src/luau-lifter/src/lifter.rs). Blocks are nodes <<"at", pc>> of the      *)
(* graph, <<"entry">> leads to the first. An instruction the lifter has no    *)
(* meaning for is an error, and the chunk is not decompiled.                  *)
EXTENDS LuauCode, TLC

CONSTANTS
  Prototypes,   \* prototypes, with words in place of instructions
  Oracles       \* sequences of bits, the conditions of an execution

VARIABLES
  words,        \* the prototype, as read from the input
  stage,        \* what is done next
  function,     \* the prototype, deserialized
  ranges,       \* blocks that are not lifted, <<first, last excluded>>
  pc,           \* the next instruction of the block that is being lifted
  top,          \* open results: <<value, register>>, or <<>>
  block,        \* statements of this block
  origins,      \* instructions that each of them came from
  edges,        \* its successors, as far as they are known
  blocks        \* the graph: statements and edges of every node

vars == <<words, stage, function, ranges, pc, top, block, origins, edges, blocks>>

Node(n) == <<"at", n>>
Register(r) == <<"local", r>>
Registers(first, count) == [i \in 1..count |-> Register(first + i - 1)]
Upvalue(u) == <<"upvalue", u>>
Set(left, right) == [op |-> "Assign", left |-> <<left>>, right |-> <<right>>]
SetAll(left, right) == [op |-> "Assign", left |-> left, right |-> <<right>>]
If(condition) == [op |-> "If", condition |-> condition]
Equals(a, b) == <<"binary", "EQUAL", a, b>>

Count == Len(function.code)
At(p) == InstructionAt(function.code, p)
JumpOffset(i) == IF i.op = "JUMPX" THEN i.e ELSE i.d
Target(p, i) == p + 1 + JumpOffset(i)

(* Constants that are literals, and those that are names. *)
HasConstant(k) == k + 1 \in DOMAIN function.constants
Kind(k) == function.constants[k + 1][1]
HasLiteral(k) == HasConstant(k) /\ Kind(k) \in {"nil", "boolean", "number", "string", "vector"}
HasString(k) == HasConstant(k) /\ Kind(k) = "string"
Literal(k) == IF Kind(k) = "nil" THEN <<"nil">> ELSE <<"constant", k>>
Number(n) == <<"number", n>>

----------------------------------------------------------------------------
(* The boundaries of blocks that an instruction makes. *)
BoundariesOf(p, i) ==
  CASE i.op = "LOADB" -> IF i.c # 0 THEN {p + 1 + i.c} ELSE {}
    [] i.op \in Unconditional \cup Falsy \cup GenericPrepare \cup {"CMPPROTO", "FORNPREP", "FORGLOOP"} ->
         {p + 1, Target(p, i)}
    [] i.op \in Compared \cup ComparedToConstant -> {p + 2, Target(p, i)}
    [] i.op = "FORNLOOP" -> {p, p + 1, Target(p, i)}
    [] OTHER -> {}

Boundaries == {0} \cup UNION {BoundariesOf(p, At(p)) : p \in 0..(Count - 1)}

(* A slip: in the order of the code, so that no block behind this one is      *)
(* lifted yet.                                                                *)
RangesForward ==
  LET later(s) == {n \in Boundaries : n > s}
      first(set) == CHOOSE n \in set : \A k \in set : n <= k
      range(s) == <<s, IF later(s) = {} THEN Count ELSE first(later(s))>>
  IN SortSeq(SetToSeq({range(s) : s \in Boundaries}), LAMBDA a, b : a[1] < b[1])

(* Half-open ranges of instructions between them, the last one first. *)
BlockRanges ==
  LET later(s) == {n \in Boundaries : n > s}
      first(set) == CHOOSE n \in set : \A k \in set : n <= k
      range(s) == <<s, IF later(s) = {} THEN Count ELSE first(later(s))>>
  IN SortSeq(SetToSeq({range(s) : s \in Boundaries}), LAMBDA a, b : a[1] > b[1])

----------------------------------------------------------------------------
(* What an instruction with count b takes: registers, and the open results    *)
(* that an instruction before it left.                                        *)
TakenValues(first, count, b) ==
  IF b # 0 THEN Registers(first, count) ELSE Append(Registers(first, top[2] - first), top[1])

LiftLoad(i) ==
  CASE i.op = "MOVE" -> <<Set(Register(i.a), Register(i.b))>>
    [] i.op = "GETUPVAL" -> <<Set(Register(i.a), Upvalue(i.b))>>
    [] i.op = "SETUPVAL" -> <<Set(Upvalue(i.b), Register(i.a))>>
    [] i.op = "LOADNIL" -> <<Set(Register(i.a), <<"nil">>)>>
    [] i.op = "LOADB" -> <<Set(Register(i.a), <<"boolean", i.b # 0>>)>>
    [] i.op = "NEWTABLE" -> <<Set(Register(i.a), <<"table", <<>>>>)>>
    [] i.op = "GETGLOBAL" -> <<Set(Register(i.a), <<"global", i.aux>>)>>
    [] i.op = "SETGLOBAL" -> <<Set(<<"global", i.aux>>, Register(i.a))>>

Key(i) ==
  CASE i.op \in {"GETTABLE", "SETTABLE"} -> Register(i.c)
    [] i.op \in {"GETTABLEN", "SETTABLEN"} -> Number(i.c + 1)
    [] OTHER -> Literal(i.aux)

Gets == {"GETTABLE", "GETTABLEN", "GETTABLEKS", "GETUDATAKS"}
Sets == {"SETTABLE", "SETTABLEN", "SETTABLEKS", "SETUDATAKS"}

LiftIndex(i) ==
  IF i.op \in Gets THEN <<Set(Register(i.a), <<"index", Register(i.b), Key(i)>>)>>
  ELSE <<Set(<<"index", Register(i.b), Key(i)>>, Register(i.a))>>

BinaryOf ==
  [ADDK |-> "ADD", SUBK |-> "SUB", MULK |-> "MUL", DIVK |-> "DIV", MODK |-> "MOD", POWK |-> "POW",
   IDIVK |-> "IDIV", ANDK |-> "AND", ORK |-> "OR", SUBRK |-> "SUB", DIVRK |-> "DIV"]

(* A slip: both kinds have their constant on the right.                       *)
OperatorToTheRight(i) ==
  <<Set(Register(i.a),
      CASE i.op \in Binary -> <<"binary", i.op, Register(i.b), Register(i.c)>>
        [] i.op \in BinaryConstant -> <<"binary", BinaryOf[i.op], Register(i.b), Literal(i.c)>>
        [] i.op \in ReversedConstant -> <<"binary", BinaryOf[i.op], Register(i.c), Literal(i.b)>>
        [] i.op \in Unary -> <<"unary", i.op, Register(i.b)>>)>>

LiftOperator(i) ==
  <<Set(Register(i.a),
      CASE i.op \in Binary -> <<"binary", i.op, Register(i.b), Register(i.c)>>
        [] i.op \in BinaryConstant -> <<"binary", BinaryOf[i.op], Register(i.b), Literal(i.c)>>
        [] i.op \in ReversedConstant -> <<"binary", BinaryOf[i.op], Literal(i.b), Register(i.c)>>
        [] i.op \in Unary -> <<"unary", i.op, Register(i.b)>>)>>

(* The operands of a concatenation associate to the right. *)
LiftConcat(i) ==
  LET chain[r \in i.b..i.c] ==
        IF r = i.c THEN Register(r) ELSE <<"binary", "Concat", Register(r), chain[r + 1]>>
  IN <<Set(Register(i.a), chain[i.b])>>

LiftReturn(i) == <<[op |-> "Return", values |-> TakenValues(i.a, i.b - 1, i.b)]>>

(* A call or method call with result count c: a statement, an assignment, or  *)
(* results that stay open.                                                    *)
CallStatements(call, base, c) ==
  CASE c = 0 -> <<>>
    [] c = 1 -> <<[op |-> "Call", values |-> <<call>>]>>
    [] OTHER -> <<SetAll(Registers(base, c - 1), <<"select", c - 1, call>>)>>

CallOf(i) == <<"call", Register(i.a), TakenValues(i.a + 1, i.b - 1, i.b)>>

LiftCall(i) == CallStatements(CallOf(i), i.a, i.c)

(* A method call is three words: NAMECALL, its placeholder and the call.      *)
MethodOf(i) ==
  LET call == At(pc + 2) IN
  <<"method", Register(i.b), <<"constant", i.aux>>, TakenValues(i.a + 2, call.b - 2, call.b)>>

LiftMethod(i) == CallStatements(MethodOf(i), i.a, At(pc + 2).c)

LiftSetList(i) ==
  <<[op |-> "SetList", index |-> i.aux, values |-> <<Register(i.a)>> \o TakenValues(i.b, i.c - 1, i.c)]>>

LiftVarArg(i) ==
  IF i.b > 1 THEN <<SetAll(Registers(i.a, i.b - 1), <<"select", i.b - 1, <<"varargs">>>>)>> ELSE <<>>

LiftClose(i) == <<[op |-> "Close", values |-> Registers(i.a, function.stack - i.a)]>>

LiftConstant(i) ==
  CASE i.op = "LOADK" -> <<Set(Register(i.a), Literal(i.d))>>
    [] i.op = "LOADKX" /\ Kind(i.aux) = "class" ->
         <<[op |-> "Class", target |-> Register(i.a), shape |-> i.aux, methods |-> <<>>]>>
    [] i.op = "LOADKX" /\ Kind(i.aux) # "class" -> <<Set(Register(i.a), Literal(i.aux))>>
    [] i.op = "LOADN" -> <<Set(Register(i.a), Number(i.d))>>

LiftImport(i) == <<Set(Register(i.a), <<"import", SubSeq(i.aux.path, 1, i.aux.length)>>)>>

LiftTemplate(i) ==
  LET entries == function.constants[i.d + 1][2] IN
  <<Set(Register(i.a),
        <<"table", [e \in DOMAIN entries |->
             <<Literal(entries[e][1]), IF entries[e][2] = -1 THEN <<"nil">> ELSE Literal(entries[e][2])>>]>>)>>

ChildIndex(i) == IF i.op = "NEWCLOSURE" THEN i.d ELSE function.constants[i.d + 1][2]

CaptureCount(i) == function.children[ChildIndex(i) + 1]

LiftClosure(i) ==
  <<Set(Register(i.a),
        <<"closure", ChildIndex(i),
          [n \in 1..CaptureCount(i) |->
             LET c == At(pc + n) IN
             CASE c.a = 0 -> <<"copy", c.b>> [] c.a = 1 -> Register(c.b) [] c.a = 2 -> Upvalue(c.b)]>>)>>

LiftCondition(i) ==
  CASE i.op \in Falsy -> <<If(Register(i.a))>>
    [] i.op \in {"JUMPIFEQ", "JUMPIFNOTEQ"} -> <<If(Equals(Register(i.a), Register(i.aux)))>>
    [] i.op \in {"JUMPIFLE", "JUMPIFNOTLE"} -> <<If(<<"binary", "LESSEQUAL", Register(i.a), Register(i.aux)>>)>>
    [] i.op \in {"JUMPIFLT", "JUMPIFNOTLT"} -> <<If(<<"binary", "LESS", Register(i.a), Register(i.aux)>>)>>

LiftConstantCondition(i) ==
  CASE i.op = "JUMPXEQKNIL" -> <<If(Equals(Register(i.a), <<"nil">>))>>
    [] i.op = "JUMPXEQKB" -> <<If(Equals(Register(i.a), <<"boolean", i.aux.value = 1>>))>>
    [] i.op \in {"JUMPXEQKN", "JUMPXEQKS"} -> <<If(Equals(Register(i.a), Literal(i.aux.value)))>>

(* Limit, step and counter of a numeric loop; a generic one has its           *)
(* generator, state and control in their place.                               *)
LoopValues(i) == <<Register(i.a + 2), Register(i.a), Register(i.a + 1)>>

LiftNumericLoop(i) ==
  <<[op |-> IF i.op = "FORNPREP" THEN "NumForInit" ELSE "NumForNext", values |-> LoopValues(i)]>>

LiftGenericLoop(i) ==
  IF i.op = "FORGLOOP"
  THEN <<[op |-> "GenericForNext", vars |-> Registers(i.a + 3, i.aux), values |-> Registers(i.a, 3)]>>
  ELSE <<[op |-> "GenericForInit", values |-> Registers(i.a, 3)]>>

Lifted(i) ==
  CASE i.op \in {"MOVE", "GETUPVAL", "SETUPVAL", "LOADNIL", "LOADB", "NEWTABLE", "GETGLOBAL", "SETGLOBAL"} ->
         LiftLoad(i)
    [] i.op \in Gets \cup Sets -> LiftIndex(i)
    [] i.op \in Binary \cup BinaryConstant \cup ReversedConstant \cup Unary -> LiftOperator(i)
    [] i.op = "CONCAT" -> LiftConcat(i)
    [] i.op = "RETURN" -> LiftReturn(i)
    [] i.op \in Calls -> LiftCall(i)
    [] i.op \in {"NAMECALL", "NAMECALLUDATA"} -> LiftMethod(i)
    [] i.op = "SETLIST" -> LiftSetList(i)
    [] i.op = "GETVARARGS" -> LiftVarArg(i)
    [] i.op = "CLOSEUPVALS" -> LiftClose(i)
    [] i.op \in {"LOADK", "LOADKX", "LOADN"} -> LiftConstant(i)
    [] i.op = "GETIMPORT" -> LiftImport(i)
    [] i.op = "DUPTABLE" -> LiftTemplate(i)
    [] i.op \in {"NEWCLOSURE", "DUPCLOSURE"} -> LiftClosure(i)
    [] i.op \in Falsy \cup Compared -> LiftCondition(i)
    [] i.op \in ComparedToConstant -> LiftConstantCondition(i)
    [] i.op \in {"FORNPREP", "FORNLOOP"} -> LiftNumericLoop(i)
    [] i.op \in GenericPrepare \cup {"FORGLOOP"} -> LiftGenericLoop(i)
    [] OTHER -> <<>>

LeftOpen(i) ==
  CASE i.op \in Calls /\ i.c = 0 -> <<CallOf(i), i.a>>
    [] i.op \in {"NAMECALL", "NAMECALLUDATA"} /\ At(pc + 2).c = 0 -> <<MethodOf(i), i.a>>
    [] i.op = "GETVARARGS" /\ i.b = 0 -> <<<<"varargs">>, i.a>>
    [] i.op \in Calls \cup {"RETURN"} /\ i.b = 0 -> <<>>
    [] i.op \in {"NAMECALL", "NAMECALLUDATA"} /\ At(pc + 2).b = 0 -> <<>>
    [] i.op = "SETLIST" /\ i.c = 0 -> <<>>
    [] OTHER -> top

----------------------------------------------------------------------------
(* Which instructions are lifted: operands must exist and be of the kind that *)
(* the instruction reads.                                                     *)
End == ranges[1][2]

ConstantsOf(i) ==
  CASE i.op \in {"GETTABLEKS", "SETTABLEKS", "GETUDATAKS", "SETUDATAKS"} -> {i.aux}
    [] i.op \in BinaryConstant -> {i.c}
    [] i.op \in ReversedConstant -> {i.b}
    [] i.op = "LOADK" -> {i.d}
    [] i.op = "LOADKX" /\ HasConstant(i.aux) /\ Kind(i.aux) # "class" -> {i.aux}
    [] i.op \in {"JUMPXEQKN", "JUMPXEQKS"} -> {i.aux.value}
    [] i.op = "GETIMPORT" -> {i.aux.path[n] : n \in 1..i.aux.length}
    [] OTHER -> {}

NamesOf(i) ==
  CASE i.op \in {"GETGLOBAL", "SETGLOBAL", "NAMECALL", "NAMECALLUDATA", "NEWCLASSMEMBER"} -> {i.aux}
    [] i.op = "GETIMPORT" -> {i.aux.path[1]}
    [] OTHER -> {}

TakesOpen(i) ==
  \/ i.op \in Calls \cup {"RETURN"} /\ i.b = 0
  \/ i.op = "SETLIST" /\ i.c = 0
  \/ i.op \in {"NAMECALL", "NAMECALLUDATA"} /\ At(pc + 2).b = 0

MethodCallFollows(i) ==
  /\ pc + 2 < End
  /\ At(pc + 1).op = "NOP"
  /\ At(pc + 2).op \in Calls
  /\ At(pc + 2).a = i.a

TemplateLegal(i) ==
  /\ HasConstant(i.d)
  /\ Kind(i.d) = "table"
  /\ \A e \in ToSet(function.constants[i.d + 1][2]) : HasLiteral(e[1]) /\ (e[2] # -1 => HasLiteral(e[2]))

CapturesLegal(i) ==
  \A n \in 1..CaptureCount(i) :
    /\ pc + n < End
    /\ At(pc + n).op = "CAPTURE"
    /\ At(pc + n).a \in 0..2
    /\ At(pc + n).a = 2 => At(pc + n).b < function.upvalues

ClosureLegal(i) ==
  /\ i.op = "DUPCLOSURE" => HasConstant(i.d) /\ Kind(i.d) = "closure"
  /\ ChildIndex(i) + 1 \in DOMAIN function.children
  /\ CapturesLegal(i)

(* Blocks behind this one are lifted: the test of the loop is among them.     *)
LoopTests ==
  {x \in (DOMAIN blocks) \X {1, 2} :
     LET node == blocks[x[1]] IN
     /\ x[2] \in DOMAIN node.edges
     /\ node.edges[x[2]].to = Node(pc + 1)
     /\ node.statements # <<>>
     /\ Last(node.statements).op = "NumForNext"}

Unsupported == {"CAPTURE", "COVERAGE", "BREAK", "NATIVECALL"}

Legal(i) ==
  /\ i.op \notin Unsupported
  /\ \A k \in ConstantsOf(i) : HasLiteral(k)
  /\ \A k \in NamesOf(i) : HasString(k)
  /\ i.op \in {"GETUPVAL", "SETUPVAL"} => i.b < function.upvalues
  /\ i.op = "LOADKX" => HasConstant(i.aux)
  /\ i.op \in {"NAMECALL", "NAMECALLUDATA"} => MethodCallFollows(i)
  /\ TakesOpen(i) => top # <<>>
  /\ i.op = "CONCAT" => i.b < i.c
  /\ i.op = "FORNPREP" => Cardinality(LoopTests) = 1
  /\ i.op \in GenericPrepare => Target(pc, i) < Count /\ At(Target(pc, i)).op = "FORGLOOP"
  /\ i.op = "DUPTABLE" => TemplateLegal(i)
  /\ i.op \in {"NEWCLOSURE", "DUPCLOSURE"} => ClosureLegal(i)

----------------------------------------------------------------------------
(* Where an instruction leads. *)
To(n, branch) == [to |-> Node(n), branch |-> branch]
Negated(i) ==
  \/ i.op \in {"JUMPIFNOT", "JUMPIFNOTEQ", "JUMPIFNOTLE", "JUMPIFNOTLT"}
  \/ i.op \in ComparedToConstant /\ i.aux.not

EdgesOf(i) ==
  CASE i.op = "LOADB" /\ i.c # 0 -> <<To(pc + 2, "")>>
    [] i.op \in Falsy \cup Compared \cup ComparedToConstant ->
         LET next == pc + WordLen(i.op) IN
         IF Negated(i) THEN <<To(next, "then"), To(Target(pc, i), "else")>>
         ELSE <<To(Target(pc, i), "then"), To(next, "else")>>
    [] i.op \in Unconditional \cup GenericPrepare \cup {"CMPPROTO"} -> <<To(Target(pc, i), "")>>
    [] i.op = "FORNPREP" -> <<[to |-> (CHOOSE x \in LoopTests : TRUE)[1], branch |-> ""]>>
    [] i.op \in {"FORNLOOP", "FORGLOOP"} -> <<To(Target(pc, i), "then"), To(pc + 1, "else")>>
    [] OTHER -> <<>>

EdgesResolve(i) == \A e \in ToSet(EdgesOf(i)) : e.to[2] \in Boundaries

Consumed(i) ==
  CASE i.op \in {"NAMECALL", "NAMECALLUDATA"} -> 3
    [] i.op \in {"NEWCLOSURE", "DUPCLOSURE"} -> 1 + CaptureCount(i)
    [] OTHER -> 1

IsTerminator(i) ==
  \/ i.op \in Unconditional \cup Falsy \cup Compared \cup ComparedToConstant \cup GenericPrepare
  \/ i.op \in {"RETURN", "CMPPROTO", "FORNPREP", "FORNLOOP", "FORGLOOP"}
  \/ i.op = "LOADB" /\ i.c # 0

----------------------------------------------------------------------------
(* Statements of the block after an instruction, and their origins.           *)
Emitted(i) ==
  {pc} \cup (IF i.op \in {"NAMECALL", "NAMECALLUDATA"} THEN {pc + 2} ELSE (pc + 1)..(pc + Consumed(i) - 1))

Appended(statements, of, more, emitted) ==
  [statements |-> statements \o more, origins |-> of \o [n \in DOMAIN more |-> emitted]]

(* A member of a class: the closure it was assigned from goes with it, and it *)
(* is a method of the statement that made the class, if that is in the block. *)
InlineMethod(i) ==
  LET last == block[Len(block)] IN
  /\ block # <<>>
  /\ last.op = "Assign"
  /\ last.left = <<Register(i.c)>>
  /\ last.right[1][1] = "closure"

(* A slip: the origin of the closure stays behind.                            *)
MemberWithoutOrigin(i) ==
  LET inline == InlineMethod(i)
      kept == IF inline THEN Front(block) ELSE block
      method == IF inline THEN block[Len(block)].right[1] ELSE Register(i.c)
      classes == {n \in DOMAIN kept : kept[n].op = "Class" /\ kept[n].target = Register(i.a)}
      last == CHOOSE n \in classes : \A k \in classes : k <= n IN
  IF classes # {}
  THEN [statements |-> [kept EXCEPT ![last].methods = Append(@, <<Literal(i.aux), method>>)],
        origins |-> [origins EXCEPT ![last] = @ \cup {pc}]]
  ELSE Appended(kept, origins, <<Set(<<"index", Register(i.a), Literal(i.aux)>>, method)>>, {pc})

LiftMember(i) ==
  LET inline == InlineMethod(i)
      kept == IF inline THEN Front(block) ELSE block
      of == IF inline THEN Front(origins) ELSE origins
      emitted == {pc} \cup (IF inline THEN origins[Len(origins)] ELSE {})
      method == IF inline THEN block[Len(block)].right[1] ELSE Register(i.c)
      classes == {n \in DOMAIN kept : kept[n].op = "Class" /\ kept[n].target = Register(i.a)}
      last == CHOOSE n \in classes : \A k \in classes : k <= n IN
  IF classes # {}
  THEN [statements |-> [kept EXCEPT ![last].methods = Append(@, <<Literal(i.aux), method>>)],
        origins |-> [of EXCEPT ![last] = @ \cup emitted]]
  ELSE Appended(kept, of, <<Set(<<"index", Register(i.a), Literal(i.aux)>>, method)>>, emitted)

After(i) == IF i.op = "NEWCLASSMEMBER" THEN LiftMember(i) ELSE Appended(block, origins, Lifted(i), Emitted(i))

----------------------------------------------------------------------------
Init ==
  /\ words \in Prototypes
  /\ stage = "read"
  /\ function = words
  /\ ranges = <<>> /\ pc = 0 /\ top = <<>> /\ block = <<>> /\ origins = <<>> /\ edges = <<>>
  /\ blocks = <<>>

Deserialize ==
  /\ stage = "read"
  /\ IF InstructionsParse(words.code, words.version)
     THEN /\ function' = [words EXCEPT !.code = ParseInstructions(@)]
          /\ stage' = "discover"
     ELSE /\ stage' = "refused"
          /\ UNCHANGED function
  /\ UNCHANGED <<words, ranges, pc, top, block, origins, edges, blocks>>

DiscoverBlocks ==
  /\ stage = "discover"
  /\ IF Boundaries \subseteq 0..Count /\ Count # 0
     THEN /\ ranges' = BlockRanges
          /\ stage' = "next"
     ELSE /\ stage' = "refused"
          /\ UNCHANGED ranges
  /\ UNCHANGED <<words, function, pc, top, block, origins, edges, blocks>>

BeginBlock ==
  /\ stage = "next" /\ ranges # <<>>
  /\ pc' = ranges[1][1]
  /\ top' = <<>> /\ block' = <<>> /\ origins' = <<>> /\ edges' = <<>>
  /\ stage' = "block"
  /\ UNCHANGED <<words, function, ranges, blocks>>

Refuse ==
  /\ stage' = "refused"
  /\ UNCHANGED <<words, function, ranges, pc, top, block, origins, edges, blocks>>

LiftInstruction ==
  /\ stage = "block" /\ pc < End
  /\ LET i == At(pc) IN
     IF Legal(i) /\ EdgesResolve(i)
     THEN /\ block' = After(i).statements
          /\ origins' = After(i).origins
          /\ edges' = edges \o EdgesOf(i)
          /\ top' = LeftOpen(i)
          /\ pc' = pc + Consumed(i)
          /\ stage' = IF i.op = "RETURN" THEN "end" ELSE "block"
          /\ UNCHANGED <<words, function, ranges, blocks>>
     ELSE Refuse

(* A block without an edge goes on behind its last instruction.               *)
FallsThrough == edges = <<>> /\ ~IsTerminator(At(pc - 1))
NeverReturns == FallsThrough /\ pc = Count

(* The graph with one more node. *)
With(node, statements, of, leading) ==
  [n \in DOMAIN blocks \cup {node} |->
     IF n = node THEN [statements |-> statements, origins |-> of, edges |-> leading] ELSE blocks[n]]

BlockEnds == stage = "end" \/ (stage = "block" /\ pc >= End)

EndBlock ==
  /\ BlockEnds /\ ~NeverReturns
  /\ IF FallsThrough /\ pc \notin Boundaries THEN Refuse
     ELSE /\ blocks' = With(Node(ranges[1][1]), block, origins,
                              IF FallsThrough THEN <<To(pc, "")>> ELSE edges)
          /\ ranges' = Tail(ranges)
          /\ stage' = "next"
          /\ UNCHANGED <<words, function, pc, top, block, origins, edges>>

(* A comment stands for the return that is missing. It has no origin, so that *)
(* the assertion behind it fails, and a panic is an error like any other.     *)
EndOpenBlock ==
  /\ BlockEnds /\ NeverReturns
  /\ block' = Append(block, [op |-> "Comment"])
  /\ stage' = "refused"
  /\ UNCHANGED <<words, function, ranges, pc, top, origins, edges, blocks>>

Enter ==
  /\ stage = "next" /\ ranges = <<>>
  /\ blocks' = With(<<"entry", 0>>, <<>>, <<>>, <<To(0, "")>>)
  /\ stage' = "lifted"
  /\ UNCHANGED <<words, function, ranges, pc, top, block, origins, edges>>

Next == Deserialize \/ DiscoverBlocks \/ BeginBlock \/ LiftInstruction \/ EndBlock \/ EndOpenBlock \/ Enter

Spec == Init /\ [][Next]_vars

----------------------------------------------------------------------------
(* Every statement has the instructions it came from, while a block is lifted *)
(* and in the graph: they are kept in two lists, from which instructions take *)
(* and to which they add in different places. (lifter.rs:820, 1786-1792)      *)
OriginsMatch ==
  /\ stage \in {"block", "end"} => Len(origins) = Len(block)
  /\ \A n \in DOMAIN blocks : Len(blocks[n].origins) = Len(blocks[n].statements)

(* The same at the end of every block, as the code asserts. (lifter.rs:1816)  *)
EndedBlocksMatch == Len(origins) = Len(block)
=============================================================================
