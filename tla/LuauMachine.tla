---------------------------- MODULE LuauMachine ----------------------------
(* What a Luau function does: the virtual machine that executes its words, in *)
(* the terms of SymbolicMachine. It is not code of the repository. A fast     *)
(* call may be executed as the call behind it, a guard of inlined code may    *)
(* fail, and the names of a path the compiler imports are constants.          *)
EXTENDS LuauCode, SymbolicMachine

Begin(f, bits) ==
  BeginWith([r \in 0..(f.stack - 1) |-> IF r < f.parameters THEN <<"parameter", r>> ELSE Nil], f.upvalues, bits)

KindOf(f, k) == f.constants[k + 1][1]
ConstantTerm(f, k) == IF KindOf(f, k) = "nil" THEN Nil ELSE <<"constant", k>>

(* Operations with constants are those with registers. *)
Operation(op) ==
  LET of == [ADDK |-> "ADD", SUBK |-> "SUB", MULK |-> "MUL", DIVK |-> "DIV", MODK |-> "MOD", POWK |-> "POW",
             IDIVK |-> "IDIV", ANDK |-> "AND", ORK |-> "OR", SUBRK |-> "SUB", DIVRK |-> "DIV"] IN
  IF op \in DOMAIN of THEN of[op] ELSE op

ImportPath(aux) == SubSeq(aux.path, 1, aux.length)

(* The fields of a table template that have values. *)
Template(f, k) ==
  LET entries == f.constants[k + 1][2]
      filled == SelectSeq(entries, LAMBDA e : e[2] # -1 /\ ConstantTerm(f, e[2]) # Nil) IN
  [i \in DOMAIN filled |-> <<ConstantTerm(f, filled[i][1]), ConstantTerm(f, filled[i][2])>>]

ExecuteData(f, m, w, aux) ==
  CASE w.op = "MOVE" -> Put(m, w.a, m.reg[w.b])
    [] w.op = "LOADNIL" -> Put(m, w.a, Nil)
    [] w.op = "LOADB" -> Put(m, w.a, <<"boolean", w.b # 0>>)
    [] w.op = "LOADN" -> Put(m, w.a, <<"number", w.d>>)
    [] w.op = "LOADK" -> Put(m, w.a, ConstantTerm(f, w.d))
    [] w.op = "LOADKX" /\ KindOf(f, aux) # "class" -> Put(m, w.a, ConstantTerm(f, aux))
    [] w.op = "LOADKX" /\ KindOf(f, aux) = "class" -> Yield(m, w.a, <<"class", aux>>)
    [] w.op = "GETIMPORT" -> Put(m, w.a, <<"import", ImportPath(aux)>>)
    [] w.op = "GETUPVAL" -> Put(m, w.a, m.up[w.b])
    [] w.op = "SETUPVAL" -> [m EXCEPT !.up[w.b] = m.reg[w.a]]
    [] w.op = "GETGLOBAL" -> Yield(m, w.a, <<"global", aux>>)
    [] w.op = "SETGLOBAL" -> Emit(m, <<"setglobal", aux, m.reg[w.a]>>)
    [] w.op = "CLOSEUPVALS" -> Emit(m, <<"close", {r \in DOMAIN m.reg : r >= w.a}>>)
    [] w.op = "NEWTABLE" -> Yield(m, w.a, <<"table", <<>>>>)
    [] w.op = "DUPTABLE" -> Yield(m, w.a, <<"table", Template(f, w.d)>>)
    [] w.op = "NEWCLASSMEMBER" -> Emit(m, <<"setindex", m.reg[w.a], <<"constant", aux>>, m.reg[w.c]>>)

IndexTerm(f, m, w, aux) ==
  CASE w.op \in {"GETTABLE", "SETTABLE"} -> m.reg[w.c]
    [] w.op \in {"GETTABLEN", "SETTABLEN"} -> <<"number", w.c + 1>>
    [] OTHER -> ConstantTerm(f, aux)

ExecuteIndex(f, m, w, aux) ==
  IF w.op \in {"GETTABLE", "GETTABLEN", "GETTABLEKS", "GETUDATAKS"}
  THEN Yield(m, w.a, <<"index", m.reg[w.b], IndexTerm(f, m, w, aux)>>)
  ELSE Emit(m, <<"setindex", m.reg[w.b], IndexTerm(f, m, w, aux), m.reg[w.a]>>)

ExecuteOperator(f, m, w) ==
  Put(m, w.a,
      CASE w.op \in Binary -> <<"binary", w.op, m.reg[w.b], m.reg[w.c]>>
        [] w.op \in BinaryConstant -> <<"binary", Operation(w.op), m.reg[w.b], ConstantTerm(f, w.c)>>
        [] w.op \in ReversedConstant -> <<"binary", Operation(w.op), ConstantTerm(f, w.b), m.reg[w.c]>>
        [] w.op \in Unary -> <<"unary", w.op, m.reg[w.b]>>
        [] w.op = "CONCAT" -> Chained(Values(m, w.b, w.c - w.b + 1)))

ExecuteCall(m, w) ==
  LET n == Emit(m, <<"call", m.reg[w.a], Taken(m, w.a + 1, w.b - 1, w.b)>>) IN
  IF w.c = 0 THEN [n EXCEPT !.open = <<Result(n, 0)>>, !.from = w.a]
  ELSE PutResults(n, w.a, w.c - 1)

ExecuteMethod(m, w, aux) ==
  Yield(Put(m, w.a + 1, m.reg[w.b]), w.a, <<"index", m.reg[w.b], <<"constant", aux>>>>)

ExecuteVarArg(m, w) ==
  IF w.b = 0 THEN [m EXCEPT !.open = <<<<"varargs">>>>, !.from = w.a]
  ELSE [m EXCEPT !.reg = [r \in DOMAIN @ |->
          IF r \in w.a..(w.a + w.b - 2) THEN <<"vararg", r - w.a + 1>> ELSE @[r]]]

Captures(m, code, pc, count) ==
  [i \in 1..count |->
     LET c == InstructionAt(code, pc + i) IN
     CASE c.a = 0 -> <<"value", m.reg[c.b]>> [] c.a = 1 -> <<"register", c.b>> [] c.a = 2 -> <<"upvalue", c.b>>]

ChildOf(f, w) == IF w.op = "NEWCLOSURE" THEN w.d ELSE f.constants[w.d + 1][2]

(* The condition of a jump and whether it jumps if the condition holds.       *)
Condition(f, m, w, aux) ==
  CASE w.op \in Falsy -> m.reg[w.a]
    [] w.op \in {"JUMPIFEQ", "JUMPIFNOTEQ"} -> <<"binary", "EQUAL", m.reg[w.a], m.reg[aux]>>
    [] w.op \in {"JUMPIFLE", "JUMPIFNOTLE"} -> <<"binary", "LESSEQUAL", m.reg[w.a], m.reg[aux]>>
    [] w.op \in {"JUMPIFLT", "JUMPIFNOTLT"} -> <<"binary", "LESS", m.reg[w.a], m.reg[aux]>>
    [] w.op = "JUMPXEQKNIL" -> <<"binary", "EQUAL", m.reg[w.a], Nil>>
    [] w.op = "JUMPXEQKB" -> <<"binary", "EQUAL", m.reg[w.a], <<"boolean", aux.value = 1>>>>
    [] OTHER -> <<"binary", "EQUAL", m.reg[w.a], ConstantTerm(f, aux.value)>>

JumpsIf(w, aux, truth) ==
  CASE w.op \in ComparedToConstant -> truth # aux.not
    [] w.op \in {"JUMPIFNOT", "JUMPIFNOTEQ", "JUMPIFNOTLE", "JUMPIFNOTLT"} -> ~truth
    [] OTHER -> truth

Go(m, pc) == [m |-> m, pc |-> pc]
Beyond(w, pc) == pc + WordLen(w.op)
Offset(w) == IF w.op = "JUMPX" THEN w.e ELSE w.d

(* A numeric loop is tested when it is entered and after every round.         *)
ExecuteRound(m, w, value) ==
  LET n == Decide(Put(m, w.a + 2, value), <<"within", value, m.reg[w.a]>>) IN
  [m |-> n, again |-> ~n.ended /\ Decided(n)]

ExecuteLoop(m, w, pc, aux) ==
  CASE w.op = "FORNPREP" ->
         LET c == <<"before", m.reg[w.a + 2], m.reg[w.a], m.reg[w.a + 1]>>
             x == ExecuteRound(m, w, <<"after", c, m.reg[w.a + 1]>>) IN
         Go(x.m, IF x.again THEN pc + 1 ELSE pc + 1 + w.d)
    [] w.op = "FORNLOOP" ->
         LET x == ExecuteRound(m, w, <<"after", m.reg[w.a + 2], m.reg[w.a + 1]>>) IN
         Go(x.m, IF x.again THEN pc + 1 + w.d ELSE pc + 1)
    [] w.op \in GenericPrepare -> Go(Emit(m, <<"prepare", Values(m, w.a, 3)>>), pc + 1 + w.d)
    [] w.op = "FORGLOOP" ->
         LET c == Emit(m, <<"call", m.reg[w.a], <<m.reg[w.a + 1], m.reg[w.a + 2]>>>>)
             r == PutResults(c, w.a + 3, aux)
             n == Decide(r, <<"binary", "NotEqual", r.reg[w.a + 3], Nil>>) IN
         IF ~n.ended /\ Decided(n) THEN Go(Put(n, w.a + 2, r.reg[w.a + 3]), pc + 1 + w.d) ELSE Go(n, pc + 2)

ExecuteWord(f, m, pc) ==
  LET w == InstructionAt(f.code, pc)
      aux == IF HasAux(w.op) THEN InstructionAt(f.code, pc + 1).value ELSE 0 IN
  CASE w.op \in Unconditional \cup {"CMPPROTO"} -> Go(m, pc + 1 + Offset(w))
    [] w.op \in Falsy \cup Compared \cup ComparedToConstant ->
         LET n == Decide(m, Condition(f, m, w, aux)) IN
         Go(n, IF ~n.ended /\ JumpsIf(w, aux, Decided(n)) THEN pc + 1 + w.d ELSE Beyond(w, pc))
    [] w.op \in GenericPrepare \cup {"FORNPREP", "FORNLOOP", "FORGLOOP"} -> ExecuteLoop(m, w, pc, aux)
    [] w.op = "LOADB" -> Go(ExecuteData(f, m, w, aux), pc + 1 + w.c)
    [] w.op = "RETURN" -> Go(Stop(Emit(m, <<"return", Taken(m, w.a, w.b - 1, w.b)>>)), pc)
    [] w.op \in {"NEWCLOSURE", "DUPCLOSURE"} ->
         LET count == f.children[ChildOf(f, w) + 1] IN
         Go(Yield(m, w.a, <<"closure", ChildOf(f, w), Captures(m, f.code, pc, count)>>), pc + 1 + count)
    [] OTHER ->
         Go(CASE w.op \in Calls -> ExecuteCall(m, w)
              [] w.op \in {"NAMECALL", "NAMECALLUDATA"} -> ExecuteMethod(m, w, aux)
              [] w.op = "SETLIST" ->
                   Emit(m, <<"setlist", m.reg[w.a], aux, Taken(m, w.b, w.c - 1, w.c)>>)
              [] w.op = "GETVARARGS" -> ExecuteVarArg(m, w)
              [] w.op \in FastCalls \cup {"NOP", "PREPVARARGS"} -> m
              [] w.op \in Binary \cup BinaryConstant \cup ReversedConstant \cup Unary \cup {"CONCAT"} ->
                   ExecuteOperator(f, m, w)
              [] w.op \in {"GETTABLE", "GETTABLEN", "GETTABLEKS", "GETUDATAKS",
                           "SETTABLE", "SETTABLEN", "SETTABLEKS", "SETUDATAKS"} -> ExecuteIndex(f, m, w, aux)
              [] OTHER -> ExecuteData(f, m, w, aux),
            Beyond(w, pc))

RECURSIVE ExecuteFrom(_, _, _)
ExecuteFrom(f, m, pc) ==
  IF m.ended \/ m.fuel = 0 \/ pc >= Len(f.code) THEN m
  ELSE LET next == ExecuteWord(f, [m EXCEPT !.fuel = @ - 1], pc) IN ExecuteFrom(f, next.m, next.pc)

Executed(f, bits) == ExecuteFrom(f, Begin(f, bits), 0)
=============================================================================
