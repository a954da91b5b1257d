---------------------------- MODULE Lua51Machine ----------------------------
(* What a Lua 5.1 function does: the virtual machine that executes its words, *)
(* in the terms of SymbolicMachine. It is not code of the repository.         *)
EXTENDS Lua51Code, SymbolicMachine

CONSTANT FieldsPerFlush     \* elements that one block of a SETLIST stands for

Begin(f, bits) ==
  BeginWith([r \in 0..(f.stack - 1) |->
               IF r < f.parameters THEN <<"parameter", r>>
               ELSE IF r = f.parameters /\ f.vararg = 7 THEN <<"arg">> ELSE Nil],
            f.upvalues, bits)

RK(m, v) == IF v >= ByteLimit THEN <<"constant", v - ByteLimit>> ELSE m.reg[v]

Captures(f, words, pc, w) ==
  [i \in 1..(f.closures[w.bx + 1].upvalues) |->
     LET c == words[pc + 1 + i] IN
     IF c.op = "Move" THEN <<"register", c.b>> ELSE <<"upvalue", c.b>>]

(* One word of the function f, executed at pc; the result holds the next pc.  *)
ExecuteData(m, w) ==
  CASE w.op = "Move" -> Put(m, w.a, m.reg[w.b])
    [] w.op = "LoadConstant" -> Put(m, w.a, <<"constant", w.bx>>)
    [] w.op = "LoadBoolean" -> Put(m, w.a, <<"boolean", w.b = 1>>)
    [] w.op = "LoadNil" -> [m EXCEPT !.reg = [r \in DOMAIN @ |-> IF r \in w.a..w.b THEN Nil ELSE @[r]]]
    [] w.op = "GetUpvalue" -> Put(m, w.a, m.up[w.b])
    [] w.op = "SetUpvalue" -> [m EXCEPT !.up[w.b] = m.reg[w.a]]
    [] w.op = "GetGlobal" -> Yield(m, w.a, <<"global", w.bx>>)
    [] w.op = "SetGlobal" -> Emit(m, <<"setglobal", w.bx, m.reg[w.a]>>)
    [] w.op = "GetIndex" -> Yield(m, w.a, <<"index", m.reg[w.b], RK(m, w.c)>>)
    [] w.op = "SetIndex" -> Emit(m, <<"setindex", m.reg[w.a], RK(m, w.b), RK(m, w.c)>>)
    [] w.op = "NewTable" -> Yield(m, w.a, <<"table", <<>>>>)
    [] w.op = "PrepMethodCall" ->
         LET s == Put(m, w.a + 1, m.reg[w.b])
             n == Emit(s, <<"index", m.reg[w.b], RK(s, w.c)>>) IN
         Put(n, w.a, Result(n, 1))
    [] w.op \in Arithmetic -> Put(m, w.a, <<"binary", w.op, RK(m, w.b), RK(m, w.c)>>)
    [] w.op \in UnaryCodes -> Put(m, w.a, <<"unary", w.op, m.reg[w.b]>>)
    [] w.op = "Concatenate" -> Put(m, w.a, Chained(Values(m, w.b, w.c - w.b + 1)))
    [] w.op = "Close" -> Emit(m, <<"close", {r \in DOMAIN m.reg : r >= w.a}>>)

ExecuteCall(m, w) ==
  LET n == Emit(m, <<"call", m.reg[w.a], Taken(m, w.a + 1, w.b - 1, w.b)>>) IN
  IF w.c = 0 THEN [n EXCEPT !.open = <<Result(n, 0)>>, !.from = w.a]
  ELSE PutResults(n, w.a, w.c - 1)

ExecuteVarArg(m, w) ==
  IF w.b = 0 THEN [m EXCEPT !.open = <<<<"varargs">>>>, !.from = w.a]
  ELSE [m EXCEPT !.reg = [r \in DOMAIN @ |->
          IF r \in w.a..(w.a + w.b - 2) THEN <<"vararg", r - w.a + 1>> ELSE @[r]]]

ExecuteSetList(m, words, pc, w) ==
  LET block == IF w.c = 0 THEN words[pc + 2].value ELSE w.c IN
  Emit(m, <<"setlist", m.reg[w.a], (block - 1) * FieldsPerFlush + 1, Taken(m, w.a + 1, w.b, w.b)>>)

At51(n, pc) == [m |-> n, pc |-> pc]

(* A conditional instruction goes on to the next, a jump, or skips it.        *)
Conditional(n, pc, holds) == At51(n, IF holds THEN pc + 1 ELSE pc + 2)

ExecuteWord(f, words, m, pc) ==
  LET w == words[pc + 1] IN
  CASE w.op = "Jump" -> At51(m, pc + 1 + w.sbx)
    [] w.op = "LoadBoolean" -> At51(ExecuteData(m, w), pc + 1 + w.c)
    [] w.op \in Comparisons ->
         LET n == Decide(m, <<"binary", w.op, RK(m, w.b), RK(m, w.c)>>) IN
         Conditional(n, pc, n.ended \/ Decided(n) = (w.a = 1))
    [] w.op = "Test" ->
         LET n == Decide(m, m.reg[w.a]) IN Conditional(n, pc, n.ended \/ Decided(n) = (w.c = 1))
    [] w.op = "TestSet" ->
         LET n == Decide(m, m.reg[w.b])
             holds == n.ended \/ Decided(n) = (w.c = 1) IN
         Conditional(IF holds THEN Put(n, w.a, m.reg[w.b]) ELSE n, pc, holds)
    [] w.op = "Call" -> At51(ExecuteCall(m, w), pc + 1)
    [] w.op = "VarArg" -> At51(ExecuteVarArg(m, w), pc + 1)
    [] w.op = "TailCall" ->
         LET n == Emit(m, <<"call", m.reg[w.a], Taken(m, w.a + 1, w.b - 1, w.b)>>) IN
         At51(Stop(Emit(n, <<"return", <<Result(n, 0)>>>>)), pc)
    [] w.op = "Return" -> At51(Stop(Emit(m, <<"return", Taken(m, w.a, w.b - 1, w.b)>>)), pc)
    [] w.op = "InitNumericForLoop" ->
         At51(Put(m, w.a, <<"before", m.reg[w.a], m.reg[w.a + 1], m.reg[w.a + 2]>>), pc + 1 + w.sbx)
    [] w.op = "IterateNumericForLoop" ->
         LET next == <<"after", m.reg[w.a], m.reg[w.a + 2]>>
             n == Decide(Put(m, w.a, next), <<"within", next, m.reg[w.a + 1]>>) IN
         IF ~n.ended /\ Decided(n) THEN At51(Put(n, w.a + 3, next), pc + 1 + w.sbx) ELSE At51(n, pc + 1)
    [] w.op = "IterateGenericForLoop" ->
         LET c == Emit(m, <<"call", m.reg[w.a], <<m.reg[w.a + 1], m.reg[w.a + 2]>>>>)
             r == PutResults(c, w.a + 3, w.c)
             n == Decide(r, <<"binary", "NotEqual", r.reg[w.a + 3], Nil>>) IN
         IF ~n.ended /\ Decided(n) THEN At51(Put(n, w.a + 2, r.reg[w.a + 3]), pc + 1) ELSE At51(n, pc + 2)
    [] w.op = "SetList" ->
         At51(ExecuteSetList(m, words, pc, w), IF w.c = 0 THEN pc + 2 ELSE pc + 1)
    [] w.op = "Closure" ->
         LET caught == Captures(f, words, pc, w)
             n == Emit(m, <<"closure", w.bx, caught>>) IN
         At51(Put(n, w.a, Result(n, 1)), pc + 1 + Len(caught))
    [] OTHER -> At51(ExecuteData(m, w), pc + 1)

RECURSIVE ExecuteFrom(_, _, _, _)
ExecuteFrom(f, words, m, pc) ==
  IF m.ended \/ m.fuel = 0 \/ pc >= Len(words) THEN m
  ELSE LET next == ExecuteWord(f, words, [m EXCEPT !.fuel = @ - 1], pc) IN
       ExecuteFrom(f, words, next.m, next.pc)

Executed(f, words, bits) == ExecuteFrom(f, words, Begin(f, bits), 0)
=============================================================================
