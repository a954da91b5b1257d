---------------------------- MODULE GraphMeaning ----------------------------
(* What a lifted control flow graph does, in the terms of SymbolicMachine:    *)
(* a node holds its statements and its edges, [to, branch], the one for a     *)
(* condition that holds first.                                                *)
EXTENDS SymbolicMachine

(* The value of an expression: the machine after it, and its term.            *)
Is(m, term) == [m |-> m, term |-> term]

(* A closure takes a variable, by register or upvalue, or a copy of a value.  *)
Captured(m, e) ==
  CASE e[1] = "copy" -> <<"value", m.reg[e[2]]>>
    [] e[1] = "local" -> <<"register", e[2]>>
    [] e[1] = "upvalue" -> <<"upvalue", e[2]>>

(* What an event gave, after which the machine is n.                          *)
Given(n, k) == Is(n, Result(n, k))

(* Operands x have been evaluated, and are applied.                           *)
ApplyIndex(x) == Given(Emit(x.m, <<"index">> \o x.term), 1)
ApplyCall(x) == Given(Emit(x.m, <<"call", Head(x.term), Tail(x.term)>>), 0)
CallFound(n, arguments) == Given(Emit(n, <<"call", Result(n, 1), arguments>>), 0)
ApplyMethod(x, name) == CallFound(Emit(x.m, <<"index", Head(x.term), name>>), x.term)
Apply(x, operation) == Is(x.m, operation \o x.term)

RECURSIVE Evaluate(_, _)
RECURSIVE EvaluateRest(_, _, _)
EvaluateRest(m, es, terms) ==
  IF es = <<>> THEN Is(m, terms)
  ELSE LET Go(x) == EvaluateRest(x.m, Tail(es), Append(terms, x.term)) IN Go(Evaluate(m, Head(es)))
EvaluateAll(m, es) == EvaluateRest(m, es, <<>>)

Evaluate(m, e) ==
  CASE e[1] = "local" -> Is(m, m.reg[e[2]])
    [] e[1] = "upvalue" -> Is(m, m.up[e[2]])
    [] e[1] = "global" -> Given(Emit(m, e), 1)
    [] e[1] = "table" -> Given(Emit(m, <<"table", SelectSeq(e[2], LAMBDA entry : entry[2] # Nil)>>), 1)
    [] e[1] = "index" -> ApplyIndex(EvaluateAll(m, <<e[2], e[3]>>))
    [] e[1] = "binary" -> Apply(EvaluateAll(m, <<e[3], e[4]>>), <<"binary", e[2]>>)
    [] e[1] = "unary" -> Apply(EvaluateAll(m, <<e[3]>>), <<"unary", e[2]>>)
    [] e[1] = "call" -> ApplyCall(EvaluateAll(m, <<e[2]>> \o e[3]))
    [] e[1] = "method" -> ApplyMethod(EvaluateAll(m, <<e[2]>> \o e[4]), e[3])
    [] e[1] = "closure" -> Given(Emit(m, <<"closure", e[2], [i \in DOMAIN e[3] |-> Captured(m, e[3][i])]>>), 1)
    [] OTHER -> Is(m, e)

StoreAt(x, term) == Emit(x.m, <<"setindex">> \o Append(x.term, term))

Store(m, left, term) ==
  CASE left[1] = "local" -> Put(m, left[2], term)
    [] left[1] = "upvalue" -> [m EXCEPT !.up[left[2]] = term]
    [] left[1] = "global" -> Emit(m, <<"setglobal", left[2], term>>)
    [] left[1] = "index" -> StoreAt(EvaluateAll(m, <<left[2], left[3]>>), term)

(* The n-th of the values that a call or the variable arguments give.         *)
Selected(m, term, n) == IF term = <<"varargs">> THEN <<"vararg", n>> ELSE Result(m, n)

PutSelected(m, left, term) ==
  [m EXCEPT !.reg = [r \in DOMAIN @ |->
     IF <<"local", r>> \in ToSet(left) THEN Selected(m, term, CHOOSE i \in DOMAIN left : left[i] = <<"local", r>>)
     ELSE @[r]]]

AssignSelected(x, left) == PutSelected(x.m, left, x.term)
AssignFirst(x, left) == Store(x.m, left[1], x.term)

ExecuteAssign(m, s) ==
  IF s.right[1][1] = "select" THEN AssignSelected(Evaluate(m, s.right[1][3]), s.left)
  ELSE AssignFirst(Evaluate(m, s.right[1]), s.left)

(* A condition; the machine holds its truth, without a negation, last.        *)
Holds(n) == ~n.ended /\ Decided(n)
Chosen(n) == [m |-> n, holds |-> Holds(n)]
Refused(n) == [m |-> n, holds |-> ~n.ended /\ ~Decided(n)]
Test(x) == Decide(x.m, x.term)

Branch(m, e) ==
  IF e[1] = "unary" /\ e[2] = "Not" THEN Refused(Test(Evaluate(m, e[3]))) ELSE Chosen(Test(Evaluate(m, e)))

(* Another value of a generator, kept as its control unless it is nil.        *)
GenericNext(m, s) ==
  LET Keep(c, n) == [m |-> IF Holds(n) THEN Store(n, s.values[3], Result(c, 1)) ELSE n, holds |-> Holds(n)]
      Try(c) == Keep(c, Decide(PutSelected(c, s.vars, Result(c, 0)),
                               <<"binary", "NotEqual", Result(c, 1), Nil>>))
      Generate(v) == Try(Emit(m, <<"call", v[1], <<v[2], v[3]>>>>)) IN
  Generate(EvaluateAll(m, s.values).term)

NumericNext(m, s) ==
  LET Count(v, next) == Chosen(Decide(Store(m, s.values[1], next), <<"within", next, v[2]>>))
      Step(v) == Count(v, <<"after", v[1], v[3]>>) IN
  Step(EvaluateAll(m, s.values).term)

RECURSIVE AddMembers(_, _, _)
AddMembers(m, class, methods) ==
  IF methods = <<>> THEN m
  ELSE LET Add(x) == AddMembers(Emit(x.m, <<"setindex", class, Head(methods)[1], x.term>>), class, Tail(methods)) IN
       Add(Evaluate(m, Head(methods)[2]))

DefineClass(n, s) == AddMembers(Store(n, s.target, Result(n, 1)), Result(n, 1), s.methods)

EmitWith(x, event) == Emit(x.m, event \o <<x.term>>)
EmitList(x, index) == Emit(x.m, <<"setlist", Head(x.term), index, Tail(x.term)>>)

ExecuteStatement(m, s) ==
  CASE s.op = "If" -> Branch(m, s.condition)
    [] s.op = "NumForNext" -> NumericNext(m, s)
    [] s.op = "GenericForNext" -> GenericNext(m, s)
    [] OTHER ->
         [holds |-> TRUE, m |->
          CASE s.op = "Assign" -> ExecuteAssign(m, s)
            [] s.op = "Call" -> Evaluate(m, s.values[1]).m
            [] s.op = "Return" -> Stop(EmitWith(EvaluateAll(m, s.values), <<"return">>))
            [] s.op = "Close" -> Emit(m, <<"close", {s.values[i][2] : i \in DOMAIN s.values}>>)
            [] s.op = "SetList" -> EmitList(EvaluateAll(m, s.values), s.index)
            [] s.op = "NumForInit" -> Store(m, s.values[1], <<"before">> \o EvaluateAll(m, s.values).term)
            [] s.op = "GenericForInit" -> Emit(m, <<"prepare", EvaluateAll(m, s.values).term>>)
            [] s.op = "Class" -> DefineClass(Emit(m, <<"class", s.shape>>), s)
            [] s.op = "Comment" -> Stop(m)]

RECURSIVE ExecuteStatements(_, _)
ExecuteStatements(x, ss) ==
  IF ss = <<>> \/ x.m.ended THEN x ELSE ExecuteStatements(ExecuteStatement(x.m, Head(ss)), Tail(ss))

(* Where a node leads, when its condition holds or does not.                  *)
NextNode(edges, holds) ==
  IF Len(edges) = 1 THEN edges[1].to
  ELSE SelectSeq(edges, LAMBDA e : e.branch = (IF holds THEN "then" ELSE "else"))[1].to

RECURSIVE ExecuteGraph(_, _, _)
ExecuteGraph(graph, m, node) ==
  LET edges == graph[node].edges
      Leave(x) == IF x.m.ended \/ x.m.fuel = 0 \/ edges = <<>> THEN x.m
                  ELSE ExecuteGraph(graph, x.m, NextNode(edges, x.holds)) IN
  Leave(ExecuteStatements([m |-> [m EXCEPT !.fuel = @ - 1], holds |-> TRUE], graph[node].statements))
=============================================================================
