----------------------------- MODULE AstMeaning -----------------------------
(***************************************************************************)
(* What a block of the syntax tree does when it runs, written from Lua and *)
(* not from the decompiler.  A run is driven by an oracle, which settles   *)
(* the truth of what the world returns: oracle.truth[n] for the result of  *)
(* the n-th event, oracle.params for the parameters, and                   *)
(* oracle.targetsFirst for whether an assignment evaluates its targets     *)
(* before its values, which the language leaves open.                      *)
(*                                                                         *)
(* Calls, method lookups, dynamic globals, indexing, and operators may run *)
(* code of the program: each is an event, which sees the captured locals   *)
(* as they are at that moment and leaves new values in those captured by   *)
(* reference.  A table is private, and using it is no event, until an      *)
(* event sees it.  A run is cut after EventLimit events.                   *)
(***************************************************************************)
EXTENDS Ast

CONSTANT EventLimit   \* a run is followed for this many events

Nil == <<"lit", "nil">>
Truth(v, oracle) ==
  CASE v[1] = "lit" -> v[2] \notin {"nil", "false"}
    [] v[1] \in {"res", "all", "set"} -> oracle.truth[v[2]]
    [] v[1] = "par" /\ v[2] \in DOMAIN oracle.params -> oracle.params[v[2]]
    [] OTHER -> TRUE
BoolValue(b) == <<"lit", IF b THEN "true" ELSE "false">>

\* What an event sees of a value: the contents of a table nothing has seen.
Shown(v, s) ==
  IF v[1] # "tab" THEN v
  ELSE IF s.heap[v[2]].seen = 0 THEN <<"new", s.heap[v[2]].fields>>
       ELSE <<"old", s.heap[v[2]].seen>>

ShownAll(vs, s) == [i \in DOMAIN vs |-> Shown(vs[i], s)]

Captured(s) == ShownAll(s.held, s) \o
               ShownAll([i \in DOMAIN s.refs |-> s.env[s.refs[i]]], s)

Running(s) == s.out = "normal"

\* The world acts on the values vs; it may run code only if "runs" holds.
Event(what, vs, s, runs) ==
  IF Len(s.trace) = EventLimit THEN [s EXCEPT !.out = "cut"]
  ELSE LET n == Len(s.trace) + 1
           touched == {v[2] : v \in {w \in ToSet(vs) \cup ToSet(s.held)
                                       \cup {s.env[x] : x \in ToSet(s.refs)} : w[1] = "tab"}}
       IN [s EXCEPT
            !.trace = Append(@, <<what, ShownAll(vs, s), Captured(s)>>),
            !.heap = [i \in DOMAIN @ |->
                       IF i \in touched /\ @[i].seen = 0 THEN [@[i] EXCEPT !.seen = n] ELSE @[i]],
            !.env = IF runs THEN [x \in DOMAIN @ |-> IF x \in ToSet(s.refs) THEN <<"set", n, x>>
                                                     ELSE @[x]] ELSE @]

\* The event's result, as one value or as all of them.
Result(how, s) == <<how, Len(s.trace)>>
Answered(how, s) == [v |-> Result(how, s), s |-> s]

Fetch(t, k, s) ==
  IF t[1] = "tab" /\ s.heap[t[2]].seen = 0
  THEN [v |-> IF k \in DOMAIN s.heap[t[2]].fields THEN s.heap[t[2]].fields[k] ELSE Nil, s |-> s]
  ELSE Answered("res", Event("index", <<t, k>>, s, TRUE))

Put(t, k, v, s) ==
  IF t[1] = "tab" /\ s.heap[t[2]].seen = 0
  THEN [s EXCEPT !.heap[t[2]].fields = (k :> v) @@ @]
  ELSE Event("setindex", <<t, k, v>>, s, TRUE)

Called(what, vs, s, open) == Answered(IF open THEN "all" ELSE "res", Event(what, vs, s, TRUE))

\* The result r, if it is one, as a truth value.
NegatedResult(r, o) == IF Running(r.s) THEN [r EXCEPT !.v = BoolValue(~Truth(r.v, o))] ELSE r
ComparedResult(r, holds, o) == IF Running(r.s) THEN [r EXCEPT !.v = BoolValue(holds = Truth(r.v, o))] ELSE r

NewTable(vs, s) ==
  [v |-> <<"tab", Len(s.heap) + 1>>,
   s |-> [s EXCEPT !.heap = Append(@,
            [seen |-> 0,
             fields |-> [k \in {<<"lit", ToString(i)>> : i \in DOMAIN vs} |->
                           vs[CHOOSE i \in DOMAIN vs : k = <<"lit", ToString(i)>>]]])]]

\* An operation on parts that have been evaluated.
Operate(e, parts, o, last) ==
  CASE ~Running(parts.s) -> [v |-> Nil, s |-> parts.s]
    [] Running(parts.s) /\ e.op \in {"call", "selectcall"} ->
         Called("call", parts.vs, parts.s, last /\ e.op = "call")
    [] Running(parts.s) /\ e.op = "index" -> Fetch(parts.vs[1], parts.vs[2], parts.s)
    [] Running(parts.s) /\ e.op = "table" -> NewTable(parts.vs, parts.s)
    [] Running(parts.s) /\ e.op = "binary" /\ e.name \in {"==", "~="} ->
         ComparedResult(Called("==", parts.vs, parts.s, FALSE), e.name = "==", o)
    [] Running(parts.s) /\ e.op = "binary" /\ e.name \in {"<", "<="} ->
         ComparedResult(Called(e.name, parts.vs, parts.s, FALSE), TRUE, o)
    [] OTHER -> Called(e.op, parts.vs, parts.s, FALSE)

ClosureOf(e, s) ==
  LET names  == [i \in DOMAIN e.args |-> e.args[i].name]
      values == [i \in DOMAIN e.args |-> s.env[names[i]]]
  IN [v |-> <<"fun", names>>,
      s |-> IF e.name = "ref" THEN [s EXCEPT !.refs = @ \o SelectSeq(names, LAMBDA x : x \notin ToSet(@))]
            ELSE [s EXCEPT !.held = @ \o values]]

\* The method is found before the arguments are evaluated.
LookUp(object, name) ==
  IF Running(object.s) THEN Called("lookup", <<object.v, <<"name", name>>>>, object.s, FALSE) ELSE object
CallMethod(object, method, args, open) ==
  IF ~Running(args.s) THEN [v |-> Nil, s |-> args.s]
  ELSE Called("call", <<method.v, object.v>> \o args.vs, args.s, open)

RECURSIVE Eval(_, _, _, _)

\* The values of a list of expressions; only the last may stay open.
EvalList(es, s, o) ==
  LET And(vs, r) == [vs |-> Append(vs, r.v), s |-> r.s]
      Next(acc, i) ==
        IF ~Running(acc.s) THEN acc
        ELSE CHOOSE next \in {And(acc.vs, Eval(es[i], acc.s, o, i = Len(es)))} : TRUE
  IN FoldLeft(Next, [vs |-> <<>>, s |-> s], [i \in DOMAIN es |-> i])

Eval(e, s, o, last) ==
  CASE e.op = "local"   -> [v |-> s.env[e.name], s |-> s]
    [] e.op = "literal" -> [v |-> <<"lit", e.name>>, s |-> s]
    [] e.op = "import"  -> [v |-> <<"import", e.name>>, s |-> s]
    [] e.op = "global"  -> Called("global", <<<<"name", e.name>>>>, s, FALSE)
    [] e.op = "not"     -> NegatedResult(Eval(e.args[1], s, o, FALSE), o)
    [] e.op = "binary" /\ e.name \in {"and", "or"} ->
         LET Other(l) == IF Running(l.s) /\ (e.name = "and") = Truth(l.v, o)
                         THEN Eval(e.args[2], l.s, o, FALSE) ELSE l
         IN Other(Eval(e.args[1], s, o, FALSE))
    [] e.op = "conditional" ->
         LET Choose(c) == IF ~Running(c.s) THEN c
                          ELSE Eval(e.args[IF Truth(c.v, o) THEN 2 ELSE 3], c.s, o, FALSE)
         IN Choose(Eval(e.args[1], s, o, FALSE))
    [] e.op = "closure" -> ClosureOf(e, s)
    [] e.op \in {"method", "selectmethod"} ->
         LET Finish(object, method) ==
               CallMethod(object, method, EvalList(Tail(e.args), method.s, o), last /\ e.op = "method")
             Find(object) == Finish(object, LookUp(object, e.name))
         IN Find(Eval(e.args[1], s, o, FALSE))
    [] OTHER -> Operate(e, EvalList(e.args, s, o), o, last)

RECURSIVE Exec(_, _, _), Run(_, _, _), Loop(_, _, _)

\* The parts of the targets that are evaluated, in order.
TargetParts(left) ==
  FlattenSeq([i \in DOMAIN left |-> IF left[i].op = "index" THEN left[i].args ELSE <<>>])

\* The values are stored target by target; parts are the evaluated target parts.
Store(left, parts, values, s) ==
  FoldLeft(LAMBDA acc, i :
             IF ~Running(acc) THEN acc
             ELSE LET v == IF i <= Len(values) THEN values[i] ELSE Nil
                      at == 2 * Cardinality({j \in 1 .. i - 1 : left[j].op = "index"})
                  IN CASE left[i].op = "local"  -> [acc EXCEPT !.env[left[i].name] = v]
                       [] left[i].op = "global" -> Event("setglobal", <<<<"name", left[i].name>>, v>>, acc, TRUE)
                       [] left[i].op = "index"  -> Put(parts[at + 1], parts[at + 2], v, acc),
           s, [i \in DOMAIN left |-> i])

\* Declared locals are new variables: closures keep the old ones.
Fresh(left, s) ==
  LET old == SelectSeq(s.refs, LAMBDA x : \E i \in DOMAIN left : left[i].name = x)
  IN [s EXCEPT !.held = @ \o [i \in DOMAIN old |-> s.env[old[i]]],
               !.refs = SelectSeq(@, LAMBDA x : x \notin ToSet(old))]

Assigned(st, s, o) ==
  LET parts == TargetParts(st.left)
      StoreAll(targets, values, after) ==
        IF ~Running(after) THEN after
        ELSE Store(st.left, targets, values, IF st.prefix THEN Fresh(st.left, after) ELSE after)
      Targets(values, r) == StoreAll(r.vs, values.vs, r.s)
      ValuesFirst(values) == Targets(values, EvalList(parts, values.s, o))
      Values(targets, r) == StoreAll(targets.vs, r.vs, r.s)
      TargetsFirst(targets) == Values(targets, EvalList(st.right, targets.s, o))
  IN IF o.targetsFirst THEN TargetsFirst(EvalList(parts, s, o)) ELSE ValuesFirst(EvalList(st.right, s, o))

\* After a loop's body: break leaves the loop, continue only the body.
LeaveBody(s)   == IF s.out \in {"continue"} THEN [s EXCEPT !.out = "normal"] ELSE s
LeaveLoop(s)   == IF s.out = "break" THEN [s EXCEPT !.out = "normal"] ELSE s

LoopAgain(st, s, o) == IF Running(s) THEN Loop(st, s, o) ELSE s

Loop(st, s, o) ==
  LET Body(from) == LeaveBody(Run(st.blocks[1], from, o))
      WhileTrue(c) == IF ~Running(c.s) \/ ~Truth(c.v, o) THEN c.s ELSE LoopAgain(st, Body(c.s), o)
      Until(c) == IF ~Running(c.s) \/ Truth(c.v, o) THEN c.s ELSE Loop(st, c.s, o)
      UntilTrue(body) == IF Running(body) THEN Until(Eval(st.right[1], body, o, FALSE)) ELSE body
      ForNext(step) ==
        IF ~Running(step) \/ ~Truth(Result("res", step), o) THEN step
        ELSE LoopAgain(st, Body([Fresh(st.left, step) EXCEPT !.env[st.left[1].name] = Result("res", step)]), o)
  IN CASE st.kind = "while"  -> WhileTrue(Eval(st.right[1], s, o, FALSE))
       [] st.kind = "repeat" -> UntilTrue(Body(s))
       [] st.kind = "for"    -> ForNext(Event("for", <<>>, s, FALSE))

Returned(r) == IF Running(r.s) THEN [r.s EXCEPT !.out = "return", !.values = ShownAll(r.vs, r.s)] ELSE r.s

Exec(st, s, o) ==
  CASE st.kind = "assign" -> Assigned(st, s, o)
    [] st.kind = "call"   -> Eval(Expr("call", "", st.right), s, o, FALSE).s
    [] st.kind = "method" -> Eval(Expr("method", st.left[1].name, st.right), s, o, FALSE).s
    [] st.kind = "return" -> Returned(EvalList(st.right, s, o))
    [] st.kind = "if" ->
         LET Take(c) == IF ~Running(c.s) THEN c.s ELSE Run(st.blocks[IF Truth(c.v, o) THEN 1 ELSE 2], c.s, o)
         IN Take(Eval(st.right[1], s, o, FALSE))
    [] st.kind = "do" -> Run(st.blocks[1], s, o)
    [] st.kind \in {"while", "repeat"} -> LeaveLoop(Loop(st, s, o))
    [] st.kind = "for" ->
         LET From(bounds) == IF Running(bounds.s) THEN LeaveLoop(Loop(st, bounds.s, o)) ELSE bounds.s
         IN From(EvalList(st.right, s, o))
    [] st.kind \in {"break", "continue"} -> [s EXCEPT !.out = st.kind]

Run(block, s, o) ==
  FoldLeft(LAMBDA acc, st : IF ~Running(acc) THEN acc
                            ELSE CHOOSE next \in {Exec(st, acc, o)} : TRUE, s, block)

Observed(s) ==
  IF s.out = "cut" THEN [trace |-> s.trace, values |-> <<>>, left |-> <<>>, cut |-> TRUE]
  ELSE [trace |-> s.trace, values |-> s.values, left |-> Captured(s), cut |-> FALSE]

\* A run of a function body: its events, and what is returned when it ends.
\* initial gives every local its first value; upvalues are shared with others.
Outcome(block, initial, upvalues, o) ==
  Observed(Run(block, [env |-> initial, heap |-> <<>>, trace |-> <<>>, refs |-> upvalues,
                       held |-> <<>>, values |-> <<>>, out |-> "normal"], o))
=============================================================================
