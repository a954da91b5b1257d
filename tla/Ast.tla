-------------------------------- MODULE Ast --------------------------------
(***************************************************************************)
(* The syntax tree of one function body, as the passes over it see it:     *)
(* expressions, statements and blocks, the locals they read and write,     *)
(* which of them have side effects, and the reduction of conditions.       *)
(*                                                                         *)
(* An expression is [op, name, args] and a statement is [kind, left,       *)
(* right, prefix, parallel, blocks]: "right" holds the values of an        *)
(* assignment or a return, the callee and arguments of a call, the         *)
(* condition of a branch or loop and the bounds of a for; "blocks" the     *)
(* blocks nested in it.  A block is a sequence of statements.  Locals are  *)
(* their names (the source gives every local an identity of its own).      *)
(***************************************************************************)
EXTENDS Integers, FiniteSets, Sequences, SequencesExt

Expr(op, name, args) == [op |-> op, name |-> name, args |-> args]

Local(x)              == Expr("local", x, <<>>)
Literal(v)            == Expr("literal", v, <<>>)
Global(g)             == Expr("global", g, <<>>)
Import(g)             == Expr("import", g, <<>>)
Unary(o, e)           == Expr(o, "", <<e>>)
Not(e)                == Unary("not", e)
Binary(l, o, r)       == Expr("binary", o, <<l, r>>)
Conditional(c, t, e)  == Expr("conditional", "", <<c, t, e>>)
Index(t, k)           == Expr("index", "", <<t, k>>)
Table(values)         == Expr("table", "", values)
\* "call" and "method" yield every result when they come last in a list;
\* their selected forms yield one result wherever they stand.
Call(f, args)         == Expr("call", "", <<f>> \o args)
OneCall(f, args)      == Expr("selectcall", "", <<f>> \o args)
MethodCall(o, m, args) == Expr("method", m, <<o>> \o args)
OneMethod(o, m, args) == Expr("selectmethod", m, <<o>> \o args)
\* A closure with the locals it captures, by reference or by copy.
Closure(how, locals)  == Expr("closure", how, [i \in DOMAIN locals |-> Local(locals[i])])

True  == Literal("true")
False == Literal("false")
IsBoolean(e) == e \in {True, False}
Bool(b) == IF b THEN True ELSE False

Stat(kind, left, right, blocks) ==
  [kind |-> kind, left |-> left, right |-> right, prefix |-> FALSE,
   parallel |-> FALSE, blocks |-> blocks]

Assign(left, right)   == Stat("assign", left, right, <<>>)
Set(x, e)             == Assign(<<Local(x)>>, <<e>>)
Declare(left, right)  == [Assign(left, right) EXCEPT !.prefix = TRUE]
CallStat(f, args)     == Stat("call", <<>>, <<f>> \o args, <<>>)
\* A method call statement keeps its method's name on the left.
MethodStat(o, m, args) == Stat("method", <<Literal(m)>>, <<o>> \o args, <<>>)
Return(values)        == Stat("return", <<>>, values, <<>>)
If(c, then, else)     == Stat("if", <<>>, <<c>>, <<then, else>>)
While(c, body)        == Stat("while", <<>>, <<c>>, <<body>>)
Repeat(c, body)       == Stat("repeat", <<>>, <<c>>, <<body>>)
For(x, bounds, body)  == Stat("for", <<Local(x)>>, bounds, <<body>>)
Do(body)              == Stat("do", <<>>, <<>>, <<body>>)
Break                 == Stat("break", <<>>, <<>>, <<>>)
Continue              == Stat("continue", <<>>, <<>>, <<>>)

IsStructured(s) == s.kind \in {"if", "while", "repeat", "for"}

(***************************************************************************)
(* Traversal and the locals a node reads, in evaluation order.  The body   *)
(* of a closure is a function of its own: it has no children here, and it  *)
(* reads the locals it captures.                                           *)
(***************************************************************************)
Children(e) == IF e.op = "closure" THEN <<>> ELSE e.args

RECURSIVE ReadsOf(_)
ReadsOf(e) ==
  IF e.op = "local" THEN <<e.name>>
  ELSE FlattenSeq([i \in DOMAIN e.args |-> ReadsOf(e.args[i])])

ReadSet(e) == ToSet(ReadsOf(e))

RECURSIVE Subexpressions(_)
Subexpressions(e) ==
  {e} \cup UNION {Subexpressions(Children(e)[i]) : i \in DOMAIN Children(e)}

HasSideEffects(e) ==
  \E sub \in Subexpressions(e) :
    \/ sub.op \in {"global", "import", "call", "selectcall", "method", "selectmethod",
                   "index", "length"}
    \/ sub.op = "binary" /\ sub.name \notin {"and", "or"}

\* A compiler import is a lookup the compiler proved constant.
IsObservable(e) == HasSideEffects(e) /\ e.op # "import"

\* The locals an assignment target reads, as opposed to the one it writes.
TargetReads(target) == IF target.op = "local" THEN <<>> ELSE ReadsOf(target)

StatReads(s) ==
  (IF s.kind = "assign"
   THEN FlattenSeq([i \in DOMAIN s.left |-> TargetReads(s.left[i])]) ELSE <<>>)
    \o FlattenSeq([i \in DOMAIN s.right |-> ReadsOf(s.right[i])])

StatWrites(s) == {e.name : e \in {f \in ToSet(s.left) : f.op = "local"}}

StatValues(s) == ToSet(StatReads(s)) \cup StatWrites(s)

TargetHasEffects(target) == target.op # "local" /\ HasSideEffects(target)

StatHasEffects(s) ==
  IF s.kind = "assign"
  THEN \/ \E i \in DOMAIN s.right : HasSideEffects(s.right[i])
       \/ \E i \in DOMAIN s.left : TargetHasEffects(s.left[i])
  ELSE TRUE

\* An assignment of one value to one local.
IsSimpleAssign(s) ==
  /\ s.kind = "assign" /\ ~s.prefix /\ ~s.parallel
  /\ Len(s.left) = 1 /\ Len(s.right) = 1 /\ s.left[1].op = "local"

\* The locals captured by reference by the closures built in a block.
RECURSIVE ReferenceCaptures(_)
ReferenceCaptures(block) ==
  UNION {UNION {{a.name : a \in ToSet(sub.args)} :
                 sub \in {e \in UNION {Subexpressions(s.right[i]) : i \in DOMAIN s.right}
                                  \cup UNION {Subexpressions(s.left[i]) : i \in DOMAIN s.left} :
                            e.op = "closure" /\ e.name = "ref"}}
           \cup UNION {ReferenceCaptures(s.blocks[i]) : i \in DOMAIN s.blocks} :
         s \in ToSet(block)}

(***************************************************************************)
(* The reduction of an expression, as a value (reduce) and as a condition, *)
(* where only its truth matters (reduce_condition).                        *)
(***************************************************************************)
Comparisons == {"==", "~=", "<", "<=", ">", ">="}
Dual(o)     == IF o = "and" THEN "or" ELSE "and"
Opposite(o) == IF o = "==" THEN "~=" ELSE "=="

RECURSIVE IsBooleanValued(_)
IsBooleanValued(e) ==
  \/ IsBoolean(e)
  \/ e.op = "binary" /\ e.name \in Comparisons
  \/ /\ e.op = "binary" /\ e.name \in {"and", "or"}
     /\ IsBooleanValued(e.args[1]) /\ IsBooleanValued(e.args[2])

EnsureBoolean(e) ==
  IF IsBooleanValued(e) THEN e ELSE Binary(Binary(e, "and", True), "or", False)

RECURSIVE Reduce(_), ReduceCondition(_), Reduced(_, _, _, _), Negated(_, _)

\* An operator whose operands l and r are already reduced.
Reduced(l, o, r, asCondition) ==
  CASE o \notin {"and", "or"} -> Binary(l, o, r)
    [] o \in {"and", "or"} /\ l.op = "not" /\ r.op = "not" ->
         Not(Binary(l.args[1], Dual(o), r.args[1]))
    [] o \in {"and", "or"} /\ IsBoolean(l) ->
         IF (o = "and") = (l = True) THEN Reduce(r) ELSE l
    [] OTHER ->
         CASE asCondition /\ IsBoolean(r) ->
                IF (o = "and") = (r = True) THEN Reduce(l) ELSE r
           [] ~asCondition /\ o = "and" /\ l = r /\ ~HasSideEffects(l) -> l
           [] ~asCondition /\ o = "or" /\ r = False /\ l.op = "binary" /\ l.name = "and"
                /\ l.args[1].op = "not" /\ l.args[2] = True -> l.args[1]
           [] ~asCondition /\ o = "or" /\ l = r -> l
           [] OTHER -> Binary(l, o, r)

DoesReduce(e) == ReduceCondition(e) # e

\* The negation of an expression v that is already reduced.
Negated(v, asCondition) ==
  CASE IsBoolean(v) -> Bool(v = False)
    [] v.op = "not" ->
         IF asCondition THEN ReduceCondition(v.args[1])
         ELSE EnsureBoolean(ReduceCondition(v.args[1]))
    [] v.op = "binary" /\ v.name \in {"==", "~="} ->
         LET flipped == Binary(v.args[1], Opposite(v.name), v.args[2])
         IN IF asCondition THEN ReduceCondition(flipped) ELSE Reduce(flipped)
    [] /\ v.op = "binary" /\ v.name \in {"and", "or"}
       /\ (DoesReduce(Not(v.args[1])) \/ DoesReduce(Not(v.args[2]))) ->
         LET pushed == ReduceCondition(Binary(ReduceCondition(Not(v.args[1])), Dual(v.name),
                                              ReduceCondition(Not(v.args[2]))))
         IN IF asCondition THEN pushed ELSE EnsureBoolean(pushed)
    [] OTHER -> Not(v)

Reduce(e) ==
  CASE e.op = "not"    -> Negated(Reduce(e.args[1]), FALSE)
    [] e.op = "binary" -> Reduced(Reduce(e.args[1]), e.name, Reduce(e.args[2]), FALSE)
    [] OTHER -> e

ReduceCondition(e) ==
  CASE e.op = "not"     -> Negated(ReduceCondition(e.args[1]), TRUE)
    [] e.op = "length"  -> True
    [] e.op = "literal" -> Bool(e.name \notin {"nil", "false"})
    [] e.op = "closure" -> True
    [] e.op = "table" /\ ~HasSideEffects(e) -> True
    [] e.op = "binary" /\ e.name \in {"and", "or"} ->
         Reduced(ReduceCondition(e.args[1]), e.name, ReduceCondition(e.args[2]), TRUE)
    [] e.op = "binary" /\ e.name \notin {"and", "or"} ->
         Reduced(Reduce(e.args[1]), e.name, Reduce(e.args[2]), TRUE)
    [] OTHER -> e
=============================================================================
