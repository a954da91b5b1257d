----------------------------- MODULE MCAstPasses -----------------------------
(* Function bodies for AstPasses, as restructuring leaves them: temporaries   *)
(* that feed one statement, branches that choose a value, tables filled slot  *)
(* by slot, loops with guards, and many locals in few scopes.  p and q are    *)
(* parameters, up is an upvalue, i a loop's own local.                        *)
EXTENDS AstPasses

p == Local("p")   q == Local("q")   up == Local("up")
a == Local("a")   b == Local("b")   c == Local("c")   d == Local("d")   t == Local("t")
key == Literal("k")
one == Literal("1")

MCLocalOrder == <<"a", "b", "c", "d", "i", "p", "q", "t", "up", "stop1", "stop2">>
MCFlagNames == <<"stop1", "stop2">>

Body(program, dialect) ==
  [program |-> program, upvalues |-> <<"up">>, params |-> <<"p", "q">>, dialect |-> dialect]
In(programs, dialects) == {Body(x, dialect) : x \in programs, dialect \in dialects}
Both(programs) == In(programs, {"luau", "lua51"})

(* Two temporaries and the statement that reads them. *)
Plain == {p, up, one, Not(p), Import("g")}
Effects == {Index(p, key), OneCall(q, <<>>), Global("g"), Binary(p, "+", q), Unary("length", q)}
FromA == {Not(a), Index(a, key), OneCall(q, <<a>>)}

Consumers ==
  {CallStat(p, <<a, b>>), CallStat(p, <<b, a>>), CallStat(a, <<b>>), CallStat(b, <<a>>),
   CallStat(p, <<OneCall(q, <<>>), a, b>>),
   Return(<<a, b>>), Return(<<Call(b, <<a>>)>>), Return(<<Binary(a, "and", b)>>),
   Return(<<Table(<<a, b>>)>>),
   Assign(<<Index(a, b)>>, <<q>>), Assign(<<Index(p, a)>>, <<b>>), Assign(<<Global("g")>>, <<Binary(b, "+", a)>>),
   If(a, <<CallStat(b, <<>>)>>, <<>>)}

Straight ==
  {<<Set("a", x), Set("b", y), s>> : x \in Plain \cup Effects, y \in Plain \cup Effects \cup FromA, s \in Consumers}
    \cup {<<Set("a", x), Set("b", y), CallStat(p, <<OneCall(q, <<a>>), b>>)>> : x \in Plain \cup Effects, y \in Plain}
    \cup {<<Set("a", x), s, Return(<<a>>)>> :
           x \in {up, p, Not(up), Index(p, key)}, s \in {Set("up", q), CallStat(p, <<>>), CallStat(p, <<a>>), Set("b", up)}}
    \cup {<<Set("a", x), MethodStat(o, "m", <<a>>)>> : x \in {p, one, Not(p), Index(p, key)}, o \in {p, q}}
    \cup {<<Set("a", x), s, Return(<<b, a>>)>> :
           x \in {p, Not(p)}, s \in {Set("b", Closure("ref", <<"a">>)), Set("b", Closure("copy", <<"a">>))}}

(* A local chosen by a branch, a branch inverted, emptied or left early. *)
Conditions ==
  {p, Not(q), Index(p, key), Not(OneCall(q, <<>>)), Not(Binary(p, "<", q)), Binary(p, "==", q), True,
   Not(Binary(OneCall(q, <<>>), "and", p)), Binary(Not(p), "or", Not(q))}
Values == {p, True, Index(p, key), OneCall(q, <<a>>), Not(q)}
Chosen ==
  {<<If(x, <<Set("a", y)>>, <<Set("a", z)>>), s>> :
     x \in Conditions, y \in Values \ {OneCall(q, <<a>>)}, z \in Values \ {OneCall(q, <<a>>)},
     s \in {Return(<<a>>), CallStat(p, <<q, a>>)}}
    \cup {<<Set("a", x), If(y, <<Set("a", z)>>, <<>>), s>> :
           x \in Values \ {OneCall(q, <<a>>)}, y \in {a, Not(a), p}, z \in Values,
           s \in {Return(<<a>>), CallStat(a, <<p, a>>), CallStat(OneCall(q, <<>>), <<a>>)}}
Pieces == {<<>>, <<CallStat(p, <<>>)>>, <<Return(<<p>>)>>, <<CallStat(p, <<>>), CallStat(q, <<>>)>>}
Branches == {<<If(x, y, z), CallStat(q, <<p>>)>> : x \in Conditions, y \in Pieces, z \in Pieces}
              \cup {<<CallStat(q, <<p>>), If(x, <<If(y, z, <<>>)>>, w)>> :
                     x \in Conditions, y \in {q, Not(Binary(p, "<", q))}, z \in Pieces, w \in Pieces}

(* A table filled slot by slot; a is a key known only when it runs. *)
SlotRead == Index(t, key)
Filling == {p, up, one, Not(p), Index(p, key), OneCall(q, <<>>), SlotRead}
Between ==
  {<<>>, <<Set("b", Not(q))>>, <<Set("up", q)>>, <<CallStat(q, <<>>)>>, <<CallStat(q, <<t>>)>>,
   <<Assign(<<Index(t, one)>>, <<q>>)>>, <<Assign(<<Index(t, a)>>, <<q>>)>>, <<Assign(<<Index(p, key)>>, <<q>>)>>,
   <<Assign(<<SlotRead>>, <<q>>)>>, <<If(p, <<Assign(<<SlotRead>>, <<q>>)>>, <<>>)>>}
SlotUses ==
  {CallStat(p, <<SlotRead>>), CallStat(SlotRead, <<p>>), CallStat(p, <<OneCall(q, <<>>), SlotRead>>),
   CallStat(p, <<Index(t, one), SlotRead>>), CallStat(p, <<Index(t, a), SlotRead>>),
   Return(<<SlotRead, p>>), Return(<<SlotRead, SlotRead>>), Return(<<t>>), Return(<<Binary(p, "and", SlotRead)>>),
   Assign(<<SlotRead>>, <<OneCall(p, <<SlotRead>>)>>), Assign(<<Index(p, SlotRead)>>, <<q>>),
   Assign(<<Index(p, key)>>, <<SlotRead>>), MethodStat(SlotRead, "m", <<p>>), MethodStat(p, "m", <<SlotRead>>),
   Set("up", SlotRead)}
Slotted ==
  {<<If(q, <<Set("a", key)>>, <<Set("a", one)>>), Set("t", Table(<<>>)), Assign(<<SlotRead>>, <<x>>)>>
     \o y \o <<s, Return(<<SlotRead>>)>> : x \in Filling, y \in Between, s \in SlotUses \ {Return(z) : z \in {<<t>>}}}
    \cup {<<Set("t", Table(<<p>>)), Assign(<<SlotRead>>, <<x>>)>> \o y \o <<s>> :
           x \in Filling, y \in Between, s \in SlotUses}

(* Loops: guards, early exits, and conditions that read the body's locals. *)
Guards ==
  {<<If(x, <<y>>, <<>>)>> : x \in {Index(p, key), b}, y \in {Break, Continue, Return(<<q>>)}}
    \cup {<<>>, <<If(b, <<Break>>, <<Continue>>)>>, <<If(b, <<If(p, <<Continue>>, <<>>), CallStat(q, <<b>>)>>, <<Break>>)>>}
Tails == {<<>>, <<CallStat(q, <<>>)>>, <<If(b, <<CallStat(p, <<b>>), CallStat(q, <<>>)>>, <<>>)>>,
          <<If(b, <<CallStat(p, <<b>>), CallStat(q, <<>>)>>, <<Break>>)>>}
LoopBodies == {<<Set("b", OneCall(p, <<>>))>> \o x \o y \o z :
                x \in Guards, y \in {<<>>, <<Set("c", OneCall(q, <<b>>))>>}, z \in Tails}
Loops ==
  {<<s, CallStat(q, <<p>>)>> :
     s \in {While(x, body) : x \in {p, True}, body \in LoopBodies}
           \cup {For("i", <<one, p>>, body) : body \in LoopBodies}
           \cup {Repeat(x, body) : x \in {q, b}, body \in LoopBodies}
           \cup {Repeat(Binary(Not(b), "and", c), body) :
                  body \in {l \in LoopBodies :
                              /\ \E n \in DOMAIN l : StatWrites(l[n]) = {"c"}
                              /\ If(Index(p, key), <<Continue>>, <<>>) \notin ToSet(l)}}}

(* Four locals, each used after it is defined by any of the statements        *)
(* behind it; alone, and in a loop whose condition reads one of them.         *)
Names == <<"a", "b", "c", "d">>
UsesOf(uses) ==
  FlattenSeq([n \in 1 .. 4 |->
    <<Set(Names[n], OneCall(q, <<>>))>>
      \o (IF uses[n] = {} THEN <<>> ELSE <<CallStat(p, [m \in 1 .. Cardinality(uses[n]) |->
            Local(SelectSeq(Names, LAMBDA x : \E k \in uses[n] : Names[k] = x)[m])])>>)])
Spread == {uses \in [1 .. 4 -> SUBSET (1 .. 4)] :
            /\ \A n \in 1 .. 4 : uses[n] \subseteq 1 .. n /\ Cardinality(uses[n]) \in {0, 2}
            /\ uses[4] # {}}
Crowded ==
  {UsesOf(uses) \o s : uses \in Spread, s \in {<<>>, <<Return(<<a>>)>>, <<Return(<<c, a>>)>>}}
    \cup {<<Repeat(x, UsesOf(uses))>> :
           uses \in {u \in Spread : Cardinality({n \in 1 .. 4 : 4 \in u[n]}) # 1}, x \in {d}}
    \cup {<<Repeat(x, UsesOf(uses))>> :
           uses \in {u \in Spread : Cardinality({n \in 1 .. 4 : 1 \in u[n]}) # 1}, x \in {a}}
    \cup {<<Set("i", OneCall(q, <<>>)), CallStat(Local("i"), <<Local("i")>>), While(p, UsesOf(uses))>> : uses \in Spread}

(* Two of them defined in both branches, so that one statement declares them, *)
(* and two in a loop of their own.                                            *)
Paired(uses) ==
  LET all == UsesOf(uses)
      rest == SelectSeq(all, LAMBDA s : s.kind # "assign" \/ StatWrites(s) \cap {"a", "b"} = {})
      both == <<Set("a", OneCall(q, <<>>)), Set("b", OneCall(p, <<>>))>>
  IN <<If(p, both, Reverse(both))>> \o rest
Inner == <<Set("t", OneCall(q, <<>>)), Set("i", OneCall(q, <<t>>)), CallStat(p, <<t, Local("i")>>), CallStat(Local("i"), <<t>>)>>
Nested ==
  {x \o Paired(uses) \o s : x \in {<<>>, <<While(p, Inner)>>}, uses \in Spread, s \in {<<>>, <<Return(<<b>>)>>}}
    \cup {SubSeq(UsesOf(uses), 1, n) \o <<While(p, Inner)>> \o SubSeq(UsesOf(uses), n + 1, Len(UsesOf(uses))) \o s :
           uses \in Spread, n \in 1 .. 3, s \in {<<>>, <<Return(<<b>>)>>}}

MCCases ==
  In(Straight, {"luau"}) \cup In(Slotted, {"lua51"}) \cup In(Nested, {"luau"})
    \cup Both(Chosen \cup Branches \cup Loops \cup Crowded)

(* Two temporaries of which a call takes the first before the second is read. *)
GroupCases ==
  Both({<<Set("a", x), Set("b", y), CallStat(p, <<OneCall(q, <<a>>), b>>)>> : x \in {one, Not(p)}, y \in Effects})

(* A copy in a branch that is read there, and behind the branch.              *)
EscapeCases == Both({<<Set("a", q), If(p, <<Set("a", up), CallStat(q, <<a>>)>>, <<>>), CallStat(q, <<a>>)>>})

MCOracles ==
  {[truth |-> [n \in 1 .. EventLimit |-> f[n % 3]], params |-> g, targetsFirst |-> g["q"]] :
     f \in [0 .. 2 -> BOOLEAN],
     g \in {("p" :> TRUE) @@ ("q" :> x) @@ ("up" :> ~x) : x \in BOOLEAN}
            \cup {("p" :> FALSE) @@ ("q" :> TRUE) @@ ("up" :> TRUE)}}
=============================================================================
