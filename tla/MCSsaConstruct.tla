--------------------------- MODULE MCSsaConstruct ---------------------------
(* Functions over two registers for SsaConstruct: every choice of statements  *)
(* for the blocks of small graphs, without and with a captured register.      *)
EXTENDS SsaConstruct

Stmt(left, right, kind, copy) == [left |-> left, right |-> right, kind |-> kind, copy |-> copy]
Def(r) == Stmt(<<r>>, <<>>, "assign", FALSE)
Copy(r, q) == Stmt(<<r>>, <<q>>, "assign", TRUE)
Use(r) == Stmt(<<>>, <<r>>, "use", FALSE)
Call == Stmt(<<>>, <<>>, "call", FALSE)
Capture(r) == Stmt(<<3>>, <<r>>, "closure", FALSE)
Close(r) == Stmt(<<>>, <<r>>, "close", FALSE)

Diamond == (0 :> <<1, 2>>) @@ (1 :> <<3>>) @@ (2 :> <<3>>) @@ (3 :> <<>>)
Loop == (0 :> <<1>>) @@ (1 :> <<2, 3>>) @@ (2 :> <<1>>) @@ (3 :> <<>>)
TwoJoins == (0 :> <<1, 2>>) @@ (1 :> <<2>>) @@ (2 :> <<3, 4>>) @@ (3 :> <<4>>) @@ (4 :> <<>>)
Irreducible == (0 :> <<1, 2>>) @@ (1 :> <<2, 3>>) @@ (2 :> <<1>>) @@ (3 :> <<>>)
TwiceInto == (0 :> <<1, 1>>) @@ (1 :> <<2, 1>>) @@ (2 :> <<>>)

LastOf(next) == CHOOSE n \in DOMAIN next : next[n] = <<>>

MergesOf(next) == {n \in DOMAIN next : Cardinality({e \in (DOMAIN next) \X {1, 2} : e[2] \in DOMAIN next[e[1]] /\ next[e[1]][e[2]] = n}) > 1}

Plain == {<<>>, <<Def(1)>>, <<Copy(2, 1)>>, <<Copy(1, 2)>>}
WithPlain(next) ==
  {[next |-> next, code |-> [n \in DOMAIN next |-> IF next[n] = <<>> THEN <<Use(1), Use(2)>> ELSE body[n]],
    parameters |-> {1, 2}, upvalues |-> {}] : body \in [DOMAIN next \ {LastOf(next)} -> Plain]}

(* The entry captures register 1, or register 2 when 1 is an upvalue. Blocks  *)
(* in "mentioned" read it first; the last one closes it and uses it again.    *)
Boxed == {<<>>, <<Def(1)>>, <<Copy(2, 1), Call>>, <<Call, Copy(1, 2)>>}
Written == {<<>>, <<Def(1)>>, <<Call>>}
WithCapture(next, up, blocks, mentioned) ==
  LET r == IF up = {} THEN 1 ELSE 2 IN
  {[next |-> next,
    code |-> [n \in DOMAIN next |->
       (IF n = 0 THEN <<Capture(r)>> ELSE IF n \in mentioned THEN <<Use(r)>> ELSE <<>>)
       \o (IF next[n] = <<>> THEN <<Use(1), Use(2), Close(r), Def(r), Use(r)>> ELSE body[n])],
    parameters |-> {1, 2} \ up, upvalues |-> up] : body \in [DOMAIN next \ {LastOf(next)} -> blocks]}

MCFunctions ==
  UNION {WithPlain(g) : g \in {Diamond, Loop, TwoJoins, Irreducible, TwiceInto}}
  \cup UNION {WithCapture(g, up, Boxed, MergesOf(g)) : g \in {Diamond, Loop, TwiceInto}, up \in {{}, {1}}}

MCMerged == WithCapture(TwoJoins, {}, Written, {})
=============================================================================
