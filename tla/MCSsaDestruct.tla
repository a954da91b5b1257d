--------------------------- MODULE MCSsaDestruct ---------------------------
(* Functions for which the analysis numbers the blocks as a search of the  *)
(* dominator tree would, in which no statement defines two locals, and in  *)
(* which no copy is shared: Nested is one of the others.                   *)
EXTENDS SsaDestruct

Op(reads) == [copy |-> FALSE, reads |-> reads]
Let(l, v) == [left |-> <<l>>, right |-> <<v>>]
Use(reads) == [left |-> <<>>, right |-> <<Op(reads)>>]

(* A branch: each side passes values for the parameters 5 and 6 of the     *)
(* join, where some locals are read.                                       *)
Branch(code, group, as, bs, cs, ds, reads) ==
    {[next |-> (0 :> <<1, 2>> @@ 1 :> <<3>> @@ 2 :> <<3>> @@ 3 :> <<>>),
      code |-> (0 :> code @@ 1 :> <<>> @@ 2 :> <<>> @@ 3 :> <<Use(read)>>),
      params |-> (0 :> <<>> @@ 1 :> <<>> @@ 2 :> <<>> @@ 3 :> <<5, 6>>),
      args |-> (1 :> (5 :> CopyOf(a) @@ 6 :> CopyOf(b)) @@ 2 :> (5 :> CopyOf(c) @@ 6 :> CopyOf(d))),
      forNext |-> {}, group |-> group] :
        a \in as, b \in bs, c \in cs, d \in ds, read \in reads}

Three(v) == <<Let(1, Op({})), Let(2, Op({})), Let(3, v)>>

Branches ==
    Branch(Three(Op({1})), {}, {1, 3}, {1, 2}, 1 .. 3, {2, 3}, {{5, 6}, {1, 6}}) \cup
    Branch(Three(CopyOf(1)), {}, {1}, {1, 2}, {1, 2}, {2}, {{3, 5}}) \cup
    Branch(Three(CopyOf(1)), {1}, {3}, {2}, {2}, {2}, {{1, 5, 6}, {2, 5}})

(* A loop whose head has the parameters 5 and 6; its exit may have one     *)
(* too, and then its edge gets a block, which may be undesirable.          *)
Loop(group, bs, cs, ds, exits, reads) ==
    {[next |-> (0 :> <<1>> @@ 1 :> <<2, 3>> @@ 2 :> <<1>> @@ 3 :> <<>>),
      code |-> (0 :> <<Let(1, Op({})), Let(2, Op({}))>> @@ 1 :> <<Let(3, Op({5}))>>
                @@ 2 :> <<Let(4, Op({6}))>> @@ 3 :> <<Use(read)>>),
      params |-> (0 :> <<>> @@ 1 :> <<5, 6>> @@ 2 :> <<>> @@ 3 :> exit),
      args |-> (0 :> (5 :> CopyOf(1) @@ 6 :> CopyOf(b)) @@ 2 :> (5 :> CopyOf(c) @@ 6 :> CopyOf(d))
                @@ 1 :> (7 :> CopyOf(5))),
      forNext |-> IF exit = <<>> THEN {} ELSE {1}, group |-> group] :
        b \in bs, c \in cs, d \in ds, read \in reads, exit \in exits}

Loops ==
    Loop({}, {1, 2}, {3, 4, 6}, {2, 3, 5}, {<<>>, <<7>>}, {{5, 6}, {1, 6}}) \cup
    Loop({1, 4, 5}, {2}, {4}, {3, 6}, {<<>>}, {{5, 6}})

(* if q then d = f(); if p then x = d else x = g(); h(d) end               *)
(* else x = k() end; return x                                              *)
Nested(arms) ==
    {[next |-> (0 :> <<1, 2>> @@ 1 :> arms @@ 2 :> <<5>> @@ 3 :> <<5>> @@ 4 :> <<5>> @@ 5 :> <<>>),
      code |-> (0 :> <<>> @@ 1 :> <<Let(1, Op({}))>> @@ 2 :> <<Let(3, Op({}))>> @@ 3 :> <<>>
                @@ 4 :> <<Let(2, Op({})), Use({1})>> @@ 5 :> <<Use({5})>>),
      params |-> (0 :> <<>> @@ 1 :> <<>> @@ 2 :> <<>> @@ 3 :> <<>> @@ 4 :> <<>> @@ 5 :> <<5>>),
      args |-> (2 :> (5 :> CopyOf(3)) @@ 3 :> (5 :> CopyOf(1)) @@ 4 :> (5 :> CopyOf(2))),
      forNext |-> {}, group |-> {}]}

MCFunctions == Branches \cup Loops \cup Nested(<<4, 3>>)

(* No function of the family uses 150: the work runs out at every step of  *)
(* some of them, at every third amount in the long ones, and not at all.   *)
MCBudgets == (0 .. 40) \cup {3 * n : n \in 14 .. 50} \cup {200}

NestedFunctions == Branches \cup Nested(<<3, 4>>)
=============================================================================
