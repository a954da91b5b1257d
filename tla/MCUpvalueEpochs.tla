-------------------------- MODULE MCUpvalueEpochs --------------------------
(* Functions of five blocks of one statement: two branches that join; a    *)
(* branch with a way around it; two conditionals in a row; loops with a    *)
(* conditional, with two exits, and with two entries.  They are what a     *)
(* compiler emits, or capture a register at once and then do anything.     *)
EXTENDS UpvalueEpochs

Shape(s0, s1, s2, s3, s4) ==
    [n \in Nodes |-> CASE n = 0 -> s0 [] n = 1 -> s1 [] n = 2 -> s2 [] n = 3 -> s3 [] n = 4 -> s4]

Shapes ==
    {Shape({1, 2}, {3}, {3}, {4}, {}),
     Shape({1, 3}, {2, 3}, {4}, {4}, {}),
     Shape({1, 2}, {2}, {3, 4}, {4}, {}),
     Shape({1}, {2, 3}, {3}, {1, 4}, {}),
     Shape({1}, {2, 4}, {3, 4}, {1}, {}),
     Shape({1, 2}, {2, 3}, {1, 3}, {4}, {})}

(* What a block may do if it begins, and its successors begin, with a      *)
(* variable in the register or with none.  A read differs from a write     *)
(* only in that it is never observed: the capturing functions have both.   *)
Possible(before, after) ==
    CASE before /\ after     -> {"capture", "write"}
      [] before /\ ~ after   -> {"close"}
      [] ~ before /\ after   -> {"declare", "function"}
      [] ~ before /\ ~ after -> {"write", "close"}

Codes(next, holds) ==
    LET options == [n \in Nodes |-> UNION {Possible(holds[n], after) :
                        after \in {b \in BOOLEAN : \A m \in next[n] : holds[m] = b}}]
    IN  {[n \in Nodes |-> <<c0, c1, c2, c3, c4>>[n + 1]] :
            c0 \in options[0], c1 \in options[1], c2 \in options[2],
            c3 \in options[3], c4 \in options[4]}

(* The variables the blocks begin with.                                    *)
Scopes(next, code, variable) ==
    LET scopes[n \in 0 .. Cardinality(Nodes)] ==
            IF n = 0 THEN [m \in Nodes |-> IF m = Entry THEN {variable} ELSE {}]
            ELSE [m \in Nodes |-> scopes[n - 1][m] \cup
                    UNION {{ScopeAfter(v, code[k], <<k, 1>>) : v \in scopes[n - 1][k]} :
                            k \in {l \in Nodes : m \in next[l]}}]
    IN  [n \in Nodes |-> CHOOSE v \in scopes[Cardinality(Nodes)][n] : TRUE]

FunctionOf(next, code, variable) ==
    [next |-> next, code |-> [n \in Nodes |-> <<code[n]>>], scope |-> Scopes(next, code, variable)]

FunctionsFor(next, holds) ==
    {FunctionOf(next, code, IF holds[Entry] THEN <<Entry, 0>> ELSE Nothing) :
        code \in {c \in Codes(next, holds) : \E n \in Nodes : IsCapture(c[n])}}

LexicalFunctions ==
    {f \in UNION {FunctionsFor(next, holds) : next \in Shapes, holds \in [Nodes -> BOOLEAN]} :
        IsLexical(f)}

CapturingFunctions ==
    {[next |-> next, code |-> [n \in Nodes |-> IF n = Entry THEN <<"capture">> ELSE <<code[n]>>],
      scope |-> [n \in Nodes |-> Nothing]] :
        next \in Shapes, code \in [Nodes \ {Entry} -> {"write", "read", "close"}]}

MCFunctions == LexicalFunctions \cup CapturingFunctions
=============================================================================
