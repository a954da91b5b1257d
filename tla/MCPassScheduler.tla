-------------------------- MODULE MCPassScheduler --------------------------
(* Lists of two passes over four forms of a function, one of which has an  *)
(* entry that is not a block and stays like that.  The first pass does     *)
(* anything and reports truly; the second may also report too much or too  *)
(* little.                                                                 *)
EXTENDS PassScheduler

CONSTANTS a, b, c, broken

Moves == {move \in [Functions -> Functions] : \A f \in Broken : move[f] = f}

Reporting(move, report(_)) == [f \in Functions |-> [function |-> move[f], change |-> report(f)]]

Truly(move, kinds) == Reporting(move, LAMBDA f : IF move[f] = f THEN {} ELSE kinds)

FirstPasses == {Truly(move, {"cfg", "ast"}) : move \in Moves}

SecondPasses ==
    {Truly(move, {"dataflow", "ast"}) : move \in Moves}
    \cup {Reporting(move, LAMBDA f : change) : move \in Moves, change \in {{}, {"regions"}}}

MCPasses == {<<p, q>> : p \in FirstPasses, q \in SecondPasses}

MCFingerprints == [f \in Functions |-> f]
=============================================================================
