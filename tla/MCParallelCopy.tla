--------------------------- MODULE MCParallelCopy ---------------------------
(* All assignments of at most MaxWidth of the locals, each to one of the   *)
(* locals or to something that reads no target: every chain, fan-out and   *)
(* set of cycles of that many locals.  Nothing tells the locals apart, so  *)
(* one order of destinations stands for all.                               *)
EXTENDS ParallelCopy

CONSTANTS MaxWidth, x1, x2, x3, x4, x5

MCOrder == <<x1, x2, x3, x4, x5>>
MCLocals == ToSet(MCOrder)

(* What the locals in read may be assigned.  A constant is the same        *)
(* whatever its side names.                                                *)
MCRights(read) == [kind : {"local"}, of : Locals]
                  \cup [kind : {"expression"}, of : read]
                  \cup {[kind |-> "constant", of |-> x1]}

MCSides(rights) ==
    [i \in DOMAIN rights |-> [dst |-> MCOrder[i], kind |-> rights[i].kind, of |-> rights[i].of]]

MCAssignments ==
    UNION {{MCSides(r) : r \in [1 .. n -> MCRights(Locals \ ToSet(SubSeq(MCOrder, 1, n)))]}
               : n \in 1 .. MaxWidth}
=============================================================================
