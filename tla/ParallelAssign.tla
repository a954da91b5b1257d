--------------------------- MODULE ParallelAssign ---------------------------
(***************************************************************************)
(* What an edge of the SSA graph promises: every argument is read before   *)
(* any parameter of the target block is written.                           *)
(***************************************************************************)
EXTENDS EdgeAssignment

VARIABLES
  assignment,     \* the assignment of the edge
  values,         \* what every local holds
  assigned        \* whether the assignment was executed

assignVars == <<assignment, values, assigned>>

Init ==
    /\ assignment \in Seq(Side)
    /\ values = Initially
    /\ assigned = FALSE

Assign ==
    /\ ~ assigned
    /\ assigned' = TRUE
    /\ values' = After(assignment)
    /\ UNCHANGED assignment

Spec == Init /\ [][Assign]_assignVars /\ WF_assignVars(Assign)
=============================================================================
