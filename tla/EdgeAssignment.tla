--------------------------- MODULE EdgeAssignment ---------------------------
(***************************************************************************)
(* The assignment that SSA destruction leaves for an edge of the graph     *)
(* (Destructor::lift_block_params, cfg/src/ssa/destruct.rs): the temporary *)
(* of every parameter of the target block gets the argument the edge       *)
(* passes, all at once.                                                    *)
(***************************************************************************)
EXTENDS Integers, Sequences

CONSTANTS
  Locals,         \* the locals of the function
  Assignments     \* the parallel assignments: sequences of sides

(* dst is assigned a local ("local"), a constant ("constant") or a larger  *)
(* expression that reads a local ("expression").                           *)
Side == [dst : Locals, kind : {"local", "constant", "expression"}, of : Locals]

(* The temporaries are different locals.                                   *)
ASSUME AssignmentsAssumption ==
    \A a \in Assignments :
        /\ a \in Seq(Side) /\ a # <<>>
        /\ \A i, j \in 1 .. Len(a) : a[i].dst = a[j].dst => i = j

(* Values are symbolic: what a local holds at first is named after it.     *)
Holds(x) == <<"local", x>>

Value(side, memory) ==
    CASE side.kind = "local"      -> memory[side.of]
      [] side.kind = "constant"   -> <<"constant">>
      [] side.kind = "expression" -> <<"expression", memory[side.of]>>

Initially == [x \in Locals |-> Holds(x)]

(* The memory after all right sides were read and all left sides written.  *)
After(a) ==
    [x \in Locals |->
        IF \E i \in 1 .. Len(a) : a[i].dst = x
        THEN Value(a[CHOOSE i \in 1 .. Len(a) : a[i].dst = x], Initially)
        ELSE Holds(x)]
=============================================================================
