---------------------------- MODULE Lua51Meaning ----------------------------
(* What the lifted graph does, in the terms of Lua51Machine, and what lifting *)
(* promises about it.                                                         *)
EXTENDS Lua51Lifter, GraphMeaning

(* Registers hold something, the parameters what the caller passed.           *)
BeginGraph(bits) ==
  [Begin(function, bits) EXCEPT !.reg = [r \in DOMAIN @ |-> IF r \in Parameters THEN @[r] ELSE <<"garbage">>]]

(* Every execution of a lifted function makes the calls, the accesses and the *)
(* tests of the words it was read from, on the same values and in the same    *)
(* order, whatever order the assignments between blocks are inserted in.      *)
(* (lifter.rs, as a whole)                                                    *)
LiftedMeansTheSame ==
  stage = "lifted" =>
    \A bits \in Oracles :
      SameEvents(Executed(words, words.code, bits), ExecuteGraph(blocks, BeginGraph(bits), <<"entry", 0>>))

(* The last instruction loads a boolean and does not skip, and no jump leads  *)
(* behind it: nothing there is a block.                                       *)
EndsInBoolean(f) ==
  LET i == At(f, CodeSize(f) - 1) IN
  i.op = "LoadBoolean" /\ ~i.skip_next /\ CodeSize(f) \notin ControlFlowBlockStarts(f)

(* A function that the checks accept is lifted without a register, constant,  *)
(* block or open result missing, however it ends, with one exception that is  *)
(* exact: nothing checks that a LOADBOOL without skip is followed by anything *)
(* (validate.rs:438), and the lifter, when it is through with all else, asks  *)
(* for the block behind it (lifter.rs:1027).                                  *)
ValidatedLifts ==
  /\ failed => EndsInBoolean(function) /\ starts = {} /\ pc = CodeSize(function)
  /\ stage = "lifted" => ~EndsInBoolean(function)

(* Without the exception: whatever validation accepts can be lifted.          *)
AcceptedLifts == ~failed

(* The functions that lifting numbers are those the expansion plan counted:   *)
(* the chunk is given up when they differ (lib.rs:94).                        *)
PlanIsLifted == stage = "lifted" => instances = ExpansionPlan(function).instances
=============================================================================
