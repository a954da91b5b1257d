---------------------------- MODULE LuauMeaning ----------------------------
(* What the lifted graph of a Luau prototype does, and what lifting promises  *)
(* about it.                                                                  *)
EXTENDS LuauLifter, GraphMeaning

Machine == INSTANCE LuauMachine

(* Registers hold something, the parameters what the caller passed.           *)
BeginGraph(bits) ==
  [Machine!Begin(function, bits) EXCEPT !.reg = [r \in DOMAIN @ |->
     IF r < function.parameters THEN @[r] ELSE <<"garbage">>]]

(* Every execution of a lifted function makes the calls, the accesses and the *)
(* tests of the words a compiler wrote, on the same values and in the same    *)
(* order: jumps over auxiliary words, open results, fast calls, loops and     *)
(* class members included. (lifter.rs, as a whole)                            *)
LiftedMeansTheSame ==
  stage = "lifted" /\ words.compiled =>
    \A bits \in Oracles :
      SameEvents(Machine!Executed(words, bits), ExecuteGraph(blocks, BeginGraph(bits), <<"entry", 0>>))

(* What a compiler wrote is lifted: the refusals of the lifter, above all its *)
(* search for the one test of a numeric loop, are for other code.             *)
(* (lifter.rs:1453)                                                           *)
CompiledLifts == words.compiled => stage # "refused"
=============================================================================
