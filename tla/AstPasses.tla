----------------------------- MODULE AstPasses -----------------------------
(***************************************************************************)
(* The passes over one function body, from the block that restructuring    *)
(* leaves to the block that is printed, in the order of decompile_function *)
(* and decompile_chunk of the two dialects: rounds of alias elimination,   *)
(* slot folding and expression recovery, the clean-up of control flow,     *)
(* declarations, for Lua 5.1 the lowering of continue, validation,         *)
(* narrowing, joining, validation again.                                   *)
(*                                                                         *)
(* Linking and naming run between the two validations in the code; they    *)
(* change which identity a local has and what it is called, and no order,  *)
(* and are no steps here.                                                  *)
(***************************************************************************)
EXTENDS AstRecovery

CONSTANTS
  Cases,            \* [program, upvalues, params, dialect], where a run may start
  RecoveryRounds,   \* how often recovery runs (RECOVERY_ROUNDS)
  FlagNames, EventLimit,
  LocalOrder, FunctionBudget, MinScopeDeclarations, MinimumBudget, MaxAddedDepth, MaxGroup,
  Oracles           \* what the world may do in a run

INSTANCE AstCleanup
INSTANCE AstScopes

Meaning == INSTANCE AstMeaning

ASSUME BudgetsAreNaturals ==
  {RecoveryRounds, SlotScanLimit, FunctionBudget, MinScopeDeclarations, MinimumBudget,
   MaxAddedDepth, MaxGroup} \subseteq Nat

VARIABLES
  case,      \* the function: what it starts from
  block,     \* its body now
  stage,     \* the pass that runs next, or how the run ended
  round,     \* the rounds of recovery begun
  changed    \* whether this round has changed anything

vars == <<case, block, stage, round, changed>>

Init ==
  /\ case \in Cases
  /\ block = case.program
  /\ stage = "aliases"
  /\ round = 1
  /\ changed = FALSE

IsLua51 == case.dialect = "lua51"

Upvalues == ToSet(case.upvalues)
InitiallyVisible == Upvalues \cup ToSet(case.params)

\* Locals whose variable others share: the upvalues, and what a closure in
\* the body captures by reference.
ProtectedLocals == Upvalues \cup ReferenceCaptures(block)

\* Recovery: one pass, and what it changed.
Pass(from, to, result) ==
  /\ stage = from
  /\ block' = result
  /\ changed' = (changed \/ result # block)
  /\ stage' = to
  /\ UNCHANGED <<case, round>>

Aliases == Pass("aliases", "slots", EliminateAliases(block, ProtectedLocals))

\* A parameter may hold the caller's table.
Unfoldable == ProtectedLocals \cup ToSet(case.params)
Slots == Pass("slots", "expressions", FoldTableSlots(block, Unfoldable))

Expressions ==
  Pass("expressions", "round", RecoverBlock(block, ProtectedLocals, ~IsLua51))

MayGoOn == changed /\ round < RecoveryRounds

NextRound ==
  /\ stage = "round" /\ MayGoOn
  /\ stage' = "aliases" /\ round' = round + 1 /\ changed' = FALSE
  /\ UNCHANGED <<case, block>>

\* The passes that run once.
Once(from, to, result) ==
  /\ stage = from
  /\ block' = result
  /\ stage' = to
  /\ UNCHANGED <<case, round, changed>>

Cleanup == ~MayGoOn /\ Once("round", "declare", CleanupControlFlow(block, ~IsLua51))

Declarations ==
  Once("declare", IF IsLua51 THEN "continues" ELSE "validate", DeclareLocals(block, InitiallyVisible))

Continues == Once("continues", "validate", LowerContinues(block))

\* An unresolved binding fails the function.
Validate(from, to) ==
  Once(from, IF ValidBindings(block, InitiallyVisible) THEN to ELSE "failed", block)

ValidateDeclared == Validate("validate", "narrow")
NarrowScopes     == Once("narrow", "combine", NarrowLocalScopes(block))
Combine          == Once("combine", "revalidate", CombineDeclarations(block))
ValidateFinal    == Validate("revalidate", "done")

Next ==
  \/ Aliases \/ Slots \/ Expressions \/ NextRound \/ Cleanup
  \/ Declarations \/ Continues \/ ValidateDeclared
  \/ NarrowScopes \/ Combine \/ ValidateFinal

Spec == Init /\ [][Next]_vars

(***************************************************************************)
(* Properties.                                                             *)
(***************************************************************************)
InitialValues ==
  [x \in ToSet(LocalOrder) |->
    IF x \in InitiallyVisible THEN <<"par", x>> ELSE <<"lit", "nil">>]

OutcomeOf(b, oracle) == Meaning!Outcome(b, InitialValues, case.upvalues, oracle)

\* What a pass leaves does what it was given: the same calls, lookups and
\* stores in the same order, with the same values, seeing the same captured
\* locals, whatever the world answers (every pass moves, merges or drops
\* statements, and decides on its own that nothing can tell).
PassesKeepMeaning ==
  [][block' # block =>
       \A oracle \in Oracles : OutcomeOf(block', oracle) = OutcomeOf(block, oracle)]_vars

\* Work that can be observed is done in the order it was done in: folding a
\* run of temporaries into the statement that reads them walks its operands
\* "in evaluation order" and rejects "anything that would move observable
\* work across them" (GroupOrder::walk).
WorkKeepsItsOrder ==
  \A oracle \in Oracles : OutcomeOf(block, oracle).trace = OutcomeOf(case.program, oracle).trace

\* Validation never refuses a function: declarations are placed around every
\* use, no name is declared over one that is in scope, and neither the loops
\* that replace continue nor the scopes that release registers close over
\* a local that is read behind them.
BindingsResolve == stage # "failed"

RECURSIVE Strays(_, _)
\* The breaks outside loops, and the continues.
Strays(b, inLoop) ==
  UNION {CASE s.kind = "continue" -> {"continue"}
           [] s.kind = "break" -> IF inLoop THEN {} ELSE {"break"}
           [] OTHER -> UNION {Strays(s.blocks[i], inLoop \/ s.kind \in {"while", "repeat", "for"}) :
                               i \in DOMAIN s.blocks} : s \in ToSet(b)}

\* A Lua 5.1 function is printed without continue, which its language does
\* not have, and with every break in a loop.
Lua51HasNoContinue == stage = "done" /\ IsLua51 => Strays(block, FALSE) = {}

RECURSIVE PeakScope(_, _)
\* The most locals in scope at once, when n already are.
PeakScope(b, n) ==
  FoldLeft(LAMBDA acc, s :
    LET now == acc.n + Len(DeclaredBy(s))
        inner == IF s.kind = "for" THEN now + 1 ELSE now
        peaks == {PeakScope(s.blocks[i], inner) : i \in DOMAIN s.blocks}
    IN [n |-> now, peak |-> LargestOf({acc.peak, now} \cup peaks)],
    [n |-> n, peak |-> n], b).peak

RECURSIVE BlocksIn(_)
\* A block and those nested in it.
BlocksIn(b) == {b} \cup UNION {UNION {BlocksIn(s.blocks[i]) : i \in DOMAIN s.blocks} : s \in ToSet(b)}

\* The most names that one statement of a block declares.
Widest(b) == LargestOf({0} \cup {Len(DeclaredBy(s)) : s \in ToSet(b)})


\* Narrowing only releases registers: "so the locals they declare release
\* their registers early".  The code does not keep to it: a local held back
\* is declared in front of a scope whose blocks it is not used in.
NarrowingReleases ==
  [][stage = "narrow" /\ stage' = "combine" => PeakScope(block', 0) <= PeakScope(block, 0)]_vars
=============================================================================
